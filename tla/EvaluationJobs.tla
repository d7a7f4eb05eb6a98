--------------------------- MODULE EvaluationJobs ---------------------------
(***************************************************************************)
(* The evaluation queue: the evaluation_jobs and evaluations tables, and   *)
(* the worker processes that poll them (worker.py and the job methods of   *)
(* DatabaseStore).                                                         *)
(*                                                                         *)
(* claim_job and renew_job_lease change the table by UPDATE statements     *)
(* whose WHERE clause is their guard, so each is one step.  finish_job and *)
(* fail_job first SELECT the row they own and later write it by primary    *)
(* key, under READ COMMITTED and without a row lock or a version column:   *)
(* each read and the commit are steps of their own, and the commit does    *)
(* not look at the row again.                                              *)
(*                                                                         *)
(* Timestamps are kept as what the guards ask of them: `lease' says        *)
(* whether lease_until is unset, ahead or behind the clock, `due' whether  *)
(* available_at has come.  last_error, provenance and the order among due  *)
(* jobs are not kept: any due job may be the one that is picked.           *)
(***************************************************************************)
EXTENDS Naturals

CONSTANTS
    Job,             \* jobs inserted by accept_submission
    Orphan,          \* jobs whose submission row is gone (deletion race)
    Proc,            \* worker processes
    WorkerId,        \* the worker_id each process passes to the store
    MaxAttempts,     \* settings.worker_max_attempts
    HolderMayStall,  \* may a lease run out while its holder is still at work?
    NoWorker,        \* lease_owner NULL
    NoJob            \* an idle process

ASSUME OrphanAssumption == Orphan \subseteq Job
ASSUME WorkerIdAssumption == \A p \in Proc : p \in DOMAIN WorkerId /\ WorkerId[p] # NoWorker
ASSUME MaxAttemptsAssumption == MaxAttempts \in Nat \ {0}
ASSUME StallAssumption == HolderMayStall \in BOOLEAN
ASSUME NoJobAssumption == NoJob \notin Job

VARIABLES
    job,         \* evaluation_jobs
    evaluation,  \* evaluations: the attempt whose verdict is stored, 0 if none
    announced,   \* number of EVALUATION_SUCCEEDED events per job
    worker       \* what each process is doing

vars == <<job, evaluation, announced, worker>>

WorkerIds == {WorkerId[p] : p \in Proc}

Steps == {"idle", "evaluating", "finish_evaluation", "finish_commit",
          "fail_read", "fail_commit"}

JobRow == [status   : {"pending", "running", "succeeded", "failed"},
           attempts : Nat,
           owner    : WorkerIds \union {NoWorker},
           lease    : {"none", "live", "expired"},
           due      : BOOLEAN]

WorkerState == [pc      : Steps,
                job     : Job \union {NoJob},
                attempt : Nat,        \* job.attempts as claim_job returned it
                seen    : BOOLEAN]    \* finish_job found an evaluation row

TypeOK ==
    /\ job \in [Job -> JobRow]
    /\ evaluation \in [Job -> Nat]
    /\ announced \in [Job -> Nat]
    /\ worker \in [Proc -> WorkerState]
    /\ \A p \in Proc : worker[p].pc # "idle" => worker[p].job \in Job

\* Seeded fault: the row is born with a status no other query knows.
AcceptedQueued == [status |-> "queued", attempts |-> 0, owner |-> NoWorker,
                   lease |-> "none", due |-> TRUE]

Accepted == [status |-> "pending", attempts |-> 0, owner |-> NoWorker,
             lease |-> "none", due |-> TRUE]

Idle == [pc |-> "idle", job |-> NoJob, attempt |-> 0, seen |-> FALSE]

Init ==
    /\ job = [j \in Job |-> Accepted]
    /\ evaluation = [j \in Job |-> 0]
    /\ announced = [j \in Job |-> 0]
    /\ worker = [p \in Proc |-> Idle]

-----------------------------------------------------------------------------
(* The table. *)

\* Seeded fault: lease_until is not compared with the clock.
ExpiredAlways(j) == job[j].status = "running"

Expired(j) == job[j].status = "running" /\ job[j].lease = "expired"

\* WHERE clause of claim_job's first UPDATE.
Exhausted(j) == Expired(j) /\ job[j].attempts >= MaxAttempts

\* Seeded fault: the attempts limit is left to the sweep.
ClaimableUnlimited(j) == (job[j].status = "pending" \/ Expired(j)) /\ job[j].due

\* WHERE clause of its SELECT and of the UPDATE that takes the job.
Claimable(j) ==
    /\ job[j].status = "pending" \/ Expired(j)
    /\ job[j].due
    /\ job[j].attempts < MaxAttempts

Released(row, status, due) ==
    [status |-> status, attempts |-> row.attempts, owner |-> NoWorker,
     lease |-> "none", due |-> due]

\* Seeded fault: no sweep; exhausted jobs are only skipped.
NeverSwept == job

Swept ==
    [j \in Job |-> IF Exhausted(j) THEN Released(job[j], "failed", job[j].due) ELSE job[j]]

Taken(j, status, id) ==
    [status |-> status, attempts |-> job[j].attempts + 1, owner |-> id,
     lease |-> "live", due |-> job[j].due]

\* WHERE clause of renew_job_lease and of the SELECT of finish_job and fail_job.
Owns(p, j) == job[j].status = "running" /\ job[j].owner = WorkerId[p]

Holds(p, j) == worker[p].pc # "idle" /\ worker[p].job = j

Goto(p, step) == worker' = [worker EXCEPT ![p].pc = step]

GoIdle(p) == worker' = [worker EXCEPT ![p] = Idle]

-----------------------------------------------------------------------------
(* claim_job: sweep, select and take in one transaction. *)

Claim(p) ==
    /\ worker[p].pc = "idle"
    /\ \E j \in Job \ Orphan :
          /\ Claimable(j)
          /\ job' = [Swept EXCEPT ![j] = Taken(j, "running", WorkerId[p])]
          /\ worker' = [worker EXCEPT ![p] = [pc |-> "evaluating", job |-> j,
                                              attempt |-> job[j].attempts + 1,
                                              seen |-> FALSE]]
    /\ UNCHANGED <<evaluation, announced>>

\* The submission is missing: the job is failed, with the lease left in place.
ClaimOrphan(p) ==
    /\ worker[p].pc = "idle"
    /\ \E j \in Orphan :
          /\ Claimable(j)
          /\ job' = [Swept EXCEPT ![j] = Taken(j, "failed", WorkerId[p])]
    /\ UNCHANGED <<evaluation, announced, worker>>

\* No row selected: none is claimable, or all are locked by another claim
\* (FOR UPDATE SKIP LOCKED).  The sweep is committed all the same.
ClaimNothing(p) ==
    /\ worker[p].pc = "idle"
    /\ job' = Swept
    /\ UNCHANGED <<evaluation, announced, worker>>

(* _evaluate_with_lease. *)

Renew(p) ==
    /\ worker[p].pc = "evaluating"
    /\ Owns(p, worker[p].job)
    /\ job' = [job EXCEPT ![worker[p].job].lease = "live"]
    /\ UNCHANGED <<evaluation, announced, worker>>

LeaseLost(p) ==
    /\ worker[p].pc = "evaluating"
    /\ ~Owns(p, worker[p].job)
    /\ Goto(p, "fail_read")
    /\ UNCHANGED <<job, evaluation, announced>>

\* The catalog, the sandbox, the provider or _validate_evaluation raises.
EvaluationRaises(p) ==
    /\ worker[p].pc = "evaluating"
    /\ Goto(p, "fail_read")
    /\ UNCHANGED <<job, evaluation, announced>>

(* finish_job. *)

FinishReadJob(p) ==
    /\ worker[p].pc = "evaluating"
    /\ Owns(p, worker[p].job)
    /\ Goto(p, "finish_evaluation")
    /\ UNCHANGED <<job, evaluation, announced>>

FinishNotOwner(p) ==
    /\ worker[p].pc = "evaluating"
    /\ ~Owns(p, worker[p].job)
    /\ GoIdle(p)
    /\ UNCHANGED <<job, evaluation, announced>>

\* Seeded fault: the test for a stored verdict is inverted.
FinishReadEvaluationInverted(p) ==
    /\ worker[p].pc = "finish_evaluation"
    /\ worker' = [worker EXCEPT ![p].pc = "finish_commit",
                                ![p].seen = evaluation[worker[p].job] = 0]
    /\ UNCHANGED <<job, evaluation, announced>>

FinishReadEvaluation(p) ==
    /\ worker[p].pc = "finish_evaluation"
    /\ worker' = [worker EXCEPT ![p].pc = "finish_commit",
                                ![p].seen = evaluation[worker[p].job] # 0]
    /\ UNCHANGED <<job, evaluation, announced>>

\* Seeded fault: a finish overwrites the verdict it found.
OverwrittenVerdict(p) == worker[p].attempt

\* A verdict already stored is kept.
StoredVerdict(p) == IF worker[p].seen THEN evaluation[worker[p].job] ELSE worker[p].attempt

\* The job row is written by primary key.  A verdict stored since the read makes
\* the INSERT fail (FinishAborts).  The commit may take effect and its
\* acknowledgement be lost: run_once then calls fail_job.
FinishCommit(p) ==
    LET j == worker[p].job IN
    /\ worker[p].pc = "finish_commit"
    /\ worker[p].seen \/ evaluation[j] = 0
    /\ job' = [job EXCEPT ![j] = Released(job[j], "succeeded", job[j].due)]
    /\ evaluation' = [evaluation EXCEPT ![j] = StoredVerdict(p)]
    /\ announced' = [announced EXCEPT ![j] = @ + 1]
    /\ GoIdle(p) \/ Goto(p, "fail_read")

\* The transaction is rolled back: IntegrityError, an illegal progress
\* transition (ValueError), or the database is unreachable.
FinishAborts(p) ==
    /\ worker[p].pc \in {"finish_evaluation", "finish_commit"}
    /\ Goto(p, "fail_read")
    /\ UNCHANGED <<job, evaluation, announced>>

(* fail_job, and the `retry' that run_once computes from the attempt it claimed. *)

\* Seeded fault: fail_job looks the job up by id alone.
FailReadAnyJob(p) ==
    /\ worker[p].pc = "fail_read"
    /\ Goto(p, "fail_commit")
    /\ UNCHANGED <<job, evaluation, announced>>

FailReadJob(p) ==
    /\ worker[p].pc = "fail_read"
    /\ Owns(p, worker[p].job)
    /\ Goto(p, "fail_commit")
    /\ UNCHANGED <<job, evaluation, announced>>

FailNotOwner(p) ==
    /\ worker[p].pc = "fail_read"
    /\ ~Owns(p, worker[p].job)
    /\ GoIdle(p)
    /\ UNCHANGED <<job, evaluation, announced>>

\* Seeded fault: off by one.
RetryOnceMore(p) == worker[p].attempt <= MaxAttempts

Retry(p) == worker[p].attempt < MaxAttempts

FailCommit(p) ==
    LET j == worker[p].job IN
    /\ worker[p].pc = "fail_commit"
    /\ job' = [job EXCEPT ![j] = Released(job[j], IF Retry(p) THEN "pending" ELSE "failed", FALSE)]
    /\ GoIdle(p)
    /\ UNCHANGED <<evaluation, announced>>

\* The process dies, or a store call outside run_once's try block raises; the
\* service manager starts it again with nothing remembered.
Crash(p) ==
    /\ worker[p].pc # "idle"
    /\ GoIdle(p)
    /\ UNCHANGED <<job, evaluation, announced>>

(* The clock. *)

LeaseExpires(j) ==
    /\ job[j].status = "running"
    /\ job[j].lease = "live"
    /\ HolderMayStall \/ \A p \in Proc : ~Holds(p, j)
    /\ job' = [job EXCEPT ![j].lease = "expired"]
    /\ UNCHANGED <<evaluation, announced, worker>>

BackoffElapses(j) ==
    /\ job[j].status = "pending"
    /\ ~job[j].due
    /\ job' = [job EXCEPT ![j].due = TRUE]
    /\ UNCHANGED <<evaluation, announced, worker>>

-----------------------------------------------------------------------------
Poll(p) == Claim(p) \/ ClaimOrphan(p) \/ ClaimNothing(p)

Finish(p) == \/ FinishReadJob(p) \/ FinishNotOwner(p) \/ FinishReadEvaluation(p)
             \/ FinishCommit(p) \/ FinishAborts(p)

Fail(p) == FailReadJob(p) \/ FailNotOwner(p) \/ FailCommit(p)

\* What a process that holds a job does unless it dies.
Proceed(p) == LeaseLost(p) \/ EvaluationRaises(p) \/ Finish(p) \/ Fail(p)

Next ==
    \/ \E p \in Proc : Poll(p) \/ Renew(p) \/ Proceed(p) \/ Crash(p)
    \/ \E j \in Job : LeaseExpires(j) \/ BackoffElapses(j)

Spec == Init /\ [][Next]_vars

\* run_worker polls for ever and is restarted when it dies; evaluations end
\* (sandbox and provider calls have timeouts); the clock advances.
Fairness ==
    /\ \A p \in Proc : WF_vars(Poll(p)) /\ WF_vars(Proceed(p))
    /\ \A j \in Job : WF_vars(LeaseExpires(j)) /\ WF_vars(BackoffElapses(j))

FairSpec == Spec /\ Fairness

-----------------------------------------------------------------------------
(* Properties that hold whatever the schedule and the worker ids. *)

\* No job is attempted more often than worker_max_attempts, counting the
\* attempts of workers that died or lost their lease (claim_job's guards).
AttemptsBounded == \A j \in Job : job[j].attempts <= MaxAttempts

\* The submission view can always show the verdict of a succeeded job:
\* finish_job stores it no later than it sets the status, whoever else writes.
SucceededHasEvaluation ==
    \A j \in Job : job[j].status = "succeeded" => evaluation[j] # 0

\* A verdict the learner may have seen is never replaced or withdrawn, even
\* when two workers finish the same job (finish_job keeps the existing row).
EvaluationNeverReplaced ==
    [][\A j \in Job : evaluation[j] # 0 => evaluation'[j] = evaluation[j]]_vars

\* A job that is running can always be recovered: it carries a lease that will
\* run out, so claim_job will retake it or sweep it whatever became of its worker.
RunningIsLeased ==
    \A j \in Job : job[j].status = "running" => job[j].lease # "none" /\ job[j].owner # NoWorker

(* Properties that hold when no worker acts on a job it has lost: a live holder *)
(* renews in time, or there is a single worker process, as ops/ deploys it.     *)

Alone == \A p, q \in Proc : p = q

Undisturbed == ~HolderMayStall \/ Alone

\* Failed and waiting jobs carry no verdict, succeeded ones do
\* (SubmissionView.separate_processing_from_verdicts).
VerdictIffSucceeded ==
    \A j \in Job : evaluation[j] # 0 <=> job[j].status = "succeeded"

\* A job is never left pending with its attempts used up, where claim_job
\* neither takes it nor sweeps it (fail_job's retry flag).
NoStrandedJob ==
    \A j \in Job : job[j].status = "pending" => job[j].attempts < MaxAttempts

\* The outcome of a job never changes once it is decided.
OutcomeIsFinal ==
    [][\A j \in Job : job[j].status \in {"succeeded", "failed"}
                        => job'[j].status = job[j].status]_vars

\* The learner's history holds one EVALUATION_SUCCEEDED event for a job that
\* succeeded and none for any other, across retries and lost acknowledgements.
AnnouncedOnce ==
    \A j \in Job : announced[j] = IF job[j].status = "succeeded" THEN 1 ELSE 0

\* A worker that is about to write the outcome of a job still owns the attempt
\* it claimed: what finish_job and fail_job read is still so when they commit.
OwnsAttempt(p) ==
    LET j == worker[p].job IN Owns(p, j) /\ job[j].attempts = worker[p].attempt

StaleWorkerNeverWrites ==
    \A p \in Proc : worker[p].pc \in {"finish_commit", "fail_commit"} => OwnsAttempt(p)

\* Every accepted job is decided: it succeeds or, its attempts used up, fails.
EveryJobIsDecided ==
    \A j \in Job : <>[](job[j].status \in {"succeeded", "failed"})

\* The queue implements the life of a job stated in JobLifecycle.
Lifecycle == INSTANCE JobLifecycle WITH
    record <- [j \in Job |-> [status |-> job[j].status, attempts |-> job[j].attempts,
                              verdict |-> evaluation[j]]]

ImplementsLifecycle == Lifecycle!Spec

=============================================================================
