------------------------ MODULE EvaluationJobsProofs ------------------------
(***************************************************************************)
(* Proofs about the evaluation queue and the learners who poll it, for any *)
(* set of jobs and workers, any worker ids and any limit on attempts.      *)
(***************************************************************************)
EXTENDS SubmissionView, TLAPS

-----------------------------------------------------------------------------
(* Part 1: what holds whatever the schedule. *)

\* A worker's memory of its claim: the attempt is one of this job's, and an
\* evaluation it has seen is there to stay.
WorkerInv ==
    \A p \in Proc : worker[p].pc # "idle" =>
        /\ worker[p].attempt \in 1..MaxAttempts
        /\ worker[p].pc = "finish_commit" /\ worker[p].seen => evaluation[worker[p].job] # 0

GInv == /\ TypeOK
        /\ AttemptsBounded
        /\ RunningIsLeased
        /\ SucceededHasEvaluation
        /\ WorkerInv

USE MaxAttemptsAssumption, WorkerIdAssumption, OrphanAssumption

LEMMA GInit == Init => GInv
  BY DEF Init, GInv, TypeOK, AttemptsBounded, RunningIsLeased, SucceededHasEvaluation,
         WorkerInv, JobRow, WorkerState, Accepted, Idle, Steps

\* The sweep of claim_job keeps the table well formed.
LEMMA SweptType == ASSUME TypeOK PROVE Swept \in [Job -> JobRow]
  BY DEF TypeOK, JobRow, Swept, Released

\* It counts no attempt, and fails exactly the exhausted jobs.
LEMMA SweptRow ==
    ASSUME TypeOK, NEW j \in Job
    PROVE  /\ Swept[j].attempts = job[j].attempts
           /\ ~Exhausted(j) => Swept[j] = job[j]
           /\ Exhausted(j) => Swept[j].status = "failed"
  BY DEF TypeOK, JobRow, Swept, Released

\* A transition of one process to a state of its own keeps the others'.
LEMMA WorkerType ==
    ASSUME TypeOK, NEW p \in Proc, NEW w \in WorkerState,
           w.pc # "idle" => w.job \in Job,
           worker' = [worker EXCEPT ![p] = w]
    PROVE  /\ worker' \in [Proc -> WorkerState]
           /\ \A q \in Proc : worker'[q].pc # "idle" => worker'[q].job \in Job
  BY DEF TypeOK

LEMMA GClaim ==
    ASSUME GInv, NEW p \in Proc, Poll(p)
    PROVE  GInv'
  <1> USE DEF GInv
  <1>1. CASE Claim(p)
    <2>1. PICK j \in Job \ Orphan :
             /\ Claimable(j)
             /\ job' = [Swept EXCEPT ![j] = Taken(j, "running", WorkerId[p])]
             /\ worker' = [worker EXCEPT ![p] = [pc |-> "evaluating", job |-> j,
                                                 attempt |-> job[j].attempts + 1,
                                                 seen |-> FALSE]]
      BY <1>1 DEF Claim
    <2>2. Taken(j, "running", WorkerId[p]) \in JobRow
      BY <2>1 DEF TypeOK, JobRow, Taken, WorkerIds
    <2>3. TypeOK'
      <3>1. job' \in [Job -> JobRow]
        BY <2>1, <2>2, SweptType
      <3>2. [pc |-> "evaluating", job |-> j, attempt |-> job[j].attempts + 1, seen |-> FALSE]
              \in WorkerState
        BY DEF WorkerState, Steps, TypeOK, JobRow
      <3> QED BY <1>1, <2>1, <3>1, <3>2, WorkerType DEF Claim, TypeOK
    <2>4. AttemptsBounded' /\ RunningIsLeased' /\ SucceededHasEvaluation'
      <3> SUFFICES ASSUME NEW k \in Job
                   PROVE  /\ job'[k].attempts <= MaxAttempts
                          /\ job'[k].status = "running" => job'[k].lease # "none" /\ job'[k].owner # NoWorker
                          /\ job'[k].status = "succeeded" => evaluation'[k] # 0
        BY DEF AttemptsBounded, RunningIsLeased, SucceededHasEvaluation
      <3>1. CASE k = j
        BY <1>1, <2>1, <3>1, SweptType, SweptRow DEF Claim, TypeOK, JobRow, Taken, Claimable
      <3>2. CASE k # j
        BY <1>1, <2>1, <3>2, SweptType, SweptRow DEF Claim, TypeOK, JobRow, AttemptsBounded,
           RunningIsLeased, SucceededHasEvaluation
      <3> QED BY <3>1, <3>2
    <2>5. WorkerInv'
      BY <1>1, <2>1 DEF Claim, TypeOK, JobRow, WorkerState, WorkerInv, Claimable
    <2> QED BY <2>3, <2>4, <2>5
  <1>2. CASE ClaimOrphan(p)
    <2>1. PICK j \in Orphan :
             /\ Claimable(j)
             /\ job' = [Swept EXCEPT ![j] = Taken(j, "failed", WorkerId[p])]
      BY <1>2 DEF ClaimOrphan
    <2>2. j \in Job
      OBVIOUS
    <2>3. Taken(j, "failed", WorkerId[p]) \in JobRow
      BY <2>1, <2>2 DEF TypeOK, JobRow, Taken, WorkerIds
    <2>4. TypeOK'
      BY <1>2, <2>1, <2>2, <2>3, SweptType DEF ClaimOrphan, TypeOK
    <2>5. AttemptsBounded' /\ RunningIsLeased' /\ SucceededHasEvaluation'
      <3> SUFFICES ASSUME NEW k \in Job
                   PROVE  /\ job'[k].attempts <= MaxAttempts
                          /\ job'[k].status = "running" => job'[k].lease # "none" /\ job'[k].owner # NoWorker
                          /\ job'[k].status = "succeeded" => evaluation'[k] # 0
        BY DEF AttemptsBounded, RunningIsLeased, SucceededHasEvaluation
      <3>1. CASE k = j
        BY <1>2, <2>1, <2>2, <3>1, SweptType, SweptRow DEF TypeOK, JobRow, Taken, Claimable
      <3>2. CASE k # j
        BY <1>2, <2>1, <2>2, <3>2, SweptType, SweptRow DEF ClaimOrphan, TypeOK, JobRow, AttemptsBounded,
           RunningIsLeased, SucceededHasEvaluation
      <3> QED BY <3>1, <3>2
    <2>6. WorkerInv'
      BY <1>2 DEF ClaimOrphan, WorkerInv
    <2> QED BY <2>4, <2>5, <2>6
  <1>3. CASE ClaimNothing(p)
    <2>1. TypeOK'
      BY <1>3, SweptType DEF ClaimNothing, TypeOK
    <2>2. AttemptsBounded' /\ RunningIsLeased' /\ SucceededHasEvaluation'
      BY <1>3, SweptRow DEF ClaimNothing, TypeOK, JobRow, AttemptsBounded,
         RunningIsLeased, SucceededHasEvaluation
    <2>3. WorkerInv'
      BY <1>3 DEF ClaimNothing, WorkerInv
    <2> QED BY <2>1, <2>2, <2>3
  <1> QED BY <1>1, <1>2, <1>3 DEF Poll

\* A step that only moves one busy process on to another step of the code.
LEMMA GMove ==
    ASSUME GInv, NEW p \in Proc, NEW step \in Steps, worker[p].pc # "idle",
           Goto(p, step), step # "finish_commit", UNCHANGED <<job, evaluation, announced>>
    PROVE  GInv'
  <1>1. TypeOK'
    BY DEF GInv, TypeOK, WorkerState, Goto
  <1>2. WorkerInv'
    BY DEF GInv, TypeOK, WorkerState, Goto, WorkerInv
  <1>3. AttemptsBounded' /\ RunningIsLeased' /\ SucceededHasEvaluation'
    BY DEF GInv, AttemptsBounded, RunningIsLeased, SucceededHasEvaluation
  <1> QED BY <1>1, <1>2, <1>3 DEF GInv

\* A process that drops its job.
LEMMA GDrop ==
    ASSUME GInv, NEW p \in Proc, GoIdle(p), UNCHANGED <<job, evaluation, announced>>
    PROVE  GInv'
  <1>1. TypeOK'
    BY DEF GInv, TypeOK, WorkerState, GoIdle, Idle, Steps
  <1>2. WorkerInv'
    BY DEF GInv, TypeOK, WorkerState, GoIdle, Idle, WorkerInv
  <1>3. AttemptsBounded' /\ RunningIsLeased' /\ SucceededHasEvaluation'
    BY DEF GInv, AttemptsBounded, RunningIsLeased, SucceededHasEvaluation
  <1> QED BY <1>1, <1>2, <1>3 DEF GInv

LEMMA GFinish ==
    ASSUME GInv, NEW p \in Proc, Finish(p)
    PROVE  GInv'
  <1>1. CASE FinishReadJob(p)
    BY <1>1, GMove DEF FinishReadJob, Steps
  <1>2. CASE FinishNotOwner(p)
    BY <1>2, GDrop DEF FinishNotOwner
  <1>3. CASE FinishReadEvaluation(p)
    <2>1. TypeOK'
      BY <1>3 DEF FinishReadEvaluation, GInv, TypeOK, WorkerState, Steps
    <2>2. WorkerInv'
      BY <1>3 DEF FinishReadEvaluation, GInv, TypeOK, WorkerState, WorkerInv
    <2>3. AttemptsBounded' /\ RunningIsLeased' /\ SucceededHasEvaluation'
      BY <1>3 DEF FinishReadEvaluation, GInv, AttemptsBounded, RunningIsLeased,
         SucceededHasEvaluation
    <2> QED BY <2>1, <2>2, <2>3 DEF GInv
  <1>4. CASE FinishCommit(p)
    <2> DEFINE j == worker[p].job
    <2>1. j \in Job /\ worker[p].attempt \in 1..MaxAttempts
      BY <1>4 DEF FinishCommit, StoredVerdict, GInv, TypeOK, WorkerInv
    <2>2. worker[p].seen => evaluation[j] # 0
      BY <1>4 DEF FinishCommit, StoredVerdict, GInv, WorkerInv
    <2>3. evaluation' \in [Job -> Nat] /\ evaluation'[j] # 0
      BY <1>4, <2>1, <2>2 DEF FinishCommit, StoredVerdict, GInv, TypeOK
    <2>4. job' \in [Job -> JobRow]
      BY <1>4, <2>1 DEF FinishCommit, StoredVerdict, GInv, TypeOK, JobRow, Released
    <2>5. announced' \in [Job -> Nat]
      BY <1>4 DEF FinishCommit, StoredVerdict, GInv, TypeOK
    <2>6. /\ worker' \in [Proc -> WorkerState]
          /\ \A q \in Proc : worker'[q].pc # "idle" =>
                worker'[q].job \in Job /\ worker'[q].job = worker[q].job
                /\ worker'[q].attempt = worker[q].attempt /\ worker[q].pc # "idle"
                /\ (worker'[q].pc = "finish_commit" => worker' [q] = worker[q])
      <3>1. CASE GoIdle(p)
        BY <3>1 DEF GoIdle, Idle, GInv, TypeOK, WorkerState, Steps
      <3>2. CASE Goto(p, "fail_read")
        BY <1>4, <3>2 DEF Goto, FinishCommit, StoredVerdict, GInv, TypeOK, WorkerState, Steps
      <3> QED BY <1>4, <3>1, <3>2 DEF FinishCommit, StoredVerdict
    <2>7. AttemptsBounded' /\ RunningIsLeased'
      BY <1>4, <2>1 DEF FinishCommit, StoredVerdict, GInv, TypeOK, JobRow, Released, AttemptsBounded,
         RunningIsLeased
    <2>8. SucceededHasEvaluation'
      BY <1>4, <2>1, <2>3 DEF FinishCommit, StoredVerdict, GInv, TypeOK, SucceededHasEvaluation
    <2>9. WorkerInv'
      BY <1>4, <2>1, <2>3, <2>6 DEF FinishCommit, StoredVerdict, GInv, TypeOK, WorkerInv
    <2> QED BY <2>3, <2>4, <2>5, <2>6, <2>7, <2>8, <2>9 DEF GInv, TypeOK
  <1>5. CASE FinishAborts(p)
    BY <1>5, GMove DEF FinishAborts, Steps
  <1> QED BY <1>1, <1>2, <1>3, <1>4, <1>5 DEF Finish

LEMMA GFail ==
    ASSUME GInv, NEW p \in Proc, Fail(p)
    PROVE  GInv'
  <1>1. CASE FailReadJob(p)
    BY <1>1, GMove DEF FailReadJob, Steps
  <1>2. CASE FailNotOwner(p)
    BY <1>2, GDrop DEF FailNotOwner
  <1>3. CASE FailCommit(p)
    <2> DEFINE j == worker[p].job
    <2>1. j \in Job
      BY <1>3 DEF FailCommit, GInv, TypeOK
    <2>2. job' \in [Job -> JobRow]
      BY <1>3, <2>1 DEF FailCommit, GInv, TypeOK, JobRow, Released
    <2>3. TypeOK'
      BY <1>3, <2>2 DEF FailCommit, GInv, TypeOK, WorkerState, GoIdle, Idle, Steps
    <2>4. AttemptsBounded' /\ RunningIsLeased' /\ SucceededHasEvaluation'
      BY <1>3, <2>1 DEF FailCommit, GInv, TypeOK, JobRow, Released, AttemptsBounded,
         RunningIsLeased, SucceededHasEvaluation
    <2>5. WorkerInv'
      BY <1>3 DEF FailCommit, GInv, TypeOK, WorkerState, GoIdle, Idle, WorkerInv
    <2> QED BY <2>3, <2>4, <2>5 DEF GInv
  <1> QED BY <1>1, <1>2, <1>3 DEF Fail

\* A renewal, or the clock moving on: only the lease or the due mark of a
\* row changes, and a running row keeps a lease.
LEMMA GClock ==
    ASSUME GInv, NEW j \in Job,
           \/ job' = [job EXCEPT ![j].lease = "live"]
           \/ job' = [job EXCEPT ![j].lease = "expired"]
           \/ job' = [job EXCEPT ![j].due = TRUE],
           UNCHANGED <<evaluation, announced, worker>>
    PROVE  GInv'
  <1>0. /\ [job[j] EXCEPT !.lease = "live"] \in JobRow
        /\ [job[j] EXCEPT !.lease = "expired"] \in JobRow
        /\ [job[j] EXCEPT !.due = TRUE] \in JobRow
    <2>1. job[j] \in JobRow
      BY DEF GInv, TypeOK
    <2>2. [job[j] EXCEPT !.lease = "live"] \in JobRow
      BY <2>1 DEF JobRow
    <2>3. [job[j] EXCEPT !.lease = "expired"] \in JobRow
      BY <2>1 DEF JobRow
    <2>4. [job[j] EXCEPT !.due = TRUE] \in JobRow
      BY <2>1 DEF JobRow
    <2> QED BY <2>2, <2>3, <2>4
  <1>1. TypeOK'
    BY <1>0 DEF GInv, TypeOK
  <1>2. AttemptsBounded' /\ RunningIsLeased' /\ SucceededHasEvaluation'
    BY DEF GInv, TypeOK, JobRow, AttemptsBounded, RunningIsLeased, SucceededHasEvaluation
  <1>3. WorkerInv'
    BY DEF GInv, WorkerInv
  <1> QED BY <1>1, <1>2, <1>3 DEF GInv

LEMMA GStep == GInv /\ [Next]_vars => GInv'
  <1> SUFFICES ASSUME GInv, [Next]_vars PROVE GInv'
    OBVIOUS
  <1>1. ASSUME NEW p \in Proc, Poll(p) PROVE GInv'
    BY <1>1, GClaim
  <1>2. ASSUME NEW p \in Proc, Renew(p) PROVE GInv'
    BY <1>2, GClock DEF Renew, GInv, TypeOK
  <1>3. ASSUME NEW p \in Proc, Proceed(p) PROVE GInv'
    <2>1. CASE LeaseLost(p) \/ EvaluationRaises(p)
      BY <2>1, GMove DEF LeaseLost, EvaluationRaises, Steps
    <2> QED BY <1>3, <2>1, GFinish, GFail DEF Proceed
  <1>4. ASSUME NEW p \in Proc, Crash(p) PROVE GInv'
    BY <1>4, GDrop DEF Crash
  <1>5. ASSUME NEW j \in Job, LeaseExpires(j) PROVE GInv'
    BY <1>5, GClock DEF LeaseExpires
  <1>6. ASSUME NEW j \in Job, BackoffElapses(j) PROVE GInv'
    BY <1>6, GClock DEF BackoffElapses
  <1>7. CASE UNCHANGED vars
    BY <1>7 DEF vars, GInv, TypeOK, AttemptsBounded, RunningIsLeased, SucceededHasEvaluation,
       WorkerInv
  <1> QED BY <1>1, <1>2, <1>3, <1>4, <1>5, <1>6, <1>7 DEF Next

LEMMA GInvariant == Spec => []GInv
  BY GInit, GStep, PTL DEF Spec

\* Every reachable table and worker state is well formed.
THEOREM TypeCorrect == Spec => []TypeOK
  BY GInvariant, PTL DEF GInv

\* worker_max_attempts bounds the attempts of every job, with any number of
\* workers, shared worker ids, stalls and crashes.
THEOREM AttemptsAreBounded == Spec => []AttemptsBounded
  BY GInvariant, PTL DEF GInv

\* A job that is shown as succeeded always has its verdict stored.
THEOREM SucceededJobsHaveVerdicts == Spec => []SucceededHasEvaluation
  BY GInvariant, PTL DEF GInv

\* A running job always carries a lease, so that it can be recovered.
THEOREM RunningJobsAreLeased == Spec => []RunningIsLeased
  BY GInvariant, PTL DEF GInv

\* A stored verdict is never replaced, whatever workers race for the job.
THEOREM VerdictsAreKept == Spec => EvaluationNeverReplaced
  <1>1. GInv /\ [Next]_vars =>
          [\A j \in Job : evaluation[j] # 0 => evaluation'[j] = evaluation[j]]_vars
    <2> SUFFICES ASSUME GInv, Next, NEW j \in Job, evaluation[j] # 0
                 PROVE  evaluation'[j] = evaluation[j]
      BY DEF vars
    <2>1. ASSUME NEW p \in Proc, FinishCommit(p) PROVE evaluation'[j] = evaluation[j]
      BY <2>1 DEF FinishCommit, StoredVerdict, GInv, TypeOK
    <2>2. (\E p \in Proc : FinishCommit(p)) \/ UNCHANGED evaluation
      BY DEF Next, Poll, Claim, ClaimOrphan, ClaimNothing, Renew, Proceed, LeaseLost,
         EvaluationRaises, Finish, FinishReadJob, FinishNotOwner, FinishReadEvaluation,
         FinishAborts, Fail, FailReadJob, FailNotOwner, FailCommit, Crash, LeaseExpires,
         BackoffElapses
    <2> QED BY <2>1, <2>2
  <1> QED BY <1>1, GInvariant, PTL DEF Spec, EvaluationNeverReplaced

-----------------------------------------------------------------------------
(* Part 2: what holds when no worker acts on a job it has lost.            *)

\* A busy worker owns the attempt it claimed and nobody has decided the job,
\* except that an acknowledgement lost by finish_job leaves it about to call
\* fail_job on a job that has succeeded.
HoldsAttempt(p) ==
    /\ OwnsAttempt(p)
    /\ evaluation[worker[p].job] = 0
    /\ job[worker[p].job].lease = "live" \/ Alone

LostAck(p) == worker[p].pc = "fail_read" /\ job[worker[p].job].status = "succeeded"

HolderInv == \A p \in Proc : worker[p].pc # "idle" => HoldsAttempt(p) \/ LostAck(p)

\* No two workers are busy with the same job.
ExclusiveInv ==
    \A p, q \in Proc :
        worker[p].pc # "idle" /\ worker[q].pc # "idle" /\ worker[p].job = worker[q].job => p = q

\* finish_job never finds an evaluation of the job it is finishing.
SeenInv == \A p \in Proc : worker[p].pc = "finish_commit" => ~worker[p].seen

TInv == /\ GInv
        /\ HolderInv
        /\ ExclusiveInv
        /\ SeenInv
        /\ VerdictIffSucceeded
        /\ NoStrandedJob
        /\ AnnouncedOnce

\* What a step does to the table, seen from job j.
RowInv(j) ==
    /\ evaluation[j] # 0 <=> job[j].status = "succeeded"
    /\ job[j].status = "pending" => job[j].attempts < MaxAttempts
    /\ announced[j] = IF job[j].status = "succeeded" THEN 1 ELSE 0

LEMMA RowsInvNext ==
    (\A j \in Job : RowInv(j)') <=> (VerdictIffSucceeded /\ NoStrandedJob /\ AnnouncedOnce)'
  BY DEF RowInv, VerdictIffSucceeded, NoStrandedJob, AnnouncedOnce

LEMMA TInit == Init => TInv
  BY GInit DEF Init, TInv, HolderInv, ExclusiveInv, SeenInv, VerdictIffSucceeded, NoStrandedJob,
     AnnouncedOnce, Accepted, Idle

\* A job that can be claimed or swept is nobody's.
LEMMA NobodyHolds ==
    ASSUME Undisturbed, TInv, NEW p \in Proc, worker[p].pc = "idle", NEW j \in Job,
           job[j].status = "pending" \/ Expired(j),
           NEW q \in Proc, worker[q].pc # "idle"
    PROVE  worker[q].job # j
  BY DEF Undisturbed, Alone, TInv, HolderInv, HoldsAttempt, LostAck, OwnsAttempt, Owns, Expired

LEMMA TPoll ==
    ASSUME Undisturbed, TInv, NEW p \in Proc, Poll(p)
    PROVE  TInv'
  <1>1. GInv'
    BY GClaim DEF TInv
  <1>t. TypeOK
    BY DEF TInv, GInv
  <1>h. /\ worker[p].pc = "idle"
        /\ UNCHANGED <<evaluation, announced>>
    BY DEF Poll, Claim, ClaimOrphan, ClaimNothing
  <1>2. \A k \in Job : job'[k] = job[k]
             \/ /\ job[k].status = "pending" \/ Expired(k)
                /\ job'[k].status \in {"running", "failed"}
    BY <1>t, SweptType, SweptRow DEF Poll, Claim, ClaimOrphan, ClaimNothing, Claimable, Taken,
       Exhausted, Expired
  <1>3. (VerdictIffSucceeded /\ NoStrandedJob /\ AnnouncedOnce)'
    <2> SUFFICES ASSUME NEW k \in Job PROVE RowInv(k)'
      BY RowsInvNext
    <2> QED BY <1>h, <1>2 DEF RowInv, TInv, VerdictIffSucceeded, NoStrandedJob, AnnouncedOnce,
               Expired
  <1>4. ASSUME NEW q \in Proc, worker[q].pc # "idle", worker'[q] = worker[q]
        PROVE  HoldsAttempt(q)' \/ LostAck(q)'
    <2>1. worker[q].job \in Job /\ job'[worker[q].job] = job[worker[q].job]
      BY <1>t, <1>h, <1>2, <1>4, NobodyHolds DEF TypeOK
    <2> QED BY <1>h, <1>4, <2>1 DEF TInv, HolderInv, HoldsAttempt, LostAck, OwnsAttempt, Owns
  <1>5. CASE Claim(p)
    <2>1. PICK j \in Job \ Orphan :
             /\ Claimable(j)
             /\ job' = [Swept EXCEPT ![j] = Taken(j, "running", WorkerId[p])]
             /\ worker' = [worker EXCEPT ![p] = [pc |-> "evaluating", job |-> j,
                                                 attempt |-> job[j].attempts + 1,
                                                 seen |-> FALSE]]
      BY <1>5 DEF Claim
    <2>2. /\ worker'[p] = [pc |-> "evaluating", job |-> j, attempt |-> job[j].attempts + 1,
                           seen |-> FALSE]
          /\ \A q \in Proc : q # p => worker'[q] = worker[q]
      BY <2>1, <1>t DEF TypeOK
    <2>3. job'[j] = Taken(j, "running", WorkerId[p])
      BY <2>1, <1>t, SweptType
    <2>4. HoldsAttempt(p)'
      <3>1. evaluation[j] = 0
        BY <2>1 DEF TInv, VerdictIffSucceeded, Claimable, Expired
      <3> QED BY <1>h, <2>2, <2>3, <3>1 DEF HoldsAttempt, OwnsAttempt, Owns, Taken
    <2>5. HolderInv'
      BY <1>4, <2>2, <2>4 DEF HolderInv
    <2>6. \A q \in Proc : worker[q].pc # "idle" => worker[q].job # j
      BY <1>h, <2>1, NobodyHolds DEF Claimable
    <2>7. ExclusiveInv'
      BY <2>2, <2>6 DEF ExclusiveInv, TInv
    <2>8. SeenInv'
      BY <2>2 DEF SeenInv, TInv
    <2> QED BY <1>1, <1>3, <2>5, <2>7, <2>8 DEF TInv
  <1>6. CASE ClaimOrphan(p) \/ ClaimNothing(p)
    <2>1. UNCHANGED worker
      BY <1>6 DEF ClaimOrphan, ClaimNothing
    <2>2. HolderInv'
      BY <1>4, <2>1 DEF HolderInv
    <2>3. ExclusiveInv' /\ SeenInv'
      BY <2>1 DEF TInv, ExclusiveInv, SeenInv
    <2> QED BY <1>1, <1>3, <2>2, <2>3 DEF TInv
  <1> QED BY <1>5, <1>6 DEF Poll

\* Moving one busy process on keeps its claim, unless it leaves fail_read or
\* enters finish_commit, where more must be known.
LEMMA TMove ==
    ASSUME TInv, NEW p \in Proc, NEW step \in Steps, worker[p].pc # "idle",
           Goto(p, step), step # "finish_commit",
           worker[p].pc = "fail_read" => Owns(p, worker[p].job),
           UNCHANGED <<job, evaluation, announced>>
    PROVE  TInv'
  <1>1. GInv'
    BY GMove DEF TInv
  <1>2. /\ \A q \in Proc : worker'[q].job = worker[q].job /\ worker'[q].attempt = worker[q].attempt
        /\ \A q \in Proc : q # p => worker'[q] = worker[q]
        /\ worker'[p].pc = step
    BY DEF Goto, TInv, GInv, TypeOK, WorkerState
  <1>3. HolderInv'
    BY <1>2 DEF TInv, HolderInv, HoldsAttempt, LostAck, OwnsAttempt, Owns
  <1>4. ExclusiveInv' /\ SeenInv'
    BY <1>2 DEF TInv, ExclusiveInv, SeenInv
  <1>5. (VerdictIffSucceeded /\ NoStrandedJob /\ AnnouncedOnce)'
    BY DEF TInv, VerdictIffSucceeded, NoStrandedJob, AnnouncedOnce
  <1> QED BY <1>1, <1>3, <1>4, <1>5 DEF TInv

LEMMA TDrop ==
    ASSUME TInv, NEW p \in Proc, GoIdle(p), UNCHANGED <<job, evaluation, announced>>
    PROVE  TInv'
  <1>1. GInv'
    BY GDrop DEF TInv
  <1>2. worker'[p].pc = "idle" /\ \A q \in Proc : q # p => worker'[q] = worker[q]
    BY DEF GoIdle, Idle, TInv, GInv, TypeOK
  <1>3. HolderInv'
    BY <1>2 DEF TInv, HolderInv, HoldsAttempt, LostAck, OwnsAttempt, Owns
  <1>4. ExclusiveInv' /\ SeenInv'
    BY <1>2 DEF TInv, ExclusiveInv, SeenInv
  <1>5. (VerdictIffSucceeded /\ NoStrandedJob /\ AnnouncedOnce)'
    BY DEF TInv, VerdictIffSucceeded, NoStrandedJob, AnnouncedOnce
  <1> QED BY <1>1, <1>3, <1>4, <1>5 DEF TInv

\* A worker that decides or requeues the job it holds disturbs no other: they
\* hold other jobs.
LEMMA TOthersKeep ==
    ASSUME TInv, NEW p \in Proc, worker[p].pc # "idle",
           NEW row, job' = [job EXCEPT ![worker[p].job] = row],
           \A k \in Job : k # worker[p].job => evaluation'[k] = evaluation[k],
           NEW q \in Proc, q # p, worker[q].pc # "idle", worker'[q] = worker[q]
    PROVE  HoldsAttempt(q)' \/ LostAck(q)'
  <1>1. worker[q].job \in Job /\ worker[q].job # worker[p].job
    BY DEF TInv, GInv, TypeOK, ExclusiveInv
  <1>2. job'[worker[q].job] = job[worker[q].job] /\ evaluation'[worker[q].job] = evaluation[worker[q].job]
    BY <1>1 DEF TInv, GInv, TypeOK
  <1> QED BY <1>2 DEF TInv, HolderInv, HoldsAttempt, LostAck, OwnsAttempt, Owns

LEMMA TFinish ==
    ASSUME TInv, NEW p \in Proc, Finish(p)
    PROVE  TInv'
  <1>1. CASE FinishReadJob(p)
    BY <1>1, TMove DEF FinishReadJob, Steps
  <1>2. CASE FinishNotOwner(p)
    BY <1>2, TDrop DEF FinishNotOwner
  <1>3. CASE FinishReadEvaluation(p)
    <2>1. GInv'
      BY <1>3, GFinish DEF TInv
    <2>2. /\ \A q \in Proc : worker'[q].job = worker[q].job /\ worker'[q].attempt = worker[q].attempt
          /\ \A q \in Proc : q # p => worker'[q] = worker[q]
          /\ worker[p].pc = "finish_evaluation"
          /\ worker'[p].pc = "finish_commit"
          /\ worker'[p].seen = (evaluation[worker[p].job] # 0)
          /\ UNCHANGED <<job, evaluation>>
      BY <1>3 DEF FinishReadEvaluation, TInv, GInv, TypeOK, WorkerState
    <2>3. evaluation[worker[p].job] = 0
      BY <2>2 DEF TInv, HolderInv, HoldsAttempt, LostAck
    <2>4. HolderInv'
      <3>1. HoldsAttempt(p)'
        BY <2>2 DEF TInv, HolderInv, HoldsAttempt, LostAck, OwnsAttempt, Owns
      <3>2. ASSUME NEW q \in Proc, q # p, worker[q].pc # "idle"
            PROVE  HoldsAttempt(q)' \/ LostAck(q)'
        BY <2>2, <3>2 DEF TInv, HolderInv, HoldsAttempt, LostAck, OwnsAttempt, Owns
      <3> QED BY <2>2, <3>1, <3>2 DEF HolderInv
    <2>n. ~worker'[p].seen
      BY <2>2, <2>3
    <2>5. ExclusiveInv' /\ SeenInv'
      <3>1. ExclusiveInv'
        BY <2>2 DEF TInv, ExclusiveInv
      <3>2. SeenInv'
        BY <2>2, <2>n DEF TInv, SeenInv
      <3> QED BY <3>1, <3>2
    <2>6. (VerdictIffSucceeded /\ NoStrandedJob /\ AnnouncedOnce)'
      BY <1>3 DEF FinishReadEvaluation, TInv, VerdictIffSucceeded, NoStrandedJob, AnnouncedOnce
    <2> QED BY <2>1, <2>4, <2>5, <2>6 DEF TInv
  <1>4. CASE FinishCommit(p)
    <2> DEFINE j == worker[p].job
    <2>1. GInv'
      BY <1>4, GFinish DEF TInv
    <2>2. /\ worker[p].pc = "finish_commit" /\ j \in Job /\ worker[p].attempt \in 1..MaxAttempts
          /\ ~worker[p].seen
          /\ HoldsAttempt(p)
      BY <1>4 DEF FinishCommit, StoredVerdict, TInv, GInv, TypeOK, WorkerInv, SeenInv, HolderInv, LostAck
    <2>3. /\ job'[j].status = "succeeded"
          /\ evaluation'[j] # 0
          /\ announced'[j] = announced[j] + 1
          /\ \A k \in Job : k # j => /\ job'[k] = job[k]
                                    /\ evaluation'[k] = evaluation[k]
                                    /\ announced'[k] = announced[k]
      BY <1>4, <2>2 DEF FinishCommit, StoredVerdict, TInv, GInv, TypeOK, Released
    <2>4. \A q \in Proc : q # p => worker'[q] = worker[q]
      BY <1>4 DEF FinishCommit, StoredVerdict, GoIdle, Goto, TInv, GInv, TypeOK
    <2>5. worker'[p].pc = "idle" \/ (worker'[p].pc = "fail_read" /\ worker'[p].job = j)
      <3>1. CASE GoIdle(p)
        BY <3>1 DEF GoIdle, Idle, TInv, GInv, TypeOK
      <3>2. CASE Goto(p, "fail_read")
        BY <3>2 DEF Goto, TInv, GInv, TypeOK, WorkerState
      <3> QED BY <1>4, <3>1, <3>2 DEF FinishCommit, StoredVerdict
    <2>6. HolderInv'
      <3> SUFFICES ASSUME NEW q \in Proc, worker'[q].pc # "idle"
                   PROVE  HoldsAttempt(q)' \/ LostAck(q)'
        BY DEF HolderInv
      <3>1. CASE q = p
        BY <2>3, <2>5, <3>1 DEF LostAck
      <3>2. CASE q # p
        BY <1>4, <2>2, <2>3, <2>4, <3>2, TOthersKeep DEF FinishCommit, StoredVerdict
      <3> QED BY <3>1, <3>2
    <2>7. ExclusiveInv'
      BY <2>2, <2>4, <2>5 DEF TInv, ExclusiveInv
    <2>8. SeenInv'
      BY <2>4, <2>5 DEF TInv, SeenInv
    <2>9. (VerdictIffSucceeded /\ NoStrandedJob /\ AnnouncedOnce)'
      <3> SUFFICES ASSUME NEW k \in Job PROVE RowInv(k)'
        BY RowsInvNext
      <3>1. announced[j] = 0
        BY <2>2 DEF HoldsAttempt, OwnsAttempt, Owns, TInv, AnnouncedOnce
      <3> QED BY <2>3, <3>1 DEF RowInv, TInv, VerdictIffSucceeded, NoStrandedJob, AnnouncedOnce
    <2> QED BY <2>1, <2>6, <2>7, <2>8, <2>9 DEF TInv
  <1>5. CASE FinishAborts(p)
    BY <1>5, TMove DEF FinishAborts, Steps
  <1> QED BY <1>1, <1>2, <1>3, <1>4, <1>5 DEF Finish

LEMMA TFail ==
    ASSUME TInv, NEW p \in Proc, Fail(p)
    PROVE  TInv'
  <1>1. CASE FailReadJob(p)
    BY <1>1, TMove DEF FailReadJob, Steps
  <1>2. CASE FailNotOwner(p)
    BY <1>2, TDrop DEF FailNotOwner
  <1>3. CASE FailCommit(p)
    <2> DEFINE j == worker[p].job
    <2>1. GInv'
      BY <1>3, GFail DEF TInv
    <2>2. worker[p].pc = "fail_commit" /\ j \in Job /\ HoldsAttempt(p)
      BY <1>3 DEF FailCommit, TInv, GInv, TypeOK, HolderInv, LostAck
    <2>3. /\ job'[j].status = (IF Retry(p) THEN "pending" ELSE "failed")
          /\ job'[j].attempts = worker[p].attempt
          /\ \A k \in Job : k # j => job'[k] = job[k]
      BY <1>3, <2>2 DEF FailCommit, TInv, GInv, TypeOK, Released, HoldsAttempt, OwnsAttempt
    <2>4. worker'[p].pc = "idle" /\ \A q \in Proc : q # p => worker'[q] = worker[q]
      BY <1>3 DEF FailCommit, GoIdle, Idle, TInv, GInv, TypeOK
    <2>5. HolderInv'
      <3> SUFFICES ASSUME NEW q \in Proc, worker'[q].pc # "idle"
                   PROVE  HoldsAttempt(q)' \/ LostAck(q)'
        BY DEF HolderInv
      <3> QED BY <1>3, <2>2, <2>4, TOthersKeep DEF FailCommit
    <2>6. ExclusiveInv' /\ SeenInv'
      BY <2>4 DEF TInv, ExclusiveInv, SeenInv
    <2>7. (VerdictIffSucceeded /\ NoStrandedJob /\ AnnouncedOnce)'
      <3> SUFFICES ASSUME NEW k \in Job PROVE RowInv(k)'
        BY RowsInvNext
      <3>1. job[j].status = "running"
        BY <2>2 DEF HoldsAttempt, OwnsAttempt, Owns
      <3>2. UNCHANGED <<evaluation, announced>>
        BY <1>3 DEF FailCommit
      <3> QED BY <2>3, <3>1, <3>2 DEF RowInv, Retry, TInv, VerdictIffSucceeded, NoStrandedJob, AnnouncedOnce
    <2> QED BY <2>1, <2>5, <2>6, <2>7 DEF TInv
  <1> QED BY <1>1, <1>2, <1>3 DEF Fail

\* A renewal or the clock: a job's status, attempts and owner stay, and the
\* lease of a held job stays live unless its holder is the only worker.
LEMMA TClock ==
    ASSUME TInv, NEW j \in Job, UNCHANGED <<evaluation, announced, worker>>,
           \/ job' = [job EXCEPT ![j].lease = "live"]
           \/ /\ job' = [job EXCEPT ![j].lease = "expired"]
              /\ Alone \/ \A q \in Proc : ~Holds(q, j)
           \/ job' = [job EXCEPT ![j].due = TRUE]
    PROVE  TInv'
  <1>1. GInv'
    BY GClock DEF TInv
  <1>2. \A k \in Job : /\ job'[k].status = job[k].status
                       /\ job'[k].attempts = job[k].attempts
                       /\ job'[k].owner = job[k].owner
                       /\ job'[k].lease # job[k].lease =>
                             job'[k].lease = "live" \/ Alone \/ \A q \in Proc : ~Holds(q, k)
    BY DEF TInv, GInv, TypeOK, JobRow
  <1>3. HolderInv'
    BY <1>2 DEF TInv, GInv, TypeOK, HolderInv, HoldsAttempt, LostAck, OwnsAttempt, Owns, Holds
  <1>4. ExclusiveInv' /\ SeenInv'
    BY DEF TInv, ExclusiveInv, SeenInv
  <1>5. (VerdictIffSucceeded /\ NoStrandedJob /\ AnnouncedOnce)'
    BY <1>2 DEF TInv, VerdictIffSucceeded, NoStrandedJob, AnnouncedOnce
  <1> QED BY <1>1, <1>3, <1>4, <1>5 DEF TInv

LEMMA TStep == Undisturbed /\ TInv /\ [Next]_vars => TInv'
  <1> SUFFICES ASSUME Undisturbed, TInv, [Next]_vars PROVE TInv'
    OBVIOUS
  <1>1. ASSUME NEW p \in Proc, Poll(p) PROVE TInv'
    BY <1>1, TPoll
  <1>2. ASSUME NEW p \in Proc, Renew(p) PROVE TInv'
    BY <1>2, TClock DEF Renew, TInv, GInv, TypeOK
  <1>3. ASSUME NEW p \in Proc, Proceed(p) PROVE TInv'
    <2>1. CASE LeaseLost(p) \/ EvaluationRaises(p)
      BY <2>1, TMove DEF LeaseLost, EvaluationRaises, Steps
    <2> QED BY <1>3, <2>1, TFinish, TFail DEF Proceed
  <1>4. ASSUME NEW p \in Proc, Crash(p) PROVE TInv'
    BY <1>4, TDrop DEF Crash
  <1>5. ASSUME NEW j \in Job, LeaseExpires(j) PROVE TInv'
    BY <1>5, TClock DEF LeaseExpires, Undisturbed
  <1>6. ASSUME NEW j \in Job, BackoffElapses(j) PROVE TInv'
    BY <1>6, TClock DEF BackoffElapses
  <1>7. CASE UNCHANGED vars
    BY <1>7, GStep DEF vars, TInv, HolderInv, HoldsAttempt, LostAck, OwnsAttempt, Owns,
       ExclusiveInv, SeenInv, VerdictIffSucceeded, NoStrandedJob, AnnouncedOnce
  <1> QED BY <1>1, <1>2, <1>3, <1>4, <1>5, <1>6, <1>7 DEF Next

LEMMA TInvariant == ASSUME Undisturbed PROVE Spec => []TInv
  <1>1. TInv /\ [Next]_vars => TInv'
    BY TStep
  <1> QED BY <1>1, TInit, PTL DEF Spec

\* Failed and waiting jobs carry no verdict, succeeded jobs do.
THEOREM VerdictsMatchOutcomes == ASSUME Undisturbed PROVE Spec => []VerdictIffSucceeded
  BY TInvariant, PTL DEF TInv

\* No job is left pending with its attempts used up.
THEOREM NoJobIsStranded == ASSUME Undisturbed PROVE Spec => []NoStrandedJob
  BY TInvariant, PTL DEF TInv

\* A success is announced exactly once in the learner's history.
THEOREM SuccessIsAnnouncedOnce == ASSUME Undisturbed PROVE Spec => []AnnouncedOnce
  BY TInvariant, PTL DEF TInv

\* A worker that commits an outcome still owns the attempt it claimed, although
\* the commit does not look.
THEOREM WritersAreOwners == ASSUME Undisturbed PROVE Spec => []StaleWorkerNeverWrites
  <1>1. TInv => StaleWorkerNeverWrites
    BY DEF TInv, HolderInv, HoldsAttempt, LostAck, StaleWorkerNeverWrites
  <1> QED BY <1>1, TInvariant, PTL

-----------------------------------------------------------------------------
(* Part 3: the queue implements JobLifecycle.                              *)

Unmoved(j) == /\ job'[j].status = job[j].status
              /\ job'[j].attempts = job[j].attempts
              /\ evaluation'[j] = evaluation[j]

\* What one step of the queue is for one job.
RowStep(j) ==
    \/ Unmoved(j)
    \/ /\ job[j].status \in {"pending", "running"}
       /\ job[j].attempts < MaxAttempts
       /\ job'[j].attempts = job[j].attempts + 1
       /\ job'[j].status = "running" \/ (job'[j].status = "failed" /\ j \in Orphan)
       /\ evaluation'[j] = evaluation[j]
    \/ /\ job[j].status = "running"
       /\ job'[j].attempts = job[j].attempts
       /\ \/ /\ job[j].attempts < MaxAttempts
             /\ job'[j].status = "pending"
             /\ evaluation'[j] = evaluation[j]
          \/ /\ job'[j].status = "succeeded"
             /\ evaluation'[j] = job[j].attempts
          \/ /\ job[j].attempts = MaxAttempts
             /\ job'[j].status = "failed"
             /\ evaluation'[j] = evaluation[j]

LEMMA PollRow ==
    ASSUME TInv, NEW p \in Proc, Poll(p), NEW j \in Job
    PROVE  RowStep(j)
  <1>t. TypeOK /\ job[j].attempts \in Nat /\ job[j].attempts <= MaxAttempts
    BY DEF TInv, GInv, TypeOK, JobRow, AttemptsBounded
  <1>e. evaluation'[j] = evaluation[j]
    BY DEF Poll, Claim, ClaimOrphan, ClaimNothing
  <1>1. \/ job'[j] = Swept[j]
        \/ Claimable(j) /\ job'[j] = Taken(j, "running", WorkerId[p])
        \/ j \in Orphan /\ Claimable(j) /\ job'[j] = Taken(j, "failed", WorkerId[p])
    BY <1>t, SweptType DEF Poll, Claim, ClaimOrphan, ClaimNothing
  <1>2. CASE job'[j] = Swept[j]
    BY <1>t, <1>e, <1>2, SweptRow DEF RowStep, Unmoved, Exhausted, Expired
  <1>3. CASE job'[j] # Swept[j]
    BY <1>e, <1>1, <1>3 DEF RowStep, Claimable, Expired, Taken
  <1> QED BY <1>2, <1>3

LEMMA ProceedRow ==
    ASSUME TInv, NEW p \in Proc, Proceed(p), NEW j \in Job
    PROVE  RowStep(j)
  <1>t. TypeOK /\ job[j].attempts \in Nat /\ job[j].attempts <= MaxAttempts
    BY DEF TInv, GInv, TypeOK, JobRow, AttemptsBounded
  <1>1. CASE FinishCommit(p)
    <2>1. CASE j = worker[p].job
      <3>1. job[j].status = "running" /\ job[j].attempts = worker[p].attempt /\ ~worker[p].seen
        BY <1>1, <2>1 DEF FinishCommit, StoredVerdict, TInv, HolderInv, LostAck, HoldsAttempt, OwnsAttempt, Owns,
           SeenInv
      <3> QED BY <1>1, <1>t, <2>1, <3>1 DEF FinishCommit, StoredVerdict, TypeOK, Released, RowStep
    <2>2. CASE j # worker[p].job
      BY <1>1, <1>t, <2>2 DEF FinishCommit, StoredVerdict, TypeOK, RowStep, Unmoved
    <2> QED BY <2>1, <2>2
  <1>2. CASE FailCommit(p)
    <2>1. CASE j = worker[p].job
      <3>1. job[j].status = "running" /\ job[j].attempts = worker[p].attempt
        BY <1>2, <2>1 DEF FailCommit, TInv, HolderInv, LostAck, HoldsAttempt, OwnsAttempt, Owns
      <3>2. /\ job'[j].status = (IF Retry(p) THEN "pending" ELSE "failed")
            /\ job'[j].attempts = job[j].attempts
            /\ evaluation'[j] = evaluation[j]
        BY <1>2, <1>t, <2>1 DEF FailCommit, TypeOK, Released
      <3> QED BY <1>t, <3>1, <3>2 DEF Retry, RowStep
    <2>2. CASE j # worker[p].job
      BY <1>2, <1>t, <2>2 DEF FailCommit, TypeOK, RowStep, Unmoved
    <2> QED BY <2>1, <2>2
  <1>3. CASE UNCHANGED <<job, evaluation>>
    BY <1>3 DEF RowStep, Unmoved
  <1> QED BY <1>1, <1>2, <1>3 DEF Proceed, LeaseLost, EvaluationRaises, Finish, FinishReadJob,
             FinishNotOwner, FinishReadEvaluation, FinishAborts, Fail, FailReadJob, FailNotOwner

LEMMA NextRow ==
    ASSUME TInv, [Next]_vars, NEW j \in Job
    PROVE  RowStep(j)
  <1>1. ASSUME NEW p \in Proc, Poll(p) PROVE RowStep(j)
    BY <1>1, PollRow
  <1>2. ASSUME NEW p \in Proc, Proceed(p) PROVE RowStep(j)
    BY <1>2, ProceedRow
  <1>3. ASSUME NEW p \in Proc, Renew(p) PROVE RowStep(j)
    BY <1>3 DEF Renew, TInv, GInv, TypeOK, JobRow, RowStep, Unmoved
  <1>4. ASSUME NEW p \in Proc, Crash(p) PROVE RowStep(j)
    BY <1>4 DEF Crash, RowStep, Unmoved
  <1>5. ASSUME NEW k \in Job, LeaseExpires(k) PROVE RowStep(j)
    BY <1>5 DEF LeaseExpires, TInv, GInv, TypeOK, JobRow, RowStep, Unmoved
  <1>6. ASSUME NEW k \in Job, BackoffElapses(k) PROVE RowStep(j)
    BY <1>6 DEF BackoffElapses, TInv, GInv, TypeOK, JobRow, RowStep, Unmoved
  <1>7. CASE UNCHANGED vars
    BY <1>7 DEF vars, RowStep, Unmoved
  <1> QED BY <1>1, <1>2, <1>3, <1>4, <1>5, <1>6, <1>7 DEF Next

\* The outcome of a job never changes once it is decided.
THEOREM OutcomesAreFinal == ASSUME Undisturbed PROVE Spec => OutcomeIsFinal
  <1>1. TInv /\ [Next]_vars =>
          [\A j \in Job : job[j].status \in {"succeeded", "failed"}
                             => job'[j].status = job[j].status]_vars
    BY NextRow DEF RowStep, Unmoved
  <1> QED BY <1>1, TInvariant, PTL DEF Spec, OutcomeIsFinal

\* Every behaviour of the queue is, job by job, a life that JobLifecycle allows.
THEOREM Refinement == ASSUME Undisturbed PROVE Spec => ImplementsLifecycle
  <1> DEFINE rec == [j \in Job |-> [status |-> job[j].status, attempts |-> job[j].attempts,
                                    verdict |-> evaluation[j]]]
  <1>1. Init => Lifecycle!Init
    BY DEF Init, Accepted, Lifecycle!Init
  <1>2. TInv /\ [Next]_vars => [Lifecycle!Next]_rec
    <2> SUFFICES ASSUME TInv, [Next]_vars PROVE Lifecycle!Next
      OBVIOUS
    <2>1. ASSUME NEW j \in Job PROVE Lifecycle!Step(j, rec[j], rec'[j])
      <3>1. job[j].attempts \in Nat
        BY DEF TInv, GInv, TypeOK, JobRow
      <3>2. /\ rec[j] = [status |-> job[j].status, attempts |-> job[j].attempts, verdict |-> evaluation[j]]
            /\ rec'[j] = [status |-> job'[j].status, attempts |-> job'[j].attempts, verdict |-> evaluation'[j]]
        OBVIOUS
      <3>3. RowStep(j)
        BY NextRow
      <3>4. CASE Unmoved(j)
        BY <3>2, <3>4 DEF Unmoved, Lifecycle!Step
      <3>5. CASE job'[j].attempts = job[j].attempts + 1
        <4>1. CASE job'[j].status = "running"
          <5>1. Lifecycle!Attempt(rec[j], rec'[j])
            BY <3>1, <3>2, <3>3, <3>5, <4>1 DEF RowStep, Unmoved, Lifecycle!Attempt
          <5> QED BY <5>1 DEF Lifecycle!Step
        <4>2. CASE job'[j].status # "running"
          <5>1. Lifecycle!Discard(j, rec[j], rec'[j])
            BY <3>1, <3>2, <3>3, <3>5, <4>2 DEF RowStep, Unmoved, Lifecycle!Discard
          <5> QED BY <5>1 DEF Lifecycle!Step
        <4> QED BY <4>1, <4>2
      <3>6. CASE ~Unmoved(j) /\ job'[j].attempts = job[j].attempts
        <4>1. CASE job'[j].status = "pending"
          <5>1. Lifecycle!Requeue(rec[j], rec'[j])
            BY <3>1, <3>2, <3>3, <3>6, <4>1 DEF RowStep, Lifecycle!Requeue
          <5> QED BY <5>1 DEF Lifecycle!Step
        <4>2. CASE job'[j].status = "succeeded"
          <5>1. Lifecycle!Succeed(rec[j], rec'[j])
            BY <3>1, <3>2, <3>3, <3>6, <4>2 DEF RowStep, Lifecycle!Succeed
          <5> QED BY <5>1 DEF Lifecycle!Step
        <4>3. CASE job'[j].status = "failed"
          <5>1. Lifecycle!GiveUp(rec[j], rec'[j])
            BY <3>1, <3>2, <3>3, <3>6, <4>3 DEF RowStep, Lifecycle!GiveUp
          <5> QED BY <5>1 DEF Lifecycle!Step
        <4> QED BY <3>1, <3>3, <3>6, <4>1, <4>2, <4>3 DEF RowStep
      <3> QED BY <3>3, <3>4, <3>5, <3>6 DEF RowStep
    <2> QED BY <2>1 DEF Lifecycle!Next
  <1> QED BY <1>1, <1>2, TInvariant, PTL DEF Spec, ImplementsLifecycle, Lifecycle!Spec

-----------------------------------------------------------------------------
(* Part 4: learners who poll, on top of what is proved of the queue. *)

PollType ==
    poll \in [Job -> [reading : BOOLEAN,
                      status  : {"pending", "running", "succeeded", "failed"},
                      shown   : {"nothing", "error", "pending", "running", "succeeded", "failed"}]]

\* A success that a poll has read, or has run into, is there to stay.
PollInv ==
    \A j \in Job :
        /\ poll[j].reading /\ poll[j].status = "succeeded" => job[j].status = "succeeded"
        /\ poll[j].shown = "error" => job[j].status = "succeeded"

ViewInv == PollType /\ PollInv

LEMMA ViewInitially == ViewInit => ViewInv
  BY DEF ViewInit, ViewInv, PollType, PollInv

\* A poller beside the queue lets the queue's behaviours be.
LEMMA QueueGoesOn == [ViewNext]_viewVars => [Next]_vars
  BY DEF ViewNext, viewVars, ReadJob, ReadEvaluation

LEMMA ViewSpecIsSpec == ViewSpec => Spec
  BY QueueGoesOn, PTL DEF ViewSpec, ViewInit, Spec

\* What NextRow says of a job that has succeeded.
LEMMA SuccessStays ==
    ASSUME TInv, [Next]_vars, NEW j \in Job, job[j].status = "succeeded"
    PROVE  job'[j].status = "succeeded"
  BY NextRow DEF RowStep, Unmoved

LEMMA ViewStep == TInv /\ ViewInv /\ [ViewNext]_viewVars => ViewInv'
  <1> SUFFICES ASSUME TInv, ViewInv, [ViewNext]_viewVars PROVE ViewInv'
    OBVIOUS
  <1>1. CASE UNCHANGED poll
    BY <1>1, QueueGoesOn, SuccessStays DEF ViewInv, PollType, PollInv
  <1>2. ASSUME NEW j \in Job, ReadJob(j) PROVE ViewInv'
    <2>1. job[j].status \in {"pending", "running", "succeeded", "failed"} /\ job' = job
      BY <1>2 DEF ReadJob, TInv, GInv, TypeOK, JobRow, vars
    <2> QED BY <1>2, <2>1 DEF ReadJob, ViewInv, PollType, PollInv
  <1>3. ASSUME NEW j \in Job, ReadEvaluation(j) PROVE ViewInv'
    <2>1. (job[j].status = "succeeded" <=> evaluation[j] # 0) /\ job' = job
      BY <1>3 DEF ReadEvaluation, TInv, VerdictIffSucceeded, vars
    <2>2. PollType'
      BY <1>3 DEF ReadEvaluation, ViewInv, PollType
    <2>3. ASSUME NEW i \in Job, i # j PROVE poll'[i] = poll[i]
      BY <1>3, <2>3 DEF ReadEvaluation, ViewInv, PollType
    <2>4. /\ ~poll'[j].reading
          /\ poll'[j].shown = "error" => job[j].status = "succeeded"
      BY <1>3, <2>1 DEF ReadEvaluation, Consistent, ViewInv, PollType, PollInv
    <2> QED BY <2>1, <2>2, <2>3, <2>4 DEF ViewInv, PollInv
  <1>4. CASE UNCHANGED viewVars
    BY <1>1, <1>4 DEF viewVars
  <1> QED BY <1>1, <1>2, <1>3, <1>4 DEF ViewNext

\* Undisturbed workers: however polls fall between the statements of finish_job
\* and fail_job, one is refused by its own validator only when the job has just
\* succeeded, and one that read the success finds the verdict.
THEOREM ErrorsMeanSuccess == ASSUME Undisturbed PROVE ViewSpec => []ErrorMeansSucceeded
  <1>1. TInv /\ ViewInv => ErrorMeansSucceeded
    BY DEF TInv, VerdictIffSucceeded, ViewInv, PollInv, ErrorMeansSucceeded
  <1>2. Spec => []TInv
    BY TInvariant
  <1> QED BY <1>1, <1>2, ViewInitially, ViewStep, ViewSpecIsSpec, PTL DEF ViewSpec

=============================================================================
