---------------------------- MODULE JobLifecycle ----------------------------
(***************************************************************************)
(* What the evaluation queue promises of one job, with no workers, leases  *)
(* or transactions in sight: a job is queued, is attempted at most         *)
(* MaxAttempts times, and ends either with one verdict or, once its        *)
(* attempts are used up, failed and without one.  EvaluationJobs           *)
(* implements this when a worker that holds a lease renews it in time.     *)
(***************************************************************************)
EXTENDS Naturals

CONSTANTS
    Job,          \* the accepted jobs
    Orphan,       \* those whose submission row no longer exists
    MaxAttempts   \* worker_max_attempts

VARIABLE record   \* record[j]: the state of job j and the verdict it carries

Init == record = [j \in Job |-> [status |-> "pending", attempts |-> 0, verdict |-> 0]]

\* One job moves from the record b to the record a.  A verdict is named by the
\* attempt that produced it; 0 is no verdict.
Attempt(b, a) ==
    /\ b.status \in {"pending", "running"}
    /\ b.attempts < MaxAttempts
    /\ a = [status |-> "running", attempts |-> b.attempts + 1, verdict |-> b.verdict]

Requeue(b, a) ==
    /\ b.status = "running"
    /\ b.attempts < MaxAttempts
    /\ a = [b EXCEPT !.status = "pending"]

Succeed(b, a) ==
    /\ b.status = "running"
    /\ a = [status |-> "succeeded", attempts |-> b.attempts, verdict |-> b.attempts]

GiveUp(b, a) ==
    /\ b.status = "running"
    /\ b.attempts = MaxAttempts
    /\ a = [b EXCEPT !.status = "failed"]

\* A job without a submission is failed by the attempt that finds it.
Discard(j, b, a) ==
    /\ j \in Orphan
    /\ b.status \in {"pending", "running"}
    /\ b.attempts < MaxAttempts
    /\ a = [status |-> "failed", attempts |-> b.attempts + 1, verdict |-> b.verdict]

Step(j, b, a) ==
    \/ a = b
    \/ Attempt(b, a)
    \/ Requeue(b, a)
    \/ Succeed(b, a)
    \/ GiveUp(b, a)
    \/ Discard(j, b, a)

\* A claim sweeps every exhausted job and takes one: several jobs may move in
\* one step, each by a step of its own life.
Next == /\ record' = [j \in Job |-> record'[j]]
        /\ \A j \in Job : Step(j, record[j], record'[j])

Spec == Init /\ [][Next]_record

=============================================================================
