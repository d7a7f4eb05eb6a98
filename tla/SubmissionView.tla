--------------------------- MODULE SubmissionView ---------------------------
(***************************************************************************)
(* Learners polling GET /submissions/{id} while the queue is at work.      *)
(* _submission_view reads the job row and then, in a second statement of   *)
(* the same READ COMMITTED transaction, the evaluation row; the pydantic   *)
(* validator of SubmissionView refuses a pair that disagrees, which the    *)
(* client sees as a server error.  There is one poller per job.            *)
(***************************************************************************)
EXTENDS EvaluationJobs

VARIABLE poll   \* poll[j]: whether a read is in progress, the status its first statement
                \* saw, and what the learner was last shown: a status, "nothing" or "error"

viewVars == <<vars, poll>>

ViewInit ==
    /\ Init
    /\ poll = [j \in Job |-> [reading |-> FALSE, status |-> "pending", shown |-> "nothing"]]

\* get_submission finds the submission and _submission_view reads its job.
\* An orphan's submission is not found (404): its learner sees nothing.
ReadJob(j) ==
    /\ j \notin Orphan
    /\ ~poll[j].reading
    /\ poll' = [poll EXCEPT ![j].reading = TRUE, ![j].status = job[j].status]
    /\ UNCHANGED vars

\* Seeded fault: failed jobs are expected to carry a verdict as well.
ConsistentDecided(status, verdict) == (status \in {"succeeded", "failed"}) <=> (verdict # 0)

\* separate_processing_from_verdicts.
Consistent(status, verdict) == (status = "succeeded") <=> (verdict # 0)

ReadEvaluation(j) ==
    /\ poll[j].reading
    /\ poll' = [poll EXCEPT ![j].reading = FALSE,
                            ![j].shown = IF Consistent(poll[j].status, evaluation[j])
                                         THEN poll[j].status ELSE "error"]
    /\ UNCHANGED vars

ViewNext ==
    \/ Next /\ UNCHANGED poll
    \/ \E j \in Job : ReadJob(j) \/ ReadEvaluation(j)

ViewSpec == ViewInit /\ [][ViewNext]_viewVars

\* The client keeps polling and the API answers.
ViewFairSpec ==
    /\ ViewSpec
    /\ \A p \in Proc : WF_viewVars(Poll(p) /\ UNCHANGED poll) /\ WF_viewVars(Proceed(p) /\ UNCHANGED poll)
    /\ \A j \in Job : /\ WF_viewVars(LeaseExpires(j) /\ UNCHANGED poll)
                      /\ WF_viewVars(BackoffElapses(j) /\ UNCHANGED poll)
                      /\ WF_viewVars(ReadJob(j)) /\ WF_viewVars(ReadEvaluation(j))

-----------------------------------------------------------------------------
\* A poll fails only by overtaking the job's own success, so that the next
\* poll shows the verdict; and one that saw the success will find the verdict,
\* for the status is read first.
ErrorMeansSucceeded ==
    \A j \in Job :
        /\ poll[j].shown = "error" => job[j].status = "succeeded"
        /\ poll[j].reading /\ poll[j].status = "succeeded" => evaluation[j] # 0

\* Every learner who keeps polling comes to see an outcome and keeps seeing it.
OutcomeIsShown ==
    \A j \in Job \ Orphan : <>[](poll[j].shown \in {"succeeded", "failed"})

=============================================================================
