-------------------------- MODULE MCEvaluationJobs --------------------------
(* Instances of EvaluationJobs for TLC. *)
EXTENDS EvaluationJobs, TLC

\* run_worker passes no worker id: every process is "local-worker".
SharedId == [p \in Proc |-> "local-worker"]

Symmetry == Permutations(Job \ Orphan) \union Permutations(Proc)

=============================================================================
