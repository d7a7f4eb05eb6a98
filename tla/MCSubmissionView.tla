-------------------------- MODULE MCSubmissionView --------------------------
(* Instances of SubmissionView for TLC. *)
EXTENDS SubmissionView, TLC

SharedId == [p \in Proc |-> "local-worker"]

Symmetry == Permutations(Job \ Orphan) \union Permutations(Proc)

=============================================================================
