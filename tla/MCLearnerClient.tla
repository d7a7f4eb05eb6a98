-------------------------- MODULE MCLearnerClient --------------------------
(* Instances of LearnerClient for TLC. *)
EXTENDS LearnerClient, TLC

Symmetry == Permutations(Lesson) \union Permutations(Text)

=============================================================================
