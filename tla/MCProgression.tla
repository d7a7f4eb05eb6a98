---------------------------- MODULE MCProgression ----------------------------
(* Instances of Progression for TLC. *)
EXTENDS Progression, TLC

\* Each lesson lists every misconception; which lessons define them, and which
\* have a transfer, the configurations say.
AllListed == [l \in Lesson |-> Misconception]

Symmetry == Permutations(Proc) \union Permutations(Session) \union Permutations(Misconception)

=============================================================================
