-------------------------- MODULE MCContentLifecycle --------------------------
(* Instances of ContentLifecycle for TLC. *)
EXTENDS ContentLifecycle, TLC

CONSTANTS p1, p2, built, tidied

Draft(needs, layout) == [status |-> "draft", needs |-> needs, layout |-> layout]

\* p1 builds on p2 and may be written anew with another layout; p2 says of itself
\* that it is reviewed, or is a draft that builds on p1.
TwoVersions ==
    p1 :> {Draft({p2}, built), Draft({p2}, tidied)} @@
    p2 :> {Draft({p1}, built), [status |-> "reviewed", needs |-> {}, layout |-> built]}

Symmetry == Permutations(Operator)

=============================================================================
