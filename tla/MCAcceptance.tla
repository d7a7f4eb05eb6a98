---------------------------- MODULE MCAcceptance ----------------------------
(* Instances of Acceptance for TLC. *)
EXTENDS Acceptance, TLC

Symmetry == Permutations(Call) \union Permutations(Key) \union Permutations(Payload)

=============================================================================
