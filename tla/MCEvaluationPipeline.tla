------------------------ MODULE MCEvaluationPipeline ------------------------
(* Instances of EvaluationPipeline for TLC. *)
EXTENDS EvaluationPipeline, TLC

Symmetry == Permutations(Slot)

=============================================================================
