-------------------------------- MODULE Clock --------------------------------
(* The monotonic clock of the API process. *)
EXTENDS Naturals

CONSTANT MaxClock  \* bound: when the clock stops

ASSUME ClockAssumption == MaxClock \in Nat

VARIABLE now

=============================================================================
