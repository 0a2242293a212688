--------------------------- MODULE MCCoordinator ---------------------------
(* Instances of Coordinator for TLC. *)
EXTENDS Coordinator

CONSTANTS b1, b2

OneBot  == {b1}
TwoBots == {b1, b2}
OneSlot == {1}
=============================================================================
