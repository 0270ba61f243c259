--------------------------- MODULE MCEventBridge ----------------------------
(* A small instance of EventBridge. *)
EXTENDS EventBridge, TLC

Symmetry == Permutations(Events)
=============================================================================
