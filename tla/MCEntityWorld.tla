---------------------------- MODULE MCEntityWorld ----------------------------
(* A small instance of EntityWorld: every class in an inventory slot of its  *)
(* own, so that the classes, like the indexes, may be permuted.              *)
EXTENDS EntityWorld, TLC

MCSlotOf == [c \in Classes |-> c]
Symmetry == Permutations(Index) \cup Permutations(Classes)
=============================================================================
