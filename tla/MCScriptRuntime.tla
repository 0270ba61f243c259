-------------------------- MODULE MCScriptRuntime ---------------------------
(* A small instance of ScriptRuntime. *)
EXTENDS ScriptRuntime, TLC

Symmetry == Permutations(Refs) \cup Permutations(Vms)
=============================================================================
