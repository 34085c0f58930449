------------------------------ MODULE MCGlobals ------------------------------
(* Instance of the globals of modules for TLC. *)
EXTENDS Globals, TLC

Symmetry == Permutations(Text) \cup Permutations(Value)
=============================================================================
