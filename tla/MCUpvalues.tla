---------------------------- MODULE MCUpvalues ----------------------------
(* Instance of Upvalues and its refinement for TLC. *)
EXTENDS UpvaluesRefinement, TLC

ObjectSymmetry == Permutations(Closure) \cup Permutations(Upvalue)
=============================================================================
