------------------------------- MODULE MCSlots -------------------------------
(* Instance of the slots of a fiber for TLC. *)
EXTENDS Slots, TLC

Symmetry_ == Permutations(Object)
=============================================================================
