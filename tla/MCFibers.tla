----------------------------- MODULE MCFibers -----------------------------
(* Instance of Fibers and its refinement for TLC: fibers are interchangeable. *)
EXTENDS FibersRefinement

FiberSymmetry == Permutations(Fiber)
=============================================================================
