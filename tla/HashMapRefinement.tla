-------------------------- MODULE HashMapRefinement --------------------------
(* HashMap implements AbstractMap: the values are those mapGet finds. *)
EXTENDS HashMap

Pairs == [i \in DOMAIN order |-> [key |-> order[i], value |-> Lookup(order[i])]]

Abstract == INSTANCE AbstractMap WITH pairs <- Pairs

\* Setting, replacing, removing and clearing, with any collisions, tombstones,
\* growing and shrinking, have exactly their effect on the pairs one can look
\* up, and keep the others and their order (mapSet, mapRemoveKey, mapClear).
Implements == Abstract!Spec
=============================================================================
