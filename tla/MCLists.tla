------------------------------- MODULE MCLists -------------------------------
(* Instance of Lists for TLC. *)
EXTENDS Lists

MCRange == {[from |-> f, to |-> t] : f \in {-1, 2}, t \in {-1, 0, 2}}
=============================================================================
