-------------------------------- MODULE Texts --------------------------------
(***************************************************************************)
(* What the modules of pure library code share: texts as sequences of      *)
(* bytes with offsets that count from 0, and the call being made, with its *)
(* arguments and its result, as the one variable.                          *)
(***************************************************************************)
EXTENDS Integers, Sequences, FiniteSets, SequencesExt

VARIABLE call

Idle == [op |-> "none"]
Do(op, args, result) == call' = [op |-> op, args |-> args, result |-> result]
Return == call # Idle /\ call' = Idle

None == -1
First(places) == IF places = {} THEN None ELSE Min(places)
Drop(d, n) == SubSeq(d, n + 1, Len(d))
At(d, n, i) == i + Len(n) <= Len(d) /\ SubSeq(d, i + 1, i + Len(n)) = n
=============================================================================
