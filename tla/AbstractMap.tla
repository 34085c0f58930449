----------------------------- MODULE AbstractMap -----------------------------
(***************************************************************************)
(* What a Map promises: pairs of a key and a value in the order the keys   *)
(* were first set, at most one of equal keys, and the next integer key.    *)
(***************************************************************************)
EXTENDS Integers, Sequences

CONSTANTS Key, Value, Equal, Integer

VARIABLES pairs, next

vars == <<pairs, next>>

Init == pairs = <<>> /\ next = 0

At(list, k) == {i \in DOMAIN list : <<list[i].key, k>> \in Equal}

Put(k, v) ==
  /\ next' = IF k \in DOMAIN Integer /\ Integer[k] >= next THEN Integer[k] + 1 ELSE next
  /\ LET old == pairs
         at  == At(old, k)
     IN  pairs' = IF at = {} THEN Append(old, [key |-> k, value |-> v])
                  ELSE [i \in DOMAIN old |->
                          IF i \in at THEN [old[i] EXCEPT !.value = v] ELSE old[i]]

Forget == next' = 0 /\ pairs' = <<>>

\* The last key that goes takes the next integer key with it.
Delete(k) ==
  LET old == pairs IN
  \E i \in At(old, k) :
    IF Len(old) = 1 THEN Forget
    ELSE /\ next' = next
         /\ pairs' = SubSeq(old, 1, i - 1) \o SubSeq(old, i + 1, Len(old))

Next ==
  \/ \E k \in Key, v \in Value : Put(k, v)
  \/ \E k \in Key : Delete(k)
  \/ Forget

Spec == Init /\ [][Next]_vars
=============================================================================
