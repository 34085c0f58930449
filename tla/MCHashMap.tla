------------------------------ MODULE MCHashMap ------------------------------
(* Instance of HashMap for TLC: three integers, a string and its copy. *)
EXTENDS HashMapRefinement

CONSTANTS s, copy

MCKey == {0, 1, 2, s, copy}
MCEqual == {<<k, k>> : k \in MCKey} \cup {<<s, copy>>, <<copy, s>>}
\* 0, the strings and 2 collide in two entries, 0 and the strings in four.
MCHash == [k \in MCKey |-> CASE k = 0 -> 3 [] k = 1 -> 0 [] k = 2 -> 5 [] OTHER -> 7]
MCInteger == [k \in 0..2 |-> k]
MCIndexKey == [i \in 0..2 |-> i]

ASSUME MCKeysAgree == KeysAgree
=============================================================================
