-------------------------------- MODULE Scope --------------------------------
(* What the globals of modules are to a program: a value for each name that *)
(* is defined, in each module.                                             *)
CONSTANTS Module, Text, Value

VARIABLE env    \* for each module, a function from the names that are defined

Set(m, t, v) == env' = [env EXCEPT ![m] = [u \in DOMAIN @ \cup {t} |-> IF u = t THEN v ELSE @[u]]]
Delete(m, t) == t \in DOMAIN env[m] /\ env' = [env EXCEPT ![m] = [u \in DOMAIN @ \ {t} |-> @[u]]]
\* eval and load run in a module of their own that begins as a copy.
Copy(m, e) == env' = [env EXCEPT ![e] = env[m]]
Fresh(e) == env' = [env EXCEPT ![e] = [u \in {} |-> u]]

Init == env = [m \in Module |-> [u \in {} |-> u]]
Next == \E m \in Module :
  \/ \E t \in Text : Delete(m, t) \/ \E v \in Value : Set(m, t, v)
  \/ Fresh(m) \/ \E e \in Module : Copy(m, e)
Spec == Init /\ [][Next]_env
=============================================================================
