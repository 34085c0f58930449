---------------------------- MODULE LexicalScope ----------------------------
(***************************************************************************)
(* What closures promise: variables.  A variable has a value and is known  *)
(* to the closures that captured it, and all of them and the function that *)
(* declared it read and write the same value, for as long as any of them   *)
(* exists.  There is no stack memory and there are no upvalues here: a     *)
(* variable in scope is an element of [local], one that only closures      *)
(* still reach is a member of [escaped].                                   *)
(***************************************************************************)
EXTENDS Naturals, Sequences

CONSTANTS Closure, Value

VARIABLES local, escaped

vars == <<local, escaped>>

Variable == [value : Value, by : SUBSET Closure]

TypeOK == local \in Seq(Variable) /\ escaped \subseteq Variable

Fresh(v) == [value |-> v, by |-> {}]

Captured(c) ==
  (\E i \in DOMAIN local : c \in local[i].by) \/ (\E x \in escaped : c \in x.by)

\* Variables no closure knows and no function can name are gone.
Surviving(S) == {x \in S : x.by # {}}

\* The locals above n go out of scope.
Leave(n) ==
  escaped' = Surviving(escaped \cup {local[i] : i \in (n + 1)..Len(local)})

Init == escaped = {} /\ \E v \in Value : local = <<Fresh(v)>>

Declare(v, w) == UNCHANGED escaped /\ local' = local \o <<Fresh(v), Fresh(w)>>
DeclareOne(v) == UNCHANGED escaped /\ local' = Append(local, Fresh(v))

Assign(i, v) ==
  /\ i \in DOMAIN local
  /\ local' = [local EXCEPT ![i].value = v]
  /\ UNCHANGED escaped

Capture(c, i) ==
  /\ ~Captured(c)
  /\ i \in DOMAIN local
  /\ local' = [local EXCEPT ![i].by = @ \cup {c}]
  /\ UNCHANGED escaped

\* What a closure does to the variable it knows, wherever that is.
Through(c, Op(_)) ==
  /\ Captured(c)
  /\ local' = [i \in DOMAIN local |->
                  IF c \in local[i].by THEN Op(local[i]) ELSE local[i]]
  /\ escaped' = Surviving({IF c \in x.by THEN Op(x) ELSE x : x \in escaped})

AssignThrough(c, v) == Through(c, LAMBDA x : [x EXCEPT !.value = v])
Share(c, d) == ~Captured(c) /\ Through(d, LAMBDA x : [x EXCEPT !.by = @ \cup {c}])
Drop(c) == Through(c, LAMBDA x : [x EXCEPT !.by = @ \ {c}])

EndScope(n) == Leave(n) /\ local' = SubSeq(local, 1, n)

\* Local n receives the result of a function whose locals were above it.
Return(n, v) ==
  Leave(n) /\ local' = [SubSeq(local, 1, n) EXCEPT ![n].value = v]

\* The locals of a function make way for the parameters of the one it ends with.
TailCall(n, args) ==
  Leave(n) /\ local' = SubSeq(local, 1, n) \o [i \in DOMAIN args |-> Fresh(args[i])]

\* The outermost function is over, and another begins.
Restart(v) == Leave(0) /\ local' = <<Fresh(v)>>

Next ==
  \/ \E v \in Value : DeclareOne(v) \/ Restart(v)
  \/ \E v, w \in Value : Declare(v, w)
  \/ \E i \in DOMAIN local, v \in Value : Assign(i, v)
  \/ \E c \in Closure, i \in DOMAIN local : Capture(c, i)
  \/ \E c \in Closure, v \in Value : AssignThrough(c, v)
  \/ \E c, d \in Closure : Share(c, d)
  \/ \E c \in Closure : Drop(c)
  \/ \E n \in 0..Len(local) :
       EndScope(n) \/ \E args \in {<<>>} \cup {<<v>> : v \in Value} : TailCall(n, args)
  \/ \E n \in DOMAIN local, v \in Value : Return(n, v)

Spec == Init /\ [][Next]_vars
=============================================================================
