-------------------------------- MODULE Heap ---------------------------------
(***************************************************************************)
(* What the garbage collector promises: objects that refer to objects, the *)
(* objects it starts from, and a collection that marks, one object of the  *)
(* working set at a time, and then walks the list of all objects and frees *)
(* those without a mark.                                                   *)
(*                                                                         *)
(* The running program is any step that refers to allocated objects only.  *)
(***************************************************************************)
EXTENDS Naturals

CONSTANT Object

VARIABLES
  allocated,    \* the objects on the list of all objects
  refs,         \* the objects the collector visits from each object
  roots,        \* the objects a collection starts from
  phase,        \* "run", "mark" or "sweep"
  marked,       \* the objects that carry a mark
  working_set,  \* marked objects whose references are still to be visited
  unswept       \* the objects the walk over the list has yet to meet

vars == <<allocated, refs, roots, phase, marked, working_set, unswept>>

Init ==
  /\ allocated = {} /\ refs = [o \in Object |-> {}] /\ roots = {}
  /\ phase = "run" /\ marked = {} /\ working_set = {} /\ unswept = {}

\* The program allocates, and changes what refers to what.
Run ==
  /\ phase = "run"
  /\ allocated \subseteq allocated' /\ allocated' \subseteq Object
  /\ refs' \in [Object -> SUBSET allocated']
  /\ roots' \subseteq allocated'
  /\ UNCHANGED <<phase, marked, working_set, unswept>>

Collect ==
  /\ phase = "run"
  /\ phase' = "mark" /\ marked' = roots /\ working_set' = roots
  /\ UNCHANGED <<allocated, refs, roots, unswept>>

Visit(o) ==
  /\ phase = "mark" /\ o \in working_set
  /\ marked' = marked \cup refs[o]
  /\ working_set' = (working_set \ {o}) \cup (refs[o] \ marked)
  /\ UNCHANGED <<allocated, refs, roots, phase, unswept>>

Sweep ==
  /\ phase = "mark" /\ working_set = {}
  /\ phase' = "sweep" /\ unswept' = allocated
  /\ UNCHANGED <<allocated, refs, roots, marked, working_set>>

\* An object with a mark loses the mark; one without is freed, and the next
\* object in its place refers to nothing.
Meet(o) ==
  /\ phase = "sweep" /\ o \in unswept
  /\ unswept' = unswept \ {o}
  /\ IF o \in marked
     THEN marked' = marked \ {o} /\ UNCHANGED <<allocated, refs>>
     ELSE allocated' = allocated \ {o} /\ refs' = [refs EXCEPT ![o] = {}] /\ UNCHANGED marked
  /\ UNCHANGED <<roots, phase, working_set>>

Resume ==
  /\ phase = "sweep" /\ unswept = {}
  /\ phase' = "run"
  /\ UNCHANGED <<allocated, refs, roots, marked, working_set, unswept>>

Collector == Collect \/ Sweep \/ Resume \/ \E o \in Object : Visit(o) \/ Meet(o)
Next == Run \/ Collector
Spec == Init /\ [][Next]_vars

-----------------------------------------------------------------------------
(* Properties *)

TypeOK ==
  /\ allocated \subseteq Object /\ refs \in [Object -> SUBSET Object] /\ roots \subseteq Object
  /\ phase \in {"run", "mark", "sweep"}
  /\ marked \subseteq Object /\ working_set \subseteq Object /\ unswept \subseteq Object

Closed(S) == \A o \in S : refs[o] \subseteq S

\* What the program can reach: in every set that holds the roots and, with an
\* object, what it refers to.
Reachable ==
  LET closed == {T \in SUBSET (Object \ roots) : Closed(roots \cup T)}
  IN {o \in Object : \A T \in closed : o \in roots \cup T}

\* Nothing the program can reach is freed, at any moment of a collection.
ReachableAllocated == Reachable \subseteq allocated

\* The objects allocated, without those the walk will free.
Kept == allocated \ (IF phase = "sweep" THEN unswept \ marked ELSE {})

\* Traced: while marking, the roots carry a mark, and only objects of the
\* working set refer to objects without one; when the walk frees, the objects
\* that stay hold the roots and everything they refer to (popMarkedObjects
\* visits every reference before vmCollectGarbage sweeps).
Traced ==
  /\ phase = "mark" => /\ roots \subseteq marked
                       /\ \A o \in marked \ working_set : refs[o] \subseteq marked
  /\ phase = "sweep" => roots \subseteq Kept /\ Closed(Kept)

\* No reference from an object outside a collection leads to one that was
\* freed, and none of a collection's marks outlive it.
Clean == phase = "run" => /\ marked = {} /\ working_set = {}
                          /\ \A o \in allocated : refs[o] \subseteq allocated

\* Between the marking and the end of the walk, what is left to free is
\* exactly what the program cannot reach: a collection frees everything that
\* was garbage when it began.
FreesGarbage == phase = "sweep" => Kept = Reachable

\* A step never frees an object that can be reached before it.
FreedUnreachable == [][\A o \in allocated \ allocated' : o \notin Reachable]_vars
=============================================================================
