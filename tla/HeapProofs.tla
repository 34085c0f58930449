------------------------------ MODULE HeapProofs ------------------------------
(***************************************************************************)
(* Theorems about Heap, for any set of objects and any program: what a     *)
(* collection frees cannot be reached, and what cannot be reached when it  *)
(* begins is freed.                                                        *)
(*                                                                         *)
(* HeapInv is inductive.  Its heart is in two parts: what carries a mark   *)
(* is closed but for the working set (Traced), and it is in every closed   *)
(* set that holds the roots (Least), so at the end of marking it is what   *)
(* the program can reach.                                                  *)
(*                                                                         *)
(* Natives implements Heap, for any natives.  NativeInv is inductive with  *)
(* HeapInv; PoolInv, UsesInv and OrderInv are what the intern pool, the    *)
(* uses of objects in C code and the list of all objects add to it.        *)
(***************************************************************************)
EXTENDS Natives, FiniteSetTheorems, FunctionTheorems, SequenceTheorems, WellFoundedInduction, TLAPS

\* M is in every closed set that holds the roots.
Least(M) == \A T \in SUBSET (Object \ roots) : Closed(roots \cup T) => M \subseteq roots \cup T

RunInv ==
  phase = "run" => /\ marked = {} /\ working_set = {} /\ unswept = {}
                   /\ roots \subseteq allocated /\ Closed(allocated)

MarkInv ==
  phase = "mark" => /\ unswept = {} /\ working_set \subseteq marked
                    /\ marked \subseteq allocated /\ Closed(allocated)
                    /\ Least(marked)

SweepInv ==
  phase = "sweep" => /\ working_set = {}
                     /\ marked \subseteq unswept /\ unswept \subseteq allocated
                     /\ Least(Kept)

HeapInv == TypeOK /\ RunInv /\ MarkInv /\ SweepInv /\ Traced

-----------------------------------------------------------------------------
(* What can be reached *)

\* It is in every closed set that holds the roots.
LEMMA ReachableLeast ==
  ASSUME NEW S \in SUBSET Object, roots \subseteq S, Closed(S)
  PROVE  Reachable \subseteq S
<1> DEFINE T == S \ roots
<1>1. T \in SUBSET (Object \ roots) /\ roots \cup T = S
  OBVIOUS
<1> HIDE DEF T
<1>2. Closed(roots \cup T)
  BY <1>1
<1> QED
  BY <1>1, <1>2 DEF Reachable

\* A set that is in all of these can be reached.
LEMMA LeastReachable ==
  ASSUME NEW M \in SUBSET Object, Least(M)
  PROVE  M \subseteq Reachable
  BY DEF Least, Reachable

\* The same of Least, for a closed set of any form.
LEMMA LeastIn ==
  ASSUME NEW M, Least(M), NEW S \in SUBSET Object, roots \subseteq S, Closed(S)
  PROVE  M \subseteq S
<1> DEFINE T == S \ roots
<1>1. T \in SUBSET (Object \ roots) /\ roots \cup T = S
  OBVIOUS
<1> HIDE DEF T
<1>2. Closed(roots \cup T)
  BY <1>1
<1> QED
  BY <1>1, <1>2 DEF Least

-----------------------------------------------------------------------------
(* HeapInv is inductive *)

LEMMA InitInv == Init => HeapInv
  BY DEF Init, HeapInv, TypeOK, RunInv, MarkInv, SweepInv, Traced, Closed, Kept

LEMMA RunStep == HeapInv /\ Run => HeapInv'
  BY DEF Run, HeapInv, TypeOK, RunInv, MarkInv, SweepInv, Traced, Closed, Kept

LEMMA CollectStep == HeapInv /\ Collect => HeapInv'
<1> SUFFICES ASSUME HeapInv, Collect PROVE HeapInv'
  OBVIOUS
<1>1. TypeOK' /\ RunInv' /\ SweepInv' /\ Traced'
  BY DEF Collect, HeapInv, TypeOK, RunInv, SweepInv, Traced
<1>2. Least(marked)'
  BY DEF Collect, Least
<1>3. MarkInv'
  BY <1>2 DEF Collect, HeapInv, RunInv, MarkInv, Closed
<1> QED
  BY <1>1, <1>3 DEF HeapInv

LEMMA VisitStep == ASSUME NEW o \in Object PROVE HeapInv /\ Visit(o) => HeapInv'
<1> SUFFICES ASSUME HeapInv, Visit(o) PROVE HeapInv'
  OBVIOUS
<1>1. TypeOK'
  BY DEF HeapInv, TypeOK, Visit
<1>2. RunInv' /\ SweepInv'
  BY DEF Visit, RunInv, SweepInv
<1>3. o \in marked /\ Least(marked)
  BY DEF Visit, HeapInv, MarkInv
<1>4. Least(marked)'
  <2> SUFFICES ASSUME NEW T \in SUBSET (Object \ roots), Closed(roots \cup T)
               PROVE  marked \cup refs[o] \subseteq roots \cup T
    BY DEF Visit, Least, Closed
  <2>1. marked \subseteq roots \cup T
    BY <1>3 DEF Least
  <2> QED
    BY <1>3, <2>1 DEF Closed
<1>5. MarkInv'
  BY <1>3, <1>4 DEF Visit, HeapInv, MarkInv, Closed
<1>6. Traced'
  BY DEF Visit, HeapInv, Traced
<1> QED
  BY <1>1, <1>2, <1>5, <1>6 DEF HeapInv

LEMMA SweepStep == HeapInv /\ Sweep => HeapInv'
<1> SUFFICES ASSUME HeapInv, Sweep PROVE HeapInv'
  OBVIOUS
<1>1. TypeOK' /\ RunInv' /\ MarkInv'
  BY DEF Sweep, HeapInv, TypeOK, RunInv, MarkInv
<1>2. Kept' = marked
  BY DEF Sweep, HeapInv, MarkInv, Kept
<1>3. roots \subseteq marked /\ Closed(marked)
  BY DEF Sweep, HeapInv, Traced, Closed
<1>4. Traced'
  BY <1>2, <1>3 DEF Sweep, Traced, Closed
<1>5. Least(marked)
  BY DEF Sweep, HeapInv, MarkInv
<1>6. Least(Kept)'
  BY <1>2, <1>5 DEF Sweep, Least, Closed
<1>7. SweepInv'
  BY <1>6 DEF Sweep, HeapInv, MarkInv, SweepInv
<1> QED
  BY <1>1, <1>4, <1>7 DEF HeapInv

LEMMA MeetStep == ASSUME NEW o \in Object PROVE HeapInv /\ Meet(o) => HeapInv'
<1> SUFFICES ASSUME HeapInv, Meet(o) PROVE HeapInv'
  OBVIOUS
<1>1. TypeOK'
  BY DEF HeapInv, TypeOK, Meet
<1>2. RunInv' /\ MarkInv'
  BY DEF Meet, RunInv, MarkInv
<1>3. /\ working_set = {} /\ marked \subseteq unswept /\ unswept \subseteq allocated /\ Least(Kept)
      /\ roots \subseteq Kept /\ Closed(Kept) /\ Kept \subseteq Object
  BY DEF Meet, HeapInv, TypeOK, SweepInv, Traced, Kept
<1>4. Kept' = Kept
  BY <1>3 DEF Meet, Kept
<1>5. \A p \in Kept : refs'[p] = refs[p]
  BY DEF Meet, HeapInv, TypeOK, Kept
<1>6. Traced'
  BY <1>3, <1>4, <1>5 DEF Meet, Traced, Closed
<1>7. Least(Kept)'
  <2> SUFFICES ASSUME NEW T \in SUBSET (Object \ roots), \A p \in roots \cup T : refs'[p] \subseteq roots \cup T
               PROVE  Kept \subseteq roots \cup T
    BY <1>4 DEF Meet, Least, Closed
  <2> DEFINE S == (roots \cup T) \cap Kept
  <2>1. S \in SUBSET Object /\ roots \subseteq S
    BY <1>3
  <2>2. Closed(S)
    BY <1>3, <1>5 DEF Closed
  <2> HIDE DEF S
  <2>3. Kept \subseteq S
    BY <1>3, <2>1, <2>2, LeastIn
  <2> QED
    BY <2>3 DEF S
<1>8. SweepInv'
  BY <1>3, <1>7 DEF Meet, SweepInv
<1> QED
  BY <1>1, <1>2, <1>6, <1>8 DEF HeapInv

LEMMA ResumeStep == HeapInv /\ Resume => HeapInv'
<1> SUFFICES ASSUME HeapInv, Resume PROVE HeapInv'
  OBVIOUS
<1>1. TypeOK' /\ MarkInv' /\ SweepInv' /\ Traced'
  BY DEF Resume, HeapInv, TypeOK, MarkInv, SweepInv, Traced
<1>2. Kept = allocated /\ roots \subseteq Kept /\ Closed(Kept)
  BY DEF Resume, HeapInv, Traced, Kept
<1>3. RunInv'
  BY <1>2 DEF Resume, HeapInv, SweepInv, RunInv, Closed
<1> QED
  BY <1>1, <1>3 DEF HeapInv

LEMMA NextInv == HeapInv /\ [Next]_vars => HeapInv'
<1> SUFFICES ASSUME HeapInv, [Next]_vars PROVE HeapInv'
  OBVIOUS
<1>1. CASE Run
  BY <1>1, RunStep
<1>2. CASE Collect
  BY <1>2, CollectStep
<1>3. CASE Sweep
  BY <1>3, SweepStep
<1>4. CASE Resume
  BY <1>4, ResumeStep
<1>5. ASSUME NEW o \in Object, Visit(o) PROVE HeapInv'
  BY <1>5, VisitStep
<1>6. ASSUME NEW o \in Object, Meet(o) PROVE HeapInv'
  BY <1>6, MeetStep
<1>7. CASE UNCHANGED vars
  BY <1>7 DEF vars, HeapInv, TypeOK, RunInv, MarkInv, SweepInv, Traced, Least, Closed, Kept
<1> QED
  BY <1>1, <1>2, <1>3, <1>4, <1>5, <1>6, <1>7 DEF Next, Collector

LEMMA Inductive == Spec => []HeapInv
  BY InitInv, NextInv, PTL DEF Spec

-----------------------------------------------------------------------------
(* The theorems *)

\* Every variable of the collector keeps its type.
THEOREM TypeCorrect == Spec => []TypeOK
  BY Inductive, PTL DEF HeapInv

\* While marking, only the working set refers to objects without a mark; what
\* the walk over the list keeps is closed and holds the roots.
THEOREM TracedCorrect == Spec => []Traced
  BY Inductive, PTL DEF HeapInv

\* In every state the kept objects hold the roots and what they refer to.
LEMMA KeptClosed == HeapInv => Kept \in SUBSET Object /\ roots \subseteq Kept /\ Closed(Kept)
<1> SUFFICES ASSUME HeapInv PROVE Kept \in SUBSET Object /\ roots \subseteq Kept /\ Closed(Kept)
  OBVIOUS
<1>1. CASE phase = "run"
  BY <1>1 DEF HeapInv, TypeOK, RunInv, Kept
<1>2. CASE phase = "mark"
  BY <1>2 DEF HeapInv, TypeOK, MarkInv, Traced, Kept
<1>3. CASE phase = "sweep"
  BY <1>3 DEF HeapInv, TypeOK, Traced, Kept
<1> QED
  BY <1>1, <1>2, <1>3 DEF HeapInv, TypeOK

\* No object the program can reach is freed: not by a collection at any
\* moment of the program, nor in the middle of one.
THEOREM ReachableCorrect == Spec => []ReachableAllocated
<1>1. HeapInv => ReachableAllocated
  BY KeptClosed, ReachableLeast DEF ReachableAllocated, Kept
<1> QED
  BY <1>1, Inductive, PTL

\* A collection leaves no marks, and no reference to a freed object.
THEOREM CleanCorrect == Spec => []Clean
<1>1. HeapInv => Clean
  BY DEF HeapInv, RunInv, Clean, Closed
<1> QED
  BY <1>1, Inductive, PTL

\* What a collection keeps is exactly what the program can reach.
THEOREM GarbageCorrect == Spec => []FreesGarbage
<1>1. HeapInv => FreesGarbage
  <2> SUFFICES ASSUME HeapInv, phase = "sweep" PROVE Kept = Reachable
    BY DEF FreesGarbage
  <2>1. Reachable \subseteq Kept
    BY KeptClosed, ReachableLeast
  <2>2. Kept \subseteq Reachable
    BY KeptClosed, LeastReachable DEF HeapInv, SweepInv
  <2> QED
    BY <2>1, <2>2
<1> QED
  BY <1>1, Inductive, PTL

\* The step that frees an object frees one that cannot be reached.
THEOREM FreedCorrect == Spec => FreedUnreachable
<1>1. ASSUME HeapInv, [Next]_vars, NEW o \in allocated \ allocated' PROVE o \notin Reachable
  <2>1. Reachable \subseteq Kept
    BY <1>1, KeptClosed, ReachableLeast
  <2>2. phase = "sweep" /\ o \in unswept \ marked
    BY <1>1 DEF Next, Collector, Run, Collect, Visit, Sweep, Meet, Resume, vars
  <2> QED
    BY <2>1, <2>2 DEF Kept
<1>2. HeapInv /\ [Next]_vars => [\A o \in allocated \ allocated' : o \notin Reachable]_vars
  BY <1>1
<1> QED
  BY <1>2, Inductive, PTL DEF Spec, FreedUnreachable
-----------------------------------------------------------------------------
(* The natives *)

Texts == DOMAIN Hash

\* A pool is a table of objects; an entry is found without passing a free slot.
Table(p) ==
  /\ Capacity(p) \in Nat \ {0} /\ DOMAIN p = 0..(Capacity(p) - 1)
  /\ \A i \in DOMAIN p : p[i] \in Object \cup {None}

Used(p) == {i \in DOMAIN p : p[i] # None}

\* The texts of the objects are given: they change when one is made.
Probed(p, tx) ==
  /\ Table(p)
  /\ \A i \in Used(p) : tx[p[i]] \in Texts
  /\ \A i, j \in Used(p) : tx[p[i]] = tx[p[j]] => i = j
  /\ \A i \in Used(p), j \in Free(p) : Distance(p, Hash[tx[p[i]]], i) < Distance(p, Hash[tx[p[i]]], j)

\* A pool in good order, with room as its load allows.
Good(p, tx) ==
  /\ Probed(p, tx) /\ Capacity(p) >= InitialCapacity
  /\ ~Overfull(Cardinality(Entries(p)), Capacity(p))

PoolInv == Good(pool, text) /\ Entries(pool) \subseteq Kept

NativeInv ==
  /\ code \in Seq(Steps) /\ Makes(code) <= Cardinality(Object \ allocated)
  /\ temp_reference \in Seq(Object) /\ slots \in [Slot -> Object \cup {None}]
  /\ roots = Roots(temp_reference, slots)
  /\ \A x \in DOMAIN env : env[x] \in allocated \cup NoObject
  /\ \A o \in Object \ allocated : refs[o] = {}
  /\ text \in [Object -> Texts \cup {None}]
  /\ PoolInv

-----------------------------------------------------------------------------
(* Numbers *)

LEMMA NatLeast ==
  ASSUME NEW S \in SUBSET Nat, S # {}
  PROVE  \E i \in S : \A j \in S : i <= j
<1> DEFINE R == OpToRel(<, Nat)
<1>1. IsWellFoundedOn(R, Nat)
  BY NatLessThanWellFounded
<1>2. \A x, y \in Nat : <<x, y>> \in R <=> x < y
  BY DEF OpToRel
<1> HIDE DEF R
<1>3. PICK x \in S : \A y \in S : ~ (<<y, x>> \in R)
  BY <1>1, WFMin
<1>4. \A y \in S : ~ (y < x)
  BY <1>2, <1>3
<1>5. \A y \in S : x <= y
  BY <1>4
<1> QED BY <1>5

LEMMA NatInduct ==
  ASSUME NEW S, 0 \in S, \A n \in Nat : n \in S => n + 1 \in S
  PROVE  Nat \subseteq S
<1> DEFINE T == Nat \ S
<1>1. ASSUME T # {} PROVE FALSE
  <2>1. PICK i \in T : \A j \in T : i <= j
    BY <1>1, NatLeast
  <2>2. i \in Nat /\ i # 0 /\ i \notin S
    BY <2>1
  <2>3. i - 1 \in Nat /\ i - 1 \notin T /\ (i - 1) + 1 = i
    BY <2>1, <2>2
  <2> QED BY <2>2, <2>3
<1> QED BY <1>1

LEMMA DivMod ==
  ASSUME NEW a \in Int, NEW n \in Nat \ {0}
  PROVE  a % n \in 0..(n - 1) /\ a \div n \in Int /\ a = n * (a \div n) + (a % n)
<1>1. a % n \in 0..(n - 1)
  OBVIOUS
<1>2. a \div n \in Int
  OBVIOUS
<1>3. a = n * (a \div n) + (a % n)
  OBVIOUS
<1> QED BY <1>1, <1>2, <1>3

LEMMA SameQuotient ==
  ASSUME NEW n \in Nat \ {0}, NEW p \in Int, NEW q \in Int, NEW r \in 0..(n - 1), NEW s \in 0..(n - 1),
         n * p + r = n * q + s
  PROVE  p = q /\ r = s
<1>1. n * (p - q) = s - r
  OBVIOUS
<1>2. p - q < 1
  <2> SUFFICES ASSUME p - q >= 1 PROVE FALSE
    OBVIOUS
  <2>1. n * (p - q) >= n
    OBVIOUS
  <2> QED BY <1>1, <2>1
<1>3. p - q > -1
  <2> SUFFICES ASSUME p - q <= -1 PROVE FALSE
    OBVIOUS
  <2>1. n * (p - q) <= -n
    OBVIOUS
  <2> QED BY <1>1, <2>1
<1>4. p = q
  BY <1>2, <1>3
<1> QED BY <1>4

LEMMA ModIs ==
  ASSUME NEW n \in Nat \ {0}, NEW q \in Int, NEW r \in 0..(n - 1)
  PROVE  (n * q + r) % n = r
<1> DEFINE a == n * q + r
<1>1. a \in Int
  OBVIOUS
<1> HIDE DEF a
<1>2. PICK p \in Int, s \in 0..(n - 1) : a = n * p + s /\ s = a % n
  BY <1>1, DivMod
<1>3. a = n * q + r
  BY DEF a
<1>4. a % n = r
  BY <1>2, <1>3, SameQuotient
<1> QED BY <1>4 DEF a


-----------------------------------------------------------------------------
(* Objects and steps *)

LEMMA FreshIn ==
  ASSUME Object \ allocated # {}
  PROVE  Fresh \in Object /\ Fresh \notin allocated
<1>1. \E o \in Object \ allocated : \A p \in Object \ allocated : o <= p
  BY NatLeast, NativesAssumption
<1> QED BY <1>1 DEF Fresh

\* What is made by the steps after the first k.
LEMMA MakesAfter ==
  ASSUME NEW s \in Seq(Steps), NEW t \in Seq(Steps), NEW k \in Nat,
         \A i \in 1..Len(t) : i + k \in 1..Len(s) /\ t[i] = s[i + k]
  PROVE  LET M == {i \in DOMAIN s : s[i].do \in {"new", "intern"}}
         IN  /\ Makes(t) \in Nat /\ Makes(s) \in Nat /\ Makes(t) <= Makes(s)
             /\ k >= 1 /\ 1 \in M => Makes(t) + 1 <= Makes(s)
<1> DEFINE M == {i \in DOMAIN s : s[i].do \in {"new", "intern"}}
           T == {i \in DOMAIN t : t[i].do \in {"new", "intern"}}
           U == {i + k : i \in T}
           f == [i \in T |-> i + k]
<1>1. Len(s) \in Nat /\ DOMAIN s = 1..Len(s) /\ Len(t) \in Nat /\ DOMAIN t = 1..Len(t)
  BY LenProperties
<1>2. IsFiniteSet(M) /\ IsFiniteSet(T)
  <2>1. IsFiniteSet(1..Len(s)) /\ IsFiniteSet(1..Len(t))
    BY <1>1, FS_Interval
  <2> QED BY <1>1, <2>1, FS_Subset
<1>3. Makes(s) = Cardinality(M) /\ Makes(t) = Cardinality(T)
  BY DEF Makes
<1>4. U \subseteq M /\ (k >= 1 => 1 \notin U) /\ T \subseteq Nat
  BY <1>1
<1>5. f \in Injection(T, M \cap U)
  <2>1. f \in [T -> M \cap U]
    BY <1>4
  <2>2. \A i, j \in T : f[i] = f[j] => i = j
    BY <1>4
  <2> HIDE DEF f, T, M, U
  <2> QED BY <2>1, <2>2, Fun_IsInj
<1> HIDE DEF f, T, M, U
<1>6. /\ Cardinality(M) \in Nat /\ Cardinality(T) \in Nat
      /\ IsFiniteSet(M \cap U) /\ Cardinality(M \cap U) \in Nat /\ Cardinality(M \cap U) <= Cardinality(M)
      /\ Cardinality(T) <= Cardinality(M \cap U)
  <2>1. IsFiniteSet(M \cap U) /\ Cardinality(M \cap U) <= Cardinality(M)
    BY <1>2, FS_Intersection
  <2>2. Cardinality(T) <= Cardinality(M \cap U)
    BY <1>5, <2>1, FS_Injection
  <2> QED BY <1>2, <2>1, <2>2, FS_CardinalityType
<1>7. ASSUME k >= 1, 1 \in M PROVE Cardinality(T) + 1 <= Cardinality(M)
  <2>1. IsFiniteSet(M \ {1}) /\ Cardinality(M \ {1}) = Cardinality(M) - 1
    BY <1>2, <1>7, FS_RemoveElement
  <2>2. M \cap U \in SUBSET (M \ {1})
    BY <1>4, <1>7
  <2>3. Cardinality(M \cap U) <= Cardinality(M \ {1})
    BY <2>1, <2>2, FS_Subset
  <2> QED BY <1>6, <2>1, <2>3
<1> QED BY <1>3, <1>6, <1>7 DEF M

LEMMA MakesType == ASSUME NEW s \in Seq(Steps) PROVE Makes(s) \in Nat
<1>1. \A i \in 1..Len(s) : i + 0 \in 1..Len(s) /\ s[i] = s[i + 0]
  OBVIOUS
<1>2. 0 \in Nat
  OBVIOUS
<1> QED BY <1>1, <1>2, MakesAfter

\* The steps left after one is done, or after some are skipped.
LEMMA CodeLeft ==
  ASSUME code \in Seq(Steps), code # <<>>
  PROVE  /\ Step \in Steps /\ Tail(code) \in Seq(Steps)
         /\ Makes(Tail(code)) \in Nat /\ Makes(code) \in Nat
         /\ Makes(Tail(code)) <= Makes(code)
         /\ Step.do \in {"new", "intern"} => Makes(Tail(code)) + 1 <= Makes(code)
<1>1. /\ Step \in Steps /\ Tail(code) \in Seq(Steps)
      /\ Len(Tail(code)) = Len(code) - 1
      /\ \A i \in 1..Len(Tail(code)) : Tail(code)[i] = code[i + 1]
  BY HeadTailProperties DEF Step
<1>2. Len(code) \in Nat \ {0} /\ DOMAIN code = 1..Len(code) /\ Step = code[1]
  <2>1. Len(code) \in Nat \ {0}
    BY EmptySeq
  <2>2. DOMAIN code = 1..Len(code)
    BY LenProperties
  <2>3. Head(code) = code[1]
    BY <2>1
  <2> QED BY <2>1, <2>2, <2>3 DEF Step
<1> DEFINE t == Tail(code)
<1>3. \A i \in 1..Len(t) : i + 1 \in 1..Len(code) /\ t[i] = code[i + 1]
  BY <1>1, <1>2
<1> HIDE DEF t
<1>4. PICK u \in Seq(Steps) : u = t
  BY <1>1 DEF t
<1>5. /\ Makes(u) \in Nat /\ Makes(code) \in Nat /\ Makes(u) <= Makes(code)
      /\ 1 \in {i \in DOMAIN code : code[i].do \in {"new", "intern"}} => Makes(u) + 1 <= Makes(code)
  BY <1>3, <1>4, MakesAfter
<1> QED BY <1>1, <1>2, <1>4, <1>5 DEF t

LEMMA CodeSkipped ==
  ASSUME code \in Seq(Steps), NEW n \in Nat, NEW t, t = SubSeq(code, n + 2, Len(code))
  PROVE  t \in Seq(Steps) /\ Makes(t) \in Nat /\ Makes(code) \in Nat /\ Makes(t) <= Makes(code)
<1>1. Len(code) \in Nat /\ \A i \in (n + 2)..Len(code) : code[i] \in Steps
  <2>1. Len(code) \in Nat /\ code \in [1..Len(code) -> Steps]
    BY LenProperties
  <2> QED BY <2>1
<1>2. /\ t \in Seq(Steps) /\ Len(t) = IF n + 2 <= Len(code) THEN Len(code) - (n + 2) + 1 ELSE 0
      /\ \A i \in 1..(Len(code) - (n + 2) + 1) : t[i] = code[(n + 2) + i - 1]
  <2>1. n + 2 \in Int /\ Len(code) \in Int
    BY <1>1
  <2> QED BY <1>1, <2>1, SubSeqProperties
<1>3. \A i \in 1..Len(t) : i + (n + 1) \in 1..Len(code) /\ t[i] = code[i + (n + 1)]
  <2> SUFFICES ASSUME NEW i \in 1..Len(t) PROVE i + (n + 1) \in 1..Len(code) /\ t[i] = code[i + (n + 1)]
    OBVIOUS
  <2>1. i \in 1..(Len(code) - (n + 2) + 1) /\ i \in Nat
    BY <1>1, <1>2
  <2>2. (n + 2) + i - 1 = i + (n + 1)
    BY <2>1
  <2> QED BY <1>1, <1>2, <2>1, <2>2
<1>4. n + 1 \in Nat
  OBVIOUS
<1> QED BY <1>2, <1>3, <1>4, MakesAfter

-----------------------------------------------------------------------------
(* Probing *)

LEMMA DistanceIs ==
  ASSUME NEW n \in Nat \ {0}, NEW p, Capacity(p) = n, NEW h \in Nat, NEW i \in 0..(n - 1), NEW r, r = h % n
  PROVE  /\ r \in 0..(n - 1)
         /\ i >= r => Distance(p, h, i) = i - r
         /\ i < r => Distance(p, h, i) = i + n - r
<1>1. r \in 0..(n - 1)
  <2>1. h \in Int
    OBVIOUS
  <2> QED BY <2>1, DivMod
<1>2. Distance(p, h, i) = (i + n - r) % n
  BY <1>1 DEF Distance
<1>3. CASE i >= r
  <2>1. i + n - r = n * 1 + (i - r) /\ i - r \in 0..(n - 1)
    BY <1>1, <1>3
  <2>2. (n * 1 + (i - r)) % n = i - r
    BY <2>1, ModIs
  <2> QED BY <1>1, <1>2, <1>3, <2>1, <2>2
<1>4. CASE i < r
  <2>1. i + n - r = n * 0 + (i + n - r) /\ i + n - r \in 0..(n - 1)
    BY <1>1, <1>4
  <2>2. (n * 0 + (i + n - r)) % n = i + n - r
    BY <2>1, ModIs
  <2> QED BY <1>1, <1>2, <1>4, <2>1, <2>2
<1> QED BY <1>1, <1>3, <1>4

\* From a hash on, probing comes by every place of the table, once.
LEMMA DistanceOnce ==
  ASSUME NEW p, Table(p), NEW h \in Nat, NEW i \in DOMAIN p, NEW j \in DOMAIN p, Distance(p, h, i) = Distance(p, h, j)
  PROVE  i = j
<1>1. PICK n \in Nat \ {0} : n = Capacity(p)
  BY DEF Table
<1>2. i \in 0..(n - 1) /\ j \in 0..(n - 1)
  BY <1>1 DEF Table
<1>3. PICK r : r = h % n
  OBVIOUS
<1>4. PICK d : d = Distance(p, h, i)
  OBVIOUS
<1>5. r \in 0..(n - 1) /\ (i >= r => d = i - r) /\ (i < r => d = i + n - r)
  BY <1>1, <1>2, <1>3, <1>4, DistanceIs
<1>6. PICK e : e = Distance(p, h, j)
  OBVIOUS
<1>7. r \in 0..(n - 1) /\ (j >= r => e = j - r) /\ (j < r => e = j + n - r)
  BY ONLY n \in Nat \ {0}, h \in Nat, <1>1, <1>2, <1>3, <1>6, DistanceIs
<1>8. d = e /\ n \in Nat
  BY <1>4, <1>6
<1> QED BY ONLY <1>2, <1>5, <1>7, <1>8

LEMMA DistanceIn ==
  ASSUME NEW p, Table(p), NEW h \in Nat, NEW i \in DOMAIN p
  PROVE  Distance(p, h, i) \in 0..(Capacity(p) - 1)
<1>1. PICK n \in Nat \ {0} : n = Capacity(p)
  BY DEF Table
<1>2. i \in 0..(n - 1)
  BY <1>1 DEF Table
<1>3. PICK r : r = h % n
  OBVIOUS
<1>4. PICK d : d = Distance(p, h, i)
  OBVIOUS
<1>5. r \in 0..(n - 1) /\ (i >= r => d = i - r) /\ (i < r => d = i + n - r)
  BY <1>1, <1>2, <1>3, <1>4, DistanceIs
<1>6. d \in 0..(n - 1)
  BY <1>1, <1>2, <1>5
<1> QED BY <1>1, <1>4, <1>6

LEMMA DistanceAll ==
  ASSUME NEW p, Table(p), NEW h \in Nat, NEW d \in 0..(Capacity(p) - 1)
  PROVE  \E i \in DOMAIN p : Distance(p, h, i) = d
<1>1. PICK n \in Nat \ {0} : n = Capacity(p)
  BY DEF Table
<1>2. PICK r \in 0..(n - 1) : r = h % n
  <2>1. h \in Int
    OBVIOUS
  <2> QED BY <2>1, DivMod
<1> DEFINE i == IF r + d < n THEN r + d ELSE r + d - n
<1>3. PICK k \in 0..(n - 1) : (k >= r => d = k - r) /\ (k < r => d = k + n - r)
  <2>1. i \in 0..(n - 1) /\ (i >= r => d = i - r) /\ (i < r => d = i + n - r)
    BY <1>1
  <2> HIDE DEF i
  <2> QED BY <2>1
<1> HIDE DEF i
<1>4. PICK e : e = Distance(p, h, k)
  OBVIOUS
<1>5. r \in 0..(n - 1) /\ (k >= r => e = k - r) /\ (k < r => e = k + n - r)
  BY <1>1, <1>2, <1>3, <1>4, DistanceIs
<1>6. k \in DOMAIN p
  BY <1>1 DEF Table
<1> QED BY <1>3, <1>4, <1>5, <1>6

\* The nearest place is one of them.
LEMMA NearestIn ==
  ASSUME NEW p, Table(p), NEW h \in Nat, NEW S \in SUBSET DOMAIN p, S # {}
  PROVE  Nearest(p, h, S) \in S /\ \A j \in S : Distance(p, h, Nearest(p, h, S)) <= Distance(p, h, j)
<1> DEFINE D == {Distance(p, h, i) : i \in S}
<1>1. \A i \in S : Distance(p, h, i) \in Nat
  <2> SUFFICES ASSUME NEW i \in S PROVE Distance(p, h, i) \in Nat
    OBVIOUS
  <2>1. i \in DOMAIN p
    OBVIOUS
  <2>2. Distance(p, h, i) \in 0..(Capacity(p) - 1)
    BY <2>1, DistanceIn
  <2> QED BY <2>2
<1>2. D \in SUBSET Nat /\ D # {}
  BY <1>1
<1>3. PICK d \in D : \A e \in D : d <= e
  <2> HIDE DEF D
  <2> QED BY <1>2, NatLeast
<1>4. \E i \in S : \A j \in S : Distance(p, h, i) <= Distance(p, h, j)
  BY <1>3
<1> QED BY <1>4 DEF Nearest

LEMMA HashIs == \A t \in Texts : Hash[t] \in Nat
  BY NativesAssumption DEF Texts

TextsOf(p, tx) == {tx[o] : o \in Entries(p)}

\* There are as many places in use as entries, and as texts.
LEMMA PoolSize ==
  ASSUME NEW p, NEW tx, Probed(p, tx)
  PROVE  /\ IsFiniteSet(Used(p)) /\ IsFiniteSet(Entries(p)) /\ Cardinality(Entries(p)) \in Nat
         /\ Cardinality(Used(p)) = Cardinality(Entries(p))
         /\ Cardinality(TextsOf(p, tx)) = Cardinality(Entries(p))
         /\ Cardinality(Entries(p)) < Capacity(p) => Free(p) # {}
<1> DEFINE U == Used(p)
           E == Entries(p)
           X == TextsOf(p, tx)
           f == [i \in U |-> p[i]]
           g == [i \in U |-> tx[p[i]]]
<1>1. PICK n \in Nat \ {0} : n = Capacity(p) /\ DOMAIN p = 0..(n - 1)
  BY DEF Probed, Table
<1>2. IsFiniteSet(0..(n - 1)) /\ Cardinality(0..(n - 1)) = n
  <2>1. IsFiniteSet(0..(n - 1)) /\ Cardinality(0..(n - 1)) = IF 0 > n - 1 THEN 0 ELSE (n - 1) - 0 + 1
    BY FS_Interval
  <2>2. (IF 0 > n - 1 THEN 0 ELSE (n - 1) - 0 + 1) = n
    OBVIOUS
  <2> QED BY <2>1, <2>2
<1>3. U \in SUBSET (0..(n - 1))
  BY <1>1 DEF Used
<1>4. IsFiniteSet(U) /\ (Cardinality(0..(n - 1)) = Cardinality(U) => 0..(n - 1) = U)
  BY <1>2, <1>3, FS_Subset
<1>5. f \in Bijection(U, E)
  <2>1. f \in [U -> E] /\ \A e \in E : \E i \in U : f[i] = e
    BY DEF Used, Entries
  <2>2. \A i, j \in U : f[i] = f[j] => i = j
    BY DEF Probed
  <2> HIDE DEF f, U, E
  <2> QED BY <2>1, <2>2, Fun_IsBij
<1>6. g \in Bijection(U, X)
  <2>1. g \in [U -> X] /\ \A e \in X : \E i \in U : g[i] = e
    BY DEF Used, Entries, TextsOf
  <2>2. \A i, j \in U : g[i] = g[j] => i = j
    BY DEF Probed
  <2> HIDE DEF g, U, X
  <2> QED BY <2>1, <2>2, Fun_IsBij
<1>7. ExistsBijection(U, E) /\ ExistsBijection(U, X)
  BY <1>5, <1>6 DEF ExistsBijection
<1> HIDE DEF U, E, X
<1>8. IsFiniteSet(E) /\ Cardinality(E) = Cardinality(U)
  BY <1>4, <1>7, FS_Bijection
<1>9. Cardinality(X) = Cardinality(U)
  BY <1>4, <1>7, FS_Bijection
<1>10. Cardinality(U) \in Nat
  BY <1>4, FS_CardinalityType
<1>11. Cardinality(E) < n => Free(p) # {}
  <2> SUFFICES ASSUME Cardinality(E) < n, Free(p) = {} PROVE FALSE
    OBVIOUS
  <2>1. 0..(n - 1) = U
    BY <1>1 DEF Free, Used, U
  <2> QED BY <1>2, <1>8, <2>1
<1> QED BY <1>1, <1>4, <1>8, <1>9, <1>10, <1>11 DEF U, E, X

\* A search as long as the pool has entries is long enough.
LEMMA EntryNear ==
  ASSUME NEW p, NEW tx, Probed(p, tx), NEW i \in Used(p)
  PROVE  Distance(p, Hash[tx[p[i]]], i) < Cardinality(Entries(p))
<1>1. PICK h \in Nat : h = Hash[tx[p[i]]]
  BY HashIs DEF Probed
<1>2. i \in DOMAIN p /\ Table(p)
  BY DEF Used, Probed
<1>3. PICK d \in 0..(Capacity(p) - 1) : d = Distance(p, h, i)
  BY <1>2, DistanceIn
<1>4. PICK n \in Nat \ {0} : n = Capacity(p)
  BY <1>2 DEF Table
<1> DEFINE D == {j \in DOMAIN p : Distance(p, h, j) <= d}
           f == [j \in D |-> Distance(p, h, j)]
<1>5. D \subseteq Used(p)
  <2> SUFFICES ASSUME NEW j \in DOMAIN p, Distance(p, h, j) <= d, j \notin Used(p) PROVE FALSE
    OBVIOUS
  <2>1. j \in Free(p)
    BY DEF Used, Free
  <2>2. d < Distance(p, h, j)
    BY <1>1, <1>3, <2>1 DEF Probed
  <2>3. Distance(p, h, j) \in 0..(Capacity(p) - 1)
    BY <1>2, DistanceIn
  <2> QED BY <1>3, <1>4, <2>2, <2>3
<1>6. f \in Surjection(D, 0..d)
  <2>1. \A j \in D : Distance(p, h, j) \in 0..d
    <3> SUFFICES ASSUME NEW j \in D PROVE Distance(p, h, j) \in 0..d
      OBVIOUS
    <3>1. Distance(p, h, j) \in 0..(Capacity(p) - 1)
      BY <1>2, DistanceIn
    <3> QED BY <1>3, <1>4, <3>1
  <2>2. f \in [D -> 0..d]
    BY <2>1
  <2>3. \A e \in 0..d : \E j \in D : f[j] = e
    <3> SUFFICES ASSUME NEW e \in 0..d PROVE \E j \in D : f[j] = e
      OBVIOUS
    <3>1. e \in 0..(Capacity(p) - 1)
      BY <1>3, <1>4
    <3>2. PICK j \in DOMAIN p : Distance(p, h, j) = e
      BY <1>2, <3>1, DistanceAll
    <3> QED BY <3>2
  <2> HIDE DEF f, D
  <2> QED BY <2>2, <2>3, Fun_IsSurj
<1> HIDE DEF D, f
<1>7. IsFiniteSet(D) /\ Cardinality(D) <= Cardinality(Used(p))
  BY <1>5, PoolSize, FS_Subset
<1>8. Cardinality(0..d) <= Cardinality(D) /\ Cardinality(D) \in Nat
  BY <1>6, <1>7, FS_Surjection, FS_CardinalityType
<1>9. Cardinality(0..d) = d + 1
  BY <1>3, FS_Interval
<1>10. Cardinality(Used(p)) = Cardinality(Entries(p)) /\ Cardinality(Entries(p)) \in Nat
  BY PoolSize
<1> QED BY <1>1, <1>3, <1>7, <1>8, <1>9, <1>10

-----------------------------------------------------------------------------
(* Searching and inserting *)

\* A search finds the entry with the text, and else nothing.
LEMMA FindIs ==
  ASSUME Probed(pool, text), NEW t \in Texts, NEW i \in Used(pool), text[pool[i]] = t
  PROVE  FindInterned(pool, t) = pool[i]
<1> DEFINE same == {j \in DOMAIN pool : pool[j] # None /\ text[pool[j]] = t}
           scanned == {j \in same : Distance(pool, Hash[t], j) < Cardinality(Entries(pool))
                                    /\ \A k \in Free(pool) : Distance(pool, Hash[t], j) < Distance(pool, Hash[t], k)}
<1>1. same = {i}
  <2>1. \A j \in same : j \in Used(pool) /\ text[pool[j]] = text[pool[i]]
    BY DEF Used
  <2>2. i \in same
    BY DEF Used
  <2> HIDE DEF same
  <2> QED BY <2>1, <2>2 DEF Probed
<1>2. Distance(pool, Hash[t], i) < Cardinality(Entries(pool))
  BY EntryNear
<1>3. \A k \in Free(pool) : Distance(pool, Hash[t], i) < Distance(pool, Hash[t], k)
  BY DEF Probed
<1>4. scanned = {i}
  <2> HIDE DEF same
  <2> QED BY <1>1, <1>2, <1>3
<1>5. FindInterned(pool, t) = IF scanned = {} THEN None ELSE pool[Nearest(pool, Hash[t], scanned)]
  BY DEF FindInterned
<1> HIDE DEF same, scanned
<1>6. Nearest(pool, Hash[t], scanned) = i
  <2>1. i \in DOMAIN pool /\ Table(pool) /\ Hash[t] \in Nat
    BY HashIs DEF Used, Probed
  <2>2. PICK S : S = scanned /\ S \in SUBSET DOMAIN pool /\ S # {}
    BY <1>4, <2>1
  <2>3. Nearest(pool, Hash[t], S) \in S
    BY <2>1, <2>2, NearestIn
  <2> QED BY <1>4, <2>2, <2>3
<1> QED BY <1>4, <1>5, <1>6

LEMMA FindNone ==
  ASSUME NEW p, NEW t, \A i \in Used(p) : text[p[i]] # t
  PROVE  FindInterned(p, t) = None
<1> DEFINE same == {j \in DOMAIN p : p[j] # None /\ text[p[j]] = t}
           scanned == {j \in same : Distance(p, Hash[t], j) < Cardinality(Entries(p))
                                    /\ \A k \in Free(p) : Distance(p, Hash[t], j) < Distance(p, Hash[t], k)}
<1>1. same = {}
  BY DEF Used
<1>2. scanned = {}
  <2> HIDE DEF same
  <2> QED BY <1>1
<1>3. FindInterned(p, t) = IF scanned = {} THEN None ELSE p[Nearest(p, Hash[t], scanned)]
  BY DEF FindInterned
<1> HIDE DEF scanned
<1> QED BY <1>2, <1>3

\* What a search finds is an entry.
LEMMA FoundIn ==
  ASSUME Probed(pool, text), NEW t \in Texts
  PROVE  /\ FindInterned(pool, t) # None => FindInterned(pool, t) \in Entries(pool)
         /\ FindInterned(pool, t) = None => \A i \in Used(pool) : text[pool[i]] # t
<1>1. ASSUME NEW i \in Used(pool), text[pool[i]] = t
      PROVE  FindInterned(pool, t) = pool[i] /\ pool[i] \in Entries(pool) /\ pool[i] # None
  <2>1. FindInterned(pool, t) = pool[i]
    BY <1>1, FindIs
  <2> QED BY <2>1 DEF Used, Entries
<1>2. CASE \E i \in Used(pool) : text[pool[i]] = t
  BY <1>1, <1>2
<1>3. CASE \A i \in Used(pool) : text[pool[i]] # t
  BY <1>3, FindNone
<1> QED BY <1>2, <1>3

\* The same entries with the same texts.
LEMMA ProbedSame ==
  ASSUME NEW p, NEW tx, NEW ty, Probed(p, tx), \A o \in Entries(p) : ty[o] = tx[o]
  PROVE  Probed(p, ty)
<1>1. \A i \in Used(p) : ty[p[i]] = tx[p[i]]
  BY DEF Used, Entries
<1> QED BY <1>1 DEF Probed

\* A new entry stands at the first free place from its hash on.
LEMMA InsertProbed ==
  ASSUME NEW p, NEW tx, Probed(p, tx), Free(p) # {}, NEW o \in Object, NEW t \in Texts, tx[o] = t,
         \A i \in Used(p) : tx[p[i]] # t, NEW u, u = Insert(p, o, t)
  PROVE  Probed(u, tx) /\ Capacity(u) = Capacity(p) /\ Entries(u) = Entries(p) \cup {o} /\ o \notin Entries(p)
<1>1. PICK h \in Nat : h = Hash[t]
  BY HashIs
<1>2. PICK a : a = Nearest(p, h, Free(p))
  OBVIOUS
<1>3. Table(p) /\ Free(p) \in SUBSET DOMAIN p
  BY DEF Probed, Free
<1>4. a \in Free(p) /\ \A j \in Free(p) : Distance(p, h, a) <= Distance(p, h, j)
  <2>1. PICK S \in SUBSET DOMAIN p : S = Free(p)
    BY <1>3
  <2>2. a \in S /\ \A j \in S : Distance(p, h, a) <= Distance(p, h, j)
    BY <1>2, <1>3, <2>1, NearestIn
  <2> QED BY <2>1, <2>2
<1>5. u = [p EXCEPT ![a] = o]
  BY <1>1, <1>2 DEF Insert
<1>6. a \in DOMAIN p /\ p[a] = None /\ o # None
  BY <1>4, NativesAssumption DEF Free
<1>7. DOMAIN u = DOMAIN p /\ u[a] = o /\ \A i \in DOMAIN p : i # a => u[i] = p[i]
  BY <1>5, <1>6
<1>8. Capacity(u) = Capacity(p)
  BY <1>7 DEF Capacity
<1>9. Table(u)
  BY <1>3, <1>7, <1>8 DEF Table
<1>10. Used(u) = Used(p) \cup {a} /\ Free(u) = Free(p) \ {a} /\ a \notin Used(p) /\ \A i \in Used(p) : u[i] = p[i]
  BY <1>6, <1>7 DEF Used, Free
<1>11. Entries(u) = Entries(p) \cup {o}
  <2>1. \A q : Entries(q) = {q[i] : i \in Used(q)}
    BY DEF Entries, Used
  <2> QED BY <1>7, <1>10, <2>1
<1>12. o \notin Entries(p)
  BY DEF Entries, Used
<1>13. \A g, i : Distance(u, g, i) = Distance(p, g, i)
  BY <1>8 DEF Distance
<1>14. \A i \in Used(u) : tx[u[i]] \in Texts
  BY <1>7, <1>10 DEF Probed
<1>15. \A i, j \in Used(u) : tx[u[i]] = tx[u[j]] => i = j
  BY <1>7, <1>10 DEF Probed
<1>16. ASSUME NEW i \in Used(u), NEW j \in Free(u) PROVE Distance(u, Hash[tx[u[i]]], i) < Distance(u, Hash[tx[u[i]]], j)
  <2>1. j \in Free(p) /\ j # a /\ j \in DOMAIN p
    BY <1>10 DEF Free
  <2>2. CASE i \in Used(p)
    BY <1>10, <1>13, <2>1, <2>2 DEF Probed
  <2>3. CASE i = a
    <3>1. PICK n \in Nat : n = Capacity(p)
      BY <1>3 DEF Table
    <3>2. Distance(p, h, a) \in 0..(n - 1) /\ Distance(p, h, j) \in 0..(n - 1)
      BY <1>3, <1>6, <2>1, <3>1, DistanceIn
    <3>3. Distance(p, h, a) # Distance(p, h, j)
      BY <1>3, <1>6, <2>1, DistanceOnce
    <3>4. Distance(p, h, a) <= Distance(p, h, j)
      BY <1>4, <2>1
    <3>5. Distance(p, h, a) < Distance(p, h, j)
      BY <3>1, <3>2, <3>3, <3>4
    <3>6. Hash[tx[u[i]]] = h
      BY <1>1, <1>7, <2>3
    <3> QED BY <1>13, <2>3, <3>5, <3>6
  <2> QED BY <1>10, <2>2, <2>3
<1> QED BY <1>8, <1>9, <1>11, <1>12, <1>14, <1>15, <1>16 DEF Probed

LEMMA EmptyProbed ==
  ASSUME NEW n \in Nat \ {0}, NEW tx, NEW u, u = Empty(n)
  PROVE  Probed(u, tx) /\ Capacity(u) = n /\ Entries(u) = {}
<1>1. DOMAIN u = 0..(n - 1) /\ \A i \in 0..(n - 1) : u[i] = None
  BY DEF Empty
<1>2. Cardinality(0..(n - 1)) = n
  <2>1. Cardinality(0..(n - 1)) = IF 0 > n - 1 THEN 0 ELSE (n - 1) - 0 + 1
    BY FS_Interval
  <2>2. (IF 0 > n - 1 THEN 0 ELSE (n - 1) - 0 + 1) = n
    OBVIOUS
  <2> QED BY <2>1, <2>2
<1>3. Capacity(u) = n
  BY <1>1, <1>2 DEF Capacity
<1>4. Used(u) = {} /\ Entries(u) = {}
  BY <1>1 DEF Used, Entries
<1> QED BY <1>1, <1>3, <1>4 DEF Probed, Table

-----------------------------------------------------------------------------
(* Recursion *)

\* A value that each step makes from the last.
Recurrent(S, x, F) ==
  \E f \in [Nat -> S] : f[0] = x /\ \A i \in Nat : f[i + 1] = F[i][f[i]]

LEMMA Recursion ==
  ASSUME NEW S, NEW x \in S, NEW F \in [Nat -> [S -> S]]
  PROVE  Recurrent(S, x, F)
<1> DEFINE Part(n, f) == f[0] = x /\ \A i \in 0..(n - 1) : f[i + 1] = F[i][f[i]]
           P == {n \in Nat : \E f \in [0..n -> S] : Part(n, f)}
<1>1. 0 \in P
  <2>1. [i \in 0..0 |-> x] \in [0..0 -> S] /\ Part(0, [i \in 0..0 |-> x])
    OBVIOUS
  <2> QED BY <2>1
<1>2. ASSUME NEW n \in Nat, n \in P PROVE n + 1 \in P
  <2>1. PICK f \in [0..n -> S] : Part(n, f)
    BY <1>2
  <2> DEFINE g == [i \in 0..(n + 1) |-> IF i = n + 1 THEN F[n][f[n]] ELSE f[i]]
  <2>2. g \in [0..(n + 1) -> S]
    BY <2>1
  <2>3. Part(n + 1, g)
    BY <2>1
  <2> HIDE DEF g, Part
  <2>4. n + 1 \in Nat
    OBVIOUS
  <2> QED BY <2>2, <2>3, <2>4
<1>3. \A n \in Nat : n \in P
  <2> HIDE DEF P
  <2> QED BY <1>1, <1>2, NatInduct
<1> DEFINE p == [n \in Nat |-> CHOOSE f \in [0..n -> S] : Part(n, f)]
<1>4. \A n \in Nat : p[n] \in [0..n -> S] /\ Part(n, p[n])
  BY <1>3
<1> HIDE DEF p
<1>5. ASSUME NEW n \in Nat PROVE p[n + 1][n] = p[n][n]
  <2> DEFINE Q == {k \in Nat : k <= n => p[n + 1][k] = p[n][k]}
  <2>1. 0 \in Q
    BY <1>4
  <2>2. ASSUME NEW k \in Nat, k \in Q PROVE k + 1 \in Q
    <3> SUFFICES ASSUME k + 1 <= n PROVE p[n + 1][k + 1] = p[n][k + 1]
      OBVIOUS
    <3>1. k \in 0..(n - 1) /\ k \in 0..((n + 1) - 1)
      OBVIOUS
    <3>2. p[n][k + 1] = F[k][p[n][k]] /\ p[n + 1][k + 1] = F[k][p[n + 1][k]]
      BY <1>4, <3>1
    <3> QED BY <2>2, <3>1, <3>2
  <2>3. Nat \subseteq Q
    <3> HIDE DEF Q
    <3> QED BY <2>1, <2>2, NatInduct
  <2> QED BY <2>3
<1> DEFINE h == [n \in Nat |-> p[n][n]]
<1>6. h \in [Nat -> S] /\ h[0] = x
  BY <1>4
<1>7. ASSUME NEW i \in Nat PROVE h[i + 1] = F[i][h[i]]
  <2>1. p[i + 1][i + 1] = F[i][p[i + 1][i]]
    BY <1>4
  <2> QED BY <1>5, <2>1
<1> QED BY <1>6, <1>7 DEF Recurrent

LEMMA CapacityIs == InitialCapacity \in Nat \ {0} /\ LoadPercent \in 1..99 /\ InitialCapacity * LoadPercent >= 100
  BY NativesAssumption

LEMMA DoubledIs ==
  /\ Doubled[0] = InitialCapacity
  /\ \A e \in Nat : Doubled[e] \in Nat /\ Doubled[e] >= InitialCapacity /\ Doubled[e] >= e + 1 /\ Doubled[e + 1] = 2 * Doubled[e]
<1> DEFINE F == [i \in Nat |-> [c \in Nat |-> 2 * c]]
<1>1. F \in [Nat -> [Nat -> Nat]] /\ \A i \in Nat, c \in Nat : F[i][c] = 2 * c
  OBVIOUS
<1> HIDE DEF F
<1>2. PICK f \in [Nat -> Nat] : f[0] = InitialCapacity /\ \A i \in Nat : f[i + 1] = F[i][f[i]]
  <2>1. Recurrent(Nat, InitialCapacity, F)
    BY <1>1, CapacityIs, Recursion
  <2> QED BY <2>1 DEF Recurrent
<1>3. f = [e \in Nat |-> IF e = 0 THEN InitialCapacity ELSE 2 * f[e - 1]]
  <2>1. ASSUME NEW e \in Nat PROVE f[e] = IF e = 0 THEN InitialCapacity ELSE 2 * f[e - 1]
    <3>1. CASE e # 0
      <4>1. e - 1 \in Nat /\ (e - 1) + 1 = e
        BY <3>1
      <4>2. f[e] = F[e - 1][f[e - 1]] /\ f[e - 1] \in Nat
        BY <1>2, <4>1
      <4> QED BY <1>1, <3>1, <4>1, <4>2
    <3> QED BY <1>2, <3>1
  <2> QED BY <2>1
<1>4. Doubled = [e \in Nat |-> IF e = 0 THEN InitialCapacity ELSE 2 * Doubled[e - 1]]
  BY <1>3 DEF Doubled
<1>5. Doubled[0] = InitialCapacity
  BY <1>4
<1>6. ASSUME NEW e \in Nat PROVE Doubled[e + 1] = 2 * Doubled[e]
  <2>1. e + 1 \in Nat /\ e + 1 # 0 /\ (e + 1) - 1 = e
    OBVIOUS
  <2> QED BY <1>4, <2>1
<1> DEFINE N == {e \in Nat : Doubled[e] \in Nat /\ Doubled[e] >= InitialCapacity /\ Doubled[e] >= e + 1}
<1>7. Nat \subseteq N
  <2>1. 0 \in N
    BY <1>5, CapacityIs
  <2>2. \A e \in Nat : e \in N => e + 1 \in N
    BY <1>6, CapacityIs
  <2> HIDE DEF N
  <2> QED BY <2>1, <2>2, NatInduct
<1> QED BY <1>5, <1>6, <1>7

-----------------------------------------------------------------------------
(* A table made from another *)

Places(n) == [0..(n - 1) -> Object \cup {None}]

\* What one turn of the loop that fills the new table makes of r.
Turn(p, i, S, r) == IF p[i] \in S THEN Insert(r, p[i], text[p[i]]) ELSE r

Turns(p, n, S, u) ==
  \E f \in [0..Capacity(p) -> Places(n)] :
    /\ f[0] = Empty(n) /\ f[Capacity(p)] = u
    /\ \A i \in 0..(Capacity(p) - 1) : f[i + 1] = Turn(p, i, S, f[i])

LEMMA RebuiltTurns ==
  ASSUME NEW n \in Nat \ {0}, NEW p, Table(p), NEW S \in SUBSET Object
  PROVE  Turns(p, n, S, Rebuilt(p, n, S))
<1> DEFINE x == Empty(n)
           T == Places(n)
           put[i \in 0..Capacity(p)] ==
             IF i = 0 THEN Empty(n)
             ELSE IF p[i - 1] \in S THEN Insert(put[i - 1], p[i - 1], text[p[i - 1]]) ELSE put[i - 1]
<1>1. Rebuilt(p, n, S) = put[Capacity(p)]
  BY DEF Rebuilt
<1>20. PICK old \in Nat : old = Capacity(p)
  BY DEF Table
<1> DEFINE F == [i \in Nat |-> [r \in T |-> IF i < old THEN Turn(p, i, S, r) ELSE r]]
<1>2. ASSUME NEW i \in 0..(old - 1), NEW r \in T PROVE Turn(p, i, S, r) \in T
  <2>1. CASE p[i] \in S
    <3>1. PICK o \in Object : o = p[i]
      BY <2>1
    <3>2. PICK a : a = Nearest(r, Hash[text[p[i]]], Free(r))
      OBVIOUS
    <3>3. Turn(p, i, S, r) = [r EXCEPT ![a] = o]
      BY <2>1, <3>1, <3>2 DEF Turn, Insert
    <3> QED BY <3>3 DEF Places
  <2> QED BY <2>1 DEF Turn
<1>3. F \in [Nat -> [T -> T]]
  <2>1. ASSUME NEW i \in Nat, NEW r \in T PROVE (IF i < old THEN Turn(p, i, S, r) ELSE r) \in T
    BY <1>2
  <2> HIDE DEF T
  <2> QED BY <2>1
<1>4. \A i \in Nat, r \in T : F[i][r] = IF i < old THEN Turn(p, i, S, r) ELSE r
  OBVIOUS
<1>5. x \in T
  BY DEF Empty, Places
<1> HIDE DEF F, T, x
<1>6. PICK f \in [Nat -> T] : f[0] = x /\ \A i \in Nat : f[i + 1] = F[i][f[i]]
  <2>1. Recurrent(T, x, F)
    BY <1>3, <1>5, Recursion
  <2> QED BY <2>1 DEF Recurrent
<1> DEFINE g == [i \in 0..old |-> f[i]]
<1>7. g \in [0..old -> T] /\ g[0] = x
  BY <1>6
<1>8. \A i \in 0..(old - 1) : g[i + 1] = Turn(p, i, S, g[i])
  <2> SUFFICES ASSUME NEW i \in 0..(old - 1) PROVE g[i + 1] = Turn(p, i, S, g[i])
    OBVIOUS
  <2>1. i \in Nat /\ i < old /\ i \in 0..old /\ i + 1 \in 0..old /\ f[i] \in T
    BY <1>6
  <2> QED BY <1>4, <1>6, <2>1
<1> HIDE DEF g
<1>9. g = [i \in 0..Capacity(p) |->
             IF i = 0 THEN Empty(n)
             ELSE IF p[i - 1] \in S THEN Insert(g[i - 1], p[i - 1], text[p[i - 1]]) ELSE g[i - 1]]
  <2>1. ASSUME NEW i \in 0..old
        PROVE  g[i] = IF i = 0 THEN Empty(n)
                      ELSE IF p[i - 1] \in S THEN Insert(g[i - 1], p[i - 1], text[p[i - 1]]) ELSE g[i - 1]
    <3>1. CASE i # 0
      <4>1. i - 1 \in 0..(old - 1) /\ (i - 1) + 1 = i
        BY <3>1
      <4>2. g[i] = Turn(p, i - 1, S, g[i - 1])
        BY <1>8, <4>1
      <4> QED BY <3>1, <4>2 DEF Turn
    <3>2. CASE i = 0
      BY <1>7, <3>2 DEF x
    <3> QED BY <3>1, <3>2
  <2> QED BY <1>7, <1>20, <2>1
<1>10. put = [i \in 0..Capacity(p) |->
                IF i = 0 THEN Empty(n)
                ELSE IF p[i - 1] \in S THEN Insert(put[i - 1], p[i - 1], text[p[i - 1]]) ELSE put[i - 1]]
  BY <1>9
<1> HIDE DEF put
<1>11. \A i \in 0..(old - 1) : put[i + 1] = Turn(p, i, S, put[i])
  <2> SUFFICES ASSUME NEW i \in 0..(old - 1) PROVE put[i + 1] = Turn(p, i, S, put[i])
    OBVIOUS
  <2>1. i + 1 \in 0..old /\ i + 1 # 0 /\ (i + 1) - 1 = i
    OBVIOUS
  <2> QED BY <1>10, <1>20, <2>1 DEF Turn
<1>12. put[0] = Empty(n) /\ DOMAIN put = 0..old
  BY <1>10, <1>20
<1>13. put \in [0..old -> T]
  <2> DEFINE N == {i \in Nat : i <= old => put[i] \in T}
  <2>1. 0 \in N
    BY <1>5, <1>12 DEF x
  <2>2. ASSUME NEW i \in Nat, i \in N PROVE i + 1 \in N
    <3> SUFFICES ASSUME i + 1 <= old PROVE put[i + 1] \in T
      OBVIOUS
    <3>1. i \in 0..(old - 1) /\ put[i] \in T
      BY <2>2
    <3> QED BY <1>2, <1>11, <3>1
  <2>3. Nat \subseteq N
    <3> HIDE DEF N
    <3> QED BY <2>1, <2>2, NatInduct
  <2>4. \A i \in 0..old : put[i] \in T
    BY <2>3
  <2>5. put = [i \in 0..old |-> put[i]]
    BY <1>10, <1>20
  <2> QED BY <2>4, <2>5
<1> QED BY <1>1, <1>11, <1>12, <1>13, <1>20 DEF Turns, T

Upto(p, S, i) == {p[j] : j \in {q \in Used(p) : q < i /\ p[q] \in S}}

\* The entries of S, and no other, are carried over.
LEMMA RebuiltIs ==
  ASSUME NEW p, Probed(p, text), NEW n \in Nat \ {0}, NEW S \in SUBSET Object,
         Cardinality(Entries(p) \cap S) < n, NEW u, u = Rebuilt(p, n, S)
  PROVE  Probed(u, text) /\ Capacity(u) = n /\ Entries(u) = Entries(p) \cap S
<1>1. Table(p)
  BY DEF Probed
<1>2. PICK old \in Nat : old = Capacity(p) /\ DOMAIN p = 0..(old - 1)
  BY <1>1 DEF Table
<1>3. PICK f \in [0..old -> Places(n)] :
        f[0] = Empty(n) /\ f[old] = u /\ \A i \in 0..(old - 1) : f[i + 1] = Turn(p, i, S, f[i])
  <2>1. Turns(p, n, S, u)
    BY <1>1, RebuiltTurns
  <2> QED BY <1>2, <2>1 DEF Turns
<1>4. \A i \in DOMAIN p : p[i] \in S => p[i] \in Object /\ p[i] # None /\ i \in Used(p)
  BY NativesAssumption DEF Used
<1> DEFINE Done(i) == Probed(f[i], text) /\ Capacity(f[i]) = n /\ Entries(f[i]) = Upto(p, S, i)
           N == {i \in Nat : i <= old => Done(i)}
<1>5. 0 \in N
  <2>1. \A q \in Used(p) : ~(q < 0)
    BY <1>2 DEF Used
  <2>2. Upto(p, S, 0) = {}
    BY <2>1 DEF Upto
  <2> QED BY <1>3, <2>2, EmptyProbed
<1>6. ASSUME NEW i \in Nat, i \in N PROVE i + 1 \in N
  <2> SUFFICES ASSUME i + 1 <= old PROVE Done(i + 1)
    OBVIOUS
  <2>1. i \in 0..(old - 1) /\ i \in DOMAIN p /\ f[i + 1] = Turn(p, i, S, f[i])
    BY <1>2, <1>3
  <2>2. Probed(f[i], text) /\ Capacity(f[i]) = n /\ Entries(f[i]) = Upto(p, S, i)
    BY <1>6, <2>1
  <2>3. \A q \in Used(p) : q \in Nat
    BY <1>2 DEF Used
  <2>4. CASE p[i] \notin S
    <3>1. \A q \in Used(p) : q < i + 1 /\ p[q] \in S <=> q < i /\ p[q] \in S
      BY <2>3, <2>4
    <3>2. Upto(p, S, i + 1) = Upto(p, S, i)
      BY <3>1 DEF Upto
    <3>3. f[i + 1] = f[i]
      BY <2>1, <2>4 DEF Turn
    <3> QED BY <2>2, <3>2, <3>3
  <2>5. CASE p[i] \in S
    <3>1. PICK o \in Object : o = p[i]
      BY <2>1, <2>5, <1>4
    <3>2. i \in Used(p)
      BY <1>4, <2>1, <2>5
    <3>3. PICK t \in Texts : t = text[o]
      BY <3>1, <3>2 DEF Probed
    <3>4. PICK r : r = f[i]
      OBVIOUS
    <3>5. f[i + 1] = Insert(r, o, t)
      BY <2>1, <2>5, <3>1, <3>3, <3>4 DEF Turn
    <3>6. Free(r) # {}
      <4>1. Entries(r) \in SUBSET (Entries(p) \cap S)
        BY <2>2, <3>4 DEF Upto, Entries, Used
      <4>2. IsFiniteSet(Entries(p) \cap S)
        BY PoolSize, FS_Intersection
      <4>3. Cardinality(Entries(r)) <= Cardinality(Entries(p) \cap S)
        BY <4>1, <4>2, FS_Subset
      <4>4. Cardinality(Entries(p) \cap S) \in Nat
        BY <4>2, FS_CardinalityType
      <4>5. Cardinality(Entries(r)) \in Nat /\ Capacity(r) = n /\ (Cardinality(Entries(r)) < Capacity(r) => Free(r) # {})
        BY <2>2, <3>4, PoolSize
      <4> QED BY <4>3, <4>4, <4>5
    <3>7. \A q \in Used(r) : text[r[q]] # t
      <4> SUFFICES ASSUME NEW q \in Used(r), text[r[q]] = t PROVE FALSE
        OBVIOUS
      <4>1. r[q] \in Upto(p, S, i)
        BY <2>2, <3>4 DEF Used, Entries
      <4>2. PICK j \in Used(p) : j < i /\ r[q] = p[j]
        BY <4>1 DEF Upto
      <4>3. text[p[j]] = text[p[i]]
        BY <3>1, <3>3, <4>2
      <4>4. j = i
        BY <3>2, <4>3 DEF Probed
      <4> QED BY <2>3, <4>2, <4>4
    <3>8. Probed(r, text) /\ Capacity(r) = n
      BY <2>2, <3>4
    <3>9. Probed(f[i + 1], text) /\ Capacity(f[i + 1]) = Capacity(r) /\ Entries(f[i + 1]) = Entries(r) \cup {o}
      BY <3>3, <3>5, <3>6, <3>7, <3>8, InsertProbed
    <3>10. \A q \in Used(p) : q < i + 1 /\ p[q] \in S <=> (q < i /\ p[q] \in S) \/ q = i
      BY <2>3, <2>5
    <3>11. Upto(p, S, i + 1) = Upto(p, S, i) \cup {o}
      BY <3>1, <3>2, <3>10 DEF Upto
    <3> QED BY <2>2, <3>4, <3>8, <3>9, <3>11
  <2> QED BY <2>4, <2>5
<1>7. Nat \subseteq N
  <2> HIDE DEF N
  <2> QED BY <1>5, <1>6, NatInduct
<1>8. Probed(u, text) /\ Capacity(u) = n /\ Entries(u) = Upto(p, S, old)
  BY <1>3, <1>7
<1>9. Upto(p, S, old) = Entries(p) \cap S
  <2>1. \A q \in DOMAIN p : q < old
    BY <1>2
  <2> QED BY <1>4, <2>1 DEF Upto, Entries, Used
<1> QED BY <1>8, <1>9

-----------------------------------------------------------------------------
(* The load of the pool *)

LEMMA RoomUnderLoad ==
  ASSUME NEW c \in Nat, NEW n \in Nat, n >= InitialCapacity, ~Overfull(c, n)
  PROVE  c < n
<1>1. PICK l \in 1..99 : l = LoadPercent
  BY CapacityIs
<1>2. n \in Nat \ {0}
  BY CapacityIs
<1>3. c * 100 <= n * l
  BY <1>1 DEF Overfull
<1>4. n * l <= n * 99
  BY <1>2
<1>5. n * l \in Int
  BY <1>2
<1> QED BY <1>2, <1>3, <1>4, <1>5

LEMMA LoadIs ==
  ASSUME NEW n \in Nat, n >= InitialCapacity
  PROVE  /\ n * LoadPercent \in Nat /\ n * LoadPercent >= 100
         /\ (2 * n) * LoadPercent = 2 * (n * LoadPercent)
<1>1. PICK l \in 1..99 : l = LoadPercent
  BY CapacityIs
<1>2. PICK c \in Nat \ {0} : c = InitialCapacity
  BY CapacityIs
<1>3. c * l >= 100 /\ n >= c
  BY <1>1, <1>2, CapacityIs
<1>4. n * l = c * l + (n - c) * l /\ (n - c) * l >= 0 /\ n * l \in Nat /\ c * l \in Nat /\ (n - c) * l \in Int
  BY <1>3
<1>5. (2 * n) * l = 2 * (n * l)
  OBVIOUS
<1> QED BY <1>1, <1>3, <1>4, <1>5

\* Twice the places have room for one more entry.
LEMMA DoubledHasRoom ==
  ASSUME NEW c \in Nat, NEW n \in Nat, n >= InitialCapacity, ~Overfull(c, n)
  PROVE  ~Overfull(c + 1, 2 * n)
<1>1. PICK z \in Nat : z = n * LoadPercent
  BY LoadIs
<1>2. z >= 100 /\ (2 * n) * LoadPercent = 2 * z
  BY <1>1, LoadIs
<1>3. c * 100 <= z
  BY <1>1 DEF Overfull
<1>4. (c + 1) * 100 <= 2 * z
  BY <1>2, <1>3
<1> QED BY <1>2, <1>4 DEF Overfull

\* vmStringPoolTargetCapacity finds a capacity with room for the entries.
LEMMA TargetIs ==
  ASSUME NEW c \in Nat
  PROVE  /\ TargetCapacity(c) \in Nat \ {0} /\ TargetCapacity(c) >= InitialCapacity
         /\ ~Overfull(c, TargetCapacity(c))
<1> DEFINE K == {k \in Nat : ~Overfull(c, Doubled[k])}
           Right(n) == ~Overfull(c, n) /\ (n = InitialCapacity \/ Overfull(c, n \div 2))
<1>1. c \in K
  <2>1. PICK d \in Nat : d = Doubled[c] /\ d >= c + 1 /\ d >= InitialCapacity
    BY DoubledIs
  <2> DEFINE M == {e \in Nat : Doubled[e] * LoadPercent >= 100 * (e + 1)}
  <2>2. 0 \in M
    BY DoubledIs, CapacityIs
  <2>3. ASSUME NEW e \in Nat, e \in M PROVE e + 1 \in M
    <3>1. PICK n \in Nat : n = Doubled[e] /\ n >= InitialCapacity /\ Doubled[e + 1] = 2 * n
      BY DoubledIs
    <3>2. PICK z \in Nat : z = n * LoadPercent /\ (2 * n) * LoadPercent = 2 * z
      BY <3>1, LoadIs
    <3>3. z >= 100 * (e + 1)
      BY <2>3, <3>1, <3>2
    <3>4. 2 * z >= 100 * ((e + 1) + 1)
      BY <3>3
    <3> QED BY <3>1, <3>2, <3>4
  <2>4. Nat \subseteq M
    <3> HIDE DEF M
    <3> QED BY <2>2, <2>3, NatInduct
  <2>5. PICK z \in Nat : z = d * LoadPercent
    BY <2>1, LoadIs
  <2>6. z >= 100 * (c + 1)
    BY <2>1, <2>4, <2>5
  <2>7. ~(c * 100 > z)
    BY <2>6
  <2> QED BY <2>1, <2>5, <2>7 DEF Overfull
<1>2. PICK k \in K : \A j \in K : k <= j
  <2>1. K \in SUBSET Nat /\ K # {}
    BY <1>1
  <2> HIDE DEF K
  <2> QED BY <2>1, NatLeast
<1>3. k \in 0..c /\ k \in Nat /\ ~Overfull(c, Doubled[k])
  BY <1>1, <1>2
<1>4. Doubled[k] = InitialCapacity \/ Overfull(c, Doubled[k] \div 2)
  <2>1. CASE k = 0
    BY <2>1, DoubledIs
  <2>2. CASE k # 0
    <3>1. PICK j \in Nat : j + 1 = k /\ j < k
      <4>1. k - 1 \in Nat /\ (k - 1) + 1 = k /\ k - 1 < k
        BY <1>3, <2>2
      <4> QED BY <4>1
    <3>2. PICK n \in Nat : n = Doubled[j] /\ Doubled[k] = 2 * n
      BY <3>1, DoubledIs
    <3>3. (2 * n) \div 2 = n
      OBVIOUS
    <3>4. j \notin K
      BY <1>2, <1>3, <3>1
    <3> QED BY <3>2, <3>3, <3>4
  <2> QED BY <2>1, <2>2
<1>5. \E n \in {Doubled[i] : i \in 0..c} : Right(n)
  BY <1>3, <1>4
<1>6. TargetCapacity(c) \in {Doubled[i] : i \in 0..c} /\ ~Overfull(c, TargetCapacity(c))
  BY <1>5 DEF TargetCapacity
<1>7. PICK i \in 0..c : TargetCapacity(c) = Doubled[i]
  BY <1>6
<1>8. Doubled[i] \in Nat /\ Doubled[i] >= InitialCapacity
  <2>1. i \in Nat
    OBVIOUS
  <2> QED BY <2>1, DoubledIs
<1> QED BY <1>6, <1>7, <1>8, CapacityIs

\* A new string is one more entry, whether the pool grows first or not.
LEMMA InternIs ==
  ASSUME Good(pool, text), text \in [Object -> Texts \cup {None}],
         NEW o \in Object, o \notin Entries(pool), NEW t \in Texts, FindInterned(pool, t) = None,
         NEW tx, tx = [text EXCEPT ![o] = t], NEW u, u = InternString(pool, o, t)
  PROVE  Good(u, tx) /\ Entries(u) = Entries(pool) \cup {o}
<1> DEFINE grown == IF Overfull(Cardinality(Entries(pool)) + 1, Capacity(pool))
                    THEN Rebuilt(pool, 2 * Capacity(pool), Entries(pool)) ELSE pool
<1>1. PICK c \in Nat : c = Cardinality(Entries(pool))
  BY PoolSize DEF Good
<1>2. PICK n \in Nat \ {0} : n = Capacity(pool) /\ n >= InitialCapacity
  BY DEF Good, Probed, Table
<1>3. Probed(pool, text) /\ ~Overfull(c, n) /\ c < n
  BY <1>1, <1>2, RoomUnderLoad DEF Good
<1>4. Entries(pool) \in SUBSET Object
  BY DEF Good, Probed, Table, Entries
<1>5. PICK g : g = grown
  OBVIOUS
<1>6. /\ Probed(g, text) /\ Entries(g) = Entries(pool) /\ Capacity(g) \in Nat /\ Capacity(g) >= InitialCapacity
      /\ ~Overfull(c + 1, Capacity(g))
  <2>1. CASE Overfull(c + 1, n)
    <3>1. PICK m \in Nat \ {0} : m = 2 * n
      BY <1>2
    <3>2. g = Rebuilt(pool, m, Entries(pool))
      BY <1>1, <1>2, <1>5, <2>1, <3>1
    <3>3. Cardinality(Entries(pool) \cap Entries(pool)) < m
      <4>1. Entries(pool) \cap Entries(pool) = Entries(pool)
        OBVIOUS
      <4>2. c < m
        BY <1>2, <1>3, <3>1
      <4> QED BY <1>1, <4>1, <4>2
    <3>4. Probed(g, text) /\ Capacity(g) = m /\ Entries(g) = Entries(pool) \cap Entries(pool)
      BY <1>3, <1>4, <3>2, <3>3, RebuiltIs
    <3>5. ~Overfull(c + 1, 2 * n)
      BY <1>2, <1>3, DoubledHasRoom
    <3> QED BY <1>2, <3>1, <3>4, <3>5, CapacityIs
  <2>2. CASE ~Overfull(c + 1, n)
    BY <1>1, <1>2, <1>3, <1>5, <2>2
  <2> QED BY <2>1, <2>2
<1>7. \A i \in Used(pool) : text[pool[i]] # t
  BY FoundIn DEF Good
<1>8. \A q \in Entries(g) : text[q] # t /\ tx[q] = text[q]
  <2>1. \A q \in Entries(pool) : text[q] # t /\ q # o /\ q \in Object
    BY <1>4, <1>7 DEF Entries, Used
  <2> QED BY <1>6, <2>1
<1>9. \A i \in Used(g) : text[g[i]] # t /\ tx[g[i]] # t
  BY <1>8 DEF Used, Entries
<1>10. FindInterned(g, t) = None
  BY <1>9, FindNone
<1>11. u = Insert(g, o, t)
  BY <1>5, <1>10 DEF InternString
<1>12. Probed(g, tx)
  BY <1>6, <1>8, ProbedSame
<1>13. Free(g) # {}
  <2>1. c + 1 < Capacity(g)
    BY <1>6, RoomUnderLoad
  <2>2. Cardinality(Entries(g)) = c /\ (Cardinality(Entries(g)) < Capacity(g) => Free(g) # {})
    BY <1>1, <1>6, PoolSize
  <2> QED BY <1>6, <2>1, <2>2
<1>14. tx[o] = t
  OBVIOUS
<1>15. Probed(u, tx) /\ Capacity(u) = Capacity(g) /\ Entries(u) = Entries(g) \cup {o}
  <2>1. \A i \in Used(g) : tx[g[i]] # t
    BY <1>9
  <2> QED BY ONLY o \in Object, t \in Texts, <2>1, <1>11, <1>12, <1>13, <1>14, InsertProbed
<1>16. Cardinality(Entries(u)) = c + 1
  <2>1. IsFiniteSet(Entries(pool))
    BY <1>3, PoolSize
  <2>2. Cardinality(Entries(pool) \cup {o}) = c + 1
    BY <1>1, <2>1, FS_AddElement
  <2> QED BY <1>6, <1>15, <2>2
<1> QED BY <1>6, <1>15, <1>16 DEF Good

\* A sweep takes out the strings that are not live, and no other.
LEMMA SweptIs ==
  ASSUME Good(pool, text), NEW live \in SUBSET Object, NEW u, u = SweepStringPool(pool, live)
  PROVE  Good(u, text) /\ Entries(u) = Entries(pool) \cap live
<1>1. CASE Entries(pool) \subseteq live
  <2>1. u = pool /\ Entries(pool) \cap live = Entries(pool)
    BY <1>1 DEF SweepStringPool
  <2> QED BY <2>1
<1>2. CASE ~(Entries(pool) \subseteq live)
  <2>1. PICK c \in Nat : c = Cardinality(Entries(pool) \cap live)
    <3>1. IsFiniteSet(Entries(pool) \cap live)
      BY PoolSize, FS_Intersection DEF Good
    <3> QED BY <3>1, FS_CardinalityType
  <2>2. PICK n \in Nat \ {0} : n = TargetCapacity(c) /\ n >= InitialCapacity /\ ~Overfull(c, n)
    BY TargetIs
  <2>3. u = Rebuilt(pool, n, live) /\ c < n
    BY <1>2, <2>1, <2>2, RoomUnderLoad DEF SweepStringPool
  <2>4. Probed(u, text) /\ Capacity(u) = n /\ Entries(u) = Entries(pool) \cap live
    BY <2>1, <2>3, RebuiltIs DEF Good
  <2> QED BY <2>1, <2>2, <2>4 DEF Good
<1> QED BY <1>1, <1>2

-----------------------------------------------------------------------------
(* A step of a native is a step of the program of Heap *)

\* What holds outside a collection.
LEMMA Outside ==
  ASSUME HeapInv, phase = "run"
  PROVE  /\ Kept = allocated /\ roots \subseteq allocated /\ allocated \subseteq Object
         /\ refs \in [Object -> SUBSET Object] /\ \A o \in allocated : refs[o] \subseteq allocated
  BY DEF HeapInv, TypeOK, RunInv, Closed, Kept

LEMMA RefsIn ==
  ASSUME HeapInv, NativeInv, phase = "run", NEW A, allocated \subseteq A
  PROVE  \A o \in Object : refs[o] \subseteq A
  BY Outside DEF NativeInv

LEMMA RootsIs ==
  /\ Elements(temp_reference) \subseteq Roots(temp_reference, slots)
  /\ slots \in [Slot -> Object \cup {None}] => \A s \in Slot : slots[s] # None => slots[s] \in Roots(temp_reference, slots)
  BY DEF Roots

\* A step that can be taken operates on allocated objects.
LEMMA OperandIn ==
  ASSUME NativeInv, Operable, NEW x \in Operands(Step)
  PROVE  x \in DOMAIN env /\ env[x] \in allocated
<1>1. x \in DOMAIN env /\ env[x] \notin NoObject
  BY DEF Operable, Known
<1>2. env[x] \in allocated \cup NoObject
  BY <1>1 DEF NativeInv
<1> QED BY <1>1, <1>2

LEMMA StepIs ==
  ASSUME NativeInv, code # <<>>
  PROVE  /\ Step \in Steps
         /\ Step.do \in {"new", "intern", "grow", "put", "hold", "push", "pop", "constant", "return"}
         /\ Step.do = "intern" => Step.text \in Texts
         /\ Step.do = "constant" => Step.skip \in Nat /\ Step.x \in Operands(Step)
         /\ Step.do = "new" => Operands(Step) = Step.to
         /\ Step.do \in {"put", "hold"} => Step.x \in Operands(Step) /\ Step.y \in Operands(Step)
         /\ Step.do \in {"push", "return"} => Step.x \in Operands(Step)
<1>1. Step \in Steps
  BY CodeLeft DEF NativeInv
<1>2. PICK s \in Steps : s = Step
  BY <1>1
<1>3. /\ s.do \in {"new", "intern", "grow", "put", "hold", "push", "pop", "constant", "return"}
      /\ s.do = "intern" => s.text \in Texts
      /\ s.do = "constant" => s.skip \in Nat
  BY <1>2 DEF Steps, Texts
<1>4. /\ s.do = "constant" => s.x \in Operands(s)
      /\ s.do = "new" => Operands(s) = s.to
      /\ s.do \in {"put", "hold"} => s.x \in Operands(s) /\ s.y \in Operands(s)
      /\ s.do \in {"push", "return"} => s.x \in Operands(s)
  BY <1>2 DEF Operands
<1> QED BY <1>1, <1>2, <1>3, <1>4

LEMMA ObjectsFinite ==
  ASSUME NEW A
  PROVE  IsFiniteSet(Object \ A) /\ Cardinality(Object \ A) \in Nat
<1>1. IsFiniteSet(Object) /\ Object \ A \in SUBSET Object
  BY NativesAssumption
<1>2. IsFiniteSet(Object \ A)
  BY <1>1, FS_Subset
<1> QED BY <1>2, FS_CardinalityType

\* A new object.
LEMMA MakeStep ==
  ASSUME HeapInv, NativeInv, phase = "run", Makes(code) >= 1, NEW x, NEW k, NEW to, NEW t, Make(x, k, to, t),
         \A y \in to : y \in DOMAIN env /\ env[y] \in allocated, t \in Texts \cup {None}
  PROVE  /\ Fresh \in Object \ allocated /\ allocated' = allocated \cup {Fresh}
         /\ refs' \in [Object -> SUBSET allocated'] /\ \A o \in Object \ allocated' : refs'[o] = {}
         /\ \A y \in DOMAIN env' : env'[y] \in allocated' \cup NoObject
         /\ text' = [text EXCEPT ![Fresh] = t] /\ text' \in [Object -> Texts \cup {None}]
         /\ Cardinality(Object \ allocated') = Cardinality(Object \ allocated) - 1
<1>1. Object \ allocated # {}
  <2> SUFFICES ASSUME Object \ allocated = {} PROVE FALSE
    OBVIOUS
  <2>1. Cardinality(Object \ allocated) = 0
    BY FS_EmptySet
  <2>2. Makes(code) \in Nat
    BY MakesType DEF NativeInv
  <2> QED BY <2>1, <2>2 DEF NativeInv
<1>2. PICK f \in Object : f = Fresh /\ f \notin allocated
  BY <1>1, FreshIn
<1>3. /\ allocated' = allocated \cup {f} /\ refs' = [refs EXCEPT ![f] = {env[y] : y \in to}]
      /\ text' = [text EXCEPT ![f] = t]
      /\ env' = [y \in DOMAIN env \cup {x} |-> IF y = x THEN f ELSE env[y]]
  BY <1>2 DEF Make, Bind
<1>4. refs' \in [Object -> SUBSET allocated']
  <2>1. {env[y] : y \in to} \subseteq allocated
    OBVIOUS
  <2>2. \A o \in Object : refs[o] \subseteq allocated'
    BY <1>3, RefsIn
  <2>3. refs \in [Object -> SUBSET allocated']
    BY <2>2, Outside
  <2> QED BY <1>2, <1>3, <2>1, <2>3
<1>5. \A o \in Object \ allocated' : refs'[o] = {}
  <2>1. \A o \in Object \ allocated' : o # f /\ refs[o] = {}
    BY <1>3 DEF NativeInv
  <2> QED BY <1>3, <2>1, Outside
<1>6. \A y \in DOMAIN env' : env'[y] \in allocated' \cup NoObject
  BY <1>3 DEF NativeInv
<1>7. text' \in [Object -> Texts \cup {None}]
  BY <1>3 DEF NativeInv
<1>8. Cardinality(Object \ allocated') = Cardinality(Object \ allocated) - 1
  <2>1. Object \ allocated' = (Object \ allocated) \ {f} /\ f \in Object \ allocated
    BY <1>2, <1>3
  <2>2. IsFiniteSet(Object \ allocated)
    BY ObjectsFinite
  <2> QED BY <2>1, <2>2, FS_RemoveElement
<1> QED BY <1>2, <1>3, <1>4, <1>5, <1>6, <1>7, <1>8

\* The pool of a step outside a collection that leaves it alone.
LEMMA PoolStays ==
  ASSUME HeapInv, NativeInv, phase = "run", phase' = "run", pool' = pool, allocated \subseteq allocated',
         \A o \in allocated : text'[o] = text[o]
  PROVE  PoolInv'
<1>1. Kept = allocated /\ Kept' = allocated'
  BY Outside DEF Kept
<1>2. \A o \in Entries(pool) : text'[o] = text[o]
  BY <1>1 DEF NativeInv, PoolInv
<1>3. PICK ty : ty = text'
  OBVIOUS
<1>4. Probed(pool, ty)
  BY <1>2, <1>3, ProbedSame DEF NativeInv, PoolInv, Good
<1>5. Good(pool, ty)
  BY <1>4 DEF NativeInv, PoolInv, Good
<1>6. Good(pool, ty)'
  BY <1>3, <1>5 DEF Good, Probed, Table, Used, Free, Entries, Capacity, Overfull, Distance, Texts
<1>7. Entries(pool)' \subseteq Kept'
  BY <1>1 DEF NativeInv, PoolInv, Entries
<1> QED BY <1>3, <1>6, <1>7 DEF PoolInv

\* The other parts, when the heap does not change.
LEMMA HeapStays ==
  ASSUME HeapInv, NativeInv, phase = "run", UNCHANGED <<allocated, refs, phase>>, UNCHANGED text, UNCHANGED pool
  PROVE  /\ PoolInv' /\ (\A o \in Object \ allocated : refs[o] = {})' /\ (text \in [Object -> Texts \cup {None}])'
         /\ refs' \in [Object -> SUBSET allocated']
<1>1. PoolInv'
  BY PoolStays
<1>2. refs' \in [Object -> SUBSET allocated']
  BY Outside, RefsIn
<1> QED BY <1>1, <1>2 DEF NativeInv, Texts

LEMMA CallStep ==
  ASSUME HeapInv, NativeInv, NEW n \in DOMAIN Native, NEW args \in [DOMAIN Argument[n] -> Slot], Call(n, args)
  PROVE  UNCHANGED vars /\ NativeInv'
<1>1. /\ phase = "run" /\ code' = Native[n] /\ Makes(Native[n]) <= Cardinality(Object \ allocated)
      /\ env' = [x \in DOMAIN args |-> slots[args[x]]] /\ \A x \in DOMAIN args : slots[args[x]] # None
      /\ UNCHANGED vars /\ UNCHANGED <<allocated, refs, phase, roots>> /\ UNCHANGED text /\ UNCHANGED pool
      /\ UNCHANGED slots /\ UNCHANGED temp_reference
  BY DEF Call, Idle, vars, locals
<1>2. Native[n] \in Seq(Steps)
  BY NativesAssumption
<1>3. \A x \in DOMAIN env' : env'[x] \in allocated' \cup NoObject
  <2>1. \A x \in DOMAIN args : slots[args[x]] \in allocated
    BY <1>1, Outside, RootsIs DEF NativeInv
  <2> QED BY <1>1, <2>1
<1>4. PoolInv' /\ (\A o \in Object \ allocated : refs[o] = {})' /\ (text \in [Object -> Texts \cup {None}])'
  BY <1>1, HeapStays
<1> QED BY <1>1, <1>2, <1>3, <1>4 DEF NativeInv, Roots, Elements, Makes, Steps

LEMMA ForgetStep ==
  ASSUME HeapInv, NativeInv, NEW s \in Slot, Forget(s)
  PROVE  Run /\ NativeInv'
<1>1. /\ phase = "run" /\ slots' = [slots EXCEPT ![s] = None] /\ roots' = Roots(temp_reference, slots')
      /\ UNCHANGED <<phase, marked, working_set, unswept>>
      /\ UNCHANGED <<allocated, refs, phase>> /\ UNCHANGED text /\ UNCHANGED pool
      /\ UNCHANGED code /\ UNCHANGED temp_reference /\ UNCHANGED env
  BY DEF Forget, Idle, locals
<1>2. roots' \subseteq allocated'
  <2>1. roots' \subseteq roots
    BY <1>1 DEF Roots, NativeInv
  <2> QED BY <1>1, <2>1, Outside
<1>3. /\ PoolInv' /\ (\A o \in Object \ allocated : refs[o] = {})' /\ (text \in [Object -> Texts \cup {None}])'
      /\ refs' \in [Object -> SUBSET allocated']
  BY <1>1, HeapStays
<1>4. Run
  BY <1>1, <1>2, <1>3, Outside DEF Run
<1>5. slots' \in [Slot -> Object \cup {None}]
  BY <1>1 DEF NativeInv
<1> QED BY <1>1, <1>3, <1>4, <1>5 DEF NativeInv, Roots, Elements, Makes, Steps

\* A collection begins, or does not.
LEMMA CollectStarts ==
  ASSUME HeapInv, NativeInv, Collect, UNCHANGED <<locals, calls, pool>>
  PROVE  NativeInv'
<1>1. UNCHANGED <<allocated, refs, roots>> /\ phase = "run" /\ phase' = "mark"
  BY DEF Collect
<1>2. UNCHANGED text /\ UNCHANGED env /\ UNCHANGED code /\ UNCHANGED slots /\ UNCHANGED temp_reference /\ UNCHANGED pool
  BY DEF locals, calls
<1>3. Kept' = Kept
  BY <1>1 DEF Kept
<1>4. PoolInv'
  BY <1>2, <1>3 DEF NativeInv, PoolInv, Good, Probed, Table, Used, Free, Entries, Capacity, Overfull, Distance, Texts
<1> QED BY <1>1, <1>2, <1>4 DEF NativeInv, Roots, Elements, Makes, Steps, Texts

\* The steps left have room for what they make.
LEMMA RoomLeft ==
  ASSUME NativeInv, code # <<>>, Continue, allocated' = allocated
  PROVE  (code \in Seq(Steps) /\ Makes(code) <= Cardinality(Object \ allocated))'
<1>1. /\ Tail(code) \in Seq(Steps) /\ Makes(Tail(code)) \in Nat /\ Makes(code) \in Nat
      /\ Makes(Tail(code)) <= Makes(code)
  BY CodeLeft DEF NativeInv
<1>2. Makes(Tail(code)) <= Cardinality(Object \ allocated)
  <2>1. PICK c \in Nat : c = Cardinality(Object \ allocated)
    BY ObjectsFinite
  <2>2. Makes(code) <= c
    BY <2>1 DEF NativeInv
  <2>3. Makes(Tail(code)) <= c
    BY <1>1, <2>2
  <2> QED BY <2>1, <2>3
<1> QED BY <1>1, <1>2 DEF Continue, Makes, Steps

LEMMA ExecNewStep ==
  ASSUME HeapInv, NativeInv, ExecNew
  PROVE  Run /\ NativeInv'
<1>1. /\ phase = "run" /\ code # <<>> /\ Operable /\ Step.do = "new" /\ Make(Step.x, Step.kind, Step.to, None) /\ Continue
      /\ UNCHANGED <<phase, marked, working_set, unswept>> /\ UNCHANGED <<roots, slots, temp_reference>> /\ UNCHANGED pool
  BY DEF ExecNew, Running, Same, SameRoots
<1>2. /\ Tail(code) \in Seq(Steps) /\ Makes(Tail(code)) \in Nat /\ Makes(code) \in Nat
      /\ Makes(Tail(code)) + 1 <= Makes(code)
  BY <1>1, CodeLeft DEF NativeInv
<1>3. Makes(code) >= 1
  BY <1>2
<1>4. \A y \in Step.to : y \in DOMAIN env /\ env[y] \in allocated
  BY <1>1, StepIs, OperandIn
<1>5. PICK x, k, to : x = Step.x /\ k = Step.kind /\ to = Step.to /\ Make(x, k, to, None) /\ \A y \in to : y \in DOMAIN env /\ env[y] \in allocated
  BY <1>1, <1>4
<1>6. /\ Fresh \in Object \ allocated /\ allocated' = allocated \cup {Fresh}
      /\ refs' \in [Object -> SUBSET allocated'] /\ \A o \in Object \ allocated' : refs'[o] = {}
      /\ \A y \in DOMAIN env' : env'[y] \in allocated' \cup NoObject
      /\ text' = [text EXCEPT ![Fresh] = None] /\ text' \in [Object -> Texts \cup {None}]
      /\ Cardinality(Object \ allocated') = Cardinality(Object \ allocated) - 1
  <2>1. None \in Texts \cup {None}
    OBVIOUS
  <2> QED BY <1>1, <1>3, <1>5, <2>1, MakeStep
<1>7. Run
  BY <1>1, <1>6, Outside DEF Run
<1>8. PoolInv'
  <2>1. \A o \in allocated : text'[o] = text[o]
    BY <1>6, Outside DEF NativeInv
  <2> QED BY <1>1, <1>6, <2>1, PoolStays
<1>9. (code \in Seq(Steps) /\ Makes(code) <= Cardinality(Object \ allocated))'
  <2>1. Makes(Tail(code)) <= Cardinality(Object \ allocated')
    <3>1. PICK c \in Nat : c = Cardinality(Object \ allocated)
      BY ObjectsFinite
    <3>2. Makes(code) <= c
      BY <3>1 DEF NativeInv
    <3>3. Makes(Tail(code)) <= c - 1
      BY <1>2, <3>2
    <3> QED BY <1>6, <3>1, <3>3
  <2> QED BY <1>1, <1>2, <2>1 DEF Continue, Makes, Steps
<1> QED BY <1>1, <1>6, <1>7, <1>8, <1>9 DEF NativeInv, Roots, Elements, Texts

LEMMA ExecInternStep ==
  ASSUME HeapInv, NativeInv, ExecIntern
  PROVE  (Run \/ UNCHANGED vars) /\ NativeInv'
<1>1. /\ phase = "run" /\ code # <<>> /\ Operable /\ Step.do = "intern" /\ Continue
      /\ UNCHANGED <<phase, marked, working_set, unswept>> /\ UNCHANGED <<roots, slots, temp_reference>>
  BY DEF ExecIntern, Running, Same, SameRoots
<1>2. PICK t \in Texts : t = Step.text
  BY <1>1, StepIs
<1>3. /\ Tail(code) \in Seq(Steps) /\ Makes(Tail(code)) \in Nat /\ Makes(code) \in Nat
      /\ Makes(Tail(code)) + 1 <= Makes(code)
  BY <1>1, CodeLeft DEF NativeInv
<1>4. Good(pool, text) /\ Entries(pool) \subseteq allocated
  BY <1>1, Outside DEF NativeInv, PoolInv
<1>5. CASE FindInterned(pool, t) # None
  <2>1. /\ Bind(Step.x, FindInterned(pool, t)) /\ UNCHANGED <<allocated, refs, phase>> /\ UNCHANGED text /\ UNCHANGED pool
    BY <1>1, <1>2, <1>5 DEF ExecIntern
  <2>2. FindInterned(pool, t) \in allocated
    BY <1>4, <1>5, FoundIn DEF Good
  <2>3. \A y \in DOMAIN env' : env'[y] \in allocated' \cup NoObject
    BY <2>1, <2>2 DEF NativeInv, Bind
  <2>4. PoolInv' /\ (\A o \in Object \ allocated : refs[o] = {})' /\ (text \in [Object -> Texts \cup {None}])'
    BY <1>1, <2>1, HeapStays
  <2>5. (code \in Seq(Steps) /\ Makes(code) <= Cardinality(Object \ allocated))'
    BY <1>1, <2>1, RoomLeft
  <2> QED BY <1>1, <2>1, <2>3, <2>4, <2>5 DEF NativeInv, Roots, Elements, vars
<1>6. CASE FindInterned(pool, t) = None
  <2>1. Make(Step.x, "string", {}, t) /\ pool' = InternString(pool, Fresh, t)
    BY <1>1, <1>2, <1>6 DEF ExecIntern
  <2>2. PICK x, k, to : Make(x, k, to, t) /\ to = {}
    BY <2>1
  <2>3. Makes(code) >= 1
    BY <1>3
  <2>4. /\ Fresh \in Object \ allocated /\ allocated' = allocated \cup {Fresh}
        /\ refs' \in [Object -> SUBSET allocated'] /\ \A o \in Object \ allocated' : refs'[o] = {}
        /\ \A y \in DOMAIN env' : env'[y] \in allocated' \cup NoObject
        /\ text' = [text EXCEPT ![Fresh] = t] /\ text' \in [Object -> Texts \cup {None}]
        /\ Cardinality(Object \ allocated') = Cardinality(Object \ allocated) - 1
    <3>1. \A y \in to : y \in DOMAIN env /\ env[y] \in allocated
      BY <2>2
    <3>2. t \in Texts \cup {None}
      OBVIOUS
    <3> QED BY <1>1, <2>2, <2>3, <3>1, <3>2, MakeStep
  <2>5. Run
    BY <1>1, <2>4, Outside DEF Run
  <2>6. PICK f \in Object : f = Fresh /\ f \notin Entries(pool)
    BY <1>4, <2>4
  <2>7. PICK tx, u : tx = text' /\ tx = [text EXCEPT ![f] = t] /\ u = pool' /\ u = InternString(pool, f, t)
    BY <2>1, <2>4, <2>6
  <2>8. Good(u, tx) /\ Entries(u) = Entries(pool) \cup {f}
    <3>1. text \in [Object -> Texts \cup {None}]
      BY DEF NativeInv
    <3> QED BY <1>4, <1>6, <2>6, <2>7, <3>1, InternIs
  <2>9. Good(pool, text)' /\ Entries(pool)' = Entries(u)
    BY <2>7, <2>8 DEF Good, Probed, Table, Used, Free, Entries, Capacity, Overfull, Distance, Texts
  <2>10. Kept' = allocated'
    BY <1>1 DEF Kept
  <2>11. PoolInv'
    BY <1>4, <2>4, <2>6, <2>8, <2>9, <2>10 DEF PoolInv
  <2>12. (code \in Seq(Steps) /\ Makes(code) <= Cardinality(Object \ allocated))'
    <3>1. Makes(Tail(code)) <= Cardinality(Object \ allocated')
      <4>1. PICK c \in Nat : c = Cardinality(Object \ allocated)
        BY ObjectsFinite
      <4>2. Makes(code) <= c
        BY <4>1 DEF NativeInv
      <4>3. Makes(Tail(code)) <= c - 1
        BY <1>3, <4>2
      <4> QED BY <2>4, <4>1, <4>3
    <3> QED BY <1>1, <1>3, <3>1 DEF Continue, Makes, Steps
  <2> QED BY <1>1, <2>4, <2>5, <2>11, <2>12 DEF NativeInv, Roots, Elements, Texts
<1> QED BY <1>5, <1>6

LEMMA ExecConstantStep ==
  ASSUME HeapInv, NativeInv, ExecConstant
  PROVE  UNCHANGED vars /\ NativeInv'
<1>1. /\ phase = "run" /\ code # <<>> /\ Operable /\ Step.do = "constant"
      /\ UNCHANGED <<phase, marked, working_set, unswept>> /\ UNCHANGED <<roots, slots, temp_reference>>
      /\ UNCHANGED <<allocated, refs, phase>> /\ UNCHANGED text /\ UNCHANGED pool
  BY DEF ExecConstant, Running, Same, SameRoots
<1> DEFINE found == {o \in refs[env[Step.x]] : kind[o] = "string" /\ text[o] = Step.text}
<1>2. PoolInv' /\ (\A o \in Object \ allocated : refs[o] = {})' /\ (text \in [Object -> Texts \cup {None}])'
  BY <1>1, HeapStays
<1>3. CASE found # {}
  <2>1. /\ Bind(Step.y, CHOOSE o \in found : TRUE)
        /\ code' = SubSeq(code, Step.skip + 2, Len(code))
    BY <1>3 DEF ExecConstant
  <2>2. found \subseteq allocated
    <3>1. env[Step.x] \in allocated
      BY <1>1, StepIs, OperandIn
    <3>2. refs[env[Step.x]] \subseteq allocated
      BY <1>1, <3>1, Outside
    <3> QED BY <3>2
  <2> HIDE DEF found
  <2>3. PICK o \in allocated : o = CHOOSE q \in found : TRUE
    BY <1>3, <2>2
  <2>4. \A y \in DOMAIN env' : env'[y] \in allocated' \cup NoObject
    BY <1>1, <2>1, <2>3 DEF NativeInv, Bind
  <2>5. PICK n \in Nat : n = Step.skip
    BY <1>1, StepIs
  <2>6. PICK t : t = SubSeq(code, n + 2, Len(code)) /\ t = code'
    BY <2>1, <2>5
  <2>7. t \in Seq(Steps) /\ Makes(t) \in Nat /\ Makes(code) \in Nat /\ Makes(t) <= Makes(code)
    BY <2>6, CodeSkipped DEF NativeInv
  <2>8. Makes(t) <= Cardinality(Object \ allocated)
    <3>1. PICK c \in Nat : c = Cardinality(Object \ allocated)
      BY ObjectsFinite
    <3>2. Makes(code) <= c
      BY <3>1 DEF NativeInv
    <3>3. Makes(t) <= c
      BY <2>7, <3>2
    <3> QED BY <3>1, <3>3
  <2>9. (code \in Seq(Steps) /\ Makes(code) <= Cardinality(Object \ allocated))'
    BY <1>1, <2>6, <2>7, <2>8 DEF Makes, Steps
  <2> QED BY <1>1, <1>2, <2>4, <2>9 DEF NativeInv, Roots, Elements, vars
<1>4. CASE found = {}
  <2>1. Continue /\ UNCHANGED env
    BY <1>4 DEF ExecConstant
  <2>2. (code \in Seq(Steps) /\ Makes(code) <= Cardinality(Object \ allocated))'
    BY <1>1, <2>1, RoomLeft
  <2> QED BY <1>1, <1>2, <2>1, <2>2 DEF NativeInv, Roots, Elements, vars
<1> QED BY <1>3, <1>4

\* The local variables of a native that goes on, or is done.
LEMMA LeaveIs ==
  ASSUME NativeInv, Leave, allocated' = allocated
  PROVE  \A y \in DOMAIN env' : env'[y] \in allocated' \cup NoObject
<1>1. CASE code' = <<>>
  BY <1>1 DEF Leave
<1>2. CASE code' # <<>>
  BY <1>2 DEF Leave, NativeInv
<1> QED BY <1>1, <1>2

LEMMA ExecStoreStep ==
  ASSUME HeapInv, NativeInv, ExecStore
  PROVE  Run /\ NativeInv'
<1>1. /\ phase = "run" /\ code # <<>> /\ Operable /\ Step.do \in {"grow", "put", "hold"} /\ Continue /\ Leave
      /\ UNCHANGED <<phase, marked, working_set, unswept>> /\ UNCHANGED <<roots, slots, temp_reference>>
      /\ UNCHANGED allocated /\ UNCHANGED text /\ UNCHANGED pool
      /\ refs' = IF Step.do = "put" THEN [refs EXCEPT ![env[Step.x]] = @ \cup {env[Step.y]}] ELSE refs
  BY DEF ExecStore, Running, Same, SameRoots
<1>2. /\ refs' \in [Object -> SUBSET allocated']
      /\ \A o \in Object \ allocated' : refs'[o] = {}
  <2>1. refs \in [Object -> SUBSET allocated] /\ \A o \in Object \ allocated : refs[o] = {}
    BY <1>1, RefsIn, Outside DEF NativeInv
  <2>2. CASE Step.do = "put"
    <3>1. PICK a, b : a = env[Step.x] /\ b = env[Step.y] /\ a \in allocated /\ b \in allocated
      BY <1>1, <2>2, StepIs, OperandIn
    <3>2. refs' = [refs EXCEPT ![a] = @ \cup {b}] /\ a \in Object
      BY <1>1, <2>2, <3>1, Outside
    <3> QED BY <1>1, <2>1, <3>1, <3>2
  <2>3. CASE Step.do # "put"
    BY <1>1, <2>1, <2>3
  <2> QED BY <2>2, <2>3
<1>3. Run
  BY <1>1, <1>2, Outside DEF Run
<1>4. PoolInv'
  BY <1>1, PoolStays
<1>5. (code \in Seq(Steps) /\ Makes(code) <= Cardinality(Object \ allocated))'
  BY <1>1, RoomLeft
<1>6. \A y \in DOMAIN env' : env'[y] \in allocated' \cup NoObject
  BY <1>1, LeaveIs
<1> QED BY <1>1, <1>2, <1>3, <1>4, <1>5, <1>6 DEF NativeInv, Roots, Elements, Texts

LEMMA ExecTempStep ==
  ASSUME HeapInv, NativeInv, ExecTemp
  PROVE  Run /\ NativeInv'
<1>1. /\ phase = "run" /\ code # <<>> /\ Operable /\ Step.do \in {"push", "pop"} /\ Continue /\ Leave
      /\ UNCHANGED <<phase, marked, working_set, unswept>> /\ UNCHANGED slots
      /\ UNCHANGED <<allocated, refs, phase>> /\ UNCHANGED text /\ UNCHANGED pool
      /\ roots' = Roots(temp_reference', slots)
      /\ temp_reference' = IF Step.do = "push" THEN Append(temp_reference, env[Step.x])
                           ELSE SubSeq(temp_reference, 1, Len(temp_reference) - 1)
  BY DEF ExecTemp, Running, Same, SameHeap
<1>2. /\ PoolInv' /\ (\A o \in Object \ allocated : refs[o] = {})' /\ (text \in [Object -> Texts \cup {None}])'
      /\ refs' \in [Object -> SUBSET allocated']
  BY <1>1, HeapStays
<1>3. /\ Len(temp_reference) \in Nat /\ DOMAIN temp_reference = 1..Len(temp_reference)
      /\ \A i \in 1..Len(temp_reference) : temp_reference[i] \in Object /\ temp_reference[i] \in allocated
  <2>1. temp_reference \in Seq(Object) /\ Elements(temp_reference) \subseteq allocated
    BY <1>1, Outside, RootsIs DEF NativeInv
  <2>2. Len(temp_reference) \in Nat /\ DOMAIN temp_reference = 1..Len(temp_reference)
    BY <2>1, LenProperties
  <2> QED BY <1>1, <2>1, <2>2, Outside DEF Elements
<1>4. temp_reference' \in Seq(Object) /\ Elements(temp_reference') \subseteq allocated
  <2>1. CASE Step.do = "push"
    <3>1. PICK a \in Object : a = env[Step.x] /\ a \in allocated
      BY <1>1, <2>1, StepIs, OperandIn, Outside
    <3>2. temp_reference \in Seq(Object)
      BY DEF NativeInv
    <3>3. PICK u : u = temp_reference' /\ u = Append(temp_reference, a)
      BY <1>1, <2>1, <3>1
    <3>4. /\ u \in Seq(Object) /\ Len(u) = Len(temp_reference) + 1
          /\ \A i \in 1..Len(temp_reference) : u[i] = temp_reference[i]
          /\ u[Len(temp_reference) + 1] = a
      BY <3>1, <3>2, <3>3, AppendProperties
    <3>5. DOMAIN u = 1..Len(u)
      BY <3>4, LenProperties
    <3>6. \A i \in DOMAIN u : u[i] \in allocated
      BY <1>3, <3>1, <3>4, <3>5
    <3> QED BY <3>3, <3>4, <3>6 DEF Elements
  <2>2. CASE Step.do # "push"
    <3>1. PICK n \in Int : n = Len(temp_reference) - 1
      <4>1. Len(temp_reference) - 1 \in Int
        BY <1>3
      <4> QED BY <4>1
    <3>2. PICK u : u = temp_reference' /\ u = SubSeq(temp_reference, 1, n)
      BY <1>1, <2>2, <3>1
    <3>3. \A i \in 1..n : temp_reference[i] \in Object /\ temp_reference[i] \in allocated
      BY <1>3, <3>1
    <3>4. /\ u \in Seq(Object) /\ Len(u) = IF 1 <= n THEN n - 1 + 1 ELSE 0
          /\ \A i \in 1..(n - 1 + 1) : u[i] = temp_reference[1 + i - 1]
      BY <3>2, <3>3, SubSeqProperties
    <3>5. DOMAIN u = 1..Len(u)
      BY <3>4, LenProperties
    <3>6. \A i \in DOMAIN u : u[i] \in allocated
      <4> SUFFICES ASSUME NEW i \in DOMAIN u PROVE u[i] \in allocated
        OBVIOUS
      <4>1. i \in 1..n /\ i \in 1..(n - 1 + 1) /\ 1 + i - 1 = i
        BY <3>4, <3>5
      <4> QED BY <3>3, <3>4, <4>1
    <3> QED BY <3>2, <3>4, <3>6 DEF Elements
  <2> QED BY <2>1, <2>2
<1>5. roots' \subseteq allocated'
  <2>1. \A s \in DOMAIN slots : slots[s] # None => slots[s] \in allocated
    BY <1>1, Outside, RootsIs DEF NativeInv
  <2> QED BY <1>1, <1>4, <2>1 DEF Roots
<1>6. Run
  BY <1>1, <1>2, <1>5, Outside DEF Run
<1>7. (code \in Seq(Steps) /\ Makes(code) <= Cardinality(Object \ allocated))'
  BY <1>1, RoomLeft
<1>8. \A y \in DOMAIN env' : env'[y] \in allocated' \cup NoObject
  BY <1>1, LeaveIs
<1> QED BY <1>1, <1>2, <1>4, <1>6, <1>7, <1>8 DEF NativeInv, Roots, Elements

LEMMA ExecReturnStep ==
  ASSUME HeapInv, NativeInv, NEW s \in Slot, ExecReturn(s)
  PROVE  Run /\ NativeInv'
<1>1. /\ phase = "run" /\ code # <<>> /\ Operable /\ Step.do = "return" /\ Continue /\ Leave
      /\ UNCHANGED <<phase, marked, working_set, unswept>> /\ UNCHANGED temp_reference
      /\ UNCHANGED <<allocated, refs, phase>> /\ UNCHANGED text /\ UNCHANGED pool
      /\ roots' = Roots(temp_reference, slots') /\ slots' = [slots EXCEPT ![s] = env[Step.x]]
  BY DEF ExecReturn, Running, Same, SameHeap
<1>2. /\ PoolInv' /\ (\A o \in Object \ allocated : refs[o] = {})' /\ (text \in [Object -> Texts \cup {None}])'
      /\ refs' \in [Object -> SUBSET allocated']
  BY <1>1, HeapStays
<1>3. PICK a \in Object : a = env[Step.x] /\ a \in allocated
  BY <1>1, StepIs, OperandIn, Outside
<1>4. slots' \in [Slot -> Object \cup {None}] /\ \A q \in Slot : slots'[q] = slots[q] \/ slots'[q] = a
  BY <1>1, <1>3 DEF NativeInv
<1>5. roots' \subseteq allocated'
  <2>1. \A q \in Slot : slots[q] # None => slots[q] \in allocated
    BY <1>1, Outside, RootsIs DEF NativeInv
  <2>2. Elements(temp_reference) \subseteq allocated
    BY <1>1, Outside, RootsIs DEF NativeInv
  <2> QED BY <1>1, <1>3, <1>4, <2>1, <2>2 DEF Roots
<1>6. Run
  BY <1>1, <1>2, <1>5, Outside DEF Run
<1>7. (code \in Seq(Steps) /\ Makes(code) <= Cardinality(Object \ allocated))'
  BY <1>1, RoomLeft
<1>8. \A y \in DOMAIN env' : env'[y] \in allocated' \cup NoObject
  BY <1>1, LeaveIs
<1> QED BY <1>1, <1>2, <1>4, <1>6, <1>7, <1>8 DEF NativeInv, Roots, Elements

-----------------------------------------------------------------------------
(* The collector of the code is that of Heap *)

\* The pool of a collector's step that leaves it, and what is kept, alone.
LEMMA PoolKept ==
  ASSUME NativeInv, pool' = pool, Kept' = Kept, \A o \in Kept : text'[o] = text[o]
  PROVE  PoolInv'
<1>1. \A o \in Entries(pool) : text'[o] = text[o]
  BY DEF NativeInv, PoolInv
<1>2. PICK ty : ty = text'
  OBVIOUS
<1>3. Probed(pool, ty)
  BY <1>1, <1>2, ProbedSame DEF NativeInv, PoolInv, Good
<1>4. Good(pool, ty)
  BY <1>3 DEF NativeInv, PoolInv, Good
<1>5. Good(pool, ty)'
  BY <1>2, <1>4 DEF Good, Probed, Table, Used, Free, Entries, Capacity, Overfull, Distance, Texts
<1>6. Entries(pool)' \subseteq Kept'
  BY DEF NativeInv, PoolInv, Entries
<1> QED BY <1>2, <1>5, <1>6 DEF PoolInv

LEMMA PopMarkedStep ==
  ASSUME HeapInv, NativeInv, PopMarked
  PROVE  (\E o \in Object : Visit(o)) /\ NativeInv'
<1>1. PICK o \in working_set : Visit(o)
  BY DEF PopMarked, Visit
<1>2. o \in Object
  BY DEF HeapInv, TypeOK
<1>3. /\ UNCHANGED <<allocated, refs, roots, phase>> /\ phase = "mark"
      /\ UNCHANGED text /\ UNCHANGED env /\ UNCHANGED code /\ UNCHANGED slots /\ UNCHANGED temp_reference /\ UNCHANGED pool
  BY <1>1 DEF PopMarked, Visit, locals, calls
<1>4. Kept' = Kept
  BY <1>3 DEF Kept
<1>5. PoolInv'
  BY <1>3, <1>4, PoolKept
<1> QED BY <1>1, <1>2, <1>3, <1>5 DEF NativeInv, Roots, Elements, Makes, Steps, Texts

LEMMA SweepPoolStep ==
  ASSUME HeapInv, NativeInv, SweepPool
  PROVE  Sweep /\ NativeInv'
<1>1. /\ Sweep /\ pool' = SweepStringPool(pool, marked)
      /\ UNCHANGED <<allocated, refs, roots>> /\ UNCHANGED text /\ UNCHANGED env /\ UNCHANGED code
      /\ UNCHANGED slots /\ UNCHANGED temp_reference
  BY DEF SweepPool, Sweep, locals, calls
<1>2. Kept' = marked /\ Kept = allocated /\ marked \in SUBSET Object /\ marked \subseteq allocated
  BY <1>1 DEF Sweep, HeapInv, TypeOK, MarkInv, Kept
<1>3. PICK u : u = pool' /\ u = SweepStringPool(pool, marked)
  BY <1>1
<1>4. Good(u, text) /\ Entries(u) = Entries(pool) \cap marked
  BY <1>2, <1>3, SweptIs DEF NativeInv, PoolInv
<1>5. Good(pool, text)' /\ Entries(pool)' = Entries(u)
  BY <1>1, <1>3, <1>4 DEF Good, Probed, Table, Used, Free, Entries, Capacity, Overfull, Distance, Texts
<1>6. PoolInv'
  BY <1>2, <1>4, <1>5 DEF PoolInv
<1> QED BY <1>1, <1>6 DEF NativeInv, Roots, Elements, Makes, Steps, Texts

LEMMA FreeObjectStep ==
  ASSUME HeapInv, NativeInv, FreeObject
  PROVE  (\E o \in Object : Meet(o)) /\ NativeInv'
<1>1. PICK f : f = NextOnList /\ Meet(f)
  BY DEF FreeObject
<1>2. /\ f \in unswept /\ phase = "sweep" /\ phase' = "sweep" /\ f \in Object /\ f \in allocated
      /\ unswept' = unswept \ {f} /\ unswept \subseteq allocated /\ marked \subseteq unswept
  BY <1>1 DEF Meet, HeapInv, TypeOK, SweepInv
<1>3. /\ UNCHANGED roots /\ UNCHANGED code /\ UNCHANGED slots /\ UNCHANGED temp_reference /\ UNCHANGED pool
  BY <1>1 DEF FreeObject, Meet, calls
<1>4. CASE f \in marked
  <2>1. /\ UNCHANGED <<allocated, refs>> /\ marked' = marked \ {f} /\ UNCHANGED text /\ UNCHANGED env
    BY <1>1, <1>4 DEF FreeObject, Meet, locals
  <2>2. Kept' = Kept
    BY <1>2, <1>4, <2>1 DEF Kept
  <2>3. PoolInv'
    BY <1>3, <2>1, <2>2, PoolKept
  <2> QED BY <1>1, <1>2, <1>3, <2>1, <2>3 DEF NativeInv, Roots, Elements, Makes, Steps, Texts
<1>5. CASE f \notin marked
  <2>1. /\ allocated' = allocated \ {f} /\ refs' = [refs EXCEPT ![f] = {}] /\ marked' = marked
        /\ text' = [text EXCEPT ![f] = None] /\ env' = [x \in DOMAIN env |-> IF env[x] = f THEN Freed ELSE env[x]]
    BY <1>1, <1>5 DEF FreeObject, Meet
  <2>2. Kept' = Kept /\ f \notin Kept
    BY <1>2, <1>5, <2>1 DEF Kept
  <2>3. Kept \subseteq Object /\ \A o \in Kept : text'[o] = text[o]
    BY <2>1, <2>2, KeptClosed DEF NativeInv
  <2>4. PoolInv'
    BY <1>3, <2>2, <2>3, PoolKept
  <2>5. \A y \in DOMAIN env' : env'[y] \in allocated' \cup NoObject
    <3>1. \A y \in DOMAIN env : env[y] \in allocated \cup NoObject
      BY DEF NativeInv
    <3>2. Freed \in NoObject
      BY DEF NoObject
    <3> QED BY <2>1, <3>1, <3>2
  <2>6. \A o \in Object \ allocated' : refs'[o] = {}
    <3>1. refs \in [Object -> SUBSET Object] /\ \A o \in Object \ allocated : refs[o] = {}
      BY DEF HeapInv, TypeOK, NativeInv
    <3> QED BY <1>2, <2>1, <3>1
  <2>7. Makes(code) <= Cardinality(Object \ allocated')
    <3>1. Object \ allocated \in SUBSET (Object \ allocated')
      BY <2>1
    <3>2. Cardinality(Object \ allocated) <= Cardinality(Object \ allocated')
      BY <3>1, ObjectsFinite, FS_Subset
    <3>3. PICK c \in Nat, d \in Nat : c = Cardinality(Object \ allocated) /\ d = Cardinality(Object \ allocated')
      BY ObjectsFinite
    <3>4. PICK m \in Nat : m = Makes(code)
      BY MakesType DEF NativeInv
    <3>5. m <= c
      BY <3>3, <3>4 DEF NativeInv
    <3>6. m <= d
      BY <3>2, <3>3, <3>5
    <3> QED BY <3>3, <3>4, <3>6
  <2>8. text' \in [Object -> Texts \cup {None}]
    BY <2>1 DEF NativeInv
  <2> QED BY <1>1, <1>2, <1>3, <2>4, <2>5, <2>6, <2>7, <2>8 DEF NativeInv, Roots, Elements, Makes, Steps, Texts
<1> QED BY <1>4, <1>5

LEMMA CollectEndStep ==
  ASSUME HeapInv, NativeInv, CollectEnd
  PROVE  Resume /\ NativeInv'
<1>1. /\ Resume /\ UNCHANGED <<allocated, refs, roots>> /\ unswept = {} /\ phase' = "run"
      /\ UNCHANGED text /\ UNCHANGED env /\ UNCHANGED code /\ UNCHANGED slots /\ UNCHANGED temp_reference /\ UNCHANGED pool
  BY DEF CollectEnd, Resume, locals, calls
<1>2. Kept' = Kept
  BY <1>1 DEF Kept
<1>3. PoolInv'
  BY <1>1, <1>2, PoolKept
<1> QED BY <1>1, <1>3 DEF NativeInv, Roots, Elements, Makes, Steps, Texts

-----------------------------------------------------------------------------
(* The natives implement Heap, and keep the pool exact *)

LEMMA NativesInit == NInit => Init /\ HeapInv /\ NativeInv
<1> SUFFICES ASSUME NInit PROVE Init /\ HeapInv /\ NativeInv
  OBVIOUS
<1>1. Init /\ HeapInv
  BY InitInv DEF NInit
<1>2. PICK n \in Nat \ {0} : n = InitialCapacity
  BY CapacityIs
<1>3. PICK u : u = pool /\ u = Empty(n)
  BY <1>2 DEF NInit
<1>4. Probed(u, text) /\ Capacity(u) = n /\ Entries(u) = {}
  BY <1>3, EmptyProbed
<1>5. Good(u, text)
  <2>1. Cardinality(Entries(u)) = 0
    BY <1>4, FS_EmptySet
  <2>2. PICK z \in Nat : z = n * LoadPercent
    BY <1>2, LoadIs
  <2>3. ~(0 * 100 > z)
    BY <2>2
  <2>4. ~Overfull(0, n)
    BY <2>2, <2>3 DEF Overfull
  <2> QED BY <1>2, <1>4, <2>1, <2>4 DEF Good
<1>6. PoolInv
  BY <1>3, <1>4, <1>5 DEF PoolInv
<1>7. code \in Seq(Steps) /\ Makes(code) <= Cardinality(Object \ allocated)
  <2>1. code = <<>> /\ code \in Seq(Steps)
    BY EmptySeq DEF NInit
  <2>2. {i \in DOMAIN code : code[i].do \in {"new", "intern"}} = {}
    BY <2>1
  <2>3. Makes(code) = 0
    BY <2>2, FS_EmptySet DEF Makes
  <2>4. Cardinality(Object \ allocated) \in Nat
    BY ObjectsFinite
  <2> QED BY <2>1, <2>3, <2>4
<1>8. temp_reference \in Seq(Object) /\ slots \in [Slot -> Object \cup {None}] /\ roots = Roots(temp_reference, slots)
  <2>1. temp_reference = <<>> /\ temp_reference \in Seq(Object)
    BY EmptySeq DEF NInit
  <2>2. Roots(temp_reference, slots) = {}
    BY <2>1 DEF Roots, Elements, NInit
  <2> QED BY <1>1, <2>1, <2>2 DEF NInit, Init
<1> QED BY <1>1, <1>6, <1>7, <1>8 DEF NInit, Init, NativeInv

LEMMA NativesNext == HeapInv /\ NativeInv /\ [NNext]_nvars => [Next]_vars /\ HeapInv' /\ NativeInv'
<1> DEFINE Goal == [Next]_vars /\ NativeInv'
<1> SUFFICES ASSUME HeapInv, NativeInv, [NNext]_nvars PROVE Goal
  BY NextInv
<1>1. ASSUME NEW n \in DOMAIN Native, NEW args \in [DOMAIN Argument[n] -> Slot], Call(n, args) PROVE Goal
  BY <1>1, CallStep
<1>2. ASSUME NEW s \in Slot, Forget(s) PROVE Goal
  BY <1>2, ForgetStep DEF Next
<1>3. ASSUME LangGC PROVE Goal
  <2>1. Collect /\ UNCHANGED <<locals, calls, pool>>
    BY <1>3 DEF LangGC, Begin
  <2> QED BY <2>1, CollectStarts DEF Next, Collector
<1>4. ASSUME VmRealloc PROVE Goal
  <2>1. UNCHANGED <<locals, calls, pool>> /\ (Collect \/ UNCHANGED vars)
    BY <1>4 DEF VmRealloc, Begin
  <2>2. CASE Collect
    BY <2>1, <2>2, CollectStarts DEF Next, Collector
  <2>3. CASE UNCHANGED vars
    <3>1. /\ UNCHANGED <<allocated, refs, roots, phase, marked, unswept>>
          /\ UNCHANGED text /\ UNCHANGED env /\ UNCHANGED code /\ UNCHANGED slots /\ UNCHANGED temp_reference /\ UNCHANGED pool
      BY <2>1, <2>3 DEF vars, locals, calls
    <3>2. Kept' = Kept
      BY <3>1 DEF Kept
    <3>3. PoolInv'
      BY <3>1, <3>2, PoolKept
    <3>4. NativeInv'
      BY <3>1, <3>3 DEF NativeInv, Roots, Elements, Makes, Steps, Texts
    <3> QED BY <2>3, <3>4
  <2> QED BY <2>1, <2>2, <2>3
<1>5. ASSUME ExecNew PROVE Goal
  BY <1>5, ExecNewStep DEF Next
<1>6. ASSUME ExecIntern PROVE Goal
  BY <1>6, ExecInternStep DEF Next
<1>7. ASSUME ExecConstant PROVE Goal
  BY <1>7, ExecConstantStep
<1>8. ASSUME ExecStore PROVE Goal
  BY <1>8, ExecStoreStep DEF Next
<1>9. ASSUME ExecTemp PROVE Goal
  BY <1>9, ExecTempStep DEF Next
<1>10. ASSUME NEW s \in Slot, ExecReturn(s) PROVE Goal
  BY <1>10, ExecReturnStep DEF Next
<1>11. ASSUME PopMarked PROVE Goal
  BY <1>11, PopMarkedStep DEF Next, Collector
<1>12. ASSUME SweepPool PROVE Goal
  BY <1>12, SweepPoolStep DEF Next, Collector
<1>13. ASSUME FreeObject PROVE Goal
  BY <1>13, FreeObjectStep DEF Next, Collector
<1>14. ASSUME CollectEnd PROVE Goal
  BY <1>14, CollectEndStep DEF Next, Collector
<1>15. ASSUME UNCHANGED nvars PROVE Goal
  <2>1. /\ UNCHANGED vars /\ UNCHANGED <<allocated, refs, roots, phase, marked, unswept>>
        /\ UNCHANGED text /\ UNCHANGED env /\ UNCHANGED code /\ UNCHANGED slots /\ UNCHANGED temp_reference /\ UNCHANGED pool
    BY <1>15 DEF nvars, vars, locals, calls
  <2>2. Kept' = Kept
    BY <2>1 DEF Kept
  <2>3. PoolInv'
    BY <2>1, <2>2, PoolKept
  <2>4. NativeInv'
    BY <2>1, <2>3 DEF NativeInv, Roots, Elements, Makes, Steps, Texts
  <2> QED BY <2>1, <2>4
<1> HIDE DEF Goal
<1> QED BY <1>1, <1>2, <1>3, <1>4, <1>5, <1>6, <1>7, <1>8, <1>9, <1>10, <1>11, <1>12, <1>13, <1>14, <1>15
        DEF NNext, Program, NativeStep, CollectorStep

LEMMA NativesInductive == NSpec => [](HeapInv /\ NativeInv)
  BY NativesInit, NativesNext, PTL DEF NSpec

\* Whatever natives run, and wherever a collection comes in between, the heap
\* is that of Heap: every step of C code on it, and of the collector, is one
\* of Heap's, so that all that is proved of Heap holds of it.
THEOREM NativesImplement == NSpec => Spec
  BY NativesInit, NativesNext, NativesInductive, PTL DEF NSpec, Spec

\* The pool of a state in order is exact.
LEMMA PoolOrder == HeapInv /\ NativeInv => PoolExact
<1> SUFFICES ASSUME HeapInv, NativeInv PROVE PoolExact
  OBVIOUS
<1>1. Probed(pool, text) /\ ~Overfull(Cardinality(Entries(pool)), Capacity(pool)) /\ Entries(pool) \subseteq allocated
  BY DEF NativeInv, PoolInv, Good, Kept
<1>2. \A o \in Entries(pool) : FindInterned(pool, text[o]) = o
  <2> SUFFICES ASSUME NEW o \in Entries(pool) PROVE FindInterned(pool, text[o]) = o
    OBVIOUS
  <2>1. PICK i \in Used(pool) : pool[i] = o
    BY DEF Entries, Used
  <2>2. PICK t \in Texts : t = text[pool[i]]
    BY <1>1 DEF Probed
  <2>3. FindInterned(pool, t) = pool[i]
    BY <1>1, <2>2, FindIs
  <2> QED BY <2>1, <2>2, <2>3
<1>3. Cardinality({i \in DOMAIN pool : pool[i] # None}) = Cardinality({text[o] : o \in Entries(pool)})
  <2>1. Cardinality(Used(pool)) = Cardinality(TextsOf(pool, text))
    BY <1>1, PoolSize
  <2> QED BY <2>1 DEF Used, TextsOf
<1> QED BY <1>1, <1>2, <1>3 DEF PoolExact

\* The intern pool holds no freed string and no text twice, and a search that
\* stops after as many places as it has entries finds each of them, for any
\* hashes, any load, and any order of inserts, growth and sweeps.
THEOREM PoolCorrect == NSpec => []PoolExact
  BY NativesInductive, PoolOrder, PTL

-----------------------------------------------------------------------------
(* Natives that hold what they use *)

\* What a configuration says of the local variables is true.
Fits(d) ==
  /\ Len(d.stack) = Len(temp_reference)
  /\ \A x \in d.live : x \in DOMAIN env /\ env[x] \in allocated
  /\ \A i \in DOMAIN d.stack : \A x \in d.stack[i] \cap d.live : env[x] = temp_reference[i]
  /\ \A x \in d.args \cap d.live : \E s \in Slot : slots[s] = env[x]
  /\ \A e \in d.edges : e[1] \in d.live /\ e[2] \in d.live => env[e[2]] \in refs[env[e[1]]]

\* What holds of the local variables in any case: a collection that has come,
\* or may come, leaves those it cannot free.
Sure(c) == IF phase = "run" /\ ~checked THEN c ELSE Survivors(c)

\* What is held leads to what marking comes to by another way.
Backed == \A o \in Kept : \A h \in held[o] : \E m \in refs[o] : h \in refs[m]

UsesInv(W) ==
  /\ code # <<>> => \E c \in W : c.code = code /\ Fits(Sure(c))
  /\ code = <<>> => temp_reference = <<>> /\ ~checked
  /\ code # <<>> /\ phase # "run" => checked
  /\ checked => Step.do \in {"new", "grow", "intern"}
  /\ held \in [Object -> SUBSET Object] /\ Backed

LEMMA DisciplineIs ==
  ASSUME NEW W, Discipline(W), NEW c \in W
  PROVE  c \in Config /\ Disciplined(c) /\ (c.code # <<>> => Followers(c) \subseteq W)
  BY DEF Discipline

\* The fields of what is left of a configuration.
LEMMA SurvivorsIs ==
  ASSUME NEW c \in Config
  PROVE  /\ Survivors(c) \in Config /\ Survivors(c).code = c.code /\ Survivors(c).live = Anchored(c)
         /\ Survivors(c).stack = c.stack /\ Survivors(c).args = c.args
         /\ Survivors(c).edges = {e \in c.edges : e[1] \in Anchored(c) /\ e[2] \in Anchored(c)}
         /\ Anchored(c) \subseteq c.live
<1>1. Anchored(c) \subseteq c.live
  BY DEF Anchored
<1>2. PICK L : L = Anchored(c) /\ L \subseteq c.live
  BY <1>1
<1>3. PICK E : E = {e \in c.edges : e[1] \in L /\ e[2] \in L} /\ E \subseteq c.edges
  OBVIOUS
<1>4. Survivors(c) = [c EXCEPT !.live = L, !.edges = E]
  BY <1>2, <1>3 DEF Survivors
<1> QED BY <1>2, <1>3, <1>4 DEF Config

LEMMA ReboundIs ==
  ASSUME NEW c \in Config, NEW x \in STRING
  PROVE  /\ Rebound(c, x) \in Config /\ Rebound(c, x).code = c.code /\ Rebound(c, x).live = c.live \cup {x}
         /\ Rebound(c, x).stack = [i \in DOMAIN c.stack |-> c.stack[i] \ {x}] /\ Rebound(c, x).args = c.args \ {x}
         /\ Rebound(c, x).edges = {e \in c.edges : e[1] # x /\ e[2] # x}
         /\ DOMAIN Rebound(c, x).stack = DOMAIN c.stack /\ Len(Rebound(c, x).stack) = Len(c.stack)
<1>1. PICK n \in Nat : n = Len(c.stack) /\ DOMAIN c.stack = 1..n /\ \A i \in 1..n : c.stack[i] \in SUBSET STRING
  BY LenProperties DEF Config
<1>2. PICK S : S = [i \in 1..n |-> c.stack[i] \ {x}]
  OBVIOUS
<1>3. S \in Seq(SUBSET STRING) /\ Len(S) = n /\ DOMAIN S = 1..n
  BY <1>1, <1>2, IsASeq
<1>4. c.live \in SUBSET STRING /\ c.args \in SUBSET STRING /\ c.edges \in SUBSET (STRING \X STRING)
  BY DEF Config
<1> DEFINE Clear == {e \in c.edges : e[1] # x /\ e[2] # x}
<1>5. PICK L \in SUBSET STRING : L = c.live \cup {x}
  BY <1>4
<1>6. PICK A \in SUBSET STRING : A = c.args \ {x}
  BY <1>4
<1>7. PICK E \in SUBSET (STRING \X STRING) : E = Clear
  <2>1. Clear \in SUBSET (STRING \X STRING)
    BY <1>4
  <2> QED BY <2>1
<1>8. PICK d : d = Rebound(c, x) /\ d = [c EXCEPT !.live = L, !.stack = S, !.args = A, !.edges = E]
  BY <1>1, <1>2, <1>5, <1>6, <1>7 DEF Rebound, Config
<1>9. d.code = c.code /\ d.live = L /\ d.stack = S /\ d.args = A /\ d.edges = E
  BY <1>8 DEF Config
<1>10. d \in Config
  BY <1>3, <1>5, <1>6, <1>7, <1>8 DEF Config
<1>11. S = [i \in DOMAIN c.stack |-> c.stack[i] \ {x}]
  BY <1>1, <1>2
<1> QED BY <1>1, <1>3, <1>8, <1>9, <1>10, <1>11, <1>5, <1>6, <1>7

LEMMA LinkedIs ==
  ASSUME NEW c \in Config, NEW E \in SUBSET (STRING \X STRING)
  PROVE  /\ Linked(c, E) \in Config /\ Linked(c, E).code = c.code /\ Linked(c, E).live = c.live
         /\ Linked(c, E).stack = c.stack /\ Linked(c, E).args = c.args /\ Linked(c, E).edges = c.edges \cup E
  BY DEF Linked, Config

\* A configuration with other steps left.
LEMMA WithCode ==
  ASSUME NEW c \in Config, NEW s
  PROVE  /\ [c EXCEPT !.code = s].code = s /\ [c EXCEPT !.code = s].live = c.live
         /\ [c EXCEPT !.code = s].stack = c.stack /\ [c EXCEPT !.code = s].args = c.args
         /\ [c EXCEPT !.code = s].edges = c.edges
  BY DEF Config

LEMMA AnchoredIn ==
  ASSUME HeapInv, NativeInv, NEW d \in Config, Fits(d), NEW x \in Anchored(d)
  PROVE  x \in DOMAIN env /\ env[x] \in roots
<1>1. x \in d.live /\ x \in DOMAIN env /\ env[x] \in allocated /\ env[x] \in Object /\ env[x] # None
  BY NativesAssumption DEF Anchored, Fits, HeapInv, TypeOK
<1>2. CASE x \in d.args
  <2>1. PICK s \in Slot : slots[s] = env[x]
    BY <1>1, <1>2 DEF Fits
  <2> QED BY <1>1, <2>1, RootsIs DEF NativeInv
<1>3. CASE x \in UNION Elements(d.stack)
  <2>1. PICK i \in DOMAIN d.stack : x \in d.stack[i]
    BY <1>3 DEF Elements
  <2>2. env[x] = temp_reference[i]
    BY <1>1, <2>1 DEF Fits
  <2>3. DOMAIN d.stack = 1..Len(d.stack)
    BY LenProperties DEF Config
  <2>4. DOMAIN temp_reference = 1..Len(temp_reference)
    BY LenProperties DEF NativeInv
  <2>5. i \in DOMAIN temp_reference
    BY <2>1, <2>3, <2>4 DEF Fits
  <2>6. env[x] \in Elements(temp_reference)
    BY <2>2, <2>5 DEF Elements
  <2> QED BY <1>1, <2>6, RootsIs DEF NativeInv
<1> QED BY <1>2, <1>3 DEF Anchored

LEMMA SurvivorsFit ==
  ASSUME NEW d \in Config, Fits(d)
  PROVE  Fits(Survivors(d)) /\ Anchored(Survivors(d)) = Anchored(d)
<1>1. PICK s : /\ s = Survivors(d) /\ s.live = Anchored(d) /\ s.stack = d.stack /\ s.args = d.args
               /\ s.edges = {e \in d.edges : e[1] \in Anchored(d) /\ e[2] \in Anchored(d)}
               /\ Anchored(d) \subseteq d.live
  BY SurvivorsIs
<1>2. Anchored(s) = Anchored(d)
  BY <1>1 DEF Anchored
<1>3. Fits(s)
  BY <1>1 DEF Fits
<1> QED BY <1>1, <1>2, <1>3

LEMMA SureFits ==
  ASSUME NEW c \in Config, Fits(Sure(c))
  PROVE  /\ Fits(Survivors(c)) /\ Survivors(c) \in Config
         /\ phase = "run" /\ ~checked => Fits(c)
  BY SurvivorsFit, SurvivorsIs DEF Sure

\* Nothing that was there is gone.
Grown == allocated \subseteq allocated' /\ \A p \in allocated : refs[p] \subseteq refs'[p]

LEMMA GrownFits ==
  ASSUME NEW d, Fits(d), Grown, env' = env, slots' = slots, temp_reference' = temp_reference
  PROVE  Fits(d)'
  BY DEF Fits, Grown

LEMMA ReboundFits ==
  ASSUME NEW d \in Config, Fits(d), NEW x \in STRING, NEW o, Bind(x, o), o \in allocated', Grown,
         slots' = slots, temp_reference' = temp_reference
  PROVE  Fits(Rebound(d, x))'
<1>1. PICK r : /\ r = Rebound(d, x) /\ r.live = d.live \cup {x} /\ DOMAIN r.stack = DOMAIN d.stack
               /\ Len(r.stack) = Len(d.stack) /\ r.stack = [i \in DOMAIN d.stack |-> d.stack[i] \ {x}]
               /\ r.args = d.args \ {x} /\ r.edges = {e \in d.edges : e[1] # x /\ e[2] # x}
  BY ReboundIs
<1>2. env' = [y \in DOMAIN env \cup {x} |-> IF y = x THEN o ELSE env[y]]
  BY DEF Bind
<1>3. \A y \in r.live : y \in DOMAIN env' /\ env'[y] \in allocated' /\ (y # x => y \in d.live /\ y \in DOMAIN env /\ env'[y] = env[y])
  BY <1>1, <1>2 DEF Fits, Grown
<1>4. Len(r.stack) = Len(temp_reference')
  BY <1>1 DEF Fits
<1>5. \A i \in DOMAIN r.stack : \A y \in r.stack[i] \cap r.live : env'[y] = temp_reference'[i]
  BY <1>1, <1>3 DEF Fits
<1>6. \A y \in r.args \cap r.live : \E s \in Slot : slots'[s] = env'[y]
  BY <1>1, <1>3 DEF Fits
<1>7. \A e \in r.edges : e[1] \in r.live /\ e[2] \in r.live => env'[e[2]] \in refs'[env'[e[1]]]
  <2> SUFFICES ASSUME NEW e \in r.edges, e[1] \in r.live, e[2] \in r.live PROVE env'[e[2]] \in refs'[env'[e[1]]]
    OBVIOUS
  <2>1. PICK a, b : a = e[1] /\ b = e[2] /\ a \in d.live /\ b \in d.live /\ env'[a] = env[a] /\ env'[b] = env[b] /\ e \in d.edges
    BY <1>1, <1>3
  <2>2. env[b] \in refs[env[a]] /\ env[a] \in allocated
    BY <2>1 DEF Fits
  <2> QED BY <2>1, <2>2 DEF Grown
<1>8. Fits(r)'
  BY <1>3, <1>4, <1>5, <1>6, <1>7 DEF Fits
<1> QED BY <1>1, <1>8

\* The pairs of E refer, the first to the second.
Refer(d, E) == \A e \in E : e[1] \in d.live /\ e[2] \in d.live => env[e[2]] \in refs[env[e[1]]]

LEMMA LinkedFits ==
  ASSUME NEW d \in Config, NEW E \in SUBSET (STRING \X STRING), Fits(d)', Refer(d, E)'
  PROVE  Fits(Linked(d, E))'
<1>1. PICK l : /\ l = Linked(d, E) /\ l.live = d.live /\ l.stack = d.stack /\ l.args = d.args
               /\ l.edges = d.edges \cup E
  BY LinkedIs
<1>2. Fits(l)'
  BY <1>1 DEF Fits, Refer
<1> QED BY <1>1, <1>2

LEMMA CodeFits ==
  ASSUME NEW d \in Config, NEW t, Fits(d)'
  PROVE  Fits([d EXCEPT !.code = t])'
<1>1. PICK l : /\ l = [d EXCEPT !.code = t] /\ l.live = d.live /\ l.stack = d.stack /\ l.args = d.args
               /\ l.edges = d.edges
  BY WithCode
<1>2. Fits(l)'
  BY <1>1 DEF Fits
<1> QED BY <1>1, <1>2


\* The program goes on with a configuration of W.
LEMMA GoesOn ==
  ASSUME NEW W, Discipline(W), NEW d \in W, d.code = code', Len(d.stack) = Len(temp_reference'),
         code' # <<>> => Fits(d)', ~checked', phase' = "run", NativeInv',
         held' \in [Object -> SUBSET Object], Backed'
  PROVE  UsesInv(W)'
<1>1. d \in Config /\ Disciplined(d)
  BY DisciplineIs
<1>2. code' # <<>> => Fits(Sure(d))'
  <2>1. PICK s : s = Sure(d)' /\ s = d
    BY DEF Sure
  <2>2. code' # <<>> => Fits(s)'
    BY <2>1
  <2>3. Fits(s)' => Fits(Sure(d))'
    BY <2>1 DEF Fits
  <2> QED BY <2>2, <2>3
<1>3. code' = <<>> => temp_reference' = <<>>
  <2> SUFFICES ASSUME code' = <<>> PROVE temp_reference' = <<>>
    OBVIOUS
  <2>1. d.stack = <<>>
    BY <1>1 DEF Disciplined
  <2>2. Len(temp_reference') = 0 /\ temp_reference' \in Seq(Object)
    BY <2>1 DEF NativeInv
  <2> QED BY <2>2, EmptySeq
<1> QED BY <1>2, <1>3 DEF UsesInv

\* The steps a configuration goes on with.
LEMMA FollowerIs ==
  ASSUME NEW W, Discipline(W), NEW c \in W, c.code = code, code # <<>>, NEW e \in Effects(c, Step)
  PROVE  [e EXCEPT !.code = Tail(code)] \in W
<1>1. Followers(c) \subseteq W
  BY DisciplineIs
<1>2. [e EXCEPT !.code = Tail(code)] \in Followers(c)
  BY DEF Followers, Step
<1> QED BY <1>1, <1>2

\* The program goes on after a step with what the step makes of a
\* configuration.
LEMMA StepsOn ==
  ASSUME NEW W, Discipline(W), NEW c \in W, c.code = code, code # <<>>,
         NEW e \in Config, e \in Effects(c, Step), Len(e.stack) = Len(temp_reference'), code' # <<>> => Fits(e)',
         code' = Tail(code), checked' = FALSE, phase' = "run", NativeInv',
         held' \in [Object -> SUBSET Object], Backed'
  PROVE  UsesInv(W)'
<1>1. PICK d \in W : d = [e EXCEPT !.code = Tail(code)]
  BY FollowerIs
<1>2. d.code = code' /\ d.stack = e.stack
  BY <1>1, WithCode
<1>3. code' # <<>> => Fits(d)'
  BY <1>1, CodeFits
<1> QED BY <1>2, <1>3, GoesOn

LEMMA OperandsIn ==
  ASSUME NEW W, Discipline(W), NEW c \in W, c.code = code, code # <<>>
  PROVE  /\ c \in Config
         /\ Step.do \in {"new", "grow"} => Operands(Step) \subseteq Anchored(c)
         /\ Step.do \notin {"new", "grow"} => Operands(Step) \subseteq c.live
         /\ Step.do = "hold" => \E z \in c.live : <<Step.x, z>> \in c.edges /\ <<z, Step.y>> \in c.edges
  BY DisciplineIs DEF Disciplined, Step

\* Nothing new is held.
HeldKept ==
  /\ held' \in [Object -> SUBSET Object]
  /\ \A p \in allocated' : IF p \in allocated THEN held'[p] = held[p] ELSE held'[p] = {}

LEMMA BackedStays ==
  ASSUME Backed, Grown, HeldKept, HeapInv, phase = "run", phase' = "run"
  PROVE  Backed'
<1>1. Kept' = allocated' /\ Kept = allocated /\ \A o \in allocated : refs[o] \subseteq allocated
  BY Outside DEF Kept
<1> SUFFICES ASSUME NEW o \in allocated', NEW h \in held'[o] PROVE \E m \in refs'[o] : h \in refs'[m]
  BY <1>1 DEF Backed
<1>2. o \in allocated /\ h \in held[o]
  BY DEF HeldKept
<1>3. PICK m \in refs[o] : h \in refs[m]
  BY <1>1, <1>2 DEF Backed
<1> QED BY <1>1, <1>2, <1>3 DEF Grown

\* A step that makes an object finds one that is free.
LEMMA FreshLeft ==
  ASSUME NativeInv, code # <<>>, Step.do \in {"new", "intern"}
  PROVE  Fresh \in Object /\ Fresh \notin allocated
<1>1. Makes(code) \in Nat /\ Makes(code) >= 1
  BY CodeLeft DEF NativeInv
<1>2. Object \ allocated # {}
  <2> SUFFICES ASSUME Object \ allocated = {} PROVE FALSE
    OBVIOUS
  <2>1. Cardinality(Object \ allocated) = 0
    BY FS_EmptySet
  <2> QED BY <1>1, <2>1 DEF NativeInv
<1> QED BY <1>2, FreshIn

LEMMA UsesNew ==
  ASSUME NEW W, Discipline(W), HeapInv, NativeInv, UsesInv(W), ExecNew, NativeInv'
  PROVE  UsesInv(W)'
<1>1. /\ phase = "run" /\ phase' = "run" /\ code # <<>> /\ checked /\ Operable /\ Step.do = "new"
      /\ Make(Step.x, Step.kind, Step.to, None) /\ code' = Tail(code) /\ checked' = FALSE
      /\ slots' = slots /\ temp_reference' = temp_reference
  BY DEF ExecNew, Running, Same, SameRoots, Grows, Continue
<1>2. PICK c \in W : c.code = code /\ Fits(Sure(c))
  BY <1>1 DEF UsesInv
<1>3. /\ c \in Config /\ Fits(Survivors(c)) /\ Survivors(c) \in Config /\ Operands(Step) \subseteq Anchored(c)
      /\ Survivors(c).live = Anchored(c)
  BY <1>1, <1>2, OperandsIn, SureFits, SurvivorsIs
<1>4. PICK x \in STRING, to \in SUBSET STRING : x = Step.x /\ to = Step.to
  <2>1. PICK s \in Steps : s = Step /\ s.do = "new"
    BY <1>1, StepIs
  <2> QED BY <2>1 DEF Steps
<1>5. \A y \in to : y \in Anchored(c) /\ y \in DOMAIN env /\ env[y] \in allocated
  BY <1>1, <1>3, <1>4, StepIs, OperandIn
<1>6. PICK f : f = Fresh /\ f \in Object \ allocated /\ f \in allocated'
  BY <1>1, FreshLeft DEF Make
<1>7. /\ Bind(x, f) /\ allocated' = allocated \cup {f} /\ refs' = [refs EXCEPT ![f] = {env[y] : y \in to}]
      /\ held' = [held EXCEPT ![f] = {}]
  BY <1>1, <1>4, <1>6 DEF Make
<1>8. Grown
  BY <1>6, <1>7, Outside, <1>1 DEF Grown
<1>9. HeldKept
  BY <1>6, <1>7 DEF HeldKept, UsesInv
<1>10. Backed'
  BY <1>1, <1>8, <1>9, BackedStays DEF UsesInv
<1>11. PICK s \in Config : s = Survivors(c) /\ Fits(s) /\ s.live = Anchored(c)
  BY <1>3
<1>12. PICK r \in Config : r = Rebound(s, x) /\ r.live = s.live \cup {x} /\ Len(r.stack) = Len(s.stack)
  BY ReboundIs
<1>13. Fits(r)'
  BY <1>1, <1>6, <1>7, <1>8, <1>11, <1>12, ReboundFits
<1>14. PICK E \in SUBSET (STRING \X STRING) : E = {<<x, y>> : y \in to \ {x}}
  <2>1. \A y \in to \ {x} : <<x, y>> \in STRING \X STRING
    OBVIOUS
  <2>2. {<<x, y>> : y \in to \ {x}} \subseteq STRING \X STRING
    BY <2>1
  <2> QED BY <2>2
<1>15. Refer(r, E)'
  <2> SUFFICES ASSUME NEW y \in to \ {x} PROVE env'[y] \in refs'[env'[x]]
    BY <1>14 DEF Refer
  <2>1. env'[x] = f /\ env'[y] = env[y]
    BY <1>5, <1>7 DEF Bind
  <2>2. refs'[f] = {env[z] : z \in to}
    BY <1>6, <1>7 DEF HeapInv, TypeOK
  <2> QED BY <2>1, <2>2
<1>16. PICK l \in Config : l = Linked(r, E) /\ Len(l.stack) = Len(r.stack)
  BY LinkedIs
<1>17. Fits(l)'
  BY <1>13, <1>15, <1>16, LinkedFits
<1>18. l \in Effects(c, Step)
  BY <1>1, <1>4, <1>11, <1>12, <1>14, <1>16 DEF Effects
<1>19. Len(l.stack) = Len(temp_reference')
  BY <1>17 DEF Fits
<1> QED BY <1>1, <1>2, <1>9, <1>10, <1>17, <1>18, <1>19, StepsOn DEF HeldKept

LEMMA UsesIntern ==
  ASSUME NEW W, Discipline(W), HeapInv, NativeInv, UsesInv(W), ExecIntern, NativeInv'
  PROVE  UsesInv(W)'
<1>1. /\ phase = "run" /\ phase' = "run" /\ code # <<>> /\ Step.do = "intern"
      /\ code' = Tail(code) /\ checked' = FALSE /\ slots' = slots /\ temp_reference' = temp_reference
  BY DEF ExecIntern, Running, Same, SameRoots, Continue
<1>2. PICK c \in W : c.code = code /\ Fits(Sure(c))
  BY <1>1 DEF UsesInv
<1>3. c \in Config /\ Fits(Survivors(c)) /\ Survivors(c) \in Config
  BY <1>1, <1>2, OperandsIn, SureFits
<1>4. PICK x \in STRING, t \in Texts : x = Step.x /\ t = Step.text
  <2>1. PICK s \in Steps : s = Step /\ s.do = "intern"
    BY <1>1, StepIs
  <2> QED BY <2>1 DEF Steps, Texts
<1>5. \E o \in allocated' : Bind(x, o) /\ Grown /\ HeldKept
  <2>1. CASE FindInterned(pool, t) # None
    <3>1. Bind(x, FindInterned(pool, t)) /\ UNCHANGED <<allocated, refs, held>>
      BY <1>1, <1>4, <2>1 DEF ExecIntern
    <3>2. FindInterned(pool, t) \in allocated
      BY <1>1, <2>1, <1>4, Outside, FoundIn DEF NativeInv, PoolInv, Good
    <3>3. Grown /\ HeldKept
      BY <3>1 DEF Grown, HeldKept, UsesInv
    <3> QED BY <3>1, <3>2, <3>3
  <2>2. CASE FindInterned(pool, t) = None
    <3>1. Make(x, "string", {}, t)
      BY <1>1, <1>4, <2>2 DEF ExecIntern
    <3>2. PICK f : f = Fresh /\ f \in Object \ allocated
      BY <1>1, FreshLeft
    <3>3. /\ Bind(x, f) /\ allocated' = allocated \cup {f} /\ held' = [held EXCEPT ![f] = {}]
          /\ refs' = [refs EXCEPT ![f] = {env[y] : y \in {}}]
      BY <3>1, <3>2 DEF Make
    <3>4. Grown
      BY <3>2, <3>3, Outside, <1>1 DEF Grown
    <3>5. HeldKept
      BY <3>2, <3>3 DEF HeldKept, UsesInv
    <3> QED BY <3>3, <3>4, <3>5
  <2> QED BY <2>1, <2>2
<1>6. PICK o \in allocated' : Bind(x, o) /\ Grown /\ HeldKept
  BY <1>5
<1>7. Backed'
  BY <1>1, <1>6, BackedStays DEF UsesInv
<1>8. PICK s \in Config : s = Survivors(c) /\ Fits(s)
  BY <1>3
<1>9. PICK r \in Config : r = Rebound(s, x)
  BY ReboundIs
<1>10. Fits(r)'
  BY <1>1, <1>6, <1>8, <1>9, ReboundFits
<1>11. r \in Effects(c, Step)
  BY <1>1, <1>4, <1>8, <1>9 DEF Effects
<1>12. Len(r.stack) = Len(temp_reference')
  BY <1>10 DEF Fits
<1> QED BY <1>1, <1>2, <1>6, <1>7, <1>10, <1>11, <1>12, StepsOn DEF HeldKept

LEMMA UsesConstant ==
  ASSUME NEW W, Discipline(W), HeapInv, NativeInv, UsesInv(W), ExecConstant, NativeInv'
  PROVE  UsesInv(W)'
<1>1. /\ phase = "run" /\ phase' = "run" /\ code # <<>> /\ Step.do = "constant" /\ Operable
      /\ slots' = slots /\ temp_reference' = temp_reference /\ UNCHANGED <<allocated, refs, held>>
  BY DEF ExecConstant, Running, Same, SameRoots
<1>2. PICK c \in W : c.code = code /\ Fits(Sure(c))
  BY <1>1 DEF UsesInv
<1>3. ~checked
  BY <1>1 DEF UsesInv
<1>4. c \in Config /\ Fits(c) /\ Operands(Step) \subseteq c.live
  BY <1>1, <1>2, <1>3, OperandsIn, SureFits
<1>5. PICK x \in STRING, y \in STRING, n \in Nat : x = Step.x /\ y = Step.y /\ n = Step.skip
  <2>1. PICK s \in Steps : s = Step /\ s.do = "constant"
    BY <1>1, StepIs
  <2> QED BY <2>1 DEF Steps
<1>6. x \in c.live /\ x \in DOMAIN env /\ env[x] \in allocated
  BY <1>1, <1>4, <1>5, StepIs, OperandIn
<1>7. Grown /\ HeldKept
  BY <1>1 DEF Grown, HeldKept, UsesInv
<1>8. Backed'
  BY <1>1, <1>7, BackedStays DEF UsesInv
<1> DEFINE found == {o \in refs[env[Step.x]] : kind[o] = "string" /\ text[o] = Step.text}
<1>9. CASE found # {}
  <2>1. /\ Bind(Step.y, CHOOSE o \in found : TRUE)
        /\ code' = SubSeq(code, Step.skip + 2, Len(code)) /\ checked' = FALSE
    BY <1>9 DEF ExecConstant
  <2>2. found \subseteq refs[env[x]]
    BY <1>5
  <2> HIDE DEF found
  <2>3. PICK o : o = (CHOOSE q \in found : TRUE) /\ o \in refs[env[x]]
    BY <1>9, <2>2
  <2>4. Bind(y, o) /\ o \in allocated'
    BY <1>1, <1>5, <1>6, <2>1, <2>3, Outside
  <2>5. PICK r \in Config : r = Rebound(c, y)
    BY <1>4, ReboundIs
  <2>6. Fits(r)'
    BY <1>1, <1>4, <1>7, <2>4, <2>5, ReboundFits
  <2>7. PICK E \in SUBSET (STRING \X STRING) : E = {<<x, y>>} \ {<<y, y>>}
    <3>1. <<x, y>> \in STRING \X STRING
      OBVIOUS
    <3> QED BY <3>1
  <2>8. Refer(r, E)'
    <3>1. x # y => env'[y] \in refs'[env'[x]]
      BY <1>1, <1>6, <2>3, <2>4 DEF Bind
    <3> QED BY <2>7, <3>1 DEF Refer
  <2>9. PICK l \in Config : l = Linked(r, E)
    BY LinkedIs
  <2>10. Fits(l)'
    BY <2>6, <2>8, <2>9, LinkedFits
  <2>11. PICK t : t = code' /\ t = SubSeq(code, n + 2, Len(code))
    BY <1>5, <2>1
  <2>12. PICK d : d = [l EXCEPT !.code = t]
    OBVIOUS
  <2>13. d \in Followers(c)
    BY <1>1, <1>2, <1>5, <2>5, <2>7, <2>9, <2>12, <2>11 DEF Followers, Step
  <2>14. d \in W
    BY <1>1, <1>2, <2>13, DisciplineIs
  <2>15. d.code = code' /\ Fits(d)'
    BY <2>10, <2>12, <2>11, WithCode, CodeFits
  <2>16. Len(d.stack) = Len(temp_reference')
    BY <2>15 DEF Fits
  <2> QED BY <1>1, <1>7, <1>8, <2>1, <2>14, <2>15, <2>16, GoesOn DEF HeldKept
<1>10. CASE found = {}
  <2>1. code' = Tail(code) /\ checked' = FALSE /\ env' = env
    BY <1>10 DEF ExecConstant, Continue
  <2>2. Fits(c)'
    BY <1>1, <1>4, <1>7, <2>1, GrownFits
  <2>3. c \in Effects(c, Step)
    BY <1>1 DEF Effects
  <2>4. Len(c.stack) = Len(temp_reference')
    BY <2>2 DEF Fits
  <2> QED BY <1>1, <1>2, <1>4, <1>7, <1>8, <2>1, <2>2, <2>3, <2>4, StepsOn DEF HeldKept
<1> QED BY <1>9, <1>10



LEMMA UsesStore ==
  ASSUME NEW W, Discipline(W), HeapInv, NativeInv, UsesInv(W), ExecStore, NativeInv'
  PROVE  UsesInv(W)'
<1>1. /\ phase = "run" /\ phase' = "run" /\ code # <<>> /\ Step.do \in {"grow", "put", "hold"} /\ Operable
      /\ code' = Tail(code) /\ checked' = FALSE /\ slots' = slots /\ temp_reference' = temp_reference
      /\ allocated' = allocated /\ (Step.do = "grow" => checked) /\ (code' # <<>> => env' = env)
      /\ refs' = IF Step.do = "put" THEN [refs EXCEPT ![env[Step.x]] = @ \cup {env[Step.y]}] ELSE refs
      /\ held' = IF Step.do = "hold" THEN [held EXCEPT ![env[Step.x]] = @ \cup {env[Step.y]}] ELSE held
  BY DEF ExecStore, Running, Same, SameRoots, Grows, Continue, Leave
<1>2. PICK c \in W : c.code = code /\ Fits(Sure(c))
  BY <1>1 DEF UsesInv
<1>3. c \in Config /\ Fits(Survivors(c)) /\ Survivors(c) \in Config
  BY <1>1, <1>2, OperandsIn, SureFits
<1>4. CASE Step.do = "grow"
  <2>1. refs' = refs /\ held' = held
    BY <1>1, <1>4
  <2>2. Grown /\ HeldKept
    BY <1>1, <2>1 DEF Grown, HeldKept, UsesInv
  <2>3. Backed'
    BY <1>1, <2>2, BackedStays DEF UsesInv
  <2>4. PICK s \in Config : s = Survivors(c) /\ Fits(s)
    BY <1>3
  <2>5. s \in Effects(c, Step)
    BY <1>4, <2>4 DEF Effects
  <2>6. Len(s.stack) = Len(temp_reference')
    BY <1>1, <2>4 DEF Fits
  <2>7. code' # <<>> => Fits(s)'
    BY <1>1, <2>2, <2>4, GrownFits
  <2> QED BY <1>1, <1>2, <2>2, <2>3, <2>5, <2>6, <2>7, StepsOn DEF HeldKept
<1>5. ASSUME Step.do \in {"put", "hold"} PROVE UsesInv(W)'
  <2>1. ~checked
    BY <1>1, <1>5 DEF UsesInv
  <2>2. Fits(c) /\ Operands(Step) \subseteq c.live
    BY <1>1, <1>2, <1>3, <1>5, <2>1, OperandsIn, SureFits
  <2>3. PICK x \in STRING, y \in STRING : x = Step.x /\ y = Step.y
    <3>1. PICK s \in Steps : s = Step /\ s.do \in {"put", "hold"}
      BY <1>1, <1>5, StepIs
    <3> QED BY <3>1 DEF Steps
  <2>4. PICK a \in allocated, b \in allocated : a = env[x] /\ b = env[y] /\ a \in Object /\ b \in Object /\ x \in c.live /\ y \in c.live
    BY <1>1, <1>5, <2>2, <2>3, StepIs, OperandIn, Outside
  <2>5. CASE Step.do = "put"
    <3>1. refs' = [refs EXCEPT ![a] = @ \cup {b}] /\ held' = held
      BY <1>1, <2>3, <2>4, <2>5
    <3>2. Grown /\ HeldKept /\ b \in refs'[a]
      <4>1. DOMAIN refs = Object /\ allocated \subseteq Object
        BY DEF HeapInv, TypeOK
      <4>2. \A p \in Object : refs'[p] = IF p = a THEN refs[p] \cup {b} ELSE refs[p]
        BY <2>4, <3>1, <4>1
      <4>3. Grown /\ b \in refs'[a]
        BY <1>1, <2>4, <4>1, <4>2 DEF Grown
      <4>4. HeldKept
        BY <1>1, <3>1 DEF HeldKept, UsesInv
      <4> QED BY <4>3, <4>4
    <3>3. Backed'
      BY <1>1, <3>2, BackedStays DEF UsesInv
    <3>4. PICK E \in SUBSET (STRING \X STRING) : E = {<<x, y>>}
      <4>1. <<x, y>> \in STRING \X STRING
        OBVIOUS
      <4> QED BY <4>1
    <3>5. PICK l \in Config : l = Linked(c, E) /\ l.stack = c.stack
      BY <1>3, LinkedIs
    <3>6. code' # <<>> => Fits(l)'
      <4> SUFFICES ASSUME code' # <<>> PROVE Fits(l)'
        OBVIOUS
      <4>1. Fits(c)'
        BY <1>1, <2>2, <3>2, GrownFits
      <4>2. Refer(c, E)'
        BY <1>1, <2>4, <3>2, <3>4 DEF Refer
      <4> QED BY <1>3, <3>5, <4>1, <4>2, LinkedFits
    <3>7. l \in Effects(c, Step)
      BY <2>3, <2>5, <3>4, <3>5 DEF Effects
    <3>8. Len(l.stack) = Len(temp_reference')
      BY <1>1, <2>2, <3>5 DEF Fits
    <3> QED BY <1>1, <1>2, <3>2, <3>3, <3>6, <3>7, <3>8, StepsOn DEF HeldKept
  <2>6. CASE Step.do = "hold"
    <3>1. refs' = refs /\ held' = [held EXCEPT ![a] = @ \cup {b}]
      BY <1>1, <2>3, <2>4, <2>6
    <3>2. PICK z \in c.live : <<x, z>> \in c.edges /\ <<z, y>> \in c.edges
      BY <1>1, <1>2, <2>3, <2>6, OperandsIn
    <3>3. env[z] \in refs[a] /\ b \in refs[env[z]]
      BY <2>2, <2>4, <3>2 DEF Fits
    <3>4. held' \in [Object -> SUBSET Object]
      BY <2>4, <3>1 DEF UsesInv
    <3>5. Backed'
      <4>1. Kept' = allocated /\ Kept = allocated
        BY <1>1 DEF Kept
      <4>2. \A o \in allocated : \A h \in held[o] : \E m \in refs[o] : h \in refs[m]
        BY <4>1 DEF UsesInv, Backed
      <4>3. \A o \in allocated : \A h \in held'[o] : h \in held[o] \/ (o = a /\ h = b)
        BY <2>4, <3>1 DEF UsesInv
      <4>4. \A o \in allocated : \A h \in held'[o] : \E m \in refs[o] : h \in refs[m]
        BY <3>3, <4>2, <4>3
      <4> QED BY <3>1, <4>1, <4>4 DEF Backed
    <3>6. Grown
      BY <1>1, <3>1 DEF Grown
    <3>7. c \in Effects(c, Step)
      BY <2>6 DEF Effects
    <3>8. Len(c.stack) = Len(temp_reference')
      BY <1>1, <2>2 DEF Fits
    <3>9. code' # <<>> => Fits(c)'
      BY <1>1, <2>2, <3>6, GrownFits
    <3> QED BY <1>1, <1>2, <1>3, <3>4, <3>5, <3>7, <3>8, <3>9, StepsOn
  <2> QED BY <1>5, <2>5, <2>6
<1> QED BY <1>1, <1>4, <1>5




LEMMA UsesTemp ==
  ASSUME NEW W, Discipline(W), HeapInv, NativeInv, UsesInv(W), ExecTemp, NativeInv'
  PROVE  UsesInv(W)'
<1>1. /\ phase = "run" /\ phase' = "run" /\ code # <<>> /\ Step.do \in {"push", "pop"} /\ Operable
      /\ code' = Tail(code) /\ checked' = FALSE /\ slots' = slots /\ UNCHANGED <<allocated, refs, held>>
      /\ (code' # <<>> => env' = env)
      /\ temp_reference' = IF Step.do = "push" THEN Append(temp_reference, env[Step.x])
                           ELSE SubSeq(temp_reference, 1, Len(temp_reference) - 1)
  BY DEF ExecTemp, Running, Same, SameHeap, Continue, Leave
<1>2. PICK c \in W : c.code = code /\ Fits(Sure(c))
  BY <1>1 DEF UsesInv
<1>3. ~checked
  BY <1>1 DEF UsesInv
<1>4. c \in Config /\ Fits(c) /\ Operands(Step) \subseteq c.live
  BY <1>1, <1>2, <1>3, OperandsIn, SureFits
<1>5. Grown /\ HeldKept
  BY <1>1 DEF Grown, HeldKept, UsesInv
<1>6. Backed'
  BY <1>1, <1>5, BackedStays DEF UsesInv
<1>7. PICK n \in Nat : /\ n = Len(temp_reference) /\ n = Len(c.stack) /\ DOMAIN c.stack = 1..n
                       /\ c.stack \in Seq(SUBSET STRING) /\ temp_reference \in Seq(Object)
                       /\ \A i \in 1..n : c.stack[i] \in SUBSET STRING /\ temp_reference[i] \in Object
  <2>1. c.stack \in Seq(SUBSET STRING) /\ temp_reference \in Seq(Object) /\ Len(c.stack) = Len(temp_reference)
    BY <1>4 DEF Config, NativeInv, Fits
  <2> QED BY <2>1, LenProperties
<1>8. \A i \in 1..n : \A y \in c.stack[i] \cap c.live : env[y] = temp_reference[i]
  BY <1>4, <1>7 DEF Fits
<1>9. CASE Step.do = "push"
  <2>1. PICK x \in STRING : x = Step.x
    <3>1. PICK s \in Steps : s = Step /\ s.do = "push"
      BY <1>1, <1>9, StepIs
    <3> QED BY <3>1 DEF Steps
  <2>2. PICK a \in Object : a = env[x] /\ x \in c.live
    BY <1>1, <1>4, <1>9, <2>1, StepIs, OperandIn, Outside
  <2>3. PICK u : u = temp_reference' /\ u = Append(temp_reference, a)
    BY <1>1, <1>9, <2>1, <2>2
  <2>4. Len(u) = n + 1 /\ (\A i \in 1..n : u[i] = temp_reference[i]) /\ u[n + 1] = a
    <3>1. temp_reference \in Seq(Object)
      BY <1>7
    <3>2. /\ Len(u) = Len(temp_reference) + 1 /\ u[Len(temp_reference) + 1] = a
          /\ \A i \in 1..Len(temp_reference) : u[i] = temp_reference[i]
      BY <2>3, <3>1, AppendProperties
    <3> QED BY <1>7, <3>2
  <2>5. PICK v : v = Append(c.stack, {x}) /\ {x} \in SUBSET STRING
    OBVIOUS
  <2>6. /\ v \in Seq(SUBSET STRING) /\ Len(v) = n + 1 /\ (\A i \in 1..n : v[i] = c.stack[i]) /\ v[n + 1] = {x}
        /\ DOMAIN v = 1..(n + 1)
    <3>1. /\ v \in Seq(SUBSET STRING) /\ Len(v) = n + 1 /\ (\A i \in 1..n : v[i] = c.stack[i]) /\ v[n + 1] = {x}
      BY <1>7, <2>5, AppendProperties
    <3> QED BY <3>1, LenProperties
  <2>7. PICK e : e = [c EXCEPT !.stack = v]
    OBVIOUS
  <2>8. /\ e \in Config /\ e.stack = v /\ e.live = c.live /\ e.args = c.args /\ e.edges = c.edges
    BY <1>4, <2>6, <2>7 DEF Config
  <2>9. e \in Effects(c, Step)
    <3>1. e = [c EXCEPT !.stack = Append(@, {x})]
      BY <1>4, <2>5, <2>7 DEF Config
    <3> QED BY <1>9, <2>1, <3>1 DEF Effects
  <2>10. \A i \in 1..(n + 1) : \A y \in v[i] \cap c.live : env[y] = u[i]
    <3> SUFFICES ASSUME NEW i \in 1..(n + 1), NEW y \in v[i] \cap c.live PROVE env[y] = u[i]
      OBVIOUS
    <3>1. CASE i \in 1..n
      BY <1>8, <2>4, <2>6, <3>1
    <3>2. CASE i = n + 1
      BY <2>2, <2>4, <2>6, <3>2
    <3> QED BY <3>1, <3>2
  <2>11. code' # <<>> => Fits(e)'
    BY <1>1, <1>4, <2>3, <2>4, <2>6, <2>8, <2>10 DEF Fits
  <2>12. Len(e.stack) = Len(temp_reference')
    BY <2>3, <2>4, <2>6, <2>8
  <2> QED BY <1>1, <1>2, <1>5, <1>6, <2>8, <2>9, <2>11, <2>12, StepsOn DEF HeldKept
<1>10. CASE Step.do = "pop"
  <2>1. PICK m \in Int : m = n - 1
    <3>1. n - 1 \in Int
      OBVIOUS
    <3> QED BY <3>1
  <2>2. PICK u : u = temp_reference' /\ u = SubSeq(temp_reference, 1, m)
    BY <1>1, <1>7, <1>10, <2>1
  <2>3. PICK v : v = SubSeq(c.stack, 1, m)
    OBVIOUS
  <2>4. Len(u) = (IF 1 <= m THEN m ELSE 0) /\ \A i \in 1..m : u[i] = temp_reference[i]
    <3>1. \A i \in 1..m : temp_reference[i] \in Object
      BY <1>7, <2>1
    <3>2. /\ Len(u) = IF 1 <= m THEN m - 1 + 1 ELSE 0
          /\ \A i \in 1..(m - 1 + 1) : u[i] = temp_reference[1 + i - 1]
      BY <2>2, <3>1, SubSeqProperties
    <3>3. \A i \in 1..m : i \in 1..(m - 1 + 1) /\ 1 + i - 1 = i
      OBVIOUS
    <3> QED BY <3>2, <3>3
  <2>5. /\ v \in Seq(SUBSET STRING) /\ Len(v) = (IF 1 <= m THEN m ELSE 0) /\ DOMAIN v = 1..Len(v)
        /\ \A i \in 1..m : v[i] = c.stack[i]
    <3>1. \A i \in 1..m : c.stack[i] \in SUBSET STRING
      BY <1>7, <2>1
    <3>2. /\ v \in Seq(SUBSET STRING) /\ Len(v) = IF 1 <= m THEN m - 1 + 1 ELSE 0
          /\ \A i \in 1..(m - 1 + 1) : v[i] = c.stack[1 + i - 1]
      BY <2>3, <3>1, SubSeqProperties
    <3>3. \A i \in 1..m : i \in 1..(m - 1 + 1) /\ 1 + i - 1 = i
      OBVIOUS
    <3>4. DOMAIN v = 1..Len(v)
      BY <3>2, LenProperties
    <3> QED BY <3>2, <3>3, <3>4
  <2>6. PICK e : e = [c EXCEPT !.stack = v]
    OBVIOUS
  <2>7. /\ e \in Config /\ e.stack = v /\ e.live = c.live /\ e.args = c.args /\ e.edges = c.edges
    BY <1>4, <2>5, <2>6 DEF Config
  <2>8. e \in Effects(c, Step)
    <3>1. e = [c EXCEPT !.stack = SubSeq(@, 1, Len(@) - 1)]
      BY <1>4, <1>7, <2>1, <2>3, <2>6 DEF Config
    <3> QED BY <1>10, <3>1 DEF Effects
  <2>9. \A i \in DOMAIN v : \A y \in v[i] \cap c.live : env[y] = u[i]
    <3> SUFFICES ASSUME NEW i \in DOMAIN v, NEW y \in v[i] \cap c.live PROVE env[y] = u[i]
      OBVIOUS
    <3>1. i \in 1..m /\ i \in 1..n
      BY <2>1, <2>5
    <3> QED BY <1>8, <2>4, <2>5, <3>1
  <2>10. Len(e.stack) = Len(temp_reference')
    BY <2>2, <2>4, <2>5, <2>7
  <2>11. code' # <<>> => Fits(e)'
    BY <1>1, <1>4, <2>2, <2>7, <2>9, <2>10 DEF Fits
  <2> QED BY <1>1, <1>2, <1>5, <1>6, <2>7, <2>8, <2>10, <2>11, StepsOn DEF HeldKept
<1> QED BY <1>1, <1>9, <1>10

LEMMA UsesReturn ==
  ASSUME NEW W, Discipline(W), HeapInv, NativeInv, UsesInv(W), NEW s \in Slot, ExecReturn(s), NativeInv'
  PROVE  UsesInv(W)'
<1>1. /\ phase = "run" /\ phase' = "run" /\ code # <<>> /\ Step.do = "return"
      /\ code' = Tail(code) /\ checked' = FALSE /\ temp_reference' = temp_reference /\ UNCHANGED <<allocated, refs, held>>
      /\ (code' # <<>> => env' = env)
  BY DEF ExecReturn, Running, Same, SameHeap, Continue, Leave
<1>2. PICK c \in W : c.code = code /\ Fits(Sure(c))
  BY <1>1 DEF UsesInv
<1>3. ~checked
  BY <1>1 DEF UsesInv
<1>4. c \in Config /\ Fits(c)
  BY <1>1, <1>2, <1>3, OperandsIn, SureFits
<1>5. Grown /\ HeldKept
  BY <1>1 DEF Grown, HeldKept, UsesInv
<1>6. Backed'
  BY <1>1, <1>5, BackedStays DEF UsesInv
<1>7. PICK e : e = [c EXCEPT !.args = {}]
  OBVIOUS
<1>8. e \in Config /\ e.stack = c.stack /\ e.live = c.live /\ e.args = {} /\ e.edges = c.edges
  BY <1>4, <1>7 DEF Config
<1>9. e \in Effects(c, Step)
  BY <1>1, <1>7 DEF Effects
<1>10. code' # <<>> => Fits(e)'
  BY <1>1, <1>4, <1>8 DEF Fits
<1>11. Len(e.stack) = Len(temp_reference')
  BY <1>1, <1>4, <1>8 DEF Fits
<1> QED BY <1>1, <1>2, <1>5, <1>6, <1>8, <1>9, <1>10, <1>11, StepsOn DEF HeldKept



\* What holds whatever a collection frees.
Safe(W) == \E c \in W : c.code = code /\ Fits(Survivors(c))

\* A step of a collection, and the one that may begin it, leave the
\* configuration where it is.
LEMMA StaysSafe ==
  ASSUME NEW W, UsesInv(W), code' # <<>> => Safe(W)',
         code' = code, temp_reference' = temp_reference, code # <<>> => checked', code = <<>> => ~checked',
         checked' => Step.do \in {"new", "grow", "intern"}, held' \in [Object -> SUBSET Object], Backed'
  PROVE  UsesInv(W)'
<1>1. code' # <<>> => \E c \in W : c.code = code' /\ Fits(Sure(c))'
  <2> SUFFICES ASSUME code' # <<>> PROVE \E c \in W : c.code = code' /\ Fits(Sure(c))'
    OBVIOUS
  <2>1. PICK c \in W : c.code = code' /\ Fits(Survivors(c))'
    BY DEF Safe
  <2>2. PICK s : s = Sure(c)' /\ s = Survivors(c)
    BY DEF Sure
  <2>3. Fits(s)'
    BY <2>1, <2>2
  <2>4. Fits(Sure(c))'
    BY <2>2, <2>3 DEF Fits
  <2> QED BY <2>1, <2>4
<1> QED BY <1>1 DEF UsesInv, Step

LEMMA BackedKept ==
  ASSUME Backed, Kept' \subseteq Kept, refs' = refs, held' = held
  PROVE  Backed'
  BY DEF Backed

LEMMA SameFits ==
  ASSUME NEW d, Fits(d), allocated' = allocated, refs' = refs, env' = env, slots' = slots, temp_reference' = temp_reference
  PROVE  Fits(d)'
  BY DEF Fits

\* Every step of the collector but the one that frees.
LEMMA UsesSame ==
  ASSUME NEW W, Discipline(W), UsesInv(W), UNCHANGED <<allocated, refs>>, UNCHANGED <<locals, calls>>,
         Kept' \subseteq Kept, code # <<>> => checked', code = <<>> => ~checked',
         checked' => Step.do \in {"new", "grow", "intern"}
  PROVE  UsesInv(W)'
<1>1. /\ allocated' = allocated /\ refs' = refs /\ held' = held /\ env' = env /\ code' = code /\ slots' = slots
      /\ temp_reference' = temp_reference
  BY DEF locals, calls
<1>2. code' # <<>> => Safe(W)'
  <2> SUFFICES ASSUME code # <<>> PROVE Safe(W)'
    BY <1>1
  <2>1. PICK c \in W : c.code = code /\ Fits(Sure(c))
    BY DEF UsesInv
  <2>2. PICK s : s = Survivors(c) /\ Fits(s)
    BY <2>1, DisciplineIs, SureFits
  <2>3. Fits(s)'
    BY <1>1, <2>2, SameFits
  <2> QED BY <1>1, <2>1, <2>2, <2>3 DEF Safe
<1>3. held' \in [Object -> SUBSET Object] /\ Backed'
  BY <1>1, BackedKept DEF UsesInv
<1> QED BY <1>1, <1>2, <1>3, StaysSafe

LEMMA UsesFree ==
  ASSUME NEW W, Discipline(W), HeapInv, NativeInv, UsesInv(W), FreeObject
  PROVE  UsesInv(W)'
<1>1. PICK f : f = NextOnList /\ Meet(f) /\ f \in unswept /\ f \in Object
  BY DEF FreeObject, Meet, HeapInv, TypeOK
<1>2. /\ phase = "sweep" /\ phase' = "sweep" /\ unswept' = unswept \ {f}
      /\ code' = code /\ slots' = slots /\ temp_reference' = temp_reference /\ checked' = checked
      /\ f \in allocated /\ marked \subseteq unswept
  BY <1>1 DEF FreeObject, Meet, calls, HeapInv, SweepInv
<1>3. (code # <<>> => checked) /\ (code = <<>> => ~checked) /\ (checked => Step.do \in {"new", "grow", "intern"})
  BY <1>2 DEF UsesInv
<1>4. CASE f \in marked
  <2>1. UNCHANGED <<allocated, refs>> /\ UNCHANGED <<locals, calls>> /\ marked' = marked \ {f}
    BY <1>1, <1>4 DEF FreeObject, Meet
  <2>2. Kept' \subseteq Kept
    BY <1>2, <1>4, <2>1 DEF Kept
  <2> QED BY <1>2, <1>3, <2>1, <2>2, UsesSame
<1>5. CASE f \notin marked
  <2>1. /\ allocated' = allocated \ {f} /\ refs' = [refs EXCEPT ![f] = {}] /\ marked' = marked
        /\ held' = [held EXCEPT ![f] = {}] /\ env' = [x \in DOMAIN env |-> IF env[x] = f THEN Freed ELSE env[x]]
    BY <1>1, <1>5 DEF FreeObject, Meet
  <2>2. /\ Kept' = Kept /\ f \notin Kept /\ Kept \subseteq Object /\ roots \subseteq Kept /\ \A o \in Kept : refs[o] \subseteq Kept
        /\ Kept \subseteq allocated
    <3>1. Kept' = Kept /\ f \notin Kept /\ Kept \subseteq allocated
      BY <1>1, <1>2, <1>5, <2>1 DEF Kept
    <3> QED BY <3>1, KeptClosed DEF Closed
  <2>3. \A o \in Object : o # f => refs'[o] = refs[o] /\ held'[o] = held[o]
    BY <2>1 DEF HeapInv, TypeOK, UsesInv
  <2>4. held' \in [Object -> SUBSET Object]
    BY <2>1 DEF UsesInv
  <2>5. Backed'
    <3> SUFFICES ASSUME NEW o \in Kept, NEW h \in held'[o] PROVE \E m \in refs'[o] : h \in refs'[m]
      BY <2>2 DEF Backed
    <3>1. o \in Object /\ o # f /\ refs'[o] = refs[o] /\ held'[o] = held[o]
      BY <2>2, <2>3
    <3>2. PICK m \in refs[o] : h \in refs[m]
      BY <3>1 DEF UsesInv, Backed
    <3>3. m \in Kept
      BY <2>2, <3>2
    <3>4. refs'[m] = refs[m]
      BY <2>2, <2>3, <3>3
    <3> QED BY <3>1, <3>2, <3>4
  <2>6. code' # <<>> => Safe(W)'
    <3> SUFFICES ASSUME code # <<>> PROVE Safe(W)'
      BY <1>2
    <3>1. PICK c \in W : c.code = code /\ Fits(Sure(c)) /\ c \in Config
      BY DisciplineIs DEF UsesInv
    <3>2. PICK s : s = Survivors(c) /\ Fits(s) /\ s \in Config /\ s.live = Anchored(s)
      <4>1. /\ Fits(Survivors(c)) /\ Survivors(c) \in Config /\ Survivors(c).live = Anchored(c)
        BY <3>1, SureFits, SurvivorsIs
      <4>2. Anchored(Survivors(c)) = Anchored(c)
        BY <3>1, SurvivorsIs DEF Anchored
      <4> QED BY <4>1, <4>2
    <3>3. \A x \in s.live : x \in DOMAIN env /\ env[x] \in Kept
      BY <2>2, <3>2, AnchoredIn
    <3>4. \A x \in s.live : /\ x \in DOMAIN env' /\ env'[x] = env[x] /\ env'[x] \in allocated'
                            /\ refs'[env'[x]] = refs[env[x]]
      BY <2>1, <2>2, <2>3, <3>3
    <3>5. Fits(s)'
      BY <1>2, <3>2, <3>4 DEF Fits
    <3> QED BY <1>2, <3>1, <3>2, <3>5 DEF Safe
  <2> QED BY <1>2, <1>3, <2>4, <2>5, <2>6, StaysSafe
<1> QED BY <1>4, <1>5


LEMMA UsesCall ==
  ASSUME NEW W, Discipline(W), HeapInv, NativeInv, UsesInv(W), NativeInv',
         NEW n \in DOMAIN Native, NEW args \in [DOMAIN Argument[n] -> Slot], Call(n, args)
  PROVE  UsesInv(W)'
<1>1. /\ code = <<>> /\ phase = "run" /\ phase' = "run" /\ code' = Native[n]
      /\ env' = [x \in DOMAIN args |-> slots[args[x]]] /\ DOMAIN args = DOMAIN Argument[n]
      /\ allocated' = allocated /\ refs' = refs /\ held' = held /\ slots' = slots
      /\ temp_reference' = temp_reference /\ checked' = checked /\ \A x \in DOMAIN args : slots[args[x]] # None
  BY DEF Call, Idle, vars
<1>2. temp_reference' = <<>> /\ ~checked'
  BY <1>1 DEF UsesInv
<1>3. Backed' /\ held' \in [Object -> SUBSET Object]
  <2>1. Kept' \subseteq Kept
    BY <1>1 DEF Kept
  <2> QED BY <1>1, <2>1, BackedKept DEF UsesInv
<1>4. PICK d \in W : d = Start(Native[n], DOMAIN Argument[n])
  BY DEF Discipline
<1>5. /\ d.code = Native[n] /\ d.live = DOMAIN args /\ d.args = DOMAIN args /\ d.stack = <<>> /\ d.edges = {}
  BY <1>1, <1>4 DEF Start
<1>6. \A x \in DOMAIN args : env'[x] = slots[args[x]] /\ slots[args[x]] \in allocated
  BY <1>1, Outside, RootsIs DEF NativeInv
<1>7. Fits(d)'
  <2>1. \A x \in d.live : x \in DOMAIN env' /\ env'[x] \in allocated'
    BY <1>1, <1>5, <1>6
  <2>2. \A x \in d.args \cap d.live : \E s \in Slot : slots'[s] = env'[x]
    BY <1>1, <1>5, <1>6
  <2> QED BY <1>2, <1>5, <2>1, <2>2 DEF Fits
<1>8. Len(d.stack) = Len(temp_reference')
  BY <1>2, <1>5
<1> QED BY <1>1, <1>2, <1>3, <1>5, <1>7, <1>8, GoesOn

LEMMA UsesForget ==
  ASSUME NEW W, UsesInv(W), NEW s \in Slot, Forget(s)
  PROVE  UsesInv(W)'
<1>1. /\ code = <<>> /\ code' = <<>> /\ phase = "run" /\ phase' = "run" /\ allocated' = allocated /\ refs' = refs
      /\ held' = held /\ temp_reference' = temp_reference /\ checked' = checked
  BY DEF Forget, Idle, locals
<1>2. Backed'
  <2>1. Kept' \subseteq Kept
    BY <1>1 DEF Kept
  <2> QED BY <1>1, <2>1, BackedKept DEF UsesInv
<1> QED BY <1>1, <1>2 DEF UsesInv

LEMMA UsesStutter ==
  ASSUME NEW W, Discipline(W), UsesInv(W), UNCHANGED nvars
  PROVE  UsesInv(W)'
<1>1. /\ allocated' = allocated /\ refs' = refs /\ held' = held /\ env' = env /\ code' = code /\ slots' = slots
      /\ temp_reference' = temp_reference /\ phase' = phase /\ checked' = checked /\ unswept' = unswept /\ marked' = marked
  BY DEF nvars, vars, locals, calls
<1>2. code' # <<>> => \E c \in W : c.code = code' /\ Fits(Sure(c))'
  <2> SUFFICES ASSUME code # <<>> PROVE \E c \in W : c.code = code' /\ Fits(Sure(c))'
    BY <1>1
  <2>1. PICK c \in W : c.code = code /\ Fits(Sure(c))
    BY DEF UsesInv
  <2>2. PICK s : s = Sure(c) /\ s = Sure(c)'
    BY <1>1 DEF Sure
  <2>3. Fits(s)'
    BY <1>1, <2>1, <2>2, SameFits
  <2>4. Fits(Sure(c))'
    BY <2>2, <2>3 DEF Fits
  <2> QED BY <1>1, <2>1, <2>4
<1>3. Backed'
  <2>1. Kept' \subseteq Kept
    BY <1>1 DEF Kept
  <2> QED BY <1>1, <2>1, BackedKept DEF UsesInv
<1> QED BY <1>1, <1>2, <1>3 DEF UsesInv, Step

LEMMA UsesCollector ==
  ASSUME NEW W, Discipline(W), HeapInv, NativeInv, UsesInv(W),
         LangGC \/ VmRealloc \/ PopMarked \/ SweepPool \/ CollectEnd
  PROVE  UsesInv(W)'
<1>1. /\ code = <<>> => ~checked
      /\ code # <<>> /\ phase # "run" => checked
      /\ checked => Step.do \in {"new", "grow", "intern"}
  BY DEF UsesInv
<1>2. CASE LangGC
  <2>1. /\ UNCHANGED <<allocated, refs>> /\ UNCHANGED <<locals, calls>> /\ code = <<>> /\ checked' = checked
        /\ phase = "run" /\ phase' = "mark"
    BY <1>2 DEF LangGC, Begin, Collect, Idle
  <2>2. Kept' \subseteq Kept
    BY <2>1 DEF Kept
  <2> QED BY <1>1, <2>1, <2>2, UsesSame
<1>3. CASE VmRealloc
  <2>1. /\ UNCHANGED <<allocated, refs>> /\ UNCHANGED <<locals, calls>> /\ code # <<>> /\ checked' /\ Grows
        /\ phase = "run" /\ phase' \in {"run", "mark"}
    BY <1>3 DEF VmRealloc, Begin, Collect, vars
  <2>2. Kept' \subseteq Kept
    BY <2>1 DEF Kept
  <2>3. Step.do \in {"new", "grow", "intern"}
    BY <2>1 DEF Grows
  <2> QED BY <2>1, <2>2, <2>3, UsesSame
<1>4. CASE PopMarked
  <2>1. /\ UNCHANGED <<allocated, refs>> /\ UNCHANGED <<locals, calls>> /\ checked' = checked
        /\ phase = "mark" /\ phase' = "mark"
    BY <1>4 DEF PopMarked, Visit
  <2>2. Kept' \subseteq Kept
    BY <2>1 DEF Kept
  <2> QED BY <1>1, <2>1, <2>2, UsesSame
<1>5. CASE SweepPool
  <2>1. /\ UNCHANGED <<allocated, refs>> /\ UNCHANGED <<locals, calls>> /\ checked' = checked
        /\ phase = "mark" /\ phase' = "sweep"
    BY <1>5 DEF SweepPool, Sweep
  <2>2. Kept' \subseteq Kept
    BY <2>1 DEF Kept
  <2> QED BY <1>1, <2>1, <2>2, UsesSame
<1>6. CASE CollectEnd
  <2>1. /\ UNCHANGED <<allocated, refs>> /\ UNCHANGED <<locals, calls>> /\ checked' = checked
        /\ phase = "sweep" /\ phase' = "run" /\ unswept = {}
    BY <1>6 DEF CollectEnd, Resume
  <2>2. Kept' \subseteq Kept
    BY <2>1 DEF Kept
  <2> QED BY <1>1, <2>1, <2>2, UsesSame
<1> QED BY <1>2, <1>3, <1>4, <1>5, <1>6

LEMMA UsesNext ==
  ASSUME NEW W, Discipline(W)
  PROVE  HeapInv /\ NativeInv /\ UsesInv(W) /\ [NNext]_nvars => UsesInv(W)'
<1> SUFFICES ASSUME HeapInv, NativeInv, UsesInv(W), [NNext]_nvars PROVE UsesInv(W)'
  OBVIOUS
<1>1. NativeInv'
  BY NativesNext
<1>2. CASE UNCHANGED nvars
  BY <1>2, UsesStutter
<1>3. ASSUME NEW n \in DOMAIN Native, NEW args \in [DOMAIN Argument[n] -> Slot], Call(n, args) PROVE UsesInv(W)'
  BY <1>1, <1>3, UsesCall
<1>4. ASSUME NEW s \in Slot, Forget(s) PROVE UsesInv(W)'
  BY <1>4, UsesForget
<1>5. CASE ExecNew
  BY <1>1, <1>5, UsesNew
<1>6. CASE ExecIntern
  BY <1>1, <1>6, UsesIntern
<1>7. CASE ExecConstant
  BY <1>1, <1>7, UsesConstant
<1>8. CASE ExecStore
  BY <1>1, <1>8, UsesStore
<1>9. CASE ExecTemp
  BY <1>1, <1>9, UsesTemp
<1>10. ASSUME NEW s \in Slot, ExecReturn(s) PROVE UsesInv(W)'
  BY <1>1, <1>10, UsesReturn
<1>11. CASE FreeObject
  BY <1>11, UsesFree
<1>12. ASSUME LangGC \/ VmRealloc \/ PopMarked \/ SweepPool \/ CollectEnd PROVE UsesInv(W)'
  BY <1>12, UsesCollector
<1> QED BY <1>2, <1>3, <1>4, <1>5, <1>6, <1>7, <1>8, <1>9, <1>10, <1>11, <1>12
        DEF NNext, Program, NativeStep, CollectorStep

LEMMA UsesInit ==
  ASSUME NEW W
  PROVE  NInit => UsesInv(W)
  BY DEF NInit, UsesInv, Backed, Init, Kept

LEMMA UsesOrder ==
  ASSUME NEW W, Discipline(W)
  PROVE  HeapInv /\ NativeInv /\ UsesInv(W) => UsesAllocated
<1> SUFFICES ASSUME HeapInv, NativeInv, UsesInv(W) PROVE UsesAllocated
  OBVIOUS
<1>1. Freed \notin allocated
  BY NativesAssumption DEF HeapInv, TypeOK
<1>2. ASSUME code # <<>>, NEW x \in Operands(Step) PROVE env[x] # Freed
  <2>1. PICK c \in W : c.code = code /\ Fits(Sure(c)) /\ c \in Config
    BY <1>2, DisciplineIs DEF UsesInv
  <2>2. Fits(Survivors(c)) /\ Survivors(c).live = Anchored(c) /\ (phase = "run" /\ ~checked => Fits(c))
    BY <2>1, SureFits, SurvivorsIs
  <2>3. CASE Step.do \in {"new", "grow"}
    <3>1. x \in Survivors(c).live
      BY <1>2, <2>1, <2>2, <2>3, OperandsIn
    <3> QED BY <1>1, <2>2, <3>1 DEF Fits
  <2>4. CASE Step.do = "intern"
    BY <1>2, <2>4 DEF Operands
  <2>5. CASE Step.do \notin {"new", "grow", "intern"}
    <3>1. phase = "run" /\ ~checked
      BY <1>2, <2>5 DEF UsesInv
    <3>2. x \in c.live
      BY <1>2, <2>1, <2>5, OperandsIn
    <3> QED BY <1>1, <2>2, <3>1, <3>2 DEF Fits
  <2> QED BY <2>3, <2>4, <2>5
<1>3. Idle => temp_reference = <<>>
  BY DEF UsesInv, Idle
<1>4. HeldAllocated
  <2>1. Kept \subseteq allocated /\ \A o \in Kept : refs[o] \subseteq Kept
    BY KeptClosed DEF Kept, Closed
  <2> QED BY <2>1 DEF HeldAllocated, UsesInv, Backed
<1> QED BY <1>2, <1>3, <1>4 DEF UsesAllocated, Known

LEMMA UsesInductive ==
  ASSUME NEW W, Discipline(W)
  PROVE  NSpec => []UsesInv(W)
<1>1. NInit => UsesInv(W)
  BY UsesInit
<1>2. HeapInv /\ NativeInv /\ UsesInv(W) /\ [NNext]_nvars => UsesInv(W)'
  BY UsesNext
<1> QED BY <1>1, <1>2, NativesInductive, PTL DEF NSpec

\* For any natives whose steps keep the discipline that Discipline states of
\* them, whatever calls them and whenever a collection comes: no native goes
\* on with an object that was freed under it, a call leaves the temporary
\* references as it found them, and what an object keeps a pointer to that
\* marking does not follow stays as long as the object.
THEOREM UsesCorrect ==
  ASSUME NEW W, Discipline(W)
  PROVE  NSpec => []UsesAllocated
<1>1. HeapInv /\ NativeInv /\ UsesInv(W) => UsesAllocated
  BY UsesOrder
<1>2. NSpec => []UsesInv(W)
  BY UsesInductive
<1> QED BY <1>1, <1>2, NativesInductive, PTL

-----------------------------------------------------------------------------
(* The list of all objects is newest first *)

Before(s, o, p) == \E i, j \in 1..Len(s) : i < j /\ s[i] = o /\ s[j] = p

\* The list has each object of A at one place.
Lists(s, A) ==
  /\ s \in Seq(Object) /\ A = {s[i] : i \in 1..Len(s)}
  /\ \A i, j \in 1..Len(s) : s[i] = s[j] => i = j

LEMMA PushedIs ==
  ASSUME NEW s \in Seq(Object), NEW f \in Object
  PROVE  /\ <<f>> \o s \in Seq(Object) /\ Len(<<f>> \o s) = Len(s) + 1 /\ (<<f>> \o s)[1] = f
         /\ \A i \in 1..Len(s) : (<<f>> \o s)[i + 1] = s[i]
<1>1. <<f>> \in Seq(Object) /\ Len(<<f>>) = 1 /\ <<f>>[1] = f /\ Len(s) \in Nat
  OBVIOUS
<1>2. /\ <<f>> \o s \in Seq(Object) /\ Len(<<f>> \o s) = 1 + Len(s)
      /\ \A i \in 1..(1 + Len(s)) : (<<f>> \o s)[i] = IF i <= 1 THEN <<f>>[i] ELSE s[i - 1]
  BY <1>1, ConcatProperties
<1>3. ASSUME NEW i \in 1..Len(s) PROVE (<<f>> \o s)[i + 1] = s[i]
  <2>1. i + 1 \in 1..(1 + Len(s)) /\ ~(i + 1 <= 1) /\ (i + 1) - 1 = i
    BY <1>1
  <2> QED BY <1>2, <2>1
<1> QED BY <1>1, <1>2, <1>3

\* An object put at the head comes before all others.
LEMMA Pushed ==
  ASSUME NEW s, NEW A, Lists(s, A), NEW f \in Object, f \notin A
  PROVE  Lists(<<f>> \o s, A \cup {f})
<1>1. PICK t : t = <<f>> \o s
  OBVIOUS
<1>2. /\ t \in Seq(Object) /\ Len(t) = Len(s) + 1 /\ t[1] = f /\ Len(s) \in Nat
      /\ \A i \in 1..Len(s) : t[i + 1] = s[i]
  BY <1>1, PushedIs DEF Lists
<1>3. \A i \in 1..Len(t) : i = 1 \/ (i - 1 \in 1..Len(s) /\ t[i] = s[i - 1])
  <2> SUFFICES ASSUME NEW i \in 1..Len(t), i # 1 PROVE i - 1 \in 1..Len(s) /\ t[i] = s[i - 1]
    OBVIOUS
  <2>1. i - 1 \in 1..Len(s) /\ (i - 1) + 1 = i
    BY <1>2
  <2> QED BY <1>2, <2>1
<1>4. A \cup {f} = {t[i] : i \in 1..Len(t)}
  <2>1. ASSUME NEW a \in A PROVE a \in {t[i] : i \in 1..Len(t)}
    <3>1. PICK i \in 1..Len(s) : s[i] = a
      BY DEF Lists
    <3>2. i + 1 \in 1..Len(t) /\ t[i + 1] = a
      BY <1>2, <3>1
    <3> QED BY <3>2
  <2>2. 1 \in 1..Len(t)
    BY <1>2
  <2>3. \A i \in 1..Len(t) : t[i] \in A \cup {f}
    BY <1>2, <1>3 DEF Lists
  <2> QED BY <1>2, <2>1, <2>2, <2>3
<1>5. ASSUME NEW i \in 1..Len(t), NEW j \in 1..Len(t), t[i] = t[j] PROVE i = j
  <2>1. \A k \in 1..Len(s) : s[k] # f
    BY DEF Lists
  <2>2. CASE i = 1 \/ j = 1
    BY <1>2, <1>3, <1>5, <2>1, <2>2
  <2>3. CASE i # 1 /\ j # 1
    <3>1. i - 1 \in 1..Len(s) /\ j - 1 \in 1..Len(s) /\ s[i - 1] = s[j - 1]
      BY <1>3, <1>5, <2>3
    <3>2. i - 1 = j - 1
      BY <3>1 DEF Lists
    <3> QED BY <1>2, <3>2
  <2> QED BY <2>2, <2>3
<1>6. Lists(t, A \cup {f})
  BY <1>2, <1>4, <1>5 DEF Lists
<1> QED BY <1>1, <1>6

LEMMA PushedFirst ==
  ASSUME NEW s, NEW A, Lists(s, A), NEW f \in Object, NEW p \in A
  PROVE  Before(<<f>> \o s, f, p)
<1>1. /\ Len(<<f>> \o s) = Len(s) + 1 /\ (<<f>> \o s)[1] = f /\ Len(s) \in Nat
      /\ \A i \in 1..Len(s) : (<<f>> \o s)[i + 1] = s[i]
  BY PushedIs DEF Lists
<1>2. PICK i \in 1..Len(s) : s[i] = p
  BY DEF Lists
<1>3. 1 \in 1..(Len(s) + 1) /\ i + 1 \in 1..(Len(s) + 1) /\ 1 < i + 1
  BY <1>1
<1> QED BY <1>1, <1>2, <1>3 DEF Before

LEMMA PushedBefore ==
  ASSUME NEW s, NEW A, Lists(s, A), NEW f \in Object, NEW o, NEW p, Before(s, o, p)
  PROVE  Before(<<f>> \o s, o, p)
<1>1. /\ Len(<<f>> \o s) = Len(s) + 1 /\ Len(s) \in Nat
      /\ \A i \in 1..Len(s) : (<<f>> \o s)[i + 1] = s[i]
  BY PushedIs DEF Lists
<1>2. PICK i \in 1..Len(s) : \E j \in 1..Len(s) : i < j /\ s[i] = o /\ s[j] = p
  BY DEF Before
<1>3. PICK j \in 1..Len(s) : i < j /\ s[i] = o /\ s[j] = p
  BY <1>2
<1>4. i + 1 \in 1..(Len(s) + 1) /\ j + 1 \in 1..(Len(s) + 1) /\ i + 1 < j + 1
  BY <1>1, <1>3
<1> QED BY <1>1, <1>3, <1>4 DEF Before

LEMMA UnlinkedIs ==
  ASSUME NEW s \in Seq(Object), NEW k \in 1..Len(s)
  PROVE  /\ Unlinked(s, k) \in Seq(Object) /\ Len(Unlinked(s, k)) = Len(s) - 1
         /\ \A i \in 1..(Len(s) - 1) : Unlinked(s, k)[i] = IF i < k THEN s[i] ELSE s[i + 1]
<1> DEFINE x == SubSeq(s, 1, k - 1)
           y == SubSeq(s, k + 1, Len(s))
<1>1. x \in Seq(Object) /\ Len(x) = k - 1 /\ \A i \in 1..(k - 1) : x[i] = s[i]
  OBVIOUS
<1>2. y \in Seq(Object) /\ Len(y) = Len(s) - k /\ \A i \in 1..(Len(s) - k) : y[i] = s[i + k]
  OBVIOUS
<1>3. Unlinked(s, k) = x \o y /\ Len(s) \in Nat /\ k \in Nat
  BY DEF Unlinked
<1> HIDE DEF x, y
<1>4. /\ x \o y \in Seq(Object) /\ Len(x \o y) = Len(s) - 1
      /\ \A i \in 1..(Len(s) - 1) : (x \o y)[i] = IF i <= k - 1 THEN x[i] ELSE y[i - (k - 1)]
  <2>1. Len(x) + Len(y) = Len(s) - 1
    BY <1>1, <1>2, <1>3
  <2>2. /\ x \o y \in Seq(Object) /\ Len(x \o y) = Len(x) + Len(y)
        /\ \A i \in 1..(Len(x) + Len(y)) : (x \o y)[i] = IF i <= Len(x) THEN x[i] ELSE y[i - Len(x)]
    BY <1>1, <1>2, ConcatProperties
  <2> QED BY <1>1, <2>1, <2>2
<1>5. ASSUME NEW i \in 1..(Len(s) - 1) PROVE (x \o y)[i] = IF i < k THEN s[i] ELSE s[i + 1]
  <2>1. CASE i < k
    BY <1>1, <1>3, <1>4, <2>1
  <2>2. CASE ~(i < k)
    <3>1. (x \o y)[i] = y[i - (k - 1)] /\ i - (k - 1) \in 1..(Len(s) - k)
      BY <1>3, <1>4, <2>2
    <3>2. y[i - (k - 1)] = s[i - (k - 1) + k] /\ i - (k - 1) + k = i + 1
      BY <1>2, <1>3, <3>1
    <3> QED BY <2>2, <3>1, <3>2
  <2> QED BY <2>1, <2>2
<1> QED BY <1>3, <1>4, <1>5

\* The place an element gets in the list without place k, and the one it had.
Moved(i, k) == IF i < k THEN i ELSE i - 1
Origin(i, k) == IF i < k THEN i ELSE i + 1

LEMMA UnlinkedPlaces ==
  ASSUME NEW s \in Seq(Object), NEW k \in 1..Len(s), NEW t, t = Unlinked(s, k)
  PROVE  /\ t \in Seq(Object) /\ Len(s) \in Nat /\ Len(t) \in Nat
         /\ \A i \in 1..Len(t) : Origin(i, k) \in 1..Len(s) /\ Origin(i, k) # k /\ t[i] = s[Origin(i, k)]
         /\ \A i \in 1..Len(s) : i # k => Moved(i, k) \in 1..Len(t) /\ t[Moved(i, k)] = s[i]
<1>1. /\ t \in Seq(Object) /\ Len(t) = Len(s) - 1 /\ Len(s) \in Nat /\ Len(t) \in Nat /\ k \in Nat
      /\ \A i \in 1..(Len(s) - 1) : t[i] = IF i < k THEN s[i] ELSE s[i + 1]
  BY UnlinkedIs
<1>2. ASSUME NEW i \in 1..Len(t)
      PROVE  Origin(i, k) \in 1..Len(s) /\ Origin(i, k) # k /\ t[i] = s[Origin(i, k)]
  BY <1>1 DEF Origin
<1>3. ASSUME NEW i \in 1..Len(s), i # k
      PROVE  Moved(i, k) \in 1..Len(t) /\ t[Moved(i, k)] = s[i]
  <2>1. CASE i < k
    BY <1>1, <2>1 DEF Moved
  <2>2. CASE ~(i < k)
    <3>1. i - 1 \in 1..(Len(s) - 1) /\ ~(i - 1 < k) /\ (i - 1) + 1 = i
      BY <1>1, <1>3, <2>2
    <3>2. t[i - 1] = s[(i - 1) + 1]
      BY <1>1, <3>1
    <3> QED BY <1>1, <2>2, <3>1, <3>2 DEF Moved
  <2> QED BY <2>1, <2>2
<1> QED BY <1>1, <1>2, <1>3

LEMMA LeftOut ==
  ASSUME NEW s, NEW A, Lists(s, A), NEW k \in 1..Len(s)
  PROVE  Lists(Unlinked(s, k), A \ {s[k]})
<1>1. PICK t : t = Unlinked(s, k)
  OBVIOUS
<1>2. /\ t \in Seq(Object) /\ Len(s) \in Nat /\ Len(t) \in Nat
      /\ \A i \in 1..Len(t) : Origin(i, k) \in 1..Len(s) /\ Origin(i, k) # k /\ t[i] = s[Origin(i, k)]
      /\ \A i \in 1..Len(s) : i # k => Moved(i, k) \in 1..Len(t) /\ t[Moved(i, k)] = s[i]
  BY <1>1, UnlinkedPlaces DEF Lists
<1>3. A = {s[i] : i \in 1..Len(s)} /\ \A i, j \in 1..Len(s) : s[i] = s[j] => i = j
  BY DEF Lists
<1>4. A \ {s[k]} = {t[i] : i \in 1..Len(t)}
  <2>1. ASSUME NEW a \in A, a # s[k] PROVE a \in {t[i] : i \in 1..Len(t)}
    <3>1. PICK i \in 1..Len(s) : s[i] = a
      BY <1>3
    <3> QED BY <1>2, <2>1, <3>1
  <2>2. \A i \in 1..Len(t) : t[i] \in A /\ t[i] # s[k]
    BY <1>2, <1>3
  <2> QED BY <2>1, <2>2
<1>5. ASSUME NEW i \in 1..Len(t), NEW j \in 1..Len(t), t[i] = t[j] PROVE i = j
  <2>1. Origin(i, k) = Origin(j, k)
    BY <1>2, <1>3, <1>5
  <2> QED BY <1>2, <2>1 DEF Origin
<1>6. Lists(t, A \ {s[k]})
  BY <1>2, <1>4, <1>5 DEF Lists
<1> QED BY <1>1, <1>6

LEMMA BeforeLeft ==
  ASSUME NEW s, NEW A, Lists(s, A), NEW k \in 1..Len(s), NEW o, NEW p, Before(s, o, p), o # s[k], p # s[k]
  PROVE  Before(Unlinked(s, k), o, p)
<1>1. PICK t : t = Unlinked(s, k)
  OBVIOUS
<1>2. /\ t \in Seq(Object) /\ Len(s) \in Nat /\ Len(t) \in Nat
      /\ \A i \in 1..Len(s) : i # k => Moved(i, k) \in 1..Len(t) /\ t[Moved(i, k)] = s[i]
  BY <1>1, UnlinkedPlaces DEF Lists
<1>3. PICK i \in 1..Len(s) : \E j \in 1..Len(s) : i < j /\ s[i] = o /\ s[j] = p
  BY DEF Before
<1>4. PICK j \in 1..Len(s) : i < j /\ s[i] = o /\ s[j] = p
  BY <1>3
<1>5. i # k /\ j # k
  BY <1>4
<1>6. Moved(i, k) < Moved(j, k)
  BY <1>2, <1>4, <1>5 DEF Moved
<1>7. Before(t, o, p)
  BY <1>2, <1>4, <1>5, <1>6 DEF Before
<1> QED BY <1>1, <1>7


-----------------------------------------------------------------------------
(* Freeing in order *)

\* A closure or an instance comes before what it refers to.
NewestFirst ==
  \A o \in allocated : kind[o] \in Owning => \A p \in refs[o] \cap allocated : Before(first, o, p)

\* The names the native stores into are those of other objects.
StoresApart(P) ==
  /\ code \in Seq(Orderly(P))
  /\ \A x \in DOMAIN env \cap P : env[x] \in allocated => kind[env[x]] \notin Owning

OrderInv(P) == Lists(first, allocated) /\ DOMAIN kind = Object /\ NewestFirst /\ StoresApart(P)

LEMMA OrderlyStep ==
  ASSUME NEW P, code \in Seq(Orderly(P)), code # <<>>
  PROVE  /\ Tail(code) \in Seq(Orderly(P))
         /\ Step.do = "put" => Step.x \in P
         /\ Step.do = "new" /\ Step.x \in P => Step.kind \notin Owning
         /\ Step.do = "intern" => Step.x \notin P
         /\ Step.do = "constant" => Step.y \notin P
<1>1. Step \in Orderly(P) /\ Tail(code) \in Seq(Orderly(P))
  BY HeadTailProperties DEF Step
<1>2. PICK s \in Orderly(P) : s = Step
  BY <1>1
<1> QED BY <1>1, <1>2 DEF Orderly

LEMMA OrderlySkip ==
  ASSUME NEW P, code \in Seq(Orderly(P)), NEW n \in Nat
  PROVE  SubSeq(code, n + 2, Len(code)) \in Seq(Orderly(P))
<1>1. Len(code) \in Nat /\ \A i \in (n + 2)..Len(code) : code[i] \in Orderly(P)
  <2>1. Len(code) \in Nat /\ code \in [1..Len(code) -> Orderly(P)]
    BY LenProperties
  <2> QED BY <2>1
<1>2. n + 2 \in Int /\ Len(code) \in Int
  BY <1>1
<1> QED BY <1>1, <1>2, SubSeqProperties

\* A new object that refers to allocated ones.
LEMMA OrderMade ==
  ASSUME NEW P, OrderInv(P), HeapInv, NativeInv, phase = "run", NEW x, NEW k, NEW to, NEW t, Make(x, k, to, t),
         Fresh \in Object, Fresh \notin allocated,
         \A y \in to : y \in DOMAIN env /\ env[y] \in allocated,
         x \in P => k \notin Owning, code' \in Seq(Orderly(P))
  PROVE  OrderInv(P)'
<1>1. PICK f \in Object : f = Fresh /\ f \notin allocated
  OBVIOUS
<1>2. /\ allocated' = allocated \cup {f} /\ first' = <<f>> \o first /\ refs' = [refs EXCEPT ![f] = {env[y] : y \in to}]
      /\ kind' = [kind EXCEPT ![f] = k]
      /\ env' = [y \in DOMAIN env \cup {x} |-> IF y = x THEN f ELSE env[y]]
  BY <1>1 DEF Make, Bind
<1>3. Lists(first, allocated) /\ DOMAIN kind = Object /\ DOMAIN refs = Object
  BY DEF OrderInv, HeapInv, TypeOK
<1>4. DOMAIN kind' = Object /\ kind'[f] = k /\ (\A o \in Object : o # f => kind'[o] = kind[o])
      /\ refs'[f] = {env[y] : y \in to} /\ (\A o \in Object : o # f => refs'[o] = refs[o])
  BY <1>2, <1>3
<1>5. Lists(first, allocated)'
  <2>1. Lists(<<f>> \o first, allocated \cup {f})
    BY <1>1, <1>3, Pushed
  <2> QED BY <1>2, <2>1 DEF Lists
<1>6. NewestFirst'
  <2> SUFFICES ASSUME NEW o \in allocated', kind'[o] \in Owning, NEW p \in refs'[o], p \in allocated'
               PROVE  Before(first', o, p)
    BY DEF NewestFirst, Before
  <2>1. CASE o = f
    <3>1. p \in allocated
      BY <1>4, <2>1
    <3>2. Before(<<f>> \o first, f, p)
      BY <1>3, <3>1, PushedFirst
    <3> QED BY <1>2, <2>1, <3>2
  <2>2. CASE o # f
    <3>1. o \in allocated /\ o \in Object /\ kind[o] \in Owning /\ p \in refs[o]
      BY <1>2, <1>4, <2>2, Outside
    <3>2. p \in allocated
      BY <3>1, Outside
    <3>3. Before(first, o, p)
      BY <3>1, <3>2 DEF OrderInv, NewestFirst
    <3>4. Before(<<f>> \o first, o, p)
      BY <1>3, <3>3, PushedBefore
    <3> QED BY <1>2, <3>4
  <2> QED BY <2>1, <2>2
<1>7. StoresApart(P)'
  <2>1. ASSUME NEW y \in DOMAIN env' \cap P, env'[y] \in allocated' PROVE kind'[env'[y]] \notin Owning
    <3>1. CASE y = x
      BY <1>2, <1>4, <2>1, <3>1
    <3>2. CASE y # x
      <4>1. y \in DOMAIN env \cap P /\ env'[y] = env[y] /\ env[y] \in allocated \cup NoObject
        BY <1>2, <2>1, <3>2 DEF NativeInv
      <4>2. f \notin NoObject
        BY <1>1, NativesAssumption DEF NoObject
      <4>3. env[y] # f
        BY <1>1, <4>1, <4>2
      <4>4. env[y] \in allocated
        BY <1>2, <2>1, <4>1, <4>3
      <4>5. kind[env[y]] \notin Owning
        BY <4>1, <4>4 DEF OrderInv, StoresApart
      <4> QED BY <1>4, <4>1, <4>3, <4>4, <4>5, Outside
    <3> QED BY <3>1, <3>2
  <2>2. code' \in Seq(Orderly(P))
    OBVIOUS
  <2> QED BY <2>1, <2>2 DEF StoresApart, Orderly, Steps, Owning
<1> QED BY <1>4, <1>5, <1>6, <1>7 DEF OrderInv

\* A step that makes none, and stores into no closure or instance.
LEMMA OrderKept ==
  ASSUME NEW P, OrderInv(P), UNCHANGED <<allocated, first, kind>>,
         \A o \in allocated : kind[o] \in Owning => refs'[o] = refs[o],
         StoresApart(P)'
  PROVE  OrderInv(P)'
<1>1. NewestFirst'
  BY DEF OrderInv, NewestFirst, Before
<1>2. Lists(first, allocated)'
  BY DEF OrderInv, Lists
<1> QED BY <1>1, <1>2 DEF OrderInv

\* The local variables of a native that goes on.
LEMMA StoresOn ==
  ASSUME NEW P, StoresApart(P), UNCHANGED <<allocated, kind>>, code' \in Seq(Orderly(P)),
         Leave \/ UNCHANGED env
  PROVE  StoresApart(P)'
<1>1. ASSUME NEW x \in DOMAIN env' \cap P, env'[x] \in allocated' PROVE kind'[env'[x]] \notin Owning
  <2>1. CASE Leave /\ code' = <<>>
    BY <1>1, <2>1 DEF Leave
  <2>2. CASE env' = env
    BY <1>1, <2>2 DEF StoresApart
  <2> QED BY <2>1, <2>2 DEF Leave
<1> QED BY <1>1 DEF StoresApart, Orderly, Steps, Owning


LEMMA OrderNew ==
  ASSUME NEW P, OrderInv(P), HeapInv, NativeInv, ExecNew
  PROVE  OrderInv(P)'
<1>1. /\ phase = "run" /\ code # <<>> /\ Operable /\ Step.do = "new" /\ code' = Tail(code)
      /\ Make(Step.x, Step.kind, Step.to, None)
  BY DEF ExecNew, Running, Continue
<1>2. Fresh \in Object /\ Fresh \notin allocated
  BY <1>1, FreshLeft
<1>3. PICK x, k, to : /\ x = Step.x /\ k = Step.kind /\ to = Step.to /\ Make(x, k, to, None)
                      /\ \A y \in to : y \in DOMAIN env /\ env[y] \in allocated
  BY <1>1, StepIs, OperandIn
<1>4. code' \in Seq(Orderly(P)) /\ (x \in P => k \notin Owning)
  BY <1>1, <1>3, OrderlyStep DEF OrderInv, StoresApart
<1> QED BY <1>1, <1>2, <1>3, <1>4, OrderMade

\* A name that is bound to an object, and is none of those stored into.
LEMMA OrderBound ==
  ASSUME NEW P, OrderInv(P), UNCHANGED <<allocated, first, kind, refs>>, NEW x, x \notin P, NEW o, Bind(x, o),
         code' \in Seq(Orderly(P))
  PROVE  OrderInv(P)'
<1>1. ASSUME NEW y \in DOMAIN env' \cap P, env'[y] \in allocated' PROVE kind'[env'[y]] \notin Owning
  <2>1. y # x /\ y \in DOMAIN env \cap P /\ env'[y] = env[y]
    BY <1>1 DEF Bind
  <2> QED BY <1>1, <2>1 DEF OrderInv, StoresApart
<1>2. StoresApart(P)'
  BY <1>1 DEF StoresApart, Orderly, Steps, Owning
<1> QED BY <1>2, OrderKept

LEMMA OrderIntern ==
  ASSUME NEW P, OrderInv(P), HeapInv, NativeInv, ExecIntern
  PROVE  OrderInv(P)'
<1>1. phase = "run" /\ code # <<>> /\ Step.do = "intern" /\ code' = Tail(code)
  BY DEF ExecIntern, Running, Continue
<1>2. code' \in Seq(Orderly(P)) /\ Step.x \notin P
  BY <1>1, OrderlyStep DEF OrderInv, StoresApart
<1>3. CASE FindInterned(pool, Step.text) # None
  <2>1. Bind(Step.x, FindInterned(pool, Step.text)) /\ UNCHANGED <<allocated, first, kind, refs>>
    BY <1>3 DEF ExecIntern
  <2> QED BY <1>2, <2>1, OrderBound
<1>4. CASE FindInterned(pool, Step.text) = None
  <2>1. Make(Step.x, "string", {}, Step.text)
    BY <1>4 DEF ExecIntern
  <2>2. PICK x, to, t : x = Step.x /\ x \notin P /\ to = {} /\ Make(x, "string", to, t)
    BY <1>2, <2>1
  <2>3. Fresh \in Object /\ Fresh \notin allocated
    BY <1>1, FreshLeft
  <2>4. \A y \in to : y \in DOMAIN env /\ env[y] \in allocated
    BY <2>2
  <2> QED BY <1>1, <1>2, <2>2, <2>3, <2>4, OrderMade
<1> QED BY <1>3, <1>4

LEMMA OrderConstant ==
  ASSUME NEW P, OrderInv(P), HeapInv, NativeInv, ExecConstant
  PROVE  OrderInv(P)'
<1>1. code # <<>> /\ Step.do = "constant" /\ UNCHANGED <<allocated, first, kind, refs>>
  BY DEF ExecConstant, Running
<1>2. Tail(code) \in Seq(Orderly(P)) /\ Step.y \notin P /\ Step.skip \in Nat
  BY <1>1, OrderlyStep, StepIs DEF OrderInv, StoresApart
<1> DEFINE found == {o \in refs[env[Step.x]] : kind[o] = "string" /\ text[o] = Step.text}
<1>3. CASE found # {}
  <2>1. /\ Bind(Step.y, CHOOSE o \in found : TRUE)
        /\ code' = SubSeq(code, Step.skip + 2, Len(code))
    BY <1>3 DEF ExecConstant
  <2> HIDE DEF found
  <2>2. code' \in Seq(Orderly(P))
    BY <1>2, <2>1, OrderlySkip DEF OrderInv, StoresApart
  <2> QED BY <1>1, <1>2, <2>1, <2>2, OrderBound
<1>4. CASE found = {}
  <2>1. code' = Tail(code) /\ env' = env
    BY <1>4 DEF ExecConstant, Continue
  <2>2. StoresApart(P)'
    BY <1>1, <1>2, <2>1, StoresOn DEF OrderInv
  <2> QED BY <1>1, <2>2, OrderKept
<1> QED BY <1>3, <1>4

LEMMA OrderStore ==
  ASSUME NEW P, OrderInv(P), HeapInv, NativeInv, ExecStore
  PROVE  OrderInv(P)'
<1>1. /\ phase = "run" /\ code # <<>> /\ Operable /\ Step.do \in {"grow", "put", "hold"} /\ code' = Tail(code) /\ Leave
      /\ UNCHANGED <<allocated, first, kind>>
      /\ refs' = IF Step.do = "put" THEN [refs EXCEPT ![env[Step.x]] = @ \cup {env[Step.y]}] ELSE refs
  BY DEF ExecStore, Running, Continue
<1>2. code' \in Seq(Orderly(P)) /\ (Step.do = "put" => Step.x \in P)
  BY <1>1, OrderlyStep DEF OrderInv, StoresApart
<1>3. StoresApart(P)'
  BY <1>1, <1>2, StoresOn DEF OrderInv
<1>4. ASSUME NEW o \in allocated, kind[o] \in Owning PROVE refs'[o] = refs[o]
  <2>1. CASE Step.do = "put"
    <3>1. Step.x \in DOMAIN env /\ env[Step.x] \in allocated
      BY <1>1, <2>1, StepIs, OperandIn
    <3>2. kind[env[Step.x]] \notin Owning
      BY <1>2, <2>1, <3>1 DEF OrderInv, StoresApart
    <3>3. o # env[Step.x]
      BY <1>4, <3>2
    <3> QED BY <1>1, <2>1, <3>3, Outside
  <2>2. CASE Step.do # "put"
    BY <1>1, <2>2
  <2> QED BY <2>1, <2>2
<1> QED BY <1>1, <1>3, <1>4, OrderKept

LEMMA OrderTemp ==
  ASSUME NEW P, OrderInv(P), NEW s, ExecTemp \/ ExecReturn(s)
  PROVE  OrderInv(P)'
<1>1. code # <<>> /\ code' = Tail(code) /\ Leave /\ UNCHANGED <<allocated, first, kind, refs>>
  BY DEF ExecTemp, ExecReturn, Running, Continue, SameHeap
<1>2. code' \in Seq(Orderly(P))
  BY <1>1, OrderlyStep DEF OrderInv, StoresApart
<1>3. StoresApart(P)'
  BY <1>1, <1>2, StoresOn DEF OrderInv
<1> QED BY <1>1, <1>3, OrderKept

LEMMA OrderCall ==
  ASSUME NEW P, PutsApart(P), OrderInv(P), NEW n \in DOMAIN Native,
         NEW args \in [DOMAIN Argument[n] -> Slot], Call(n, args)
  PROVE  OrderInv(P)'
<1>1. /\ \A x \in DOMAIN args : kind[slots[args[x]]] = Argument[n][x]
      /\ code' = Native[n] /\ env' = [x \in DOMAIN args |-> slots[args[x]]]
      /\ UNCHANGED <<allocated, first, kind, refs>> /\ DOMAIN args = DOMAIN Argument[n]
  BY DEF Call, vars
<1>2. Native[n] \in Seq(Orderly(P)) /\ \A x \in DOMAIN Argument[n] \cap P : Argument[n][x] \notin Owning
  BY DEF PutsApart
<1>3. \A x \in DOMAIN env' \cap P : kind'[env'[x]] \notin Owning
  BY <1>1, <1>2
<1>4. StoresApart(P)'
  BY <1>1, <1>2, <1>3 DEF StoresApart, Orderly, Steps, Owning
<1> QED BY <1>1, <1>4, OrderKept

LEMMA OrderSame ==
  ASSUME NEW P, OrderInv(P), UNCHANGED <<allocated, first, kind, refs>>, UNCHANGED <<code, env>>
  PROVE  OrderInv(P)'
<1>1. code \in Seq(Orderly(P))
  BY DEF OrderInv, StoresApart
<1>2. StoresApart(P)'
  BY <1>1, StoresOn DEF OrderInv
<1> QED BY <1>2, OrderKept


\* The walk over the list frees the first object it has yet to meet.
LEMMA WalkIs ==
  ASSUME Lists(first, allocated), unswept \subseteq allocated, unswept # {}
  PROVE  /\ NextPlace \in 1..Len(first) /\ NextOnList = first[NextPlace]
         /\ first[NextPlace] \in unswept /\ \A j \in 1..(NextPlace - 1) : first[j] \notin unswept
<1> DEFINE U == {i \in 1..Len(first) : first[i] \in unswept}
<1>1. Len(first) \in Nat /\ DOMAIN first = 1..Len(first) /\ allocated = {first[i] : i \in 1..Len(first)}
  BY DEF Lists
<1>2. U # {} /\ U \in SUBSET Nat
  BY <1>1
<1> HIDE DEF U
<1>3. PICK i \in U : \A j \in U : i <= j
  BY <1>2, NatLeast
<1>4. i \in DOMAIN first /\ first[i] \in unswept /\ \A j \in 1..(i - 1) : first[j] \notin unswept
  <2>1. i \in 1..Len(first) /\ first[i] \in unswept
    BY DEF U
  <2>2. ASSUME NEW j \in 1..(i - 1) PROVE first[j] \notin unswept
    <3>1. j \in 1..Len(first) /\ ~(i <= j)
      BY <1>1, <2>1
    <3> QED BY <1>3, <3>1 DEF U
  <2> QED BY <1>1, <2>1, <2>2
<1> QED BY <1>1, <1>4 DEF NextPlace, NextOnList

LEMMA OrderFree ==
  ASSUME NEW P, OrderInv(P), HeapInv, NativeInv, FreeObject
  PROVE  OrderInv(P)'
<1>1. /\ unswept # {} /\ Meet(NextOnList) /\ phase = "sweep" /\ unswept \subseteq allocated /\ allocated \subseteq Object
      /\ code' = code
  BY DEF FreeObject, Meet, HeapInv, TypeOK, SweepInv, calls
<1>2. Lists(first, allocated) /\ DOMAIN kind = Object /\ DOMAIN refs = Object
  BY DEF OrderInv, HeapInv, TypeOK
<1>3. PICK k \in 1..Len(first) : k = NextPlace /\ NextOnList = first[k] /\ first[k] \in unswept
  BY <1>1, <1>2, WalkIs
<1>4. PICK f : f = first[k] /\ f \in allocated /\ f \in Object
  BY <1>1, <1>3
<1>5. CASE f \in marked
  <2>1. UNCHANGED <<allocated, first, kind, refs>> /\ UNCHANGED <<code, env>>
    BY <1>1, <1>3, <1>4, <1>5 DEF FreeObject, Meet, locals
  <2> QED BY <2>1, OrderSame
<1>6. CASE f \notin marked
  <2>1. /\ allocated' = allocated \ {f} /\ refs' = [refs EXCEPT ![f] = {}] /\ first' = Unlinked(first, k)
        /\ kind' = [kind EXCEPT ![f] = None]
        /\ env' = [x \in DOMAIN env |-> IF env[x] = f THEN Freed ELSE env[x]]
    BY <1>1, <1>3, <1>4, <1>6 DEF FreeObject, Meet
  <2>2. Lists(first, allocated)'
    <3>1. Lists(Unlinked(first, k), allocated \ {first[k]})
      BY <1>2, LeftOut
    <3> QED BY <1>4, <2>1, <3>1 DEF Lists
  <2>3. NewestFirst'
    <3> SUFFICES ASSUME NEW o \in allocated', kind'[o] \in Owning, NEW p \in refs'[o], p \in allocated'
                 PROVE  Before(first', o, p)
      BY DEF NewestFirst, Before
    <3>1. o # f /\ p # f /\ o \in allocated /\ p \in allocated /\ kind[o] \in Owning /\ p \in refs[o]
      BY <1>1, <1>2, <2>1
    <3>2. Before(first, o, p)
      BY <3>1 DEF OrderInv, NewestFirst
    <3>3. Before(Unlinked(first, k), o, p)
      BY <1>2, <1>4, <3>1, <3>2, BeforeLeft
    <3> QED BY <2>1, <3>3
  <2>4. StoresApart(P)'
    <3>1. ASSUME NEW x \in DOMAIN env' \cap P, env'[x] \in allocated' PROVE kind'[env'[x]] \notin Owning
      <4>1. Freed \notin allocated
        BY <1>1, NativesAssumption
      <4>2. x \in DOMAIN env \cap P /\ env[x] # f /\ env'[x] = env[x] /\ env[x] \in allocated
        BY <2>1, <3>1, <4>1
      <4>3. kind[env[x]] \notin Owning
        BY <4>2 DEF OrderInv, StoresApart
      <4> QED BY <1>1, <1>2, <2>1, <4>2, <4>3
    <3>2. code \in Seq(Orderly(P))
      BY DEF OrderInv, StoresApart
    <3> QED BY <1>1, <3>1, <3>2 DEF StoresApart, Orderly, Steps, Owning
  <2> QED BY <1>2, <2>1, <2>2, <2>3, <2>4 DEF OrderInv
<1> QED BY <1>5, <1>6

LEMMA OrderNext ==
  ASSUME NEW P, PutsApart(P)
  PROVE  HeapInv /\ NativeInv /\ OrderInv(P) /\ [NNext]_nvars => OrderInv(P)'
<1> SUFFICES ASSUME HeapInv, NativeInv, OrderInv(P), [NNext]_nvars PROVE OrderInv(P)'
  OBVIOUS
<1>1. ASSUME NEW n \in DOMAIN Native, NEW args \in [DOMAIN Argument[n] -> Slot], Call(n, args) PROVE OrderInv(P)'
  BY <1>1, OrderCall
<1>2. CASE ExecNew
  BY <1>2, OrderNew
<1>3. CASE ExecIntern
  BY <1>3, OrderIntern
<1>4. CASE ExecConstant
  BY <1>4, OrderConstant
<1>5. CASE ExecStore
  BY <1>5, OrderStore
<1>6. ASSUME NEW s, ExecTemp \/ ExecReturn(s) PROVE OrderInv(P)'
  BY <1>6, OrderTemp
<1>7. CASE FreeObject
  BY <1>7, OrderFree
<1>8. ASSUME \/ UNCHANGED nvars \/ LangGC \/ VmRealloc \/ PopMarked \/ SweepPool \/ CollectEnd
             \/ \E s \in Slot : Forget(s)
      PROVE  OrderInv(P)'
  <2>1. UNCHANGED <<allocated, first, kind, refs>> /\ UNCHANGED <<code, env>>
    BY <1>8 DEF nvars, vars, locals, calls, LangGC, VmRealloc, Begin, Collect, PopMarked, Visit, SweepPool, Sweep,
       CollectEnd, Resume, Forget
  <2> QED BY <2>1, OrderSame
<1> QED BY <1>1, <1>2, <1>3, <1>4, <1>5, <1>6, <1>7, <1>8 DEF NNext, Program, NativeStep, CollectorStep

LEMMA OrderInit ==
  ASSUME NEW P
  PROVE  NInit => OrderInv(P)
<1> SUFFICES ASSUME NInit PROVE OrderInv(P)
  OBVIOUS
<1>1. allocated = {} /\ first = <<>> /\ DOMAIN kind = Object /\ code = <<>> /\ DOMAIN env = {}
  BY DEF NInit, Init
<1>2. Lists(<<>>, {})
  BY DEF Lists
<1> QED BY <1>1, <1>2 DEF OrderInv, NewestFirst, StoresApart

\* What an object that stays refers to is not freed: marking closed what the
\* walk keeps, and the objects before the one freed are of those.
LEMMA FreedOrder ==
  ASSUME NEW P, OrderInv(P), HeapInv, NativeInv, NNext,
         NEW p \in allocated \ allocated', NEW o \in allocated', p \in refs[o], kind[o] \in Owning
  PROVE  FALSE
<1>1. FreeObject
  <2>1. ASSUME ~FreeObject PROVE allocated \subseteq allocated'
    BY <2>1 DEF NNext, Program, NativeStep, CollectorStep, Call, Forget, LangGC, VmRealloc, Begin, Collect, ExecNew,
       ExecIntern, ExecConstant, ExecStore, ExecTemp, ExecReturn, Make, SameHeap, PopMarked, Visit, SweepPool, Sweep,
       CollectEnd, Resume, vars
  <2> QED BY <2>1
<1>2. /\ unswept # {} /\ Meet(NextOnList) /\ phase = "sweep" /\ unswept \subseteq allocated
  BY <1>1 DEF FreeObject, Meet, HeapInv, SweepInv
<1>3. /\ Lists(first, allocated)
      /\ NextPlace \in 1..Len(first) /\ NextOnList = first[NextPlace]
      /\ \A j \in 1..(NextPlace - 1) : first[j] \notin unswept
  BY <1>2, WalkIs DEF OrderInv
<1>4. p = NextOnList /\ p \in unswept \ marked /\ o \in allocated
  BY <1>2 DEF Meet
<1>5. Before(first, o, p)
  BY <1>4 DEF OrderInv, NewestFirst
<1>6. PICK i \in 1..Len(first) : \E j \in 1..Len(first) : i < j /\ first[i] = o /\ first[j] = p
  BY <1>5 DEF Before
<1>7. PICK j \in 1..Len(first) : i < j /\ first[i] = o /\ first[j] = p
  BY <1>6
<1>8. j = NextPlace
  BY <1>3, <1>4, <1>7 DEF Lists
<1>9. o \notin unswept
  <2>1. i \in 1..(NextPlace - 1)
    BY <1>3, <1>7, <1>8
  <2> QED BY <1>3, <1>7, <2>1
<1>10. o \in Kept /\ p \notin Kept
  BY <1>2, <1>4, <1>9 DEF Kept
<1>11. Closed(Kept)
  BY KeptClosed
<1> QED BY <1>10, <1>11 DEF Closed

\* For any natives that give a closure or an instance all it refers to when
\* they make it, whatever calls them and whenever a collection comes:
\* freeObject reads the function of a closure and the class of an instance
\* before the walk over the list frees them.
THEOREM OrderCorrect ==
  ASSUME NEW P, PutsApart(P)
  PROVE  NSpec => FreedInOrder
<1> DEFINE A == \A p \in allocated \ allocated', o \in allocated' :
                  p \in refs[o] => <<kind[o], kind[p]>> \notin {<<"closure", "func">>, <<"inst", "class">>}
<1>1. NInit => OrderInv(P)
  BY OrderInit
<1>2. HeapInv /\ NativeInv /\ OrderInv(P) /\ [NNext]_nvars => OrderInv(P)'
  BY OrderNext
<1>3. HeapInv /\ NativeInv /\ OrderInv(P) /\ [NNext]_nvars => [A]_nvars
  <2> SUFFICES ASSUME HeapInv, NativeInv, OrderInv(P), NNext,
                      NEW p \in allocated \ allocated', NEW o \in allocated', p \in refs[o],
                      <<kind[o], kind[p]>> \in {<<"closure", "func">>, <<"inst", "class">>}
               PROVE  FALSE
    OBVIOUS
  <2>1. kind[o] \in Owning
    BY DEF Owning
  <2> QED BY <2>1, FreedOrder
<1>4. NSpec => [](HeapInv /\ NativeInv)
  BY NativesInductive
<1> HIDE DEF A
<1>5. NSpec => [][A]_nvars
  BY <1>1, <1>2, <1>3, <1>4, PTL DEF NSpec
<1> QED BY <1>5 DEF A, FreedInOrder

=============================================================================
