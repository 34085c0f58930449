------------------------------ MODULE SlotsProofs ------------------------------
(***************************************************************************)
(* Theorems about Slots, for any objects and any sizes: no slot has two    *)
(* owners, a slot that is new lies in the stack, and a collection takes    *)
(* nothing from the arguments, from lists and maps, or from handles.       *)
(*                                                                         *)
(* BooksInv, about the slots handed out and given back, is inductive; so   *)
(* is HeapInv, about the stack and the objects, whatever the native does   *)
(* with its slots.                                                         *)
(***************************************************************************)
EXTENDS Slots, FiniteSetTheorems, SequenceTheorems, WellFoundedInduction, TLAPS

\* The slots the native has, those given back and those never handed out.
BooksInv ==
  /\ slot_next \in Nat /\ slot_next >= 1
  /\ free_slots \in Seq(Int)
  /\ \E O \in SUBSET Int : owned = SetToBag(O) /\ \A i \in O : i < slot_next
  /\ \A k \in 1..Len(free_slots) : free_slots[k] < slot_next /\ free_slots[k] \notin DOMAIN owned
  /\ \A j, k \in 1..Len(free_slots) : free_slots[j] = free_slots[k] => j = k
  /\ ~running => owned = EmptyBag

IsStack(s) == \E n \in Nat \ {0} : DOMAIN s = 0..(n - 1) /\ s = [p \in 0..(n - 1) |-> s[p]]
Allocated(k) == {o \in Object : k[o] # "free"}

\* What is in a stack, in lists and maps, and in handles is there; only above
\* the top of the stack there is what was collected.
HeapOk(s, top, k, e, hs) ==
  /\ IsStack(s) /\ top - 1 \in DOMAIN s
  /\ k \in [Object -> {"free", "list", "map"}] /\ e \in [Object -> Seq(Object)] /\ hs \in Seq(Object)
  /\ \A p \in DOMAIN s : s[p] \in Object => s[p] \in Allocated(k)
  /\ \A p \in 0..(top - 1) : s[p] # Freed
  /\ \A o \in Object : Range(e[o]) \subseteq Allocated(k)
  /\ Range(hs) \subseteq Allocated(k)
HeapInv ==
  /\ HeapOk(stack, sp, kind, elements, handles)
  /\ ret \in Nat /\ sp \in Nat /\ ret < sp /\ running \in BOOLEAN /\ error \in BOOLEAN

-----------------------------------------------------------------------------
(* Lemmas about bags that hold everything once *)

LEMMA BagAdd ==
  ASSUME NEW O, NEW P, O \cap P = {}
  PROVE  SetToBag(O) (+) SetToBag(P) = SetToBag(O \cup P)
  BY DEF SetToBag, (+)

LEMMA BagTake ==
  ASSUME NEW O, NEW P, P \subseteq O
  PROVE  SetToBag(O) (-) SetToBag(P) = SetToBag(O \ P)
  BY DEF SetToBag, (-)

Distinct(f) == \A j, k \in 1..Len(f) : f[j] = f[k] => j = k
Clear(f, P) == \A k \in 1..Len(f) : f[k] \notin P
From(g, f, P) == \A k \in 1..Len(g) : g[k] \in P \/ \E j \in 1..Len(f) : g[k] = f[j]

\* A list of slots longer by a run of slots that are not on it has each once.
LEMMA RunAdded ==
  ASSUME NEW f \in Seq(Int), NEW i \in Int, NEW n \in Nat,
         NEW r \in Seq(Int), Len(r) = n, \A k \in 1..n : r[k] = i + k - 1,
         Distinct(f), Clear(f, i..(i + n - 1))
  PROVE  f \o r \in Seq(Int) /\ From(f \o r, f, i..(i + n - 1)) /\ Distinct(f \o r)
<1> DEFINE g == f \o r
<1>1. r \in Seq(Int) /\ Len(r) = n /\ \A k \in 1..n : r[k] = i + k - 1
  OBVIOUS
<1>2. g \in Seq(Int) /\ Len(g) = Len(f) + n
  <2>1. g \in Seq(Int) /\ Len(g) = Len(f) + Len(r)
    BY ONLY f \in Seq(Int), r \in Seq(Int), ConcatProperties
  <2> QED BY <2>1, <1>1
<1>3. ASSUME NEW k \in 1..Len(g)
      PROVE  IF k <= Len(f) THEN g[k] = f[k] ELSE g[k] = i + (k - Len(f)) - 1
  <2>1. CASE k <= Len(f)
    BY <1>1, <1>2, <2>1
  <2>2. CASE ~(k <= Len(f))
    <3>1. g[k] = r[k - Len(f)]
      BY <1>1, <1>2, <2>2
    <3>2. k - Len(f) \in 1..n
      BY <1>2, <2>2
    <3> QED BY <1>1, <3>1, <3>2, <2>2
  <2> QED BY <2>1, <2>2
<1>4. \A k \in 1..Len(g) : g[k] \in i..(i + n - 1) \/ \E j \in 1..Len(f) : g[k] = f[j]
  <2> TAKE k \in 1..Len(g)
  <2>1. CASE k <= Len(f)
    <3>1. k \in 1..Len(f) /\ g[k] = f[k]
      BY <1>3, <2>1
    <3> QED BY <3>1
  <2>2. CASE ~(k <= Len(f))
    <3>1. g[k] = i + (k - Len(f)) - 1
      BY <1>3, <2>2
    <3> HIDE DEF g
    <3> QED BY <1>2, <2>2, <3>1
  <2> QED BY <2>1, <2>2
<1>5. \A j, k \in 1..Len(g) : g[j] = g[k] => j = k
  <2> SUFFICES ASSUME NEW j \in 1..Len(g), NEW k \in 1..Len(g), g[j] = g[k]
               PROVE  j = k
    OBVIOUS
  <2>1. IF j <= Len(f) THEN g[j] = f[j] ELSE g[j] = i + (j - Len(f)) - 1
    BY <1>3
  <2>2. IF k <= Len(f) THEN g[k] = f[k] ELSE g[k] = i + (k - Len(f)) - 1
    BY <1>3
  <2> HIDE DEF g
  <2>3. Len(f) \in Nat /\ j \in Nat /\ k \in Nat /\ j >= 1 /\ k >= 1 /\ j <= Len(f) + n /\ k <= Len(f) + n
    BY <1>2
  <2>4. CASE j <= Len(f) /\ k <= Len(f)
    BY <2>1, <2>2, <2>3, <2>4 DEF Distinct
  <2>5. CASE j <= Len(f) /\ ~(k <= Len(f))
    <3>1. f[j] = i + (k - Len(f)) - 1
      BY <2>1, <2>2, <2>5
    <3>2. i + (k - Len(f)) - 1 \in i..(i + n - 1)
      BY <2>3, <2>5
    <3>3. j \in 1..Len(f)
      BY <2>3, <2>5
    <3> QED BY <3>1, <3>2, <3>3 DEF Clear
  <2>6. CASE ~(j <= Len(f)) /\ k <= Len(f)
    <3>1. f[k] = i + (j - Len(f)) - 1
      BY <2>1, <2>2, <2>6
    <3>2. i + (j - Len(f)) - 1 \in i..(i + n - 1)
      BY <2>3, <2>6
    <3>3. k \in 1..Len(f)
      BY <2>3, <2>6
    <3> QED BY <3>1, <3>2, <3>3 DEF Clear
  <2>7. CASE ~(j <= Len(f)) /\ ~(k <= Len(f))
    BY <2>1, <2>2, <2>3, <2>7
  <2> QED BY <2>4, <2>5, <2>6, <2>7
<1> QED BY <1>2, <1>4, <1>5 DEF g, Distinct, From

-----------------------------------------------------------------------------
(* The books: the slots handed out and given back *)

\* Slots that were never handed out may be.
LEMMA NewSlots ==
  ASSUME BooksInv, NEW n \in Nat, running' = running, running,
         slot_next' = slot_next + n, free_slots' = free_slots, HandOut(slot_next, n)
  PROVE  BooksInv'
<1>1. PICK O \in SUBSET Int : owned = SetToBag(O) /\ \A i \in O : i < slot_next
  BY DEF BooksInv
<1> DEFINE P == slot_next..(slot_next + n - 1)
<1>2. slot_next \in Nat /\ slot_next >= 1 /\ free_slots \in Seq(Int)
  BY DEF BooksInv
<1>3. owned' = SetToBag(O \cup P)
  <2>1. O \cap P = {}
    BY <1>1, <1>2
  <2> QED BY <2>1, <1>1, BagAdd DEF HandOut
<1>4. DOMAIN owned = O /\ DOMAIN owned' = O \cup P
  BY <1>1, <1>3 DEF SetToBag
<1>5. O \cup P \in SUBSET Int /\ \A i \in O \cup P : i < slot_next'
  BY <1>1, <1>2
<1>6. \A k \in 1..Len(free_slots) : free_slots[k] < slot_next' /\ free_slots[k] \notin DOMAIN owned'
  <2> TAKE k \in 1..Len(free_slots)
  <2>1. free_slots[k] \in Int /\ free_slots[k] < slot_next /\ free_slots[k] \notin DOMAIN owned
    BY <1>2 DEF BooksInv
  <2> QED BY <1>2, <1>4, <2>1
<1>7. slot_next' \in Nat /\ slot_next' >= 1
  BY <1>2
<1>8. \A j, k \in 1..Len(free_slots') : free_slots'[j] = free_slots'[k] => j = k
  BY DEF BooksInv
<1> QED BY <1>2, <1>3, <1>5, <1>6, <1>7, <1>8 DEF BooksInv

\* The last of the free slots may be handed out.
LEMMA FreeSlotTaken ==
  ASSUME BooksInv, free_slots # <<>>, running' = running, running, slot_next' = slot_next,
         free_slots' = Front(free_slots), HandOut(Last(free_slots), 1)
  PROVE  BooksInv'
<1> DEFINE i == Last(free_slots)
           m == Len(free_slots)
<1>1. PICK O \in SUBSET Int : owned = SetToBag(O) /\ \A j \in O : j < slot_next
  BY DEF BooksInv
<1>2. slot_next \in Nat /\ slot_next >= 1 /\ free_slots \in Seq(Int)
  BY DEF BooksInv
<1>3. m \in Nat /\ m >= 1 /\ i = free_slots[m]
  BY <1>2 DEF Last
<1>4. i \in Int /\ i < slot_next /\ i \notin DOMAIN owned
  BY <1>2, <1>3 DEF BooksInv
<1>5. DOMAIN owned = O
  BY <1>1 DEF SetToBag
<1>6. owned' = SetToBag(O \cup {i})
  <2>1. i..(i + 1 - 1) = {i}
    BY <1>4
  <2>2. O \cap {i} = {}
    BY <1>4, <1>5
  <2> QED BY <1>1, <2>1, <2>2, BagAdd DEF HandOut
<1>7. DOMAIN owned' = O \cup {i}
  BY <1>6 DEF SetToBag
<1>8. free_slots' \in Seq(Int) /\ Len(free_slots') = m - 1 /\ \A k \in 1..(m - 1) : free_slots'[k] = free_slots[k]
  <2>1. \A k \in 1..(m - 1) : free_slots[k] \in Int
    BY <1>2, <1>3
  <2> HIDE DEF m
  <2>2. 1 \in Int /\ m - 1 \in Int /\ (m - 1) - 1 + 1 = m - 1 /\ (IF 1 <= m - 1 THEN (m - 1) - 1 + 1 ELSE 0) = m - 1
    <3>1. CASE m = 1
      BY <3>1
    <3>2. CASE m # 1
      BY <1>3, <3>2
    <3> QED BY <3>1, <3>2
  <2>3. /\ SubSeq(free_slots, 1, m - 1) \in Seq(Int) /\ Len(SubSeq(free_slots, 1, m - 1)) = m - 1
        /\ \A k \in 1..((m - 1) - 1 + 1) : SubSeq(free_slots, 1, m - 1)[k] = free_slots[1 + k - 1]
    BY <2>1, <2>2, SubSeqProperties
  <2>4. \A k \in 1..(m - 1) : 1 + k - 1 = k
    BY <1>3
  <2> QED BY <2>2, <2>3, <2>4 DEF Front, m
<1>9. \A k \in 1..Len(free_slots') : free_slots'[k] < slot_next' /\ free_slots'[k] \notin DOMAIN owned'
  <2> TAKE k \in 1..Len(free_slots')
  <2>1. k \in 1..m /\ k # m /\ m \in 1..m
    BY <1>3, <1>8
  <2>2. free_slots[k] # i
    BY <1>3, <2>1 DEF BooksInv
  <2>3. free_slots[k] < slot_next /\ free_slots[k] \notin DOMAIN owned
    BY <2>1 DEF BooksInv
  <2> QED BY <1>5, <1>7, <1>8, <2>2, <2>3
<1>10. \A j, k \in 1..Len(free_slots') : free_slots'[j] = free_slots'[k] => j = k
  <2> SUFFICES ASSUME NEW j \in 1..Len(free_slots'), NEW k \in 1..Len(free_slots'), free_slots'[j] = free_slots'[k]
               PROVE  j = k
    OBVIOUS
  <2>1. j \in 1..m /\ k \in 1..m /\ free_slots[j] = free_slots[k]
    BY <1>3, <1>8
  <2> QED BY <2>1 DEF BooksInv
<1>11. O \cup {i} \in SUBSET Int /\ \A j \in O \cup {i} : j < slot_next'
  BY <1>1, <1>4
<1> QED BY <1>2, <1>6, <1>8, <1>9, <1>10, <1>11 DEF BooksInv

\* Slots given back are no longer the native's, and are on the list once.
LEMMA SlotsGivenBack ==
  ASSUME BooksInv, NEW i \in Int, NEW n \in Nat, FreeSlot(i, n)
  PROVE  BooksInv'
<1> DEFINE P == i..(i + n - 1)
<1>1. PICK O \in SUBSET Int : owned = SetToBag(O) /\ \A j \in O : j < slot_next
  BY DEF BooksInv
<1>2. slot_next \in Nat /\ slot_next >= 1 /\ free_slots \in Seq(Int)
  BY DEF BooksInv
<1>3. DOMAIN owned = O /\ P \subseteq O
  BY <1>1 DEF FreeSlot, SetToBag, BagToSet
<1>4. owned' = SetToBag(O \ P) /\ DOMAIN owned' = O \ P
  <2>1. owned' = SetToBag(O \ P)
    BY <1>1, <1>3, BagTake DEF FreeSlot
  <2> QED BY <2>1 DEF SetToBag
<1>5. slot_next' = slot_next /\ running' = running /\ running
  BY DEF FreeSlot, Unreserved, stacks
<1>6. O \ P \in SUBSET Int /\ \A j \in O \ P : j < slot_next'
  BY <1>1, <1>5
<1>7. CASE i + n > slot_next
  <2>1. free_slots' = free_slots
    BY <1>7 DEF FreeSlot
  <2> QED BY <1>2, <1>3, <1>4, <1>5, <1>6, <2>1 DEF BooksInv
<1>8. CASE ~(i + n > slot_next)
  <2>1. free_slots' = free_slots \o [k \in 1..n |-> i + k - 1]
    BY <1>8 DEF FreeSlot
  <2>2. Distinct(free_slots)
    BY DEF BooksInv, Distinct
  <2>3. Clear(free_slots, P)
    BY <1>3 DEF BooksInv, Clear
  <2> DEFINE r == [k \in 1..n |-> i + k - 1]
  <2>4. free_slots' \in Seq(Int) /\ From(free_slots', free_slots, P) /\ Distinct(free_slots')
    <3>1. r \in Seq(Int) /\ Len(r) = n /\ \A k \in 1..n : r[k] = i + k - 1
      OBVIOUS
    <3> HIDE DEF r
    <3>2. free_slots \o r \in Seq(Int) /\ From(free_slots \o r, free_slots, P) /\ Distinct(free_slots \o r)
      BY <1>2, <2>2, <2>3, <3>1, RunAdded
    <3>3. free_slots' = free_slots \o r
      BY <2>1 DEF r
    <3> QED BY <3>2, <3>3
  <2>5. \A k \in 1..Len(free_slots') : free_slots'[k] < slot_next' /\ free_slots'[k] \notin DOMAIN owned'
    <3> TAKE k \in 1..Len(free_slots')
    <3>1. CASE free_slots'[k] \in P
      BY <1>1, <1>3, <1>4, <1>5, <3>1
    <3>2. ASSUME NEW j \in 1..Len(free_slots), free_slots'[k] = free_slots[j]
          PROVE  free_slots'[k] < slot_next' /\ free_slots'[k] \notin DOMAIN owned'
      <4>1. free_slots[j] < slot_next /\ free_slots[j] \notin DOMAIN owned
        BY DEF BooksInv
      <4> QED BY <1>3, <1>4, <1>5, <3>2, <4>1
    <3> QED BY <2>4, <3>1, <3>2 DEF From
  <2> QED BY <1>2, <1>4, <1>5, <1>6, <2>4, <2>5 DEF BooksInv, Distinct
<1> QED BY <1>7, <1>8

LEMMA BooksKept ==
  ASSUME BooksInv, UNCHANGED <<slot_next, free_slots, owned, running>>
  PROVE  BooksInv'
  BY DEF BooksInv

LEMMA BooksInit == Init => BooksInv
<1> SUFFICES ASSUME Init PROVE BooksInv
  OBVIOUS
<1>1. EmptyBag = SetToBag({})
  BY DEF EmptyBag, SetToBag
<1>2. \A i \in {} : i < slot_next
  OBVIOUS
<1>3. {} \in SUBSET Int
  OBVIOUS
<1> QED BY <1>1, <1>2, <1>3 DEF Init, BooksInv

\* Nothing is owned any more when a native has returned or its fiber has ended.
LEMMA BooksClosed ==
  ASSUME BooksInv, owned' = EmptyBag,
         UNCHANGED <<slot_next, free_slots>> \/ (slot_next' = 1 /\ free_slots' = <<>>)
  PROVE  BooksInv'
<1>1. EmptyBag = SetToBag({}) /\ DOMAIN EmptyBag = {}
  BY DEF EmptyBag, SetToBag
<1>2. {} \in SUBSET Int /\ \A i \in {} : i < slot_next'
  OBVIOUS
<1>3. CASE UNCHANGED <<slot_next, free_slots>>
  BY <1>1, <1>2, <1>3 DEF BooksInv
<1>4. CASE slot_next' = 1 /\ free_slots' = <<>>
  BY <1>1, <1>2, <1>4 DEF BooksInv
<1> QED BY <1>3, <1>4

LEMMA BooksStep ==
  ASSUME BooksInv, [Next]_vars
  PROVE  BooksInv'
<1>1. CASE UNCHANGED vars
  BY <1>1, BooksKept DEF vars, stacks, books
<1>2. ASSUME NEW n \in 1..MaxSlots, Reserve(n)
      PROVE  BooksInv'
  BY <1>2, BooksKept DEF Reserve, ReservedTo
<1>3. ASSUME NEW n \in 1..MaxSlots, AllocSlot(n)
      PROVE  BooksInv'
  <2>1. n \in Nat /\ running' = running /\ running /\ slot_next' = slot_next + n
        /\ free_slots' = free_slots /\ HandOut(slot_next, n)
    <3>1. n \in Nat
      BY SlotsAssumption
    <3>2. UNCHANGED running
      BY <1>3 DEF AllocSlot, ReservedTo, Unreserved, stacks
    <3> QED BY <1>3, <3>1, <3>2 DEF AllocSlot
  <2> QED BY <2>1, NewSlots
<1>4. ASSUME NEW t \in BOOLEAN, NextSlot(t)
      PROVE  BooksInv'
  <2>1. CASE free_slots # <<>> /\ free_slots' = Front(free_slots) /\ HandOut(Last(free_slots), 1)
             /\ Unreserved /\ UNCHANGED slot_next
    BY <1>4, <2>1, FreeSlotTaken DEF NextSlot, Unreserved, stacks
  <2>2. CASE /\ IF slot_next >= SlotsCount THEN ReservedTo(slot_next + Extra) ELSE Unreserved
             /\ slot_next' = slot_next + 1 /\ HandOut(slot_next, 1) /\ UNCHANGED free_slots
    <3>1. running' = running /\ running
      BY <1>4, <2>2 DEF NextSlot, ReservedTo, Unreserved, stacks
    <3> QED BY <2>2, <3>1, NewSlots
  <2> QED BY <1>4, <2>1, <2>2 DEF NextSlot
<1>5. ASSUME NEW i \in Places, NEW n \in 1..2, FreeSlot(i, n)
      PROVE  BooksInv'
  BY <1>5, SlotsGivenBack, SlotsAssumption DEF Places
<1>6. ASSUME NEW i \in Places, SetSlot(i) \/ GetSlotHandle(i) \/ \E k \in {"list", "map"} : New(i, k)
      PROVE  BooksInv'
  BY <1>6, BooksKept DEF SetSlot, GetSlotHandle, New, Same, books
<1>7. ASSUME NEW i \in Places, NEW h \in 1..MaxHandles, SetSlotHandle(i, h)
      PROVE  BooksInv'
  BY <1>7, BooksKept DEF SetSlotHandle, Same, books
<1>8. ASSUME NEW h \in 1..MaxHandles, ReleaseHandle(h)
      PROVE  BooksInv'
  BY <1>8, BooksKept DEF ReleaseHandle, stacks, books
<1>9. ASSUME NEW c \in Places, NEW v \in Places, NEW k, NEW at, Insert(c, v, k, at)
      PROVE  BooksInv'
  BY <1>9, BooksKept DEF Insert, Same, books
<1>10. ASSUME NEW c \in Places, NEW p \in {-1, 0}, ListPop(c, -1, p)
       PROVE  BooksInv'
  BY <1>10, BooksKept DEF ListPop, Same, books
<1>11. ASSUME NEW i \in {-1} \cup Places, CallFunction(i)
       PROVE  BooksInv'
  BY <1>11, BooksKept DEF CallFunction, Same, books
<1>12. CASE Return
  BY <1>12, BooksClosed DEF Return
<1>13. CASE Fail
  BY <1>13, BooksClosed DEF Fail
<1>14. ASSUME NEW b \in Bottom, NEW argc \in 0..MaxArgs, Call(b, argc)
       PROVE  BooksInv'
  <2>1. running' = TRUE /\ UNCHANGED <<slot_next, free_slots, owned>>
    BY <1>14 DEF Call, books
  <2> QED BY <2>1 DEF BooksInv
<1> QED BY <1>1, <1>2, <1>3, <1>4, <1>5, <1>6, <1>7, <1>8, <1>9, <1>10, <1>11, <1>12, <1>13, <1>14
        DEF Next, Step, ListInsert, MapSet

\* The books are kept in every behaviour.
THEOREM BooksCorrect == Spec => []BooksInv
<1>1. Init => BooksInv
  BY BooksInit
<1>2. BooksInv /\ [Next]_vars => BooksInv'
  BY BooksStep
<1> QED BY <1>1, <1>2, PTL DEF Spec

\* No slot is handed out that the native has already, whatever the natives
\* before it left on the list of free slots (AllocSlot, NextSlot, FreeSlot).
THEOREM OwnersApartCorrect == Spec => []OwnersApart
<1>1. BooksInv => OwnersApart
  <2> SUFFICES ASSUME BooksInv PROVE OwnersApart
    OBVIOUS
  <2>1. PICK O \in SUBSET Int : owned = SetToBag(O)
    BY DEF BooksInv
  <2>2. BagToSet(owned) = O
    BY <2>1 DEF SetToBag, BagToSet
  <2> QED BY <2>1, <2>2 DEF OwnersApart
<1> QED BY <1>1, BooksCorrect, PTL

-----------------------------------------------------------------------------
(* Powers of two, and the size of a stack that grows *)

\* Numbers have a least, and what holds of 0 and of the next number holds of all.
LEMMA LeastIn ==
  ASSUME NEW S \in SUBSET Nat, S # {}
  PROVE  \E i \in S : \A j \in S : i <= j
<1> DEFINE R == OpToRel(<, Nat)
<1>1. IsWellFoundedOn(R, Nat)
  BY NatLessThanWellFounded
<1>2. \A x, y \in Nat : <<x, y>> \in R <=> x < y
  BY DEF OpToRel
<1> HIDE DEF R
<1>3. PICK x \in S : \A y \in S : ~ (<<y, x>> \in R)
  BY <1>1, WFMin
<1>4. \A y \in S : ~ (y < x)
  BY <1>2, <1>3
<1>5. \A y \in S : x <= y
  BY <1>4
<1> QED BY <1>5

LEMMA NatInduct ==
  ASSUME NEW S, 0 \in S, \A n \in Nat : n \in S => n + 1 \in S
  PROVE  Nat \subseteq S
<1> DEFINE T == Nat \ S
<1>1. ASSUME T # {} PROVE FALSE
  <2>1. PICK i \in T : \A j \in T : i <= j
    BY <1>1, LeastIn
  <2>2. i \in Nat /\ i # 0 /\ i \notin S
    BY <2>1
  <2>3. i - 1 \in Nat /\ i - 1 \notin T /\ (i - 1) + 1 = i
    BY <2>1, <2>2
  <2> QED BY <2>2, <2>3
<1> QED BY <1>1

\* The powers exist: each list of the first of them goes on in the next.
LEMMA PowerDef == Power[0] = 1 /\ \A k \in Nat : Power[k] \in Nat /\ Power[k + 1] = 2 * Power[k]
<1> DEFINE Part(n, f) == f[0] = 1 /\ \A i \in 0..(n - 1) : f[i + 1] = 2 * f[i]
           P == {n \in Nat : \E f \in [0..n -> Nat] : Part(n, f)}
<1>1. 0 \in P
  <2>1. [i \in 0..0 |-> 1] \in [0..0 -> Nat] /\ Part(0, [i \in 0..0 |-> 1])
    OBVIOUS
  <2> QED BY <2>1
<1>2. ASSUME NEW n \in Nat, n \in P PROVE n + 1 \in P
  <2>1. PICK f \in [0..n -> Nat] : Part(n, f)
    BY <1>2
  <2> DEFINE g == [i \in 0..(n + 1) |-> IF i = n + 1 THEN 2 * f[n] ELSE f[i]]
  <2>2. g \in [0..(n + 1) -> Nat]
    BY <2>1
  <2>3. Part(n + 1, g)
    BY <2>1
  <2> HIDE DEF g
  <2>4. \E h \in [0..(n + 1) -> Nat] : Part(n + 1, h)
    BY <2>2, <2>3
  <2>5. n + 1 \in Nat
    OBVIOUS
  <2> HIDE DEF Part
  <2> QED BY <2>4, <2>5
<1>3. \A n \in Nat : n \in P
  <2> HIDE DEF P
  <2> QED BY <1>1, <1>2, NatInduct
<1> DEFINE q == [n \in Nat |-> CHOOSE f \in [0..n -> Nat] : Part(n, f)]
<1>4. \A n \in Nat : q[n] \in [0..n -> Nat] /\ Part(n, q[n])
  BY <1>3
<1> HIDE DEF q
<1>5. ASSUME NEW n \in Nat PROVE q[n + 1][n] = q[n][n]
  <2> DEFINE Q == {k \in Nat : k <= n => q[n + 1][k] = q[n][k]}
  <2>1. 0 \in Q
    BY <1>4
  <2>2. ASSUME NEW k \in Nat, k \in Q PROVE k + 1 \in Q
    <3> SUFFICES ASSUME k + 1 <= n PROVE q[n + 1][k + 1] = q[n][k + 1]
      OBVIOUS
    <3>1. k \in 0..(n - 1) /\ k \in 0..((n + 1) - 1)
      OBVIOUS
    <3>2. q[n][k + 1] = 2 * q[n][k] /\ q[n + 1][k + 1] = 2 * q[n + 1][k]
      BY <1>4, <3>1
    <3> QED BY <2>2, <3>1, <3>2
  <2>3. Nat \subseteq Q
    <3> HIDE DEF Q
    <3> QED BY <2>1, <2>2, NatInduct
  <2> QED BY <2>3
<1> DEFINE h == [n \in Nat |-> q[n][n]]
<1>6. h \in [Nat -> Nat] /\ h[0] = 1
  BY <1>4
<1>7. ASSUME NEW i \in Nat PROVE h[i + 1] = 2 * h[i]
  <2>1. q[i + 1][i + 1] = 2 * q[i + 1][i]
    BY <1>4
  <2> QED BY <1>5, <2>1
<1> HIDE DEF h
<1>8. h = [k \in Nat |-> IF k = 0 THEN 1 ELSE 2 * h[k - 1]]
  <2>1. ASSUME NEW k \in Nat PROVE h[k] = IF k = 0 THEN 1 ELSE 2 * h[k - 1]
    <3>1. CASE k # 0
      <4>1. k - 1 \in Nat /\ (k - 1) + 1 = k
        BY <3>1
      <4> QED BY <1>7, <3>1, <4>1
    <3> QED BY <1>6, <3>1
  <2> QED BY <1>6, <2>1
<1>9. Power = [k \in Nat |-> IF k = 0 THEN 1 ELSE 2 * Power[k - 1]]
  BY <1>8 DEF Power
<1>10. Power[0] = 1
  BY <1>9
<1>11. ASSUME NEW k \in Nat PROVE Power[k + 1] = 2 * Power[k]
  <2>1. k + 1 \in Nat /\ k + 1 # 0 /\ (k + 1) - 1 = k
    OBVIOUS
  <2> QED BY <1>9, <2>1
<1> DEFINE N == {k \in Nat : Power[k] \in Nat}
<1>12. Nat \subseteq N
  <2>1. 0 \in N
    BY <1>10
  <2>2. \A k \in Nat : k \in N => k + 1 \in N
    BY <1>11
  <2> HIDE DEF N
  <2> QED BY <2>1, <2>2, NatInduct
<1> QED BY <1>10, <1>11, <1>12

LEMMA PowerLarge == \A k \in Nat : Power[k] > k
<1> DEFINE N == {k \in Nat : Power[k] > k}
<1>1. 0 \in N
  BY PowerDef
<1>2. ASSUME NEW k \in Nat, k \in N PROVE k + 1 \in N
  <2>1. Power[k] \in Nat /\ Power[k] > k /\ Power[k + 1] = 2 * Power[k]
    BY <1>2, PowerDef
  <2> QED BY <2>1
<1> HIDE DEF N
<1>3. Nat \subseteq N
  BY <1>1, <1>2, NatInduct
<1> QED BY <1>3 DEF N

\* The power of two a stack grows to has room for what was asked.
LEMMA PowerCeil ==
  ASSUME NEW n \in Nat
  PROVE  PowerOf2Ceil(n) \in Nat /\ PowerOf2Ceil(n) >= n /\ PowerOf2Ceil(n) > 0
<1> DEFINE S == {k \in Nat : Power[k] >= n}
           C(k) == Power[k] >= n /\ \A j \in 0..(k - 1) : Power[j] < n
<1>1. n \in S
  BY PowerLarge, PowerDef
<1>2. PICK k \in S : \A j \in S : k <= j
  BY <1>1, LeastIn
<1>3. k \in 0..n /\ C(k)
  <2>1. k \in 0..n
    BY <1>1, <1>2
  <2>2. ASSUME NEW j \in 0..(k - 1) PROVE Power[j] < n
    <3>1. j \in Nat /\ j \notin S
      BY <1>2
    <3>2. Power[j] \in Nat
      BY <3>1, PowerDef
    <3> QED BY <3>1, <3>2
  <2> QED BY <1>2, <2>1, <2>2
<1> DEFINE m == CHOOSE i \in 0..n : C(i)
<1>4. m \in 0..n /\ C(m)
  BY <1>3
<1>5. PowerOf2Ceil(n) = Power[m]
  BY DEF PowerOf2Ceil
<1> HIDE DEF m
<1>6. m \in Nat /\ Power[m] \in Nat /\ Power[m] > m
  BY <1>4, PowerDef, PowerLarge
<1> QED BY <1>4, <1>5, <1>6

-----------------------------------------------------------------------------
(* The stack and the objects *)

LEMMA StackSize ==
  ASSUME NEW s, IsStack(s)
  PROVE  Size(s) \in Nat /\ Size(s) > 0 /\ DOMAIN s = 0..(Size(s) - 1)
<1>1. PICK n \in Nat \ {0} : DOMAIN s = 0..(n - 1)
  BY DEF IsStack
<1>2. Cardinality(0..(n - 1)) = n
  <2>1. Cardinality(0..(n - 1)) = IF 0 > n - 1 THEN 0 ELSE (n - 1) - 0 + 1
    BY FS_Interval
  <2> QED BY <2>1
<1> QED BY <1>1, <1>2 DEF Size

\* A slot there is lies in the stack.
LEMMA SlotInStack ==
  ASSUME HeapInv, NEW i \in SlotIndex
  PROVE  i \in Nat /\ ret + i \in DOMAIN stack
<1>1. Size(stack) \in Nat /\ DOMAIN stack = 0..(Size(stack) - 1) /\ ret \in Nat
  BY StackSize DEF HeapInv, HeapOk
<1>2. i \in Nat /\ i <= Size(stack) - ret - 1
  BY <1>1 DEF SlotIndex, SlotsCount
<1> QED BY <1>1, <1>2

\* A stack that grows keeps what it has, and has what was asked unless that is
\* more than the limit.
LEMMA GrownStack ==
  ASSUME NEW s, IsStack(s), ret \in Nat, NEW n \in Nat
  PROVE  /\ IsStack(Grown(s, n)) /\ DOMAIN s \subseteq DOMAIN Grown(s, n)
         /\ \A p \in DOMAIN Grown(s, n) : Grown(s, n)[p] = IF p \in DOMAIN s THEN s[p] ELSE Junk
         /\ ~(ret + n >= StackLimit) => 0..(ret + n - 1) \subseteq DOMAIN Grown(s, n)
<1> DEFINE N == Size(s)
<1>1. N \in Nat /\ N > 0 /\ DOMAIN s = 0..(N - 1)
  BY StackSize
<1> HIDE DEF N
<1>2. CASE ret + n >= StackLimit \/ N >= ret + n
  <2>1. Grown(s, n) = s
    BY <1>2 DEF Grown, N
  <2>2. StackLimit \in Nat
    BY SlotsAssumption
  <2>3. ~(ret + n >= StackLimit) => 0..(ret + n - 1) \subseteq DOMAIN s
    BY <1>1, <1>2, <2>2
  <2> QED BY <2>1, <2>3
<1>3. CASE ~(ret + n >= StackLimit \/ N >= ret + n)
  <2> DEFINE P == PowerOf2Ceil(ret + n)
             g == [p \in 0..(P - 1) |-> IF p \in DOMAIN s THEN s[p] ELSE Junk]
  <2>1. Grown(s, n) = g
    BY <1>3 DEF Grown, N
  <2>2. P \in Nat /\ P >= ret + n /\ P > 0
    BY PowerCeil
  <2> HIDE DEF P
  <2>3. IsStack(g)
    BY <2>2 DEF IsStack
  <2>4. DOMAIN s \subseteq DOMAIN g /\ 0..(ret + n - 1) \subseteq DOMAIN g
    BY <1>1, <1>3, <2>2
  <2> QED BY <2>1, <2>3, <2>4
<1> QED BY <1>2, <1>3

\* A collection finds what is in the stack below its top, in handles and in the
\* values held meanwhile, and what these lead to; all of it is there.
LEMMA LivesKeep ==
  ASSUME HeapInv, NEW temps, temps \cap Object \subseteq Allocated(kind), NEW live \in Lives(temps)
  PROVE  /\ live \subseteq Allocated(kind) /\ Closed(live)
         /\ \A p \in 0..(sp - 1) : stack[p] \in Object => stack[p] \in live
         /\ Range(handles) \subseteq live /\ temps \cap Object \subseteq live
<1> DEFINE A == Allocated(kind)
           Roots == ({stack[p] : p \in 0..(sp - 1)} \cup {handles[h] : h \in DOMAIN handles} \cup temps) \cap Object
<1>1. A \in SUBSET Object /\ Closed(A)
  BY DEF Closed, Allocated, HeapInv, HeapOk
<1>2. Roots \subseteq A
  <2>1. 0..(sp - 1) \subseteq DOMAIN stack
    <3>1. Size(stack) \in Nat /\ DOMAIN stack = 0..(Size(stack) - 1) /\ sp - 1 \in DOMAIN stack /\ sp \in Nat
      BY StackSize DEF HeapInv, HeapOk
    <3> QED BY <3>1
  <2>2. \A p \in 0..(sp - 1) : stack[p] \in Object => stack[p] \in A
    BY <2>1 DEF HeapInv, HeapOk
  <2>3. \A h \in DOMAIN handles : handles[h] \in A
    BY DEF HeapInv, HeapOk, Range
  <2> QED BY <2>2, <2>3
<1>3. \A h \in DOMAIN handles : handles[h] \in Object
  BY DEF HeapInv, HeapOk, Range, Allocated
<1>4. CASE live = A
  BY <1>1, <1>2, <1>4 DEF HeapInv, HeapOk, Range
<1>5. CASE live = Live(temps)
  <2>1. live = Marked(Roots)
    BY <1>5 DEF Live
  <2> HIDE DEF Roots
  <2>2. live \subseteq A
    BY <1>1, <1>2, <2>1 DEF Marked
  <2>3. Closed(live)
    <3> SUFFICES ASSUME NEW o \in live, NEW v \in Range(elements[o]) \cap Object
                 PROVE  v \in live
      BY DEF Closed
    <3>1. ASSUME NEW T \in SUBSET Object, Roots \subseteq T, Closed(T) PROVE v \in T
      <4>1. o \in T
        BY <2>1, <3>1 DEF Marked
      <4> QED BY <3>1, <4>1 DEF Closed
    <3> QED BY <2>1, <3>1 DEF Marked
  <2>4. Roots \subseteq live
    BY <1>1, <1>2, <2>1 DEF Marked
  <2>5. /\ \A p \in 0..(sp - 1) : stack[p] \in Object => stack[p] \in Roots
        /\ Range(handles) \subseteq Roots /\ temps \cap Object \subseteq Roots
    BY <1>3 DEF Roots, Range
  <2> QED BY <2>2, <2>3, <2>4, <2>5
<1> QED BY <1>4, <1>5 DEF Lives, Allocated

\* A collection leaves a sound heap of what it found.
LEMMA SweptSound ==
  ASSUME NEW s, NEW top \in Nat, NEW k, NEW e, NEW hs, k = kind, e = elements, HeapOk(s, top, k, e, hs),
         NEW live, live \subseteq Allocated(k), Closed(live), Range(hs) \subseteq live,
         \A p \in 0..(top - 1) : s[p] \in Object => s[p] \in live
  PROVE  HeapOk(Swept(s, live), top, Kinds(live), Elements(live), hs) /\ Allocated(Kinds(live)) = live
<1>1. live \subseteq Object
  BY DEF Allocated
<1>2. Allocated(Kinds(live)) = live
  BY <1>1 DEF Allocated, Kinds
<1>3. IsStack(Swept(s, live)) /\ DOMAIN Swept(s, live) = DOMAIN s
  BY DEF Swept, IsStack, HeapOk
<1>4. \A p \in DOMAIN s : Swept(s, live)[p] = IF s[p] \in Object \ live THEN Freed ELSE s[p]
  BY DEF Swept
<1>5. \A p \in DOMAIN s : Swept(s, live)[p] \in Object => Swept(s, live)[p] \in live
  BY <1>4, SlotsAssumption
<1>6. \A p \in 0..(top - 1) : Swept(s, live)[p] # Freed
  <2> TAKE p \in 0..(top - 1)
  <2>1. p \in DOMAIN s
    <3>1. Size(s) \in Nat /\ DOMAIN s = 0..(Size(s) - 1) /\ top - 1 \in DOMAIN s
      BY StackSize DEF HeapOk
    <3> QED BY <3>1
  <2>2. s[p] # Freed
    BY DEF HeapOk
  <2> QED BY <1>4, <2>1, <2>2
<1>7. Kinds(live) \in [Object -> {"free", "list", "map"}]
  BY DEF Kinds, HeapOk
<1>8. Elements(live) \in [Object -> Seq(Object)]
  BY DEF Elements, HeapOk
<1>9. ASSUME NEW o \in Object PROVE Range(Elements(live)[o]) \subseteq live
  <2>1. CASE o \in live
    <3>1. Elements(live)[o] = elements[o] /\ Range(elements[o]) \subseteq Object
      BY <2>1 DEF Elements, HeapOk, Allocated
    <3> QED BY <2>1, <3>1 DEF Closed
  <2>2. CASE o \notin live
    BY <2>2 DEF Elements, Range
  <2> QED BY <2>1, <2>2
<1>10. hs \in Seq(Object) /\ top - 1 \in DOMAIN s
  BY DEF HeapOk
<1> QED BY <1>2, <1>3, <1>5, <1>6, <1>7, <1>8, <1>9, <1>10 DEF HeapOk

\* A collection that may have happened leaves a sound heap, and what was held.
LEMMA Collected ==
  ASSUME HeapInv, NEW temps, temps \cap Object \subseteq Allocated(kind), NEW live \in Lives(temps)
  PROVE  /\ HeapOk(Swept(stack, live), sp, Kinds(live), Elements(live), handles)
         /\ Allocated(Kinds(live)) = live /\ temps \cap Object \subseteq live
<1>1. HeapOk(stack, sp, kind, elements, handles) /\ sp \in Nat
  BY DEF HeapInv
<1> QED BY <1>1, LivesKeep, SweptSound

\* An object made leaves it sound, ...
LEMMA MadeSound ==
  ASSUME NEW s, NEW top, NEW k, NEW e, NEW hs, HeapOk(s, top, k, e, hs),
         NEW kk \in [Object -> {"free", "list", "map"}], Allocated(k) \subseteq Allocated(kk)
  PROVE  HeapOk(s, top, kk, e, hs)
  BY DEF HeapOk

\* ... and so does a value put where there is room.
LEMMA SetSound ==
  ASSUME NEW s, NEW top, NEW k, NEW e, NEW hs, HeapOk(s, top, k, e, hs),
         NEW p \in DOMAIN s, NEW v, v # Freed, v \in Object => v \in Allocated(k)
  PROVE  HeapOk([s EXCEPT ![p] = v], top, k, e, hs)
<1> DEFINE t == [s EXCEPT ![p] = v]
<1>1. IsStack(t) /\ DOMAIN t = DOMAIN s
  BY DEF IsStack, HeapOk
<1>2. \A q \in DOMAIN s : t[q] = IF q = p THEN v ELSE s[q]
  <2>1. s = [q \in DOMAIN s |-> s[q]]
    BY DEF IsStack, HeapOk
  <2> QED BY <2>1
<1>3. \A q \in 0..(top - 1) : t[q] # Freed
  <2>1. 0..(top - 1) \subseteq DOMAIN s
    BY StackSize DEF HeapOk
  <2> HIDE DEF t
  <2> QED BY <1>2, <2>1 DEF HeapOk
<1> HIDE DEF t
<1>4. HeapOk(t, top, k, e, hs)
  BY <1>1, <1>2, <1>3 DEF HeapOk
<1> QED BY <1>4 DEF t

-----------------------------------------------------------------------------
(* Values put into a list or a map, and taken out *)

LEMMA SubSeqKeeps ==
  ASSUME NEW S, NEW s \in Seq(S), NEW m \in Nat, m >= 1, NEW n \in Int, n <= Len(s)
  PROVE  SubSeq(s, m, n) \in Seq(S) /\ Range(SubSeq(s, m, n)) \subseteq Range(s)
<1> DEFINE t == SubSeq(s, m, n)
<1>1. \A i \in m..n : i \in 1..Len(s) /\ s[i] \in S
  OBVIOUS
<1>2. /\ t \in Seq(S) /\ Len(t) = (IF m <= n THEN n - m + 1 ELSE 0)
      /\ \A i \in 1..(n - m + 1) : t[i] = s[m + i - 1]
  BY <1>1, SubSeqProperties
<1> HIDE DEF t
<1>3. ASSUME NEW i \in 1..Len(t) PROVE t[i] \in Range(s)
  <2>1. i \in 1..(n - m + 1)
    BY <1>2
  <2>2. m + i - 1 \in m..n
    BY <2>1
  <2>3. t[i] = s[m + i - 1]
    BY <1>2, <2>1
  <2> QED BY <1>1, <2>2, <2>3 DEF Range
<1>4. DOMAIN t = 1..Len(t)
  BY <1>2
<1> QED BY <1>2, <1>3, <1>4 DEF Range, t

LEMMA ConcatKeeps ==
  ASSUME NEW S, NEW s \in Seq(S), NEW t \in Seq(S)
  PROVE  s \o t \in Seq(S) /\ Range(s \o t) \subseteq Range(s) \cup Range(t)
<1> DEFINE u == s \o t
<1>1. /\ u \in Seq(S) /\ Len(u) = Len(s) + Len(t)
      /\ \A i \in 1..(Len(s) + Len(t)) : u[i] = IF i <= Len(s) THEN s[i] ELSE t[i - Len(s)]
  BY ConcatProperties
<1> HIDE DEF u
<1>2. ASSUME NEW i \in 1..Len(u) PROVE u[i] \in Range(s) \cup Range(t)
  <2>1. CASE i <= Len(s)
    <3>1. i \in 1..Len(s) /\ u[i] = s[i]
      BY <1>1, <2>1
    <3> QED BY <3>1 DEF Range
  <2>2. CASE ~(i <= Len(s))
    <3>1. i - Len(s) \in 1..Len(t) /\ u[i] = t[i - Len(s)]
      BY <1>1, <2>2
    <3> QED BY <3>1 DEF Range
  <2> QED BY <2>1, <2>2
<1>3. DOMAIN u = 1..Len(u)
  BY <1>1
<1> QED BY <1>1, <1>2, <1>3 DEF Range, u

LEMMA InsertKeeps ==
  ASSUME NEW S, NEW s \in Seq(S), NEW v \in S, NEW i \in 1..(Len(s) + 1)
  PROVE  InsertAt(s, i, v) \in Seq(S) /\ Range(InsertAt(s, i, v)) \subseteq Range(s) \cup {v}
<1> DEFINE a == SubSeq(s, 1, i - 1)
           b == SubSeq(s, i, Len(s))
<1>1. Len(s) \in Nat /\ i \in Nat /\ i >= 1 /\ i - 1 \in Int /\ i - 1 <= Len(s)
  OBVIOUS
<1>2. a \in Seq(S) /\ Range(a) \subseteq Range(s)
  BY <1>1, SubSeqKeeps
<1>3. b \in Seq(S) /\ Range(b) \subseteq Range(s)
  BY <1>1, SubSeqKeeps
<1>4. <<v>> \in Seq(S) /\ Range(<<v>>) = {v}
  BY DEF Range
<1> HIDE DEF a, b
<1>5. a \o <<v>> \in Seq(S) /\ Range(a \o <<v>>) \subseteq Range(a) \cup {v}
  BY <1>2, <1>4, ConcatKeeps
<1>6. a \o <<v>> \o b \in Seq(S) /\ Range(a \o <<v>> \o b) \subseteq Range(a \o <<v>>) \cup Range(b)
  BY <1>3, <1>5, ConcatKeeps
<1>7. InsertAt(s, i, v) = a \o <<v>> \o b
  BY DEF InsertAt, a, b
<1> QED BY <1>2, <1>3, <1>5, <1>6, <1>7

LEMMA RemoveKeeps ==
  ASSUME NEW S, NEW s \in Seq(S), NEW i \in 1..Len(s)
  PROVE  RemoveAt(s, i) \in Seq(S) /\ Range(RemoveAt(s, i)) \subseteq Range(s)
<1> DEFINE a == SubSeq(s, 1, i - 1)
           b == SubSeq(s, i + 1, Len(s))
<1>1. Len(s) \in Nat /\ i + 1 \in Nat /\ i + 1 >= 1 /\ i - 1 \in Int /\ i - 1 <= Len(s)
  OBVIOUS
<1>2. a \in Seq(S) /\ Range(a) \subseteq Range(s)
  BY <1>1, SubSeqKeeps
<1>3. b \in Seq(S) /\ Range(b) \subseteq Range(s)
  BY <1>1, SubSeqKeeps
<1> HIDE DEF a, b
<1>4. a \o b \in Seq(S) /\ Range(a \o b) \subseteq Range(a) \cup Range(b)
  BY <1>2, <1>3, ConcatKeeps
<1>5. RemoveAt(s, i) = a \o b
  BY DEF RemoveAt, a, b
<1> QED BY <1>2, <1>3, <1>4, <1>5

\* What an object holds may change for anything that is there.
LEMMA HeldSound ==
  ASSUME NEW s, NEW top, NEW k, NEW e, NEW hs, HeapOk(s, top, k, e, hs), NEW o \in Object,
         NEW values \in Seq(Object), Range(values) \subseteq Allocated(k)
  PROVE  HeapOk(s, top, k, [e EXCEPT ![o] = values], hs)
<1>1. \A q \in Object : [e EXCEPT ![o] = values][q] = IF q = o THEN values ELSE e[q]
  BY DEF HeapOk
<1>2. [e EXCEPT ![o] = values] \in [Object -> Seq(Object)]
  BY DEF HeapOk
<1> QED BY <1>1, <1>2 DEF HeapOk

-----------------------------------------------------------------------------
(* The steps *)

LEMMA HeapInit == Init => HeapInv
<1> SUFFICES ASSUME Init PROVE HeapInv
  OBVIOUS
<1>1. IsStack(NewStack) /\ DOMAIN NewStack = 0..(InitialSize - 1) /\ 0 \in DOMAIN NewStack
  BY SlotsAssumption DEF NewStack, IsStack
<1>2. \A p \in DOMAIN NewStack : NewStack[p] \notin Object
  BY SlotsAssumption DEF NewStack
<1>3. \A p \in 0..(1 - 1) : NewStack[p] # Freed
  BY <1>1, SlotsAssumption DEF NewStack
<1>4. Range(<<>>) = {}
  BY DEF Range
<1>5. /\ kind \in [Object -> {"free", "list", "map"}] /\ elements \in [Object -> Seq(Object)]
      /\ handles \in Seq(Object) /\ \A o \in Object : elements[o] = <<>>
  BY DEF Init
<1>6. HeapOk(stack, sp, kind, elements, handles)
  <2>1. stack = NewStack /\ sp = 1 /\ handles = <<>>
    BY DEF Init
  <2>2. sp - 1 \in DOMAIN stack
    BY <1>1, <2>1
  <2> QED BY <1>1, <1>2, <1>3, <1>4, <1>5, <2>1, <2>2 DEF HeapOk
<1>7. running \in BOOLEAN /\ error \in BOOLEAN
  BY DEF Init
<1>8. ret \in Nat /\ sp \in Nat /\ ret < sp
  BY DEF Init
<1> QED BY <1>6, <1>7, <1>8 DEF HeapInv

LEMMA ReserveKeeps ==
  ASSUME HeapInv, NEW n \in Nat, ReservedTo(n)
  PROVE  HeapInv'
<1> DEFINE s == Grown(stack, n)
<1>1. HeapOk(stack, sp, kind, elements, handles) /\ ret \in Nat /\ sp \in Nat
  BY DEF HeapInv
<1>2. /\ IsStack(s) /\ DOMAIN stack \subseteq DOMAIN s
      /\ \A p \in DOMAIN s : s[p] = IF p \in DOMAIN stack THEN stack[p] ELSE Junk
  BY <1>1, GrownStack DEF HeapOk
<1> HIDE DEF s
<1>3. 0..(sp - 1) \subseteq DOMAIN stack
  BY <1>1, StackSize DEF HeapOk
<1>4. HeapOk(s, sp, kind, elements, handles)
  BY <1>1, <1>2, <1>3, SlotsAssumption DEF HeapOk
<1>5. PICK live \in Lives({}) : stack' = Swept(s, live) /\ kind' = Kinds(live) /\ elements' = Elements(live)
  BY DEF ReservedTo, Lives, s
<1>6. /\ live \subseteq Allocated(kind) /\ Closed(live) /\ Range(handles) \subseteq live
      /\ \A p \in 0..(sp - 1) : stack[p] \in Object => stack[p] \in live
  <2>1. {} \cap Object \subseteq Allocated(kind)
    OBVIOUS
  <2> QED BY <2>1, LivesKeep
<1>7. \A p \in 0..(sp - 1) : s[p] \in Object => s[p] \in live
  BY <1>2, <1>3, <1>6
<1>8. HeapOk(Swept(s, live), sp, Kinds(live), Elements(live), handles)
  BY <1>1, <1>4, <1>6, <1>7, SweptSound
<1> QED BY <1>5, <1>8, SlotsAssumption DEF ReservedTo, HeapInv

LEMMA HeapKept == HeapInv /\ Unreserved => HeapInv'
  BY DEF HeapInv, HeapOk, IsStack, Unreserved, stacks, heap

\* What a step that touches slots has before it: the slot is in the stack, and
\* what is in it is there.
LEMMA SlotHolds ==
  ASSUME HeapInv, NEW i \in SlotIndex
  PROVE  ret + i \in DOMAIN stack /\ (Slot(i) \in Object => Slot(i) \in Allocated(kind))
  BY SlotInStack DEF HeapInv, HeapOk, Slot

LEMMA SweptDomain == \A s, live : DOMAIN Swept(s, live) = DOMAIN s
  BY DEF Swept

LEMMA SetSlotKeeps ==
  ASSUME HeapInv, NEW i, SetSlot(i)
  PROVE  HeapInv'
<1>1. ret + i \in DOMAIN stack
  BY SlotHolds DEF SetSlot
<1>2. HeapOk([stack EXCEPT ![ret + i] = Null], sp, kind, elements, handles)
  BY <1>1, SetSound, SlotsAssumption DEF HeapInv
<1> QED BY <1>2 DEF SetSlot, Set, Same, HeapInv, heap

LEMMA SetSlotHandleKeeps ==
  ASSUME HeapInv, NEW i, NEW h, SetSlotHandle(i, h)
  PROVE  HeapInv'
<1>1. ret + i \in DOMAIN stack
  BY SlotHolds DEF SetSlotHandle
<1>2. handles[h] \in Allocated(kind)
  BY DEF SetSlotHandle, HeapInv, HeapOk, Range
<1>3. handles[h] # Freed
  BY <1>2, SlotsAssumption DEF Allocated
<1>4. HeapOk([stack EXCEPT ![ret + i] = handles[h]], sp, kind, elements, handles)
  BY <1>1, <1>2, <1>3, SetSound DEF HeapInv
<1> QED BY <1>4 DEF SetSlotHandle, Set, Same, HeapInv, heap

LEMMA NewKeeps ==
  ASSUME HeapInv, NEW i, NEW k \in {"list", "map"}, New(i, k)
  PROVE  HeapInv'
<1>0. PICK live \in Lives({}) : \E o \in Object \ live :
        /\ kind' = [Kinds(live) EXCEPT ![o] = k] /\ elements' = Elements(live)
        /\ stack' = Set(Swept(stack, live), i, o)
  BY DEF New
<1>1. PICK o \in Object \ live :
        /\ kind' = [Kinds(live) EXCEPT ![o] = k] /\ elements' = Elements(live)
        /\ stack' = Set(Swept(stack, live), i, o)
  BY <1>0
<1> DEFINE s == Swept(stack, live)
           kk == [Kinds(live) EXCEPT ![o] = k]
<1>2. HeapOk(s, sp, Kinds(live), Elements(live), handles)
  <2>1. {} \cap Object \subseteq Allocated(kind)
    OBVIOUS
  <2> QED BY <2>1, Collected
<1>3. ret + i \in DOMAIN s
  BY SlotHolds, SweptDomain DEF New
<1> HIDE DEF s
<1>4. HeapOk(s, sp, kk, Elements(live), handles) /\ o \in Allocated(kk)
  <2> DEFINE km == Kinds(live)
             em == Elements(live)
  <2>1. HeapOk(s, sp, km, em, handles)
    BY <1>2
  <2>2. kk \in [Object -> {"free", "list", "map"}] /\ Allocated(km) \subseteq Allocated(kk) /\ o \in Allocated(kk)
    BY <2>1 DEF HeapOk, Allocated
  <2> HIDE DEF km, em, kk
  <2>3. HeapOk(s, sp, kk, em, handles)
    BY <2>1, <2>2, MadeSound
  <2> QED BY <2>2, <2>3 DEF em
<1> HIDE DEF kk
<1>5. o # Freed
  BY SlotsAssumption
<1>6. HeapOk([s EXCEPT ![ret + i] = o], sp, kk, Elements(live), handles)
  BY <1>3, <1>4, <1>5, SetSound
<1>7. stack' = [s EXCEPT ![ret + i] = o] /\ kind' = kk
  BY <1>1 DEF s, kk, Set
<1> QED BY <1>1, <1>6, <1>7 DEF New, Same, HeapInv

LEMMA GetSlotHandleKeeps ==
  ASSUME HeapInv, NEW i, GetSlotHandle(i)
  PROVE  HeapInv'
<1>1. Slot(i) \in Object /\ Slot(i) \in Allocated(kind)
  BY SlotHolds DEF GetSlotHandle
<1>2. PICK live \in Lives({Slot(i)}) :
        stack' = Swept(stack, live) /\ kind' = Kinds(live) /\ elements' = Elements(live)
  BY DEF GetSlotHandle
<1>3. {Slot(i)} \cap Object \subseteq Allocated(kind)
  BY <1>1
<1>4. /\ HeapOk(Swept(stack, live), sp, Kinds(live), Elements(live), handles)
      /\ Allocated(Kinds(live)) = live /\ {Slot(i)} \cap Object \subseteq live
  BY <1>3, Collected
<1>5. handles' \in Seq(Object) /\ Range(handles') \subseteq live
  <2>1. handles' = handles \o <<Slot(i)>>
    BY <1>1, AppendIsConcat DEF GetSlotHandle, HeapInv, HeapOk
  <2>2. <<Slot(i)>> \in Seq(Object) /\ Range(<<Slot(i)>>) = {Slot(i)}
    BY <1>1 DEF Range
  <2>3. handles \in Seq(Object) /\ Range(handles) \subseteq live
    BY <1>4 DEF HeapOk
  <2> HIDE DEF Slot
  <2>4. handles \o <<Slot(i)>> \in Seq(Object) /\ Range(handles \o <<Slot(i)>>) \subseteq Range(handles) \cup Range(<<Slot(i)>>)
    BY <2>2, <2>3, ConcatKeeps
  <2> QED BY <1>1, <1>4, <2>1, <2>2, <2>3, <2>4
<1>6. HeapOk(stack', sp, kind', elements', handles')
  BY <1>2, <1>4, <1>5 DEF HeapOk
<1> QED BY <1>6 DEF GetSlotHandle, Same, HeapInv

LEMMA ReleaseHandleKeeps ==
  ASSUME HeapInv, NEW h, ReleaseHandle(h)
  PROVE  HeapInv'
<1>1. handles \in Seq(Object) /\ h \in 1..Len(handles) /\ handles' = RemoveAt(handles, h)
  BY DEF ReleaseHandle, HeapInv, HeapOk
<1>2. handles' \in Seq(Object) /\ Range(handles') \subseteq Range(handles)
  BY <1>1, RemoveKeeps
<1>3. HeapOk(stack, sp, kind, elements, handles')
  BY <1>2 DEF HeapInv, HeapOk
<1> QED BY <1>3 DEF ReleaseHandle, stacks, HeapInv

LEMMA InsertStepKeeps ==
  ASSUME HeapInv, NEW c, NEW v, NEW k, NEW at \in Int, Insert(c, v, k, at)
  PROVE  HeapInv'
<1> DEFINE l == Slot(c)
           x == Slot(v)
           n == Len(elements[l])
           index == IF at < 0 THEN at + n + 1 ELSE at
<1>1. l \in Object /\ x \in Object /\ x \in Allocated(kind)
  BY SlotHolds DEF Insert
<1>2. CASE index \notin 0..n
  <2>1. error' = TRUE /\ UNCHANGED <<stack, heap>> /\ Same
    BY <1>2 DEF Insert
  <2> QED BY <2>1 DEF Same, HeapInv, heap
<1>3. CASE index \in 0..n
  <2>1. PICK live \in Lives({x}) :
          /\ stack' = Swept(stack, live) /\ kind' = Kinds(live)
          /\ elements' = IF l \in live THEN [Elements(live) EXCEPT ![l] = InsertAt(@, index + 1, x)] ELSE Elements(live)
    BY <1>3 DEF Insert
  <2>2. UNCHANGED <<error, handles>> /\ Same
    BY <1>3 DEF Insert
  <2>3. {x} \cap Object \subseteq Allocated(kind)
    BY <1>1
  <2>4. /\ HeapOk(Swept(stack, live), sp, Kinds(live), Elements(live), handles)
        /\ Allocated(Kinds(live)) = live /\ x \in live
    <3> HIDE DEF x
    <3> QED BY <1>1, <2>3, Collected
  <2>5. HeapOk(Swept(stack, live), sp, Kinds(live), elements', handles)
    <3>1. CASE l \notin live
      BY <2>1, <2>4, <3>1
    <3>2. CASE l \in live
      <4> DEFINE e == Elements(live)
      <4>1. e[l] = elements[l] /\ e[l] \in Seq(Object) /\ Range(e[l]) \subseteq live
        BY <1>1, <2>4, <3>2 DEF Elements, HeapOk
      <4>2. index + 1 \in 1..(Len(e[l]) + 1)
        BY <1>3, <4>1
      <4> DEFINE values == InsertAt(e[l], index + 1, x)
      <4> HIDE DEF e, l, x, index
      <4>3. values \in Seq(Object) /\ Range(values) \subseteq Range(e[l]) \cup {x}
        BY <1>1, <4>1, <4>2, InsertKeeps
      <4>4. elements' = [e EXCEPT ![l] = values]
        BY <2>1, <3>2 DEF e
      <4> HIDE DEF values
      <4>5. Range(values) \subseteq Allocated(Kinds(live))
        BY <2>4, <4>1, <4>3
      <4>6. HeapOk(Swept(stack, live), sp, Kinds(live), e, handles)
        BY <2>4 DEF e
      <4> QED BY <1>1, <4>3, <4>4, <4>5, <4>6, HeldSound
    <3> QED BY <3>1, <3>2
  <2> QED BY <2>1, <2>2, <2>5 DEF Same, HeapInv
<1> QED BY <1>2, <1>3

LEMMA ListPopKeeps ==
  ASSUME HeapInv, NEW c, NEW at \in Int, NEW popped, ListPop(c, at, popped)
  PROVE  HeapInv'
<1> DEFINE o == Slot(c)
           n == Len(elements[o])
           index == IF at < 0 THEN at + n ELSE at
<1>1. o \in Object /\ HeapOk(stack, sp, kind, elements, handles)
  BY DEF ListPop, HeapInv
<1>2. UNCHANGED <<kind, handles, ret, sp, running>>
  BY DEF ListPop, Same
<1>3. CASE index \notin 0..(n - 1)
  <2>1. error' = TRUE /\ UNCHANGED <<stack, elements>>
    BY <1>3 DEF ListPop
  <2> QED BY <1>2, <2>1 DEF HeapInv
<1>4. CASE index \in 0..(n - 1)
  <2>1. /\ elements' = [elements EXCEPT ![o] = RemoveAt(@, index + 1)]
        /\ stack' = (IF popped = -1 THEN stack ELSE Set(stack, popped, elements[o][index + 1]))
        /\ UNCHANGED error /\ popped \in {-1} \cup SlotIndex
    BY <1>4 DEF ListPop
  <2> DEFINE values == RemoveAt(elements[o], index + 1)
             x == elements[o][index + 1]
  <2>2. elements[o] \in Seq(Object) /\ Range(elements[o]) \subseteq Allocated(kind)
    BY <1>1 DEF HeapOk
  <2>3. index + 1 \in 1..Len(elements[o])
    BY <1>4, <2>2
  <2>4. elements' = [elements EXCEPT ![o] = values]
    BY <2>1
  <2> HIDE DEF index, o
  <2>5. values \in Seq(Object) /\ Range(values) \subseteq Range(elements[o])
    BY <2>2, <2>3, RemoveKeeps
  <2>6. x \in Allocated(kind) /\ x # Freed
    <3>1. x \in Range(elements[o])
      BY <2>2, <2>3 DEF Range
    <3> QED BY <2>2, <3>1, SlotsAssumption DEF Allocated
  <2> HIDE DEF values, x
  <2>7. HeapOk(stack, sp, kind, elements', handles)
    BY <1>1, <2>2, <2>4, <2>5, HeldSound
  <2>8. HeapOk(stack', sp, kind, elements', handles)
    <3>1. CASE popped = -1
      BY <2>1, <2>7, <3>1
    <3>2. CASE popped # -1
      <4>1. ret + popped \in DOMAIN stack
        BY <2>1, <3>2, SlotHolds
      <4>2. stack' = [stack EXCEPT ![ret + popped] = x]
        BY <2>1, <3>2 DEF Set, x
      <4> QED BY <2>6, <2>7, <4>1, <4>2, SetSound
    <3> QED BY <3>1, <3>2
  <2> QED BY <1>2, <2>1, <2>8 DEF HeapInv
<1> QED BY <1>3, <1>4

LEMMA CallFunctionKeeps ==
  ASSUME HeapInv, NEW i, CallFunction(i)
  PROVE  HeapInv'
<1>1. PICK live \in Lives({}), fails \in BOOLEAN :
        \E value \in {Null} \cup (Object \ live) \cup (IF fails THEN {Junk} ELSE {}) :
          /\ kind' = IF value \in Object THEN [Kinds(live) EXCEPT ![value] = "map"] ELSE Kinds(live)
          /\ elements' = Elements(live)
          /\ stack' = IF i = -1 THEN Swept(stack, live) ELSE Set(Swept(stack, live), i, value)
          /\ error' = fails
  BY DEF CallFunction
<1>2. PICK value \in {Null} \cup (Object \ live) \cup (IF fails THEN {Junk} ELSE {}) :
          /\ kind' = IF value \in Object THEN [Kinds(live) EXCEPT ![value] = "map"] ELSE Kinds(live)
          /\ elements' = Elements(live)
          /\ stack' = IF i = -1 THEN Swept(stack, live) ELSE Set(Swept(stack, live), i, value)
          /\ error' = fails
  BY <1>1
<1> DEFINE s == Swept(stack, live)
           km == Kinds(live)
           kk == IF value \in Object THEN [km EXCEPT ![value] = "map"] ELSE km
           em == Elements(live)
<1>3. HeapOk(s, sp, km, em, handles)
  <2>1. {} \cap Object \subseteq Allocated(kind)
    OBVIOUS
  <2> QED BY <2>1, Collected
<1>4. i = -1 \/ ret + i \in DOMAIN s
  BY SlotHolds, SweptDomain DEF CallFunction
<1>5. value # Freed
  BY SlotsAssumption
<1> HIDE DEF s, km, em
<1>6. /\ kk \in [Object -> {"free", "list", "map"}] /\ Allocated(km) \subseteq Allocated(kk)
      /\ value \in Object => value \in Allocated(kk)
  BY <1>3 DEF HeapOk, Allocated
<1> HIDE DEF kk
<1>7. HeapOk(s, sp, kk, em, handles)
  BY <1>3, <1>6, MadeSound
<1>8. HeapOk(stack', sp, kk, em, handles)
  <2>1. CASE i = -1
    BY <1>2, <1>7, <2>1 DEF s
  <2>2. CASE i # -1
    <3>1. HeapOk([s EXCEPT ![ret + i] = value], sp, kk, em, handles)
      BY <1>4, <1>5, <1>6, <1>7, <2>2, SetSound
    <3> QED BY <1>2, <2>2, <3>1 DEF s, Set
  <2> QED BY <2>1, <2>2
<1> QED BY <1>2, <1>8 DEF CallFunction, Same, HeapInv, kk, km, em

LEMMA CallKeeps ==
  ASSUME HeapInv, NEW b \in Bottom, NEW argc \in 0..MaxArgs, Call(b, argc)
  PROVE  HeapInv'
<1>1. PICK live \in Lives({}) : \E args \in [1..argc -> {Null} \cup (Object \ live)] :
        /\ kind' = [o \in Object |-> IF o \in Range(args) THEN "list" ELSE Kinds(live)[o]]
        /\ elements' = Elements(live)
        /\ stack' = [p \in DOMAIN stack |-> IF p < b \/ p = b THEN Null ELSE IF p <= b + argc THEN args[p - b] ELSE Junk]
  BY DEF Call
<1>2. PICK args \in [1..argc -> {Null} \cup (Object \ live)] :
        /\ kind' = [o \in Object |-> IF o \in Range(args) THEN "list" ELSE Kinds(live)[o]]
        /\ elements' = Elements(live)
        /\ stack' = [p \in DOMAIN stack |-> IF p < b \/ p = b THEN Null ELSE IF p <= b + argc THEN args[p - b] ELSE Junk]
  BY <1>1
<1> DEFINE km == Kinds(live)
           em == Elements(live)
<1>3. HeapOk(Swept(stack, live), sp, km, em, handles)
  <2>1. {} \cap Object \subseteq Allocated(kind)
    OBVIOUS
  <2> QED BY <2>1, Collected
<1> HIDE DEF km, em
<1>4. b \in Nat /\ argc \in Nat
  BY SlotsAssumption
<1>5. kind' \in [Object -> {"free", "list", "map"}] /\ Allocated(km) \subseteq Allocated(kind')
  BY <1>2, <1>3 DEF km, HeapOk, Allocated
<1>6. IsStack(stack') /\ DOMAIN stack' = DOMAIN stack
  <2>1. IsStack(stack)
    BY DEF HeapInv, HeapOk
  <2> QED BY <1>2, <2>1 DEF IsStack
<1>7. sp' = b + argc + 1 /\ sp' \in Nat /\ ret' = b /\ ret' < sp' /\ 0..(sp' - 1) \subseteq DOMAIN stack'
  <2>1. Size(stack) \in Nat /\ DOMAIN stack = 0..(Size(stack) - 1)
    BY StackSize DEF HeapInv, HeapOk
  <2>2. b + argc + 1 <= Size(stack) /\ ret' = b /\ sp' = b + argc + 1
    BY DEF Call
  <2> QED BY <1>4, <1>6, <2>1, <2>2
<1>8. ASSUME NEW p \in DOMAIN stack
      PROVE  /\ stack'[p] \in Object => stack'[p] \in Allocated(kind')
             /\ p <= b + argc => stack'[p] # Freed
  <2>1. p \in Int
    BY StackSize DEF HeapInv, HeapOk
  <2>2. CASE p <= b
    BY <1>2, <1>4, <2>1, <2>2, SlotsAssumption
  <2>3. CASE ~(p <= b) /\ p <= b + argc
    <3>1. stack'[p] = args[p - b] /\ p - b \in 1..argc
      BY <1>2, <1>4, <2>1, <2>3
    <3>2. args[p - b] \in Range(args) /\ args[p - b] \in {Null} \cup Object
      BY <3>1 DEF Range
    <3>3. args[p - b] \in Object => args[p - b] \in Allocated(kind')
      BY <1>2, <3>2 DEF Allocated
    <3> QED BY <3>1, <3>2, <3>3, SlotsAssumption
  <2>4. CASE ~(p <= b + argc)
    BY <1>2, <1>4, <2>1, <2>4, SlotsAssumption
  <2> QED BY <1>4, <2>1, <2>2, <2>3, <2>4
<1>9. \A p \in 0..(sp' - 1) : stack'[p] # Freed
  BY <1>4, <1>6, <1>7, <1>8
<1>10. sp' - 1 \in DOMAIN stack'
  BY <1>4, <1>7
<1>11. /\ em \in [Object -> Seq(Object)] /\ handles \in Seq(Object)
       /\ \A o \in Object : Range(em[o]) \subseteq Allocated(kind')
       /\ Range(handles) \subseteq Allocated(kind')
  BY <1>3, <1>5 DEF HeapOk
<1>12. HeapOk(stack', sp', kind', em, handles)
  BY <1>5, <1>6, <1>8, <1>9, <1>10, <1>11 DEF HeapOk
<1>13. running' = TRUE /\ UNCHANGED <<error, handles>> /\ elements' = em
  BY <1>2 DEF Call, em
<1>14. running' \in BOOLEAN /\ error' \in BOOLEAN
  BY <1>13 DEF HeapInv
<1>15. HeapOk(stack', sp', kind', elements', handles')
  BY <1>12, <1>13
<1> QED BY <1>4, <1>7, <1>14, <1>15 DEF HeapInv

LEMMA ReturnKeeps == HeapInv /\ Return => HeapInv'
<1> SUFFICES ASSUME HeapInv, Return PROVE HeapInv'
  OBVIOUS
<1>1. ret \in Nat /\ sp \in Nat /\ ret < sp /\ HeapOk(stack, sp, kind, elements, handles)
  BY DEF HeapInv
<1>2. sp' = ret + 1 /\ ret' = ret /\ sp' \in Nat /\ ret' < sp' /\ sp' <= sp
  BY <1>1 DEF Return
<1>3. 0..(sp' - 1) \subseteq 0..(sp - 1)
  BY <1>1, <1>2
<1>4. sp' - 1 \in DOMAIN stack
  <2>1. Size(stack) \in Nat /\ DOMAIN stack = 0..(Size(stack) - 1) /\ sp - 1 \in DOMAIN stack
    BY <1>1, StackSize DEF HeapOk
  <2> QED BY <1>1, <1>2, <2>1
<1>5. HeapOk(stack, sp', kind, elements, handles)
  BY <1>1, <1>3, <1>4 DEF HeapOk
<1>6. running' = FALSE /\ UNCHANGED <<stack, error, heap>>
  BY DEF Return
<1> QED BY <1>2, <1>5, <1>6 DEF HeapInv, heap

LEMMA FailKeeps == HeapInv /\ Fail => HeapInv'
<1> SUFFICES ASSUME HeapInv, Fail PROVE HeapInv'
  OBVIOUS
<1>1. IsStack(NewStack) /\ 1 - 1 \in DOMAIN NewStack
  BY SlotsAssumption DEF NewStack, IsStack
<1>2. \A p \in DOMAIN NewStack : NewStack[p] \notin Object
  BY SlotsAssumption DEF NewStack
<1>3. \A p \in 0..(1 - 1) : NewStack[p] # Freed
  BY SlotsAssumption DEF NewStack
<1>4. HeapOk(NewStack, 1, kind, elements, handles)
  BY <1>1, <1>2, <1>3 DEF HeapInv, HeapOk
<1>5. stack' = NewStack /\ sp' = 1 /\ ret' = 0 /\ error' = FALSE /\ running' = FALSE /\ UNCHANGED heap
  BY DEF Fail
<1>6. ret' \in Nat /\ sp' \in Nat /\ ret' < sp'
  BY <1>5
<1> QED BY <1>4, <1>5, <1>6 DEF HeapInv, heap

LEMMA HeapStep ==
  ASSUME HeapInv, BooksInv, [Next]_vars
  PROVE  HeapInv'
<1>1. CASE UNCHANGED vars
  BY <1>1, HeapKept DEF vars, Unreserved
<1>2. ASSUME NEW n \in 1..MaxSlots, Reserve(n) \/ AllocSlot(n)
      PROVE  HeapInv'
  <2>1. n \in Nat /\ slot_next + n + Extra \in Nat
    BY SlotsAssumption DEF BooksInv
  <2>2. ReservedTo(n) \/ ReservedTo(slot_next + n + Extra) \/ Unreserved
    BY <1>2 DEF Reserve, AllocSlot
  <2> QED BY <2>1, <2>2, ReserveKeeps, HeapKept
<1>3. ASSUME NEW t \in BOOLEAN, NextSlot(t)
      PROVE  HeapInv'
  <2>1. slot_next + Extra \in Nat
    BY SlotsAssumption DEF BooksInv
  <2>2. ReservedTo(slot_next + Extra) \/ Unreserved
    BY <1>3 DEF NextSlot
  <2> QED BY <2>1, <2>2, ReserveKeeps, HeapKept
<1>4. ASSUME NEW i \in Places, NEW n \in 1..2, FreeSlot(i, n)
      PROVE  HeapInv'
  BY <1>4, HeapKept DEF FreeSlot
<1>5. ASSUME NEW i \in Places, SetSlot(i) \/ GetSlotHandle(i) \/ \E k \in {"list", "map"} : New(i, k)
      PROVE  HeapInv'
  BY <1>5, SetSlotKeeps, GetSlotHandleKeeps, NewKeeps
<1>6. ASSUME NEW i \in Places, NEW h \in 1..MaxHandles, SetSlotHandle(i, h)
      PROVE  HeapInv'
  BY <1>6, SetSlotHandleKeeps
<1>7. ASSUME NEW h \in 1..MaxHandles, ReleaseHandle(h)
      PROVE  HeapInv'
  BY <1>7, ReleaseHandleKeeps
<1>8. ASSUME NEW c \in Places, NEW v \in Places, NEW k, NEW at \in Int, Insert(c, v, k, at)
      PROVE  HeapInv'
  BY <1>8, InsertStepKeeps
<1>9. ASSUME NEW c \in Places, NEW p \in {-1, 0}, ListPop(c, -1, p)
      PROVE  HeapInv'
  BY <1>9, ListPopKeeps
<1>10. ASSUME NEW i \in {-1} \cup Places, CallFunction(i)
       PROVE  HeapInv'
  BY <1>10, CallFunctionKeeps
<1>11. ASSUME NEW b \in Bottom, NEW argc \in 0..MaxArgs, Call(b, argc)
       PROVE  HeapInv'
  BY <1>11, CallKeeps
<1>12. ASSUME NEW at \in {-1, 0} PROVE at \in Int
  OBVIOUS
<1> QED BY <1>1, <1>2, <1>3, <1>4, <1>5, <1>6, <1>7, <1>8, <1>9, <1>10, <1>11, <1>12, ReturnKeeps, FailKeeps
        DEF Next, Step, ListInsert, MapSet

\* The stack below its top, lists and maps, and handles hold only what is there.
THEOREM HeapCorrect == Spec => []HeapInv
<1>1. Init => HeapInv
  BY HeapInit
<1>2. HeapInv /\ BooksInv /\ [Next]_vars => HeapInv'
  BY HeapStep
<1> QED BY <1>1, <1>2, BooksCorrect, PTL DEF Spec

\* No collection, whichever call it happens in, takes the return value or an
\* argument of the native that runs, a value in a list or a map, or what a
\* handle holds (vmCollectGarbage marks up to fiber->sp, vm->handles, and what
\* is pushed on vm->temp_reference meanwhile).
THEOREM KeptBelowCorrect == Spec => []KeptBelow
<1>1. HeapInv => KeptBelow
  <2> SUFFICES ASSUME HeapInv PROVE KeptBelow
    OBVIOUS
  <2>1. \A h \in DOMAIN handles : handles[h] \in Range(handles)
    BY DEF Range
  <2> QED BY <2>1 DEF KeptBelow, HeapInv, HeapOk, Allocated
<1> QED BY <1>1, HeapCorrect, PTL

-----------------------------------------------------------------------------
(* A new slot lies in the stack *)

LEMMA RoomFor ==
  ASSUME HeapInv, BooksInv, NEW n \in Nat, NEW m \in Nat, m >= slot_next + n,
         slot_next' = slot_next + n,
         ReservedTo(m) \/ (Unreserved /\ slot_next + n <= SlotsCount)
  PROVE  error' \/ \A i \in slot_next..(slot_next' - 1) : ret + i \in DOMAIN stack'
<1>1. slot_next \in Nat /\ ret \in Nat /\ IsStack(stack)
  BY DEF BooksInv, HeapInv, HeapOk
<1>2. Size(stack) \in Nat /\ DOMAIN stack = 0..(Size(stack) - 1)
  BY <1>1, StackSize
<1>3. CASE Unreserved /\ slot_next + n <= SlotsCount
  <2>1. stack' = stack /\ slot_next + n <= Size(stack) - ret
    BY <1>3 DEF Unreserved, stacks, SlotsCount
  <2> QED BY <1>1, <1>2, <2>1
<1>4. CASE ReservedTo(m)
  <2>1. CASE ret + m >= StackLimit
    BY <1>4, <2>1 DEF ReservedTo
  <2>2. CASE ~(ret + m >= StackLimit)
    <3>1. 0..(ret + m - 1) \subseteq DOMAIN Grown(stack, m)
      BY <1>1, <2>2, GrownStack
    <3>2. DOMAIN stack' = DOMAIN Grown(stack, m)
      BY <1>4, SweptDomain DEF ReservedTo
    <3>3. \A i \in slot_next..(slot_next' - 1) : ret + i \in 0..(ret + m - 1)
      BY <1>1
    <3> QED BY <3>1, <3>2, <3>3
  <2> QED BY <2>1, <2>2
<1> QED BY <1>3, <1>4

\* A slot that no native had before lies in the stack once it is handed out,
\* however the stack had to grow for it, or the native has its error
\* (AllocSlot, NextSlot, vmEnsureStackSize, utilPowerOf2Ceil).
THEOREM FreshInStackCorrect == Spec => FreshInStack
<1> DEFINE Fresh == slot_next' > slot_next => error' \/ \A i \in slot_next..(slot_next' - 1) : ret + i \in DOMAIN stack'
<1>1. ASSUME HeapInv, BooksInv, Next PROVE Fresh
  <2>0. slot_next \in Nat /\ Extra \in Nat
    BY <1>1, SlotsAssumption DEF BooksInv
  <2>1. ASSUME NEW n \in 1..MaxSlots, AllocSlot(n) PROVE Fresh
    <3>1. n \in Nat /\ slot_next + n + Extra \in Nat /\ slot_next + n + Extra >= slot_next + n
      BY <2>0, SlotsAssumption
    <3>2. SlotsCount \in Int
      BY <1>1, StackSize DEF HeapInv, HeapOk, SlotsCount
    <3>3. ReservedTo(slot_next + n + Extra) \/ (Unreserved /\ slot_next + n <= SlotsCount)
      BY <2>0, <2>1, <3>1, <3>2 DEF AllocSlot
    <3>4. slot_next' = slot_next + n
      BY <2>1 DEF AllocSlot
    <3> QED BY <1>1, <2>0, <3>1, <3>3, <3>4, RoomFor
  <2>2. ASSUME NEW t \in BOOLEAN, NextSlot(t) PROVE Fresh
    <3>1. CASE UNCHANGED slot_next
      BY <2>0, <3>1
    <3>2. CASE slot_next' = slot_next + 1 /\ IF slot_next >= SlotsCount THEN ReservedTo(slot_next + Extra) ELSE Unreserved
      <4>1. slot_next + Extra \in Nat /\ slot_next + Extra >= slot_next + 1
        BY <2>0, SlotsAssumption
      <4>2. SlotsCount \in Int
        BY <1>1, StackSize DEF HeapInv, HeapOk, SlotsCount
      <4>3. ReservedTo(slot_next + Extra) \/ (Unreserved /\ slot_next + 1 <= SlotsCount)
        BY <2>0, <3>2, <4>2
      <4> QED BY <1>1, <2>0, <3>2, <4>1, <4>3, RoomFor
    <3> QED BY <2>2, <3>1, <3>2 DEF NextSlot
  <2>3. CASE slot_next' = slot_next
    BY <2>0, <2>3
  <2>4. CASE slot_next' = 1
    BY <2>0, <2>4, <1>1 DEF BooksInv
  <2>5. ASSUME NEW c, NEW v, NEW k, NEW at, Insert(c, v, k, at) PROVE Fresh
    BY <2>3, <2>5 DEF Insert, Same, books
  <2>6. ASSUME NEW c, NEW at, NEW q, ListPop(c, at, q) PROVE Fresh
    BY <2>3, <2>6 DEF ListPop, Same, books
  <2>7. ASSUME NEW i, SetSlot(i) \/ GetSlotHandle(i) \/ CallFunction(i) \/ \E k \in {"list", "map"} : New(i, k)
        PROVE  Fresh
    BY <2>3, <2>7 DEF SetSlot, GetSlotHandle, CallFunction, New, Same, books
  <2>8. ASSUME NEW i, NEW h, SetSlotHandle(i, h) \/ ReleaseHandle(h) PROVE Fresh
    BY <2>3, <2>8 DEF SetSlotHandle, ReleaseHandle, Same, books
  <2>9. ASSUME NEW n, Reserve(n) PROVE Fresh
    BY <2>3, <2>9 DEF Reserve
  <2>10. ASSUME NEW i, NEW n, FreeSlot(i, n) PROVE Fresh
    BY <2>3, <2>10 DEF FreeSlot
  <2>11. ASSUME NEW b, NEW argc, Call(b, argc) PROVE Fresh
    BY <2>3, <2>11 DEF Call, books
  <2>12. CASE Return
    BY <2>3, <2>12 DEF Return
  <2>13. CASE Fail
    BY <2>4, <2>13 DEF Fail
  <2> HIDE DEF Fresh
  <2> QED BY <1>1, <2>1, <2>2, <2>5, <2>6, <2>7, <2>8, <2>9, <2>10, <2>11, <2>12, <2>13
          DEF Next, Step, MapSet, ListInsert
<1>2. HeapInv /\ BooksInv /\ [Next]_vars => [Fresh]_vars
  BY <1>1
<1> QED BY <1>2, HeapCorrect, BooksCorrect, PTL DEF Spec, FreshInStack

=============================================================================
