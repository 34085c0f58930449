--------------------------- MODULE UpvaluesProofs ---------------------------
(***************************************************************************)
(* Theorems about Upvalues, for any closures, upvalues, values and stack.  *)
(* UpvalueInv is inductive; OpenAreLocals needs it, and no tail calls.     *)
(***************************************************************************)
EXTENDS UpvaluesRefinement, SequenceTheorems, TLAPS

-----------------------------------------------------------------------------
(* Lemmas about sequences *)

\* Comparing lengths, for the steps that split on them.
LEMMA Compare ==
  /\ \A n \in Nat : n >= 1 => n = 1 \/ n > 1
  /\ \A m, n \in Nat : m <= n => m = n \/ m < n
  /\ \A n \in Nat : n > 1 => n # 1
  OBVIOUS

\* A suffix of a sequence.
LEMMA Suffix ==
  ASSUME NEW S, NEW s \in Seq(S), NEW n \in 0..Len(s)
  PROVE  /\ SubSeq(s, n + 1, Len(s)) \in Seq(S)
         /\ Len(SubSeq(s, n + 1, Len(s))) = Len(s) - n
         /\ DOMAIN SubSeq(s, n + 1, Len(s)) = 1..(Len(s) - n)
         /\ \A k \in 1..(Len(s) - n) : SubSeq(s, n + 1, Len(s))[k] = s[k + n]
  OBVIOUS

\* A sequence without its last element.
LEMMA Front ==
  ASSUME NEW S, NEW s \in Seq(S), s # <<>>
  PROVE  /\ Len(s) \in Nat /\ Len(s) >= 1
         /\ DOMAIN s = 1..Len(s)
         /\ s[Len(s)] \in S
         /\ SubSeq(s, 1, Len(s) - 1) \in Seq(S)
         /\ DOMAIN SubSeq(s, 1, Len(s) - 1) = 1..(Len(s) - 1)
         /\ \A i \in 1..(Len(s) - 1) : SubSeq(s, 1, Len(s) - 1)[i] = s[i]
<1>1. Len(s) \in Nat /\ Len(s) >= 1 /\ DOMAIN s = 1..Len(s) /\ \A i \in 1..Len(s) : s[i] \in S
  BY EmptySeq, LenProperties, ElementOfSeq
<1>2. ASSUME NEW n \in 0..Len(s)
      PROVE  /\ SubSeq(s, 1, n) \in Seq(S)
             /\ DOMAIN SubSeq(s, 1, n) = 1..n
             /\ \A i \in 1..n : SubSeq(s, 1, n)[i] = s[i]
  OBVIOUS
<1> QED
  BY <1>1, <1>2

\* An element inserted behind the first n.
Inserted(s, n, a) == SubSeq(s, 1, n) \o <<a>> \o SubSeq(s, n + 1, Len(s))

LEMMA Insert ==
  ASSUME NEW S, NEW s \in Seq(S), NEW n \in 0..Len(s), NEW a \in S
  PROVE  /\ Inserted(s, n, a) \in Seq(S)
         /\ DOMAIN Inserted(s, n, a) = 1..(Len(s) + 1)
         /\ \A k \in 1..n : Inserted(s, n, a)[k] = s[k]
         /\ Inserted(s, n, a)[n + 1] = a
         /\ \A k \in (n + 2)..(Len(s) + 1) : Inserted(s, n, a)[k] = s[k - 1]
<1> DEFINE x == SubSeq(s, 1, n)
           y == SubSeq(s, n + 1, Len(s))
<1>1. /\ x \in Seq(S)
      /\ Len(x) = n
      /\ \A k \in 1..n : x[k] = s[k]
  OBVIOUS
<1>2. /\ y \in Seq(S)
      /\ Len(y) = Len(s) - n
      /\ \A k \in 1..(Len(s) - n) : y[k] = s[k + n]
  BY Suffix
<1>3. Len(s) \in Nat /\ n \in Nat
  OBVIOUS
<1> HIDE DEF x, y
<1>4. DEFINE z == x \o <<a>>
<1>5. /\ z \in Seq(S)
      /\ Len(z) = n + 1
      /\ \A k \in 1..n : z[k] = s[k]
      /\ z[n + 1] = a
  BY <1>1, <1>3
<1> HIDE DEF z
<1>6. /\ z \o y \in Seq(S)
      /\ Len(z \o y) = Len(s) + 1
      /\ \A k \in 1..(n + 1) : (z \o y)[k] = z[k]
      /\ \A k \in (n + 2)..(Len(s) + 1) : (z \o y)[k] = y[k - (n + 1)]
  <2>1. /\ z \o y \in Seq(S)
        /\ Len(z \o y) = Len(z) + Len(y)
        /\ \A k \in 1..(Len(z) + Len(y)) :
             (z \o y)[k] = IF k <= Len(z) THEN z[k] ELSE y[k - Len(z)]
    BY <1>2, <1>5, ConcatProperties
  <2>2. Len(z) + Len(y) = Len(s) + 1
    BY <1>2, <1>3, <1>5
  <2> QED
    BY <1>3, <1>5, <2>1, <2>2
<1>7. Inserted(s, n, a) = z \o y
  BY DEF Inserted, x, y, z
<1>8. \A k \in (n + 2)..(Len(s) + 1) : y[k - (n + 1)] = s[k - 1]
  BY <1>2, <1>3
<1>9. DOMAIN (z \o y) = 1..(Len(s) + 1)
  BY <1>6, LenProperties
<1>10. \A k \in 1..n : k \in 1..(n + 1)
  BY <1>3
<1>11. n + 1 \in 1..(n + 1)
  BY <1>3
<1> QED
  BY <1>5, <1>6, <1>7, <1>8, <1>9, <1>10, <1>11

-----------------------------------------------------------------------------
(* Lemmas about the list of open upvalues *)

\* The list o is strictly sorted by the slots p, and none of it is closed.
Ordered(o, p) ==
  /\ \A j, k \in DOMAIN o : j < k => p[o[j]] > p[o[k]]
  /\ \A k \in DOMAIN o : p[o[k]] # 0

\* What closeUpvalues leaves: the part of the list below top, still in order.
LEMMA CloseEffect ==
  ASSUME TypeOK, Ordered(open, ptr), NEW top \in Nat, CloseUpvalues(top)
  PROVE  /\ open' \in Seq(Upvalue)
         /\ ptr' \in [Upvalue -> 0..MaxSlots]
         /\ closed' \in [Upvalue -> Value]
         /\ \A j, k \in DOMAIN open' : j < k => ptr'[open'[j]] > ptr'[open'[k]]
         /\ \A k \in DOMAIN open' : /\ ptr'[open'[k]] # 0
                                    /\ ptr'[open'[k]] < top
                                    /\ ptr'[open'[k]] = ptr[open'[k]]
                                    /\ open'[k] \in OnList
         /\ \A u \in Upvalue : ptr'[u] # 0 =>
              /\ ptr[u] # 0
              /\ u \in OnList => \E k \in DOMAIN open' : open'[k] = u
<1>0. MaxSlots \in Nat \ {0} /\ Slot = 1..MaxSlots
  BY UpvalueAssumption DEF UpvalueAssumption, Slot
<1>1. PICK n \in 0..Len(open) :
        /\ \A k \in 1..n : ptr[open[k]] >= top
        /\ n < Len(open) => ptr[open[n + 1]] < top
        /\ ptr' = [u \in Upvalue |-> IF u \in {open[k] : k \in 1..n} THEN 0 ELSE ptr[u]]
        /\ closed' = [u \in Upvalue |-> IF u \in {open[k] : k \in 1..n}
                                          THEN Deref(u) ELSE closed[u]]
        /\ open' = SubSeq(open, n + 1, Len(open))
  BY DEF CloseUpvalues
<1>2. /\ open \in Seq(Upvalue)
      /\ Len(open) \in Nat
      /\ DOMAIN open = 1..Len(open)
      /\ \A k \in 1..Len(open) : open[k] \in Upvalue
  BY DEF TypeOK
<1>3. /\ open' \in Seq(Upvalue)
      /\ DOMAIN open' = 1..(Len(open) - n)
      /\ \A k \in 1..(Len(open) - n) : open'[k] = open[k + n]
  BY <1>1, <1>2, Suffix
<1>4. ptr' \in [Upvalue -> 0..MaxSlots]
  BY <1>0, <1>1 DEF TypeOK
<1>5. closed' \in [Upvalue -> Value]
  <2>1. \A u \in Upvalue : Deref(u) \in Value
    BY <1>0 DEF Deref, TypeOK
  <2> QED
    BY <1>1, <2>1 DEF TypeOK
<1>6. \A k \in 1..Len(open) : ptr[open[k]] \in Nat
  BY <1>0, <1>2 DEF TypeOK
<1>7. ASSUME NEW k \in 1..(Len(open) - n)
      PROVE  /\ k + n \in DOMAIN open
             /\ open'[k] = open[k + n]
             /\ ptr'[open'[k]] = ptr[open[k + n]]
             /\ ptr[open[k + n]] < top
             /\ ptr[open[k + n]] # 0
             /\ open[k + n] \in OnList
  <2>1. k + n \in 1..Len(open) /\ n + 1 \in 1..Len(open) /\ n < Len(open)
    BY <1>2
  <2>2. open[k + n] \notin {open[j] : j \in 1..n}
    <3>1. SUFFICES ASSUME NEW j \in 1..n, open[j] = open[k + n] PROVE FALSE
      OBVIOUS
    <3>2. j \in 1..Len(open) /\ j < k + n
      BY <1>2
    <3>3. ptr[open[j]] > ptr[open[k + n]]
      BY <1>2, <2>1, <3>2 DEF Ordered
    <3> QED
      BY <1>6, <2>1, <3>1, <3>3
  <2>3. ptr[open[k + n]] <= ptr[open[n + 1]]
    <3>1. CASE k = 1
      BY <1>6, <2>1, <3>1
    <3>2. CASE k # 1
      <4>1. n + 1 < k + n
        BY <3>2
      <4>2. ptr[open[n + 1]] > ptr[open[k + n]]
        BY <1>2, <2>1, <4>1 DEF Ordered
      <4> QED
        BY <1>6, <2>1, <4>2
    <3> QED
      BY <3>1, <3>2
  <2>4. ptr[open[k + n]] < top
    BY <1>1, <1>6, <2>1, <2>3
  <2>5. open[k + n] \in Upvalue
    BY <1>2, <2>1
  <2>6. ptr'[open[k + n]] = ptr[open[k + n]]
    BY <1>1, <2>2, <2>5
  <2> QED
    <3>1. k + n \in DOMAIN open /\ open'[k] = open[k + n] /\ open[k + n] \in OnList
      BY <1>2, <1>3, <2>1 DEF OnList
    <3>2. ptr[open[k + n]] # 0
      BY <3>1 DEF Ordered
    <3> QED
      BY <2>4, <2>6, <3>1, <3>2
<1>8. ASSUME NEW j \in 1..(Len(open) - n), NEW k \in 1..(Len(open) - n), j < k
      PROVE  ptr'[open'[j]] > ptr'[open'[k]]
  <2>1. j + n < k + n
    BY <1>2, <1>8
  <2>2. j + n \in DOMAIN open /\ k + n \in DOMAIN open
    BY <1>7
  <2>3. ptr[open[j + n]] > ptr[open[k + n]]
    BY <2>1, <2>2 DEF Ordered
  <2> QED
    BY <1>7, <2>3
<1>9. ASSUME NEW u \in Upvalue, ptr'[u] # 0
      PROVE  /\ ptr[u] # 0
             /\ u \in OnList => \E k \in 1..(Len(open) - n) : open'[k] = u
  <2>1. u \notin {open[k] : k \in 1..n} /\ ptr[u] # 0
    BY <1>1, <1>9
  <2>2. ASSUME u \in OnList
        PROVE  \E k \in 1..(Len(open) - n) : open'[k] = u
    <3>1. PICK j \in 1..Len(open) : open[j] = u
      BY <1>2, <2>2 DEF OnList
    <3>2. j \notin 1..n
      BY <2>1, <3>1
    <3>3. j - n \in 1..(Len(open) - n) /\ (j - n) + n = j
      BY <1>2, <3>2
    <3> QED
      BY <1>3, <3>1, <3>3
  <2> QED
    BY <2>1, <2>2
<1>10. \A k \in 1..(Len(open) - n) : /\ ptr'[open'[k]] # 0
                                       /\ ptr'[open'[k]] < top
                                       /\ ptr'[open'[k]] = ptr[open'[k]]
                                       /\ open'[k] \in OnList
  BY <1>7
<1> QED
  BY <1>3, <1>4, <1>5, <1>8, <1>9, <1>10

\* What captureUpvalue leaves: the list with u on it, at slot i, in order.
LEMMA CaptureEffect ==
  ASSUME TypeOK, Ordered(open, ptr), OnList \subseteq alloc,
         NEW i \in Slot, NEW u \in Upvalue, CaptureUpvalue(i, u)
  PROVE  /\ open' \in Seq(Upvalue)
         /\ ptr' \in [Upvalue -> 0..MaxSlots]
         /\ closed' \in [Upvalue -> Value]
         /\ alloc' \subseteq Upvalue
         /\ \A j, k \in DOMAIN open' : j < k => ptr'[open'[j]] > ptr'[open'[k]]
         /\ \A k \in DOMAIN open' : /\ ptr'[open'[k]] # 0
                                    /\ open'[k] = u \/ open'[k] \in OnList
         /\ \A w \in OnList \cup {u} : \E k \in DOMAIN open' : open'[k] = w
         /\ ptr'[u] = i
         /\ u \in alloc => u \in OnList
         /\ \A w \in Upvalue : w # u => ptr'[w] = ptr[w]
<1>0. MaxSlots \in Nat \ {0} /\ Slot = 1..MaxSlots /\ Null \in Value
  BY UpvalueAssumption DEF UpvalueAssumption, Slot
<1>2. /\ open \in Seq(Upvalue)
      /\ Len(open) \in Nat
      /\ DOMAIN open = 1..Len(open)
      /\ \A k \in 1..Len(open) : open[k] \in Upvalue /\ ptr[open[k]] \in Nat
  BY <1>0 DEF TypeOK
<1>3. CASE u \in OnList /\ ptr[u] = i /\ UNCHANGED <<open, alloc, ptr, closed>>
  <2>1. \A w \in OnList : \E k \in DOMAIN open : open[k] = w
    BY DEF OnList
  <2>2. \A k \in DOMAIN open : open[k] \in OnList
    BY DEF OnList
  <2>3. open' = open /\ ptr' = ptr /\ closed' = closed /\ alloc' = alloc
    BY <1>3
  <2>4. /\ open \in Seq(Upvalue)
        /\ ptr \in [Upvalue -> 0..MaxSlots]
        /\ closed \in [Upvalue -> Value]
        /\ alloc \subseteq Upvalue
    BY DEF TypeOK
  <2>5. \A w \in OnList \cup {u} : \E k \in DOMAIN open : open[k] = w
    BY <1>3, <2>1
  <2> QED
    BY <1>3, <2>2, <2>3, <2>4, <2>5 DEF Ordered
<1>4. CASE /\ \A w \in OnList : ptr[w] # i
           /\ u \notin alloc
           /\ ptr' = [ptr EXCEPT ![u] = i]
           /\ closed' = [closed EXCEPT ![u] = Null]
           /\ alloc' = alloc \cup {u}
           /\ InsertSorted(i, u)
  <2>1. PICK n \in 0..Len(open) :
          /\ n > 0 => ptr[open[n]] > i
          /\ n < Len(open) => ptr[open[n + 1]] < i
          /\ open' = SubSeq(open, 1, n) \o <<u>> \o SubSeq(open, n + 1, Len(open))
    BY <1>4 DEF InsertSorted
  <2>2. /\ open' \in Seq(Upvalue)
        /\ DOMAIN open' = 1..(Len(open) + 1)
        /\ \A k \in 1..n : open'[k] = open[k]
        /\ open'[n + 1] = u
        /\ \A k \in (n + 2)..(Len(open) + 1) : open'[k] = open[k - 1]
    <3>1. open \in Seq(Upvalue) /\ n \in 0..Len(open) /\ u \in Upvalue
      BY <1>2
    <3>2. ASSUME NEW s \in Seq(Upvalue), NEW m \in 0..Len(s), NEW t,
                 t = SubSeq(s, 1, m) \o <<u>> \o SubSeq(s, m + 1, Len(s))
          PROVE  /\ t \in Seq(Upvalue)
                 /\ DOMAIN t = 1..(Len(s) + 1)
                 /\ \A k \in 1..m : t[k] = s[k]
                 /\ t[m + 1] = u
                 /\ \A k \in (m + 2)..(Len(s) + 1) : t[k] = s[k - 1]
      <4>1. t = Inserted(s, m, u)
        BY <3>2 DEF Inserted
      <4>2. t \in Seq(Upvalue) /\ DOMAIN t = 1..(Len(s) + 1)
        BY <4>1, Insert
      <4>3. (\A k \in 1..m : t[k] = s[k]) /\ t[m + 1] = u
        BY <4>1, Insert
      <4>4. \A k \in (m + 2)..(Len(s) + 1) : t[k] = s[k - 1]
        BY <4>1, Insert
      <4> QED
        BY <4>2, <4>3, <4>4
    <3> QED
      BY <2>1, <3>1, <3>2, Zenon
  <2>3. /\ ptr' \in [Upvalue -> 0..MaxSlots]
        /\ closed' \in [Upvalue -> Value]
        /\ alloc' \subseteq Upvalue
        /\ ptr'[u] = i
        /\ \A w \in Upvalue : w # u => ptr'[w] = ptr[w]
    BY <1>0, <1>4 DEF TypeOK
  <2>4. \A k \in 1..Len(open) : open[k] # u /\ ptr'[open[k]] = ptr[open[k]]
    BY <1>2, <1>4, <2>3 DEF OnList
  <2>5. \A k \in 1..n : ptr[open[k]] > i
    <3>1. SUFFICES ASSUME NEW k \in 1..n PROVE ptr[open[k]] > i
      OBVIOUS
    <3>2. k \in 1..Len(open) /\ n \in 1..Len(open) /\ n > 0
      BY <1>2
    <3>3. ptr[open[k]] >= ptr[open[n]]
      BY <1>2, <3>2 DEF Ordered
    <3> QED
      BY <1>0, <1>2, <2>1, <3>2, <3>3
  <2>6. \A k \in (n + 1)..Len(open) : ptr[open[k]] < i
    <3>1. SUFFICES ASSUME NEW k \in (n + 1)..Len(open) PROVE ptr[open[k]] < i
      OBVIOUS
    <3>2. k \in 1..Len(open) /\ n + 1 \in 1..Len(open) /\ n < Len(open)
      BY <1>2
    <3>3. ptr[open[k]] <= ptr[open[n + 1]]
      BY <1>2, <3>2 DEF Ordered
    <3> QED
      BY <1>0, <1>2, <2>1, <3>2, <3>3
  <2>7. ASSUME NEW k \in 1..(Len(open) + 1)
        PROVE  \/ k \in 1..n /\ k \in 1..Len(open) /\ open'[k] = open[k]
                  /\ ptr'[open'[k]] = ptr[open[k]] /\ ptr[open[k]] > i
               \/ k = n + 1 /\ open'[k] = u /\ ptr'[open'[k]] = i
               \/ k > n + 1 /\ k - 1 \in 1..Len(open) /\ open'[k] = open[k - 1]
                  /\ ptr'[open'[k]] = ptr[open[k - 1]] /\ ptr[open[k - 1]] < i
    <3>1. CASE k \in 1..n
      BY <1>2, <2>2, <2>4, <2>5, <3>1
    <3>2. CASE k = n + 1
      BY <2>2, <2>3, <3>2
    <3>3. CASE k \in (n + 2)..(Len(open) + 1)
      <4>1. k - 1 \in (n + 1)..Len(open) /\ k - 1 \in 1..Len(open) /\ k > n + 1
        BY <1>2, <3>3
      <4> QED
        BY <2>2, <2>4, <2>6, <3>3, <4>1
    <3> QED
      BY <1>2, <3>1, <3>2, <3>3
  <2>8. ASSUME NEW j \in 1..(Len(open) + 1), NEW k \in 1..(Len(open) + 1), j < k
        PROVE  ptr'[open'[j]] > ptr'[open'[k]]
    <3>1. \A a, b \in 1..Len(open) : a < b => ptr[open[a]] > ptr[open[b]]
      BY <1>2 DEF Ordered
    <3>2. CASE j \in 1..n
      <4>1. ptr'[open'[j]] = ptr[open[j]] /\ ptr[open[j]] > i /\ j \in 1..Len(open)
        BY <1>2, <2>7, <3>2
      <4>2. CASE k \in 1..n
        <5>1. ptr'[open'[k]] = ptr[open[k]] /\ k \in 1..Len(open)
          BY <1>2, <2>7, <4>2
        <5> QED
          BY <2>8, <3>1, <4>1, <5>1
      <4>3. CASE k \notin 1..n
        <5>1. PICK x \in Nat : ptr'[open'[k]] = x /\ x <= i
          BY <1>0, <1>2, <2>7, <4>3
        <5> QED
          BY <1>0, <1>2, <4>1, <5>1
      <4> QED
        BY <4>2, <4>3
    <3>3. CASE j = n + 1
      <4>1. k > n + 1
        BY <1>2, <2>8, <3>3
      <4>2. ptr'[open'[k]] = ptr[open[k - 1]] /\ ptr[open[k - 1]] < i
        BY <1>2, <2>7, <4>1
      <4>3. ptr'[open'[j]] = i /\ k - 1 \in 1..Len(open)
        BY <1>2, <2>2, <2>3, <3>3, <4>1
      <4> QED
        BY <1>0, <1>2, <4>2, <4>3
    <3>4. CASE j > n + 1
      <4>1. k > n + 1 /\ j - 1 < k - 1
        BY <1>2, <2>8, <3>4
      <4> QED
        BY <1>2, <2>7, <3>1, <3>4, <4>1
    <3> QED
      BY <1>2, <3>2, <3>3, <3>4
  <2>9. \A k \in 1..(Len(open) + 1) : ptr'[open'[k]] # 0
                                      /\ (open'[k] = u \/ open'[k] \in OnList)
    <3>1. \A k \in 1..Len(open) : ptr[open[k]] # 0 /\ open[k] \in OnList
      BY <1>2 DEF Ordered, OnList
    <3> QED
      BY <1>0, <2>7, <3>1
  <2>10. ASSUME NEW w \in OnList \cup {u}
         PROVE  \E k \in 1..(Len(open) + 1) : open'[k] = w
    <3>1. CASE w = u
      <4>1. n + 1 \in 1..(Len(open) + 1)
        BY <1>2
      <4> QED
        BY <2>2, <3>1, <4>1
    <3>2. CASE w \in OnList
      <4>1. PICK k \in 1..Len(open) : open[k] = w
        BY <1>2, <3>2 DEF OnList
      <4>2. CASE k \in 1..n
        BY <1>2, <2>2, <4>1, <4>2
      <4>3. CASE k \notin 1..n
        <5>1. k + 1 \in (n + 2)..(Len(open) + 1) /\ k + 1 \in 1..(Len(open) + 1)
          BY <1>2, <4>3
        <5>2. (k + 1) - 1 = k
          OBVIOUS
        <5> QED
          BY <2>2, <4>1, <5>1, <5>2
      <4> QED
        BY <4>2, <4>3
    <3> QED
      BY <3>1, <3>2
  <2> QED
    BY <1>4, <2>2, <2>3, <2>8, <2>9, <2>10
<1> QED
  BY <1>3, <1>4 DEF CaptureUpvalue

-----------------------------------------------------------------------------
(* Lemmas about frames and about what the actions have in common *)

LEMMA Constants == MaxSlots \in Nat \ {0} /\ Slot = 1..MaxSlots /\ Null \in Value
  BY UpvalueAssumption DEF UpvalueAssumption, Slot

\* The running frame.
LEMMA FrameTop ==
  ASSUME TypeOK, FramesNested, fiber = "running"
  PROVE  /\ Len(frames) \in Nat /\ Len(frames) >= 1
         /\ DOMAIN frames = 1..Len(frames)
         /\ rbp \in Slot
         /\ rbp <= sp
         /\ \A k \in 1..Len(frames) : frames[k] \in Slot /\ frames[k] <= sp
         /\ \A k \in 1..(Len(frames) - 1) : frames[k] < rbp
         /\ \A k \in 1..Len(frames) : frames[k] <= rbp
<1>1. frames \in Seq(Slot) /\ frames # <<>>
  BY DEF TypeOK, FramesNested
<1>2. /\ Len(frames) \in Nat /\ Len(frames) >= 1
      /\ DOMAIN frames = 1..Len(frames)
      /\ rbp \in Slot
  BY <1>1, Front DEF rbp
<1>3. \A k \in 1..Len(frames) : frames[k] \in Slot
  BY <1>1
<1>4. \A k \in 1..(Len(frames) - 1) : frames[k] < rbp
  BY <1>2 DEF FramesNested, rbp
<1>5. \A k \in 1..Len(frames) : frames[k] <= sp
  BY <1>2 DEF FramesNested
<1>6. \A k \in 1..Len(frames) : frames[k] <= rbp
  <2>1. SUFFICES ASSUME NEW k \in 1..Len(frames) PROVE frames[k] <= rbp
    OBVIOUS
  <2>2. CASE k = Len(frames)
    BY <2>2, <1>2, Constants DEF rbp
  <2>3. CASE k < Len(frames)
    <3>1. k \in 1..(Len(frames) - 1)
      BY <1>2, <2>3
    <3>2. frames[k] < rbp /\ frames[k] \in Slot
      BY <1>3, <1>4, <3>1
    <3> QED
      BY <1>2, <3>2, Constants
  <2> QED
    <3>1. k \in Nat /\ k <= Len(frames)
      BY <1>2
    <3> QED
      BY <1>2, <2>2, <2>3, <3>1, Compare
<1>7. rbp <= sp
  BY <1>2, <1>5 DEF rbp
<1> QED
  BY <1>2, <1>3, <1>4, <1>5, <1>6, <1>7

\* The same part of the invariant, for the lemmas above.
LEMMA SortedMeans ==
  ASSUME OpenSorted, Sound, fiber # "freed"
  PROVE  /\ Ordered(open, ptr)
         /\ OnList \subseteq alloc
         /\ \A u \in Held : ptr[u] # 0 => u \in OnList
  BY DEF OpenSorted, Ordered, Sound, OnList

\* A step that leaves the list and the pointers alone, and gives closures no
\* other upvalues.
LEMMA ListUntouched ==
  ASSUME OpenSorted, OrphansClosed, Sound,
         open' = open, ptr' = ptr, Held' \subseteq Held,
         fiber' = "freed" <=> fiber = "freed"
  PROVE  OpenSorted' /\ OrphansClosed'
<1>1. OnList' = OnList
  BY DEF OnList
<1>2. OpenSorted'
  BY <1>1 DEF OpenSorted
<1>3. OrphansClosed'
  BY DEF OrphansClosed
<1> QED
  BY <1>2, <1>3

-----------------------------------------------------------------------------
(* Typing and the nesting of frames *)

LEMMA InitInv == Init => UpvalueInv
<1> SUFFICES ASSUME Init PROVE UpvalueInv
  OBVIOUS
<1>1. 1 \in Slot /\ 0 \in 0..MaxSlots /\ Null \in Value
  BY Constants
<1>2. <<>> \in Seq(Upvalue) /\ <<1>> \in Seq(Slot) /\ DOMAIN <<1>> = {1} /\ <<1>> # <<>>
  BY <1>1
<1>3. TypeOK
  BY <1>1, <1>2 DEF Init, TypeOK
<1>4. FramesNested
  BY <1>2 DEF Init, FramesNested
<1>5. Held = {} /\ OnList = {} /\ DOMAIN open = {}
  BY DEF Init, Held, OnList
<1>6. OpenSorted
  BY <1>5 DEF OpenSorted
<1>7. OrphansClosed
  BY <1>5 DEF OrphansClosed
<1> QED
  BY <1>3, <1>4, <1>6, <1>7 DEF UpvalueInv

LEMMA TypeStep == UpvalueInv /\ [Next]_vars => TypeOK' /\ FramesNested'
<1> SUFFICES ASSUME TypeOK, FramesNested, OpenSorted, [Next]_vars
             PROVE  TypeOK' /\ FramesNested'
  BY DEF UpvalueInv
<1>0. MaxSlots \in Nat \ {0} /\ Slot = 1..MaxSlots /\ Null \in Value
  BY Constants
<1>1. ASSUME NEW v \in Value, PushLocal(v) PROVE TypeOK' /\ FramesNested'
  BY <1>0, <1>1 DEF PushLocal, TypeOK, FramesNested
<1>2. ASSUME NEW i \in Slot, NEW v \in Value, StoreLocal(i, v)
      PROVE  TypeOK' /\ FramesNested'
  BY <1>2 DEF StoreLocal, TypeOK, FramesNested
<1>3. ASSUME NEW c \in Closure, NEW i \in Slot, NEW u \in Upvalue, Capture(c, i, u)
      PROVE  TypeOK' /\ FramesNested'
  <2>1. /\ open' \in Seq(Upvalue)
        /\ ptr' \in [Upvalue -> 0..MaxSlots]
        /\ closed' \in [Upvalue -> Value]
        /\ alloc' \subseteq Upvalue
    BY <1>3, SortedMeans, CaptureEffect DEF Capture, Running
  <2> QED
    BY <1>3, <2>1 DEF Capture, TypeOK, FramesNested
<1>4. ASSUME NEW c \in Closure, NEW d \in Closure, Share(c, d)
      PROVE  TypeOK' /\ FramesNested'
  BY <1>4 DEF Share, TypeOK, FramesNested
<1>5. ASSUME NEW c \in Closure, NEW v \in Value, StoreUpvalue(c, v)
      PROVE  TypeOK' /\ FramesNested'
  BY <1>0, <1>5 DEF StoreUpvalue, TypeOK, FramesNested
<1>6. CASE CloseUpvalue
  <2>1. Ordered(open, ptr) /\ sp \in Nat /\ CloseUpvalues(sp)
    BY <1>0, <1>6, SortedMeans DEF CloseUpvalue, Running, TypeOK
  <2>2. /\ open' \in Seq(Upvalue)
        /\ ptr' \in [Upvalue -> 0..MaxSlots]
        /\ closed' \in [Upvalue -> Value]
    BY <2>1, CloseEffect
  <2>3. sp' \in Slot /\ rbp <= sp' /\ rbp \in Slot
    BY <1>0, <1>6, FrameTop DEF CloseUpvalue, Running, TypeOK
  <2>4. TypeOK'
    BY <1>6, <2>2, <2>3 DEF CloseUpvalue, TypeOK
  <2>5. \A k \in DOMAIN frames : frames[k] <= sp'
    <3>1. DOMAIN frames = 1..Len(frames) /\ \A k \in 1..Len(frames) : frames[k] \in Slot /\ frames[k] <= rbp
      BY <1>6, FrameTop DEF CloseUpvalue, Running
    <3> QED
      BY <1>0, <1>6, <2>3, <3>1
  <2> QED
    BY <1>6, <2>4, <2>5 DEF CloseUpvalue, FramesNested
<1>7. CASE PopLocal
  <2>1. sp' \in Slot /\ rbp <= sp' /\ rbp \in Slot
    BY <1>0, <1>7, FrameTop DEF PopLocal, Running, TypeOK
  <2>2. \A k \in DOMAIN frames : frames[k] <= sp'
    <3>1. DOMAIN frames = 1..Len(frames) /\ \A k \in 1..Len(frames) : frames[k] \in Slot /\ frames[k] <= rbp
      BY <1>7, FrameTop DEF PopLocal, Running
    <3> QED
      BY <1>0, <1>7, <2>1, <3>1
  <2> QED
    BY <1>7, <2>1, <2>2 DEF PopLocal, TypeOK, FramesNested
<1>8. ASSUME NEW v \in Value, Call(v) PROVE TypeOK' /\ FramesNested'
  <2>1. sp \in Nat /\ sp + 1 \in Slot /\ sp + 2 \in Slot /\ frames \in Seq(Slot)
    BY <1>0, <1>8 DEF Call, TypeOK
  <2>2. /\ frames' \in Seq(Slot)
        /\ DOMAIN frames' = 1..(Len(frames) + 1)
        /\ frames'[Len(frames) + 1] = sp + 1
        /\ \A k \in 1..Len(frames) : frames'[k] = frames[k]
        /\ Len(frames) \in Nat
    BY <1>8, <2>1 DEF Call
  <2>3. stale' \subseteq Upvalue
    BY <1>8 DEF Call, EnsureStackSize, TypeOK, OnList
  <2>4. TypeOK'
    BY <1>8, <2>1, <2>2, <2>3, <1>0 DEF Call, TypeOK
  <2>5. /\ sp' = sp + 2
        /\ \A k \in 1..Len(frames) : frames[k] \in Nat /\ frames[k] <= sp
    BY <1>0, <1>8, FrameTop DEF Call, Running
  <2>6. \A k \in 1..(Len(frames) + 1) : k = Len(frames) + 1 \/ k \in 1..Len(frames)
    BY <2>2
  <2>7. frames' # <<>>
    BY <2>2
  <2>8. \A k \in DOMAIN frames' : frames'[k] <= sp'
    BY <2>1, <2>2, <2>5, <2>6
  <2>9. ASSUME NEW j \in DOMAIN frames', NEW k \in DOMAIN frames', j < k
        PROVE  frames'[j] < frames'[k]
    <3>1. j \in 1..Len(frames)
      BY <2>2, <2>6, <2>9
    <3>2. CASE k = Len(frames) + 1
      BY <2>1, <2>2, <2>5, <3>1, <3>2
    <3>3. CASE k \in 1..Len(frames)
      <4>1. frames[j] < frames[k]
        BY <1>8, <2>9, <3>1, <3>3, FrameTop DEF Call, Running, FramesNested
      <4> QED
        BY <2>2, <3>1, <3>3, <4>1
    <3> QED
      BY <2>2, <2>6, <3>2, <3>3
  <2> QED
    BY <2>4, <2>7, <2>8, <2>9 DEF FramesNested
<1>9. ASSUME NEW args \in {<<>>} \cup {<<v>> : v \in Value}, TailCall(args)
      PROVE  TypeOK' /\ FramesNested'
  <2>1. /\ Len(args) \in {0, 1}
        /\ \A k \in 1..Len(args) : args[k] \in Value
    <3>1. CASE args = <<>>
      BY <3>1
    <3>2. CASE \E v \in Value : args = <<v>>
      BY <3>2
    <3> QED
      BY <3>1, <3>2
  <2>2. rbp \in Slot /\ sp \in Slot /\ rbp <= sp
    BY <1>9, FrameTop DEF TailCall, Running, TypeOK
  <2>3. sp + 1 + Len(args) <= MaxSlots /\ sp' = rbp + Len(args)
    BY <1>9 DEF TailCall
  <2>4. sp' \in Slot /\ rbp <= sp'
    BY <1>0, <2>1, <2>2, <2>3
  <2>5. ASSUME NEW i \in Slot
        PROVE  (IF i \in (rbp + 1)..(rbp + Len(args)) THEN args[i - rbp]
                ELSE IF i = sp + 1 THEN Null
                ELSE IF i \in (sp + 2)..(sp + 1 + Len(args)) THEN args[i - sp - 1]
                ELSE slots[i]) \in Value
    <3>1. CASE i \in (rbp + 1)..(rbp + Len(args))
      <4>1. i - rbp \in 1..Len(args)
        BY <1>0, <2>1, <2>2, <3>1
      <4> QED
        BY <2>1, <3>1, <4>1
    <3>2. CASE i \in (sp + 2)..(sp + 1 + Len(args)) /\ i \notin (rbp + 1)..(rbp + Len(args))
      <4>1. i - sp - 1 \in 1..Len(args) /\ i # sp + 1
        BY <1>0, <2>1, <2>2, <3>2
      <4> QED
        BY <2>1, <3>2, <4>1
    <3> QED
      BY <1>0, <3>1, <3>2 DEF TypeOK
  <2>6. slots' \in [Slot -> Value]
    BY <1>9, <2>5 DEF TailCall
  <2>7. stale' \subseteq Upvalue
    BY <1>9 DEF TailCall, EnsureStackSize, TypeOK, OnList
  <2>8. TypeOK'
    BY <1>9, <2>4, <2>6, <2>7 DEF TailCall, TypeOK
  <2>9. \A k \in DOMAIN frames : frames[k] <= sp'
    <3>1. DOMAIN frames = 1..Len(frames) /\ \A k \in 1..Len(frames) : frames[k] \in Slot /\ frames[k] <= rbp
      BY <1>9, FrameTop DEF TailCall, Running
    <3> QED
      BY <1>0, <1>9, <2>2, <2>4, <3>1
  <2> QED
    BY <1>9, <2>8, <2>9 DEF TailCall, FramesNested
<1>10. ASSUME NEW v \in Value, Return(v) PROVE TypeOK' /\ FramesNested'
  <2>1. /\ fiber = "running"
        /\ rbp \in Slot
        /\ rbp + 1 \in Nat
        /\ Ordered(open, ptr)
        /\ CloseUpvalues(rbp + 1)
    BY <1>0, <1>10, FrameTop, SortedMeans DEF Return, Running
  <2>2. /\ open' \in Seq(Upvalue)
        /\ ptr' \in [Upvalue -> 0..MaxSlots]
        /\ closed' \in [Upvalue -> Value]
    BY <2>1, CloseEffect
  <2>3. /\ frames' \in Seq(Slot)
        /\ DOMAIN frames' = 1..(Len(frames) - 1)
        /\ \A k \in 1..(Len(frames) - 1) : frames'[k] = frames[k]
        /\ Len(frames) \in Nat /\ Len(frames) >= 1
    <3>1. frames \in Seq(Slot) /\ frames # <<>>
      BY <2>1 DEF TypeOK, FramesNested
    <3> QED
      BY <1>10, <3>1, Front DEF Return
  <2>4. TypeOK'
    BY <1>10, <2>1, <2>2, <2>3 DEF Return, TypeOK
  <2>5. CASE Len(frames) = 1
    BY <1>10, <2>4, <2>5 DEF Return, FramesNested
  <2>6. CASE Len(frames) > 1
    <3>1. sp' = rbp
      BY <1>10, <2>3, <2>6, Compare DEF Return
    <3>2. frames' # <<>>
      <4>1. 1 \in DOMAIN frames'
        BY <2>3, <2>6
      <4> QED
        BY <4>1
    <3>3. \A k \in 1..(Len(frames) - 1) : k \in DOMAIN frames /\ frames[k] <= rbp
      BY <2>1, <2>3, FrameTop
    <3>4. \A k \in DOMAIN frames' : frames'[k] <= sp'
      BY <2>3, <3>1, <3>3
    <3>5. \A j, k \in DOMAIN frames' : j < k => frames'[j] < frames'[k]
      BY <2>1, <2>3, <3>3 DEF FramesNested
    <3> QED
      BY <2>4, <3>2, <3>4, <3>5 DEF FramesNested
  <2> QED
    BY <2>3, <2>4, <2>5, <2>6, Compare
<1>11. CASE Fail
  BY <1>11 DEF Fail, TypeOK, FramesNested
<1>12. CASE FreeFiber
  BY <1>12 DEF FreeFiber, TypeOK, FramesNested, OnList
<1>13. CASE NewFiber
  <2>1. 1 \in Slot /\ <<1>> \in Seq(Slot) /\ DOMAIN <<1>> = {1} /\ <<1>> # <<>>
        /\ <<>> \in Seq(Upvalue)
    BY <1>0
  <2> QED
    BY <1>0, <1>13, <2>1 DEF NewFiber, TypeOK, FramesNested
<1>14. ASSUME NEW c \in Closure, Drop(c) PROVE TypeOK' /\ FramesNested'
  BY <1>14 DEF Drop, TypeOK, FramesNested
<1>15. CASE Collect
  BY <1>15 DEF Collect, Held, TypeOK, FramesNested
<1>16. CASE UNCHANGED vars
  BY <1>16 DEF vars, TypeOK, FramesNested
<1> QED
  BY <1>1, <1>2, <1>3, <1>4, <1>5, <1>6, <1>7, <1>8, <1>9, <1>10, <1>11, <1>12,
     <1>13, <1>14, <1>15, <1>16 DEF Next

-----------------------------------------------------------------------------
(* The list of open upvalues *)

LEMMA ListStep == UpvalueInv /\ [Next]_vars => OpenSorted' /\ OrphansClosed'
<1> SUFFICES ASSUME TypeOK, FramesNested, OpenSorted, OrphansClosed, [Next]_vars
             PROVE  OpenSorted' /\ OrphansClosed'
  BY DEF UpvalueInv
<1>1. ASSUME NEW v \in Value, PushLocal(v) PROVE OpenSorted' /\ OrphansClosed'
  BY <1>1, ListUntouched DEF PushLocal, Running, Held
<1>2. ASSUME NEW i \in Slot, NEW v \in Value, StoreLocal(i, v)
      PROVE  OpenSorted' /\ OrphansClosed'
  BY <1>2, ListUntouched DEF StoreLocal, Running, Held
<1>3. ASSUME NEW c \in Closure, NEW i \in Slot, NEW u \in Upvalue, Capture(c, i, u)
      PROVE  OpenSorted' /\ OrphansClosed'
  <2>1. /\ Sound /\ fiber = "running" /\ fiber' = "running"
        /\ Ordered(open, ptr)
        /\ OnList \subseteq alloc
        /\ Held \subseteq alloc
        /\ \A w \in Held : ptr[w] # 0 => w \in OnList
        /\ CaptureUpvalue(i, u)
        /\ upvalue' = [upvalue EXCEPT ![c] = u]
    BY <1>3, SortedMeans DEF Capture, Running, Sound
  <2>2. /\ \A j, k \in DOMAIN open' : j < k => ptr'[open'[j]] > ptr'[open'[k]]
        /\ \A k \in DOMAIN open' : ptr'[open'[k]] # 0
        /\ \A w \in OnList \cup {u} : \E k \in DOMAIN open' : open'[k] = w
        /\ \A w \in Upvalue : w # u => ptr'[w] = ptr[w]
    BY <2>1, CaptureEffect
  <2>3. Held' \subseteq Held \cup {u} /\ Held \subseteq Upvalue
    BY <2>1 DEF Held, TypeOK
  <2>4. ASSUME NEW w \in Held', ptr'[w] # 0 PROVE w \in OnList'
    <3>1. w \in OnList \cup {u}
      BY <2>1, <2>2, <2>3, <2>4
    <3> QED
      BY <2>2, <3>1 DEF OnList
  <2>5. \A w \in OnList' : ptr'[w] # 0
    BY <2>2 DEF OnList
  <2> QED
    BY <2>1, <2>2, <2>4, <2>5 DEF OpenSorted, OrphansClosed
<1>4. ASSUME NEW c \in Closure, NEW d \in Closure, Share(c, d)
      PROVE  OpenSorted' /\ OrphansClosed'
  <2>1. Held' \subseteq Held
    BY <1>4 DEF Share, Held, TypeOK
  <2> QED
    BY <1>4, <2>1, ListUntouched DEF Share, Running
<1>5. ASSUME NEW c \in Closure, NEW v \in Value, StoreUpvalue(c, v)
      PROVE  OpenSorted' /\ OrphansClosed'
  BY <1>5, ListUntouched DEF StoreUpvalue, Held
<1>6. ASSUME NEW top \in Nat, CloseUpvalues(top), Sound, fiber # "freed",
             Held' = Held, fiber' # "freed"
      PROVE  OpenSorted' /\ OrphansClosed'
  <2>1. /\ Ordered(open, ptr)
        /\ \A w \in Held : ptr[w] # 0 => w \in OnList
        /\ Held \subseteq Upvalue
    BY <1>6, SortedMeans DEF Held, TypeOK
  <2>2. /\ \A j, k \in DOMAIN open' : j < k => ptr'[open'[j]] > ptr'[open'[k]]
        /\ \A k \in DOMAIN open' : ptr'[open'[k]] # 0
        /\ \A u \in Upvalue : ptr'[u] # 0 =>
              /\ ptr[u] # 0
              /\ u \in OnList => \E k \in DOMAIN open' : open'[k] = u
    BY <1>6, <2>1, CloseEffect
  <2>3. ASSUME NEW w \in Held, ptr'[w] # 0 PROVE w \in OnList'
    <3>1. w \in OnList
      BY <2>1, <2>2, <2>3
    <3> QED
      BY <2>1, <2>2, <2>3, <3>1 DEF OnList
  <2>4. \A w \in OnList' : ptr'[w] # 0
    BY <2>2 DEF OnList
  <2> QED
    BY <1>6, <2>2, <2>3, <2>4 DEF OpenSorted, OrphansClosed
<1>7. CASE CloseUpvalue
  BY <1>6, <1>7, Constants DEF CloseUpvalue, Running, Held, TypeOK
<1>8. CASE PopLocal
  BY <1>8, ListUntouched DEF PopLocal, Running, Held
<1>9. ASSUME NEW v \in Value, Call(v) PROVE OpenSorted' /\ OrphansClosed'
  BY <1>9, ListUntouched DEF Call, Running, Held
<1>10. ASSUME NEW args \in {<<>>} \cup {<<v>> : v \in Value}, TailCall(args)
       PROVE  OpenSorted' /\ OrphansClosed'
  BY <1>10, ListUntouched DEF TailCall, Running, Held
<1>11. ASSUME NEW v \in Value, Return(v) PROVE OpenSorted' /\ OrphansClosed'
  <2>1. rbp + 1 \in Nat
    BY <1>11, Constants, FrameTop DEF Return, Running
  <2> QED
    BY <1>6, <1>11, <2>1 DEF Return, Running, Held
<1>12. CASE Fail
  BY <1>12, ListUntouched DEF Fail, Running, Held
<1>13. CASE FreeFiber
  <2>1. /\ Sound /\ fiber # "freed" /\ fiber' = "freed"
        /\ stale' = OnList \cap Held
        /\ Held' = Held /\ ptr' = ptr
        /\ \A w \in Held : ptr[w] # 0 => w \in OnList
    BY <1>13, SortedMeans DEF FreeFiber, Held
  <2> QED
    BY <2>1 DEF OpenSorted, OrphansClosed, Sound
<1>14. CASE NewFiber
  <2>1. \A w \in Held : ptr[w] = 0
    BY <1>14 DEF NewFiber, OrphansClosed
  <2>2. open' = <<>> /\ ptr' = ptr /\ Held' = Held /\ fiber' = "running"
    BY <1>14 DEF NewFiber, Held
  <2>3. DOMAIN open' = {} /\ OnList' = {}
    BY <2>2 DEF OnList
  <2> QED
    BY <2>1, <2>2, <2>3 DEF OpenSorted, OrphansClosed
<1>15. ASSUME NEW c \in Closure, Drop(c) PROVE OpenSorted' /\ OrphansClosed'
  <2>1. Held' \subseteq Held
    BY <1>15 DEF Drop, Held, TypeOK
  <2> QED
    BY <1>15, <2>1, ListUntouched DEF Drop
<1>16. CASE Collect
  BY <1>16, ListUntouched DEF Collect, Held
<1>17. CASE UNCHANGED vars
  <2>1. OnList' = OnList /\ Held' = Held /\ Sound' = Sound
    BY <1>17 DEF vars, OnList, Held, Sound
  <2> QED
    BY <1>17, <2>1 DEF vars, OpenSorted, OrphansClosed
<1> QED
  BY <1>1, <1>2, <1>3, <1>4, <1>5, <1>7, <1>8, <1>9, <1>10, <1>11, <1>12,
     <1>13, <1>14, <1>15, <1>16, <1>17 DEF Next

\* UpvalueInv, for every set of closures and upvalues and every stack: open
\* upvalues, frames and closures keep their order through every instruction,
\* error and collection (vmRunFiber, captureUpvalue, closeUpvalues).
THEOREM UpvalueCorrect == Spec => []UpvalueInv
<1>1. UpvalueInv /\ [Next]_vars => UpvalueInv'
  BY TypeStep, ListStep DEF UpvalueInv
<1> QED
  BY <1>1, InitInv, PTL DEF Spec

\* The list of open upvalues is strictly sorted and complete: captureUpvalue
\* finds the upvalue of a local if it has one, closeUpvalues closes all it must.
THEOREM SortedCorrect == Spec => []OpenSorted
<1>1. UpvalueInv => OpenSorted
  BY DEF UpvalueInv
<1> QED
  BY <1>1, UpvalueCorrect, PTL

-----------------------------------------------------------------------------
(* Unless captured locals are tail-called away, open upvalues point to live ones *)

LEMMA LocalsStep ==
  ASSUME ~CapturedTailCalls
  PROVE  UpvalueInv /\ OpenAreLocals /\ [Next]_vars => OpenAreLocals'
<1> DEFINE Locals == \A u \in OnList : /\ ptr[u] \in 2..sp
                                       /\ \A k \in DOMAIN frames : ptr[u] # frames[k]
<1> SUFFICES ASSUME TypeOK, FramesNested, OpenSorted, OpenAreLocals, [Next]_vars,
                    Running'
             PROVE  Locals'
  BY DEF UpvalueInv, OpenAreLocals
<1>0. MaxSlots \in Nat \ {0} /\ Slot = 1..MaxSlots /\ sp \in Nat /\ OnList \subseteq Upvalue
  BY Constants DEF TypeOK, OnList
<1>1. Running => Locals
  BY DEF OpenAreLocals
<1>2. ASSUME Running, open' = open, ptr' = ptr, frames' = frames, sp' \in Nat, sp' >= sp
      PROVE  Locals'
  <2>1. OnList' = OnList
    BY <1>2 DEF OnList
  <2> QED
    BY <1>0, <1>1, <1>2, <2>1
<1>3. ASSUME NEW v \in Value, PushLocal(v) PROVE Locals'
  BY <1>0, <1>2, <1>3 DEF PushLocal
<1>4. ASSUME NEW i \in Slot, NEW v \in Value, StoreLocal(i, v) PROVE Locals'
  BY <1>0, <1>2, <1>4 DEF StoreLocal
<1>5. ASSUME NEW c \in Closure, NEW i \in Slot, NEW u \in Upvalue, Capture(c, i, u)
      PROVE  Locals'
  <2>1. /\ Locals
        /\ Ordered(open, ptr)
        /\ OnList \subseteq alloc
        /\ CaptureUpvalue(i, u)
        /\ i \in (rbp + 1)..sp
        /\ sp' = sp /\ frames' = frames
        /\ fiber = "running"
    BY <1>1, <1>5, SortedMeans DEF Capture, Running
  <2>2. /\ \A k \in DOMAIN open' : open'[k] = u \/ open'[k] \in OnList
        /\ ptr'[u] = i
        /\ \A w \in Upvalue : w # u => ptr'[w] = ptr[w]
    BY <2>1, CaptureEffect
  <2>3. ASSUME NEW w \in OnList'
        PROVE  ptr'[w] = i \/ (w \in OnList /\ ptr'[w] = ptr[w])
    <3>1. w = u \/ w \in OnList
      BY <2>2 DEF OnList
    <3> QED
      BY <1>0, <2>2, <3>1
  <2>4. i \in 2..sp /\ \A k \in DOMAIN frames : i # frames[k]
    BY <1>0, <2>1, FrameTop
  <2> QED
    BY <2>1, <2>3, <2>4
<1>6. ASSUME NEW c \in Closure, NEW d \in Closure, Share(c, d) PROVE Locals'
  BY <1>0, <1>2, <1>6 DEF Share
<1>7. ASSUME NEW c \in Closure, NEW v \in Value, StoreUpvalue(c, v) PROVE Locals'
  <2>1. Running
    BY <1>7 DEF StoreUpvalue, Running
  <2> QED
    BY <1>0, <1>2, <1>7, <2>1 DEF StoreUpvalue
\* What closeUpvalues leaves lies below top.
<1>8. ASSUME NEW top \in Nat, CloseUpvalues(top), Running
      PROVE  \A u \in OnList' : u \in OnList /\ ptr'[u] = ptr[u] /\ ptr[u] < top
  <2>1. Ordered(open, ptr)
    BY <1>8, SortedMeans DEF Running
  <2> QED
    BY <1>8, <2>1, CloseEffect DEF OnList
<1>9. CASE CloseUpvalue
  <2>1. /\ \A u \in OnList' : u \in OnList /\ ptr'[u] = ptr[u] /\ ptr[u] < sp
        /\ sp' = sp - 1 /\ frames' = frames
        /\ Locals
    BY <1>0, <1>1, <1>8, <1>9 DEF CloseUpvalue
  <2> QED
    BY <1>0, <2>1
<1>10. CASE PopLocal
  <2>1. /\ OnList' = OnList /\ ptr' = ptr /\ frames' = frames /\ sp' = sp - 1
        /\ \A u \in OnList : ptr[u] # sp
        /\ Locals
    BY <1>1, <1>10 DEF PopLocal, OnList
  <2> QED
    BY <1>0, <2>1
<1>11. ASSUME NEW v \in Value, Call(v) PROVE Locals'
  <2>1. /\ OnList' = OnList /\ ptr' = ptr /\ sp' = sp + 2
        /\ frames' = Append(frames, sp + 1)
        /\ Locals
    BY <1>1, <1>11 DEF Call, OnList
  <2>2. \A k \in DOMAIN frames' :
          (k \in DOMAIN frames /\ frames'[k] = frames[k]) \/ frames'[k] = sp + 1
    BY <2>1 DEF TypeOK
  <2> QED
    BY <1>0, <2>1, <2>2
<1>12. ASSUME NEW args \in {<<>>} \cup {<<v>> : v \in Value}, TailCall(args)
       PROVE  Locals'
  <2>1. /\ OnList' = OnList /\ ptr' = ptr /\ frames' = frames
        /\ sp' = rbp + Len(args)
        /\ \A u \in OnList : ptr[u] <= rbp
        /\ Locals
    BY <1>1, <1>12 DEF TailCall, OnList
  <2>2. rbp \in Slot /\ Len(args) \in Nat
    BY <1>12, FrameTop DEF TailCall, Running
  <2> QED
    BY <1>0, <2>1, <2>2
<1>13. ASSUME NEW v \in Value, Return(v) PROVE Locals'
  <2>1. /\ Running /\ fiber = "running"
        /\ rbp \in Slot /\ rbp <= sp
        /\ Len(frames) \in Nat /\ Len(frames) >= 1
        /\ DOMAIN frames = 1..Len(frames)
    BY <1>13, FrameTop DEF Return, Running
  <2>2. /\ \A u \in OnList' : u \in OnList /\ ptr'[u] = ptr[u] /\ ptr[u] < rbp + 1
        /\ Locals
    BY <1>0, <1>1, <1>8, <1>13, <2>1 DEF Return
  <2>3. sp' = rbp
    <3>1. fiber' = "running"
      BY DEF Running
    <3>2. Len(frames) # 1
      BY <1>13, <3>1 DEF Return
    <3> QED
      BY <1>13, <3>2 DEF Return
  <2>4. \A k \in DOMAIN frames' : k \in DOMAIN frames /\ frames'[k] = frames[k]
    <3>1. frames \in Seq(Slot) /\ frames # <<>>
      BY <2>1 DEF TypeOK, FramesNested
    <3> QED
      BY <1>13, <2>1, <3>1, Front DEF Return
  <2>5. \A u \in OnList : ptr[u] # rbp
    BY <2>1, <2>2 DEF rbp
  <2> QED
    BY <1>0, <2>1, <2>2, <2>3, <2>4, <2>5
<1>14. CASE Fail
  BY <1>14 DEF Fail, Running
<1>15. CASE FreeFiber
  BY <1>15 DEF FreeFiber, Running
<1>16. CASE NewFiber
  <2>1. OnList' = {}
    BY <1>16 DEF NewFiber, OnList
  <2> QED
    BY <2>1
<1>17. ASSUME NEW c \in Closure, Drop(c) PROVE Locals'
  <2>1. Running
    BY <1>17 DEF Drop, Running
  <2> QED
    BY <1>0, <1>2, <1>17, <2>1 DEF Drop
<1>18. CASE Collect
  <2>1. Running
    BY <1>18 DEF Collect, Running
  <2> QED
    BY <1>0, <1>2, <1>18, <2>1 DEF Collect
<1>19. CASE UNCHANGED vars
  <2>1. Running /\ open' = open /\ ptr' = ptr /\ frames' = frames /\ sp' = sp
    BY <1>19 DEF vars, Running, Sound, OnList, Held
  <2> QED
    BY <1>0, <1>2, <2>1
<1> QED
  BY <1>3, <1>4, <1>5, <1>6, <1>7, <1>9, <1>10, <1>11, <1>12, <1>13, <1>14,
     <1>15, <1>16, <1>17, <1>18, <1>19 DEF Next

\* As long as no frame with captured locals makes a tail call, an open upvalue
\* points to a local of a frame that is still on the stack, whatever calls, tail
\* calls, returns, scopes and errors came before (vmRunFiber, pushCallFrame, captureUpvalue, closeUpvalues).
THEOREM LocalsCorrect == ASSUME ~CapturedTailCalls PROVE Spec => []OpenAreLocals
<1>1. Init => OpenAreLocals
  BY DEF Init, OpenAreLocals, OnList
<1>2. UpvalueInv /\ OpenAreLocals /\ [Next]_vars => OpenAreLocals'
  BY LocalsStep
<1> QED
  BY <1>1, <1>2, UpvalueCorrect, PTL DEF Spec
-----------------------------------------------------------------------------
(* Variables, as LexicalScope has them *)

\* The closures that know the variable in slot i, or the one in upvalue u.
At(i) == {c \in Closure : upvalue[c] # NULL /\ ptr[upvalue[c]] = i}
Of(u) == {c \in Closure : upvalue[c] = u}

\* How many slots are variables, and which upvalues are.
Height == IF frames = <<>> THEN 0 ELSE sp
Shut == {u \in Held : ptr[u] = 0}

\* An open upvalue that a closure holds is on the list, whatever was freed.
Reached == \A c \in Closure : upvalue[c] # NULL /\ ptr[upvalue[c]] # 0 => upvalue[c] \in OnList

\* An open upvalue points to a variable in scope, until the fiber is collected.
InScope == Sound /\ fiber # "freed" => \A u \in OnList : ptr[u] \in 2..Height

\* The outermost frame starts at the first slot.
FirstFrame == fiber = "running" => frames[1] = 1

ScopeInv == UpvalueInv /\ Reached /\ InScope /\ FirstFrame

View ==
  /\ Height \in 0..MaxSlots
  /\ Scope \in Seq(Abstract!Variable)
  /\ Scope = [i \in 1..Height |-> [value |-> slots[i], by |-> At(i)]]
  /\ Len(Scope) = Height /\ DOMAIN Scope = 1..Height
  /\ Outlived = {[value |-> closed[u], by |-> Of(u)] : u \in Shut}

LEMMA ViewIs == TypeOK /\ Reached => View
<1> SUFFICES ASSUME TypeOK, Reached PROVE View
  OBVIOUS
<1>1. Height \in 0..MaxSlots /\ MaxSlots \in Nat /\ Slot = 1..MaxSlots /\ NULL \notin Upvalue
  BY Constants, UpvalueAssumption DEF Height, TypeOK, UpvalueAssumption
<1>2. \A i \in 1..Height : HeldBy({u \in OnList : ptr[u] = i}) = At(i)
  <2>1. \A i \in 1..Height : i # 0
    BY <1>1
  <2>2. OnList \subseteq Upvalue
    BY DEF OnList, TypeOK
  <2> QED BY <1>1, <2>1, <2>2 DEF HeldBy, At, Reached, TypeOK
<1>3. Scope = [i \in 1..Height |-> [value |-> slots[i], by |-> At(i)]]
  BY <1>2 DEF Scope, Height
<1>4. \A u : HeldBy({u}) = Of(u)
  BY DEF HeldBy, Of
<1>5. Outlived = {[value |-> closed[u], by |-> Of(u)] : u \in Shut}
  <2>1. Outlived = {[value |-> closed[u], by |-> HeldBy({u})] : u \in Shut}
    BY DEF Outlived, Shut
  <2>2. \A u \in Shut : [value |-> closed[u], by |-> HeldBy({u})] = [value |-> closed[u], by |-> Of(u)]
    BY <1>4
  <2> HIDE DEF HeldBy, Of, Shut
  <2> QED BY <2>1, <2>2
<1>6. \A i \in 1..Height : [value |-> slots[i], by |-> At(i)] \in Abstract!Variable
  <2>1. \A i \in 1..Height : slots[i] \in Value /\ At(i) \in SUBSET Closure
    BY <1>1 DEF TypeOK, At
  <2> QED BY <2>1 DEF Abstract!Variable
<1>7. PICK n \in Nat : n = Height
  BY <1>1
<1>8. Scope \in [1..n -> Abstract!Variable]
  BY <1>3, <1>6, <1>7
<1>9. Scope \in Seq(Abstract!Variable) /\ Len(Scope) = n
  BY <1>8
<1> QED BY <1>1, <1>3, <1>5, <1>7, <1>9 DEF View

LEMMA ViewNext == (TypeOK /\ Reached => View)'
  BY ViewIs, PTL

\* What closeUpvalues does to each upvalue.
LEMMA Closing ==
  ASSUME TypeOK, Ordered(open, ptr), NEW top \in Nat \ {0}, CloseUpvalues(top)
  PROVE  /\ \A u \in OnList : ptr[u] >= top => ptr'[u] = 0 /\ closed'[u] = slots[ptr[u]]
         /\ \A u \in Upvalue : u \notin OnList \/ ptr[u] < top =>
              ptr'[u] = ptr[u] /\ closed'[u] = closed[u]
         /\ OnList' = {u \in OnList : ptr[u] < top}
<1>0. MaxSlots \in Nat \ {0} /\ Slot = 1..MaxSlots
  BY UpvalueAssumption DEF UpvalueAssumption, Slot
<1>1. PICK n \in 0..Len(open) :
        /\ \A k \in 1..n : ptr[open[k]] >= top
        /\ n < Len(open) => ptr[open[n + 1]] < top
        /\ ptr' = [u \in Upvalue |-> IF u \in {open[k] : k \in 1..n} THEN 0 ELSE ptr[u]]
        /\ closed' = [u \in Upvalue |-> IF u \in {open[k] : k \in 1..n}
                                          THEN Deref(u) ELSE closed[u]]
        /\ open' = SubSeq(open, n + 1, Len(open))
  BY DEF CloseUpvalues
<1>2. /\ open \in Seq(Upvalue)
      /\ Len(open) \in Nat
      /\ DOMAIN open = 1..Len(open)
      /\ \A k \in 1..Len(open) : open[k] \in Upvalue /\ ptr[open[k]] \in Nat
  BY <1>0 DEF TypeOK
<1>3. /\ DOMAIN open' = 1..(Len(open) - n)
      /\ \A k \in 1..(Len(open) - n) : open'[k] = open[k + n]
  BY <1>1, <1>2, Suffix
<1>4. \A k \in (n + 1)..Len(open) : ptr[open[k]] < top
  <2> SUFFICES ASSUME NEW k \in (n + 1)..Len(open) PROVE ptr[open[k]] < top
    OBVIOUS
  <2>1. k \in 1..Len(open) /\ n + 1 \in 1..Len(open) /\ n < Len(open)
    BY <1>2
  <2>2. ptr[open[k]] <= ptr[open[n + 1]]
    BY <1>2, <2>1 DEF Ordered
  <2> QED BY <1>1, <1>2, <2>1, <2>2
<1>5. \A u \in OnList : u \in Upvalue /\ ptr[u] \in Nat /\ (u \in {open[k] : k \in 1..n} <=> ptr[u] >= top)
  <2> SUFFICES ASSUME NEW j \in 1..Len(open)
               PROVE  open[j] \in {open[k] : k \in 1..n} <=> ptr[open[j]] >= top
    BY <1>2 DEF OnList
  <2>1. CASE j \in 1..n
    BY <1>1, <2>1
  <2>2. CASE j \notin 1..n
    <3>1. j \in (n + 1)..Len(open)
      BY <1>2, <2>2
    <3>2. ~ (ptr[open[j]] >= top)
      BY <1>2, <1>4, <3>1
    <3> QED BY <1>1, <3>2
  <2> QED BY <2>1, <2>2
<1>6. \A k \in 1..n : open[k] \in OnList
  BY <1>2 DEF OnList
<1>7. \A u \in OnList : ptr[u] >= top => ptr'[u] = 0 /\ closed'[u] = slots[ptr[u]]
  BY <1>1, <1>5 DEF Deref
<1>8. \A u \in Upvalue : u \notin OnList \/ ptr[u] < top => ptr'[u] = ptr[u] /\ closed'[u] = closed[u]
  BY <1>1, <1>5, <1>6
<1>9. OnList' = {u \in OnList : ptr[u] < top}
  <2>1. ASSUME NEW u \in OnList' PROVE u \in OnList /\ ptr[u] < top
    <3>1. PICK k \in 1..(Len(open) - n) : u = open'[k]
      BY <1>3 DEF OnList
    <3>2. k + n \in (n + 1)..Len(open) /\ k + n \in 1..Len(open) /\ u = open[k + n]
      BY <1>2, <1>3, <3>1
    <3> QED BY <1>2, <1>4, <3>2 DEF OnList
  <2>2. ASSUME NEW u \in OnList, ptr[u] < top PROVE u \in OnList'
    <3>1. PICK j \in 1..Len(open) : u = open[j]
      BY <1>2 DEF OnList
    <3>2. j \notin 1..n
      BY <1>1, <1>2, <2>2, <3>1
    <3>3. j - n \in 1..(Len(open) - n) /\ (j - n) + n = j
      BY <1>2, <3>2
    <3> QED BY <1>3, <3>1, <3>3 DEF OnList
  <2> QED BY <2>1, <2>2
<1> QED BY <1>7, <1>8, <1>9


\* A step that leaves the list, the pointers and the frames alone.
LEMMA ScopeUntouched ==
  ASSUME ScopeInv, Sound, UNCHANGED <<open, ptr, frames>>, sp' >= sp, sp \in Nat, sp' \in Nat,
         \A c \in Closure : upvalue'[c] \in Held \cup {NULL},
         fiber' = fiber \/ (fiber = "running" /\ fiber' = "done")
  PROVE  Reached' /\ InScope' /\ FirstFrame'
<1>1. OnList' = OnList
  BY DEF OnList
<1>2. Reached'
  <2> SUFFICES ASSUME NEW c \in Closure, upvalue'[c] # NULL, ptr[upvalue'[c]] # 0
               PROVE  upvalue'[c] \in OnList
    BY <1>1 DEF Reached
  <2>1. PICK d \in Closure : upvalue'[c] = upvalue[d]
    BY DEF Held
  <2> QED BY <2>1 DEF ScopeInv, Reached
<1>3. InScope'
  <2> SUFFICES ASSUME fiber' # "freed", NEW u \in OnList PROVE ptr[u] \in 2..(Height')
    BY <1>1 DEF InScope
  <2>1. ptr[u] \in 2..Height
    BY DEF ScopeInv, InScope
  <2>2. Height' = Height \/ (Height' = sp' /\ Height = sp)
    BY DEF Height
  <2> QED BY <2>1, <2>2
<1>4. FirstFrame'
  BY DEF ScopeInv, FirstFrame
<1> QED BY <1>2, <1>3, <1>4

\* closeUpvalues leaves the open upvalues below the new height.
LEMMA ScopeClosed ==
  ASSUME ScopeInv, Running, NEW top \in Nat \ {0}, CloseUpvalues(top), upvalue' = upvalue,
         top > 2 => Height' >= top - 1, Height' \in Nat
  PROVE  Reached' /\ InScope'
<1>0. TypeOK /\ Ordered(open, ptr) /\ OnList \subseteq Upvalue
  BY SortedMeans DEF ScopeInv, UpvalueInv, Running, TypeOK, OnList
<1>1. /\ \A u \in OnList : ptr[u] >= top => ptr'[u] = 0
      /\ \A u \in Upvalue : u \notin OnList \/ ptr[u] < top => ptr'[u] = ptr[u]
      /\ OnList' = {u \in OnList : ptr[u] < top}
  BY <1>0, Closing
<1>2. \A u \in OnList : ptr[u] \in 2..Height
  BY DEF ScopeInv, InScope, Running
<1>3. Height \in Nat
  BY <1>0, Constants DEF Height, TypeOK
<1>4. Reached'
  <2> SUFFICES ASSUME NEW c \in Closure, upvalue[c] # NULL, ptr'[upvalue[c]] # 0
               PROVE  upvalue[c] \in OnList'
    BY DEF Reached
  <2>1. upvalue[c] \in Upvalue
    BY <1>0 DEF TypeOK
  <2>2. CASE upvalue[c] \in OnList /\ ptr[upvalue[c]] >= top
    BY <1>1, <2>2
  <2>3. CASE upvalue[c] \in OnList /\ ~ (ptr[upvalue[c]] >= top)
    BY <1>1, <1>2, <1>3, <2>3
  <2>4. CASE upvalue[c] \notin OnList
    BY <1>1, <2>1, <2>4 DEF ScopeInv, Reached
  <2> QED BY <2>2, <2>3, <2>4
<1>5. InScope'
  <2> SUFFICES ASSUME NEW u \in OnList, ptr[u] < top PROVE ptr[u] \in 2..(Height')
    BY <1>0, <1>1 DEF InScope
  <2>1. ptr[u] \in 2..Height
    BY <1>2
  <2>2. top > 2
    BY <1>3, <2>1
  <2> QED BY <1>3, <2>1, <2>2
<1> QED BY <1>4, <1>5

LEMMA ScopeStep ==
  ASSUME ~CapturedTailCalls, ScopeInv, [Next]_vars
  PROVE  ScopeInv'
<1>0. /\ UpvalueInv' /\ TypeOK /\ TypeOK' /\ FramesNested
      /\ MaxSlots \in Nat \ {0} /\ Slot = 1..MaxSlots /\ sp \in Nat /\ sp' \in Nat
      /\ Height \in Nat /\ Height' \in Nat /\ OnList \subseteq Upvalue /\ NULL \notin Upvalue
  <2>1. UpvalueInv'
    BY TypeStep, ListStep DEF ScopeInv, UpvalueInv
  <2>2. TypeOK /\ TypeOK' /\ FramesNested
    BY <2>1 DEF ScopeInv, UpvalueInv
  <2>3. MaxSlots \in Nat \ {0} /\ Slot = 1..MaxSlots
    BY Constants
  <2> QED BY <2>1, <2>2, <2>3, UpvalueAssumption DEF TypeOK, Height, OnList, UpvalueAssumption
<1> DEFINE Goal == Reached' /\ InScope' /\ FirstFrame'
<1>20. UpvalueInv /\ Reached /\ InScope /\ FirstFrame
  BY DEF ScopeInv
<1>1. ASSUME NEW v \in Value, PushLocal(v) PROVE Goal
  <2>1. /\ Sound /\ UNCHANGED <<open, ptr, frames>> /\ sp' >= sp
        /\ fiber' = fiber \/ (fiber = "running" /\ fiber' = "done")
    BY <1>0, <1>1 DEF PushLocal, Running
  <2>2. \A d \in Closure : upvalue'[d] \in Held \cup {NULL}
    BY <1>0, <1>1 DEF PushLocal, Held, TypeOK
  <2> QED BY <1>0, <2>1, <2>2, ScopeUntouched
<1>2. ASSUME NEW i \in Slot, NEW v \in Value, StoreLocal(i, v) PROVE Goal
  <2>1. /\ Sound /\ UNCHANGED <<open, ptr, frames>> /\ sp' >= sp
        /\ fiber' = fiber \/ (fiber = "running" /\ fiber' = "done")
    BY <1>0, <1>2 DEF StoreLocal, Running
  <2>2. \A d \in Closure : upvalue'[d] \in Held \cup {NULL}
    BY <1>0, <1>2 DEF StoreLocal, Held, TypeOK
  <2> QED BY <1>0, <2>1, <2>2, ScopeUntouched
<1>3. ASSUME NEW c \in Closure, NEW i \in Slot, NEW u \in Upvalue, Capture(c, i, u) PROVE Goal
  <2>1. /\ Ordered(open, ptr) /\ OnList \subseteq alloc /\ Sound /\ fiber = "running"
        /\ CaptureUpvalue(i, u) /\ i \in (rbp + 1)..sp
        /\ UNCHANGED <<fiber, slots, sp, frames, stale>>
        /\ upvalue' = [upvalue EXCEPT ![c] = u]
    BY <1>3, <1>20, SortedMeans DEF Capture, Running, UpvalueInv
  <2>2. /\ \A k \in DOMAIN open' : open'[k] = u \/ open'[k] \in OnList
        /\ \A w \in OnList \cup {u} : \E k \in DOMAIN open' : open'[k] = w
        /\ ptr'[u] = i
        /\ \A w \in Upvalue : w # u => ptr'[w] = ptr[w]
    BY <1>0, <2>1, CaptureEffect
  <2>3. OnList' = OnList \cup {u}
    BY <2>2 DEF OnList
  <2>4. rbp \in Slot /\ Height = sp /\ Height' = sp
    BY <1>0, <2>1, FrameTop DEF Height, FramesNested
  <2>5. InScope'
    BY <1>0, <1>20, <2>1, <2>2, <2>3, <2>4 DEF InScope
  <2>6. Reached'
    BY <1>0, <1>20, <2>1, <2>2, <2>3 DEF Reached, TypeOK
  <2> QED BY <2>1, <2>5, <2>6, <1>20 DEF FirstFrame
<1>4. ASSUME NEW c \in Closure, NEW d \in Closure, Share(c, d) PROVE Goal
  <2>1. /\ Sound /\ UNCHANGED <<open, ptr, frames>> /\ sp' >= sp
        /\ fiber' = fiber \/ (fiber = "running" /\ fiber' = "done")
    BY <1>0, <1>4 DEF Share, Running
  <2>2. \A e \in Closure : upvalue'[e] \in Held \cup {NULL}
    BY <1>0, <1>4 DEF Share, Held, TypeOK
  <2> QED BY <1>0, <2>1, <2>2, ScopeUntouched
<1>5. ASSUME NEW c \in Closure, NEW v \in Value, StoreUpvalue(c, v) PROVE Goal
  <2>1. /\ Sound /\ UNCHANGED <<open, ptr, frames>> /\ sp' >= sp
        /\ fiber' = fiber \/ (fiber = "running" /\ fiber' = "done")
    BY <1>0, <1>5 DEF StoreUpvalue, Running
  <2>2. \A d \in Closure : upvalue'[d] \in Held \cup {NULL}
    BY <1>0, <1>5 DEF StoreUpvalue, Held, TypeOK
  <2> QED BY <1>0, <2>1, <2>2, ScopeUntouched
<1>6. ASSUME CloseUpvalue PROVE Goal
  <2>1. /\ Running /\ CloseUpvalues(sp) /\ upvalue' = upvalue /\ sp' = sp - 1
        /\ UNCHANGED <<fiber, frames>> /\ frames # <<>>
    BY <1>6, <1>20 DEF CloseUpvalue, Running, FramesNested, UpvalueInv
  <2>2. sp \in Nat \ {0} /\ Height' = sp - 1
    BY <1>0, <2>1 DEF Height, TypeOK
  <2>3. sp > 2 => Height' >= sp - 1
    BY <2>2
  <2> QED BY <1>0, <2>1, <2>2, <2>3, <1>20, ScopeClosed DEF FirstFrame
<1>7. ASSUME PopLocal PROVE Goal
  <2>1. /\ Running /\ upvalue' = upvalue /\ sp' = sp - 1 /\ UNCHANGED <<fiber, frames, open, ptr>>
        /\ \A u \in OnList : ptr[u] # sp
    BY <1>7 DEF PopLocal
  <2>2. OnList' = OnList /\ Height = (IF frames = <<>> THEN 0 ELSE sp)
        /\ Height' = IF frames = <<>> THEN 0 ELSE sp - 1
    BY <2>1 DEF OnList, Height
  <2>3. \A u \in OnList : ptr[u] \in 2..Height
    BY <1>20, <2>1 DEF InScope, Running
  <2>4. InScope'
    BY <1>0, <2>1, <2>2, <2>3 DEF InScope
  <2> QED BY <2>1, <2>2, <2>4, <1>20 DEF FirstFrame, Reached
<1>8. ASSUME NEW v \in Value, Call(v) PROVE Goal
  <2>1. /\ Running /\ upvalue' = upvalue /\ sp' = sp + 2 /\ UNCHANGED <<fiber, open, ptr>>
        /\ frames' = Append(frames, sp + 1) /\ frames # <<>> /\ frames \in Seq(Slot) /\ sp + 1 \in Slot
    BY <1>0, <1>8 DEF Call, Running, FramesNested, TypeOK
  <2>2. OnList' = OnList /\ Height = sp /\ Height' = sp + 2 /\ frames'[1] = frames[1]
    BY <2>1 DEF OnList, Height
  <2>3. \A u \in OnList : ptr[u] \in 2..Height
    BY <1>20, <2>1 DEF InScope, Running
  <2>4. InScope'
    BY <1>0, <2>1, <2>2, <2>3 DEF InScope
  <2> QED BY <2>1, <2>2, <2>4, <1>20 DEF FirstFrame, Reached
<1>9. ASSUME NEW args \in {<<>>} \cup {<<v>> : v \in Value}, TailCall(args) PROVE Goal
  <2>1. /\ Running /\ upvalue' = upvalue /\ sp' = rbp + Len(args) /\ UNCHANGED <<fiber, open, ptr, frames>>
        /\ frames # <<>> /\ \A u \in OnList : ptr[u] <= rbp
    BY <1>0, <1>9 DEF TailCall, Running, FramesNested
  <2>2. OnList' = OnList /\ Height = sp /\ Height' = rbp + Len(args) /\ rbp \in Slot /\ Len(args) \in Nat
    BY <1>0, <2>1, FrameTop DEF OnList, Height, Running
  <2>3. \A u \in OnList : ptr[u] \in 2..Height
    BY <1>20, <2>1 DEF InScope, Running
  <2>4. InScope'
    BY <1>0, <2>1, <2>2, <2>3 DEF InScope
  <2> QED BY <2>1, <2>2, <2>4, <1>20 DEF FirstFrame, Reached
<1>10. ASSUME NEW v \in Value, Return(v) PROVE Goal
  <2>1. /\ Running /\ CloseUpvalues(rbp + 1) /\ upvalue' = upvalue
        /\ sp' = (IF Len(frames) = 1 THEN sp ELSE rbp)
        /\ frames' = SubSeq(frames, 1, Len(frames) - 1)
        /\ fiber' = (IF Len(frames) = 1 THEN "done" ELSE "running")
    BY <1>10 DEF Return
  <2>2. /\ rbp \in Slot /\ Len(frames) \in Nat /\ Len(frames) >= 1
        /\ frames \in Seq(Slot) /\ frames # <<>>
    BY <1>0, <2>1, FrameTop DEF Running, FramesNested, TypeOK
  <2>3. /\ DOMAIN frames' = 1..(Len(frames) - 1)
        /\ \A k \in 1..(Len(frames) - 1) : frames'[k] = frames[k]
    BY <2>1, <2>2, Front
  <2>4. CASE Len(frames) = 1
    <3>1. rbp + 1 = 2 /\ 2 \in Nat \ {0}
      BY <1>20, <2>1, <2>4 DEF FirstFrame, rbp, Running
    <3> QED BY <1>0, <2>1, <2>4, <3>1, ScopeClosed DEF FirstFrame
  <2>5. CASE Len(frames) > 1
    <3>0. 1 \in 1..(Len(frames) - 1) /\ Len(frames) # 1
      BY <2>2, <2>5
    <3>1. 1 \in DOMAIN frames' /\ frames'[1] = frames[1] /\ Len(frames) # 1
      BY <2>3, <3>0
    <3>2. frames' # <<>>
      BY <3>1
    <3>3. Height' = rbp
      BY <2>1, <3>1, <3>2 DEF Height
    <3>4. rbp + 1 \in Nat \ {0} /\ rbp \in Nat /\ (rbp + 1) - 1 = rbp
      BY <1>0, <2>2
    <3>5. Height' >= (rbp + 1) - 1
      BY <3>3, <3>4
    <3>6. Reached' /\ InScope'
      BY <1>0, <2>1, <3>4, <3>5, ScopeClosed
    <3> QED BY <1>20, <2>1, <3>1, <3>6 DEF FirstFrame, Running
  <2> QED BY <2>2, <2>4, <2>5, Compare
<1>11. ASSUME Fail PROVE Goal
  <2>1. /\ Sound /\ UNCHANGED <<open, ptr, frames>> /\ sp' >= sp
        /\ fiber' = fiber \/ (fiber = "running" /\ fiber' = "done")
    BY <1>0, <1>11 DEF Fail, Running
  <2>2. \A d \in Closure : upvalue'[d] \in Held \cup {NULL}
    BY <1>0, <1>11 DEF Fail, Held, TypeOK
  <2> QED BY <1>0, <2>1, <2>2, ScopeUntouched
<1>12. ASSUME FreeFiber PROVE Goal
  <2>1. UNCHANGED <<open, ptr, upvalue>> /\ fiber' = "freed"
    BY <1>12 DEF FreeFiber
  <2>2. OnList' = OnList
    BY <2>1 DEF OnList
  <2> QED BY <1>20, <2>1, <2>2 DEF Reached, InScope, FirstFrame
<1>13. ASSUME NewFiber PROVE Goal
  <2>1. /\ Sound /\ fiber = "freed" /\ fiber' = "running" /\ frames' = <<1>> /\ open' = <<>>
        /\ UNCHANGED <<ptr, upvalue>>
    BY <1>13 DEF NewFiber
  <2>2. \A u \in Held : ptr[u] = 0
    BY <1>20, <2>1 DEF UpvalueInv, OrphansClosed
  <2>3. OnList' = {}
    BY <2>1 DEF OnList
  <2> QED BY <2>1, <2>2, <2>3 DEF Reached, InScope, FirstFrame, Held
<1>14. ASSUME NEW c \in Closure, Drop(c) PROVE Goal
  <2>1. /\ Sound /\ UNCHANGED <<open, ptr, frames>> /\ sp' >= sp
        /\ fiber' = fiber \/ (fiber = "running" /\ fiber' = "done")
    BY <1>0, <1>14 DEF Drop, Running
  <2>2. \A d \in Closure : upvalue'[d] \in Held \cup {NULL}
    BY <1>0, <1>14 DEF Drop, Held, TypeOK
  <2> QED BY <1>0, <2>1, <2>2, ScopeUntouched
<1>15. ASSUME Collect PROVE Goal
  <2>1. /\ Sound /\ UNCHANGED <<open, ptr, frames>> /\ sp' >= sp
        /\ fiber' = fiber \/ (fiber = "running" /\ fiber' = "done")
    BY <1>0, <1>15 DEF Collect, Running
  <2>2. \A d \in Closure : upvalue'[d] \in Held \cup {NULL}
    BY <1>0, <1>15 DEF Collect, Held, TypeOK
  <2> QED BY <1>0, <2>1, <2>2, ScopeUntouched
<1>16. ASSUME UNCHANGED vars PROVE Goal
  BY <1>16, <1>20 DEF vars, Reached, InScope, FirstFrame, OnList, Height, Sound, Held
<1>17. Goal
  BY <1>1, <1>2, <1>3, <1>4, <1>5, <1>6, <1>7, <1>8, <1>9, <1>10, <1>11, <1>12,
     <1>13, <1>14, <1>15, <1>16 DEF Next
<1> QED BY <1>0, <1>17 DEF ScopeInv


-----------------------------------------------------------------------------
(* Each step is a step of the variables *)

LEMMA Grown ==
  ASSUME NEW S, NEW s \in Seq(S), NEW t \in Seq(S), NEW x \in S,
         Len(t) = Len(s) + 1, \A i \in 1..Len(s) : t[i] = s[i], t[Len(s) + 1] = x
  PROVE  t = Append(s, x)
<1>1. PICK r : r = Append(s, x)
  OBVIOUS
<1>2. /\ r \in Seq(S) /\ Len(r) = Len(s) + 1 /\ r[Len(s) + 1] = x
      /\ \A i \in 1..Len(s) : r[i] = s[i]
  BY <1>1
<1>3. Len(s) \in Nat /\ \A i \in 1..(Len(s) + 1) : i \in 1..Len(s) \/ i = Len(s) + 1
  OBVIOUS
<1>4. \A i \in 1..(Len(s) + 1) : t[i] = r[i]
  BY <1>2, <1>3
<1> QED BY <1>1, <1>2, <1>4, SeqEqual

LEMMA GrownTwice ==
  ASSUME NEW S, NEW s \in Seq(S), NEW t \in Seq(S), NEW x \in S, NEW y \in S,
         Len(t) = Len(s) + 2, \A i \in 1..Len(s) : t[i] = s[i],
         t[Len(s) + 1] = x, t[Len(s) + 2] = y
  PROVE  t = s \o <<x, y>>
<1>1. PICK p : p = <<x, y>> /\ p \in Seq(S) /\ Len(p) = 2 /\ p[1] = x /\ p[2] = y
  <2>1. <<x, y>> \in Seq(S)
    OBVIOUS
  <2>2. Len(<<x, y>>) = 2 /\ <<x, y>>[1] = x /\ <<x, y>>[2] = y
    OBVIOUS
  <2> QED BY <2>1, <2>2
<1>2. PICK r \in Seq(S) : r = s \o p
  BY <1>1, ConcatProperties
<1>3. /\ Len(r) = Len(s) + 2
      /\ \A i \in 1..(Len(s) + 2) : r[i] = IF i <= Len(s) THEN s[i] ELSE p[i - Len(s)]
  BY <1>1, <1>2, ConcatProperties
<1>4. Len(s) \in Nat
      /\ \A i \in 1..(Len(s) + 2) : \/ i \in 1..Len(s) /\ i <= Len(s)
                                    \/ i = Len(s) + 1 /\ i - Len(s) = 1 /\ ~ (i <= Len(s))
                                    \/ i = Len(s) + 2 /\ i - Len(s) = 2 /\ ~ (i <= Len(s))
  OBVIOUS
<1>5. \A i \in 1..(Len(s) + 2) : t[i] = r[i]
  BY <1>1, <1>3, <1>4
<1>6. t = r
  BY <1>3, <1>5, SeqEqual
<1> QED BY <1>1, <1>2, <1>6

LEMMA Shrunk ==
  ASSUME NEW S, NEW s \in Seq(S), NEW t \in Seq(S), NEW n \in 0..Len(s),
         Len(t) = n, \A i \in 1..n : t[i] = s[i]
  PROVE  t = SubSeq(s, 1, n)
<1>1. PICK r : r = SubSeq(s, 1, n)
  OBVIOUS
<1>2. r \in Seq(S) /\ Len(r) = n /\ \A i \in 1..n : r[i] = s[i]
  BY <1>1
<1> QED BY <1>1, <1>2, SeqEqual

LEMMA FrontIs ==
  ASSUME NEW S, NEW s \in Seq(S), NEW n \in 0..Len(s)
  PROVE  SubSeq(s, 1, n) \in Seq(S) /\ Len(SubSeq(s, 1, n)) = n
         /\ \A i \in 1..n : SubSeq(s, 1, n)[i] = s[i]
OBVIOUS

\* What every step knows.
Known ==
  /\ TypeOK /\ TypeOK' /\ View /\ View' /\ Reached /\ InScope /\ FirstFrame
  /\ FramesNested /\ OpenSorted /\ OrphansClosed
  /\ MaxSlots \in Nat \ {0} /\ Slot = 1..MaxSlots /\ Null \in Value
  /\ Held \subseteq Upvalue /\ NULL \notin Upvalue /\ OnList \subseteq Upvalue
  /\ \A c \in Closure : upvalue[c] # NULL => upvalue[c] \in Held

LEMMA KnownIs == ScopeInv /\ ScopeInv' => Known
<1> SUFFICES ASSUME ScopeInv, ScopeInv' PROVE Known
  OBVIOUS
<1>1. TypeOK /\ TypeOK' /\ Reached /\ Reached' /\ InScope /\ FirstFrame
      /\ FramesNested /\ OpenSorted /\ OrphansClosed
  BY DEF ScopeInv, UpvalueInv
<1>2. View /\ View'
  BY <1>1, ViewIs, ViewNext
<1> QED BY <1>1, <1>2, Constants, UpvalueAssumption DEF Known, Held, OnList, TypeOK, UpvalueAssumption

\* Each open upvalue of the list is one of a slot of its own.
LEMMA SlotsApart ==
  ASSUME Known, Sound, fiber # "freed", NEW u \in OnList, NEW w \in OnList, ptr[u] = ptr[w]
  PROVE  u = w
<1>1. PICK j \in DOMAIN open, k \in DOMAIN open : u = open[j] /\ w = open[k]
  BY DEF OnList
<1>2. j \in Nat /\ k \in Nat /\ ptr[u] \in Nat
  <2>1. /\ open \in Seq(Upvalue) /\ ptr \in [Upvalue -> 0..MaxSlots] /\ MaxSlots \in Nat
        /\ u \in Upvalue
    BY DEF Known, TypeOK
  <2>2. DOMAIN open \subseteq Nat
    BY <2>1
  <2> QED BY <2>1, <2>2
<1>3. ~ (j < k) /\ ~ (k < j)
  BY <1>1, <1>2 DEF Known, OpenSorted
<1> QED BY <1>1, <1>2, <1>3

\* A step that only lets go of variables no closure knows.
LEMMA LeaveUnknown ==
  ASSUME Known, NEW n \in 0..Height, \A i \in (n + 1)..Height : At(i) = {}, Outlived' = Outlived
  PROVE  Abstract!Leave(n)
<1>1. \A x \in Outlived : x.by # {}
  <2> SUFFICES ASSUME NEW u \in Shut PROVE [value |-> closed[u], by |-> Of(u)].by # {}
    BY DEF Known, View
  <2>1. PICK c \in Closure : upvalue[c] = u
    BY DEF Shut, Held
  <2> QED BY <2>1 DEF Of
<1>2. \A i \in (n + 1)..Height : Scope[i].by = {}
  <2>1. \A i \in (n + 1)..Height : i \in 1..Height
    BY DEF Known, View
  <2> QED BY <2>1 DEF Known, View
<1>3. Len(Scope) = Height
  BY DEF Known, View
<1>4. Abstract!Surviving(Outlived \cup {Scope[i] : i \in (n + 1)..Len(Scope)}) = Outlived
  BY <1>1, <1>2, <1>3 DEF Abstract!Surviving
<1> QED BY <1>4 DEF Abstract!Leave

\* closeUpvalues moves what closures know of the slots above n.
LEMMA LeaveClosing ==
  ASSUME Known, Running, NEW n \in 0..Height, CloseUpvalues(n + 1), upvalue' = upvalue
  PROVE  Abstract!Leave(n)
<1>0. /\ Ordered(open, ptr) /\ TypeOK /\ n + 1 \in Nat \ {0} /\ Height \in Nat
      /\ Sound /\ fiber # "freed" /\ n \in Nat
  BY SortedMeans DEF Known, Running, View
<1>1. /\ \A u \in OnList : ptr[u] >= n + 1 => ptr'[u] = 0 /\ closed'[u] = slots[ptr[u]]
      /\ \A u \in Upvalue : u \notin OnList \/ ptr[u] < n + 1 => ptr'[u] = ptr[u] /\ closed'[u] = closed[u]
  BY <1>0, Closing
<1>2. \A u \in OnList : ptr[u] \in 2..Height
  BY <1>0 DEF Known, InScope
<1>3. Held' = Held /\ (\A u : Of(u)' = Of(u))
  BY DEF Held, Of
<1>4. Outlived' = {[value |-> closed'[u], by |-> Of(u)] : u \in Shut'}
  <2>1. Outlived' = {[value |-> closed'[u], by |-> Of(u)'] : u \in Shut'}
    BY DEF Known, View
  <2> QED BY <1>3, <2>1
<1>5. ASSUME NEW u \in OnList
      PROVE  At(ptr[u]) = Of(u)
  <2>1. \A c \in Closure : c \in At(ptr[u]) => upvalue[c] = u
    <3> SUFFICES ASSUME NEW c \in Closure, upvalue[c] # NULL, ptr[upvalue[c]] = ptr[u]
                 PROVE  upvalue[c] = u
      BY DEF At
    <3>1. ptr[u] # 0
      BY <1>0, <1>2
    <3>2. upvalue[c] \in OnList
      BY <3>1 DEF Known, Reached
    <3> QED BY <1>0, <3>2, SlotsApart
  <2>2. u # NULL
    BY DEF Known
  <2> QED BY <2>1, <2>2 DEF At, Of
<1> DEFINE Gone == {Scope[i] : i \in (n + 1)..Len(Scope)}
<1>6. \A i \in 1..Height : Scope[i] = [value |-> slots[i], by |-> At(i)]
  BY DEF Known, View
<1>7. Len(Scope) = Height /\ Outlived = {[value |-> closed[u], by |-> Of(u)] : u \in Shut}
  BY DEF Known, View
<1>8. ASSUME NEW u \in Shut'
      PROVE  /\ Of(u) # {}
             /\ [value |-> closed'[u], by |-> Of(u)] \in Outlived \cup Gone
  <2>1. u \in Held /\ u \in Upvalue /\ ptr'[u] = 0
    BY <1>3 DEF Shut, Known
  <2>2. Of(u) # {}
    BY <2>1 DEF Held, Of
  <2>3. CASE u \in OnList /\ ptr[u] >= n + 1
    <3>1. closed'[u] = slots[ptr[u]] /\ At(ptr[u]) = Of(u)
      BY <1>1, <1>5, <2>3
    <3>2. ptr[u] \in 1..Height /\ ptr[u] \in (n + 1)..Len(Scope)
      BY <1>0, <1>2, <1>7, <2>3
    <3>3. Scope[ptr[u]] = [value |-> closed'[u], by |-> Of(u)]
      BY <1>6, <3>1, <3>2
    <3> QED BY <2>2, <3>2, <3>3
  <2>4. CASE ~ (u \in OnList /\ ptr[u] >= n + 1)
    <3>1. u \notin OnList \/ ptr[u] < n + 1
      BY <1>0, <1>2, <2>4
    <3>2. ptr[u] = 0 /\ closed'[u] = closed[u]
      BY <1>1, <2>1, <3>1
    <3> QED BY <1>7, <2>1, <2>2, <3>2 DEF Shut
  <2> QED BY <2>3, <2>4
<1>9. ASSUME NEW x \in Outlived \cup Gone, x.by # {}
      PROVE  x \in Outlived'
  <2>1. CASE x \in Outlived
    <3>1. PICK u \in Shut : x = [value |-> closed[u], by |-> Of(u)]
      BY <1>7, <2>1
    <3>2. u \in Held /\ ptr[u] = 0 /\ u \in Upvalue
      BY DEF Shut, Known
    <3>3. u \notin OnList
      BY <1>0, <1>2, <3>2
    <3>4. ptr'[u] = 0 /\ closed'[u] = closed[u]
      BY <1>1, <3>2, <3>3
    <3> QED BY <1>3, <1>4, <3>1, <3>2, <3>4 DEF Shut
  <2>2. CASE x \in Gone
    <3>1. PICK i \in (n + 1)..Height : x = Scope[i]
      BY <1>7, <2>2
    <3>2. i \in 1..Height /\ i >= n + 1 /\ i # 0
      BY <1>0
    <3>3. x.by = At(i) /\ x = [value |-> slots[i], by |-> At(i)]
      BY <1>6, <3>1, <3>2
    <3>4. PICK c \in Closure : upvalue[c] # NULL /\ ptr[upvalue[c]] = i
      BY <1>9, <3>3 DEF At
    <3>5. upvalue[c] \in OnList /\ upvalue[c] \in Held
      BY <3>2, <3>4 DEF Known, Reached
    <3>6. PICK u \in OnList : u = upvalue[c]
      BY <3>5
    <3>7. ptr'[u] = 0 /\ closed'[u] = slots[i] /\ At(i) = Of(u)
      BY <1>1, <1>5, <3>2, <3>4, <3>6
    <3>8. u \in Shut'
      BY <1>3, <3>5, <3>6, <3>7 DEF Shut
    <3> QED BY <1>4, <3>3, <3>7, <3>8
  <2> QED BY <2>1, <2>2
<1> HIDE DEF Gone
<1>10. Outlived' = Abstract!Surviving(Outlived \cup Gone)
  <2>1. ASSUME NEW x \in Outlived' PROVE x \in Outlived \cup Gone /\ x.by # {}
    <3>1. PICK u \in Shut' : x = [value |-> closed'[u], by |-> Of(u)]
      BY <1>4
    <3> QED BY <1>8, <3>1
  <2> QED BY <1>9, <2>1 DEF Abstract!Surviving
<1> QED BY <1>10 DEF Abstract!Leave, Gone


\* A declaration.
LEMMA RefinePush ==
  ASSUME Known, NEW v \in Value, PushLocal(v)
  PROVE  Abstract!Next
<1>0. /\ Running /\ sp' = sp + 1 /\ slots' = [slots EXCEPT ![sp + 1] = v]
      /\ UNCHANGED <<frames, open, ptr, closed, upvalue>> /\ frames # <<>> /\ sp \in Nat
      /\ sp + 1 \in Slot /\ Height = sp /\ Height' = sp + 1
  BY DEF PushLocal, Running, Known, FramesNested, TypeOK, Height
<1>1. \A i : At(i)' = At(i)
  BY <1>0 DEF At
<1>2. At(sp + 1) = {}
  <2>1. \A u \in OnList : ptr[u] \in 2..sp
    BY <1>0 DEF Known, InScope, Running
  <2> QED BY <1>0, <2>1 DEF At, Known, Reached
<1>3. Outlived' = Outlived
  BY <1>0 DEF Outlived, HeldBy, Held
<1>4. Scope' = Append(Scope, Abstract!Fresh(v))
  <2>0. [value |-> v, by |-> {}] \in Abstract!Variable
    <3>1. v \in Value /\ {} \in SUBSET Closure
      OBVIOUS
    <3> QED BY <3>1 DEF Abstract!Variable
  <2>1. PICK x : x = [value |-> v, by |-> {}] /\ x \in Abstract!Variable
    BY <2>0
  <2>2. /\ Scope \in Seq(Abstract!Variable) /\ Scope' \in Seq(Abstract!Variable)
        /\ Len(Scope) = sp /\ Len(Scope') = sp + 1
        /\ \A i \in 1..sp : Scope[i] = [value |-> slots[i], by |-> At(i)]
        /\ \A i \in 1..(sp + 1) : Scope'[i] = [value |-> slots'[i], by |-> At(i)']
    BY <1>0 DEF Known, View
  <2>3. \A i \in 1..sp : i \in 1..(sp + 1) /\ slots'[i] = slots[i]
    BY <1>0 DEF Known, TypeOK
  <2>4. \A i \in 1..sp : Scope'[i] = Scope[i]
    BY <1>1, <2>2, <2>3
  <2>5. sp + 1 \in 1..(sp + 1) /\ slots'[sp + 1] = v
    BY <1>0 DEF Known, TypeOK
  <2>6. Scope'[sp + 1] = x
    BY <1>1, <1>2, <2>1, <2>2, <2>5
  <2>7. Scope' = Append(Scope, x)
    BY <2>1, <2>2, <2>4, <2>6, Grown
  <2> QED BY <2>1, <2>7 DEF Abstract!Fresh
<1>5. Abstract!DeclareOne(v)
  BY <1>3, <1>4 DEF Abstract!DeclareOne
<1> QED BY <1>5 DEF Abstract!Next

\* An assignment to a local.
LEMMA RefineStore ==
  ASSUME Known, NEW i \in Slot, NEW v \in Value, StoreLocal(i, v)
  PROVE  Abstract!Next
<1>0. /\ Running /\ i \in (rbp + 1)..sp /\ slots' = [slots EXCEPT ![i] = v]
      /\ UNCHANGED <<sp, frames, open, ptr, closed, upvalue>> /\ frames # <<>>
      /\ Height = sp /\ Height' = sp /\ i \in 1..sp /\ sp \in 1..MaxSlots
  BY DEF StoreLocal, Running, Known, FramesNested, TypeOK, Height
<1>1. \A j : At(j)' = At(j)
  BY <1>0 DEF At
<1>2. Outlived' = Outlived
  BY <1>0 DEF Outlived, HeldBy, Held
<1>3. Scope' = [Scope EXCEPT ![i].value = v]
  <2>1. /\ Scope = [j \in 1..sp |-> [value |-> slots[j], by |-> At(j)]]
        /\ Scope' = [j \in 1..sp |-> [value |-> slots'[j], by |-> At(j)']]
    BY <1>0 DEF Known, View
  <2>2. \A j \in 1..sp : slots'[j] = IF j = i THEN v ELSE slots[j]
    BY <1>0 DEF Known, TypeOK
  <2> HIDE DEF At
  <2> QED BY <1>0, <1>1, <2>1, <2>2
<1>4. Abstract!Assign(i, v) /\ i \in DOMAIN Scope
  BY <1>0, <1>2, <1>3 DEF Abstract!Assign, Known, View
<1> QED BY <1>4 DEF Abstract!Next

\* A closure without an upvalue knows no variable.
LEMMA Uncaptured ==
  ASSUME Known, NEW c \in Closure, upvalue[c] = NULL
  PROVE  ~Abstract!Captured(c)
<1>1. \A j : c \notin At(j)
  BY DEF At
<1>2. \A w \in Shut : c \notin Of(w)
  BY DEF Of, Shut, Held
<1> HIDE DEF Of, At
<1>3. /\ \A j \in DOMAIN Scope : Scope[j].by = At(j)
      /\ \A x \in Outlived : \E w \in Shut : x.by = Of(w)
  BY DEF Known, View
<1> QED BY <1>1, <1>2, <1>3 DEF Abstract!Captured

\* PUSH_CLOSURE on a local of the running function.
LEMMA RefineCapture ==
  ASSUME Known, NEW c \in Closure, NEW i \in Slot, NEW u \in Upvalue, Capture(c, i, u)
  PROVE  Abstract!Next
<1>0. /\ Running /\ Sound /\ i \in (rbp + 1)..sp /\ upvalue[c] = NULL /\ CaptureUpvalue(i, u)
      /\ upvalue' = [upvalue EXCEPT ![c] = u]
      /\ UNCHANGED <<slots, sp, frames>> /\ frames # <<>>
      /\ Height = sp /\ Height' = sp /\ i \in 1..sp /\ sp \in 1..MaxSlots
      /\ Held \subseteq alloc
  BY DEF Capture, Running, Sound, Known, FramesNested, TypeOK, Height
<1>1. /\ OnList \subseteq alloc /\ Ordered(open, ptr)
      /\ ptr'[u] = i /\ \A w \in Upvalue : w # u => ptr'[w] = ptr[w]
      /\ u \in alloc => u \in OnList
  <2>1. OnList \subseteq alloc /\ Ordered(open, ptr) /\ TypeOK
    BY <1>0, SortedMeans DEF Known, Running
  <2> QED BY <1>0, <2>1, CaptureEffect
<1>2. \A w \in Upvalue : w # u => closed'[w] = closed[w]
  BY <1>0 DEF CaptureUpvalue, Known, TypeOK
<1>3. u \in Held => ptr[u] = i
  BY <1>0 DEF CaptureUpvalue
<1>4. \A e \in Closure : upvalue'[e] = IF e = c THEN u ELSE upvalue[e]
  BY <1>0 DEF Known, TypeOK
<1>5. \A j \in 1..sp : At(j)' = IF j = i THEN At(j) \cup {c} ELSE At(j)
  <2> SUFFICES ASSUME NEW j \in 1..sp, NEW e \in Closure
               PROVE  e \in At(j)' <=> (e \in At(j) \/ (j = i /\ e = c))
    BY DEF At
  <2>1. e \in At(j)' <=> upvalue'[e] # NULL /\ ptr'[upvalue'[e]] = j
    BY DEF At
  <2>2. e \in At(j) <=> upvalue[e] # NULL /\ ptr[upvalue[e]] = j
    BY DEF At
  <2>3. CASE e = c
    BY <1>0, <1>1, <1>4, <2>1, <2>2, <2>3 DEF Known
  <2>4. CASE e # c /\ upvalue[e] = NULL
    BY <1>4, <2>1, <2>2, <2>4
  <2>5. CASE e # c /\ upvalue[e] # NULL
    <3>1. upvalue[e] \in Held /\ upvalue[e] \in Upvalue
      BY <2>5 DEF Known
    <3>2. ptr'[upvalue[e]] = ptr[upvalue[e]]
      BY <1>1, <1>3, <3>1
    <3> QED BY <1>4, <2>1, <2>2, <2>5, <3>2
  <2> QED BY <2>3, <2>4, <2>5
<1>6. Outlived' = Outlived
  <2>1. Held' = Held \cup {u}
    BY <1>0, <1>4 DEF Held, Known
  <2>2. i # 0
    BY <1>0
  <2>3. \A w \in Shut : w # u /\ w \in Upvalue
    BY <1>3, <2>2 DEF Shut, Known
  <2>4. Shut' = Shut
    BY <1>1, <2>1, <2>2, <2>3 DEF Shut, Known
  <2>5. \A w \in Shut : closed'[w] = closed[w] /\ Of(w)' = Of(w)
    <3> SUFFICES ASSUME NEW w \in Shut PROVE closed'[w] = closed[w] /\ Of(w)' = Of(w)
      OBVIOUS
    <3>1. w # u /\ w \in Upvalue /\ w # NULL
      BY <2>3 DEF Known
    <3>2. \A e \in Closure : upvalue'[e] = w <=> upvalue[e] = w
      BY <1>0, <1>4, <3>1
    <3> QED BY <1>2, <3>1, <3>2 DEF Of
  <2>6. /\ Outlived = {[value |-> closed[w], by |-> Of(w)] : w \in Shut}
        /\ Outlived' = {[value |-> closed'[w], by |-> Of(w)'] : w \in Shut'}
    BY DEF Known, View
  <2> HIDE DEF Of
  <2> QED BY <2>4, <2>5, <2>6
<1>7. Scope' = [Scope EXCEPT ![i].by = @ \cup {c}]
  <2>1. /\ Scope = [j \in 1..sp |-> [value |-> slots[j], by |-> At(j)]]
        /\ Scope' = [j \in 1..sp |-> [value |-> slots[j], by |-> At(j)']]
    BY <1>0 DEF Known, View
  <2> HIDE DEF At
  <2> QED BY <1>0, <1>5, <2>1
<1>8. ~Abstract!Captured(c)
  BY <1>0, Uncaptured
<1>9. Abstract!Capture(c, i) /\ i \in DOMAIN Scope
  BY <1>0, <1>6, <1>7, <1>8 DEF Abstract!Capture, Known, View
<1> QED BY <1>9 DEF Abstract!Next

\* Where the variable of a closure is: in scope or, closed, in its upvalue.
LEMMA Whereabouts ==
  ASSUME Known, Sound, NEW c \in Closure, NEW w, w = upvalue[c], w # NULL
  PROVE  /\ w \in Held /\ w \in Upvalue /\ c \in Of(w)
         /\ ptr[w] = 0 => w \in Shut
         /\ ptr[w] # 0 => w \in OnList /\ ptr[w] \in 1..Height /\ c \in At(ptr[w])
         /\ Abstract!Captured(c)
<1>1. w \in Held /\ w \in Upvalue /\ c \in Of(w) /\ (ptr[w] = 0 => w \in Shut)
  BY DEF Known, Of, Shut
<1>2. ptr[w] # 0 => w \in OnList /\ ptr[w] \in 1..Height /\ c \in At(ptr[w])
  <2> SUFFICES ASSUME ptr[w] # 0 PROVE w \in OnList /\ ptr[w] \in 1..Height /\ c \in At(ptr[w])
    OBVIOUS
  <2>1. w \in OnList /\ fiber # "freed" /\ c \in At(ptr[w])
    BY <1>1 DEF Known, Reached, OrphansClosed, At
  <2>2. ptr[w] \in 2..Height
    BY <2>1 DEF Known, InScope
  <2>3. Height \in Nat
    BY DEF Known, View
  <2> QED BY <2>1, <2>2, <2>3
<1>3. Abstract!Captured(c)
  <2>1. /\ \A j \in 1..Height : Scope[j].by = At(j)
        /\ DOMAIN Scope = 1..Height
        /\ Outlived = {[value |-> closed[u], by |-> Of(u)] : u \in Shut}
    BY DEF Known, View
  <2> HIDE DEF At, Of, Shut
  <2>2. CASE ptr[w] = 0
    <3>1. [value |-> closed[w], by |-> Of(w)] \in Outlived /\ c \in [value |-> closed[w], by |-> Of(w)].by
      BY <1>1, <2>1, <2>2
    <3> QED BY <3>1 DEF Abstract!Captured
  <2>3. CASE ptr[w] # 0
    BY <1>2, <2>1, <2>3 DEF Abstract!Captured
  <2> QED BY <2>2, <2>3
<1> QED BY <1>1, <1>2, <1>3

\* An assignment to the variable of a closure.
LEMMA RefineAssign ==
  ASSUME Known, NEW c \in Closure, NEW v \in Value, StoreUpvalue(c, v)
  PROVE  Abstract!Next
<1>1. PICK w : w = upvalue[c] /\ w # NULL
  BY DEF StoreUpvalue
<1>2. /\ Sound /\ UNCHANGED <<sp, frames, open, ptr, upvalue>> /\ Height' = Height
      /\ IF ptr[w] = 0 THEN closed' = [closed EXCEPT ![w] = v] /\ slots' = slots
                       ELSE slots' = [slots EXCEPT ![ptr[w]] = v] /\ closed' = closed
  BY <1>1 DEF StoreUpvalue, Height
<1>3. /\ w \in Held /\ w \in Upvalue
      /\ ptr[w] # 0 => ptr[w] \in 1..Height
      /\ Abstract!Captured(c)
  BY <1>1, <1>2, Whereabouts
<1>4. (\A i : At(i)' = At(i)) /\ (\A u : Of(u)' = Of(u)) /\ Shut' = Shut
  BY <1>2 DEF At, Of, Shut, Held
<1>5. /\ \A i : c \in At(i) <=> ptr[w] = i
      /\ \A u : c \in Of(u) <=> u = w
  BY <1>1 DEF At, Of
<1>6. /\ \A i \in 1..Height : slots'[i] = IF c \in At(i) THEN v ELSE slots[i]
      /\ \A u \in Shut : closed'[u] = IF c \in Of(u) THEN v ELSE closed[u]
  <2>1. \A i \in 1..Height : i # 0 /\ i \in Slot
    BY DEF Known, View
  <2>2. \A u \in Shut : u \in Upvalue /\ ptr[u] = 0
    BY DEF Known, Shut
  <2>3. slots \in [Slot -> Value] /\ closed \in [Upvalue -> Value]
    BY DEF Known, TypeOK
  <2> QED BY <1>2, <1>3, <1>5, <2>1, <2>2, <2>3
<1>7. \A u \in Shut : Of(u) # {}
  BY DEF Shut, Held, Of
<1>8. /\ Scope = [i \in 1..Height |-> [value |-> slots[i], by |-> At(i)]]
      /\ Scope' = [i \in 1..Height |-> [value |-> slots'[i], by |-> At(i)]]
      /\ Outlived = {[value |-> closed[u], by |-> Of(u)] : u \in Shut}
      /\ Outlived' = {[value |-> closed'[u], by |-> Of(u)] : u \in Shut}
  <2>1. /\ Scope = [i \in 1..Height |-> [value |-> slots[i], by |-> At(i)]]
        /\ Scope' = [i \in 1..Height' |-> [value |-> slots'[i], by |-> At(i)']]
        /\ Outlived = {[value |-> closed[u], by |-> Of(u)] : u \in Shut}
        /\ Outlived' = {[value |-> closed'[u], by |-> Of(u)'] : u \in Shut'}
    BY DEF Known, View
  <2> HIDE DEF At, Of, Shut
  <2> QED BY <1>2, <1>4, <2>1
<1> HIDE DEF At, Of, Shut
<1>9. Scope' = [i \in DOMAIN Scope |-> IF c \in Scope[i].by
                                         THEN [Scope[i] EXCEPT !.value = v] ELSE Scope[i]]
  BY <1>6, <1>8
<1>10. Outlived' = Abstract!Surviving({IF c \in x.by THEN [x EXCEPT !.value = v] ELSE x : x \in Outlived})
  <2> DEFINE Changed == {IF c \in x.by THEN [x EXCEPT !.value = v] ELSE x : x \in Outlived}
  <2>1. \A u \in Shut :
          [value |-> closed'[u], by |-> Of(u)] =
            IF c \in [value |-> closed[u], by |-> Of(u)].by
              THEN [[value |-> closed[u], by |-> Of(u)] EXCEPT !.value = v]
              ELSE [value |-> closed[u], by |-> Of(u)]
    BY <1>6
  <2>2. Changed = Outlived'
    <3>1. ASSUME NEW y \in Changed PROVE y \in Outlived'
      <4>1. PICK x \in Outlived : y = IF c \in x.by THEN [x EXCEPT !.value = v] ELSE x
        OBVIOUS
      <4>2. PICK u \in Shut : x = [value |-> closed[u], by |-> Of(u)]
        BY <1>8
      <4>3. y = [value |-> closed'[u], by |-> Of(u)]
        BY <2>1, <4>1, <4>2
      <4> QED BY <1>8, <4>3
    <3>2. ASSUME NEW y \in Outlived' PROVE y \in Changed
      <4>1. PICK u \in Shut : y = [value |-> closed'[u], by |-> Of(u)]
        BY <1>8
      <4>2. PICK x : x = [value |-> closed[u], by |-> Of(u)] /\ x \in Outlived
        BY <1>8
      <4>3. y = IF c \in x.by THEN [x EXCEPT !.value = v] ELSE x
        BY <2>1, <4>1, <4>2
      <4> QED BY <4>2, <4>3
    <3> QED BY <3>1, <3>2
  <2>3. \A x \in Outlived' : x.by # {}
    BY <1>7, <1>8
  <2> QED BY <2>2, <2>3 DEF Abstract!Surviving
<1>11. Abstract!AssignThrough(c, v)
  BY <1>3, <1>9, <1>10 DEF Abstract!AssignThrough, Abstract!Through
<1> QED BY <1>11 DEF Abstract!Next

\* PUSH_CLOSURE on an upvalue of the running closure.
LEMMA RefineShare ==
  ASSUME Known, NEW c \in Closure, NEW d \in Closure, Share(c, d)
  PROVE  Abstract!Next
<1>1. PICK w : w = upvalue[d] /\ w # NULL
  BY DEF Share
<1>2. /\ Sound /\ UNCHANGED <<slots, sp, frames, open, ptr, closed>> /\ Height' = Height
      /\ upvalue[c] = NULL /\ c # d /\ upvalue' = [upvalue EXCEPT ![c] = w]
  BY <1>1 DEF Share, Running, Height
<1>3. w \in Held /\ w \in Upvalue /\ Abstract!Captured(d)
  BY <1>1, <1>2, Whereabouts
<1>4. \A e \in Closure : upvalue'[e] = IF e = c THEN w ELSE upvalue[e]
  BY <1>2 DEF Known, TypeOK
<1>5. Shut' = Shut
  <2>1. Held' = Held
    BY <1>1, <1>2, <1>4 DEF Held
  <2> QED BY <1>2, <2>1 DEF Shut
<1>6. /\ \A i : At(i)' = IF d \in At(i) THEN At(i) \cup {c} ELSE At(i)
      /\ \A u \in Shut : Of(u)' = IF d \in Of(u) THEN Of(u) \cup {c} ELSE Of(u)
  <2>1. \A i : At(i)' = {e \in Closure : upvalue'[e] # NULL /\ ptr[upvalue'[e]] = i}
    BY <1>2 DEF At
  <2>2. \A u \in Shut : u # NULL
    BY DEF Shut, Held
  <2> QED BY <1>1, <1>2, <1>4, <2>1, <2>2 DEF At, Of
<1>7. \A u \in Shut : Of(u)' # {}
  BY <1>6 DEF Shut, Held, Of
<1>8. /\ Scope = [i \in 1..Height |-> [value |-> slots[i], by |-> At(i)]]
      /\ Scope' = [i \in 1..Height |-> [value |-> slots[i], by |-> At(i)']]
      /\ Outlived = {[value |-> closed[u], by |-> Of(u)] : u \in Shut}
      /\ Outlived' = {[value |-> closed[u], by |-> Of(u)'] : u \in Shut'}
  <2>1. /\ Scope = [i \in 1..Height |-> [value |-> slots[i], by |-> At(i)]]
        /\ Scope' = [i \in 1..Height' |-> [value |-> slots'[i], by |-> At(i)']]
        /\ Outlived = {[value |-> closed[u], by |-> Of(u)] : u \in Shut}
        /\ Outlived' = {[value |-> closed'[u], by |-> Of(u)'] : u \in Shut'}
    BY DEF Known, View
  <2> HIDE DEF At, Of, Shut
  <2> QED BY <1>2, <2>1
<1>81. ~Abstract!Captured(c)
  BY <1>2, Uncaptured
<1> HIDE DEF At, Of, Shut
<1>9. Scope' = [i \in DOMAIN Scope |-> IF d \in Scope[i].by
                                         THEN [Scope[i] EXCEPT !.by = @ \cup {c}] ELSE Scope[i]]
  BY <1>6, <1>8
<1>10. Outlived' = Abstract!Surviving({IF d \in x.by THEN [x EXCEPT !.by = @ \cup {c}] ELSE x : x \in Outlived})
  <2> DEFINE Changed == {IF d \in x.by THEN [x EXCEPT !.by = @ \cup {c}] ELSE x : x \in Outlived}
  <2>1. \A u \in Shut :
          [value |-> closed[u], by |-> Of(u)'] =
            IF d \in [value |-> closed[u], by |-> Of(u)].by
              THEN [[value |-> closed[u], by |-> Of(u)] EXCEPT !.by = @ \cup {c}]
              ELSE [value |-> closed[u], by |-> Of(u)]
    BY <1>6
  <2>2. Changed = {[value |-> closed[u], by |-> Of(u)'] : u \in Shut}
    <3>1. ASSUME NEW y \in Changed PROVE \E u \in Shut : y = [value |-> closed[u], by |-> Of(u)']
      <4>1. PICK x \in Outlived : y = IF d \in x.by THEN [x EXCEPT !.by = @ \cup {c}] ELSE x
        OBVIOUS
      <4>2. PICK u \in Shut : x = [value |-> closed[u], by |-> Of(u)]
        BY <1>8
      <4>3. y = [value |-> closed[u], by |-> Of(u)']
        BY <2>1, <4>1, <4>2
      <4> QED BY <4>3
    <3>2. ASSUME NEW u \in Shut PROVE [value |-> closed[u], by |-> Of(u)'] \in Changed
      <4>1. PICK x : x = [value |-> closed[u], by |-> Of(u)] /\ x \in Outlived
        BY <1>8
      <4>2. [value |-> closed[u], by |-> Of(u)'] = IF d \in x.by THEN [x EXCEPT !.by = @ \cup {c}] ELSE x
        BY <2>1, <4>1
      <4> QED BY <4>1, <4>2
    <3> HIDE DEF Changed
    <3> QED BY <3>1, <3>2
  <2>3. \A x \in Outlived' : x.by # {}
    BY <1>5, <1>7, <1>8
  <2>4. Changed = Outlived'
    BY <1>5, <1>8, <2>2
  <2> QED BY <2>3, <2>4 DEF Abstract!Surviving
<1>11. Abstract!Share(c, d)
  BY <1>3, <1>81, <1>9, <1>10 DEF Abstract!Share, Abstract!Through
<1> QED BY <1>11 DEF Abstract!Next

\* The script loses a closure.
LEMMA RefineDrop ==
  ASSUME Known, NEW c \in Closure, Drop(c)
  PROVE  Abstract!Next
<1>1. PICK w : w = upvalue[c] /\ w # NULL
  BY DEF Drop
<1>2. /\ Sound /\ UNCHANGED <<slots, sp, frames, open, ptr, closed>> /\ Height' = Height
      /\ upvalue' = [upvalue EXCEPT ![c] = NULL]
  BY DEF Drop, Height
<1>3. w \in Held /\ w \in Upvalue /\ Abstract!Captured(c)
  BY <1>1, <1>2, Whereabouts
<1>4. \A e \in Closure : upvalue'[e] = IF e = c THEN NULL ELSE upvalue[e]
  BY <1>2 DEF Known, TypeOK
<1>6. /\ \A i : At(i)' = IF c \in At(i) THEN At(i) \ {c} ELSE At(i)
      /\ \A u \in Shut : Of(u)' = IF c \in Of(u) THEN Of(u) \ {c} ELSE Of(u)
  <2>1. \A i : At(i)' = {e \in Closure : upvalue'[e] # NULL /\ ptr[upvalue'[e]] = i}
    BY <1>2 DEF At
  <2>2. \A u \in Shut : u # NULL
    BY DEF Shut, Held
  <2> QED BY <1>1, <1>2, <1>4, <2>1, <2>2 DEF At, Of
<1>7. Shut' = {u \in Shut : Of(u)' # {}}
  <2>1. \A u : u \in Held' <=> u # NULL /\ Of(u)' # {}
    BY DEF Held, Of
  <2>2. Held' \subseteq Held
    BY <1>4 DEF Held
  <2> QED BY <1>2, <2>1, <2>2 DEF Shut, Held
<1>8. /\ Scope = [i \in 1..Height |-> [value |-> slots[i], by |-> At(i)]]
      /\ Scope' = [i \in 1..Height |-> [value |-> slots[i], by |-> At(i)']]
      /\ Outlived = {[value |-> closed[u], by |-> Of(u)] : u \in Shut}
      /\ Outlived' = {[value |-> closed[u], by |-> Of(u)'] : u \in Shut'}
  <2>1. /\ Scope = [i \in 1..Height |-> [value |-> slots[i], by |-> At(i)]]
        /\ Scope' = [i \in 1..Height' |-> [value |-> slots'[i], by |-> At(i)']]
        /\ Outlived = {[value |-> closed[u], by |-> Of(u)] : u \in Shut}
        /\ Outlived' = {[value |-> closed'[u], by |-> Of(u)'] : u \in Shut'}
    BY DEF Known, View
  <2> HIDE DEF At, Of, Shut
  <2> QED BY <1>2, <2>1
<1> HIDE DEF At, Of, Shut
<1>9. Scope' = [i \in DOMAIN Scope |-> IF c \in Scope[i].by
                                         THEN [Scope[i] EXCEPT !.by = @ \ {c}] ELSE Scope[i]]
  BY <1>6, <1>8
<1>10. Outlived' = Abstract!Surviving({IF c \in x.by THEN [x EXCEPT !.by = @ \ {c}] ELSE x : x \in Outlived})
  <2> DEFINE Changed == {IF c \in x.by THEN [x EXCEPT !.by = @ \ {c}] ELSE x : x \in Outlived}
  <2>1. \A u \in Shut :
          [value |-> closed[u], by |-> Of(u)'] =
            IF c \in [value |-> closed[u], by |-> Of(u)].by
              THEN [[value |-> closed[u], by |-> Of(u)] EXCEPT !.by = @ \ {c}]
              ELSE [value |-> closed[u], by |-> Of(u)]
    BY <1>6
  <2>2. Changed = {[value |-> closed[u], by |-> Of(u)'] : u \in Shut}
    <3>1. ASSUME NEW y \in Changed PROVE \E u \in Shut : y = [value |-> closed[u], by |-> Of(u)']
      <4>1. PICK x \in Outlived : y = IF c \in x.by THEN [x EXCEPT !.by = @ \ {c}] ELSE x
        OBVIOUS
      <4>2. PICK u \in Shut : x = [value |-> closed[u], by |-> Of(u)]
        BY <1>8
      <4>3. y = [value |-> closed[u], by |-> Of(u)']
        BY <2>1, <4>1, <4>2
      <4> QED BY <4>3
    <3>2. ASSUME NEW u \in Shut PROVE [value |-> closed[u], by |-> Of(u)'] \in Changed
      <4>1. PICK x : x = [value |-> closed[u], by |-> Of(u)] /\ x \in Outlived
        BY <1>8
      <4>2. [value |-> closed[u], by |-> Of(u)'] = IF c \in x.by THEN [x EXCEPT !.by = @ \ {c}] ELSE x
        BY <2>1, <4>1
      <4> QED BY <4>1, <4>2
    <3> HIDE DEF Changed
    <3> QED BY <3>1, <3>2
  <2>3. Outlived' = {x \in {[value |-> closed[u], by |-> Of(u)'] : u \in Shut} : x.by # {}}
    BY <1>7, <1>8
  <2> HIDE DEF Changed
  <2>4. Outlived' = Abstract!Surviving(Changed)
    BY <2>2, <2>3 DEF Abstract!Surviving
  <2> QED BY <2>4 DEF Changed
<1>11. Abstract!Drop(c)
  BY <1>3, <1>9, <1>10 DEF Abstract!Drop, Abstract!Through
<1> QED BY <1>11 DEF Abstract!Next

\* No closure knows a slot outside the locals of the stack.
LEMMA NoneOutside ==
  ASSUME Known, Sound, fiber # "freed", NEW i, i # 0, i \notin 2..Height
  PROVE  At(i) = {}
<1>1. \A u \in OnList : ptr[u] \in 2..Height
  BY DEF Known, InScope
<1> QED BY <1>1 DEF At, Known, Reached

\* closeUpvalues leaves what closures know of the slots below alone.
LEMMA BelowKept ==
  ASSUME Known, Running, NEW n \in 0..Height, CloseUpvalues(n + 1), upvalue' = upvalue
  PROVE  \A i \in 1..n : At(i)' = At(i)
<1>0. /\ Ordered(open, ptr) /\ TypeOK /\ n + 1 \in Nat \ {0} /\ n \in Nat /\ Sound /\ fiber # "freed"
  BY SortedMeans DEF Known, Running, View
<1>1. /\ \A u \in OnList : ptr[u] >= n + 1 => ptr'[u] = 0
      /\ \A u \in Upvalue : u \notin OnList \/ ptr[u] < n + 1 => ptr'[u] = ptr[u]
  BY <1>0, Closing
<1>2. \A u \in OnList : ptr[u] \in Nat
  BY <1>0 DEF Known, TypeOK
<1> SUFFICES ASSUME NEW i \in 1..n, NEW c \in Closure
             PROVE  c \in At(i)' <=> c \in At(i)
  BY DEF At
<1>3. /\ c \in At(i)' <=> upvalue[c] # NULL /\ ptr'[upvalue[c]] = i
      /\ c \in At(i) <=> upvalue[c] # NULL /\ ptr[upvalue[c]] = i
  BY DEF At
<1>4. CASE upvalue[c] = NULL
  BY <1>3, <1>4
<1>5. CASE upvalue[c] # NULL
  <2>1. upvalue[c] \in Upvalue /\ i # 0 /\ i < n + 1 /\ ~ (i >= n + 1)
    BY <1>0, <1>5 DEF Known
  <2>2. CASE upvalue[c] \in OnList /\ ptr[upvalue[c]] >= n + 1
    BY <1>1, <1>3, <2>1, <2>2
  <2>3. CASE ~ (upvalue[c] \in OnList /\ ptr[upvalue[c]] >= n + 1)
    <3>1. upvalue[c] \notin OnList \/ ptr[upvalue[c]] < n + 1
      BY <1>0, <1>2, <2>3
    <3> QED BY <1>1, <1>3, <2>1, <3>1
  <2> QED BY <2>2, <2>3
<1> QED BY <1>4, <1>5

\* The locals above n are gone, and those below are as they were.
LEMMA Kept ==
  ASSUME Known, NEW n \in 0..Height, Height' = n,
         \A i \in 1..n : slots'[i] = slots[i], \A i \in 1..n : At(i)' = At(i)
  PROVE  Scope' = SubSeq(Scope, 1, n)
<1>1. /\ Scope \in Seq(Abstract!Variable) /\ Scope' \in Seq(Abstract!Variable)
      /\ Len(Scope) = Height /\ Len(Scope') = n /\ Height \in Nat
      /\ \A i \in 1..Height : Scope[i] = [value |-> slots[i], by |-> At(i)]
      /\ \A i \in 1..n : Scope'[i] = [value |-> slots'[i], by |-> At(i)']
  BY DEF Known, View
<1>2. \A i \in 1..n : i \in 1..Height
  BY <1>1
<1> HIDE DEF At
<1>3. \A i \in 1..n : Scope'[i] = Scope[i]
  BY <1>1, <1>2
<1> QED BY <1>1, <1>3, Shrunk

\* The end of the scope of a captured local.
LEMMA RefineClose ==
  ASSUME Known, CloseUpvalue
  PROVE  Abstract!Next
<1>0. /\ Running /\ sp > rbp /\ CloseUpvalues(sp) /\ sp' = sp - 1 /\ frames # <<>>
      /\ UNCHANGED <<slots, frames, upvalue>> /\ rbp \in Slot /\ sp \in 1..MaxSlots
  BY FrameTop DEF CloseUpvalue, Running, Known, FramesNested, TypeOK
<1>1. PICK n \in 1..MaxSlots : n + 1 = sp
  <2>1. sp - 1 \in 1..MaxSlots /\ (sp - 1) + 1 = sp
    BY <1>0 DEF Known
  <2> QED BY <2>1
<1>2. Height = n + 1 /\ Height' = n /\ n \in 0..Height /\ n \in 0..Len(Scope)
  BY <1>0, <1>1 DEF Height, Known, View
<1>3. CloseUpvalues(n + 1)
  BY <1>0, <1>1
<1>4. \A i \in 1..n : At(i)' = At(i)
  BY <1>0, <1>2, <1>3, BelowKept
<1>5. \A i \in 1..n : slots'[i] = slots[i]
  BY <1>0
<1>6. Abstract!Leave(n)
  BY <1>0, <1>2, <1>3, LeaveClosing
<1>7. Scope' = SubSeq(Scope, 1, n)
  BY <1>2, <1>4, <1>5, Kept
<1> QED BY <1>2, <1>6, <1>7 DEF Abstract!EndScope, Abstract!Next

\* The end of the scope of a local no closure captured.
LEMMA RefinePop ==
  ASSUME Known, PopLocal
  PROVE  Abstract!Next
<1>0. /\ Running /\ sp > rbp /\ sp' = sp - 1 /\ frames # <<>> /\ \A u \in OnList : ptr[u] # sp
      /\ UNCHANGED <<slots, frames, open, ptr, closed, upvalue>> /\ rbp \in Slot /\ sp \in 1..MaxSlots
  BY FrameTop DEF PopLocal, Running, Known, FramesNested, TypeOK
<1>1. PICK n \in 1..MaxSlots : n + 1 = sp
  <2>1. sp - 1 \in 1..MaxSlots /\ (sp - 1) + 1 = sp
    BY <1>0 DEF Known
  <2> QED BY <2>1
<1>2. Height = n + 1 /\ Height' = n /\ n \in 0..Height /\ n \in 0..Len(Scope)
  BY <1>0, <1>1 DEF Height, Known, View
<1>3. (\A i : At(i)' = At(i)) /\ Outlived' = Outlived
  BY <1>0 DEF At, Outlived, HeldBy, Held
<1>4. At(sp) = {}
  BY <1>0 DEF At, Known, Reached
<1>5. \A i \in (n + 1)..Height : At(i) = {}
  <2>1. \A i \in (n + 1)..Height : i = sp
    BY <1>1, <1>2
  <2> QED BY <1>4, <2>1
<1>6. Abstract!Leave(n)
  BY <1>2, <1>3, <1>5, LeaveUnknown
<1>7. Scope' = SubSeq(Scope, 1, n)
  BY <1>0, <1>2, <1>3, Kept
<1> QED BY <1>2, <1>6, <1>7 DEF Abstract!EndScope, Abstract!Next

\* A variable that no closure knows yet.
LEMMA FreshIs ==
  ASSUME NEW v \in Value
  PROVE  Abstract!Fresh(v) = [value |-> v, by |-> {}] /\ Abstract!Fresh(v) \in Abstract!Variable
<1>1. v \in Value /\ {} \in SUBSET Closure
  OBVIOUS
<1>2. [value |-> v, by |-> {}] \in Abstract!Variable
  BY <1>1 DEF Abstract!Variable
<1> QED BY <1>2 DEF Abstract!Fresh

\* A call: the return slot and the argument are the first locals of the callee.
LEMMA RefineCall ==
  ASSUME Known, NEW v \in Value, Call(v)
  PROVE  Abstract!Next
<1>0. /\ Running /\ Sound /\ fiber # "freed" /\ frames # <<>> /\ frames' # <<>>
      /\ sp \in 1..MaxSlots /\ sp + 2 \in 1..MaxSlots /\ sp' = sp + 2
      /\ slots' = [slots EXCEPT ![sp + 1] = Null, ![sp + 2] = v]
      /\ UNCHANGED <<open, ptr, closed, upvalue>>
  <2>1. frames \in Seq(Slot) /\ sp + 1 \in Slot /\ frames' = Append(frames, sp + 1)
        /\ sp \in 1..MaxSlots /\ sp + 2 <= MaxSlots /\ MaxSlots \in Nat
    BY DEF Call, Known, TypeOK
  <2>2. frames' # <<>> /\ sp + 2 \in 1..MaxSlots
    BY <2>1
  <2>3. /\ Running /\ sp' = sp + 2 /\ slots' = [slots EXCEPT ![sp + 1] = Null, ![sp + 2] = v]
        /\ UNCHANGED <<open, ptr, closed, upvalue>>
    BY DEF Call
  <2>4. Sound /\ fiber # "freed" /\ frames # <<>>
    BY <2>3 DEF Running, Known, FramesNested
  <2> QED BY <2>1, <2>2, <2>3, <2>4
<1>1. Height = sp /\ Height' = sp + 2
  BY <1>0 DEF Height
<1>2. (\A i : At(i)' = At(i)) /\ Outlived' = Outlived
  BY <1>0 DEF At, Outlived, HeldBy, Held
<1>3. At(sp + 1) = {} /\ At(sp + 2) = {}
  <2>1. sp + 1 # 0 /\ sp + 2 # 0 /\ sp + 1 \notin 2..Height /\ sp + 2 \notin 2..Height
    BY <1>0, <1>1
  <2> QED BY <1>0, <2>1, NoneOutside
<1>4. /\ Scope \in Seq(Abstract!Variable) /\ Scope' \in Seq(Abstract!Variable)
      /\ Len(Scope) = sp /\ Len(Scope') = sp + 2
      /\ \A i \in 1..sp : Scope[i] = [value |-> slots[i], by |-> At(i)]
      /\ \A i \in 1..(sp + 2) : Scope'[i] = [value |-> slots'[i], by |-> At(i)']
  BY <1>1 DEF Known, View
<1>5. /\ \A i \in 1..sp : slots'[i] = slots[i] /\ i \in 1..(sp + 2)
      /\ slots'[sp + 1] = Null /\ slots'[sp + 2] = v
      /\ sp + 1 \in 1..(sp + 2) /\ sp + 2 \in 1..(sp + 2)
  BY <1>0 DEF Known, TypeOK
<1> HIDE DEF At
<1>6. PICK x \in Abstract!Variable, y \in Abstract!Variable :
        /\ x = Abstract!Fresh(Null) /\ x = [value |-> Null, by |-> {}]
        /\ y = Abstract!Fresh(v) /\ y = [value |-> v, by |-> {}]
  BY FreshIs DEF Known
<1>7. (\A i \in 1..sp : Scope'[i] = Scope[i]) /\ Scope'[sp + 1] = x /\ Scope'[sp + 2] = y
  <2>1. \A i \in 1..sp : Scope'[i] = Scope[i]
    BY <1>2, <1>4, <1>5
  <2>2. Scope'[sp + 1] = x
    BY <1>2, <1>3, <1>4, <1>5, <1>6
  <2>3. Scope'[sp + 2] = y
    BY <1>2, <1>3, <1>4, <1>5, <1>6
  <2> QED BY <2>1, <2>2, <2>3
<1>8. Scope' = Scope \o <<x, y>>
  <2>1. PICK s \in Seq(Abstract!Variable), t \in Seq(Abstract!Variable) : s = Scope /\ t = Scope'
    BY <1>4
  <2>2. /\ Len(t) = Len(s) + 2 /\ \A i \in 1..Len(s) : t[i] = s[i]
        /\ t[Len(s) + 1] = x /\ t[Len(s) + 2] = y
    BY <1>4, <1>7, <2>1
  <2>3. t = s \o <<x, y>>
    <3>1. x \in Abstract!Variable /\ y \in Abstract!Variable
      BY <1>6
    <3>2. s \in Seq(Abstract!Variable) /\ t \in Seq(Abstract!Variable)
      BY <2>1
    <3> QED BY ONLY <2>2, <3>1, <3>2, GrownTwice
  <2> QED BY <2>1, <2>3
<1>9. Abstract!Declare(Null, v)
  BY <1>2, <1>6, <1>8 DEF Abstract!Declare
<1> QED BY <1>9 DEF Abstract!Next, Known

\* A tail call, of a function none of whose locals is captured.
LEMMA RefineTail ==
  ASSUME Known, ~CapturedTailCalls,
         NEW args \in {<<>>} \cup {<<v>> : v \in Value}, TailCall(args)
  PROVE  Abstract!Next
<1>0. /\ Running /\ Sound /\ fiber # "freed" /\ frames # <<>> /\ \A u \in OnList : ptr[u] <= rbp
      /\ sp \in 1..MaxSlots /\ rbp \in 1..MaxSlots /\ rbp <= sp
      /\ sp' = rbp + Len(args)
      /\ slots' = [i \in Slot |->
                     IF i \in (rbp + 1)..(rbp + Len(args)) THEN args[i - rbp]
                     ELSE IF i = sp + 1 THEN Null
                     ELSE IF i \in (sp + 2)..(sp + 1 + Len(args)) THEN args[i - sp - 1]
                     ELSE slots[i]]
      /\ UNCHANGED <<frames, open, ptr, closed, upvalue>>
  BY FrameTop DEF TailCall, Running, Known, FramesNested, TypeOK
<1>1. PICK n \in 1..MaxSlots : n = rbp
  BY <1>0
<1>2. Height = sp /\ n \in 0..Height /\ n \in 0..Len(Scope) /\ Height' = n + Len(args)
  BY <1>0, <1>1 DEF Height, Known, View
<1>3. (\A i : At(i)' = At(i)) /\ Outlived' = Outlived
  BY <1>0 DEF At, Outlived, HeldBy, Held
<1>4. \A i \in (n + 1)..MaxSlots : At(i) = {}
  <2>1. \A i \in (n + 1)..MaxSlots : i # 0 /\ \A u \in OnList : ptr[u] # i
    <3>1. \A u \in OnList : ptr[u] \in Nat
      BY <1>0 DEF Known, TypeOK
    <3> QED BY <1>0, <1>1, <3>1
  <2> QED BY <2>1 DEF At, Known, Reached
<1>5. Abstract!Leave(n)
  <2>1. \A i \in (n + 1)..Height : At(i) = {}
    <3>1. \A i \in (n + 1)..Height : i \in (n + 1)..MaxSlots
      BY <1>0, <1>1, <1>2 DEF Known
    <3> QED BY <1>4, <3>1
  <2> QED BY <1>2, <1>3, <2>1, LeaveUnknown
<1>6. /\ Scope \in Seq(Abstract!Variable) /\ Scope' \in Seq(Abstract!Variable)
      /\ Len(Scope) = sp /\ Len(Scope') = n + Len(args)
      /\ \A i \in 1..sp : Scope[i] = [value |-> slots[i], by |-> At(i)]
      /\ \A i \in 1..(n + Len(args)) : Scope'[i] = [value |-> slots'[i], by |-> At(i)']
  BY <1>2 DEF Known, View
<1>7. \A i \in 1..n : slots'[i] = slots[i] /\ i \in 1..sp
  BY <1>0, <1>1 DEF Known
<1> HIDE DEF At
<1>8. CASE args = <<>>
  <2>1. Len(args) = 0 /\ n + Len(args) = n
    BY <1>8
  <2>2. Scope' = SubSeq(Scope, 1, n)
    BY <1>2, <1>3, <1>7, <2>1, Kept
  <2>3. Abstract!EndScope(n)
    BY <1>5, <2>2 DEF Abstract!EndScope
  <2> QED BY <1>2, <2>3 DEF Abstract!Next
<1>9. CASE args # <<>>
  <2>1. PICK v \in Value : args = <<v>>
    BY <1>9
  <2>2. Len(args) = 1 /\ args[1] = v /\ DOMAIN args = {1} /\ n + Len(args) = n + 1
    BY <2>1
  <2>3. n + 1 \in Slot /\ slots'[n + 1] = v
    <3>1. n + 1 \in Slot /\ n + 1 \in (rbp + 1)..(rbp + Len(args)) /\ (n + 1) - rbp = 1
      BY <1>0, <1>1, <1>2, <2>2 DEF Known, TypeOK
    <3> QED BY <1>0, <2>2, <3>1
  <2>4. PICK x \in Abstract!Variable : x = Abstract!Fresh(v) /\ x = [value |-> v, by |-> {}]
    BY FreshIs
  <2>5. PICK base : /\ base = SubSeq(Scope, 1, n)
                    /\ base \in Seq(Abstract!Variable) /\ Len(base) = n
                    /\ \A i \in 1..n : base[i] = Scope[i]
    <3>1. PICK s \in Seq(Abstract!Variable) : s = Scope
      BY <1>6
    <3>2. n \in 0..Len(s)
      BY <1>2, <3>1
    <3>3. /\ SubSeq(s, 1, n) \in Seq(Abstract!Variable) /\ Len(SubSeq(s, 1, n)) = n
          /\ \A i \in 1..n : SubSeq(s, 1, n)[i] = s[i]
      BY <3>2, FrontIs
    <3> QED BY <3>1, <3>3
  <2>6. /\ \A i \in 1..n : Scope'[i] = base[i]
        /\ Scope'[n + 1] = x
    <3>1. At(n + 1) = {}
      BY <1>4, <2>3 DEF Known
    <3>2. \A i \in 1..n : i \in 1..(n + 1) /\ i \in 1..sp
      BY <1>7
    <3>3. n + 1 \in 1..(n + 1)
      OBVIOUS
    <3>4. \A i \in 1..n : Scope'[i] = [value |-> slots[i], by |-> At(i)]
      BY <1>3, <1>6, <1>7, <2>2, <3>2
    <3>5. \A i \in 1..n : Scope'[i] = base[i]
      BY <1>6, <2>5, <3>2, <3>4
    <3>6. Scope'[n + 1] = [value |-> v, by |-> {}]
      BY <1>3, <1>6, <2>2, <2>3, <3>1, <3>3
    <3> QED BY <2>4, <3>5, <3>6
  <2>7. Scope' = Append(base, x)
    BY <1>6, <2>2, <2>5, <2>6, Grown
  <2>8. [i \in DOMAIN args |-> Abstract!Fresh(args[i])] = <<x>>
    <3>1. [i \in DOMAIN args |-> Abstract!Fresh(args[i])] = [i \in {1} |-> x]
      BY <2>2, <2>4
    <3>2. <<x>> = [i \in {1} |-> x]
      OBVIOUS
    <3> QED BY <3>1, <3>2
  <2>9. Append(base, x) = base \o <<x>>
    BY <2>5
  <2>10. Abstract!TailCall(n, args)
    BY <1>5, <2>5, <2>7, <2>8, <2>9 DEF Abstract!TailCall
  <2> QED BY <1>2, <2>10 DEF Abstract!Next
<1> QED BY <1>8, <1>9

\* A return: the result goes to the return slot, the last local of the caller.
LEMMA RefineReturn ==
  ASSUME Known, NEW v \in Value, Return(v)
  PROVE  Abstract!Next
<1>0. /\ Running /\ Sound /\ fiber = "running" /\ frames # <<>> /\ frames \in Seq(Slot)
      /\ CloseUpvalues(rbp + 1) /\ slots' = [slots EXCEPT ![rbp] = v] /\ upvalue' = upvalue
      /\ sp' = (IF Len(frames) = 1 THEN sp ELSE rbp)
      /\ frames' = SubSeq(frames, 1, Len(frames) - 1)
      /\ rbp \in 1..MaxSlots /\ rbp <= sp /\ sp \in 1..MaxSlots /\ Height = sp
  <2>1. Running /\ Sound /\ fiber = "running" /\ frames # <<>> /\ frames \in Seq(Slot)
    BY DEF Return, Running, Known, FramesNested, TypeOK
  <2>2. rbp \in 1..MaxSlots /\ rbp <= sp /\ sp \in 1..MaxSlots
    BY <2>1, FrameTop DEF Known, TypeOK
  <2> QED BY <2>1, <2>2 DEF Return, Height
<1>1. PICK n \in 1..MaxSlots : n = rbp
  BY <1>0
<1>2. n \in 0..Height /\ n \in 0..Len(Scope) /\ n \in DOMAIN Scope /\ n \in 1..Height
      /\ CloseUpvalues(n + 1)
  BY <1>0, <1>1 DEF Known, View
<1>3. \A i \in 1..n : At(i)' = At(i)
  BY <1>0, <1>2, BelowKept
<1>4. Abstract!Leave(n)
  BY <1>0, <1>2, LeaveClosing
<1>5. /\ DOMAIN frames' = 1..(Len(frames) - 1)
      /\ Len(frames) \in Nat /\ Len(frames) >= 1
  BY <1>0, Front
<1>6. CASE Len(frames) = 1
  <2>1. frames' = <<>> /\ Height' = 0
    BY <1>0, <1>6 DEF Height
  <2>2. n = 1
    BY <1>0, <1>1, <1>6 DEF Known, FirstFrame, rbp
  <2>3. At(1) = {}
    <3>1. 1 # 0 /\ 1 \notin 2..Height
      BY <1>0
    <3> QED BY <1>0, <3>1, NoneOutside
  <2>4. /\ Scope[1].by = {} /\ 0 \in 0..Len(Scope)
        /\ {Scope[i] : i \in (0 + 1)..Len(Scope)} = {Scope[1]} \cup {Scope[i] : i \in (n + 1)..Len(Scope)}
    <3>1. Scope[1] = [value |-> slots[1], by |-> At(1)] /\ Len(Scope) = Height /\ 1 \in 1..Height
      BY <1>2, <2>2 DEF Known, View
    <3>2. (0 + 1)..Len(Scope) = {1} \cup (n + 1)..Len(Scope)
      BY <1>0, <2>2, <3>1
    <3>3. 0 \in 0..Len(Scope)
      BY <1>0, <3>1
    <3> QED BY <2>3, <3>1, <3>2, <3>3
  <2>5. Abstract!Leave(0)
    BY <1>4, <2>4 DEF Abstract!Leave, Abstract!Surviving
  <2>6. Scope' = SubSeq(Scope, 1, 0)
    <3>1. 0 \in 0..Height /\ \A i \in 1..0 : slots'[i] = slots[i] /\ At(i)' = At(i)
      BY <1>0
    <3> QED BY <2>1, <3>1, Kept
  <2> QED BY <2>4, <2>5, <2>6 DEF Abstract!EndScope, Abstract!Next
<1>7. CASE Len(frames) > 1
  <2>1. frames' # <<>> /\ sp' = n /\ Height' = n
    <3>0. Len(frames) # 1 /\ 1 \in 1..(Len(frames) - 1)
      BY <1>0, <1>7
    <3>1. Len(frames) # 1 /\ 1 \in DOMAIN frames'
      BY <1>5, <3>0
    <3>2. frames' # <<>>
      BY <3>1
    <3> QED BY <1>0, <1>1, <3>1, <3>2 DEF Height
  <2>2. /\ Scope \in Seq(Abstract!Variable) /\ Scope' \in Seq(Abstract!Variable)
        /\ Len(Scope) = sp /\ Len(Scope') = n
        /\ Scope = [i \in 1..sp |-> [value |-> slots[i], by |-> At(i)]]
        /\ Scope' = [i \in 1..n |-> [value |-> slots'[i], by |-> At(i)']]
    BY <1>0, <2>1 DEF Known, View
  <2>3. \A i \in 1..n : slots'[i] = (IF i = n THEN v ELSE slots[i]) /\ i \in 1..sp
    BY <1>0, <1>1, <1>2 DEF Known, TypeOK
  <2>4. PICK base : base = SubSeq(Scope, 1, n) /\ base = [i \in 1..n |-> [value |-> slots[i], by |-> At(i)]]
    <3>1. PICK s \in Seq(Abstract!Variable) : s = Scope
      BY <2>2
    <3>2. n \in 0..Len(s)
      BY <1>2, <3>1
    <3>3. /\ SubSeq(s, 1, n) \in Seq(Abstract!Variable) /\ Len(SubSeq(s, 1, n)) = n
          /\ \A i \in 1..n : SubSeq(s, 1, n)[i] = s[i]
      BY <3>2, FrontIs
    <3>4. PICK r \in Seq(Abstract!Variable) : r = SubSeq(s, 1, n) /\ Len(r) = n /\ \A i \in 1..n : r[i] = s[i]
      BY <3>3
    <3> HIDE DEF At
    <3>5. r = [i \in 1..n |-> s[i]]
      BY <3>4
    <3>6. \A i \in 1..n : s[i] = [value |-> slots[i], by |-> At(i)]
      BY <2>2, <2>3, <3>1
    <3>7. [i \in 1..n |-> s[i]] = [i \in 1..n |-> [value |-> slots[i], by |-> At(i)]]
      BY <3>6
    <3> QED BY <3>1, <3>4, <3>5, <3>7
  <2> HIDE DEF At
  <2>5. Scope' = [base EXCEPT ![n].value = v]
    <3>1. \A i \in 1..n : base[i] = [value |-> slots[i], by |-> At(i)]
      BY <2>4
    <3>2. DOMAIN base = 1..n /\ n \in 1..n
      BY <2>4
    <3>3. [base[n] EXCEPT !.value = v] = [value |-> v, by |-> At(n)]
      BY <3>1, <3>2
    <3>4. \A i \in 1..n : [value |-> slots'[i], by |-> At(i)'] =
                           IF i = n THEN [base[n] EXCEPT !.value = v] ELSE base[i]
      BY <1>3, <2>3, <3>1, <3>3
    <3>5. Scope' = [i \in 1..n |-> IF i = n THEN [base[n] EXCEPT !.value = v] ELSE base[i]]
      BY <2>2, <3>4
    <3>6. [base EXCEPT ![n].value = v] = [i \in 1..n |-> IF i = n THEN [base[n] EXCEPT !.value = v] ELSE base[i]]
      <4>1. base = [i \in 1..n |-> base[i]]
        BY <2>4
      <4> QED BY <3>2, <4>1
    <3> QED BY <3>5, <3>6
  <2>6. Abstract!Return(n, v)
    BY <1>4, <2>4, <2>5 DEF Abstract!Return
  <2> QED BY <1>2, <2>6 DEF Abstract!Next
<1> QED BY <1>5, <1>6, <1>7, Compare

\* Another fiber.
LEMMA RefineRestart ==
  ASSUME Known, NewFiber
  PROVE  Abstract!Next
<1>0. /\ Sound /\ fiber = "freed" /\ slots' = [i \in Slot |-> Null] /\ sp' = 1 /\ frames' = <<1>>
      /\ UNCHANGED <<ptr, closed, upvalue>> /\ 1 \in Slot /\ <<1>> # <<>>
  BY DEF NewFiber, Known
<1>1. Height' = 1 /\ slots'[1] = Null
  BY <1>0 DEF Height
<1>2. (\A i : At(i)' = At(i)) /\ Outlived' = Outlived
  BY <1>0 DEF At, Outlived, HeldBy, Held
<1>3. \A i \in 1..MaxSlots : At(i) = {}
  <2>1. \A u \in Held : ptr[u] = 0
    BY <1>0 DEF Known, OrphansClosed
  <2>2. \A i \in 1..MaxSlots : i # 0
    BY DEF Known
  <2> QED BY <2>1, <2>2 DEF At, Known
<1>4. Abstract!Leave(0)
  <2>1. 0 \in 0..Height /\ \A i \in (0 + 1)..Height : i \in 1..MaxSlots
    BY DEF Known, View
  <2>2. \A i \in (0 + 1)..Height : At(i) = {}
    BY <1>3, <2>1
  <2> QED BY <1>2, <2>1, <2>2, LeaveUnknown
<1>5. Scope' = <<Abstract!Fresh(Null)>>
  <2>1. PICK x \in Abstract!Variable : x = Abstract!Fresh(Null) /\ x = [value |-> Null, by |-> {}]
    BY FreshIs DEF Known
  <2>2. At(1)' = {}
    BY <1>0, <1>2, <1>3 DEF Known
  <2>3. Scope' = [i \in 1..1 |-> [value |-> slots'[i], by |-> At(i)']]
    BY <1>1 DEF Known, View
  <2> HIDE DEF At
  <2>4. \A i \in 1..1 : [value |-> slots'[i], by |-> At(i)'] = x
    BY <1>1, <2>1, <2>2
  <2>5. Scope' = [i \in 1..1 |-> x]
    BY <2>3, <2>4
  <2>6. <<x>> = [i \in 1..1 |-> x]
    OBVIOUS
  <2> QED BY <2>1, <2>5, <2>6
<1>6. Abstract!Restart(Null)
  BY <1>4, <1>5 DEF Abstract!Restart
<1> QED BY <1>6 DEF Abstract!Next, Known

\* Errors, the collector and stuttering steps leave every variable alone.
LEMMA RefineStill ==
  ASSUME UNCHANGED <<slots, sp, frames, open, ptr, closed, upvalue>>
  PROVE  UNCHANGED <<Scope, Outlived>>
BY DEF Scope, Outlived, HeldBy, Held, OnList

LEMMA RefineStep ==
  ASSUME ~CapturedTailCalls, ScopeInv, ScopeInv', [Next]_vars
  PROVE  [Abstract!Next]_(Abstract!vars)
<1>0. Known
  BY KnownIs
<1>1. CASE Abstract!Next
  BY <1>1
<1>2. CASE UNCHANGED <<Scope, Outlived>>
  BY <1>2 DEF Abstract!vars
<1>3. CASE Fail \/ FreeFiber \/ Collect \/ UNCHANGED vars
  <2>1. UNCHANGED <<slots, sp, frames, open, ptr, closed, upvalue>>
    BY <1>3 DEF Fail, FreeFiber, Collect, vars
  <2> QED BY <1>2, <2>1, RefineStill
<1>4. ASSUME Next, ~Fail, ~FreeFiber, ~Collect
      PROVE  Abstract!Next
  BY <1>0, <1>4, RefinePush, RefineStore, RefineCapture, RefineShare, RefineAssign, RefineClose,
     RefinePop, RefineCall, RefineTail, RefineReturn, RefineRestart, RefineDrop DEF Next
<1> QED BY <1>1, <1>3, <1>4

LEMMA ScopeInit == Init => ScopeInv /\ Abstract!Init
<1> SUFFICES ASSUME Init PROVE ScopeInv /\ Abstract!Init
  OBVIOUS
<1>1. UpvalueInv
  BY InitInv
<1>2. OnList = {} /\ Held = {} /\ \A c \in Closure : upvalue[c] = NULL
  BY DEF Init, OnList, Held
<1>3. frames[1] = 1 /\ frames # <<>>
  BY DEF Init
<1>4. ScopeInv
  BY <1>1, <1>2, <1>3 DEF ScopeInv, Reached, InScope, FirstFrame
<1>5. View
  BY <1>1, <1>4, ViewIs DEF UpvalueInv, ScopeInv
<1>6. Height = 1 /\ slots[1] = Null /\ At(1) = {} /\ Outlived = {} /\ Null \in Value
  <2>1. 1 \in Slot /\ Null \in Value
    BY Constants
  <2> QED BY <1>2, <1>3, <2>1 DEF Init, Height, At, Outlived
<1>7. Scope = <<Abstract!Fresh(Null)>>
  <2>1. PICK x : x = Abstract!Fresh(Null) /\ x = [value |-> Null, by |-> {}]
    BY <1>6, FreshIs
  <2>2. Scope = [i \in 1..1 |-> [value |-> slots[i], by |-> At(i)]]
    BY <1>5, <1>6 DEF View
  <2> HIDE DEF At
  <2>3. \A i \in 1..1 : [value |-> slots[i], by |-> At(i)] = x
    BY <1>6, <2>1
  <2>4. Scope = [i \in 1..1 |-> x]
    BY <2>2, <2>3
  <2>5. <<x>> = [i \in 1..1 |-> x]
    OBVIOUS
  <2> QED BY <2>1, <2>4, <2>5
<1> QED BY <1>4, <1>6, <1>7 DEF Abstract!Init

\* As long as no frame with captured locals makes a tail call, every closure
\* that captured a variable and the function that declared it read and write one
\* and the same value, through captures, shared upvalues, scope ends, returns,
\* errors, collections and new fibers, up to the first pointer into freed memory
\* (PUSH_CLOSURE, PUSH_UPVALUE, STORE_UPVALUE, CLOSE_UPVALUE, CALL and RETURN of vmRunFiber).
THEOREM UpvaluesImplement == ASSUME ~CapturedTailCalls PROVE Spec => Implements
<1>1. Init => ScopeInv /\ Abstract!Init
  BY ScopeInit
<1>2. ScopeInv /\ [Next]_vars => ScopeInv'
  BY ScopeStep
<1>3. ScopeInv /\ ScopeInv' /\ [Next]_vars => [Abstract!Next]_(Abstract!vars)
  BY RefineStep
<1> QED BY <1>1, <1>2, <1>3, PTL DEF Spec, Implements, Abstract!Spec


=============================================================================
