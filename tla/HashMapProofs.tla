--------------------------- MODULE HashMapProofs ----------------------------
(***************************************************************************)
(* Theorems about the Map type, for any keys and values and any minimum    *)
(* capacity of two or more: the load of a table stays within               *)
(* MAP_LOAD_PERCENT whatever the hashes and the notion of equality; and    *)
(* where equal keys have equal hashes, a map is a list of pairs in the     *)
(* order their keys were first set.                                        *)
(***************************************************************************)
EXTENDS HashMapRefinement, FiniteSetTheorems, FunctionTheorems, SequenceTheorems, WellFoundedInduction, TLAPS

-----------------------------------------------------------------------------
(* The load *)

\* A map is empty of memory or has at least the minimum.
CapacityInv ==
  /\ count \in Int
  /\ capacity \in Nat
  /\ (capacity = 0 /\ count = 0) \/ capacity >= MinCapacity
  /\ LoadBounded

LEMMA Minimum == MinCapacity \in Nat /\ MinCapacity >= 2
  BY MapAssumption DEF MapAssumption

LEMMA LoadDoubles ==
  ASSUME NEW n \in Nat, n >= 2
  PROVE  /\ Load(n) \in Nat
         /\ Load(n) >= 1
         /\ Load(2 * n) >= Load(n) + 1
<1>1. ASSUME NEW a \in Nat, NEW b \in Nat,
             100 * a <= n * 75, n * 75 < 100 * a + 100,
             100 * b <= (2 * n) * 75, (2 * n) * 75 < 100 * b + 100
      PROVE  a >= 1 /\ b >= a + 1
  BY <1>1
<1>2. /\ Load(n) \in Nat
      /\ 100 * Load(n) <= n * 75
      /\ n * 75 < 100 * Load(n) + 100
  BY DEF Load
<1>3. /\ Load(2 * n) \in Nat
      /\ 100 * Load(2 * n) <= (2 * n) * 75
      /\ (2 * n) * 75 < 100 * Load(2 * n) + 100
  BY DEF Load
<1> QED
  BY <1>1, <1>2, <1>3

\* Growing leaves room for one more entry.
LEMMA GrownHasRoom ==
  ASSUME CapacityInv
  PROVE  /\ Grown \in Nat
         /\ Grown >= MinCapacity
         /\ count + 1 <= Load(Grown)
<1>1. CASE count + 1 > Load(capacity)
  <2>1. CASE capacity = 0
    <3>1. count <= 0
      BY <2>1 DEF CapacityInv, LoadBounded, Load
    <3>2. Grown = MinCapacity
      BY <1>1, <2>1, Minimum DEF Grown
    <3>3. Load(MinCapacity) \in Nat /\ Load(MinCapacity) >= 1
      BY Minimum, LoadDoubles
    <3> QED
      BY <3>1, <3>2, <3>3, Minimum DEF CapacityInv
  <2>2. CASE capacity >= MinCapacity
    <3>1. Grown = 2 * capacity
      BY <1>1, <2>2, Minimum DEF Grown, CapacityInv
    <3>2. Load(capacity) \in Nat /\ Load(2 * capacity) >= Load(capacity) + 1
      BY <2>2, Minimum, LoadDoubles DEF CapacityInv
    <3>3. Load(2 * capacity) \in Int
      BY DEF Load, CapacityInv
    <3> QED
      BY <2>2, <3>1, <3>2, <3>3, Minimum DEF CapacityInv, LoadBounded
  <2> QED
    BY <2>1, <2>2 DEF CapacityInv
<1>2. CASE ~(count + 1 > Load(capacity))
  <2>1. count + 1 <= Load(capacity) /\ Grown = capacity
    BY <1>2 DEF CapacityInv, Grown, Load
  <2>2. capacity # 0
    <3>1. SUFFICES ASSUME capacity = 0 PROVE FALSE
      OBVIOUS
    <3>2. Load(0) = 0
      BY DEF Load
    <3> QED
      BY <2>1, <3>1, <3>2, Minimum DEF CapacityInv
  <2> QED
    BY <2>1, <2>2 DEF CapacityInv
<1> QED
  BY <1>1, <1>2

\* Shrinking leaves room for the entries that are left.
LEMMA ShrunkHasRoom ==
  ASSUME CapacityInv, capacity > 0
  PROVE  /\ Shrunk(count - 1) \in Nat
         /\ Shrunk(count - 1) >= MinCapacity
         /\ count - 1 <= Load(Shrunk(count - 1))
  BY Minimum DEF CapacityInv, Shrunk, Load, LoadBounded

LEMMA ClearKeepsCapacity == CapacityInv /\ Clear => CapacityInv'
  BY DEF CapacityInv, Clear, Load, LoadBounded

LEMMA CapacityStep == CapacityInv /\ [Next]_vars => CapacityInv'
<1> SUFFICES ASSUME CapacityInv, [Next]_vars PROVE CapacityInv'
  OBVIOUS
<1>1. ASSUME NEW k, NEW v, Set(k, v) PROVE CapacityInv'
  <2>1. capacity' = Grown /\ count' \in {count, count + 1}
    BY <1>1 DEF Set
  <2>2. Load(Grown) \in Int
    BY GrownHasRoom DEF Load
  <2>3. count' <= Load(Grown)
    BY <2>1, <2>2, GrownHasRoom DEF CapacityInv
  <2> QED
    BY <2>1, <2>3, GrownHasRoom DEF CapacityInv, LoadBounded, Load
<1>2. ASSUME NEW v \in Value, Add(v) PROVE CapacityInv'
  BY <1>1, <1>2 DEF Add
<1>3. ASSUME NEW k \in Key, RemoveKey(k) PROVE CapacityInv'
  <2>1. CASE count = 1
    BY <1>3, <2>1, ClearKeepsCapacity DEF RemoveKey
  <2>2. CASE count # 1
    <3>1. capacity > 0 /\ capacity' = Shrunk(count - 1) /\ count' = count - 1
      BY <1>3, <2>2 DEF RemoveKey
    <3> QED
      BY <3>1, ShrunkHasRoom DEF CapacityInv, LoadBounded, Load
  <2> QED
    BY <2>1, <2>2
<1>4. CASE Clear
  BY <1>4, ClearKeepsCapacity
<1>5. CASE UNCHANGED vars
  BY <1>5 DEF vars, CapacityInv, LoadBounded, Load
<1> QED
  BY <1>1, <1>2, <1>3, <1>4, <1>5 DEF Next

\* However a map grows and shrinks, at least a quarter of its table holds no
\* entry (mapSet, mapRemoveKey, mapClear), so that the probing of _mapFindEntry
\* finds a free slot or a tombstone to insert at.
THEOREM LoadCorrect == Spec => []LoadBounded
<1>1. Init => CapacityInv
  BY DEF Init, CapacityInv, LoadBounded, Load
<1>2. CapacityInv => LoadBounded
  BY DEF CapacityInv
<1> QED
  BY <1>1, <1>2, CapacityStep, PTL DEF Spec

-----------------------------------------------------------------------------
(* Numbers *)

LEMMA LeastIn ==
  ASSUME NEW S \in SUBSET Nat, S # {}
  PROVE  \E i \in S : \A j \in S : i <= j
<1> DEFINE R == OpToRel(<, Nat)
<1>1. IsWellFoundedOn(R, Nat)
  BY NatLessThanWellFounded
<1>2. \A x, y \in Nat : <<x, y>> \in R <=> x < y
  BY DEF OpToRel
<1> HIDE DEF R
<1>3. PICK x \in S : \A y \in S : ~ (<<y, x>> \in R)
  BY <1>1, WFMin
<1>4. \A y \in S : ~ (y < x)
  BY <1>2, <1>3
<1>5. \A y \in S : x <= y
  BY <1>4
<1> QED BY <1>5

LEMMA NatInduct ==
  ASSUME NEW S, 0 \in S, \A n \in Nat : n \in S => n + 1 \in S
  PROVE  Nat \subseteq S
<1> DEFINE T == Nat \ S
<1>1. ASSUME T # {} PROVE FALSE
  <2>1. PICK i \in T : \A j \in T : i <= j
    BY <1>1, LeastIn
  <2>2. i \in Nat /\ i # 0 /\ i \notin S
    BY <2>1
  <2>3. i - 1 \in Nat /\ i - 1 \notin T /\ (i - 1) + 1 = i
    BY <2>1, <2>2
  <2> QED BY <2>2, <2>3
<1> QED BY <1>1

LEMMA MinIn ==
  ASSUME NEW S \in SUBSET Nat, S # {}
  PROVE  Min(S) \in S /\ \A j \in S : Min(S) <= j
BY LeastIn DEF Min

LEMMA DivMod ==
  ASSUME NEW a \in Int, NEW n \in Nat \ {0}
  PROVE  a % n \in 0..(n - 1) /\ a \div n \in Int /\ a = n * (a \div n) + (a % n)
<1>1. a % n \in 0..(n - 1)
  OBVIOUS
<1>2. a \div n \in Int
  OBVIOUS
<1>3. a = n * (a \div n) + (a % n)
  OBVIOUS
<1> QED BY <1>1, <1>2, <1>3

LEMMA SameQuotient ==
  ASSUME NEW n \in Nat \ {0}, NEW p \in Int, NEW q \in Int, NEW r \in 0..(n - 1), NEW s \in 0..(n - 1),
         n * p + r = n * q + s
  PROVE  p = q /\ r = s
<1>1. n * (p - q) = s - r
  OBVIOUS
<1>2. p - q < 1
  <2> SUFFICES ASSUME p - q >= 1 PROVE FALSE
    OBVIOUS
  <2>1. n * (p - q) >= n
    OBVIOUS
  <2> QED BY <1>1, <2>1
<1>3. p - q > -1
  <2> SUFFICES ASSUME p - q <= -1 PROVE FALSE
    OBVIOUS
  <2>1. n * (p - q) <= -n
    OBVIOUS
  <2> QED BY <1>1, <2>1
<1>4. p = q
  BY <1>2, <1>3
<1> QED BY <1>4

LEMMA ModIs ==
  ASSUME NEW n \in Nat \ {0}, NEW q \in Int, NEW r \in 0..(n - 1)
  PROVE  (n * q + r) % n = r
<1> DEFINE a == n * q + r
<1>1. a \in Int
  OBVIOUS
<1> HIDE DEF a
<1>2. PICK p \in Int, s \in 0..(n - 1) : a = n * p + s /\ s = a % n
  BY <1>1, DivMod
<1>3. a = n * q + r
  BY DEF a
<1>4. a % n = r
  BY <1>2, <1>3, SameQuotient
<1> QED BY <1>4 DEF a

LEMMA Wrap ==
  ASSUME NEW n \in Nat \ {0}, NEW h \in Nat, NEW i \in 0..(n - 1)
  PROVE  (h + i) % n = IF (h % n) + i < n THEN (h % n) + i ELSE (h % n) + i - n
<1> DEFINE q == h \div n
           r == h % n
<1>1. q \in Int /\ r \in 0..(n - 1) /\ h = n * q + r
  BY DivMod
<1> HIDE DEF q, r
<1>2. CASE r + i < n
  <2>1. h + i = n * q + (r + i) /\ r + i \in 0..(n - 1)
    BY <1>1, <1>2
  <2>2. (n * q + (r + i)) % n = r + i
    BY <1>1, <2>1, ModIs
  <2> QED BY <1>2, <2>1, <2>2 DEF r
<1>3. CASE ~(r + i < n)
  <2>1. h + i = n * (q + 1) + (r + i - n) /\ r + i - n \in 0..(n - 1) /\ q + 1 \in Int
    BY <1>1, <1>3
  <2>2. (n * (q + 1) + (r + i - n)) % n = r + i - n
    BY <2>1, ModIs
  <2> QED BY <1>3, <2>1, <2>2 DEF r
<1> QED BY <1>2, <1>3

-----------------------------------------------------------------------------
(* Probing *)

\* The slots a search for k visits are all slots of the table, each once.
LEMMA SlotIn ==
  ASSUME NEW n \in Nat \ {0}, NEW k \in Key, NEW i \in 0..(n - 1)
  PROVE  Slot(n, k, i) \in 0..(n - 1)
<1>1. Hash[k] + i \in Int
  BY MapAssumption
<1> QED BY <1>1, DivMod DEF Slot

LEMMA SlotOnce ==
  ASSUME NEW n \in Nat \ {0}, NEW k \in Key, NEW i \in 0..(n - 1), NEW j \in 0..(n - 1), Slot(n, k, i) = Slot(n, k, j)
  PROVE  i = j
<1>1. PICK h \in Nat : h = Hash[k]
  BY MapAssumption
<1>2. PICK r \in 0..(n - 1) : r = h % n
  <2>1. h \in Int
    OBVIOUS
  <2>2. h % n \in 0..(n - 1)
    BY <2>1, DivMod
  <2> QED BY <2>2
<1>3. Slot(n, k, i) = IF r + i < n THEN r + i ELSE r + i - n
  BY <1>1, <1>2, Wrap DEF Slot
<1>4. Slot(n, k, j) = IF r + j < n THEN r + j ELSE r + j - n
  BY <1>1, <1>2, Wrap DEF Slot
<1>5. (IF r + i < n THEN r + i ELSE r + i - n) = (IF r + j < n THEN r + j ELSE r + j - n)
  BY <1>3, <1>4
<1> QED BY <1>5

LEMMA SlotAll ==
  ASSUME NEW n \in Nat \ {0}, NEW k \in Key, NEW p \in 0..(n - 1)
  PROVE  \E i \in 0..(n - 1) : Slot(n, k, i) = p
<1>1. PICK h \in Nat : h = Hash[k]
  BY MapAssumption
<1>2. PICK r \in 0..(n - 1) : r = h % n
  <2>1. h \in Int
    OBVIOUS
  <2>2. h % n \in 0..(n - 1)
    BY <2>1, DivMod
  <2> QED BY <2>2
<1> DEFINE i == IF p >= r THEN p - r ELSE p - r + n
<1>3. i \in 0..(n - 1) /\ p = IF r + i < n THEN r + i ELSE r + i - n
  OBVIOUS
<1> HIDE DEF i
<1>4. Slot(n, k, i) = p
  BY <1>1, <1>2, <1>3, Wrap DEF Slot
<1> QED BY <1>3, <1>4

-----------------------------------------------------------------------------
(* Tables *)

Pair == [key : Key, value : Value]

Taken(t, n) == {p \in 0..(n - 1) : t[p].key # Undef}
Contents(t, n) == {t[p] : p \in Taken(t, n)}

\* On the way of a search for the key of an entry no slot was never used.
NoGap(t, n) ==
  \A p \in Taken(t, n) : \A i, j \in 0..(n - 1) :
    Slot(n, t[p].key, i) = p /\ j < i => t[Slot(n, t[p].key, j)] # Free

Apart(t, n) == \A p, q \in Taken(t, n) : <<t[p].key, t[q].key>> \in Equal => p = q

Sound(t, n) == t \in [0..(n - 1) -> Entry] /\ NoGap(t, n) /\ Apart(t, n)

LEMMA EntryParts ==
  \A e \in Entry : /\ e.key # Undef => e \in Pair /\ e.key \in Key /\ e # Free
                   /\ e.key = Undef => e \notin Pair
<1>1. \A e \in Pair : e.key \in Key /\ e.key # Undef
  BY MapAssumption DEF Pair
<1>2. Free.key = Undef /\ Tombstone.key = Undef
  BY DEF Free, Tombstone
<1> QED BY <1>1, <1>2 DEF Entry, Pair

LEMMA SlotSame ==
  ASSUME KeysAgree, NEW k \in Key, NEW l \in Key, <<k, l>> \in Equal, NEW n, NEW i
  PROVE  Slot(n, k, i) = Slot(n, l, i)
  BY DEF KeysAgree, Slot

LEMMA EndsIn ==
  ASSUME NEW n, NEW t, NEW k, Ends(t, n, k) # {}
  PROVE  Min(Ends(t, n, k)) \in Ends(t, n, k) /\ \A j \in Ends(t, n, k) : Min(Ends(t, n, k)) <= j
<1>1. Ends(t, n, k) \in SUBSET Nat
  BY DEF Ends
<1> QED BY <1>1, MinIn

\* A search that finds an entry finds one with an equal key.
LEMMA FoundIn ==
  ASSUME NEW n \in Nat \ {0}, NEW t, Sound(t, n), NEW k \in Key, Found(t, n, k)
  PROVE  /\ EntryOf(t, n, k) \in Taken(t, n) /\ EntryOf(t, n, k) \in 0..(n - 1)
         /\ <<t[EntryOf(t, n, k)].key, k>> \in Equal
<1> DEFINE i == Min(Ends(t, n, k))
<1>1. i \in 0..(n - 1)
  BY EndsIn DEF Found, Ends
<1>2. Slot(n, k, i) \in 0..(n - 1)
  BY <1>1, SlotIn
<1>3. Holds(t[Slot(n, k, i)], k)
  BY DEF Found
<1> QED BY <1>2, <1>3 DEF EntryOf, Taken, Holds

\* If there is such an entry the search finds it.
LEMMA EntryOfIs ==
  ASSUME KeysAgree, NEW n \in Nat \ {0}, NEW t, Sound(t, n), NEW k \in Key, NEW p \in Taken(t, n), <<t[p].key, k>> \in Equal
  PROVE  Found(t, n, k) /\ EntryOf(t, n, k) = p
<1> DEFINE q == t[p].key
           E == Ends(t, n, k)
           m == Min(E)
<1>1. p \in 0..(n - 1) /\ q \in Key /\ q # Undef
  BY EntryParts DEF Taken, Sound
<1>2. PICK i \in 0..(n - 1) : Slot(n, k, i) = p
  BY <1>1, SlotAll
<1>3. i \in E
  BY <1>1, <1>2 DEF Ends, Holds
<1>4. m \in E /\ m <= i
  BY <1>3, EndsIn
<1>5. m \in 0..(n - 1) /\ (t[Slot(n, k, m)] = Free \/ Holds(t[Slot(n, k, m)], k))
  BY <1>4 DEF Ends
<1> HIDE DEF E, m
<1>6. CASE m = i
  <2>1. Slot(n, k, m) = p /\ Holds(t[p], k)
    BY <1>1, <1>2, <1>6 DEF Holds
  <2> QED BY <1>3, <2>1 DEF Found, EntryOf, E, m
<1>7. CASE m < i
  <2>1. Slot(n, q, i) = p /\ Slot(n, q, m) = Slot(n, k, m)
    BY <1>1, <1>2, SlotSame
  <2>2. t[Slot(n, k, m)] # Free
    BY <1>5, <1>7, <2>1 DEF Sound, NoGap
  <2>3. Holds(t[Slot(n, k, m)], k) /\ Slot(n, k, m) \in 0..(n - 1)
    BY <1>5, <2>2, SlotIn
  <2>4. Slot(n, k, m) \in Taken(t, n) /\ t[Slot(n, k, m)].key \in Key
    BY <2>3, EntryParts DEF Holds, Taken, Sound
  <2>5. <<q, t[Slot(n, k, m)].key>> \in Equal
    <3>1. PICK l \in Key : l = t[Slot(n, k, m)].key
      BY <2>4
    <3>2. <<l, k>> \in Equal /\ <<q, k>> \in Equal
      BY <2>3, <3>1 DEF Holds
    <3>3. <<k, l>> \in Equal
      BY <3>2 DEF KeysAgree
    <3> HIDE DEF q
    <3>4. <<q, l>> \in Equal
      BY <1>1, <3>2, <3>3 DEF KeysAgree
    <3> QED BY <3>1, <3>4 DEF q
  <2>6. p = Slot(n, k, m)
    BY <2>4, <2>5 DEF Sound, Apart
  <2>7. i = m
    BY <1>2, <1>5, <2>6, SlotOnce
  <2> QED BY <1>7, <2>7, <1>2, <1>5
<1> QED BY <1>2, <1>4, <1>5, <1>6, <1>7

LEMMA FoundIs ==
  ASSUME KeysAgree, NEW n \in Nat \ {0}, NEW t, Sound(t, n), NEW k \in Key
  PROVE  Found(t, n, k) <=> \E e \in Contents(t, n) : <<e.key, k>> \in Equal
<1>1. ASSUME Found(t, n, k) PROVE \E e \in Contents(t, n) : <<e.key, k>> \in Equal
  BY <1>1, FoundIn DEF Contents
<1>2. ASSUME NEW p \in Taken(t, n), <<t[p].key, k>> \in Equal PROVE Found(t, n, k)
  BY <1>2, EntryOfIs
<1> QED BY <1>1, <1>2 DEF Contents

\* The value of an entry that is there is replaced.
LEMMA InsertFound ==
  ASSUME KeysAgree, NEW n \in Nat \ {0}, NEW t, Sound(t, n), NEW k \in Key, NEW v \in Value, Found(t, n, k),
         NEW u, u = InsertEntry(t, n, k, v)
  PROVE  /\ Sound(u, n) /\ Taken(u, n) = Taken(t, n)
         /\ \A p \in Taken(t, n) : u[p] = IF p = EntryOf(t, n, k) THEN [key |-> t[p].key, value |-> v] ELSE t[p]
<1> DEFINE a == EntryOf(t, n, k)
           b == [key |-> t[a].key, value |-> v]
<1>1. a \in Taken(t, n) /\ a \in 0..(n - 1)
  BY FoundIn
<1>2. t \in [0..(n - 1) -> Entry] /\ t[a] \in Pair /\ t[a].key \in Key /\ t[a].key # Undef
  BY <1>1, EntryParts DEF Sound, Taken
<1>3. [t[a] EXCEPT !.value = v] = b
  BY <1>2 DEF Pair
<1>4. u = [t EXCEPT ![a] = b]
  BY <1>3 DEF InsertEntry
<1>5. b \in Entry /\ b.key = t[a].key /\ b # Free
  <2>1. b \in Pair /\ b.key = t[a].key
    BY <1>2 DEF Pair
  <2> QED BY <1>2, <2>1, EntryParts DEF Entry, Pair
<1> HIDE DEF a, b
<1>6. u \in [0..(n - 1) -> Entry] /\ \A p \in 0..(n - 1) : u[p] = IF p = a THEN b ELSE t[p]
  BY <1>1, <1>2, <1>4, <1>5
<1>7. \A p \in 0..(n - 1) : u[p].key = t[p].key /\ (u[p] = Free <=> t[p] = Free)
  BY <1>2, <1>5, <1>6 DEF Free
<1>8. Taken(u, n) = Taken(t, n)
  BY <1>7 DEF Taken
<1>9. Apart(u, n)
  BY <1>7, <1>8 DEF Sound, Apart, Taken
<1>10. NoGap(u, n)
  <2> SUFFICES ASSUME NEW p \in Taken(u, n), NEW i \in 0..(n - 1), NEW j \in 0..(n - 1),
                      Slot(n, u[p].key, i) = p, j < i
               PROVE  u[Slot(n, u[p].key, j)] # Free
    BY DEF NoGap
  <2>1. p \in Taken(t, n) /\ u[p].key = t[p].key /\ t[p].key \in Key
    BY <1>2, <1>7, <1>8, EntryParts DEF Taken
  <2>2. t[Slot(n, t[p].key, j)] # Free
    BY <2>1 DEF Sound, NoGap
  <2>3. Slot(n, t[p].key, j) \in 0..(n - 1)
    BY <2>1, SlotIn
  <2> QED BY <1>7, <2>1, <2>2, <2>3
<1> QED BY <1>1, <1>6, <1>8, <1>9, <1>10 DEF Sound, Taken, a, b

HasRoom(t, n) == \E p \in 0..(n - 1) : p \notin Taken(t, n)

\* A new entry stands where a search for its key comes by, and in the way of no
\* other.
LEMMA InsertNew ==
  ASSUME KeysAgree, NEW n \in Nat \ {0}, NEW t, Sound(t, n), HasRoom(t, n),
         NEW k \in Key, NEW v \in Value, ~Found(t, n, k),
         NEW u, u = InsertEntry(t, n, k, v), NEW a, a = Available(t, n, k)
  PROVE  /\ a \in (0..(n - 1)) \ Taken(t, n)
         /\ Sound(u, n) /\ Taken(u, n) = Taken(t, n) \cup {a}
         /\ u[a] = [key |-> k, value |-> v] /\ \A p \in Taken(t, n) : u[p] = t[p]
<1> DEFINE I == {i \in 0..(n - 1) : t[Slot(n, k, i)].key = Undef}
           m == Min(I)
           b == [key |-> k, value |-> v]
<1>1. t \in [0..(n - 1) -> Entry]
  BY DEF Sound
<1>2. m \in I /\ \A j \in I : m <= j
  <2>1. PICK p \in 0..(n - 1) : t[p].key = Undef
    BY DEF HasRoom, Taken
  <2>2. PICK i \in 0..(n - 1) : Slot(n, k, i) = p
    BY SlotAll
  <2>3. I # {} /\ I \in SUBSET Nat
    BY <2>1, <2>2
  <2> HIDE DEF I
  <2> QED BY <2>3, MinIn
<1>3. m \in 0..(n - 1) /\ a = Slot(n, k, m) /\ t[a].key = Undef
  BY <1>2 DEF Available
<1>4. \A j \in 0..(n - 1) : j < m => t[Slot(n, k, j)].key # Undef
  BY <1>2, <1>3
<1> HIDE DEF I, m
<1>5. a \in 0..(n - 1) /\ a \notin Taken(t, n)
  BY <1>3, SlotIn DEF Taken
<1>6. b \in Entry /\ b.key = k /\ b.key # Undef /\ b # Free
  <2>1. b \in Pair /\ b.key = k
    BY DEF Pair
  <2> QED BY <2>1, EntryParts, MapAssumption DEF Entry, Pair
<1>7. u = [t EXCEPT ![a] = b]
  BY DEF InsertEntry
<1> HIDE DEF b
<1>8. u \in [0..(n - 1) -> Entry] /\ \A p \in 0..(n - 1) : u[p] = IF p = a THEN b ELSE t[p]
  BY <1>1, <1>5, <1>6, <1>7
<1>9. Taken(u, n) = Taken(t, n) \cup {a}
  BY <1>5, <1>6, <1>8 DEF Taken
<1>10. \A p \in Taken(t, n) : u[p] = t[p] /\ t[p].key \in Key /\ p \in 0..(n - 1)
  BY <1>1, <1>5, <1>8, EntryParts DEF Taken
<1>11. ASSUME NEW p \in Taken(t, n) PROVE <<t[p].key, k>> \notin Equal /\ <<k, t[p].key>> \notin Equal
  <2>1. <<t[p].key, k>> \notin Equal
    BY FoundIs DEF Contents
  <2> QED BY <1>10, <2>1 DEF KeysAgree
<1>12. Apart(u, n)
  <2> SUFFICES ASSUME NEW p \in Taken(u, n), NEW q \in Taken(u, n), <<u[p].key, u[q].key>> \in Equal PROVE p = q
    BY DEF Apart
  <2>1. CASE p \in Taken(t, n) /\ q \in Taken(t, n)
    BY <1>10, <2>1 DEF Sound, Apart
  <2>2. CASE p \in Taken(t, n) /\ q = a
    BY <1>5, <1>6, <1>8, <1>10, <1>11, <2>2
  <2>3. CASE p = a /\ q \in Taken(t, n)
    BY <1>5, <1>6, <1>8, <1>10, <1>11, <2>3
  <2> QED BY <1>9, <2>1, <2>2, <2>3
<1>13. NoGap(u, n)
  <2> SUFFICES ASSUME NEW p \in Taken(u, n), NEW i \in 0..(n - 1), NEW j \in 0..(n - 1),
                      Slot(n, u[p].key, i) = p, j < i
               PROVE  u[Slot(n, u[p].key, j)] # Free
    BY DEF NoGap
  <2>1. CASE p = a
    <3>1. u[p].key = k
      BY <1>5, <1>6, <1>8, <2>1
    <3>2. Slot(n, k, i) = Slot(n, k, m)
      BY <1>3, <2>1, <3>1
    <3>3. i = m
      BY <1>3, <3>2, SlotOnce
    <3>4. t[Slot(n, k, j)].key # Undef /\ Slot(n, k, j) \in 0..(n - 1)
      BY <1>4, <3>3, SlotIn
    <3>5. u[Slot(n, k, j)].key # Undef
      BY <1>6, <1>8, <3>4
    <3> QED BY <3>1, <3>5 DEF Free
  <2>2. CASE p \in Taken(t, n)
    <3>1. u[p].key = t[p].key /\ t[p].key \in Key
      BY <1>10, <2>2
    <3>2. t[Slot(n, t[p].key, j)] # Free /\ Slot(n, t[p].key, j) \in 0..(n - 1)
      BY <2>2, <3>1, SlotIn DEF Sound, NoGap
    <3> QED BY <1>6, <1>8, <3>1, <3>2
  <2> QED BY <1>9, <2>1, <2>2
<1> QED BY <1>5, <1>8, <1>9, <1>10, <1>12, <1>13 DEF Sound, b

Overwritten(e, k, v) == IF <<e.key, k>> \in Equal THEN [key |-> e.key, value |-> v] ELSE e

\* The entries before and after.
LEMMA InsertContents ==
  ASSUME KeysAgree, NEW n \in Nat \ {0}, NEW t, Sound(t, n), HasRoom(t, n), NEW k \in Key, NEW v \in Value,
         NEW u, u = InsertEntry(t, n, k, v)
  PROVE  /\ Sound(u, n)
         /\ ~Found(t, n, k) => Contents(u, n) = Contents(t, n) \cup {[key |-> k, value |-> v]}
         /\ Found(t, n, k) =>
              Contents(u, n) = {Overwritten(e, k, v) : e \in Contents(t, n)}
<1>1. CASE ~Found(t, n, k)
  <2>1. PICK a : a = Available(t, n, k)
    OBVIOUS
  <2>2. /\ Sound(u, n) /\ Taken(u, n) = Taken(t, n) \cup {a}
        /\ u[a] = [key |-> k, value |-> v] /\ \A p \in Taken(t, n) : u[p] = t[p]
    BY <1>1, <2>1, InsertNew
  <2>3. Contents(u, n) = Contents(t, n) \cup {[key |-> k, value |-> v]}
    BY <2>2 DEF Contents
  <2> QED BY <1>1, <2>2, <2>3
<1>2. CASE Found(t, n, k)
  <2>1. /\ Sound(u, n) /\ Taken(u, n) = Taken(t, n)
        /\ \A p \in Taken(t, n) : u[p] = IF p = EntryOf(t, n, k) THEN [key |-> t[p].key, value |-> v] ELSE t[p]
    BY <1>2, InsertFound
  <2>2. \A p \in Taken(t, n) : p = EntryOf(t, n, k) <=> <<t[p].key, k>> \in Equal
    BY <1>2, FoundIn, EntryOfIs
  <2>3. \A p \in Taken(t, n) : u[p] = Overwritten(t[p], k, v)
    BY <2>1, <2>2 DEF Overwritten
  <2>4. Contents(u, n) = {Overwritten(e, k, v) : e \in Contents(t, n)}
    BY <2>1, <2>3 DEF Contents
  <2> QED BY <1>2, <2>1, <2>4
<1> QED BY <1>1, <1>2

-----------------------------------------------------------------------------
(* Recursion *)

\* A value that each step makes from the last.
Recurrent(S, x, F) ==
  \E f \in [Nat -> S] : f[0] = x /\ \A i \in Nat : f[i + 1] = F[i][f[i]]

LEMMA Recursion ==
  ASSUME NEW S, NEW x \in S, NEW F \in [Nat -> [S -> S]]
  PROVE  Recurrent(S, x, F)
<1> DEFINE Part(n, f) == f[0] = x /\ \A i \in 0..(n - 1) : f[i + 1] = F[i][f[i]]
           P == {n \in Nat : \E f \in [0..n -> S] : Part(n, f)}
<1>1. 0 \in P
  <2>1. [i \in 0..0 |-> x] \in [0..0 -> S] /\ Part(0, [i \in 0..0 |-> x])
    OBVIOUS
  <2> QED BY <2>1
<1>2. ASSUME NEW n \in Nat, n \in P PROVE n + 1 \in P
  <2>1. PICK f \in [0..n -> S] : Part(n, f)
    BY <1>2
  <2> DEFINE g == [i \in 0..(n + 1) |-> IF i = n + 1 THEN F[n][f[n]] ELSE f[i]]
  <2>2. g \in [0..(n + 1) -> S]
    BY <2>1
  <2>3. Part(n + 1, g)
    BY <2>1
  <2> HIDE DEF g, Part
  <2>4. n + 1 \in Nat
    OBVIOUS
  <2> QED BY <2>2, <2>3, <2>4
<1>3. \A n \in Nat : n \in P
  <2> HIDE DEF P
  <2> QED BY <1>1, <1>2, NatInduct
<1> DEFINE p == [n \in Nat |-> CHOOSE f \in [0..n -> S] : Part(n, f)]
<1>4. \A n \in Nat : p[n] \in [0..n -> S] /\ Part(n, p[n])
  BY <1>3
<1> HIDE DEF p
<1>5. ASSUME NEW n \in Nat PROVE p[n + 1][n] = p[n][n]
  <2> DEFINE Q == {k \in Nat : k <= n => p[n + 1][k] = p[n][k]}
  <2>1. 0 \in Q
    BY <1>4
  <2>2. ASSUME NEW k \in Nat, k \in Q PROVE k + 1 \in Q
    <3> SUFFICES ASSUME k + 1 <= n PROVE p[n + 1][k + 1] = p[n][k + 1]
      OBVIOUS
    <3>1. k \in 0..(n - 1) /\ k \in 0..((n + 1) - 1)
      OBVIOUS
    <3>2. p[n][k + 1] = F[k][p[n][k]] /\ p[n + 1][k + 1] = F[k][p[n + 1][k]]
      BY <1>4, <3>1
    <3> QED BY <2>2, <3>1, <3>2
  <2>3. Nat \subseteq Q
    <3> HIDE DEF Q
    <3> QED BY <2>1, <2>2, NatInduct
  <2> QED BY <2>3
<1> DEFINE h == [n \in Nat |-> p[n][n]]
<1>6. h \in [Nat -> S] /\ h[0] = x
  BY <1>4
<1>7. ASSUME NEW i \in Nat PROVE h[i + 1] = F[i][h[i]]
  <2>1. p[i + 1][i + 1] = F[i][p[i + 1][i]]
    BY <1>4
  <2> QED BY <1>5, <2>1
<1> QED BY <1>6, <1>7 DEF Recurrent

LEMMA DoubledIs ==
  /\ Doubled[0] = MinCapacity
  /\ \A e \in Nat : Doubled[e] \in Nat /\ Doubled[e] >= e + 2 /\ Doubled[e + 1] = 2 * Doubled[e]
<1> DEFINE F == [i \in Nat |-> [c \in Nat |-> 2 * c]]
<1>1. F \in [Nat -> [Nat -> Nat]] /\ \A i \in Nat, c \in Nat : F[i][c] = 2 * c
  OBVIOUS
<1> HIDE DEF F
<1>2. PICK f \in [Nat -> Nat] : f[0] = MinCapacity /\ \A i \in Nat : f[i + 1] = F[i][f[i]]
  <2>1. Recurrent(Nat, MinCapacity, F)
    BY <1>1, Minimum, Recursion
  <2> QED BY <2>1 DEF Recurrent
<1>3. f = [e \in Nat |-> IF e = 0 THEN MinCapacity ELSE 2 * f[e - 1]]
  <2>1. ASSUME NEW e \in Nat PROVE f[e] = IF e = 0 THEN MinCapacity ELSE 2 * f[e - 1]
    <3>1. CASE e # 0
      <4>1. e - 1 \in Nat /\ (e - 1) + 1 = e
        BY <3>1
      <4>2. f[e] = F[e - 1][f[e - 1]] /\ f[e - 1] \in Nat
        BY <1>2, <4>1
      <4> QED BY <1>1, <3>1, <4>1, <4>2
    <3> QED BY <1>2, <3>1
  <2> QED BY <2>1
<1>4. Doubled = [e \in Nat |-> IF e = 0 THEN MinCapacity ELSE 2 * Doubled[e - 1]]
  BY <1>3 DEF Doubled
<1>5. Doubled[0] = MinCapacity
  BY <1>4
<1>6. ASSUME NEW e \in Nat PROVE Doubled[e + 1] = 2 * Doubled[e]
  <2>1. e + 1 \in Nat /\ e + 1 # 0 /\ (e + 1) - 1 = e
    OBVIOUS
  <2> QED BY <1>4, <2>1
<1> DEFINE N == {e \in Nat : Doubled[e] \in Nat /\ Doubled[e] >= e + 2}
<1>7. Nat \subseteq N
  <2>1. 0 \in N
    BY <1>5, Minimum
  <2>2. \A e \in Nat : e \in N => e + 1 \in N
    BY <1>6
  <2> HIDE DEF N
  <2> QED BY <2>1, <2>2, NatInduct
<1> QED BY <1>5, <1>6, <1>7

-----------------------------------------------------------------------------
(* The size of a table *)

LEMMA ContentsSize ==
  ASSUME NEW n \in Nat, NEW t, Sound(t, n)
  PROVE  /\ IsFiniteSet(Contents(t, n)) /\ Cardinality(Contents(t, n)) \in Nat
         /\ Cardinality(Contents(t, n)) = Cardinality(Taken(t, n))
         /\ Cardinality(Contents(t, n)) < n => HasRoom(t, n)
<1> DEFINE T == Taken(t, n)
           C == Contents(t, n)
           f == [p \in T |-> t[p]]
<1>1. T \in SUBSET (0..(n - 1)) /\ IsFiniteSet(0..(n - 1)) /\ Cardinality(0..(n - 1)) = n
  <2>1. IsFiniteSet(0..(n - 1)) /\ Cardinality(0..(n - 1)) = IF 0 > n - 1 THEN 0 ELSE (n - 1) - 0 + 1
    BY FS_Interval
  <2>2. (IF 0 > n - 1 THEN 0 ELSE (n - 1) - 0 + 1) = n
    OBVIOUS
  <2> QED BY <2>1, <2>2 DEF Taken
<1>2. IsFiniteSet(T) /\ (Cardinality(0..(n - 1)) = Cardinality(T) => 0..(n - 1) = T)
  BY <1>1, FS_Subset
<1>3. \A p, q \in T : t[p] = t[q] => p = q
  <2> SUFFICES ASSUME NEW p \in T, NEW q \in T, t[p] = t[q] PROVE p = q
    OBVIOUS
  <2>1. t[p].key \in Key
    BY EntryParts DEF Sound, Taken
  <2>2. <<t[p].key, t[q].key>> \in Equal
    BY <2>1, MapAssumption
  <2> QED BY <2>2 DEF Sound, Apart
<1>4. f \in Bijection(T, C)
  <2>1. f \in [T -> C] /\ \A e \in C : \E p \in T : f[p] = e
    BY DEF Contents
  <2>2. \A p, q \in T : f[p] = f[q] => p = q
    BY <1>3
  <2> HIDE DEF f, T, C
  <2> QED BY <2>1, <2>2, Fun_IsBij
<1>5. ExistsBijection(T, C)
  BY <1>4 DEF ExistsBijection
<1>6. IsFiniteSet(C) /\ Cardinality(C) = Cardinality(T)
  BY <1>2, <1>5, FS_Bijection
<1>7. Cardinality(T) \in Nat
  BY <1>2, FS_CardinalityType
<1>8. Cardinality(C) < n => HasRoom(t, n)
  <2> SUFFICES ASSUME Cardinality(C) < n, ~HasRoom(t, n) PROVE FALSE
    OBVIOUS
  <2>1. 0..(n - 1) = T
    BY DEF HasRoom, Taken
  <2> HIDE DEF C, T
  <2> QED BY <1>1, <1>6, <2>1
<1> QED BY <1>6, <1>7, <1>8

-----------------------------------------------------------------------------
(* Growing and shrinking *)

Tables(n) == [0..(n - 1) -> Entry]

LEMMA InsertType ==
  ASSUME NEW n \in Nat \ {0}, NEW t \in Tables(n), NEW k \in Key, NEW v \in Value
  PROVE  InsertEntry(t, n, k, v) \in Tables(n)
<1>1. [key |-> k, value |-> v] \in Entry
  BY DEF Entry
<1>2. CASE Found(t, n, k)
  <2> DEFINE m == Min(Ends(t, n, k))
             a == EntryOf(t, n, k)
  <2>1. m \in 0..(n - 1) /\ Holds(t[Slot(n, k, m)], k)
    BY <1>2, EndsIn DEF Found, Ends
  <2>2. a = Slot(n, k, m) /\ a \in 0..(n - 1)
    BY <2>1, SlotIn DEF EntryOf
  <2>3. t[a] \in Pair
    BY <2>1, <2>2, EntryParts DEF Holds, Tables
  <2> HIDE DEF a, m
  <2>4. [t[a] EXCEPT !.value = v] \in Entry
    BY <2>3 DEF Pair, Entry
  <2>5. [t EXCEPT ![a].value = v] \in Tables(n)
    BY <2>2, <2>4 DEF Tables
  <2> QED BY <1>2, <2>5 DEF InsertEntry, a
<1>3. CASE ~Found(t, n, k)
  <2>1. PICK a : a = Available(t, n, k)
    OBVIOUS
  <2>2. InsertEntry(t, n, k, v) = [t EXCEPT ![a] = [key |-> k, value |-> v]]
    BY <1>3, <2>1 DEF InsertEntry
  <2>3. PICK b \in Entry : b = [key |-> k, value |-> v]
    BY <1>1
  <2>4. [t EXCEPT ![a] = b] \in Tables(n)
    BY DEF Tables
  <2> QED BY <2>2, <2>3, <2>4
<1> QED BY <1>2, <1>3

LEMMA BlankSound ==
  ASSUME NEW n \in Nat
  PROVE  /\ Blank(n) \in Tables(n) /\ Sound(Blank(n), n)
         /\ Taken(Blank(n), n) = {} /\ Contents(Blank(n), n) = {}
<1>1. \A p \in 0..(n - 1) : Blank(n)[p] = Free
  BY DEF Blank
<1>2. Blank(n) \in Tables(n)
  BY DEF Blank, Tables, Entry
<1>3. Taken(Blank(n), n) = {}
  BY <1>1 DEF Taken, Free
<1> QED BY <1>2, <1>3 DEF Sound, NoGap, Apart, Contents, Tables

\* What one turn of the loop of _mapResize makes of r.
Turn(t, i, n, r) == IF t[i].key = Undef THEN r ELSE InsertEntry(r, n, t[i].key, t[i].value)

\* A table has been made from t, entry by entry.
Turns(t, old, n, u) ==
  \E f \in [0..old -> Tables(n)] :
    /\ f[0] = Blank(n) /\ f[old] = u
    /\ \A i \in 0..(old - 1) : f[i + 1] = Turn(t, i, n, f[i])

LEMMA ResizeTurns ==
  ASSUME NEW n \in Nat \ {0}, NEW old \in Nat, NEW t \in Tables(old)
  PROVE  Turns(t, old, n, Resize(t, old, n))
<1> DEFINE S == Tables(n)
           x == Blank(n)
           F == [i \in Nat |-> [r \in S |-> IF i < old THEN Turn(t, i, n, r) ELSE r]]
           into[i \in 0..old] ==
             IF i = 0 THEN Blank(n)
             ELSE IF t[i - 1].key = Undef THEN into[i - 1]
             ELSE InsertEntry(into[i - 1], n, t[i - 1].key, t[i - 1].value)
<1>1. Resize(t, old, n) = into[old]
  BY DEF Resize
<1>2. ASSUME NEW i \in 0..(old - 1), NEW r \in S PROVE Turn(t, i, n, r) \in S
  <2>1. CASE t[i].key # Undef
    <3>1. t[i] \in Pair
      BY <2>1, EntryParts DEF Tables
    <3>2. t[i].key \in Key /\ t[i].value \in Value
      BY <3>1 DEF Pair
    <3> QED BY <2>1, <3>2, InsertType DEF Turn
  <2> QED BY <2>1 DEF Turn
<1>3. F \in [Nat -> [S -> S]]
  <2>1. ASSUME NEW i \in Nat, NEW r \in S PROVE (IF i < old THEN Turn(t, i, n, r) ELSE r) \in S
    BY <1>2
  <2> HIDE DEF S
  <2> QED BY <2>1
<1>4. \A i \in Nat, r \in S : F[i][r] = IF i < old THEN Turn(t, i, n, r) ELSE r
  OBVIOUS
<1>5. x \in S
  BY BlankSound
<1> HIDE DEF F, S, x
<1>6. PICK f \in [Nat -> S] : f[0] = x /\ \A i \in Nat : f[i + 1] = F[i][f[i]]
  <2>1. Recurrent(S, x, F)
    BY <1>3, <1>5, Recursion
  <2> QED BY <2>1 DEF Recurrent
<1> DEFINE g == [i \in 0..old |-> f[i]]
<1>7. g \in [0..old -> S] /\ g[0] = x
  BY <1>6
<1>8. \A i \in 0..(old - 1) : g[i + 1] = Turn(t, i, n, g[i])
  <2> SUFFICES ASSUME NEW i \in 0..(old - 1) PROVE g[i + 1] = Turn(t, i, n, g[i])
    OBVIOUS
  <2>1. i \in Nat /\ i < old /\ i \in 0..old /\ i + 1 \in 0..old /\ f[i] \in S
    BY <1>6
  <2> QED BY <1>4, <1>6, <2>1
<1> HIDE DEF g
<1>9. g = [i \in 0..old |->
             IF i = 0 THEN Blank(n)
             ELSE IF t[i - 1].key = Undef THEN g[i - 1]
             ELSE InsertEntry(g[i - 1], n, t[i - 1].key, t[i - 1].value)]
  <2>1. ASSUME NEW i \in 0..old
        PROVE  g[i] = IF i = 0 THEN Blank(n)
                      ELSE IF t[i - 1].key = Undef THEN g[i - 1]
                      ELSE InsertEntry(g[i - 1], n, t[i - 1].key, t[i - 1].value)
    <3>1. CASE i # 0
      <4>1. i - 1 \in 0..(old - 1) /\ (i - 1) + 1 = i
        BY <3>1
      <4>2. g[i] = Turn(t, i - 1, n, g[i - 1])
        BY <1>8, <4>1
      <4> QED BY <3>1, <4>2 DEF Turn
    <3>2. CASE i = 0
      BY <1>7, <3>2 DEF x
    <3> QED BY <3>1, <3>2
  <2> QED BY <1>7, <2>1
<1>10. into = [i \in 0..old |->
                 IF i = 0 THEN Blank(n)
                 ELSE IF t[i - 1].key = Undef THEN into[i - 1]
                 ELSE InsertEntry(into[i - 1], n, t[i - 1].key, t[i - 1].value)]
  BY <1>9
<1> HIDE DEF into
<1>11. \A i \in 0..(old - 1) : into[i + 1] = Turn(t, i, n, into[i])
  <2> SUFFICES ASSUME NEW i \in 0..(old - 1) PROVE into[i + 1] = Turn(t, i, n, into[i])
    OBVIOUS
  <2>1. i + 1 \in 0..old /\ i + 1 # 0 /\ (i + 1) - 1 = i
    OBVIOUS
  <2> QED BY <1>10, <2>1 DEF Turn
<1>12. into[0] = Blank(n) /\ DOMAIN into = 0..old
  BY <1>10
<1>13. into \in [0..old -> S]
  <2> DEFINE N == {i \in Nat : i <= old => into[i] \in S}
  <2>1. 0 \in N
    BY <1>5, <1>12 DEF x
  <2>2. ASSUME NEW i \in Nat, i \in N PROVE i + 1 \in N
    <3> SUFFICES ASSUME i + 1 <= old PROVE into[i + 1] \in S
      OBVIOUS
    <3>1. i \in 0..(old - 1) /\ into[i] \in S
      BY <2>2
    <3> QED BY <1>2, <1>11, <3>1
  <2>3. Nat \subseteq N
    <3> HIDE DEF N
    <3> QED BY <2>1, <2>2, NatInduct
  <2>4. \A i \in 0..old : into[i] \in S
    BY <2>3
  <2>5. into = [i \in 0..old |-> into[i]]
    BY <1>10
  <2> QED BY <2>4, <2>5
<1> QED BY <1>1, <1>11, <1>12, <1>13 DEF Turns, S

Upto(t, old, i) == {t[p] : p \in {q \in Taken(t, old) : q < i}}

\* Every entry is carried over, whatever order the new slots are taken in.
LEMMA ResizeIs ==
  ASSUME KeysAgree, NEW old \in Nat, NEW t, Sound(t, old), NEW n \in Nat \ {0},
         Cardinality(Contents(t, old)) < n, NEW u, u = Resize(t, old, n)
  PROVE  Sound(u, n) /\ Contents(u, n) = Contents(t, old)
<1>1. t \in Tables(old)
  BY DEF Sound, Tables
<1>2. PICK f \in [0..old -> Tables(n)] :
        f[0] = Blank(n) /\ f[old] = u /\ \A i \in 0..(old - 1) : f[i + 1] = Turn(t, i, n, f[i])
  BY <1>1, ResizeTurns DEF Turns
<1> DEFINE Done(i) == Sound(f[i], n) /\ Contents(f[i], n) = Upto(t, old, i)
           N == {i \in Nat : i <= old => Done(i)}
<1>3. 0 \in N
  <2>1. Upto(t, old, 0) = {}
    BY DEF Upto, Taken
  <2> QED BY <1>2, <2>1, BlankSound
<1>4. ASSUME NEW i \in Nat, i \in N PROVE i + 1 \in N
  <2> SUFFICES ASSUME i + 1 <= old PROVE Done(i + 1)
    OBVIOUS
  <2>1. i \in 0..(old - 1) /\ f[i + 1] = Turn(t, i, n, f[i])
    BY <1>2
  <2>2. Sound(f[i], n) /\ Contents(f[i], n) = Upto(t, old, i)
    BY <1>4
  <2>3. CASE t[i].key = Undef
    <3>1. \A q \in Taken(t, old) : q < i + 1 <=> q < i
      BY <2>3 DEF Taken
    <3>2. Upto(t, old, i + 1) = Upto(t, old, i)
      BY <3>1 DEF Upto
    <3> QED BY <2>1, <2>2, <2>3, <3>2 DEF Turn
  <2>4. CASE t[i].key # Undef
    <3>1. i \in Taken(t, old) /\ t[i] \in Pair
      BY <1>1, <2>1, <2>4, EntryParts DEF Taken, Tables
    <3>2. PICK k \in Key, v \in Value : t[i] = [key |-> k, value |-> v]
      BY <3>1 DEF Pair
    <3>3. t[i].key = k /\ t[i].value = v
      BY <3>2
    <3>4. f[i + 1] = InsertEntry(f[i], n, k, v)
      BY <2>1, <2>4, <3>3 DEF Turn
    <3>5. HasRoom(f[i], n)
      <4>1. Contents(f[i], n) \in SUBSET Contents(t, old)
        BY <2>2 DEF Upto, Contents
      <4>2. Cardinality(Contents(f[i], n)) <= Cardinality(Contents(t, old))
        BY <4>1, ContentsSize, FS_Subset
      <4>3. Cardinality(Contents(f[i], n)) \in Nat /\ Cardinality(Contents(t, old)) \in Nat
        BY <2>2, ContentsSize
      <4> QED BY <2>2, <4>2, <4>3, ContentsSize
    <3>6. ~Found(f[i], n, k)
      <4> SUFFICES ASSUME Found(f[i], n, k) PROVE FALSE
        OBVIOUS
      <4>1. PICK e \in Upto(t, old, i) : <<e.key, k>> \in Equal
        BY <2>2, FoundIs
      <4>2. PICK p \in Taken(t, old) : p < i /\ e = t[p]
        BY <4>1 DEF Upto
      <4>3. <<t[p].key, t[i].key>> \in Equal
        BY <3>3, <4>1, <4>2
      <4>4. p = i
        BY <3>1, <4>3 DEF Sound, Apart
      <4> QED BY <4>2, <4>4
    <3>7. Sound(f[i + 1], n) /\ Contents(f[i + 1], n) = Contents(f[i], n) \cup {t[i]}
      BY <2>2, <3>2, <3>4, <3>5, <3>6, InsertContents
    <3>8. \A q \in Taken(t, old) : q < i + 1 <=> q < i \/ q = i
      BY DEF Taken
    <3>9. Upto(t, old, i + 1) = Upto(t, old, i) \cup {t[i]}
      BY <3>1, <3>8 DEF Upto
    <3> QED BY <2>2, <3>7, <3>9
  <2> QED BY <2>3, <2>4
<1>5. Nat \subseteq N
  <2> HIDE DEF N
  <2> QED BY <1>3, <1>4, NatInduct
<1>6. Sound(u, n) /\ Contents(u, n) = Upto(t, old, old)
  BY <1>2, <1>5
<1>7. Upto(t, old, old) = Contents(t, old)
  BY DEF Upto, Contents, Taken
<1> QED BY <1>6, <1>7

Removed(t, a) == [t EXCEPT ![a] = Tombstone]

\* A removed entry leaves the others where searches find them.
LEMMA RemoveContents ==
  ASSUME NEW n \in Nat \ {0}, NEW t, Sound(t, n), NEW a \in Taken(t, n),
         NEW u, u = Removed(t, a)
  PROVE  Sound(u, n) /\ Contents(u, n) = Contents(t, n) \ {t[a]}
<1>1. a \in 0..(n - 1) /\ t \in [0..(n - 1) -> Entry] /\ Tombstone \in Entry
  BY DEF Taken, Sound, Entry
<1>2. u \in [0..(n - 1) -> Entry] /\ \A p \in 0..(n - 1) : u[p] = IF p = a THEN Tombstone ELSE t[p]
  BY <1>1 DEF Removed
<1>3. Tombstone.key = Undef /\ Tombstone # Free
  BY DEF Tombstone, Free
<1>4. Taken(u, n) = Taken(t, n) \ {a}
  BY <1>1, <1>2, <1>3 DEF Taken
<1>5. \A p \in Taken(u, n) : u[p] = t[p] /\ p \in 0..(n - 1) /\ t[p].key \in Key
  BY <1>1, <1>2, <1>4, EntryParts DEF Taken
<1>6. Apart(u, n)
  BY <1>4, <1>5 DEF Sound, Apart
<1>7. NoGap(u, n)
  <2> SUFFICES ASSUME NEW p \in Taken(u, n), NEW i \in 0..(n - 1), NEW j \in 0..(n - 1),
                      Slot(n, u[p].key, i) = p, j < i
               PROVE  u[Slot(n, u[p].key, j)] # Free
    BY DEF NoGap
  <2>1. p \in Taken(t, n) /\ u[p].key = t[p].key /\ t[p].key \in Key
    BY <1>4, <1>5
  <2>2. t[Slot(n, t[p].key, j)] # Free /\ Slot(n, t[p].key, j) \in 0..(n - 1)
    BY <2>1, SlotIn DEF Sound, NoGap
  <2> QED BY <1>2, <1>3, <2>1, <2>2
<1>8. \A p \in Taken(t, n) : t[p] = t[a] => p = a
  <2> SUFFICES ASSUME NEW p \in Taken(t, n), t[p] = t[a] PROVE p = a
    OBVIOUS
  <2>1. t[p].key \in Key
    BY <1>1, EntryParts DEF Taken
  <2>2. <<t[p].key, t[a].key>> \in Equal
    BY <2>1, MapAssumption
  <2> QED BY <2>2 DEF Sound, Apart
<1>9. Contents(u, n) = Contents(t, n) \ {t[a]}
  BY <1>4, <1>5, <1>8 DEF Contents
<1> QED BY <1>2, <1>6, <1>7, <1>9 DEF Sound

-----------------------------------------------------------------------------
(* The keys in order *)

Distinct(s) == \A i, j \in 1..Len(s) : s[i] = s[j] => i = j

\* The keys of the entries of C, each once.
Lists(s, C) ==
  /\ s \in Seq(Key) /\ Distinct(s)
  /\ \A i \in 1..Len(s) : \E e \in C : e.key = s[i]
  /\ \A e \in C : \E i \in 1..Len(s) : e.key = s[i]

\* The entries of C are pairs with keys that are not equal.
Pairwise(C) == C \subseteq Pair /\ \A d, e \in C : <<d.key, e.key>> \in Equal => d = e

LEMMA ContentsPairwise ==
  ASSUME NEW n, NEW t, Sound(t, n)
  PROVE  Pairwise(Contents(t, n))
BY EntryParts DEF Sound, Apart, Contents, Taken, Pairwise

LEMMA ListSize ==
  ASSUME NEW C, Pairwise(C), NEW s, Lists(s, C)
  PROVE  Cardinality(C) = Len(s)
<1> DEFINE n == Len(s)
           f == [i \in 1..n |-> CHOOSE e \in C : e.key = s[i]]
<1>1. n \in Nat
  BY DEF Lists
<1>2. \A i \in 1..n : f[i] \in C /\ f[i].key = s[i]
  BY DEF Lists
<1>3. f \in [1..n -> C]
  BY <1>2
<1> HIDE DEF f
<1>4. \A i, j \in 1..n : f[i] = f[j] => i = j
  BY <1>2 DEF Lists, Distinct
<1>5. ASSUME NEW e \in C PROVE \E i \in 1..n : f[i] = e
  <2>1. PICK i \in 1..n : e.key = s[i]
    BY DEF Lists
  <2>2. f[i] \in C /\ f[i].key = e.key /\ e.key \in Key
    BY <1>2, <2>1 DEF Pairwise, Pair
  <2>3. <<f[i].key, e.key>> \in Equal
    BY <2>2, MapAssumption
  <2> QED BY <2>2, <2>3 DEF Pairwise
<1> HIDE DEF n
<1>6. f \in Bijection(1..n, C)
  BY <1>3, <1>4, <1>5, Fun_IsBij
<1>7. ExistsBijection(1..n, C)
  BY <1>6 DEF ExistsBijection
<1> QED BY <1>1, <1>7, FS_CountingElements DEF n

LEMMA AppendIs ==
  ASSUME NEW S, NEW s \in Seq(S), NEW x \in S
  PROVE  /\ Append(s, x) \in Seq(S) /\ Len(Append(s, x)) = Len(s) + 1
         /\ Append(s, x)[Len(s) + 1] = x /\ \A i \in 1..Len(s) : Append(s, x)[i] = s[i]
BY AppendProperties

Absent(C, k) == \A e \in C : <<e.key, k>> \notin Equal
Joined(C, k, v) == C \cup {[key |-> k, value |-> v]}
WithoutKey(s, k) == RemoveFirstMatch(s, LAMBDA l : <<l, k>> \in Equal)

LEMMA ListsAppend ==
  ASSUME NEW C, NEW s, Lists(s, C), NEW k \in Key, NEW v, Absent(C, k)
  PROVE  Lists(Append(s, k), Joined(C, k, v)) /\ Len(Append(s, k)) = Len(s) + 1
<1> DEFINE r == Append(s, k)
           D == Joined(C, k, v)
<1>1. /\ r \in Seq(Key) /\ Len(r) = Len(s) + 1 /\ Len(s) \in Nat
      /\ r[Len(s) + 1] = k /\ \A i \in 1..Len(s) : r[i] = s[i]
  BY AppendIs DEF Lists
<1> HIDE DEF r
<1>2. 1..Len(r) = 1..Len(s) \cup {Len(s) + 1}
  BY <1>1
<1>3. \A i \in 1..Len(s) : s[i] # k
  <2> SUFFICES ASSUME NEW i \in 1..Len(s), s[i] = k PROVE FALSE
    OBVIOUS
  <2>1. PICK e \in C : e.key = s[i]
    BY DEF Lists
  <2> QED BY <2>1, MapAssumption DEF Absent
<1>4. Distinct(r)
  BY <1>1, <1>2, <1>3 DEF Distinct, Lists
<1>5. ASSUME NEW i \in 1..Len(r) PROVE \E e \in D : e.key = r[i]
  <2>1. CASE i \in 1..Len(s)
    BY <1>1, <2>1 DEF Lists, Joined
  <2>2. CASE i = Len(s) + 1
    <3>1. [key |-> k, value |-> v] \in D /\ [key |-> k, value |-> v].key = k
      BY DEF Joined
    <3> QED BY <1>1, <2>2, <3>1
  <2> QED BY <1>2, <2>1, <2>2
<1>6. ASSUME NEW e \in D PROVE \E i \in 1..Len(r) : e.key = r[i]
  BY <1>1, <1>2 DEF Lists, Joined
<1> HIDE DEF D
<1>7. Lists(r, D)
  BY <1>1, <1>4, <1>5, <1>6 DEF Lists
<1> QED BY <1>1, <1>7 DEF r, D

LEMMA ListsOverwritten ==
  ASSUME NEW C, Pairwise(C), NEW s, Lists(s, C), NEW k \in Key, NEW v \in Value,
         NEW D, D = {Overwritten(e, k, v) : e \in C}
  PROVE  Lists(s, D)
<1>1. \A e \in C : Overwritten(e, k, v).key = e.key
  BY DEF Overwritten
<1>2. \A i \in 1..Len(s) : \E e \in D : e.key = s[i]
  BY <1>1 DEF Lists
<1>3. \A e \in D : \E i \in 1..Len(s) : e.key = s[i]
  BY <1>1 DEF Lists
<1> QED BY <1>2, <1>3 DEF Lists

LEMMA RemoveIs ==
  ASSUME NEW S, NEW s \in Seq(S), NEW k \in 1..Len(s)
  PROVE  /\ RemoveAt(s, k) \in Seq(S) /\ Len(RemoveAt(s, k)) = Len(s) - 1
         /\ \A i \in 1..(Len(s) - 1) : RemoveAt(s, k)[i] = s[IF i < k THEN i ELSE i + 1]
<1> DEFINE a == SubSeq(s, 1, k - 1)
           b == SubSeq(s, k + 1, Len(s))
<1>1. Len(s) \in Nat /\ k \in Nat /\ k >= 1 /\ k <= Len(s)
  OBVIOUS
<1>2. /\ a \in Seq(S) /\ Len(a) = k - 1
      /\ \A i \in 1..(k - 1) : a[i] = s[i]
  <2>1. \A i \in 1..(k - 1) : s[i] \in S
    BY <1>1
  <2>2. /\ a \in Seq(S) /\ Len(a) = (IF 1 <= k - 1 THEN (k - 1) - 1 + 1 ELSE 0)
        /\ \A i \in 1..((k - 1) - 1 + 1) : a[i] = s[1 + i - 1]
    BY <1>1, <2>1, SubSeqProperties
  <2> HIDE DEF a
  <2>3. Len(a) = k - 1
    <3>1. CASE 1 <= k - 1
      BY <1>1, <2>2, <3>1
    <3>2. CASE ~(1 <= k - 1)
      BY <1>1, <2>2, <3>2
    <3> QED BY <3>1, <3>2
  <2> QED BY <1>1, <2>2, <2>3
<1>3. /\ b \in Seq(S) /\ Len(b) = Len(s) - k
      /\ \A i \in 1..(Len(s) - k) : b[i] = s[k + i]
  <2>1. \A i \in (k + 1)..Len(s) : s[i] \in S
    BY <1>1
  <2>2. /\ b \in Seq(S) /\ Len(b) = (IF k + 1 <= Len(s) THEN Len(s) - (k + 1) + 1 ELSE 0)
        /\ \A i \in 1..(Len(s) - (k + 1) + 1) : b[i] = s[(k + 1) + i - 1]
    BY <1>1, <2>1, SubSeqProperties
  <2> HIDE DEF b
  <2>3. Len(b) = Len(s) - k
    <3>1. CASE k + 1 <= Len(s)
      BY <1>1, <2>2, <3>1
    <3>2. CASE ~(k + 1 <= Len(s))
      BY <1>1, <2>2, <3>2
    <3> QED BY <3>1, <3>2
  <2>4. ASSUME NEW i \in 1..(Len(s) - k) PROVE b[i] = s[k + i]
    <3>1. i \in 1..(Len(s) - (k + 1) + 1) /\ (k + 1) + i - 1 = k + i
      BY <1>1
    <3> QED BY <2>2, <3>1
  <2> QED BY <2>2, <2>3, <2>4
<1> DEFINE r == a \o b
<1> HIDE DEF a, b
<1>4. /\ r \in Seq(S) /\ Len(r) = Len(a) + Len(b)
      /\ \A i \in 1..(Len(a) + Len(b)) : r[i] = IF i <= Len(a) THEN a[i] ELSE b[i - Len(a)]
  BY <1>2, <1>3, ConcatProperties
<1> HIDE DEF r
<1>5. Len(r) = Len(s) - 1
  BY <1>1, <1>2, <1>3, <1>4
<1>6. ASSUME NEW i \in 1..(Len(s) - 1) PROVE r[i] = s[IF i < k THEN i ELSE i + 1]
  <2>1. i \in 1..(Len(a) + Len(b))
    BY <1>1, <1>2, <1>3
  <2>2. CASE i < k
    <3>1. i <= Len(a) /\ i \in 1..(k - 1)
      BY <1>1, <1>2, <2>2
    <3>2. r[i] = a[i]
      BY <1>4, <2>1, <3>1
    <3> QED BY <1>2, <2>2, <3>1, <3>2
  <2>3. CASE ~(i < k)
    <3>1. ~(i <= Len(a)) /\ i - Len(a) \in 1..(Len(s) - k) /\ k + (i - Len(a)) = i + 1
      BY <1>1, <1>2, <2>3
    <3>2. r[i] = b[i - Len(a)]
      BY <1>4, <2>1, <3>1
    <3> QED BY <1>3, <2>3, <3>1, <3>2
  <2> QED BY <2>2, <2>3
<1>7. RemoveAt(s, k) = r
  BY DEF RemoveAt, r, a, b
<1> QED BY <1>4, <1>5, <1>6, <1>7

OneOut(s, k, r) == \E i \in 1..Len(s) : <<s[i], k>> \in Equal /\ r = RemoveAt(s, i)

\* The key of a removed entry leaves the list.
LEMMA ListsRemove ==
  ASSUME KeysAgree, NEW C, Pairwise(C), NEW s, Lists(s, C), NEW k \in Key, NEW c \in C, <<c.key, k>> \in Equal,
         NEW r, r = WithoutKey(s, k)
  PROVE  /\ Lists(r, C \ {c}) /\ Len(r) = Len(s) - 1
         /\ OneOut(s, k, r)
<1> DEFINE I == {i \in 1..Len(s) : <<s[i], k>> \in Equal}
<1>1. PICK m \in 1..Len(s) : s[m] = c.key
  BY DEF Lists
<1>2. m \in I
  BY <1>1
<1>3. r = RemoveAt(s, Min(I))
  BY <1>2 DEF WithoutKey, RemoveFirstMatch, SelectInSeq
<1>4. \A e \in C : <<e.key, k>> \in Equal => e = c
  <2> SUFFICES ASSUME NEW e \in C, <<e.key, k>> \in Equal PROVE e = c
    OBVIOUS
  <2>1. PICK d \in Key, l \in Key : d = e.key /\ l = c.key
    BY DEF Pairwise, Pair
  <2>2. <<d, l>> \in Equal
    BY <2>1 DEF KeysAgree
  <2> QED BY <2>1, <2>2 DEF Pairwise
<1>5. \A i \in I : i = m
  <2> SUFFICES ASSUME NEW i \in I PROVE i = m
    OBVIOUS
  <2>1. PICK e \in C : e.key = s[i]
    BY DEF Lists
  <2>2. e = c
    BY <1>4, <2>1
  <2> QED BY <1>1, <2>1, <2>2 DEF Lists, Distinct
<1>6. Min(I) = m
  <2>1. I \in SUBSET Nat /\ I # {}
    BY <1>2
  <2> HIDE DEF I
  <2> QED BY <1>5, <2>1, MinIn
<1>7. r = RemoveAt(s, m) /\ <<s[m], k>> \in Equal
  BY <1>1, <1>3, <1>6
<1>8. /\ r \in Seq(Key) /\ Len(r) = Len(s) - 1 /\ Len(s) \in Nat
      /\ \A i \in 1..(Len(s) - 1) : r[i] = s[IF i < m THEN i ELSE i + 1]
  <2>1. s \in Seq(Key) /\ Len(s) \in Nat
    BY DEF Lists
  <2>2. /\ RemoveAt(s, m) \in Seq(Key) /\ Len(RemoveAt(s, m)) = Len(s) - 1
        /\ \A i \in 1..(Len(s) - 1) : RemoveAt(s, m)[i] = s[IF i < m THEN i ELSE i + 1]
    BY <2>1, RemoveIs
  <2>3. r = RemoveAt(s, m)
    BY <1>7
  <2> QED BY <2>1, <2>2, <2>3
<1> DEFINE D == C \ {c}
<1>9. ASSUME NEW i \in 1..Len(r) PROVE \E e \in D : e.key = r[i]
  <2>1. PICK j \in 1..Len(s) : r[i] = s[j] /\ j # m
    <3>1. i \in 1..(Len(s) - 1)
      BY <1>8
    <3> DEFINE j == IF i < m THEN i ELSE i + 1
    <3>2. j \in 1..Len(s) /\ j # m
      BY <1>8, <3>1
    <3>3. r[i] = s[j]
      BY <1>8, <3>1
    <3> HIDE DEF j
    <3> QED BY <3>2, <3>3
  <2>2. PICK e \in C : e.key = s[j]
    BY DEF Lists
  <2>3. e # c
    BY <1>1, <2>1, <2>2 DEF Lists, Distinct
  <2> QED BY <2>1, <2>2, <2>3
<1>10. ASSUME NEW e \in D PROVE \E i \in 1..Len(r) : e.key = r[i]
  <2>1. PICK j \in 1..Len(s) : e.key = s[j]
    BY DEF Lists
  <2>2. j # m
    <3> SUFFICES ASSUME j = m PROVE FALSE
      OBVIOUS
    <3>1. e.key = c.key
      BY <1>1, <2>1
    <3>2. e = c
      BY <1>4, <3>1
    <3> QED BY <3>2
  <2>3. CASE j < m
    <3>1. j \in 1..(Len(s) - 1)
      BY <1>8, <2>3
    <3>2. r[j] = s[j]
      BY <1>8, <2>3, <3>1
    <3> QED BY <1>8, <2>1, <3>1, <3>2
  <2>4. CASE j > m
    <3>1. j - 1 \in 1..(Len(s) - 1) /\ ~(j - 1 < m) /\ (j - 1) + 1 = j
      BY <1>8, <2>4
    <3>2. PICK h \in 1..(Len(s) - 1) : h = j - 1
      BY <3>1
    <3>3. r[h] = s[j]
      BY <1>8, <3>1, <3>2
    <3>4. h \in 1..Len(r)
      BY <1>8
    <3>5. e.key = r[h]
      BY <2>1, <3>3
    <3> QED BY <3>4, <3>5
  <2>5. j < m \/ j > m
    <3>1. j \in Int /\ m \in Int
      BY <1>8
    <3> QED BY <2>2, <3>1
  <2> HIDE DEF D
  <2> QED BY <2>3, <2>4, <2>5
<1>11. Distinct(r)
  <2> SUFFICES ASSUME NEW i \in 1..Len(r), NEW j \in 1..Len(r), r[i] = r[j] PROVE i = j
    BY DEF Distinct
  <2> DEFINE a == IF i < m THEN i ELSE i + 1
             b == IF j < m THEN j ELSE j + 1
  <2>1. a \in 1..Len(s) /\ b \in 1..Len(s)
    BY <1>8
  <2>2. s[a] = s[b]
    BY <1>8
  <2> HIDE DEF a, b
  <2>3. a = b
    BY <2>1, <2>2 DEF Lists, Distinct
  <2> QED BY <1>8, <2>3 DEF a, b
<1>12. Lists(r, D)
  <2> HIDE DEF D
  <2> QED BY <1>8, <1>9, <1>10, <1>11 DEF Lists
<1> QED BY <1>7, <1>8, <1>12 DEF OneOut

-----------------------------------------------------------------------------
(* The invariant *)

Store == Contents(entries, capacity)

GrowthInv == capacity = 0 \/ \E e \in Nat : capacity = Doubled[e]
TableInv == Sound(entries, capacity)
OrderInv == Lists(order, Store) /\ count = Len(order)
NextInv == next \in Nat /\ \A e \in Store : e.key \in DOMAIN Integer => Integer[e.key] < next

\* A table no search has to give up in, the keys of its entries in order, and
\* an integer key above all of them.
StoreInv == CapacityInv /\ GrowthInv /\ TableInv /\ OrderInv /\ NextInv

LEMMA GrownIs == CapacityInv /\ GrowthInv => \E e \in Nat : Grown = Doubled[e]
<1> SUFFICES ASSUME CapacityInv, GrowthInv PROVE \E e \in Nat : Grown = Doubled[e]
  OBVIOUS
<1>1. CASE capacity = 0
  <2>1. Grown >= MinCapacity /\ Grown \in {0, MinCapacity}
    BY <1>1, Minimum, GrownHasRoom DEF Grown
  <2>2. Grown = MinCapacity
    BY <2>1, Minimum
  <2> QED BY <2>2, DoubledIs
<1>2. CASE capacity # 0
  <2>1. PICK e \in Nat : capacity = Doubled[e]
    BY <1>2 DEF GrowthInv
  <2>2. e + 1 \in Nat /\ Doubled[e + 1] = 2 * capacity
    BY <2>1, DoubledIs
  <2>3. Grown \in {capacity, 2 * capacity}
    BY <1>2, Minimum DEF Grown, CapacityInv
  <2> QED BY <2>1, <2>2, <2>3
<1> QED BY <1>1, <1>2

LEMMA ShrunkIs == ASSUME CapacityInv, GrowthInv, capacity > 0, NEW c PROVE \E e \in Nat : Shrunk(c) = Doubled[e]
<1>1. PICK e \in Nat : capacity = Doubled[e]
  BY DEF GrowthInv
<1>2. Shrunk(c) = capacity \/ Shrunk(c) = (IF capacity \div 4 < MinCapacity THEN MinCapacity ELSE capacity \div 4)
  BY DEF Shrunk
<1>3. CASE e = 0 \/ e = 1
  <2>1. capacity = MinCapacity \/ capacity = 2 * MinCapacity
    <3>1. Doubled[0] = MinCapacity /\ Doubled[0 + 1] = 2 * Doubled[0]
      BY DoubledIs
    <3> QED BY <1>1, <1>3, <3>1
  <2>2. capacity \div 4 < MinCapacity
    BY <2>1, Minimum
  <2> QED BY <1>1, <1>2, <2>2, DoubledIs
<1>4. CASE e >= 2
  <2>1. PICK d \in Nat : e = d + 2
    <3>1. e - 2 \in Nat /\ e = (e - 2) + 2
      BY <1>4
    <3> QED BY <3>1
  <2>2. Doubled[d] \in Nat /\ Doubled[(d + 1) + 1] = 2 * Doubled[d + 1] /\ Doubled[d + 1] = 2 * Doubled[d]
    BY DoubledIs
  <2>3. (d + 1) + 1 = e
    BY <2>1
  <2>4. capacity = 4 * Doubled[d]
    BY <1>1, <2>2, <2>3
  <2>5. capacity \div 4 = Doubled[d]
    BY <2>2, <2>4
  <2> QED BY <1>1, <1>2, <2>2, <2>5, DoubledIs
<1>5. e = 0 \/ e = 1 \/ e >= 2
  OBVIOUS
<1> QED BY <1>3, <1>4, <1>5

LEMMA LoadBelow == ASSUME NEW n \in Nat PROVE Load(n) \in Nat /\ Load(n) <= n /\ (n > 0 => Load(n) < n)
BY DEF Load

LEMMA StoreSize ==
  ASSUME StoreInv
  PROVE  /\ count \in Nat /\ IsFiniteSet(Store) /\ Cardinality(Store) = count /\ Pairwise(Store)
         /\ Cardinality(Taken(entries, capacity)) = count /\ count <= capacity
<1>1. Sound(entries, capacity) /\ capacity \in Nat
  BY DEF StoreInv, TableInv, CapacityInv
<1>2. IsFiniteSet(Store) /\ Cardinality(Store) \in Nat /\ Cardinality(Store) = Cardinality(Taken(entries, capacity))
  BY <1>1, ContentsSize DEF Store
<1>3. Pairwise(Store)
  BY <1>1, ContentsPairwise DEF Store
<1>4. Cardinality(Store) = count
  BY <1>3, ListSize DEF StoreInv, OrderInv
<1>5. count <= Load(capacity)
  BY DEF StoreInv, CapacityInv, LoadBounded
<1> QED BY <1>1, <1>2, <1>3, <1>4, <1>5, LoadBelow

\* What mapGet returns.
LEMMA LookupIs ==
  ASSUME KeysAgree, NEW n \in Nat, NEW t, Sound(t, n), NEW k \in Key, NEW w,
         w = IF n > 0 /\ Found(t, n, k) THEN t[EntryOf(t, n, k)].value ELSE Undef
  PROVE  /\ \A e \in Contents(t, n) : <<e.key, k>> \in Equal => w = e.value
         /\ (\A e \in Contents(t, n) : <<e.key, k>> \notin Equal) => w = Undef
<1>1. ASSUME NEW e \in Contents(t, n), <<e.key, k>> \in Equal PROVE w = e.value
  <2>1. PICK p \in Taken(t, n) : e = t[p]
    BY DEF Contents
  <2>2. n > 0
    BY <2>1 DEF Taken
  <2>3. Found(t, n, k) /\ EntryOf(t, n, k) = p
    BY <1>1, <2>1, <2>2, EntryOfIs
  <2> QED BY <2>1, <2>2, <2>3
<1>2. ASSUME \A e \in Contents(t, n) : <<e.key, k>> \notin Equal PROVE w = Undef
  <2>1. CASE n > 0
    <3>1. n \in Nat \ {0}
      BY <2>1
    <3>2. ~Found(t, n, k)
      BY <1>2, <3>1, FoundIs
    <3> QED BY <3>2
  <2> QED BY <2>1
<1> QED BY <1>1, <1>2

LEMMA GetIs ==
  ASSUME KeysAgree, StoreInv
  PROVE  \A k \in Key : /\ \A e \in Store : <<e.key, k>> \in Equal => Lookup(k) = e.value
                        /\ (\A e \in Store : <<e.key, k>> \notin Equal) => Lookup(k) = Undef
<1>1. Sound(entries, capacity) /\ capacity \in Nat
  BY DEF StoreInv, TableInv, CapacityInv
<1> QED BY <1>1, LookupIs DEF Lookup, Store

-----------------------------------------------------------------------------
(* What the operations do to the entries *)

LEMMA SetEffect ==
  ASSUME KeysAgree, StoreInv, NEW k \in Key, NEW v \in Value, Set(k, v)
  PROVE  /\ TableInv'
         /\ Absent(Store, k) =>
              Store' = Joined(Store, k, v) /\ order' = Append(order, k) /\ count' = count + 1
         /\ ~Absent(Store, k) =>
              Store' = {Overwritten(e, k, v) : e \in Store} /\ order' = order /\ count' = count
<1> DEFINE n == Grown
           t == IF n = capacity THEN entries ELSE Resize(entries, capacity, n)
<1>1. Sound(entries, capacity) /\ capacity \in Nat
  BY DEF StoreInv, TableInv, CapacityInv
<1>2. n \in Nat \ {0} /\ count + 1 <= Load(n) /\ count \in Nat
  BY GrownHasRoom, StoreSize, Minimum DEF StoreInv
<1>3. count < n
  BY <1>2, LoadBelow
<1>4. Cardinality(Contents(entries, capacity)) = count
  BY StoreSize DEF Store
<1>5. Sound(t, n) /\ Contents(t, n) = Store
  <2>1. CASE n = capacity
    BY <1>1, <2>1 DEF Store
  <2>2. CASE n # capacity
    <3>1. PICK u : u = Resize(entries, capacity, n)
      OBVIOUS
    <3>2. Sound(u, n) /\ Contents(u, n) = Contents(entries, capacity)
      BY <1>1, <1>2, <1>3, <1>4, <3>1, ResizeIs
    <3> QED BY <2>2, <3>1, <3>2 DEF Store
  <2> QED BY <2>1, <2>2
<1>6. HasRoom(t, n)
  BY <1>2, <1>3, <1>4, <1>5, ContentsSize DEF Store
<1>7. /\ capacity' = n /\ entries' = InsertEntry(t, n, k, v)
      /\ Found(t, n, k) => count' = count /\ order' = order
      /\ ~Found(t, n, k) => count' = count + 1 /\ order' = Append(order, k)
  BY DEF Set
<1> HIDE DEF n, t
<1>8. Found(t, n, k) <=> \E e \in Store : <<e.key, k>> \in Equal
  BY <1>2, <1>5, FoundIs
<1>9. PICK u : u = InsertEntry(t, n, k, v)
  OBVIOUS
<1>10. /\ Sound(u, n)
       /\ ~Found(t, n, k) => Contents(u, n) = Contents(t, n) \cup {[key |-> k, value |-> v]}
       /\ Found(t, n, k) => Contents(u, n) = {Overwritten(e, k, v) : e \in Contents(t, n)}
  BY <1>2, <1>5, <1>6, <1>9, InsertContents
<1>11. Store' = Contents(u, n) /\ TableInv'
  BY <1>7, <1>9, <1>10 DEF Store, TableInv
<1> QED BY <1>5, <1>7, <1>8, <1>10, <1>11 DEF Absent, Joined

LEMMA RemoveEffect ==
  ASSUME KeysAgree, StoreInv, NEW k \in Key, RemoveKey(k), count # 1
  PROVE  \E c \in Store :
           /\ <<c.key, k>> \in Equal /\ TableInv' /\ Store' = Store \ {c}
           /\ order' = WithoutKey(order, k) /\ count' = count - 1
           /\ next' = next /\ capacity' = Shrunk(count - 1) /\ capacity > 0
<1> DEFINE a == EntryOf(entries, capacity, k)
           t == [entries EXCEPT ![a] = Tombstone]
           n == Shrunk(count - 1)
<1>1. /\ Sound(entries, capacity) /\ capacity \in Nat \ {0} /\ capacity > 0 /\ count \in Nat
      /\ Found(entries, capacity, k)
  BY StoreSize DEF StoreInv, TableInv, CapacityInv, RemoveKey
<1>2. /\ capacity' = n /\ entries' = (IF n = capacity THEN t ELSE Resize(t, capacity, n))
      /\ order' = WithoutKey(order, k) /\ count' = count - 1
      /\ next' = next
  BY DEF RemoveKey, WithoutKey
<1>3. a \in Taken(entries, capacity) /\ <<entries[a].key, k>> \in Equal
  BY <1>1, FoundIn
<1> DEFINE c == entries[a]
<1>4. c \in Store
  BY <1>3 DEF Store, Contents
<1> HIDE DEF a
<1>5. Sound(t, capacity) /\ Contents(t, capacity) = Store \ {c}
  <2>1. PICK b \in Taken(entries, capacity) : b = a
    BY <1>3
  <2>2. PICK u : u = Removed(entries, b)
    OBVIOUS
  <2>3. Sound(u, capacity) /\ Contents(u, capacity) = Contents(entries, capacity) \ {entries[b]}
    BY <1>1, <2>2, RemoveContents
  <2>4. u = t /\ entries[b] = c
    BY <2>1, <2>2 DEF Removed
  <2> HIDE DEF t, c
  <2> QED BY <2>3, <2>4 DEF Store
<1>6. Cardinality(Contents(t, capacity)) = count - 1
  <2>1. Cardinality(Store \ {c}) = count - 1
    BY <1>4, StoreSize, FS_RemoveElement
  <2> QED BY <1>5, <2>1
<1>7. n \in Nat \ {0} /\ count - 1 <= Load(n)
  BY <1>1, ShrunkHasRoom, Minimum DEF StoreInv
<1>8. count - 1 < n
  BY <1>1, <1>7, LoadBelow
<1> HIDE DEF n, t
<1>9. Sound(entries', n) /\ Contents(entries', n) = Store \ {c}
  <2>1. CASE n = capacity
    BY <1>2, <1>5, <2>1
  <2>2. CASE n # capacity
    <3>1. PICK u : u = Resize(t, capacity, n)
      OBVIOUS
    <3>2. Sound(u, n) /\ Contents(u, n) = Contents(t, capacity)
      BY <1>1, <1>5, <1>6, <1>7, <1>8, <3>1, ResizeIs
    <3> QED BY <1>2, <1>5, <2>2, <3>1, <3>2
  <2> QED BY <2>1, <2>2
<1>10. TableInv' /\ Store' = Store \ {c}
  BY <1>2, <1>9 DEF TableInv, Store
<1> HIDE DEF c
<1>11. <<c.key, k>> \in Equal
  BY <1>3 DEF c
<1> QED BY <1>1, <1>2, <1>4, <1>10, <1>11 DEF n

-----------------------------------------------------------------------------
(* The invariant is kept *)

LEMMA StoreInit == Init => StoreInv
<1> SUFFICES ASSUME Init PROVE StoreInv
  OBVIOUS
<1>1. CapacityInv /\ GrowthInv
  BY DEF Init, CapacityInv, LoadBounded, Load, GrowthInv
<1>2. TableInv /\ Store = {}
  BY BlankSound DEF Init, TableInv, Store
<1>3. Lists(<<>>, {}) /\ Len(<<>>) = 0
  BY DEF Lists, Distinct
<1>4. OrderInv /\ NextInv
  BY <1>2, <1>3 DEF Init, OrderInv, NextInv
<1> QED BY <1>1, <1>2, <1>4 DEF StoreInv

LEMMA ClearKeeps == StoreInv /\ Clear => StoreInv'
<1> SUFFICES ASSUME StoreInv, Clear PROVE StoreInv'
  OBVIOUS
<1>1. CapacityInv'
  BY ClearKeepsCapacity DEF StoreInv
<1>2. PICK n \in Nat : capacity' = n /\ entries' = Blank(n) /\ n \in {0, capacity}
  BY DEF Clear, StoreInv, CapacityInv
<1>3. GrowthInv'
  BY <1>2 DEF StoreInv, GrowthInv
<1>4. TableInv' /\ Store' = {}
  BY <1>2, BlankSound DEF TableInv, Store
<1>5. count' = 0 /\ order' = <<>> /\ next' = 0
  BY DEF Clear
<1>6. Lists(<<>>, {}) /\ Len(<<>>) = 0
  BY DEF Lists, Distinct
<1>7. OrderInv' /\ NextInv'
  BY <1>4, <1>5, <1>6 DEF OrderInv, NextInv
<1> QED BY <1>1, <1>3, <1>4, <1>7 DEF StoreInv

LEMMA NextAfterIs ==
  ASSUME NextInv, NEW k \in Key
  PROVE  /\ NextAfter(k) \in Nat /\ NextAfter(k) >= next
         /\ k \in DOMAIN Integer => Integer[k] < NextAfter(k)
BY MapAssumption DEF NextAfter, NextInv

LEMMA SetKeeps ==
  ASSUME KeysAgree, StoreInv, NEW k \in Key, NEW v \in Value, Set(k, v)
  PROVE  StoreInv'
<1> DEFINE b == [key |-> k, value |-> v]
<1>1. CapacityInv'
  BY CapacityStep DEF Next, StoreInv
<1>2. GrowthInv'
  <2>1. capacity' = Grown
    BY DEF Set
  <2> QED BY <2>1, GrownIs DEF StoreInv, GrowthInv
<1>3. /\ TableInv'
      /\ Absent(Store, k) => Store' = Joined(Store, k, v) /\ order' = Append(order, k) /\ count' = count + 1
      /\ ~Absent(Store, k) =>
           Store' = {Overwritten(e, k, v) : e \in Store} /\ order' = order /\ count' = count
  BY SetEffect
<1>4. next' = NextAfter(k)
  BY DEF Set
<1>5. Pairwise(Store) /\ Lists(order, Store) /\ count = Len(order) /\ NextInv
  BY StoreSize DEF StoreInv, OrderInv
<1>6. CASE Absent(Store, k)
  <2>1. Store' = Joined(Store, k, v) /\ order' = Append(order, k) /\ count' = count + 1
    BY <1>3, <1>6
  <2>2. Lists(order', Store') /\ Len(order') = Len(order) + 1
    BY <1>5, <1>6, <2>1, ListsAppend
  <2>3. OrderInv'
    BY <1>5, <2>1, <2>2 DEF OrderInv
  <2>4. b.key = k /\ Store' = Store \cup {b}
    BY <2>1 DEF Joined
  <2> HIDE DEF b
  <2>5. NextInv'
    <3> SUFFICES ASSUME NEW e \in Store', e.key \in DOMAIN Integer PROVE Integer[e.key] < next'
      BY <1>4, <1>5, NextAfterIs DEF NextInv
    <3>1. CASE e \in Store
      <4>1. Integer[e.key] < next /\ Integer[e.key] \in Int /\ next \in Nat
        BY <1>5, <3>1, MapAssumption DEF NextInv
      <4>2. next' \in Nat /\ next' >= next
        BY <1>4, <1>5, NextAfterIs
      <4> QED BY <4>1, <4>2
    <3>2. CASE e = b
      BY <1>4, <1>5, <2>4, <3>2, NextAfterIs
    <3> QED BY <2>4, <3>1, <3>2
  <2> QED BY <1>1, <1>2, <1>3, <2>3, <2>5 DEF StoreInv
<1>7. CASE ~Absent(Store, k)
  <2>1. Store' = {Overwritten(e, k, v) : e \in Store} /\ order' = order /\ count' = count
    BY <1>3, <1>7
  <2>2. Lists(order', Store')
    BY <1>5, <2>1, ListsOverwritten
  <2>3. OrderInv'
    BY <1>5, <2>1, <2>2 DEF OrderInv
  <2>4. NextInv'
    <3> SUFFICES ASSUME NEW e \in Store', e.key \in DOMAIN Integer PROVE Integer[e.key] < next'
      BY <1>4, <1>5, NextAfterIs DEF NextInv
    <3>1. PICK d \in Store : e.key = d.key
      <4>1. PICK d \in Store : e = Overwritten(d, k, v)
        BY <2>1
      <4>2. Overwritten(d, k, v).key = d.key
        BY DEF Overwritten
      <4> QED BY <4>1, <4>2
    <3>2. Integer[e.key] < next /\ Integer[e.key] \in Int /\ next \in Nat
      BY <1>5, <3>1, MapAssumption DEF NextInv
    <3>3. next' \in Nat /\ next' >= next
      BY <1>4, <1>5, NextAfterIs
    <3> QED BY <3>2, <3>3
  <2> QED BY <1>1, <1>2, <1>3, <2>3, <2>4 DEF StoreInv
<1> QED BY <1>6, <1>7

LEMMA RemoveKeeps ==
  ASSUME KeysAgree, StoreInv, NEW k \in Key, RemoveKey(k)
  PROVE  StoreInv'
<1>1. CASE count = 1
  BY <1>1, ClearKeeps DEF RemoveKey
<1>2. CASE count # 1
  <2>1. PICK c \in Store :
           /\ <<c.key, k>> \in Equal /\ TableInv' /\ Store' = Store \ {c}
           /\ order' = WithoutKey(order, k) /\ count' = count - 1
           /\ next' = next /\ capacity' = Shrunk(count - 1) /\ capacity > 0
    BY <1>2, RemoveEffect
  <2>2. CapacityInv'
    BY CapacityStep DEF Next, StoreInv
  <2>3. GrowthInv'
    BY <2>1, ShrunkIs DEF GrowthInv, StoreInv
  <2>4. Pairwise(Store) /\ Lists(order, Store) /\ count = Len(order)
    BY StoreSize DEF StoreInv, OrderInv
  <2>5. Lists(order', Store') /\ Len(order') = Len(order) - 1
    <3>1. PICK r : r = order'
      OBVIOUS
    <3>2. r = WithoutKey(order, k)
      BY <2>1, <3>1
    <3>3. Lists(r, Store \ {c}) /\ Len(r) = Len(order) - 1
      BY <2>1, <2>4, <3>2, ListsRemove
    <3> QED BY <2>1, <3>1, <3>3
  <2>6. OrderInv'
    BY <2>1, <2>4, <2>5 DEF OrderInv
  <2>7. NextInv'
    BY <2>1 DEF NextInv, StoreInv
  <2> QED BY <2>1, <2>2, <2>3, <2>6, <2>7 DEF StoreInv
<1> QED BY <1>1, <1>2

LEMMA StoreStep == KeysAgree /\ StoreInv /\ [Next]_vars => StoreInv'
<1> SUFFICES ASSUME KeysAgree, StoreInv, [Next]_vars PROVE StoreInv'
  OBVIOUS
<1>1. ASSUME NEW k \in Key, NEW v \in Value, Set(k, v) PROVE StoreInv'
  BY <1>1, SetKeeps
<1>2. ASSUME NEW v \in Value, Add(v) PROVE StoreInv'
  <2>1. next \in DOMAIN IndexKey /\ Set(IndexKey[next], v)
    BY <1>2 DEF Add
  <2>2. IndexKey[next] \in Key
    BY <2>1, MapAssumption
  <2> QED BY <2>1, <2>2, <1>1
<1>3. ASSUME NEW k \in Key, RemoveKey(k) PROVE StoreInv'
  BY <1>3, RemoveKeeps
<1>4. CASE Clear
  BY <1>4, ClearKeeps
<1>5. CASE UNCHANGED vars
  BY <1>5 DEF vars, StoreInv, CapacityInv, LoadBounded, Load, GrowthInv, TableInv, OrderInv, NextInv, Store
<1> QED BY <1>1, <1>2, <1>3, <1>4, <1>5 DEF Next

LEMMA StoreMap == KeysAgree /\ StoreInv => MapInv
<1> SUFFICES ASSUME KeysAgree, StoreInv PROVE MapInv
  OBVIOUS
<1>1. /\ Sound(entries, capacity) /\ capacity \in Nat /\ Lists(order, Store) /\ count = Len(order)
      /\ count \in Nat /\ count <= capacity /\ Pairwise(Store) /\ NextInv
      /\ Cardinality(Taken(entries, capacity)) = count
  BY StoreSize DEF StoreInv, TableInv, CapacityInv, OrderInv
<1>2. DOMAIN order = 1..Len(order)
  BY <1>1 DEF Lists
<1>3. TypeOK
  <2>1. capacity = 0 \/ \E e \in 0..capacity : capacity = Doubled[e]
    <3>1. ASSUME NEW e \in Nat, capacity = Doubled[e] PROVE e \in 0..capacity
      <4>1. Doubled[e] >= e + 2
        BY DoubledIs
      <4> QED BY <1>1, <3>1, <4>1
    <3> QED BY <3>1 DEF StoreInv, GrowthInv
  <2>2. count \in 0..capacity /\ next \in Nat /\ order \in Seq(Key)
    BY <1>1 DEF NextInv, Lists
  <2> QED BY <1>1, <2>1, <2>2 DEF TypeOK, Sound
<1>4. LookupExact
  <2> SUFFICES ASSUME NEW k \in Key
               PROVE  Lookup(k) # Undef <=> \E i \in DOMAIN order : <<order[i], k>> \in Equal
    BY DEF LookupExact
  <2>1. CASE \A e \in Store : <<e.key, k>> \notin Equal
    <3>1. Lookup(k) = Undef
      BY <2>1, GetIs
    <3>2. \A i \in DOMAIN order : <<order[i], k>> \notin Equal
      BY <1>1, <1>2, <2>1 DEF Lists
    <3> QED BY <3>1, <3>2
  <2>2. ASSUME NEW e \in Store, <<e.key, k>> \in Equal
        PROVE  Lookup(k) # Undef /\ \E i \in DOMAIN order : <<order[i], k>> \in Equal
    <3>1. Lookup(k) = e.value /\ e.value \in Value
      BY <1>1, <2>2, GetIs DEF Pairwise, Pair
    <3>2. PICK i \in 1..Len(order) : e.key = order[i]
      BY <1>1 DEF Lists
    <3> QED BY <1>2, <2>2, <3>1, <3>2, MapAssumption
  <2> QED BY <2>1, <2>2
<1>5. OrderIsOfEntries
  <2>1. DOMAIN entries = 0..(capacity - 1)
    BY <1>1 DEF Sound
  <2>2. Used = Taken(entries, capacity)
    BY <2>1 DEF Used, Taken
  <2>3. ToSet(order) = {entries[i].key : i \in Used}
    <3>1. ToSet(order) = {order[i] : i \in 1..Len(order)}
      BY <1>2 DEF ToSet
    <3>2. \A i \in 1..Len(order) : \E p \in Used : entries[p].key = order[i]
      BY <1>1, <2>2 DEF Lists, Store, Contents
    <3>3. \A p \in Used : \E i \in 1..Len(order) : entries[p].key = order[i]
      BY <1>1, <2>2 DEF Lists, Store, Contents
    <3> QED BY <3>1, <3>2, <3>3
  <2> QED BY <1>1, <2>2, <2>3 DEF OrderIsOfEntries
<1>6. NextIsNew
  <2> SUFFICES ASSUME next \in DOMAIN IndexKey, NEW i \in 1..Len(order), <<order[i], IndexKey[next]>> \in Equal
               PROVE  FALSE
    BY <1>2 DEF NextIsNew
  <2>1. PICK e \in Store : e.key = order[i]
    BY <1>1 DEF Lists
  <2>2. e.key \in Key /\ <<e.key, IndexKey[next]>> \in Equal
    BY <1>1, <2>1 DEF Pairwise, Pair
  <2>3. e.key \in DOMAIN Integer /\ Integer[e.key] = next
    BY <2>2 DEF KeysAgree
  <2>4. Integer[e.key] < next /\ next \in Nat
    BY <1>1, <2>3 DEF NextInv
  <2> QED BY <2>3, <2>4
<1> QED BY <1>3, <1>4, <1>5, <1>6 DEF MapInv

\* Through any sets, removals, growths, shrinks and clears, searches find the
\* keys that were set and not removed since, order_keys has them each once, and
\* next_index is a new key (mapSet, mapGet, mapRemoveKey, mapClear).
THEOREM MapCorrect == ASSUME KeysAgree PROVE Spec => []MapInv
<1>1. StoreInv /\ [Next]_vars => StoreInv'
  BY StoreStep
<1>2. StoreInv => MapInv
  BY StoreMap
<1> QED BY <1>1, <1>2, StoreInit, PTL DEF Spec

-----------------------------------------------------------------------------
(* A map is a list of pairs *)

\* The entries of C in the order of their keys in s.
Spells(p, s, C) ==
  /\ p \in Seq(Pair) /\ Len(p) = Len(s)
  /\ \A i \in 1..Len(s) : p[i] \in C /\ p[i].key = s[i]

LEMMA SpellsOnce ==
  ASSUME NEW C, Pairwise(C), NEW s, NEW p, NEW q, Spells(p, s, C), Spells(q, s, C)
  PROVE  p = q
<1>1. p \in Seq(Pair) /\ q \in Seq(Pair) /\ Len(p) = Len(q)
  BY DEF Spells
<1>2. ASSUME NEW i \in 1..Len(p) PROVE p[i] = q[i]
  <2>1. p[i] \in C /\ q[i] \in C /\ p[i].key = q[i].key
    BY <1>1 DEF Spells
  <2>2. p[i].key \in Key
    BY <2>1 DEF Pairwise, Pair
  <2>3. <<p[i].key, q[i].key>> \in Equal
    BY <2>1, <2>2, MapAssumption
  <2> QED BY <2>1, <2>3 DEF Pairwise
<1> QED BY <1>1, <1>2, SeqEqual

LEMMA PairsSpell ==
  ASSUME KeysAgree, StoreInv
  PROVE  Spells(Pairs, order, Store) /\ Pairwise(Store) /\ Lists(order, Store) /\ count = Len(order)
<1>1. Pairwise(Store) /\ Lists(order, Store) /\ count = Len(order)
  BY StoreSize DEF StoreInv, OrderInv
<1>2. DOMAIN order = 1..Len(order) /\ Len(order) \in Nat
  BY <1>1 DEF Lists
<1>3. ASSUME NEW i \in 1..Len(order) PROVE Pairs[i] \in Store /\ Pairs[i].key = order[i] /\ Pairs[i] \in Pair
  <2>1. PICK e \in Store : e.key = order[i]
    BY <1>1 DEF Lists
  <2>2. e \in Pair /\ e.key \in Key /\ e = [key |-> e.key, value |-> e.value]
    BY <1>1 DEF Pairwise, Pair
  <2>3. <<e.key, order[i]>> \in Equal /\ order[i] \in Key
    BY <2>1, <2>2, MapAssumption
  <2>4. Lookup(order[i]) = e.value
    BY <2>3, GetIs
  <2>5. Pairs[i] = [key |-> order[i], value |-> Lookup(order[i])]
    BY <1>2 DEF Pairs
  <2>6. Pairs[i] = e
    BY <2>1, <2>2, <2>4, <2>5
  <2> QED BY <2>1, <2>2, <2>6
<1>4. Pairs = [i \in 1..Len(order) |-> Pairs[i]]
  BY <1>2 DEF Pairs
<1>5. Pairs \in [1..Len(order) -> Pair]
  BY <1>3, <1>4
<1>6. Pairs \in Seq(Pair) /\ Len(Pairs) = Len(order)
  BY <1>2, <1>5
<1> QED BY <1>1, <1>3, <1>6 DEF Spells

LEMMA AtIs ==
  ASSUME NEW C, NEW s, NEW p, Spells(p, s, C), NEW k
  PROVE  /\ Abstract!At(p, k) = {i \in 1..Len(s) : <<s[i], k>> \in Equal}
         /\ Lists(s, C) => (Absent(C, k) <=> Abstract!At(p, k) = {})
<1>1. DOMAIN p = 1..Len(s)
  BY DEF Spells
<1>2. Abstract!At(p, k) = {i \in 1..Len(s) : <<s[i], k>> \in Equal}
  BY <1>1 DEF Abstract!At, Spells
<1> QED BY <1>2 DEF Lists, Absent

LEMMA SpellsAppend ==
  ASSUME NEW C, NEW s \in Seq(Key), NEW p, Spells(p, s, C), NEW k \in Key, NEW v \in Value
  PROVE  Spells(Append(p, [key |-> k, value |-> v]), Append(s, k), Joined(C, k, v))
<1> DEFINE b == [key |-> k, value |-> v]
           r == Append(s, k)
           q == Append(p, b)
           D == Joined(C, k, v)
<1>1. b \in Pair /\ b.key = k /\ D = C \cup {b}
  BY DEF Pair, Joined
<1> HIDE DEF b, D
<1>2. p \in Seq(Pair) /\ Len(p) = Len(s) /\ Len(s) \in Nat
  BY DEF Spells
<1>3. Len(r) = Len(s) + 1 /\ r[Len(s) + 1] = k /\ \A i \in 1..Len(s) : r[i] = s[i]
  BY AppendIs
<1>4. q \in Seq(Pair) /\ Len(q) = Len(p) + 1 /\ q[Len(p) + 1] = b /\ \A i \in 1..Len(p) : q[i] = p[i]
  BY <1>1, <1>2, AppendIs
<1> HIDE DEF r, q
<1>5. ASSUME NEW i \in 1..Len(r) PROVE q[i] \in D /\ q[i].key = r[i]
  <2>1. CASE i \in 1..Len(s)
    BY <1>1, <1>2, <1>3, <1>4, <2>1 DEF Spells
  <2>2. CASE i = Len(s) + 1
    BY <1>1, <1>2, <1>3, <1>4, <2>2
  <2> QED BY <1>2, <1>3, <2>1, <2>2
<1>6. Spells(q, r, D)
  BY <1>2, <1>3, <1>4, <1>5 DEF Spells
<1> QED BY <1>6 DEF q, r, D, b

\* What Put makes of a list that has the key.
Replaced(p, at, v) == [i \in DOMAIN p |-> IF i \in at THEN [p[i] EXCEPT !.value = v] ELSE p[i]]

LEMMA SpellsOverwritten ==
  ASSUME NEW C, NEW s, NEW p, Spells(p, s, C), NEW k \in Key, NEW v \in Value,
         NEW D, D = {Overwritten(e, k, v) : e \in C}
  PROVE  Spells(Replaced(p, Abstract!At(p, k), v), s, D)
<1> DEFINE at == Abstract!At(p, k)
           q == Replaced(p, at, v)
<1>1. p \in Seq(Pair) /\ DOMAIN p = 1..Len(s) /\ Len(p) = Len(s)
  BY DEF Spells
<1>2. at = {i \in 1..Len(s) : <<s[i], k>> \in Equal}
  BY AtIs
<1> HIDE DEF at
<1>3. ASSUME NEW i \in 1..Len(s) PROVE q[i] = Overwritten(p[i], k, v) /\ q[i].key = s[i] /\ q[i] \in Pair
  <2>1. p[i] \in C /\ p[i].key = s[i] /\ p[i] \in Pair
    BY <1>1 DEF Spells
  <2>2. PICK l \in Key, w \in Value : p[i] = [key |-> l, value |-> w] /\ l = s[i]
    BY <2>1 DEF Pair
  <2>3. [p[i] EXCEPT !.value = v] = [key |-> l, value |-> v]
    BY <2>2
  <2>4. q[i] = IF i \in at THEN [p[i] EXCEPT !.value = v] ELSE p[i]
    BY <1>1 DEF Replaced
  <2>5. i \in at <=> <<p[i].key, k>> \in Equal
    BY <1>2, <2>1
  <2> HIDE DEF q
  <2>6. q[i] = Overwritten(p[i], k, v)
    BY <2>2, <2>3, <2>4, <2>5 DEF Overwritten
  <2>7. q[i].key = s[i]
    BY <2>1, <2>2, <2>3, <2>4
  <2>8. q[i] \in Pair
    BY <2>1, <2>2, <2>3, <2>4 DEF Pair
  <2> QED BY <2>6, <2>7, <2>8
<1>4. DOMAIN q = 1..Len(s) /\ q = [i \in 1..Len(s) |-> q[i]]
  BY <1>1 DEF Replaced
<1> HIDE DEF q
<1>5. q \in [1..Len(s) -> Pair]
  BY <1>3, <1>4
<1>6. q \in Seq(Pair) /\ Len(q) = Len(s)
  <2>1. Len(s) \in Nat
    BY <1>1
  <2> QED BY <1>5, <2>1
<1>7. ASSUME NEW i \in 1..Len(s) PROVE q[i] \in D
  BY <1>3, <1>7 DEF Spells
<1>8. Spells(q, s, D)
  BY <1>3, <1>6, <1>7 DEF Spells
<1> QED BY <1>8 DEF q, at

LEMMA SpellsRemove ==
  ASSUME NEW C, NEW s \in Seq(Key), Distinct(s), NEW p, Spells(p, s, C), NEW c \in C,
         NEW i \in 1..Len(s), s[i] = c.key
  PROVE  Spells(RemoveAt(p, i), RemoveAt(s, i), C \ {c})
<1> DEFINE q == RemoveAt(p, i)
           r == RemoveAt(s, i)
           D == C \ {c}
<1>1. p \in Seq(Pair) /\ Len(p) = Len(s) /\ Len(s) \in Nat
  BY DEF Spells
<1>2. Len(r) = Len(s) - 1 /\ \A j \in 1..(Len(s) - 1) : r[j] = s[IF j < i THEN j ELSE j + 1]
  BY RemoveIs
<1>3. /\ q \in Seq(Pair) /\ Len(q) = Len(p) - 1
      /\ \A j \in 1..(Len(p) - 1) : q[j] = p[IF j < i THEN j ELSE j + 1]
  <2>1. i \in 1..Len(p)
    BY <1>1
  <2> QED BY <1>1, <2>1, RemoveIs
<1> HIDE DEF q, r
<1>4. ASSUME NEW j \in 1..Len(r) PROVE q[j] \in D /\ q[j].key = r[j]
  <2> DEFINE h == IF j < i THEN j ELSE j + 1
  <2>1. j \in 1..(Len(s) - 1) /\ j \in 1..(Len(p) - 1)
    BY <1>1, <1>2
  <2>2. q[j] = p[h] /\ r[j] = s[h]
    BY <1>2, <1>3, <2>1
  <2>3. h \in 1..Len(s) /\ h # i
    BY <1>1, <2>1
  <2> HIDE DEF h
  <2>4. p[h] \in C /\ p[h].key = s[h]
    BY <2>3 DEF Spells
  <2>5. p[h] # c
    BY <2>3, <2>4 DEF Distinct
  <2> QED BY <2>2, <2>4, <2>5
<1>5. Spells(q, r, D)
  BY <1>1, <1>2, <1>3, <1>4 DEF Spells
<1> QED BY <1>5 DEF q, r

LEMMA SetImplements ==
  ASSUME KeysAgree, StoreInv, StoreInv', NEW k \in Key, NEW v \in Value, Set(k, v)
  PROVE  Abstract!Put(k, v)
<1>1. Spells(Pairs, order, Store) /\ Pairwise(Store) /\ Lists(order, Store)
  BY PairsSpell
<1>2. Spells(Pairs', order', Store') /\ Pairwise(Store')
  <2>1. (KeysAgree /\ StoreInv => Spells(Pairs, order, Store) /\ Pairwise(Store))'
    BY PairsSpell, PTL
  <2> QED BY <2>1 DEF KeysAgree
<1>3. /\ Absent(Store, k) => Store' = Joined(Store, k, v) /\ order' = Append(order, k)
      /\ ~Absent(Store, k) => Store' = {Overwritten(e, k, v) : e \in Store} /\ order' = order
  BY SetEffect
<1>4. Absent(Store, k) <=> Abstract!At(Pairs, k) = {}
  BY <1>1, AtIs
<1>5. next' = IF k \in DOMAIN Integer /\ Integer[k] >= next THEN Integer[k] + 1 ELSE next
  BY DEF Set, NextAfter
<1>6. CASE Absent(Store, k)
  <2>1. Spells(Append(Pairs, [key |-> k, value |-> v]), Append(order, k), Joined(Store, k, v))
    BY <1>1, SpellsAppend DEF Lists
  <2>2. Pairs' = Append(Pairs, [key |-> k, value |-> v])
    BY <1>2, <1>3, <1>6, <2>1, SpellsOnce
  <2> QED BY <1>4, <1>5, <1>6, <2>2 DEF Abstract!Put
<1>7. CASE ~Absent(Store, k)
  <2>1. PICK D : D = Store'
    OBVIOUS
  <2>2. D = {Overwritten(e, k, v) : e \in Store}
    BY <1>3, <1>7, <2>1
  <2>3. Spells(Replaced(Pairs, Abstract!At(Pairs, k), v), order, D)
    BY <1>1, <2>2, SpellsOverwritten
  <2>4. Pairs' = Replaced(Pairs, Abstract!At(Pairs, k), v)
    BY <1>2, <1>3, <1>7, <2>1, <2>3, SpellsOnce
  <2>5. Pairs' = [i \in DOMAIN Pairs |->
                    IF i \in Abstract!At(Pairs, k) THEN [Pairs[i] EXCEPT !.value = v] ELSE Pairs[i]]
    BY <2>4 DEF Replaced
  <2> QED BY <1>4, <1>5, <1>7, <2>5 DEF Abstract!Put
<1> QED BY <1>6, <1>7

LEMMA ClearImplements ==
  ASSUME KeysAgree, StoreInv', Clear
  PROVE  Abstract!Forget
<1>1. Spells(Pairs', order', Store')
  <2>1. (KeysAgree /\ StoreInv => Spells(Pairs, order, Store))'
    BY PairsSpell, PTL
  <2> QED BY <2>1 DEF KeysAgree
<1>2. order' = <<>> /\ next' = 0
  BY DEF Clear
<1>3. Pairs' = <<>>
  <2>1. PICK p : p = Pairs'
    OBVIOUS
  <2>2. p \in Seq(Pair) /\ Len(p) = 0
    BY <1>1, <1>2, <2>1 DEF Spells
  <2>3. p = <<>>
    BY <2>2
  <2> QED BY <2>1, <2>3
<1> QED BY <1>2, <1>3 DEF Abstract!Forget

LEMMA RemoveImplements ==
  ASSUME KeysAgree, StoreInv, StoreInv', NEW k \in Key, RemoveKey(k)
  PROVE  Abstract!Delete(k)
<1>1. Spells(Pairs, order, Store) /\ Pairwise(Store) /\ Lists(order, Store) /\ count = Len(order)
  BY PairsSpell
<1>2. Spells(Pairs', order', Store') /\ Pairwise(Store')
  <2>1. (KeysAgree /\ StoreInv => Spells(Pairs, order, Store) /\ Pairwise(Store))'
    BY PairsSpell, PTL
  <2> QED BY <2>1 DEF KeysAgree
<1>3. Len(Pairs) = count
  BY <1>1 DEF Spells
<1>4. Abstract!At(Pairs, k) = {i \in 1..Len(order) : <<order[i], k>> \in Equal}
  BY <1>1, AtIs
<1>5. CASE count = 1
  <2>1. Clear
    BY <1>5 DEF RemoveKey
  <2>2. \E e \in Store : <<e.key, k>> \in Equal
    <3>1. capacity \in Nat \ {0} /\ Sound(entries, capacity) /\ Found(entries, capacity, k)
      BY DEF RemoveKey, StoreInv, TableInv, CapacityInv
    <3> QED BY <3>1, FoundIs DEF Store
  <2>3. Abstract!At(Pairs, k) # {}
    BY <1>1, <2>2, AtIs DEF Absent
  <2>4. Abstract!Forget
    BY <2>1, ClearImplements
  <2> QED BY <1>3, <1>5, <2>3, <2>4 DEF Abstract!Delete
<1>6. CASE count # 1
  <2>1. PICK c \in Store :
          <<c.key, k>> \in Equal /\ Store' = Store \ {c} /\ order' = WithoutKey(order, k) /\ next' = next
    BY <1>6, RemoveEffect
  <2>2. PICK i \in 1..Len(order) : <<order[i], k>> \in Equal /\ WithoutKey(order, k) = RemoveAt(order, i)
    <3>1. PICK r : r = WithoutKey(order, k)
      OBVIOUS
    <3>2. OneOut(order, k, r)
      BY <1>1, <2>1, <3>1, ListsRemove
    <3> QED BY <3>1, <3>2 DEF OneOut
  <2>3. order[i] = c.key
    <3>1. PICK e \in Store : e.key = order[i]
      BY <1>1 DEF Lists
    <3>2. PICK d \in Key, l \in Key : d = e.key /\ l = c.key
      BY <1>1 DEF Pairwise, Pair
    <3>3. <<d, l>> \in Equal
      BY <2>1, <2>2, <3>1, <3>2 DEF KeysAgree
    <3>4. e = c
      BY <1>1, <3>2, <3>3 DEF Pairwise
    <3> QED BY <3>1, <3>4
  <2>4. Spells(RemoveAt(Pairs, i), RemoveAt(order, i), Store \ {c})
    BY <1>1, <2>3, SpellsRemove DEF Lists
  <2>5. Pairs' = RemoveAt(Pairs, i)
    BY <1>2, <2>1, <2>2, <2>4, SpellsOnce
  <2>6. Pairs' = SubSeq(Pairs, 1, i - 1) \o SubSeq(Pairs, i + 1, Len(Pairs))
    BY <2>5 DEF RemoveAt
  <2>7. i \in Abstract!At(Pairs, k)
    BY <1>4, <2>2
  <2> QED BY <1>3, <1>6, <2>1, <2>6, <2>7 DEF Abstract!Delete
<1> QED BY <1>5, <1>6

\* A Map is a list of pairs, whatever collisions, tombstones, growth and
\* shrinking its table goes through (mapSet, mapRemoveKey, mapClear, mapGet).
THEOREM MapImplements == ASSUME KeysAgree PROVE Spec => Implements
<1>1. Init => Abstract!Init
  <2> SUFFICES ASSUME Init PROVE Abstract!Init
    OBVIOUS
  <2>1. order = <<>> /\ next = 0
    BY DEF Init
  <2>2. DOMAIN order = {}
    BY <2>1
  <2>3. Pairs = [i \in {} |-> [key |-> order[i], value |-> Lookup(order[i])]]
    BY <2>2 DEF Pairs
  <2>4. Pairs = <<>>
    BY <2>3
  <2> QED BY <2>1, <2>4 DEF Abstract!Init
<1>2. StoreInv /\ StoreInv' /\ [Next]_vars => [Abstract!Next]_(Abstract!vars)
  <2> SUFFICES ASSUME StoreInv, StoreInv', [Next]_vars PROVE [Abstract!Next]_(Abstract!vars)
    OBVIOUS
  <2>1. ASSUME NEW k \in Key, NEW v \in Value, Set(k, v) PROVE Abstract!Next
    BY <2>1, SetImplements DEF Abstract!Next
  <2>2. ASSUME NEW v \in Value, Add(v) PROVE Abstract!Next
    <3>1. next \in DOMAIN IndexKey /\ Set(IndexKey[next], v)
      BY <2>2 DEF Add
    <3>2. IndexKey[next] \in Key
      BY <3>1, MapAssumption
    <3> QED BY <2>1, <3>1, <3>2
  <2>3. ASSUME NEW k \in Key, RemoveKey(k) PROVE Abstract!Next
    BY <2>3, RemoveImplements DEF Abstract!Next
  <2>4. CASE Clear
    BY <2>4, ClearImplements DEF Abstract!Next
  <2>5. CASE UNCHANGED vars
    BY <2>5 DEF vars, Pairs, Lookup, Found, Ends, EntryOf, Slot, Holds, Abstract!vars
  <2> QED BY <2>1, <2>2, <2>3, <2>4, <2>5 DEF Next
<1>3. StoreInv /\ [Next]_vars => StoreInv'
  BY StoreStep
<1> QED BY <1>1, <1>2, <1>3, StoreInit, PTL DEF Spec, Implements, Abstract!Spec

=============================================================================
