------------------------------- MODULE HashMap -------------------------------
(***************************************************************************)
(* The Map type: an open-addressing table with linear probing and          *)
(* tombstones, its growth and shrinking, the keys in insertion order, and  *)
(* the next integer key of value-only entries.                             *)
(*                                                                         *)
(* A key is a Var.  Keys that isValuesEqual takes for equal, without being *)
(* the same object (strings with the same text, ranges, +0 and -0), are    *)
(* different members of Key.                                               *)
(***************************************************************************)
EXTENDS Integers, Sequences, FiniteSets, SequencesExt

CONSTANTS
  Key, Value,
  Undef,         \* VAR_UNDEFINED
  Equal,         \* the pairs of keys that isValuesEqual takes for equal
  Hash,          \* varHashValue of each key
  Integer,       \* the integer of each key that is one (_mapIsIntegerKey)
  IndexKey,      \* the key VAR_NUM((double) i), for i up to the bound
  MinCapacity,   \* MIN_CAPACITY
  ClearRetain    \* MAP_CLEAR_RETAIN_CAPACITY

ASSUME MapAssumption ==
  /\ Undef \notin Key \cup Value
  /\ Equal \subseteq Key \X Key
  /\ \A k \in Key : <<k, k>> \in Equal
  /\ Hash \in [Key -> Nat]
  /\ DOMAIN Integer \subseteq Key /\ \A k \in DOMAIN Integer : Integer[k] \in Int
  /\ DOMAIN IndexKey \subseteq Nat /\ \A i \in DOMAIN IndexKey : IndexKey[i] \in Key
  /\ MinCapacity \in Nat \ {0, 1}
  /\ ClearRetain \in Nat

\* What a search relies on: isValuesEqual is an equivalence that varHashValue
\* respects, and a number made of an index is equal to that integer only.  The
\* code breaks it for +0 and -0 (and ranges of them), which are equal but have
\* the hashes of different bits, and for integers past 2^53.
KeysAgree ==
  /\ \A k, l \in Key : <<k, l>> \in Equal => <<l, k>> \in Equal /\ Hash[k] = Hash[l]
  /\ \A k, l, m \in Key : <<k, l>> \in Equal /\ <<l, m>> \in Equal => <<k, m>> \in Equal
  /\ \A i \in DOMAIN IndexKey, k \in Key :
       <<k, IndexKey[i]>> \in Equal => k \in DOMAIN Integer /\ Integer[k] = i

VARIABLES
  capacity, count, entries,
  order,    \* order_keys
  next      \* next_index

vars == <<capacity, count, entries, order, next>>

\* A slot never used, and one whose entry was removed.
Free == [key |-> Undef, value |-> FALSE]
Tombstone == [key |-> Undef, value |-> TRUE]
Entry == [key : Key, value : Value] \cup {Free, Tombstone}

\* The capacities a table grows and shrinks through.
Doubled[e \in Nat] == IF e = 0 THEN MinCapacity ELSE 2 * Doubled[e - 1]

TypeOK ==
  /\ capacity = 0 \/ \E e \in 0..capacity : capacity = Doubled[e]
  /\ count \in 0..capacity
  /\ entries \in [0..(capacity - 1) -> Entry]
  /\ order \in Seq(Key)
  /\ next \in Nat

Blank(n) == [i \in 0..(n - 1) |-> Free]

Init ==
  /\ capacity = 0
  /\ count = 0
  /\ entries = Blank(0)
  /\ order = <<>>
  /\ next = 0

-----------------------------------------------------------------------------
(* Probing: t is a table of n entries *)

Slot(n, k, i) == (Hash[k] + i) % n

Holds(e, k) == e.key # Undef /\ <<e.key, k>> \in Equal

\* Mutant: the search ends at the first tombstone.
EndsAtTombstone(t, n, k) ==
  {i \in 0..(n - 1) : LET e == t[Slot(n, k, i)] IN e.key = Undef \/ Holds(e, k)}

\* Where the search for k may end: at its entry, or at a slot never used.
Ends(t, n, k) == {i \in 0..(n - 1) : LET e == t[Slot(n, k, i)] IN e = Free \/ Holds(e, k)}

Found(t, n, k) ==
  LET ends == Ends(t, n, k) IN ends # {} /\ Holds(t[Slot(n, k, Min(ends))], k)

\* The entry of a key that is found.
EntryOf(t, n, k) == Slot(n, k, Min(Ends(t, n, k)))

\* Where a key that is not found goes: the first tombstone on the way, else
\* the slot that ended the search.
Available(t, n, k) ==
  Slot(n, k, Min({i \in 0..(n - 1) : t[Slot(n, k, i)].key = Undef}))

\* _mapInsertEntry.  The key of an entry that is found stays as it is.
InsertEntry(t, n, k, v) ==
  IF Found(t, n, k)
    THEN [t EXCEPT ![EntryOf(t, n, k)].value = v]
    ELSE [t EXCEPT ![Available(t, n, k)] = [key |-> k, value |-> v]]

\* _mapResize: the entries of t, in their order, into n fresh ones.
Resize(t, old, n) ==
  LET into[i \in 0..old] ==
        IF i = 0 THEN Blank(n)
        ELSE IF t[i - 1].key = Undef THEN into[i - 1]
        ELSE InsertEntry(into[i - 1], n, t[i - 1].key, t[i - 1].value)
  IN  into[old]

\* What mapGet returns.
Lookup(k) ==
  IF capacity > 0 /\ Found(entries, capacity, k)
    THEN entries[EntryOf(entries, capacity, k)].value ELSE Undef

-----------------------------------------------------------------------------
(* Capacities *)

\* MAP_LOAD_PERCENT of n entries.
Load(n) == (n * 75) \div 100

\* Mutant: the map grows one entry late.
GrownLate ==
  IF capacity = 0 \/ count > Load(capacity)
    THEN IF 2 * capacity < MinCapacity THEN MinCapacity ELSE 2 * capacity
    ELSE capacity

Grown ==
  IF count + 1 > Load(capacity)
    THEN IF 2 * capacity < MinCapacity THEN MinCapacity ELSE 2 * capacity
    ELSE capacity

\* The capacity that c entries are left with.
Shrunk(c) ==
  IF capacity > MinCapacity /\ capacity \div 4 > (c * 100) \div 75
    THEN IF capacity \div 4 < MinCapacity THEN MinCapacity ELSE capacity \div 4
    ELSE capacity

-----------------------------------------------------------------------------
(* Operations *)

NextAfter(k) ==
  IF k \in DOMAIN Integer /\ Integer[k] >= next THEN Integer[k] + 1 ELSE next

\* mapSet, mapSetStringKey
Set(k, v) ==
  LET n == Grown
      t == IF n = capacity THEN entries ELSE Resize(entries, capacity, n)
  IN  /\ capacity' = n
      /\ entries' = InsertEntry(t, n, k, v)
      /\ IF Found(t, n, k)
           THEN UNCHANGED <<count, order>>
           ELSE count' = count + 1 /\ order' = Append(order, k)
      /\ next' = NextAfter(k)

\* A value-only entry of a map literal (MAP_APPEND).
Add(v) == next \in DOMAIN IndexKey /\ Set(IndexKey[next], v)

\* mapClear
Clear ==
  /\ IF capacity > ClearRetain
       THEN capacity' = 0 /\ entries' = Blank(0)
       ELSE capacity' = capacity /\ entries' = Blank(capacity)
  /\ count' = 0
  /\ order' = <<>>
  /\ next' = 0

\* Mutant: a removed entry becomes a slot never used.
RemoveWithoutTombstone(k) ==
  /\ capacity > 0
  /\ Found(entries, capacity, k)
  /\ IF count = 1
       THEN Clear
       ELSE LET t == [entries EXCEPT ![EntryOf(entries, capacity, k)] = Free]
                n == Shrunk(count - 1)
            IN  /\ capacity' = n
                /\ entries' = IF n = capacity THEN t ELSE Resize(t, capacity, n)
                /\ count' = count - 1
                /\ order' = RemoveFirstMatch(order, LAMBDA l : <<l, k>> \in Equal)
                /\ next' = next

\* mapRemoveKey: Map.pop, deleting an attribute of a map.
RemoveKey(k) ==
  /\ capacity > 0
  /\ Found(entries, capacity, k)
  /\ IF count = 1
       THEN Clear
       ELSE LET t == [entries EXCEPT ![EntryOf(entries, capacity, k)] = Tombstone]
                n == Shrunk(count - 1)
            IN  /\ capacity' = n
                /\ entries' = IF n = capacity THEN t ELSE Resize(t, capacity, n)
                /\ count' = count - 1
                /\ order' = RemoveFirstMatch(order, LAMBDA l : <<l, k>> \in Equal)
                /\ next' = next

Next ==
  \/ \E k \in Key, v \in Value : Set(k, v)
  \/ \E v \in Value : Add(v)
  \/ \E k \in Key : RemoveKey(k)
  \/ Clear

Spec == Init /\ [][Next]_vars

-----------------------------------------------------------------------------
(* What must hold *)

Used == {i \in DOMAIN entries : entries[i].key # Undef}

\* A search always ends without tripping the assertion of _mapFindEntry that a
\* table without a free slot has a tombstone: MAP_LOAD_PERCENT is kept through
\* growing, shrinking and reinserting.
LoadBounded == count <= Load(capacity)

\* Through tombstones, growing and shrinking a key is found if and only if it
\* was set and not removed since, whichever of several equal keys was used.
LookupExact ==
  \A k \in Key : Lookup(k) # Undef <=> \E i \in DOMAIN order : <<order[i], k>> \in Equal

\* "Keys in insertion order." (Map.order_keys, saynaa_value.h): the very keys
\* of the entries, each once.  The collector reaches them through the entries
\* only.  "Number of entries in the map." (Map.count): the same number.
OrderIsOfEntries ==
  /\ Len(order) = count
  /\ Len(order) = Cardinality(Used)
  /\ ToSet(order) = {entries[i].key : i \in Used}

\* "If you mix explicit numeric keys, the next auto key continues after the
\* highest numeric key seen so far." (map.md): a value-only entry replaces none.
NextIsNew ==
  next \in DOMAIN IndexKey =>
    \A i \in DOMAIN order : <<order[i], IndexKey[next]>> \notin Equal

\* The three arrays of a map tell one story after any sequence of sets,
\* removals, growths, shrinks and clears: what a search finds, the order of the
\* keys and the next integer key (mapSet, mapGet, mapRemoveKey, mapClear).
MapInv == TypeOK /\ LookupExact /\ OrderIsOfEntries /\ NextIsNew
=============================================================================
