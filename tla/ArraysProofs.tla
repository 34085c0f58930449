---------------------------- MODULE ArraysProofs ----------------------------
(***************************************************************************)
(* Theorems about the two components that keep their data in arrays that   *)
(* grow: the globals of modules, and lists and maps.                       *)
(*                                                                         *)
(* Globals, for any modules, names, values and addresses: a lookup by name *)
(* answers what a search of the names answers, as long as names are        *)
(* constants of the module they are looked up in; and whatever is looked   *)
(* up, the arrays are a map from names to values.  ArraysInv is inductive  *)
(* by itself: constants are interned strings that no collection frees, and *)
(* no name is there twice.  CacheInv, that the index is exact when it is   *)
(* not dirty and the last lookup is of a constant that is still there, is  *)
(* inductive with it, for such names.                                      *)
(*                                                                         *)
(* Lists, for any lengths, numbers of changes and ranges: every buffer     *)
(* holds what is in it, and a loop whose body leaves alone what is before  *)
(* its cursor visits each place once.  ListsInv is inductive: capacities   *)
(* are powers of two or nothing, and the loop's record is as long as the   *)
(* sequence it walks and has a one at each place before the cursor.        *)
(***************************************************************************)
EXTENDS Globals, Lists, SequenceTheorems, WellFoundedInduction, TLAPS

-----------------------------------------------------------------------------
(* Globals: what holds of the arrays, and of the cache *)

TypeInv ==
  /\ text \in [Address -> Text \cup {None}] /\ interned \subseteq Address
  /\ loaded \subseteq Module
  /\ constants \in [Module -> Seq(Address)]
  /\ global_names \in [Module -> Seq(Nat)] /\ globals \in [Module -> Seq(Value)]

\* One address for each text of the intern pool, and constants are of it.
StringsInv ==
  /\ \A a \in interned : text[a] # None
  /\ \A a, b \in interned : text[a] = text[b] => a = b
  /\ \A m \in Module : \A i \in 1..Len(constants[m]) : constants[m][i] \in interned

\* Each global has a name among the constants, and no two have the same.
NamesInv ==
  \A m \in Module :
    /\ Len(globals[m]) = Len(global_names[m])
    /\ \A i \in 1..Len(global_names[m]) : global_names[m][i] \in 1..Len(constants[m])
    /\ \A i, j \in 1..Len(global_names[m]) : NameAt(m, i) = NameAt(m, j) => i = j

UnloadedInv ==
  \A m \in Module \ loaded : constants[m] = <<>> /\ global_names[m] = <<>> /\ globals[m] = <<>>

ArraysInv == TypeInv /\ StringsInv /\ NamesInv /\ UnloadedInv

\* The index has every name at its place and nothing else.
IndexExact(m) ==
  /\ \A t \in DOMAIN global_indices[m] : \E i \in 1..Len(global_names[m]) : NameAt(m, i) = t
  /\ \A i \in 1..Len(global_names[m]) :
       NameAt(m, i) \in DOMAIN global_indices[m] /\ global_indices[m][NameAt(m, i)] = i

\* The last lookup was of a constant of the module, and answered its place.
LastExact(m) ==
  index_cache[m] # NoIndex =>
    /\ index_cache[m] \in 1..Len(global_names[m])
    /\ name_cache[m] = constants[m][global_names[m][index_cache[m]]]

CacheInv ==
  /\ DOMAIN global_indices = Module /\ global_indices_dirty \in [Module -> BOOLEAN]
  /\ DOMAIN name_cache = Module /\ DOMAIN index_cache = Module
  /\ \A m \in Module : (~global_indices_dirty[m] => IndexExact(m)) /\ LastExact(m)
  /\ \A m \in Module \ loaded : global_indices_dirty[m] /\ index_cache[m] = NoIndex

-----------------------------------------------------------------------------
(* Lemmas about places *)

\* A set of numbers has a least one: what FirstOf chooses is in the set.
LEMMA FirstIn ==
  ASSUME NEW S \in SUBSET Nat, S # {}
  PROVE  FirstOf(S) \in S
<1> DEFINE R == OpToRel(<, Nat)
<1>1. IsWellFoundedOn(R, Nat)
  BY NatLessThanWellFounded
<1>2. \A i, j \in Nat : <<i, j>> \in R <=> i < j
  BY DEF OpToRel
<1> HIDE DEF R
<1>3. \E i \in S : \A j \in S : ~ (<<j, i>> \in R)
  BY <1>1, WFMin
<1>4. PICK i \in S : \A j \in S : ~ (<<j, i>> \in R)
  BY <1>3
<1>5. \A j \in S : ~ (j < i)
  BY <1>2, <1>4
<1>6. \A j \in S : i <= j
  BY <1>5
<1> QED
  BY <1>6 DEF FirstOf

\* A sequence without its element i.
LEMMA Removed ==
  ASSUME NEW S, NEW s \in Seq(S), NEW i \in 1..Len(s)
  PROVE  /\ Without(s, i) \in Seq(S)
         /\ Len(Without(s, i)) = Len(s) - 1
         /\ \A k \in 1..(Len(s) - 1) : Without(s, i)[k] = IF k < i THEN s[k] ELSE s[k + 1]
<1> DEFINE x == SubSeq(s, 1, i - 1)
           y == SubSeq(s, i + 1, Len(s))
<1>1. x \in Seq(S) /\ Len(x) = i - 1 /\ \A k \in 1..(i - 1) : x[k] = s[k]
  OBVIOUS
<1>2. y \in Seq(S) /\ Len(y) = Len(s) - i /\ \A k \in 1..(Len(s) - i) : y[k] = s[k + i]
  OBVIOUS
<1>3. Without(s, i) = x \o y /\ Len(s) \in Nat /\ i \in Nat
  BY DEF Without
<1> HIDE DEF x, y
<1>4. /\ x \o y \in Seq(S)
      /\ Len(x \o y) = Len(s) - 1
      /\ \A k \in 1..(Len(s) - 1) : (x \o y)[k] = IF k <= i - 1 THEN x[k] ELSE y[k - (i - 1)]
  <2>1. Len(x) + Len(y) = Len(s) - 1
    BY <1>1, <1>2, <1>3
  <2>2. /\ x \o y \in Seq(S)
        /\ Len(x \o y) = Len(x) + Len(y)
        /\ \A k \in 1..(Len(x) + Len(y)) : (x \o y)[k] = IF k <= Len(x) THEN x[k] ELSE y[k - Len(x)]
    BY <1>1, <1>2, ConcatProperties
  <2> QED
    BY <1>1, <2>1, <2>2
<1>5. ASSUME NEW k \in 1..(Len(s) - 1)
      PROVE  (x \o y)[k] = IF k < i THEN s[k] ELSE s[k + 1]
  <2>1. CASE k < i
    BY <1>1, <1>3, <1>4, <2>1
  <2>2. CASE ~ (k < i)
    <3>1. (x \o y)[k] = y[k - (i - 1)] /\ k - (i - 1) \in 1..(Len(s) - i)
      BY <1>3, <1>4, <2>2
    <3>2. y[k - (i - 1)] = s[k - (i - 1) + i] /\ k - (i - 1) + i = k + 1
      BY <1>2, <1>3, <3>1
    <3> QED
      BY <2>2, <3>1, <3>2
  <2> QED
    BY <2>1, <2>2
<1> QED
  BY <1>3, <1>4, <1>5

\* The search of the names finds the place of each name, and nothing else.
LEMMA Places ==
  ASSUME ArraysInv, NEW m \in Module
  PROVE  /\ \A i \in 1..Len(global_names[m]) : GlobalIndex(m, NameAt(m, i)) = i
         /\ \A t : GlobalIndex(m, t) # NoIndex =>
              GlobalIndex(m, t) \in 1..Len(global_names[m]) /\ NameAt(m, GlobalIndex(m, t)) = t
         /\ \A t : GlobalIndex(m, t) = NoIndex => \A i \in 1..Len(global_names[m]) : NameAt(m, i) # t
<1>1. global_names[m] \in Seq(Nat) /\ Len(global_names[m]) \in Nat
  BY DEF ArraysInv, TypeInv
<1>2. DOMAIN global_names[m] = 1..Len(global_names[m])
  BY <1>1
<1>3. ASSUME NEW t
      PROVE  LET S == {i \in 1..Len(global_names[m]) : NameAt(m, i) = t} IN
             /\ GlobalIndex(m, t) = FirstOf(S)
             /\ S # {} => FirstOf(S) \in S
             /\ S = {} => FirstOf(S) = NoIndex
  <2> DEFINE S == {i \in 1..Len(global_names[m]) : NameAt(m, i) = t}
  <2>1. S \in SUBSET Nat
    BY <1>1
  <2>2. GlobalIndex(m, t) = FirstOf(S)
    BY <1>2 DEF GlobalIndex
  <2>3. S = {} => FirstOf(S) = NoIndex
    BY DEF FirstOf
  <2> HIDE DEF S
  <2>4. S # {} => FirstOf(S) \in S
    BY <2>1, FirstIn
  <2> QED
    BY <2>2, <2>3, <2>4 DEF S
<1>4. \A i, j \in 1..Len(global_names[m]) : NameAt(m, i) = NameAt(m, j) => i = j
  BY DEF ArraysInv, NamesInv
<1>5. 0 \notin 1..Len(global_names[m])
  BY <1>1
<1>6. ASSUME NEW i \in 1..Len(global_names[m]) PROVE GlobalIndex(m, NameAt(m, i)) = i
  BY <1>3, <1>4
<1>7. ASSUME NEW t
      PROVE  /\ GlobalIndex(m, t) # NoIndex =>
                  GlobalIndex(m, t) \in 1..Len(global_names[m]) /\ NameAt(m, GlobalIndex(m, t)) = t
             /\ GlobalIndex(m, t) = NoIndex => \A i \in 1..Len(global_names[m]) : NameAt(m, i) # t
  BY <1>3, <1>5 DEF NoIndex
<1> QED
  BY <1>6, <1>7

-----------------------------------------------------------------------------
(* ArraysInv is inductive *)

LEMMA InternedEffect ==
  ASSUME ArraysInv, NEW t \in Text, NEW a \in Address, InternedString(t, a)
  PROVE  /\ text' \in [Address -> Text \cup {None}] /\ interned' \subseteq Address
         /\ \A b \in interned' : text'[b] # None
         /\ \A b, c \in interned' : text'[b] = text'[c] => b = c
         /\ interned \subseteq interned' /\ a \in interned' /\ text'[a] = t
         /\ \A b \in interned : text'[b] = text[b]
<1>1. /\ text \in [Address -> Text \cup {None}] /\ interned \subseteq Address
      /\ \A b \in interned : text[b] # None
      /\ \A b, c \in interned : text[b] = text[c] => b = c
  BY DEF ArraysInv, TypeInv, StringsInv
<1>2. CASE a \in Interned(t) /\ UNCHANGED <<text, interned>>
  BY <1>1, <1>2 DEF Interned
<1>3. CASE /\ Interned(t) = {} /\ a \in Unused
           /\ text' = [text EXCEPT ![a] = t] /\ interned' = interned \cup {a}
  <2>1. a \notin interned /\ t # None /\ \A b \in interned : text[b] # t
    BY <1>1, <1>3, NoneAssumption DEF Interned, Unused
  <2> QED
    BY <1>1, <1>3, <2>1
<1> QED
  BY <1>2, <1>3 DEF InternedString

\* A module gets a constant, or has it.
LEMMA AddEffect ==
  ASSUME ArraysInv, NEW m \in Module, NEW t \in Text, NEW a \in Address, AddString(m, t, a)
  PROVE  LET i == IF ConstantIndex(m, t) # NoIndex THEN ConstantIndex(m, t) ELSE Len(constants[m]) + 1 IN
         /\ text' \in [Address -> Text \cup {None}] /\ interned' \subseteq Address
         /\ constants' \in [Module -> Seq(Address)]
         /\ StringsInv'
         /\ \A n \in Module : /\ Len(constants[n]) <= Len(constants'[n])
                              /\ n # m => constants'[n] = constants[n]
                              /\ \A k \in 1..Len(constants[n]) : /\ constants'[n][k] = constants[n][k]
                                                                  /\ text'[constants[n][k]] = text[constants[n][k]]
         /\ i \in 1..Len(constants'[m]) /\ text'[constants'[m][i]] = t
<1> DEFINE i == ConstantIndex(m, t)
<1>1. /\ text \in [Address -> Text \cup {None}] /\ interned \subseteq Address
      /\ constants \in [Module -> Seq(Address)]
      /\ \A n \in Module : \A k \in 1..Len(constants[n]) : constants[n][k] \in interned
  BY DEF ArraysInv, TypeInv, StringsInv
<1>2. CASE i # NoIndex /\ UNCHANGED <<text, interned, constants>>
  <2> DEFINE S == {k \in DOMAIN constants[m] : text[constants[m][k]] = t}
  <2>1. S \in SUBSET Nat /\ S \subseteq 1..Len(constants[m])
    BY <1>1
  <2>2. i = FirstOf(S)
    BY DEF ConstantIndex
  <2>3. S # {}
    BY <1>2, <2>2 DEF FirstOf
  <2>4. i \in S
    BY <2>1, <2>2, <2>3, FirstIn
  <2>5. i \in 1..Len(constants[m]) /\ text[constants[m][i]] = t
    BY <2>1, <2>4
  <2>6. StringsInv'
    BY <1>2 DEF ArraysInv, StringsInv
  <2> HIDE DEF i
  <2>7. i \in 1..Len(constants'[m]) /\ text'[constants'[m][i]] = t
    BY <1>2, <2>5
  <2> QED
    BY <1>1, <1>2, <2>6, <2>7 DEF i
<1>3. CASE i = NoIndex /\ InternedString(t, a) /\ constants' = [constants EXCEPT ![m] = Append(@, a)]
  <2>1. /\ text' \in [Address -> Text \cup {None}] /\ interned' \subseteq Address
        /\ \A b \in interned' : text'[b] # None
        /\ \A b, c \in interned' : text'[b] = text'[c] => b = c
        /\ interned \subseteq interned' /\ a \in interned' /\ text'[a] = t
        /\ \A b \in interned : text'[b] = text[b]
    BY <1>3, InternedEffect
  <2>2. /\ constants[m] \in Seq(Address) /\ constants'[m] = Append(constants[m], a)
        /\ \A n \in Module : n # m => constants'[n] = constants[n]
    BY <1>1, <1>3
  <2>3. /\ constants'[m] \in Seq(Address) /\ Len(constants'[m]) = Len(constants[m]) + 1
        /\ constants'[m][Len(constants[m]) + 1] = a
        /\ \A k \in 1..Len(constants[m]) : constants'[m][k] = constants[m][k]
    BY <2>2, AppendProperties
  <2>4. constants' \in [Module -> Seq(Address)]
    BY <1>1, <1>3, <2>2, <2>3
  <2>5. Len(constants[m]) \in Nat
    BY <2>2
  <2>6. ASSUME NEW n \in Module, NEW k \in 1..Len(constants'[n]) PROVE constants'[n][k] \in interned'
    <3>1. CASE n # m
      BY <1>1, <2>1, <2>2, <3>1
    <3>2. CASE n = m
      <4>1. k = Len(constants[m]) + 1 \/ k \in 1..Len(constants[m])
        BY <2>3, <2>5, <3>2
      <4> QED
        BY <1>1, <2>1, <2>3, <3>2, <4>1
    <3> QED
      BY <3>1, <3>2
  <2>7. StringsInv'
    BY <2>1, <2>6 DEF StringsInv
  <2>8. \A n \in Module : Len(constants[n]) <= Len(constants'[n])
    BY <1>1, <2>2, <2>3, <2>5
  <2>9. \A n \in Module : \A k \in 1..Len(constants[n]) :
          constants'[n][k] = constants[n][k] /\ text'[constants[n][k]] = text[constants[n][k]]
    <3>1. \A n \in Module : \A k \in 1..Len(constants[n]) : constants'[n][k] = constants[n][k]
      BY <2>2, <2>3
    <3> QED
      BY <1>1, <2>1, <3>1
  <2>10. Len(constants[m]) + 1 \in 1..Len(constants'[m])
    BY <2>3, <2>5
  <2> QED
    BY <1>3, <2>1, <2>2, <2>3, <2>4, <2>7, <2>8, <2>9, <2>10
<1> QED
  BY <1>2, <1>3 DEF AddString

\* What m has stays: its names, and the constants they are and their texts.
Stays(m) ==
  /\ global_names'[m] = global_names[m]
  /\ \A k \in 1..Len(constants[m]) : /\ k \in 1..Len(constants'[m])
                                     /\ constants'[m][k] = constants[m][k]
                                     /\ text'[constants[m][k]] = text[constants[m][k]]

LEMMA StaysNames ==
  ASSUME ArraysInv, NEW m \in Module, Stays(m)
  PROVE  /\ \A i \in 1..Len(global_names[m]) :
              /\ NameAt(m, i)' = NameAt(m, i)
              /\ constants'[m][global_names[m][i]] = constants[m][global_names[m][i]]
              /\ global_names[m][i] \in 1..Len(constants'[m])
         /\ \A i, j \in 1..Len(global_names'[m]) : NameAt(m, i)' = NameAt(m, j)' => i = j
<1>1. \A i \in 1..Len(global_names[m]) : global_names[m][i] \in 1..Len(constants[m])
  BY DEF ArraysInv, NamesInv
<1>2. \A i, j \in 1..Len(global_names[m]) : NameAt(m, i) = NameAt(m, j) => i = j
  BY DEF ArraysInv, NamesInv
<1>3. ASSUME NEW i \in 1..Len(global_names[m])
      PROVE  /\ NameAt(m, i)' = NameAt(m, i)
             /\ constants'[m][global_names[m][i]] = constants[m][global_names[m][i]]
             /\ global_names[m][i] \in 1..Len(constants'[m])
  BY <1>1 DEF Stays, NameAt
<1> QED
  BY <1>2, <1>3 DEF Stays

\* A module whose names stay and whose values are as many.
LEMMA StaysStep ==
  ASSUME ArraysInv, NEW m \in Module, Stays(m), Len(globals'[m]) = Len(globals[m])
  PROVE  /\ Len(globals'[m]) = Len(global_names'[m])
         /\ \A i \in 1..Len(global_names'[m]) : global_names'[m][i] \in 1..Len(constants'[m])
         /\ \A i, j \in 1..Len(global_names'[m]) : NameAt(m, i)' = NameAt(m, j)' => i = j
<1>1. Len(globals[m]) = Len(global_names[m])
  BY DEF ArraysInv, NamesInv
<1> QED
  BY <1>1, StaysNames DEF Stays

\* The steps that change no array of names and values.
Quiet ==
  \/ \E m \in Module, t \in Text : Compile(m, t) \/ CompileError(m, t)
  \/ \E t \in Text : Compute(t)
  \/ \E a \in Address : Drop(a) \/ \E m \in Module : Lookup(m, a)
  \/ Collect

LEMMA QuietStays ==
  ASSUME ArraysInv, Quiet
  PROVE  /\ TypeInv' /\ StringsInv' /\ UnloadedInv'
         /\ UNCHANGED arrays
         /\ \A n \in Module : Stays(n)
<1> DEFINE Goal == /\ TypeInv' /\ StringsInv' /\ UnloadedInv'
                   /\ UNCHANGED arrays
                   /\ \A n \in Module : Stays(n)
<1>1. TypeInv /\ StringsInv /\ UnloadedInv
  BY DEF ArraysInv
<1>2. ASSUME NEW m \in Module, NEW t \in Text, Compile(m, t) PROVE Goal
  <2>1. PICK b \in Address : AddString(m, t, b)
    BY <1>2 DEF Compile
  <2>2. m \in loaded /\ UNCHANGED <<loaded, global_names, globals>>
    BY <1>2 DEF Compile, arrays
  <2>3. /\ text' \in [Address -> Text \cup {None}] /\ interned' \subseteq Address
        /\ constants' \in [Module -> Seq(Address)]
        /\ StringsInv'
        /\ \A n \in Module : /\ Len(constants[n]) <= Len(constants'[n])
                             /\ n # m => constants'[n] = constants[n]
                             /\ \A k \in 1..Len(constants[n]) : /\ constants'[n][k] = constants[n][k]
                                                                 /\ text'[constants[n][k]] = text[constants[n][k]]
    BY <2>1, AddEffect
  <2>4. TypeInv' /\ UnloadedInv'
    BY <1>1, <2>2, <2>3 DEF TypeInv, UnloadedInv
  <2>5. \A n \in Module : Len(constants[n]) \in Nat /\ Len(constants'[n]) \in Nat
    BY <1>1, <2>3 DEF TypeInv
  <2> QED
    BY <2>2, <2>3, <2>4, <2>5 DEF Stays, arrays
<1>3. ASSUME NEW m \in Module, NEW t \in Text, CompileError(m, t) PROVE Goal
  <2>1. PICK b \in Address : InternedString(t, b)
    BY <1>3 DEF CompileError
  <2>2. UNCHANGED <<loaded, constants, global_names, globals>>
    BY <1>3 DEF CompileError, arrays
  <2>3. /\ text' \in [Address -> Text \cup {None}] /\ interned' \subseteq Address
        /\ \A c \in interned' : text'[c] # None
        /\ \A c, d \in interned' : text'[c] = text'[d] => c = d
        /\ interned \subseteq interned'
        /\ \A c \in interned : text'[c] = text[c]
    BY <2>1, InternedEffect
  <2>4. TypeInv' /\ StringsInv' /\ UnloadedInv'
    BY <1>1, <2>2, <2>3 DEF TypeInv, StringsInv, UnloadedInv
  <2> QED
    BY <1>1, <2>2, <2>3, <2>4 DEF Stays, arrays, StringsInv
<1>4. ASSUME NEW t \in Text, Compute(t) PROVE Goal
  <2> DEFINE b == FirstOf(Unused)
  <2>1. Unused \in SUBSET Nat /\ Unused # {}
    BY <1>4, AddressAssumption DEF Unused, Compute
  <2>2. b \in Unused
    BY <2>1, FirstIn
  <2>3. text' = [text EXCEPT ![b] = t] /\ UNCHANGED <<interned, loaded, constants, global_names, globals>>
    BY <1>4 DEF Compute, arrays
  <2> HIDE DEF b
  <2>4. b \notin interned
    BY <1>1, <2>2 DEF Unused, StringsInv
  <2>5. \A c \in interned : text'[c] = text[c]
    BY <1>1, <2>3, <2>4 DEF TypeInv
  <2>6. TypeInv' /\ UnloadedInv'
    BY <1>1, <2>3 DEF TypeInv, UnloadedInv
  <2>7. StringsInv'
    BY <1>1, <2>3, <2>5 DEF StringsInv
  <2> QED
    BY <1>1, <2>3, <2>5, <2>6, <2>7 DEF Stays, arrays, StringsInv
<1>5. ASSUME NEW a \in Address, NEW m \in Module, Drop(a) \/ Lookup(m, a) PROVE Goal
  <2>1. UNCHANGED <<text, interned, loaded, constants, global_names, globals>>
    BY <1>5 DEF Drop, Lookup, arrays, strings
  <2> QED
    BY <1>1, <2>1 DEF TypeInv, StringsInv, UnloadedInv, Stays, arrays
<1>6. ASSUME Collect PROVE Goal
  <2> DEFINE live == named \cup UNION {Elements(constants[n]) : n \in loaded}
  <2>1. /\ text' = [b \in Address |-> IF b \in live THEN text[b] ELSE None]
        /\ interned' = interned \cap live
        /\ UNCHANGED <<loaded, constants, global_names, globals>>
    BY <1>6 DEF Collect, arrays
  <2>2. ASSUME NEW n \in Module, NEW k \in 1..Len(constants[n])
        PROVE  constants[n][k] \in live /\ constants[n][k] \in interned
    <3>1. n \in loaded
      BY <1>1, <2>2 DEF UnloadedInv
    <3>2. DOMAIN constants[n] = 1..Len(constants[n])
      BY <1>1 DEF TypeInv
    <3> QED
      BY <1>1, <3>1, <3>2 DEF Elements, StringsInv
  <2> HIDE DEF live
  <2>3. TypeInv' /\ UnloadedInv'
    BY <1>1, <2>1 DEF TypeInv, UnloadedInv
  <2>4. \A b \in interned' : text'[b] = text[b] /\ b \in interned
    BY <1>1, <2>1 DEF TypeInv
  <2>5. StringsInv'
    BY <1>1, <2>1, <2>2, <2>4 DEF StringsInv
  <2>6. \A n \in Module : Stays(n)
    BY <1>1, <2>1, <2>2, <2>4 DEF Stays
  <2> QED
    BY <2>1, <2>3, <2>5, <2>6 DEF arrays
<1> QED
  BY <1>2, <1>3, <1>4, <1>5, <1>6, MainAssumption DEF Quiet

\* A module that is not the one of the step.
Same(n) == Stays(n) /\ globals'[n] = globals[n]

\* Set: the name t is at a place with v, the others are where they were.
Placed(m, t, v) ==
  /\ Len(globals[m]) <= Len(globals'[m])
  /\ \E i \in 1..Len(globals'[m]) :
       /\ NameAt(m, i)' = t /\ globals'[m][i] = v
       /\ \A j \in 1..Len(globals'[m]) : j # i =>
            /\ j \in 1..Len(globals[m])
            /\ NameAt(m, j)' = NameAt(m, j) /\ globals'[m][j] = globals[m][j]
       /\ i \in 1..Len(globals[m]) => NameAt(m, i) = t

LEMMA OverwriteEffect ==
  ASSUME ArraysInv, NEW m \in Module, NEW t \in Text, NEW v \in Value,
         SetGlobal(m, t, v), GlobalIndex(m, t) # NoIndex
  PROVE  ArraysInv' /\ Placed(m, t, v) /\ (\A n \in Module \ {m} : Same(n)) /\ Stays(m)
<1> DEFINE i == GlobalIndex(m, t)
<1>1. /\ m \in loaded /\ globals' = [globals EXCEPT ![m][i] = v]
      /\ UNCHANGED <<text, interned, loaded, constants, global_names>>
  BY DEF SetGlobal
<1>2. i \in 1..Len(global_names[m]) /\ NameAt(m, i) = t
  BY Places
<1> HIDE DEF i
<1>3. TypeInv /\ StringsInv /\ NamesInv /\ UnloadedInv
  BY DEF ArraysInv
<1>4. i \in 1..Len(globals[m]) /\ globals[m] \in Seq(Value)
  BY <1>2, <1>3 DEF NamesInv, TypeInv
<1>5. globals'[m] = [globals[m] EXCEPT ![i] = v] /\ \A n \in Module \ {m} : globals'[n] = globals[n]
  BY <1>1, <1>3 DEF TypeInv
<1>6. /\ globals'[m] \in Seq(Value) /\ Len(globals'[m]) = Len(globals[m])
      /\ \A j \in 1..Len(globals[m]) : globals'[m][j] = IF j = i THEN v ELSE globals[m][j]
  BY <1>4, <1>5, ExceptSeq
<1>7. \A n \in Module : Stays(n)
  BY <1>1 DEF Stays
<1>8. TypeInv' /\ StringsInv' /\ UnloadedInv'
  <2>1. globals' \in [Module -> Seq(Value)]
    BY <1>1, <1>3, <1>5, <1>6 DEF TypeInv
  <2>2. UnloadedInv'
    BY <1>1, <1>3, <1>5 DEF UnloadedInv
  <2> QED
    BY <1>1, <1>3, <2>1, <2>2 DEF TypeInv, StringsInv
<1>9. \A n \in Module : Len(globals'[n]) = Len(globals[n])
  BY <1>5, <1>6
<1>10. NamesInv'
  BY <1>7, <1>9, StaysStep DEF NamesInv
<1>11. \A j \in 1..Len(globals[m]) : NameAt(m, j)' = NameAt(m, j)
  BY <1>1 DEF NameAt
<1>12. Placed(m, t, v)
  BY <1>2, <1>3, <1>4, <1>6, <1>11 DEF Placed
<1> QED
  BY <1>5, <1>7, <1>8, <1>10, <1>12 DEF ArraysInv, Same

LEMMA DefineEffect ==
  ASSUME ArraysInv, NEW m \in Module, NEW t \in Text, NEW v \in Value,
         SetGlobal(m, t, v), GlobalIndex(m, t) = NoIndex
  PROVE  ArraysInv' /\ Placed(m, t, v) /\ \A n \in Module \ {m} : Same(n)
<1> DEFINE k == IF ConstantIndex(m, t) # NoIndex THEN ConstantIndex(m, t) ELSE Len(constants[m]) + 1
<1>1. PICK a \in Address : AddString(m, t, a)
  BY DEF SetGlobal
<1>2. /\ m \in loaded /\ loaded' = loaded
      /\ globals' = [globals EXCEPT ![m] = Append(@, v)]
      /\ global_names' = [global_names EXCEPT ![m] = Append(@, k)]
  BY DEF SetGlobal
<1>3. /\ text' \in [Address -> Text \cup {None}] /\ interned' \subseteq Address
      /\ constants' \in [Module -> Seq(Address)]
      /\ StringsInv'
      /\ \A n \in Module : /\ Len(constants[n]) <= Len(constants'[n])
                           /\ n # m => constants'[n] = constants[n]
                           /\ \A j \in 1..Len(constants[n]) : /\ constants'[n][j] = constants[n][j]
                                                               /\ text'[constants[n][j]] = text[constants[n][j]]
      /\ k \in 1..Len(constants'[m]) /\ text'[constants'[m][k]] = t
  BY <1>1, AddEffect
<1> HIDE DEF k
<1>4. TypeInv /\ StringsInv /\ NamesInv /\ UnloadedInv
  BY DEF ArraysInv
<1>5. \A n \in Module : Len(constants[n]) \in Nat /\ Len(constants'[n]) \in Nat
  BY <1>3, <1>4 DEF TypeInv
<1>6. /\ globals[m] \in Seq(Value) /\ global_names[m] \in Seq(Nat) /\ k \in Nat
      /\ Len(globals[m]) = Len(global_names[m]) /\ Len(globals[m]) \in Nat
  BY <1>3, <1>4, <1>5 DEF TypeInv, NamesInv
<1> PICK l \in Nat : l = Len(globals[m]) + 1
  BY <1>6
<1>7. /\ globals'[m] \in Seq(Value) /\ Len(globals'[m]) = l /\ globals'[m][l] = v
      /\ \A j \in 1..Len(globals[m]) : globals'[m][j] = globals[m][j]
  <2>1. globals'[m] = Append(globals[m], v)
    BY <1>2, <1>4 DEF TypeInv
  <2> QED
    BY <1>6, <2>1, AppendProperties
<1>8. /\ global_names'[m] \in Seq(Nat) /\ Len(global_names'[m]) = l /\ global_names'[m][l] = k
      /\ \A j \in 1..Len(globals[m]) : global_names'[m][j] = global_names[m][j]
  <2>1. global_names'[m] = Append(global_names[m], k)
    BY <1>2, <1>4 DEF TypeInv
  <2> QED
    BY <1>6, <2>1, AppendProperties
<1>9. \A n \in Module \ {m} : globals'[n] = globals[n] /\ global_names'[n] = global_names[n]
  BY <1>2, <1>4 DEF TypeInv
<1>10. \A n \in Module \ {m} : Same(n)
  BY <1>3, <1>5, <1>9 DEF Same, Stays
<1>11. TypeInv' /\ UnloadedInv'
  <2>1. globals' \in [Module -> Seq(Value)] /\ global_names' \in [Module -> Seq(Nat)]
    BY <1>2, <1>4, <1>7, <1>8, <1>9 DEF TypeInv
  <2>2. TypeInv'
    BY <1>2, <1>3, <1>4, <2>1 DEF TypeInv
  <2> QED
    BY <1>2, <1>3, <1>4, <1>9, <2>2 DEF UnloadedInv
<1>12. ASSUME NEW j \in 1..Len(globals[m])
       PROVE  /\ NameAt(m, j)' = NameAt(m, j) /\ NameAt(m, j) # t
              /\ global_names'[m][j] \in 1..Len(constants'[m])
  <2>1. global_names[m][j] \in 1..Len(constants[m])
    BY <1>4, <1>6 DEF NamesInv
  <2>2. NameAt(m, j) # t
    BY <1>6, Places
  <2>3. global_names'[m][j] = global_names[m][j]
    BY <1>8
  <2>4. /\ constants'[m][global_names[m][j]] = constants[m][global_names[m][j]]
        /\ text'[constants[m][global_names[m][j]]] = text[constants[m][global_names[m][j]]]
        /\ global_names[m][j] \in 1..Len(constants'[m])
    BY <1>3, <1>5, <2>1
  <2> QED
    BY <2>2, <2>3, <2>4 DEF NameAt
<1>13. NameAt(m, l)' = t
  BY <1>3, <1>8 DEF NameAt
<1>14. \A j \in 1..Len(globals'[m]) : j = l \/ j \in 1..Len(globals[m])
  BY <1>6, <1>7
<1>15. ASSUME NEW i \in 1..Len(global_names'[m]), NEW j \in 1..Len(global_names'[m]), NameAt(m, i)' = NameAt(m, j)'
       PROVE  i = j
  <2>1. CASE i \in 1..Len(globals[m]) /\ j \in 1..Len(globals[m])
    BY <1>4, <1>6, <1>12, <1>15, <2>1 DEF NamesInv
  <2>2. CASE i = l
    BY <1>7, <1>8, <1>12, <1>13, <1>14, <1>15, <2>2
  <2>3. CASE j = l
    BY <1>7, <1>8, <1>12, <1>13, <1>14, <1>15, <2>3
  <2> QED
    BY <1>7, <1>8, <1>14, <2>1, <2>2, <2>3
<1>16. \A i \in 1..Len(global_names'[m]) : global_names'[m][i] \in 1..Len(constants'[m])
  BY <1>3, <1>7, <1>8, <1>12, <1>14
<1>17. NamesInv'
  <2>1. \A n \in Module \ {m} : Stays(n) /\ Len(globals'[n]) = Len(globals[n])
    BY <1>10 DEF Same
  <2> QED
    BY <1>7, <1>8, <1>15, <1>16, <2>1, StaysStep DEF NamesInv
<1>18. Placed(m, t, v)
  <2>1. Len(globals[m]) <= Len(globals'[m]) /\ l \in 1..Len(globals'[m]) /\ l \notin 1..Len(globals[m])
    BY <1>6, <1>7
  <2> QED
    BY <1>7, <1>12, <1>13, <1>14, <2>1 DEF Placed
<1> QED
  BY <1>3, <1>10, <1>11, <1>17, <1>18 DEF ArraysInv

\* Delete: the name t goes, and those behind it move up.
Dropped(m, t) ==
  \E i \in 1..Len(globals[m]) :
    /\ NameAt(m, i) = t /\ Len(globals'[m]) = Len(globals[m]) - 1
    /\ \A j \in 1..(Len(globals[m]) - 1) :
         /\ j < i => NameAt(m, j)' = NameAt(m, j) /\ globals'[m][j] = globals[m][j]
         /\ ~ (j < i) => NameAt(m, j)' = NameAt(m, j + 1) /\ globals'[m][j] = globals[m][j + 1]

LEMMA DeleteEffect ==
  ASSUME ArraysInv, NEW m \in Module, NEW t \in Text, DeleteGlobal(m, t)
  PROVE  ArraysInv' /\ Dropped(m, t) /\ \A n \in Module \ {m} : Same(n)
<1>1. PICK i \in 1..Len(global_names[m]) : i = GlobalIndex(m, t) /\ NameAt(m, i) = t
  BY Places DEF DeleteGlobal
<1>2. /\ m \in loaded /\ UNCHANGED <<text, interned, loaded, constants>>
      /\ globals' = [globals EXCEPT ![m] = Without(@, i)]
      /\ global_names' = [global_names EXCEPT ![m] = Without(@, i)]
  BY <1>1 DEF DeleteGlobal, strings
<1>3. TypeInv /\ StringsInv /\ NamesInv /\ UnloadedInv
  BY DEF ArraysInv
<1>4. /\ globals[m] \in Seq(Value) /\ global_names[m] \in Seq(Nat)
      /\ Len(globals[m]) = Len(global_names[m]) /\ i \in 1..Len(globals[m])
  BY <1>3 DEF TypeInv, NamesInv
<1>5. PICK l \in Nat : l = Len(globals[m])
  BY <1>4
<1>6. /\ globals'[m] \in Seq(Value) /\ Len(globals'[m]) = l - 1
      /\ \A j \in 1..(l - 1) : globals'[m][j] = IF j < i THEN globals[m][j] ELSE globals[m][j + 1]
  <2>1. globals'[m] = Without(globals[m], i)
    BY <1>2, <1>3 DEF TypeInv
  <2> QED
    BY <1>4, <1>5, <2>1, Removed
<1>7. /\ global_names'[m] \in Seq(Nat) /\ Len(global_names'[m]) = l - 1
      /\ \A j \in 1..(l - 1) : global_names'[m][j] = IF j < i THEN global_names[m][j] ELSE global_names[m][j + 1]
  <2>1. global_names'[m] = Without(global_names[m], i)
    BY <1>2, <1>3 DEF TypeInv
  <2> QED
    BY <1>4, <1>5, <2>1, Removed
<1>8. \A n \in Module \ {m} : globals'[n] = globals[n] /\ global_names'[n] = global_names[n]
  BY <1>2, <1>3 DEF TypeInv
<1>9. \A n \in Module \ {m} : Same(n)
  BY <1>2, <1>8 DEF Same, Stays
<1>10. TypeInv' /\ StringsInv' /\ UnloadedInv'
  <2>1. globals' \in [Module -> Seq(Value)] /\ global_names' \in [Module -> Seq(Nat)]
    BY <1>2, <1>3, <1>6, <1>7, <1>8 DEF TypeInv
  <2> QED
    BY <1>2, <1>3, <1>8, <2>1 DEF TypeInv, StringsInv, UnloadedInv
<1>11. ASSUME NEW j \in 1..(l - 1)
       PROVE  /\ j \in 1..l /\ j + 1 \in 1..l
              /\ NameAt(m, j)' = IF j < i THEN NameAt(m, j) ELSE NameAt(m, j + 1)
              /\ global_names'[m][j] \in 1..Len(constants'[m])
  <2>1. j \in 1..l /\ j + 1 \in 1..l
    BY <1>5
  <2>2. \A k \in 1..l : global_names[m][k] \in 1..Len(constants[m])
    BY <1>3, <1>4, <1>5 DEF NamesInv
  <2>3. global_names'[m][j] = IF j < i THEN global_names[m][j] ELSE global_names[m][j + 1]
    BY <1>7
  <2>4. NameAt(m, j)' = IF j < i THEN NameAt(m, j) ELSE NameAt(m, j + 1)
    BY ONLY <1>2, <2>3 DEF NameAt
  <2>5. global_names'[m][j] \in 1..Len(constants[m])
    BY ONLY <2>1, <2>2, <2>3
  <2> QED
    BY ONLY <1>2, <2>1, <2>4, <2>5
<1>12. ASSUME NEW j \in 1..(l - 1), NEW k \in 1..(l - 1), NameAt(m, j)' = NameAt(m, k)'
       PROVE  j = k
  <2>1. \A x, y \in 1..l : NameAt(m, x) = NameAt(m, y) => x = y
    BY <1>3, <1>4, <1>5 DEF NamesInv
  <2>2. i \in Nat /\ j \in Nat /\ k \in Nat
    BY <1>4, <1>5
  <2>3. (IF j < i THEN j ELSE j + 1) = (IF k < i THEN k ELSE k + 1)
    BY <1>11, <1>12, <2>1
  <2> QED
    BY <2>2, <2>3
<1>13. NamesInv'
  <2>1. \A n \in Module \ {m} : Stays(n) /\ Len(globals'[n]) = Len(globals[n])
    BY <1>9 DEF Same
  <2> QED
    BY <1>6, <1>7, <1>11, <1>12, <2>1, StaysStep DEF NamesInv
<1>14. Dropped(m, t)
  BY <1>1, <1>4, <1>5, <1>6, <1>11 DEF Dropped
<1> QED
  BY <1>9, <1>10, <1>13, <1>14 DEF ArraysInv

\* The module e has the names and values of m.
LEMMA LoadEffect ==
  ASSUME ArraysInv, NEW m \in Module, NEW e \in Module, Load(m, e)
  PROVE  /\ ArraysInv' /\ \A n \in Module \ {e} : Same(n)
         /\ global_names'[e] = global_names[m] /\ globals'[e] = globals[m]
         /\ \A i \in 1..Len(globals[m]) : NameAt(e, i)' = NameAt(m, i)
<1>1. /\ m \in loaded /\ e \notin loaded /\ loaded' = loaded \cup {e}
      /\ constants' = [constants EXCEPT ![e] = constants[m]]
      /\ global_names' = [global_names EXCEPT ![e] = global_names[m]]
      /\ globals' = [globals EXCEPT ![e] = globals[m]]
      /\ UNCHANGED <<text, interned>>
  BY DEF Load, strings
<1>2. TypeInv /\ StringsInv /\ NamesInv /\ UnloadedInv
  BY DEF ArraysInv
<1>3. /\ constants'[e] = constants[m] /\ global_names'[e] = global_names[m] /\ globals'[e] = globals[m]
      /\ \A n \in Module \ {e} : /\ constants'[n] = constants[n] /\ global_names'[n] = global_names[n]
                                 /\ globals'[n] = globals[n]
  BY <1>1, <1>2 DEF TypeInv
<1>4. \A n \in Module \ {e} : Same(n)
  BY <1>1, <1>3 DEF Same, Stays
<1>5. TypeInv' /\ StringsInv' /\ UnloadedInv'
  <2>1. TypeInv'
    BY <1>1, <1>2 DEF TypeInv
  <2>2. StringsInv'
    BY <1>1, <1>2, <1>3 DEF StringsInv
  <2> QED
    BY <1>1, <1>2, <1>3, <2>1, <2>2 DEF UnloadedInv
<1>6. \A i : NameAt(e, i)' = NameAt(m, i)
  BY <1>1, <1>3 DEF NameAt
<1>7. NamesInv'
  <2>1. \A n \in Module \ {e} : Stays(n) /\ Len(globals'[n]) = Len(globals[n])
    BY <1>4 DEF Same
  <2>2. /\ Len(globals'[e]) = Len(global_names'[e])
        /\ \A i \in 1..Len(global_names'[e]) : global_names'[e][i] \in 1..Len(constants'[e])
        /\ \A i, j \in 1..Len(global_names'[e]) : NameAt(e, i)' = NameAt(e, j)' => i = j
    BY <1>2, <1>3, <1>6 DEF NamesInv
  <2> QED
    BY <2>1, <2>2, StaysStep DEF NamesInv
<1> QED
  BY <1>3, <1>4, <1>5, <1>6, <1>7 DEF ArraysInv

\* The module e has nothing.
LEMMA UnloadEffect ==
  ASSUME ArraysInv, NEW e \in Module, Unload(e)
  PROVE  ArraysInv' /\ globals'[e] = <<>> /\ \A n \in Module \ {e} : Same(n)
<1>1. /\ e \in loaded /\ loaded' = loaded \ {e}
      /\ constants' = [constants EXCEPT ![e] = <<>>]
      /\ global_names' = [global_names EXCEPT ![e] = <<>>]
      /\ globals' = [globals EXCEPT ![e] = <<>>]
      /\ UNCHANGED <<text, interned>>
  BY DEF Unload, strings
<1>2. TypeInv /\ StringsInv /\ NamesInv /\ UnloadedInv
  BY DEF ArraysInv
<1>3. /\ constants'[e] = <<>> /\ global_names'[e] = <<>> /\ globals'[e] = <<>>
      /\ \A n \in Module \ {e} : /\ constants'[n] = constants[n] /\ global_names'[n] = global_names[n]
                                 /\ globals'[n] = globals[n]
  BY <1>1, <1>2 DEF TypeInv
<1>4. \A n \in Module \ {e} : Same(n)
  BY <1>1, <1>3 DEF Same, Stays
<1>5. TypeInv' /\ StringsInv' /\ UnloadedInv'
  <2>1. TypeInv'
    BY <1>1, <1>2 DEF TypeInv
  <2>2. StringsInv'
    BY <1>1, <1>2, <1>3 DEF StringsInv
  <2> QED
    BY <1>1, <1>2, <1>3, <2>1, <2>2 DEF UnloadedInv
<1>6. NamesInv'
  <2>1. \A n \in Module \ {e} : Stays(n) /\ Len(globals'[n]) = Len(globals[n])
    BY <1>4 DEF Same
  <2>2. Len(global_names'[e]) = 0 /\ Len(globals'[e]) = 0
    BY <1>3
  <2> QED
    BY <2>1, <2>2, StaysStep DEF NamesInv
<1> QED
  BY <1>3, <1>4, <1>5, <1>6 DEF ArraysInv

LEMMA QuietEffect ==
  ASSUME ArraysInv, Quiet
  PROVE  ArraysInv' /\ \A n \in Module : Same(n)
<1>1. /\ TypeInv' /\ StringsInv' /\ UnloadedInv'
      /\ globals' = globals /\ \A n \in Module : Stays(n)
  BY QuietStays DEF arrays
<1>2. NamesInv'
  BY <1>1, StaysStep DEF NamesInv
<1> QED
  BY <1>1, <1>2 DEF ArraysInv, Same

LEMMA InitArrays == Init => ArraysInv
<1> SUFFICES ASSUME Init PROVE ArraysInv
  OBVIOUS
<1>1. TypeInv
  BY MainAssumption DEF Init, TypeInv
<1>2. \A m \in Module : Len(constants[m]) = 0 /\ Len(global_names[m]) = 0 /\ Len(globals[m]) = 0
  BY DEF Init
<1>3. StringsInv /\ NamesInv
  BY <1>2 DEF Init, StringsInv, NamesInv
<1>4. UnloadedInv
  BY DEF Init, UnloadedInv
<1> QED
  BY <1>1, <1>3, <1>4 DEF ArraysInv

\* The kinds of steps there are.
LEMMA Steps ==
  ASSUME Next
  PROVE  \/ Quiet
         \/ \E m \in Module, t \in Text, v \in Value : SetGlobal(m, t, v)
         \/ \E m \in Module, t \in Text : DeleteGlobal(m, t)
         \/ \E m \in Module, e \in Module : Load(m, e)
         \/ \E e \in Module : Unload(e)
  BY DEF Next, Quiet

LEMMA NextArrays == ArraysInv /\ [Next]_vars => ArraysInv'
<1> SUFFICES ASSUME ArraysInv, [Next]_vars PROVE ArraysInv'
  OBVIOUS
<1>1. CASE UNCHANGED vars
  BY <1>1 DEF vars, strings, arrays, ArraysInv, TypeInv, StringsInv, NamesInv, UnloadedInv, NameAt
<1>2. Quiet => ArraysInv'
  BY QuietEffect
<1>3. ASSUME NEW m \in Module, NEW t \in Text, NEW v \in Value, SetGlobal(m, t, v) PROVE ArraysInv'
  BY <1>3, OverwriteEffect, DefineEffect
<1>4. ASSUME NEW m \in Module, NEW t \in Text, DeleteGlobal(m, t) PROVE ArraysInv'
  BY <1>4, DeleteEffect
<1>5. ASSUME NEW m \in Module, NEW e \in Module, Load(m, e) PROVE ArraysInv'
  BY <1>5, LoadEffect
<1>6. ASSUME NEW e \in Module, Unload(e) PROVE ArraysInv'
  BY <1>6, UnloadEffect
<1> QED
  BY <1>1, <1>2, <1>3, <1>4, <1>5, <1>6, Steps

LEMMA ArraysCorrect == Spec => []ArraysInv
  BY InitArrays, NextArrays, PTL DEF Spec

-----------------------------------------------------------------------------
(* The arrays are a map: every step is a step of Scope *)

\* The map of a module has the value of each global at its name.
EnvExact ==
  \A m \in Module :
    /\ DOMAIN Env[m] = {NameAt(m, i) : i \in 1..Len(globals[m])}
    /\ \A i \in 1..Len(globals[m]) : Env[m][NameAt(m, i)] = globals[m][i]
    /\ Env[m] = [t \in DOMAIN Env[m] |-> Env[m][t]]

LEMMA EnvAt == ArraysInv => EnvExact
<1> SUFFICES ASSUME ArraysInv, NEW m \in Module
             PROVE  /\ DOMAIN Env[m] = {NameAt(m, i) : i \in 1..Len(globals[m])}
                    /\ \A i \in 1..Len(globals[m]) : Env[m][NameAt(m, i)] = globals[m][i]
                    /\ Env[m] = [t \in DOMAIN Env[m] |-> Env[m][t]]
  BY DEF EnvExact
<1>1. Len(globals[m]) = Len(global_names[m]) /\ DOMAIN globals[m] = 1..Len(globals[m])
  BY DEF ArraysInv, TypeInv, NamesInv
<1>2. Env[m] = [t \in {NameAt(m, i) : i \in 1..Len(globals[m])} |-> globals[m][GlobalIndex(m, t)]]
  BY <1>1 DEF Env
<1>3. \A i \in 1..Len(globals[m]) : GlobalIndex(m, NameAt(m, i)) = i
  BY <1>1, Places
<1> QED
  BY <1>2, <1>3

LEMMA EnvAtNext == ArraysInv' => EnvExact'
  BY EnvAt, PTL

LEMMA SameEnv ==
  ASSUME ArraysInv, ArraysInv', NEW m \in Module, Same(m)
  PROVE  Env'[m] = Env[m]
<1>1. \A i \in 1..Len(globals[m]) : NameAt(m, i)' = NameAt(m, i)
  BY StaysNames DEF Same, ArraysInv, NamesInv
<1>2. globals'[m] = globals[m]
  BY DEF Same
<1>3. /\ DOMAIN Env[m] = {NameAt(m, i) : i \in 1..Len(globals[m])}
      /\ \A i \in 1..Len(globals[m]) : Env[m][NameAt(m, i)] = globals[m][i]
      /\ Env[m] = [t \in DOMAIN Env[m] |-> Env[m][t]]
  BY EnvAt DEF EnvExact
<1>4. /\ DOMAIN Env'[m] = {NameAt(m, i)' : i \in 1..Len(globals'[m])}
      /\ \A i \in 1..Len(globals'[m]) : Env'[m][NameAt(m, i)'] = globals'[m][i]
      /\ Env'[m] = [t \in DOMAIN Env'[m] |-> Env'[m][t]]
  BY EnvAtNext DEF EnvExact
<1>5. DOMAIN Env'[m] = DOMAIN Env[m]
  BY <1>1, <1>2, <1>3, <1>4
<1>6. \A t \in DOMAIN Env[m] : Env'[m][t] = Env[m][t]
  BY <1>1, <1>2, <1>3, <1>4
<1> HIDE DEF Env
<1> QED
  BY <1>3, <1>4, <1>5, <1>6

LEMMA PlacedEnv ==
  ASSUME ArraysInv, ArraysInv', NEW m \in Module, NEW t \in Text, NEW v \in Value, Placed(m, t, v)
  PROVE  Env'[m] = [u \in DOMAIN Env[m] \cup {t} |-> IF u = t THEN v ELSE Env[m][u]]
<1>1. /\ DOMAIN Env[m] = {NameAt(m, i) : i \in 1..Len(globals[m])}
      /\ \A i \in 1..Len(globals[m]) : Env[m][NameAt(m, i)] = globals[m][i]
  BY EnvAt DEF EnvExact
<1>2. /\ DOMAIN Env'[m] = {NameAt(m, i)' : i \in 1..Len(globals'[m])}
      /\ \A i \in 1..Len(globals'[m]) : Env'[m][NameAt(m, i)'] = globals'[m][i]
      /\ Env'[m] = [u \in DOMAIN Env'[m] |-> Env'[m][u]]
  BY EnvAtNext DEF EnvExact
<1>3. PICK i \in 1..Len(globals'[m]) :
        /\ NameAt(m, i)' = t /\ globals'[m][i] = v
        /\ \A j \in 1..Len(globals'[m]) : j # i =>
             /\ j \in 1..Len(globals[m])
             /\ NameAt(m, j)' = NameAt(m, j) /\ globals'[m][j] = globals[m][j]
        /\ i \in 1..Len(globals[m]) => NameAt(m, i) = t
  BY DEF Placed
<1>4. \A j \in 1..Len(globals[m]) : j \in 1..Len(globals'[m])
  BY DEF Placed, ArraysInv, TypeInv
<1>5. \A j, k \in 1..Len(globals'[m]) : NameAt(m, j)' = NameAt(m, k)' => j = k
  BY DEF ArraysInv, NamesInv
<1>6. Env'[m][t] = v /\ t \in DOMAIN Env'[m]
  BY <1>2, <1>3
<1>7. ASSUME NEW u \in DOMAIN Env'[m], u # t PROVE u \in DOMAIN Env[m] /\ Env'[m][u] = Env[m][u]
  <2>1. PICK j \in 1..Len(globals'[m]) : u = NameAt(m, j)'
    BY <1>2
  <2>2. j # i
    BY <1>3, <1>7, <2>1
  <2>3. j \in 1..Len(globals[m]) /\ NameAt(m, j)' = NameAt(m, j) /\ globals'[m][j] = globals[m][j]
    BY <1>3, <2>2
  <2>4. Env'[m][u] = globals'[m][j]
    BY <1>2, <2>1
  <2>5. u = NameAt(m, j)
    BY <2>1, <2>3
  <2> QED
    BY <1>1, <2>3, <2>4, <2>5
<1>8. ASSUME NEW u \in DOMAIN Env[m], u # t PROVE u \in DOMAIN Env'[m]
  <2>1. PICK j \in 1..Len(globals[m]) : u = NameAt(m, j)
    BY <1>1
  <2>2. j # i
    BY <1>3, <1>8, <2>1
  <2>3. NameAt(m, j)' = u /\ j \in 1..Len(globals'[m])
    BY <1>3, <1>4, <2>1, <2>2
  <2> QED
    BY <1>2, <2>3
<1>9. DOMAIN Env'[m] = DOMAIN Env[m] \cup {t}
  BY <1>6, <1>7, <1>8
<1>10. \A u \in DOMAIN Env'[m] : Env'[m][u] = IF u = t THEN v ELSE Env[m][u]
  BY <1>6, <1>7
<1> QED
  BY <1>2, <1>9, <1>10

LEMMA DroppedEnv ==
  ASSUME ArraysInv, ArraysInv', NEW m \in Module, NEW t \in Text, Dropped(m, t)
  PROVE  t \in DOMAIN Env[m] /\ Env'[m] = [u \in DOMAIN Env[m] \ {t} |-> Env[m][u]]
<1>1. /\ DOMAIN Env[m] = {NameAt(m, i) : i \in 1..Len(globals[m])}
      /\ \A i \in 1..Len(globals[m]) : Env[m][NameAt(m, i)] = globals[m][i]
  BY EnvAt DEF EnvExact
<1>2. /\ DOMAIN Env'[m] = {NameAt(m, i)' : i \in 1..Len(globals'[m])}
      /\ \A i \in 1..Len(globals'[m]) : Env'[m][NameAt(m, i)'] = globals'[m][i]
      /\ Env'[m] = [u \in DOMAIN Env'[m] |-> Env'[m][u]]
  BY EnvAtNext DEF EnvExact
<1>3. PICK i \in 1..Len(globals[m]) :
        /\ NameAt(m, i) = t /\ Len(globals'[m]) = Len(globals[m]) - 1
        /\ \A j \in 1..(Len(globals[m]) - 1) :
             /\ j < i => NameAt(m, j)' = NameAt(m, j) /\ globals'[m][j] = globals[m][j]
             /\ ~ (j < i) => NameAt(m, j)' = NameAt(m, j + 1) /\ globals'[m][j] = globals[m][j + 1]
  BY DEF Dropped
<1>4. PICK l \in Nat : l = Len(globals[m])
  BY DEF ArraysInv, TypeInv
<1>5. \A j, k \in 1..l : NameAt(m, j) = NameAt(m, k) => j = k
  BY <1>4 DEF ArraysInv, NamesInv
<1>6. t \in DOMAIN Env[m]
  BY <1>1, <1>3
<1>7. ASSUME NEW j \in 1..(l - 1)
      PROVE  \E k \in 1..l : /\ k # i /\ NameAt(m, j)' = NameAt(m, k) /\ globals'[m][j] = globals[m][k]
  <2>1. j \in 1..l /\ j + 1 \in 1..l /\ i \in Nat /\ j \in Nat
    BY <1>4
  <2>2. CASE j < i
    BY <1>3, <1>4, <2>1, <2>2
  <2>3. CASE ~ (j < i)
    BY <1>3, <1>4, <2>1, <2>3
  <2> QED
    BY <2>2, <2>3
<1>8. ASSUME NEW k \in 1..l, k # i PROVE \E j \in 1..(l - 1) : NameAt(m, j)' = NameAt(m, k)
  <2>1. CASE k < i
    <3>1. k \in 1..(l - 1)
      BY <1>4, <2>1
    <3> QED
      BY <1>3, <1>4, <2>1, <3>1
  <2>2. CASE ~ (k < i)
    <3>1. k - 1 \in 1..(l - 1) /\ ~ (k - 1 < i) /\ (k - 1) + 1 = k
      BY <1>4, <1>8, <2>2
    <3> QED
      BY <1>3, <1>4, <3>1
  <2> QED
    BY <2>1, <2>2
<1>9. ASSUME NEW u \in DOMAIN Env'[m] PROVE u \in DOMAIN Env[m] \ {t} /\ Env'[m][u] = Env[m][u]
  <2>1. PICK j \in 1..(l - 1) : u = NameAt(m, j)'
    BY <1>2, <1>3, <1>4
  <2>2. PICK k \in 1..l : k # i /\ u = NameAt(m, k) /\ globals'[m][j] = globals[m][k]
    BY <1>7, <2>1
  <2>3. u # t
    BY <1>3, <1>4, <1>5, <2>2
  <2>4. Env'[m][u] = globals'[m][j]
    BY <1>2, <1>3, <1>4, <2>1
  <2>5. Env[m][u] = globals[m][k] /\ u \in DOMAIN Env[m]
    BY <1>1, <1>4, <2>2
  <2> QED
    BY <2>2, <2>3, <2>4, <2>5
<1>10. ASSUME NEW u \in DOMAIN Env[m] \ {t} PROVE u \in DOMAIN Env'[m]
  <2>1. PICK k \in 1..l : u = NameAt(m, k)
    BY <1>1, <1>4
  <2>2. k # i
    BY <1>3, <2>1
  <2>3. PICK j \in 1..(l - 1) : NameAt(m, j)' = u
    BY <1>8, <2>1, <2>2
  <2> QED
    BY <1>2, <1>3, <1>4, <2>3
<1>11. DOMAIN Env'[m] = DOMAIN Env[m] \ {t}
  BY <1>9, <1>10
<1> QED
  BY <1>2, <1>6, <1>9, <1>11

LEMMA EnvStep ==
  ASSUME ArraysInv, ArraysInv', Next
  PROVE  [Seen!Next]_Env
<1> USE DEF Env
<1>1. DOMAIN Env = Module /\ DOMAIN Env' = Module
  OBVIOUS
<1>2. Env = [n \in Module |-> Env[n]] /\ Env' = [n \in Module |-> Env'[n]]
  OBVIOUS
<1> HIDE DEF Env
<1>3. ASSUME \A n \in Module : Same(n) PROVE Env' = Env
  BY <1>2, <1>3, SameEnv
<1>4. CASE Quiet
  BY <1>3, <1>4, QuietEffect
<1>5. ASSUME NEW m \in Module, NEW t \in Text, NEW v \in Value, SetGlobal(m, t, v) PROVE Seen!Set(m, t, v)
  <2>1. Placed(m, t, v) /\ \A n \in Module \ {m} : Same(n)
    BY <1>5, OverwriteEffect, DefineEffect
  <2>2. Env'[m] = [u \in DOMAIN Env[m] \cup {t} |-> IF u = t THEN v ELSE Env[m][u]]
    BY <2>1, PlacedEnv
  <2>3. \A n \in Module \ {m} : Env'[n] = Env[n]
    BY <2>1, SameEnv
  <2> QED
    BY <1>1, <1>2, <2>2, <2>3 DEF Seen!Set
<1>6. ASSUME NEW m \in Module, NEW t \in Text, DeleteGlobal(m, t) PROVE Seen!Delete(m, t)
  <2>1. Dropped(m, t) /\ \A n \in Module \ {m} : Same(n)
    BY <1>6, DeleteEffect
  <2>2. t \in DOMAIN Env[m] /\ Env'[m] = [u \in DOMAIN Env[m] \ {t} |-> Env[m][u]]
    BY <2>1, DroppedEnv
  <2>3. \A n \in Module \ {m} : Env'[n] = Env[n]
    BY <2>1, SameEnv
  <2> QED
    BY <1>1, <1>2, <2>2, <2>3 DEF Seen!Delete
<1>7. ASSUME NEW m \in Module, NEW e \in Module, Load(m, e) PROVE Seen!Copy(m, e)
  <2>1. /\ \A n \in Module \ {e} : Same(n)
        /\ globals'[e] = globals[m]
        /\ \A i \in 1..Len(globals[m]) : NameAt(e, i)' = NameAt(m, i)
    BY <1>7, LoadEffect
  <2>2. /\ DOMAIN Env[m] = {NameAt(m, i) : i \in 1..Len(globals[m])}
        /\ \A i \in 1..Len(globals[m]) : Env[m][NameAt(m, i)] = globals[m][i]
        /\ Env[m] = [t \in DOMAIN Env[m] |-> Env[m][t]]
    BY EnvAt DEF EnvExact
  <2>3. /\ DOMAIN Env'[e] = {NameAt(e, i)' : i \in 1..Len(globals'[e])}
        /\ \A i \in 1..Len(globals'[e]) : Env'[e][NameAt(e, i)'] = globals'[e][i]
        /\ Env'[e] = [t \in DOMAIN Env'[e] |-> Env'[e][t]]
    BY EnvAtNext DEF EnvExact
  <2>4. DOMAIN Env'[e] = DOMAIN Env[m] /\ \A t \in DOMAIN Env[m] : Env'[e][t] = Env[m][t]
    BY <2>1, <2>2, <2>3
  <2>5. Env'[e] = Env[m]
    BY <2>2, <2>3, <2>4
  <2>6. \A n \in Module \ {e} : Env'[n] = Env[n]
    BY <2>1, SameEnv
  <2> QED
    BY <1>1, <1>2, <2>5, <2>6 DEF Seen!Copy
<1>8. ASSUME NEW e \in Module, Unload(e) PROVE Seen!Fresh(e)
  <2>1. globals'[e] = <<>> /\ \A n \in Module \ {e} : Same(n)
    BY <1>8, UnloadEffect
  <2>2. DOMAIN Env'[e] = {}
    <3>1. 1..Len(globals'[e]) = {}
      BY <2>1
    <3>2. DOMAIN Env'[e] = {NameAt(e, i)' : i \in 1..Len(globals'[e])}
      BY EnvAtNext DEF EnvExact
    <3> QED
      BY <3>1, <3>2
  <2>3. Env'[e] = [u \in {} |-> u]
    BY <2>2, EnvAtNext DEF EnvExact
  <2>4. \A n \in Module \ {e} : Env'[n] = Env[n]
    BY <2>1, SameEnv
  <2> QED
    BY <1>1, <1>2, <2>3, <2>4 DEF Seen!Fresh
<1> QED
  BY <1>4, <1>5, <1>6, <1>7, <1>8, Steps DEF Seen!Next

\* The globals of modules are a map from names to values that definitions,
\* deletions, eval, load and collections change as the program says, whatever
\* is looked up, wherever a name was compiled or computed: Globals implements Scope.
THEOREM GlobalsImplementScope == Spec => Implements
<1>1. Init => Seen!Init
  <2> SUFFICES ASSUME Init PROVE Env = [m \in Module |-> [u \in {} |-> u]]
    BY DEF Seen!Init
  <2>1. \A m \in Module : globals[m] = <<>> /\ DOMAIN globals[m] = {}
    BY DEF Init
  <2>2. \A m \in Module : [t \in {NameAt(m, i) : i \in DOMAIN globals[m]} |-> globals[m][GlobalIndex(m, t)]] = [u \in {} |-> u]
    BY <2>1
  <2> QED
    BY <2>2 DEF Env
<1>2. ArraysInv /\ ArraysInv' /\ [Next]_vars => [Seen!Next]_Env
  <2>1. UNCHANGED vars => Env' = Env
    BY DEF vars, strings, arrays, Env, NameAt, GlobalIndex
  <2> QED
    BY <2>1, EnvStep
<1> QED
  BY <1>1, <1>2, ArraysCorrect, PTL DEF Spec, Implements, Seen!Spec

-----------------------------------------------------------------------------
(* CacheInv is inductive where names are constants of the module *)

\* A module whose names stay, and whose index and last lookup do.
LEMMA CacheStays ==
  ASSUME ArraysInv, CacheInv, NEW m \in Module, Stays(m),
         global_indices'[m] = global_indices[m], global_indices_dirty'[m] = global_indices_dirty[m],
         name_cache'[m] = name_cache[m], index_cache'[m] = index_cache[m]
  PROVE  (~global_indices_dirty'[m] => IndexExact(m)') /\ LastExact(m)'
<1>1. /\ \A i \in 1..Len(global_names[m]) :
           NameAt(m, i)' = NameAt(m, i) /\ constants'[m][global_names[m][i]] = constants[m][global_names[m][i]]
      /\ global_names'[m] = global_names[m]
  BY StaysNames DEF Stays
<1>2. (~global_indices_dirty[m] => IndexExact(m)) /\ LastExact(m)
  BY DEF CacheInv
<1>3. IndexExact(m) => IndexExact(m)'
  BY <1>1 DEF IndexExact
<1>4. LastExact(m)'
  BY <1>1, <1>2 DEF LastExact
<1> QED
  BY <1>2, <1>3, <1>4

\* A module that gets a dirty index and no last lookup.
LEMMA CacheCleared ==
  ASSUME NEW m \in Module, global_indices_dirty'[m] = TRUE, index_cache'[m] = NoIndex
  PROVE  (~global_indices_dirty'[m] => IndexExact(m)') /\ LastExact(m)'
  BY DEF LastExact

\* The index a lookup goes to is exact, whether it was dirty or not.
LEMMA IndexedExact ==
  ASSUME ArraysInv, CacheInv, NEW m \in Module
  PROVE  /\ \A t \in DOMAIN Indexed(m) : \E i \in 1..Len(global_names[m]) : NameAt(m, i) = t
         /\ \A i \in 1..Len(global_names[m]) :
              NameAt(m, i) \in DOMAIN Indexed(m) /\ Indexed(m)[NameAt(m, i)] = i
<1>1. global_names[m] \in Seq(Nat) /\ DOMAIN global_names[m] = 1..Len(global_names[m])
  BY DEF ArraysInv, TypeInv
<1>2. \A i, j \in 1..Len(global_names[m]) : NameAt(m, i) = NameAt(m, j) => i = j
  BY DEF ArraysInv, NamesInv
<1>3. CASE ~global_indices_dirty[m]
  BY <1>3 DEF Indexed, CacheInv, IndexExact
<1>4. CASE global_indices_dirty[m]
  <2>1. Indexed(m) = Rebuilt(m)
    BY <1>4 DEF Indexed
  <2>2. ASSUME NEW i \in 1..Len(global_names[m])
        PROVE  i = CHOOSE k \in 1..Len(global_names[m]) :
                     NameAt(m, k) = NameAt(m, i) /\ \A j \in 1..Len(global_names[m]) : NameAt(m, j) = NameAt(m, i) => j <= k
    <3>1. \A j \in 1..Len(global_names[m]) : NameAt(m, j) = NameAt(m, i) => j <= i
      BY <1>1, <1>2
    <3> QED
      BY <1>2, <3>1
  <2>3. DOMAIN Rebuilt(m) = {NameAt(m, i) : i \in 1..Len(global_names[m])}
    BY <1>1 DEF Rebuilt
  <2>4. \A i \in 1..Len(global_names[m]) : Rebuilt(m)[NameAt(m, i)] = i
    BY <1>1, <2>2 DEF Rebuilt
  <2> QED
    BY <2>1, <2>3, <2>4
<1> QED
  BY <1>3, <1>4 DEF CacheInv

\* For a constant of the module: what a lookup answers, however it finds it.
LEMMA FoundRight ==
  ASSUME ArraysInv, CacheInv, NEW m \in Module, NEW s \in Elements(constants[m])
  PROVE  Found(m, s) = GlobalIndex(m, text[s])
<1>1. Len(globals[m]) = Len(global_names[m]) /\ Len(globals[m]) \in Nat
  BY DEF ArraysInv, TypeInv, NamesInv
<1>2. CASE CacheHits(m, s)
  <2>1. /\ index_cache[m] \in 1..Len(global_names[m])
        /\ s = constants[m][global_names[m][index_cache[m]]]
    BY <1>2 DEF CacheHits, Within, CacheInv, LastExact
  <2>2. NameAt(m, index_cache[m]) = text[s]
    BY <2>1 DEF NameAt
  <2>3. GlobalIndex(m, text[s]) = index_cache[m]
    BY <2>1, <2>2, Places
  <2> QED
    BY <1>2, <2>3 DEF Found
<1>3. CASE ~CacheHits(m, s)
  <2>1. CASE \E i \in 1..Len(global_names[m]) : NameAt(m, i) = text[s]
    <3>1. PICK i \in 1..Len(global_names[m]) : NameAt(m, i) = text[s]
      BY <2>1
    <3>2. text[s] \in DOMAIN Indexed(m) /\ Indexed(m)[text[s]] = i
      BY <3>1, IndexedExact
    <3>3. Within(m, i)
      BY <1>1 DEF Within, NoIndex
    <3>4. Found(m, s) = i
      BY <1>3, <3>2, <3>3 DEF Found
    <3> QED
      BY <3>1, <3>4, Places
  <2>2. CASE ~ \E i \in 1..Len(global_names[m]) : NameAt(m, i) = text[s]
    <3>1. text[s] \notin DOMAIN Indexed(m)
      BY <2>2, IndexedExact
    <3>2. Found(m, s) = NoIndex
      BY <1>3, <3>1 DEF Found
    <3> QED
      BY <2>2, <3>2, Places
  <2> QED
    BY <2>1, <2>2
<1> QED
  BY <1>2, <1>3

LEMMA LookupStep ==
  ASSUME ArraysInv, CacheInv, ~Foreign, NEW m \in Module, NEW s, Lookup(m, s)
  PROVE  CacheInv'
<1>1. /\ m \in loaded /\ s \in Elements(constants[m]) /\ GlobalIndexByName(m, s)
      /\ UNCHANGED <<text, loaded, constants, global_names, globals>>
  BY DEF Lookup, Names, strings, arrays
<1>2. \A n \in Module : Stays(n)
  BY <1>1 DEF Stays
<1>3. CASE CacheHits(m, s)
  <2>1. UNCHANGED <<global_indices, global_indices_dirty, name_cache, index_cache>>
    BY <1>1, <1>3 DEF GlobalIndexByName, index, cache
  <2> QED
    BY <1>1, <1>2, <2>1, CacheStays DEF CacheInv
<1>4. CASE ~CacheHits(m, s)
  <2>1. /\ global_indices' = [global_indices EXCEPT ![m] = Indexed(m)]
        /\ global_indices_dirty' = [global_indices_dirty EXCEPT ![m] = FALSE]
        /\ name_cache' = [name_cache EXCEPT ![m] = s]
        /\ index_cache' = [index_cache EXCEPT ![m] = Found(m, s)]
    BY <1>1, <1>4 DEF GlobalIndexByName
  <2>2. /\ DOMAIN global_indices = Module /\ global_indices_dirty \in [Module -> BOOLEAN]
        /\ DOMAIN name_cache = Module /\ DOMAIN index_cache = Module
        /\ \A n \in Module \ loaded : global_indices_dirty[n] /\ index_cache[n] = NoIndex
    BY DEF CacheInv
  <2>3. /\ DOMAIN global_indices' = Module /\ global_indices_dirty' \in [Module -> BOOLEAN]
        /\ DOMAIN name_cache' = Module /\ DOMAIN index_cache' = Module
        /\ \A n \in Module \ loaded : global_indices_dirty'[n] /\ index_cache'[n] = NoIndex
    BY <1>1, <2>1, <2>2
  <2>4. \A n \in Module \ {m} : (~global_indices_dirty'[n] => IndexExact(n)') /\ LastExact(n)'
    BY <1>2, <2>1, <2>2, CacheStays
  <2>5. IndexExact(m)'
    <3>1. global_indices'[m] = Indexed(m)
      BY <2>1, <2>2
    <3>2. \A i : NameAt(m, i)' = NameAt(m, i)
      BY <1>1 DEF NameAt
    <3> QED
      BY <1>1, <3>1, <3>2, IndexedExact DEF IndexExact
  <2>6. LastExact(m)'
    <3>1. name_cache'[m] = s /\ index_cache'[m] = GlobalIndex(m, text[s])
      BY <1>1, <2>1, <2>2, FoundRight
    <3>2. GlobalIndex(m, text[s]) # NoIndex =>
            /\ GlobalIndex(m, text[s]) \in 1..Len(global_names[m])
            /\ NameAt(m, GlobalIndex(m, text[s])) = text[s]
      BY Places
    <3>3. ASSUME NEW i \in 1..Len(global_names[m]), NameAt(m, i) = text[s]
          PROVE  s = constants[m][global_names[m][i]]
      <4>1. constants[m][global_names[m][i]] \in interned
        BY DEF ArraysInv, NamesInv, StringsInv
      <4>2. s \in interned
        BY <1>1 DEF ArraysInv, TypeInv, StringsInv, Elements
      <4> QED
        BY <3>3, <4>1, <4>2 DEF ArraysInv, StringsInv, NameAt
    <3> QED
      BY <1>1, <3>1, <3>2, <3>3 DEF LastExact
  <2> QED
    BY <1>1, <2>3, <2>4, <2>5, <2>6 DEF CacheInv
<1> QED
  BY <1>3, <1>4

\* A step that leaves all indices and last lookups, and the names.
LEMMA CacheKept ==
  ASSUME ArraysInv, CacheInv, \A n \in Module : Stays(n), UNCHANGED <<index, cache>>, loaded' = loaded
  PROVE  CacheInv'
<1>1. UNCHANGED <<global_indices, global_indices_dirty, name_cache, index_cache>>
  BY DEF index, cache
<1> QED
  BY <1>1, CacheStays DEF CacheInv

\* A step that clears the index and the last lookup of m, and leaves the others.
LEMMA CacheDropped ==
  ASSUME ArraysInv, CacheInv, NEW m \in Module, \A n \in Module \ {m} : Stays(n),
         DOMAIN global_indices' = Module, \A n \in Module \ {m} : global_indices'[n] = global_indices[n],
         global_indices_dirty' = [global_indices_dirty EXCEPT ![m] = TRUE],
         name_cache' = [name_cache EXCEPT ![m] = None], index_cache' = [index_cache EXCEPT ![m] = NoIndex],
         loaded \ {m} \subseteq loaded'
  PROVE  CacheInv'
<1>1. /\ global_indices_dirty \in [Module -> BOOLEAN]
      /\ DOMAIN name_cache = Module /\ DOMAIN index_cache = Module
      /\ \A n \in Module \ loaded : global_indices_dirty[n] /\ index_cache[n] = NoIndex
  BY DEF CacheInv
<1>2. /\ global_indices_dirty' \in [Module -> BOOLEAN]
      /\ DOMAIN name_cache' = Module /\ DOMAIN index_cache' = Module
      /\ \A n \in Module \ loaded' : global_indices_dirty'[n] /\ index_cache'[n] = NoIndex
  BY <1>1
<1>3. \A n \in Module \ {m} : (~global_indices_dirty'[n] => IndexExact(n)') /\ LastExact(n)'
  BY <1>1, CacheStays
<1>4. global_indices_dirty'[m] = TRUE /\ index_cache'[m] = NoIndex
  BY <1>1
<1> QED
  BY <1>2, <1>3, <1>4, CacheCleared DEF CacheInv

LEMMA SetStep ==
  ASSUME ArraysInv, CacheInv, NEW m \in Module, NEW t \in Text, NEW v \in Value, SetGlobal(m, t, v)
  PROVE  CacheInv'
<1>1. m \in loaded /\ loaded' = loaded
  BY DEF SetGlobal
<1>2. CASE GlobalIndex(m, t) = NoIndex
  <2>1. /\ global_indices_dirty' = [global_indices_dirty EXCEPT ![m] = TRUE]
        /\ name_cache' = [name_cache EXCEPT ![m] = None] /\ index_cache' = [index_cache EXCEPT ![m] = NoIndex]
        /\ global_indices' = global_indices
    BY <1>2 DEF SetGlobal
  <2>2. \A n \in Module \ {m} : Stays(n)
    BY <1>2, DefineEffect DEF Same
  <2>3. DOMAIN global_indices = Module
    BY DEF CacheInv
  <2> QED
    BY <1>1, <2>1, <2>2, <2>3, CacheDropped
<1>3. CASE GlobalIndex(m, t) # NoIndex
  <2>1. PICK i \in 1..Len(global_names[m]) : i = GlobalIndex(m, t)
    BY <1>3, Places
  <2>2. /\ name_cache' = [name_cache EXCEPT ![m] = constants[m][global_names[m][i]]]
        /\ index_cache' = [index_cache EXCEPT ![m] = i]
        /\ UNCHANGED <<text, constants, global_names, global_indices, global_indices_dirty>>
    BY <1>3, <2>1 DEF SetGlobal, index
  <2>3. \A n \in Module : Stays(n)
    BY <2>2 DEF Stays
  <2>4. /\ DOMAIN global_indices = Module /\ global_indices_dirty \in [Module -> BOOLEAN]
        /\ DOMAIN name_cache = Module /\ DOMAIN index_cache = Module
        /\ \A n \in Module \ loaded : global_indices_dirty[n] /\ index_cache[n] = NoIndex
    BY DEF CacheInv
  <2>5. \A n \in Module \ {m} : (~global_indices_dirty'[n] => IndexExact(n)') /\ LastExact(n)'
    BY <2>2, <2>3, <2>4, CacheStays
  <2>6. LastExact(m)'
    BY <2>2, <2>4 DEF LastExact
  <2>7. ~global_indices_dirty'[m] => IndexExact(m)'
    BY <2>2 DEF CacheInv, IndexExact, NameAt
  <2>8. \A n \in Module \ loaded' : global_indices_dirty'[n] /\ index_cache'[n] = NoIndex
    BY <1>1, <2>2, <2>4
  <2>9. /\ DOMAIN global_indices' = Module /\ global_indices_dirty' \in [Module -> BOOLEAN]
        /\ DOMAIN name_cache' = Module /\ DOMAIN index_cache' = Module
    BY <2>2, <2>4
  <2> QED
    BY <2>5, <2>6, <2>7, <2>8, <2>9 DEF CacheInv
<1> QED
  BY <1>2, <1>3

LEMMA InitCache == Init => CacheInv
  BY DEF Init, CacheInv, LastExact

LEMMA NextCache == ~Foreign /\ ArraysInv /\ CacheInv /\ [Next]_vars => CacheInv'
<1> SUFFICES ASSUME ~Foreign, ArraysInv, CacheInv, [Next]_vars PROVE CacheInv'
  OBVIOUS
<1>1. CASE UNCHANGED vars
  BY <1>1, CacheKept DEF vars, strings, arrays, Stays
<1>2. ASSUME Quiet PROVE CacheInv'
  <2>1. \A n \in Module : Stays(n)
    BY <1>2, QuietStays
  <2>2. CASE \E m \in Module, a \in Address : Lookup(m, a)
    BY <2>2, LookupStep
  <2>3. CASE ~ \E m \in Module, a \in Address : Lookup(m, a)
    <3>1. UNCHANGED <<index, cache>> /\ loaded' = loaded
      BY <1>2, <2>3 DEF Quiet, Compile, CompileError, Compute, Drop, Collect
    <3> QED
      BY <2>1, <3>1, CacheKept
  <2> QED
    BY <2>2, <2>3
<1>3. ASSUME NEW m \in Module, NEW t \in Text, NEW v \in Value, SetGlobal(m, t, v) PROVE CacheInv'
  BY <1>3, SetStep
<1>4. ASSUME NEW m \in Module, NEW t \in Text, DeleteGlobal(m, t) PROVE CacheInv'
  <2>1. \A n \in Module \ {m} : Stays(n)
    BY <1>4, DeleteEffect DEF Same
  <2>2. DOMAIN global_indices = Module
    BY DEF CacheInv
  <2>3. /\ global_indices_dirty' = [global_indices_dirty EXCEPT ![m] = TRUE]
        /\ name_cache' = [name_cache EXCEPT ![m] = None] /\ index_cache' = [index_cache EXCEPT ![m] = NoIndex]
        /\ UNCHANGED <<loaded, global_indices>>
    BY <1>4 DEF DeleteGlobal
  <2> QED
    BY <2>1, <2>2, <2>3, CacheDropped
<1>5. ASSUME NEW m \in Module, NEW e \in Module, Load(m, e) PROVE CacheInv'
  <2>1. \A n \in Module \ {e} : Stays(n)
    BY <1>5, LoadEffect DEF Same
  <2>2. e \notin loaded /\ loaded' = loaded \cup {e}
        /\ UNCHANGED <<global_indices, global_indices_dirty, name_cache, index_cache>>
    BY <1>5 DEF Load, index, cache
  <2>3. \A n \in Module \ {e} : (~global_indices_dirty'[n] => IndexExact(n)') /\ LastExact(n)'
    BY <2>1, <2>2, CacheStays
  <2>4. global_indices_dirty[e] /\ index_cache[e] = NoIndex
    BY <2>2 DEF CacheInv
  <2>5. (~global_indices_dirty'[e] => IndexExact(e)') /\ LastExact(e)'
    BY <2>2, <2>4 DEF LastExact
  <2> QED
    BY <2>2, <2>3, <2>5 DEF CacheInv
<1>6. ASSUME NEW e \in Module, Unload(e) PROVE CacheInv'
  <2>1. \A n \in Module \ {e} : Stays(n)
    BY <1>6, UnloadEffect DEF Same
  <2>2. DOMAIN global_indices = Module
    BY DEF CacheInv
  <2>3. /\ global_indices_dirty' = [global_indices_dirty EXCEPT ![e] = TRUE]
        /\ name_cache' = [name_cache EXCEPT ![e] = None] /\ index_cache' = [index_cache EXCEPT ![e] = NoIndex]
        /\ global_indices' = [global_indices EXCEPT ![e] = NoNames] /\ loaded' = loaded \ {e}
    BY <1>6 DEF Unload
  <2>4. DOMAIN global_indices' = Module /\ \A n \in Module \ {e} : global_indices'[n] = global_indices[n]
    BY <2>2, <2>3
  <2> QED
    BY <2>1, <2>3, <2>4, CacheDropped
<1> QED
  BY <1>1, <1>2, <1>3, <1>4, <1>5, <1>6, Steps

\* Where names that are looked up are constants of the module, the last lookup,
\* the index and a rebuilt index answer what a search of all names answers,
\* after any definitions, deletions, compile errors, loads and collections.
THEOREM LookupCorrect == ASSUME ~Foreign PROVE Spec => []LookupRight
<1>1. ArraysInv /\ CacheInv => LookupRight
  <2> SUFFICES ASSUME ArraysInv, CacheInv, NEW m \in loaded, NEW s \in Names(m)
               PROVE  Found(m, s) = GlobalIndex(m, text[s])
    BY DEF LookupRight
  <2>1. m \in Module
    BY DEF ArraysInv, TypeInv
  <2>2. s \in Elements(constants[m])
    BY DEF Names
  <2> QED
    BY <2>1, <2>2, FoundRight
<1>2. ~Foreign
  OBVIOUS
<1> QED
  BY <1>1, <1>2, InitArrays, NextArrays, InitCache, NextCache, PTL DEF Spec

-----------------------------------------------------------------------------
(* Lists: lemmas about numbers *)

\* Numbers have a least, and what holds of 0 and of the next number holds of all.
LEMMA NatLeast ==
  ASSUME NEW S \in SUBSET Nat, S # {}
  PROVE  \E i \in S : \A j \in S : i <= j
<1> DEFINE R == OpToRel(<, Nat)
<1>1. IsWellFoundedOn(R, Nat)
  BY NatLessThanWellFounded
<1>2. \A x, y \in Nat : <<x, y>> \in R <=> x < y
  BY DEF OpToRel
<1> HIDE DEF R
<1>3. PICK x \in S : \A y \in S : ~ (<<y, x>> \in R)
  BY <1>1, WFMin
<1>4. \A y \in S : ~ (y < x)
  BY <1>2, <1>3
<1>5. \A y \in S : x <= y
  BY <1>4
<1> QED BY <1>5

LEMMA NatInduct ==
  ASSUME NEW S, 0 \in S, \A n \in Nat : n \in S => n + 1 \in S
  PROVE  Nat \subseteq S
<1> DEFINE T == Nat \ S
<1>1. ASSUME T # {} PROVE FALSE
  <2>1. PICK i \in T : \A j \in T : i <= j
    BY <1>1, NatLeast
  <2>2. i \in Nat /\ i # 0 /\ i \notin S
    BY <2>1
  <2>3. i - 1 \in Nat /\ i - 1 \notin T /\ (i - 1) + 1 = i
    BY <2>1, <2>2
  <2> QED BY <2>2, <2>3
<1> QED BY <1>1

\* The powers exist: each list of the first of them goes on in the next.
LEMMA PowerDef == Power[0] = 1 /\ \A k \in Nat : Power[k] \in Nat /\ Power[k + 1] = 2 * Power[k]
<1> DEFINE Part(n, f) == f[0] = 1 /\ \A i \in 0..(n - 1) : f[i + 1] = 2 * f[i]
           P == {n \in Nat : \E f \in [0..n -> Nat] : Part(n, f)}
<1>1. 0 \in P
  <2>1. [i \in 0..0 |-> 1] \in [0..0 -> Nat] /\ Part(0, [i \in 0..0 |-> 1])
    OBVIOUS
  <2> QED BY <2>1
<1>2. ASSUME NEW n \in Nat, n \in P PROVE n + 1 \in P
  <2>1. PICK f \in [0..n -> Nat] : Part(n, f)
    BY <1>2
  <2> DEFINE g == [i \in 0..(n + 1) |-> IF i = n + 1 THEN 2 * f[n] ELSE f[i]]
  <2>2. g \in [0..(n + 1) -> Nat]
    BY <2>1
  <2>3. Part(n + 1, g)
    BY <2>1
  <2> HIDE DEF g
  <2>4. \E h \in [0..(n + 1) -> Nat] : Part(n + 1, h)
    BY <2>2, <2>3
  <2>5. n + 1 \in Nat
    OBVIOUS
  <2> HIDE DEF Part
  <2> QED BY <2>4, <2>5
<1>3. \A n \in Nat : n \in P
  <2> HIDE DEF P
  <2> QED BY <1>1, <1>2, NatInduct
<1> DEFINE q == [n \in Nat |-> CHOOSE f \in [0..n -> Nat] : Part(n, f)]
<1>4. ASSUME NEW n \in Nat
      PROVE  q[n] \in [0..n -> Nat] /\ q[n][0] = 1 /\ \A i \in 0..(n - 1) : q[n][i + 1] = 2 * q[n][i]
  <2>1. \E f \in [0..n -> Nat] : Part(n, f)
    BY <1>3
  <2>2. q[n] \in [0..n -> Nat] /\ Part(n, q[n])
    <3> HIDE DEF Part
    <3> QED BY <2>1
  <2> QED BY <2>2
<1> HIDE DEF q, Part, P
<1>5. ASSUME NEW n \in Nat PROVE q[n + 1][n] = q[n][n]
  <2> DEFINE Q == {k \in Nat : k <= n => q[n + 1][k] = q[n][k]}
  <2>0. n + 1 \in Nat
    OBVIOUS
  <2>1. 0 \in Q
    BY <1>4, <2>0
  <2>2. ASSUME NEW k \in Nat, k \in Q PROVE k + 1 \in Q
    <3> SUFFICES ASSUME k + 1 <= n PROVE q[n + 1][k + 1] = q[n][k + 1]
      OBVIOUS
    <3>1. k \in 0..(n - 1) /\ k \in 0..((n + 1) - 1)
      OBVIOUS
    <3>2. q[n][k + 1] = 2 * q[n][k]
      BY ONLY <1>4, <3>1, n \in Nat
    <3>3. q[n + 1][k + 1] = 2 * q[n + 1][k]
      BY ONLY <1>4, <2>0, <3>1
    <3>4. q[n + 1][k] = q[n][k]
      BY <2>2, <3>1
    <3> QED BY <3>2, <3>3, <3>4
  <2>3. Nat \subseteq Q
    <3> HIDE DEF Q
    <3> QED BY <2>1, <2>2, NatInduct
  <2> QED BY <2>3
<1> DEFINE h == [n \in Nat |-> q[n][n]]
<1>6. h \in [Nat -> Nat] /\ h[0] = 1
  <2>1. ASSUME NEW n \in Nat PROVE q[n][n] \in Nat
    <3>1. q[n] \in [0..n -> Nat] /\ n \in 0..n
      BY ONLY <1>4, n \in Nat
    <3> QED BY <3>1
  <2>2. q[0][0] = 1 /\ 0 \in Nat
    BY ONLY <1>4
  <2> QED BY ONLY <2>1, <2>2
<1>7. ASSUME NEW i \in Nat PROVE h[i + 1] = 2 * h[i]
  <2>1. i + 1 \in Nat /\ i \in 0..((i + 1) - 1)
    OBVIOUS
  <2>2. q[i + 1][i + 1] = 2 * q[i + 1][i]
    BY ONLY <1>4, <2>1
  <2> QED BY <1>5, <2>1, <2>2
<1> HIDE DEF h
<1>8. h = [k \in Nat |-> IF k = 0 THEN 1 ELSE 2 * h[k - 1]]
  <2>1. ASSUME NEW k \in Nat PROVE h[k] = IF k = 0 THEN 1 ELSE 2 * h[k - 1]
    <3>1. CASE k # 0
      <4>1. k - 1 \in Nat /\ (k - 1) + 1 = k
        BY <3>1
      <4> QED BY <1>7, <3>1, <4>1
    <3> QED BY <1>6, <3>1
  <2> QED BY <1>6, <2>1
<1>9. Power = [k \in Nat |-> IF k = 0 THEN 1 ELSE 2 * Power[k - 1]]
  BY <1>8 DEF Power
<1>10. Power[0] = 1
  BY <1>9
<1>11. ASSUME NEW k \in Nat PROVE Power[k + 1] = 2 * Power[k]
  <2>1. k + 1 \in Nat /\ k + 1 # 0 /\ (k + 1) - 1 = k
    OBVIOUS
  <2> QED BY <1>9, <2>1
<1> DEFINE N == {k \in Nat : Power[k] \in Nat}
<1>12. Nat \subseteq N
  <2>1. 0 \in N
    BY <1>10
  <2>2. \A k \in Nat : k \in N => k + 1 \in N
    BY <1>11
  <2> HIDE DEF N
  <2> QED BY <2>1, <2>2, NatInduct
<1> QED BY <1>10, <1>11, <1>12

LEMMA PowerLarge == \A k \in Nat : Power[k] > k
<1> DEFINE N == {k \in Nat : Power[k] > k}
<1>1. 0 \in N
  BY PowerDef
<1>2. ASSUME NEW k \in Nat, k \in N PROVE k + 1 \in N
  <2>1. Power[k] \in Nat /\ Power[k] > k /\ Power[k + 1] = 2 * Power[k]
    BY <1>2, PowerDef
  <2> QED BY <2>1
<1> HIDE DEF N
<1>3. Nat \subseteq N
  BY <1>1, <1>2, NatInduct
<1> QED BY <1>3 DEF N

\* The power of two that is asked for: the first that is large enough.
LEMMA CeilIs ==
  ASSUME NEW n \in Nat
  PROVE  Ceil(n) \in Nat /\ Ceil(n) >= n /\ IsPower(Ceil(n))
<1> DEFINE S == {k \in Nat : Power[k] >= n}
           C(k) == Power[k] >= n /\ \A j \in 0..(k - 1) : Power[j] < n
<1>1. n \in S
  BY PowerLarge, PowerDef
<1>2. PICK k \in S : \A j \in S : k <= j
  BY <1>1, NatLeast
<1>3. k \in 0..n /\ C(k)
  <2>1. k \in 0..n
    BY <1>1, <1>2
  <2>2. ASSUME NEW j \in 0..(k - 1) PROVE Power[j] < n
    <3>1. j \in Nat /\ j \notin S
      BY <1>2
    <3>2. Power[j] \in Nat
      BY <3>1, PowerDef
    <3> QED BY <3>1, <3>2
  <2> QED BY <1>2, <2>1, <2>2
<1> DEFINE m == CHOOSE i \in 0..n : C(i)
<1>4. m \in 0..n /\ C(m)
  BY <1>3
<1>5. Ceil(n) = Power[m]
  BY DEF Ceil
<1> HIDE DEF m
<1>6. m \in Nat /\ Power[m] \in Nat /\ Power[m] > m
  BY <1>4, PowerDef, PowerLarge
<1>7. m \in 0..Power[m]
  BY <1>6
<1> QED BY <1>4, <1>5, <1>6, <1>7 DEF IsPower

LEMMA PowerHalf ==
  ASSUME NEW c \in Nat, IsPower(c), c > 1
  PROVE  c \div 2 \in Nat /\ c = 2 * (c \div 2) /\ IsPower(c \div 2)
<1>1. PICK e \in 0..c : c = Power[e]
  BY DEF IsPower
<1>2. e # 0
  BY <1>1, PowerDef
<1>3. PICK d \in Nat : d = e - 1 /\ e = d + 1
  BY <1>1, <1>2
<1>4. Power[d] \in Nat /\ c = 2 * Power[d] /\ Power[d] > d
  BY <1>1, <1>3, PowerDef, PowerLarge
<1>5. PICK p \in Nat : p = Power[d] /\ c = 2 * p /\ p > d
  BY <1>4
<1>6. c \div 2 = p
  BY <1>5
<1>7. d \in 0..p
  BY <1>5
<1> QED BY <1>5, <1>6, <1>7 DEF IsPower

-----------------------------------------------------------------------------
(* Lists: buffers *)

\* A capacity for n elements.
Roomy(n, c) == c \in Nat /\ n <= c /\ (c = 0 \/ (IsPower(c) /\ c >= MinCapacity))

LEMMA Minimum == MinCapacity \in Nat /\ MinCapacity >= 1 /\ IsPower(MinCapacity)
<1>1. PICK e \in Nat : MinCapacity = Power[e]
  BY ListsAssumption DEF IsPower
<1>2. Power[e] \in Nat /\ Power[e] > e
  BY PowerDef, PowerLarge
<1> QED BY <1>1, <1>2, ListsAssumption

LEMMA ReservedIs ==
  ASSUME NEW c \in Nat, NEW m, Roomy(m, c), NEW n \in Nat
  PROVE  Roomy(n, Reserved(c, n))
<1>1. PICK p \in Nat : p = Ceil(n) /\ p >= n /\ IsPower(p)
  BY CeilIs
<1>2. CASE c >= n
  BY <1>2 DEF Reserved, Roomy
<1>3. CASE ~(c >= n) /\ p < MinCapacity
  BY <1>1, <1>3, Minimum DEF Reserved, Roomy
<1>4. CASE ~(c >= n) /\ ~(p < MinCapacity)
  BY <1>1, <1>4, Minimum DEF Reserved, Roomy
<1> QED BY <1>2, <1>3, <1>4

LEMMA ShrunkIs ==
  ASSUME NEW c \in Nat, NEW m \in Nat, Roomy(m, c), NEW n \in Nat, n <= m
  PROVE  Roomy(n, Shrunk(c, n))
<1>1. CASE c <= MinCapacity \/ n * 4 > c
  BY <1>1 DEF Shrunk, Roomy
<1>2. CASE ~(c <= MinCapacity \/ n * 4 > c)
  <2>1. c > 1 /\ IsPower(c) /\ n * 4 <= c /\ MinCapacity \in Nat
    BY <1>2, Minimum DEF Roomy
  <2>2. PICK h \in Nat : h = c \div 2 /\ c = 2 * h /\ IsPower(h)
    BY <2>1, PowerHalf
  <2>3. n <= h
    BY <2>1, <2>2
  <2>4. Shrunk(c, n) = IF h < MinCapacity THEN MinCapacity ELSE h
    BY <1>2, <2>2 DEF Shrunk
  <2> QED BY <2>1, <2>2, <2>3, <2>4, Minimum DEF Roomy
<1> QED BY <1>1, <1>2

\* What a splice keeps, puts in and moves.
Spliced(t, s, i, del, ins) ==
  /\ Len(t) = Len(s) - del + Len(ins)
  /\ \A k \in 1..i : t[k] = s[k]
  /\ \A k \in 1..Len(ins) : t[i + k] = ins[k]
  /\ \A k \in 1..(Len(s) - i - del) : t[i + Len(ins) + k] = s[i + del + k]

LEMMA SpliceIs ==
  ASSUME NEW S, NEW s \in Seq(S), NEW i \in Nat, NEW del \in Nat, i + del <= Len(s), NEW ins \in Seq(S)
  PROVE  Splice(s, i, del, ins) \in Seq(S) /\ Spliced(Splice(s, i, del, ins), s, i, del, ins)
<1> SUFFICES ASSUME NEW t, t = Splice(s, i, del, ins) PROVE t \in Seq(S) /\ Spliced(t, s, i, del, ins)
  OBVIOUS
<1> DEFINE x == SubSeq(s, 1, i)
           y == SubSeq(s, i + del + 1, Len(s))
<1>1. Len(s) \in Nat /\ Len(ins) \in Nat /\ i <= Len(s)
  BY LenProperties
<1>2. x \in Seq(S) /\ Len(x) = i /\ \A k \in 1..i : x[k] = s[k]
  BY <1>1, SubSeqProperties
<1>3. y \in Seq(S) /\ Len(y) = Len(s) - i - del /\ \A k \in 1..(Len(s) - i - del) : y[k] = s[i + del + k]
  <2>1. \A j \in (i + del + 1)..Len(s) : s[j] \in S
    BY <1>1
  <2>2. /\ y \in Seq(S) /\ Len(y) = IF i + del + 1 <= Len(s) THEN Len(s) - (i + del + 1) + 1 ELSE 0
        /\ \A k \in 1..(Len(s) - (i + del + 1) + 1) : y[k] = s[(i + del + 1) + k - 1]
    <3>1. i + del + 1 \in Int /\ Len(s) \in Int
      BY <1>1
    <3> QED BY <2>1, <3>1, SubSeqProperties
  <2>3. ASSUME NEW k \in 1..(Len(s) - i - del) PROVE y[k] = s[i + del + k]
    <3>1. k \in 1..(Len(s) - (i + del + 1) + 1) /\ (i + del + 1) + k - 1 = i + del + k
      BY <1>1
    <3> QED BY <2>2, <3>1
  <2>4. Len(y) = Len(s) - i - del
    BY <1>1, <2>2
  <2> HIDE DEF y
  <2> QED BY <2>2, <2>3, <2>4
<1>4. t = (x \o ins) \o y
  BY DEF Splice
<1> HIDE DEF x, y
<1>5. PICK u : u = x \o ins
  OBVIOUS
<1>6. /\ u \in Seq(S) /\ Len(u) = i + Len(ins)
      /\ \A k \in 1..(i + Len(ins)) : u[k] = IF k <= i THEN x[k] ELSE ins[k - i]
  BY <1>2, <1>5, ConcatProperties
<1>7. /\ t \in Seq(S) /\ Len(t) = Len(u) + Len(y)
      /\ \A k \in 1..(Len(u) + Len(y)) : t[k] = IF k <= Len(u) THEN u[k] ELSE y[k - Len(u)]
  <2>1. t = u \o y
    BY <1>4, <1>5
  <2>2. u \in Seq(S) /\ y \in Seq(S)
    BY <1>3, <1>6
  <2> QED BY <2>1, <2>2, ConcatProperties
<1>8. Len(t) = Len(s) - del + Len(ins)
  BY <1>1, <1>3, <1>6, <1>7
<1>9. ASSUME NEW k \in 1..i PROVE t[k] = s[k]
  <2>1. k \in 1..(i + Len(ins)) /\ k \in 1..(Len(u) + Len(y)) /\ k <= Len(u)
    BY <1>1, <1>3, <1>6
  <2> QED BY <1>2, <1>6, <1>7, <2>1
<1>10. ASSUME NEW k \in 1..Len(ins) PROVE t[i + k] = ins[k]
  <2>1. /\ i + k \in 1..(i + Len(ins)) /\ i + k \in 1..(Len(u) + Len(y)) /\ i + k <= Len(u)
        /\ ~(i + k <= i) /\ (i + k) - i = k
    BY <1>1, <1>3, <1>6
  <2> QED BY <1>6, <1>7, <2>1
<1>11. ASSUME NEW k \in 1..(Len(s) - i - del) PROVE t[i + Len(ins) + k] = s[i + del + k]
  <2>1. /\ i + Len(ins) + k \in 1..(Len(u) + Len(y)) /\ ~(i + Len(ins) + k <= Len(u))
        /\ (i + Len(ins) + k) - Len(u) = k
    BY <1>1, <1>3, <1>6
  <2> QED BY <1>3, <1>7, <2>1
<1> QED BY <1>7, <1>8, <1>9, <1>10, <1>11 DEF Spliced

-----------------------------------------------------------------------------
(* Lists: ListsInv, and the steps of lists *)

Buffer == [elems : Sequence_, capacity : Nat]

Loop ==
  [on : {"list", "map", "range"}, id : Nat \cup Range_, iter : Nat, visited : Seq(Nat),
   shifted : BOOLEAN, ended : BOOLEAN]

\* The numbers of a range.
Numbers(r) == IF r.from <= r.to THEN r.to - r.from ELSE r.from - r.to

\* The first c places of s have been visited, once.
Upto(s, c) == \A j \in 1..Len(s) : s[j] = IF j <= c THEN 1 ELSE 0

\* The loop has visited the places before its cursor, each once.
Walked(lp) == lp.iter <= Len(lp.visited) /\ Upto(lp.visited, lp.iter)

LoopInv ==
  loop # NoLoop =>
    /\ loop \in Loop
    /\ loop.on = "list" => loop.id \in 1..Len(list) /\ Len(loop.visited) = Len(list[loop.id].elems)
    /\ loop.on = "map" => Len(loop.visited) = Len(order)
    /\ loop.on = "range" => loop.id \in Range_ /\ Len(loop.visited) = loop.iter /\ loop.iter <= Numbers(loop.id)
    /\ ~loop.shifted => Walked(loop)
    /\ loop.ended => ~More

ListsInv ==
  /\ list \in Seq(Buffer)
  /\ \A l \in 1..Len(list) : Roomy(Len(list[l].elems), list[l].capacity)
  /\ var \in [Variable -> 1..Len(list)]
  /\ order \in Seq(Key) /\ IsInjective(order)
  /\ changes \in 0..MaxChanges
  /\ LoopInv

\* A splice at the cursor or after it leaves the record right.
LEMMA WalkedOn ==
  ASSUME NEW s \in Seq(Nat), NEW c \in Nat, c <= Len(s), Upto(s, c),
         NEW i \in Nat, NEW del \in Nat, i + del <= Len(s), NEW ins \in Seq(Nat), \A k \in 1..Len(ins) : ins[k] = 0,
         NEW t, t = Splice(s, i, del, ins), i >= c \/ (del = 0 /\ Len(ins) = 0)
  PROVE  c <= Len(t) /\ Upto(t, c)
<1>1. PICK n \in Nat : n = Len(ins)
  BY LenProperties
<1>2. PICK l \in Nat : l = Len(s)
  BY LenProperties
<1>3. /\ Len(t) = l - del + n
      /\ \A k \in 1..i : t[k] = s[k]
      /\ \A k \in 1..n : t[i + k] = ins[k]
      /\ \A k \in 1..(l - i - del) : t[i + n + k] = s[i + del + k]
  <2>1. Spliced(t, s, i, del, ins)
    BY SpliceIs
  <2> QED BY <1>1, <1>2, <2>1 DEF Spliced
<1>4. c <= Len(t) /\ c <= l /\ i + del <= l /\ (i >= c \/ (del = 0 /\ n = 0))
  BY <1>1, <1>2, <1>3
<1>5. \A j \in 1..l : s[j] = IF j <= c THEN 1 ELSE 0
  BY <1>2 DEF Upto
<1>6. \A k \in 1..n : ins[k] = 0
  BY <1>1
<1>7. ASSUME NEW j \in 1..(l - del + n) PROVE t[j] = IF j <= c THEN 1 ELSE 0
  <2>1. CASE j <= i
    <3>1. j \in 1..i /\ j \in 1..l
      BY <1>4, <2>1
    <3> QED BY <1>3, <1>5, <3>1
  <2>2. CASE j > i /\ j <= i + n
    <3>1. PICK k \in 1..n : j = i + k
      <4>1. j - i \in 1..n /\ j = i + (j - i)
        BY <2>2
      <4> QED BY <4>1
    <3>2. t[j] = 0
      BY <1>3, <1>6, <3>1
    <3>3. ~(j <= c)
      BY <1>4, <2>2
    <3> QED BY <3>2, <3>3
  <2>3. CASE j > i + n
    <3>1. PICK k \in 1..(l - i - del) : j = i + n + k
      <4>1. j - i - n \in 1..(l - i - del) /\ j = i + n + (j - i - n)
        BY <2>3
      <4> QED BY <4>1
    <3>2. t[j] = s[i + del + k]
      BY <1>3, <3>1
    <3>3. PICK p \in 1..l : p = i + del + k
      BY <1>4, <3>1
    <3>4. p <= c <=> j <= c
      BY <1>4, <3>1, <3>3
    <3>5. s[p] = IF p <= c THEN 1 ELSE 0
      BY <1>5
    <3> QED BY <3>2, <3>3, <3>4, <3>5
  <2> QED BY <2>1, <2>2, <2>3
<1> QED BY <1>3, <1>4, <1>7 DEF Upto




\* A loop over a sequence in which n elements take the place of del.
Moved(del, n) ==
  /\ loop' \in Loop /\ loop' # NoLoop /\ ~loop'.ended
  /\ loop'.on = loop.on /\ loop'.id = loop.id /\ loop'.iter = loop.iter
  /\ Len(loop'.visited) = Len(loop.visited) - del + n
  /\ ~loop'.shifted => Walked(loop')

LEMMA FollowedStep ==
  ASSUME LoopInv, loop # NoLoop, ~loop.ended, NEW on, NEW id, Looping(on, id),
         NEW i \in Nat, NEW del \in Nat, NEW n \in Nat, i + del <= Len(loop.visited), del = n => del = 0,
         Followed(on, id, i, del, n)
  PROVE  Moved(del, n)
<1> DEFINE ins == [k \in 1..n |-> 0]
<1>1. ins \in Seq(Nat) /\ Len(ins) = n /\ \A k \in 1..Len(ins) : ins[k] = 0
  OBVIOUS
<1> HIDE DEF ins
<1>2. loop \in Loop /\ loop.visited \in Seq(Nat) /\ loop.iter \in Nat
  BY DEF LoopInv, Loop
<1>3. PICK t : t = Splice(loop.visited, i, del, ins)
  OBVIOUS
<1>4. t \in Seq(Nat) /\ Len(t) = Len(loop.visited) - del + n
  <2>1. t \in Seq(Nat) /\ Spliced(t, loop.visited, i, del, ins)
    BY <1>1, <1>2, <1>3, SpliceIs
  <2> QED BY <1>1, <2>1 DEF Spliced
<1>5. loop' = [loop EXCEPT !.visited = t, !.shifted = loop.shifted \/ (i < loop.iter /\ del # n)]
  BY <1>3 DEF Followed, ins
<1>6. /\ loop' \in Loop /\ loop'.visited = t /\ loop'.ended = loop.ended
      /\ loop'.on = loop.on /\ loop'.id = loop.id /\ loop'.iter = loop.iter
  BY <1>2, <1>4, <1>5 DEF Loop
<1>7. loop' # NoLoop
  BY <1>6 DEF Loop, NoLoop
<1>8. loop'.shifted = (loop.shifted \/ (i < loop.iter /\ del # n))
  BY <1>2, <1>5 DEF Loop
<1>9. ASSUME ~loop'.shifted PROVE Walked(loop')
  <2>1. ~loop.shifted /\ ~(i < loop.iter /\ del # n)
    BY <1>8, <1>9
  <2>2. loop.iter <= Len(loop.visited) /\ Upto(loop.visited, loop.iter)
    BY <2>1 DEF LoopInv, Walked
  <2>3. i >= loop.iter \/ (del = 0 /\ Len(ins) = 0)
    BY <1>1, <1>2, <2>1
  <2>4. loop.iter <= Len(t) /\ Upto(t, loop.iter)
    BY <1>1, <1>2, <1>3, <2>2, <2>3, WalkedOn
  <2> QED BY <1>6, <2>4 DEF Walked
<1>10. ~loop'.ended
  BY <1>6
<1> QED BY <1>1, <1>4, <1>6, <1>7, <1>9, <1>10 DEF Moved

\* A splice of list l that its elements and its new capacity allow.
Sound(l, i, del, ins, c) ==
  /\ l \in 1..Len(list) /\ i \in Nat /\ del \in Nat /\ ins \in Sequence_
  /\ i + del <= Len(list[l].elems) /\ (del = Len(ins) => del = 0)
  /\ Roomy(Len(list[l].elems) - del + Len(ins), c)

Running == loop # NoLoop => ~loop.ended

LEMMA ChangedStep ==
  ASSUME ListsInv, Running, NEW l, NEW i, NEW del, NEW ins, NEW c,
         Sound(l, i, del, ins, c), Changed(l, i, del, ins, c)
  PROVE  ListsInv'
<1> USE DEF Running
<1>0. /\ l \in 1..Len(list) /\ i \in Nat /\ del \in Nat /\ ins \in Sequence_
      /\ i + del <= Len(list[l].elems) /\ (del = Len(ins) => del = 0)
      /\ Roomy(Len(list[l].elems) - del + Len(ins), c)
  BY DEF Sound
<1> USE <1>0
<1> DEFINE t == Splice(list[l].elems, i, del, ins)
<1>1. list \in Seq(Buffer) /\ list[l] \in Buffer /\ list[l].elems \in Sequence_
  <2>1. list \in Seq(Buffer)
    BY DEF ListsInv
  <2>2. list[l] \in Buffer
    BY ONLY <1>0, <2>1, ElementOfSeq
  <2> QED BY <2>1, <2>2 DEF Buffer
<1>2. PICK n \in Nat : n = Len(ins)
  BY DEF Sequence_
<1>3. t \in Sequence_ /\ Len(t) = Len(list[l].elems) - del + n
  <2>1. t \in Sequence_ /\ Spliced(t, list[l].elems, i, del, ins)
    BY <1>1, SpliceIs DEF Sequence_
  <2> QED BY <1>2, <2>1 DEF Spliced
<1>4. list' = [list EXCEPT ![l] = [elems |-> t, capacity |-> c]]
  BY DEF Changed
<1> HIDE DEF t
<1>5. [elems |-> t, capacity |-> c] \in Buffer
  BY <1>3 DEF Roomy, Buffer
<1>6. /\ list' \in Seq(Buffer) /\ Len(list') = Len(list) /\ list'[l] = [elems |-> t, capacity |-> c]
      /\ \A k \in 1..Len(list) : k # l => list'[k] = list[k]
  BY <1>1, <1>4, <1>5
<1>7. \A k \in 1..Len(list) : Roomy(Len(list'[k].elems), list'[k].capacity)
  <2>1. ASSUME NEW k \in 1..Len(list) PROVE Roomy(Len(list'[k].elems), list'[k].capacity)
    <3>1. CASE k = l
      BY <1>2, <1>3, <1>6, <3>1
    <3>2. CASE k # l
      BY <1>6, <3>2 DEF ListsInv
    <3> QED BY <3>1, <3>2
  <2> QED BY <2>1
<1>8. UNCHANGED <<var, order>> /\ changes' \in 0..MaxChanges
  BY ListsAssumption DEF Changed, Counted, ListsInv
<1>9. LoopInv'
  <2>1. CASE loop = NoLoop
    BY <2>1 DEF Changed, Followed, Looping, LoopInv
  <2>2. CASE loop # NoLoop /\ ~Looping("list", l)
    <3>1. loop' = loop /\ ~(loop.on = "list" /\ loop.id = l) /\ ~loop.ended
      BY <2>2 DEF Changed, Followed, Looping
    <3>2. LoopInv
      BY DEF ListsInv
    <3>3. loop.on = "list" => loop.id \in 1..Len(list) /\ loop.id # l /\ Len(loop.visited) = Len(list[loop.id].elems)
      BY <2>2, <3>1, <3>2 DEF LoopInv
    <3>4. loop.on = "list" => loop.id \in 1..Len(list') /\ Len(loop.visited) = Len(list'[loop.id].elems)
      BY <1>6, <3>3
    <3> QED BY <1>8, <2>2, <3>1, <3>2, <3>4 DEF LoopInv
  <2>3. CASE loop # NoLoop /\ Looping("list", l)
    <3>1. LoopInv /\ ~loop.ended /\ Followed("list", l, i, del, n) /\ loop.on = "list" /\ loop.id = l
      BY <1>2, <2>3 DEF ListsInv, Changed, Looping
    <3>2. Len(loop.visited) = Len(list[l].elems)
      BY <2>3, <3>1 DEF LoopInv
    <3>3. Moved(del, n)
      <4>1. i + del <= Len(loop.visited) /\ (del = n => del = 0)
        BY <1>2, <3>2
      <4> HIDE DEF Moved
      <4> QED BY ONLY <1>0, <2>3, <3>1, <4>1, n \in Nat, FollowedStep
    <3>4. Len(loop'.visited) = Len(list'[l].elems)
      BY <1>3, <1>6, <3>2, <3>3 DEF Moved
    <3> QED BY <1>6, <3>1, <3>3, <3>4 DEF LoopInv, Moved
  <2> QED BY <2>1, <2>2, <2>3
<1> QED BY <1>6, <1>7, <1>8, <1>9 DEF ListsInv



LEMMA Held ==
  ASSUME ListsInv, NEW v \in Variable
  PROVE  /\ var[v] \in 1..Len(list) /\ list[var[v]].elems \in Sequence_
         /\ Count(var[v]) \in Nat /\ Count(var[v]) = Len(list[var[v]].elems)
         /\ list[var[v]].capacity \in Nat /\ Roomy(Count(var[v]), list[var[v]].capacity)
<1>1. var[v] \in 1..Len(list)
  BY DEF ListsInv
<1>2. list[var[v]] \in Buffer
  <2>1. list \in Seq(Buffer)
    BY DEF ListsInv
  <2> QED BY ONLY <1>1, <2>1, ElementOfSeq
<1>3. Roomy(Len(list[var[v]].elems), list[var[v]].capacity)
  BY <1>1 DEF ListsInv
<1> QED BY <1>1, <1>2, <1>3 DEF Buffer, Sequence_, Count

LEMMA ListAppendStep ==
  ASSUME ListsInv, Running, NEW v \in Variable, NEW x \in Element, ListAppend(v, x)
  PROVE  ListsInv'
<1>1. PICK l : l = var[v]
  OBVIOUS
<1>2. PICK n \in Nat : n = Count(l)
  BY <1>1, Held
<1>3. PICK c : c = Reserved(list[l].capacity, n + 1)
  OBVIOUS
<1>4. l \in 1..Len(list) /\ n = Len(list[l].elems) /\ list[l].capacity \in Nat /\ Roomy(n, list[l].capacity)
  BY <1>1, <1>2, Held
<1>5. Changed(l, n, 0, <<x>>, c)
  BY <1>1, <1>2, <1>3 DEF ListAppend
<1>6. <<x>> \in Sequence_ /\ Len(<<x>>) = 1
  BY DEF Sequence_
<1>7. Roomy(n + 1, c)
  BY <1>3, <1>4, ReservedIs
<1>8. Sound(l, n, 0, <<x>>, c)
  BY <1>4, <1>6, <1>7 DEF Sound
<1> QED BY <1>5, <1>8, ChangedStep

LEMMA ListInsertStep ==
  ASSUME ListsInv, Running, NEW v \in Variable, NEW x \in Element, NEW i, ListInsert(v, i, x)
  PROVE  ListsInv'
<1>1. PICK l : l = var[v]
  OBVIOUS
<1>2. PICK n \in Nat : n = Count(l)
  BY <1>1, Held
<1>3. PICK c : c = Reserved(list[l].capacity, n + 1)
  OBVIOUS
<1>4. l \in 1..Len(list) /\ n = Len(list[l].elems) /\ list[l].capacity \in Nat /\ Roomy(n, list[l].capacity)
  BY <1>1, <1>2, Held
<1>5. i \in 0..n /\ Changed(l, i, 0, <<x>>, c)
  BY <1>1, <1>2, <1>3 DEF ListInsert
<1>6. <<x>> \in Sequence_ /\ Len(<<x>>) = 1
  BY DEF Sequence_
<1>7. Roomy(n + 1, c)
  BY <1>3, <1>4, ReservedIs
<1>8. Sound(l, i, 0, <<x>>, c)
  BY <1>4, <1>5, <1>6, <1>7 DEF Sound
<1> QED BY <1>5, <1>8, ChangedStep

LEMMA ListPopStep ==
  ASSUME ListsInv, Running, NEW v \in Variable, NEW at \in Int, ListPop(v, at)
  PROVE  ListsInv'
<1>1. PICK l : l = var[v]
  OBVIOUS
<1>2. PICK n \in Nat : n = Count(l)
  BY <1>1, Held
<1>3. PICK c : c = Shrunk(list[l].capacity, n - 1)
  OBVIOUS
<1>4. l \in 1..Len(list) /\ n = Len(list[l].elems) /\ list[l].capacity \in Nat /\ Roomy(n, list[l].capacity)
  BY <1>1, <1>2, Held
<1>5. PICK i : i = IF at < 0 THEN Count(l) + at ELSE at
  OBVIOUS
<1>6. i \in 0..(n - 1) /\ Changed(l, i, 1, <<>>, c)
  BY <1>1, <1>2, <1>3, <1>5 DEF ListPop
<1>7. <<>> \in Sequence_ /\ Len(<<>>) = 0
  BY DEF Sequence_
<1>8. Roomy(n - 1, c)
  BY <1>3, <1>4, <1>6, ShrunkIs
<1>9. Sound(l, i, 1, <<>>, c)
  BY <1>4, <1>6, <1>7, <1>8 DEF Sound
<1> QED BY <1>6, <1>9, ChangedStep

\* All the elements are removed, and the buffer is freed.
LEMMA Cleared ==
  ASSUME ListsInv, Running, NEW l \in 1..Len(list), NEW n \in Nat, n = Len(list[l].elems),
         Changed(l, 0, n, <<>>, 0)
  PROVE  ListsInv'
<1>1. <<>> \in Sequence_ /\ Len(<<>>) = 0
  BY DEF Sequence_
<1>2. Roomy(0, 0)
  BY DEF Roomy
<1>3. Sound(l, 0, n, <<>>, 0)
  BY <1>1, <1>2 DEF Sound
<1> QED BY <1>3, ChangedStep

LEMMA ListClearStep ==
  ASSUME ListsInv, Running, NEW v \in Variable, ListClear(v)
  PROVE  ListsInv'
<1>1. PICK l : l = var[v]
  OBVIOUS
<1>2. PICK n \in Nat : n = Count(l)
  BY <1>1, Held
<1>3. l \in 1..Len(list) /\ n = Len(list[l].elems)
  BY <1>1, <1>2, Held
<1>4. Changed(l, 0, n, <<>>, 0)
  BY <1>1, <1>2 DEF ListClear
<1> QED BY <1>3, <1>4, Cleared

LEMMA ListResizeStep ==
  ASSUME ListsInv, Running, NEW v \in Variable, NEW length \in Int, ListResize(v, length)
  PROVE  ListsInv'
<1>1. PICK l : l = var[v]
  OBVIOUS
<1>2. PICK n \in Nat : n = Count(l)
  BY <1>1, Held
<1>3. l \in 1..Len(list) /\ n = Len(list[l].elems) /\ list[l].capacity \in Nat /\ Roomy(n, list[l].capacity)
  BY <1>1, <1>2, Held
<1>4. PICK m \in Int : m = IF length < 0 THEN n + length ELSE length
  <2>1. (IF length < 0 THEN n + length ELSE length) \in Int
    OBVIOUS
  <2> QED BY <2>1
<1>5. \/ m = 0 /\ Changed(l, 0, n, <<>>, 0)
      \/ m > n /\ Changed(l, n, 0, Nulls(m - n), Reserved(list[l].capacity, m))
      \/ m > 0 /\ m < n /\ Changed(l, m, n - m, <<>>, Shrunk(list[l].capacity, m))
  BY <1>1, <1>2, <1>4 DEF ListResize
<1>6. CASE m = 0 /\ Changed(l, 0, n, <<>>, 0)
  BY <1>3, <1>6, Cleared
<1>7. CASE m > n /\ Changed(l, n, 0, Nulls(m - n), Reserved(list[l].capacity, m))
  <2>1. PICK ins : ins = Nulls(m - n)
    OBVIOUS
  <2>2. ins \in Sequence_ /\ Len(ins) = m - n
    BY <1>7, <2>1 DEF Nulls, Sequence_
  <2>3. PICK c : c = Reserved(list[l].capacity, m)
    OBVIOUS
  <2>4. Roomy(m, c)
    BY <1>3, <1>7, <2>3, ReservedIs
  <2>5. Roomy(n - 0 + Len(ins), c) /\ ~(0 = Len(ins))
    <3>1. n - 0 + Len(ins) = m
      BY <2>2
    <3> QED BY <1>7, <2>2, <2>4, <3>1
  <2>6. Sound(l, n, 0, ins, c)
    BY <1>3, <2>2, <2>5 DEF Sound
  <2>7. Changed(l, n, 0, ins, c)
    BY <1>7, <2>1, <2>3
  <2> QED BY <2>6, <2>7, ChangedStep
<1>8. CASE m > 0 /\ m < n /\ Changed(l, m, n - m, <<>>, Shrunk(list[l].capacity, m))
  <2>1. PICK c : c = Shrunk(list[l].capacity, m)
    OBVIOUS
  <2>2. Roomy(m, c)
    BY <1>3, <1>8, <2>1, ShrunkIs
  <2>3. PICK d \in Nat : d = n - m
    BY <1>8
  <2>4. <<>> \in Sequence_ /\ Len(<<>>) = 0 /\ d # 0 /\ m + d <= n /\ m \in Nat
    BY <1>8, <2>3 DEF Sequence_
  <2>5. Roomy(n - d + Len(<<>>), c)
    <3>1. n - d + Len(<<>>) = m
      BY <2>3, <2>4
    <3> QED BY <2>2, <3>1
  <2>6. Sound(l, m, d, <<>>, c)
    BY <1>3, <2>4, <2>5 DEF Sound
  <2>7. Changed(l, m, d, <<>>, c)
    BY <1>8, <2>1, <2>3
  <2> QED BY <2>6, <2>7, ChangedStep
<1> QED BY <1>5, <1>6, <1>7, <1>8

LEMMA AddInPlaceStep ==
  ASSUME ListsInv, Running, NEW v \in Variable, NEW w \in Variable, AddInPlace(v, w)
  PROVE  ListsInv'
<1>1. PICK l : l = var[v]
  OBVIOUS
<1>2. PICK n \in Nat : n = Count(l)
  BY <1>1, Held
<1>3. PICK ins : ins = list[var[w]].elems
  OBVIOUS
<1>4. ins \in Sequence_ /\ Len(ins) \in Nat
  BY <1>3, Held
<1>5. l \in 1..Len(list) /\ n = Len(list[l].elems) /\ list[l].capacity \in Nat /\ Roomy(n, list[l].capacity)
  BY <1>1, <1>2, Held
<1>6. PICK c : c = Reserved(list[l].capacity, n + Len(ins))
  OBVIOUS
<1>7. ins # <<>> /\ Changed(l, n, 0, ins, c)
  BY <1>1, <1>2, <1>3, <1>6 DEF AddInPlace
<1>8. Roomy(n - 0 + Len(ins), c)
  <2>1. n - 0 + Len(ins) = n + Len(ins)
    BY <1>4
  <2>2. Roomy(n + Len(ins), c)
    BY <1>4, <1>5, <1>6, ReservedIs
  <2> QED BY <2>1, <2>2
<1>9. Sound(l, n, 0, ins, c)
  BY <1>4, <1>5, <1>7, <1>8 DEF Sound
<1> QED BY <1>7, <1>9, ChangedStep



LEMMA SetSubscriptStep ==
  ASSUME ListsInv, Running, NEW v \in Variable, NEW at \in Int, NEW x \in Element, SetSubscript(v, at, x)
  PROVE  ListsInv'
<1>1. PICK l : l = var[v]
  OBVIOUS
<1>2. PICK n \in Nat : n = Count(l)
  BY <1>1, Held
<1>3. l \in 1..Len(list) /\ n = Len(list[l].elems) /\ list[l].capacity \in Nat /\ Roomy(n, list[l].capacity)
  BY <1>1, <1>2, Held
<1>4. PICK i \in Int : i = IF at < 0 THEN n + at ELSE at
  <2>1. (IF at < 0 THEN n + at ELSE at) \in Int
    OBVIOUS
  <2> QED BY <2>1
<1>5. \/ i >= n /\ Changed(l, n, 0, Append(Nulls(i - n), x), Reserved(list[l].capacity, i + 1))
      \/ /\ i \in 0..(n - 1)
         /\ list' = [list EXCEPT ![l].elems[i + 1] = x]
         /\ UNCHANGED <<var, order, loop>>
         /\ Counted
  BY <1>1, <1>2, <1>4 DEF SetSubscript
<1>6. CASE i >= n /\ Changed(l, n, 0, Append(Nulls(i - n), x), Reserved(list[l].capacity, i + 1))
  <2>1. PICK ins : ins = Append(Nulls(i - n), x)
    OBVIOUS
  <2>2. ins \in Sequence_ /\ Len(ins) = i - n + 1
    <3>1. PICK m \in Nat : m = i - n
      BY <1>6
    <3>2. Nulls(m) \in Sequence_ /\ Len(Nulls(m)) = m
      BY DEF Nulls, Sequence_
    <3> QED BY <2>1, <3>1, <3>2 DEF Sequence_
  <2>3. PICK c : c = Reserved(list[l].capacity, i + 1)
    OBVIOUS
  <2>4. Roomy(i + 1, c)
    BY <1>3, <1>6, <2>3, ReservedIs
  <2>5. n - 0 + Len(ins) = i + 1 /\ Len(ins) # 0
    BY <1>6, <2>2
  <2>6. Sound(l, n, 0, ins, c)
    BY <1>3, <2>2, <2>4, <2>5 DEF Sound
  <2>7. Changed(l, n, 0, ins, c)
    BY <1>6, <2>1, <2>3
  <2> QED BY <2>6, <2>7, ChangedStep
<1>7. CASE /\ i \in 0..(n - 1)
           /\ list' = [list EXCEPT ![l].elems[i + 1] = x]
           /\ UNCHANGED <<var, order, loop>>
           /\ Counted
  <2>1. list \in Seq(Buffer)
    BY DEF ListsInv
  <2>2. list[l] \in Buffer
    BY ONLY <1>3, <2>1, ElementOfSeq
  <2>3. PICK s : s = [list[l].elems EXCEPT ![i + 1] = x]
    OBVIOUS
  <2>4. s \in Sequence_ /\ Len(s) = n
    <3>1. list[l].elems \in Seq(Element \cup {Null}) /\ i + 1 \in 1..Len(list[l].elems) /\ x \in Element \cup {Null}
      BY <1>3, <1>7, <2>2 DEF Buffer, Sequence_
    <3> QED BY <1>3, <2>3, <3>1 DEF Sequence_
  <2>5. PICK b : b = [elems |-> s, capacity |-> list[l].capacity]
    OBVIOUS
  <2>6. b \in Buffer /\ Roomy(Len(b.elems), b.capacity) /\ Len(b.elems) = n
    BY <1>3, <2>4, <2>5 DEF Buffer
  <2>7. list' = [list EXCEPT ![l] = b]
    <3>1. list' = [list EXCEPT ![l] = [list[l] EXCEPT !.elems = s]]
      BY <1>7, <2>3
    <3>2. [list[l] EXCEPT !.elems = s] = b
      BY <2>2, <2>5 DEF Buffer
    <3> QED BY <3>1, <3>2
  <2>8. /\ list' \in Seq(Buffer) /\ Len(list') = Len(list) /\ list'[l] = b
        /\ \A k \in 1..Len(list) : k # l => list'[k] = list[k]
    BY <1>3, <2>1, <2>6, <2>7
  <2>9. \A k \in 1..Len(list) : Roomy(Len(list'[k].elems), list'[k].capacity) /\ Len(list'[k].elems) = Len(list[k].elems)
    <3>1. ASSUME NEW k \in 1..Len(list)
          PROVE  Roomy(Len(list'[k].elems), list'[k].capacity) /\ Len(list'[k].elems) = Len(list[k].elems)
      <4>1. CASE k = l
        BY <1>3, <2>6, <2>8, <4>1
      <4>2. CASE k # l
        BY <2>8, <4>2 DEF ListsInv
      <4> QED BY <4>1, <4>2
    <3> QED BY <3>1
  <2>10. LoopInv'
    <3>1. CASE loop = NoLoop
      BY <1>7, <3>1 DEF LoopInv
    <3>2. CASE loop # NoLoop
      <4>1. LoopInv /\ loop' = loop /\ order' = order /\ ~loop.ended
        BY <1>7, <3>2 DEF ListsInv, Running
      <4>2. loop.on = "list" => loop.id \in 1..Len(list') /\ Len(loop.visited) = Len(list'[loop.id].elems)
        BY <2>8, <2>9, <3>2, <4>1 DEF LoopInv
      <4> QED BY <3>2, <4>1, <4>2 DEF LoopInv
    <3> QED BY <3>1, <3>2
  <2>11. UNCHANGED <<var, order>> /\ changes' \in 0..MaxChanges
    BY <1>7, ListsAssumption DEF Counted, ListsInv
  <2> QED BY <2>8, <2>9, <2>10, <2>11 DEF ListsInv
<1> QED BY <1>5, <1>6, <1>7

LEMMA AddStep ==
  ASSUME ListsInv, Running, NEW v \in Variable, NEW w \in Variable, Add(v, w)
  PROVE  ListsInv'
<1>1. PICK s : s = list[var[v]].elems
  OBVIOUS
<1>2. PICK t : t = list[var[w]].elems
  OBVIOUS
<1>3. s \in Sequence_ /\ t \in Sequence_
  BY <1>1, <1>2, Held
<1>4. UNCHANGED <<order, loop>> /\ changes' \in 0..MaxChanges
  BY ListsAssumption DEF Add, Counted, ListsInv
<1>5. CASE ~(s # <<>> /\ t # <<>>)
  <2>1. list' = list /\ var' = [var EXCEPT ![v] = IF s = <<>> THEN var[w] ELSE @]
    BY <1>1, <1>2, <1>5 DEF Add
  <2>2. var \in [Variable -> 1..Len(list)]
    BY DEF ListsInv
  <2>3. var' \in [Variable -> 1..Len(list)]
    BY <2>1, <2>2
  <2>4. LoopInv'
    <3>1. LoopInv
      BY DEF ListsInv
    <3> QED BY <1>4, <2>1, <3>1 DEF LoopInv, More, Left
  <2> QED BY <1>4, <2>1, <2>3, <2>4 DEF ListsInv
<1>6. CASE s # <<>> /\ t # <<>>
  <2> DEFINE Spare == {k \in 1..4 : k \notin Range(var) /\ ~Looping("list", k)}
  <2>1. PICK l : l = Min(Spare)
    OBVIOUS
  <2>2. PICK m : m = Max({l, Len(list)})
    OBVIOUS
  <2>3. PICK b : b = [elems |-> s \o t, capacity |-> Reserved(0, Len(s) + Len(t))]
    OBVIOUS
  <2>4. list' = [k \in 1..m |-> IF k = l THEN b ELSE list[k]] /\ var' = [var EXCEPT ![v] = l]
    BY <1>1, <1>2, <1>6, <2>1, <2>2, <2>3 DEF Add
  <2>5. PICK h \in Nat : h = Len(list)
    BY DEF ListsInv
  <2>6. list \in Seq(Buffer) /\ var \in [Variable -> 1..h] /\ LoopInv
    BY <2>5 DEF ListsInv
  <2>7. Range(var) = {var["a"], var["b"]} /\ var["a"] \in 1..h /\ var["b"] \in 1..h
    BY <2>6 DEF Variable, Range
  <2>8. Spare # {}
    <3>1. PICK p : p = loop.id
      OBVIOUS
    <3>2. \A k : Looping("list", k) => k = p
      BY <3>1 DEF Looping
    <3>3. PICK k \in 1..4 : k # var["a"] /\ k # var["b"] /\ k # p
      <4>1. 1 \in 1..4 /\ 2 \in 1..4 /\ 3 \in 1..4 /\ 4 \in 1..4
        OBVIOUS
      <4>2. PICK a \in Nat : a = var["a"]
        BY <2>7
      <4>3. PICK c \in Nat : c = var["b"]
        BY <2>7
      <4> QED BY <4>1, <4>2, <4>3
    <3> QED BY <2>7, <3>2, <3>3
  <2>9. l \in Spare /\ \A k \in Spare : l <= k
    <3>1. PICK k \in Spare : \A j \in Spare : k <= j
      <4> HIDE DEF Spare
      <4>1. Spare \in SUBSET Nat
        BY DEF Spare
      <4> QED BY <2>8, <4>1, NatLeast
    <3> HIDE DEF Spare
    <3> QED BY <2>1, <3>1 DEF Min
  <2>10. l \in Nat /\ 1 <= l /\ l <= h + 1 /\ l \notin Range(var) /\ ~Looping("list", l)
    <3>1. l \in 1..4 /\ l \notin Range(var) /\ ~Looping("list", l)
      BY <2>9
    <3>2. ASSUME l > h + 1 PROVE FALSE
      <4>1. h + 1 \in 1..4 /\ h + 1 \notin Range(var) /\ h + 1 # l /\ h + 1 < l
        BY <2>5, <2>7, <3>1, <3>2
      <4>2. ~Looping("list", h + 1)
        BY <2>5, <2>6 DEF Looping, LoopInv
      <4>3. h + 1 \in Spare
        BY <4>1, <4>2
      <4> HIDE DEF Spare
      <4> QED BY <2>9, <3>1, <4>1, <4>3
    <3> QED BY <2>5, <3>1, <3>2
  <2> HIDE DEF Spare
  <2>11. m \in Nat /\ h <= m /\ l <= m /\ (m = h \/ (m = h + 1 /\ l = m))
    <3>1. \E x \in {l, h} : \A y \in {l, h} : x >= y
      BY <2>5, <2>10
    <3>2. m \in {l, h} /\ \A y \in {l, h} : m >= y
      BY <2>2, <2>5, <3>1 DEF Max
    <3> QED BY <2>5, <2>10, <3>2
  <2>12. Roomy(Len(b.elems), b.capacity) /\ b \in Buffer
    <3>1. PICK u : u = s \o t
      OBVIOUS
    <3>2. u \in Sequence_ /\ Len(u) = Len(s) + Len(t) /\ Len(u) \in Nat
      <4>1. u \in Sequence_ /\ Len(u) = Len(s) + Len(t)
        BY <1>3, <3>1, ConcatProperties DEF Sequence_
      <4> QED BY <4>1 DEF Sequence_
    <3>3. Roomy(0, 0)
      BY DEF Roomy
    <3>4. PICK c : c = Reserved(0, Len(u))
      OBVIOUS
    <3>5. Roomy(Len(u), c)
      BY <3>2, <3>3, <3>4, ReservedIs
    <3>6. b = [elems |-> u, capacity |-> c]
      BY <2>3, <3>1, <3>2, <3>4
    <3>7. c \in Nat
      BY <3>5 DEF Roomy
    <3> QED BY <3>2, <3>5, <3>6, <3>7 DEF Buffer
  <2>13. ASSUME NEW k \in 1..m PROVE list'[k] \in Buffer /\ Roomy(Len(list'[k].elems), list'[k].capacity)
    <3>1. CASE k = l
      BY <2>4, <2>12, <3>1
    <3>2. CASE k # l
      <4>1. k \in 1..Len(list) /\ list'[k] = list[k]
        BY <2>4, <2>5, <2>11, <3>2
      <4>2. list[k] \in Buffer
        BY ONLY <2>6, <4>1, ElementOfSeq
      <4> QED BY <4>1, <4>2 DEF ListsInv
    <3> QED BY <3>1, <3>2
  <2>14. list' \in Seq(Buffer) /\ Len(list') = m
    <3>1. list' \in [1..m -> Buffer]
      BY <2>4, <2>13
    <3> QED BY <2>11, <3>1
  <2>15. var' \in [Variable -> 1..m]
    BY <2>4, <2>6, <2>10, <2>11
  <2>16. LoopInv'
    <3>1. CASE loop = NoLoop
      BY <1>4, <3>1 DEF LoopInv
    <3>2. CASE loop # NoLoop
      <4>1. LoopInv /\ loop' = loop /\ order' = order /\ ~loop.ended
        BY <1>4, <2>6, <3>2 DEF Running
      <4>2. ASSUME loop.on = "list"
            PROVE  loop.id \in 1..Len(list') /\ Len(loop.visited) = Len(list'[loop.id].elems)
        <5>1. loop.id \in 1..Len(list) /\ Len(loop.visited) = Len(list[loop.id].elems)
          BY <3>2, <4>1, <4>2 DEF LoopInv
        <5>2. loop.id # l
          BY <2>10, <3>2, <4>2 DEF Looping
        <5>3. loop.id \in 1..m /\ list'[loop.id] = list[loop.id]
          BY <2>4, <2>5, <2>11, <5>1, <5>2
        <5> QED BY <2>14, <5>1, <5>3
      <4> QED BY <3>2, <4>1, <4>2 DEF LoopInv
    <3> QED BY <3>1, <3>2
  <2>17. order' \in Seq(Key) /\ IsInjective(order')
    BY <1>4 DEF ListsInv
  <2>18. \A k \in 1..Len(list') : Roomy(Len(list'[k].elems), list'[k].capacity)
    BY <2>13, <2>14
  <2>19. var' \in [Variable -> 1..Len(list')]
    BY <2>14, <2>15
  <2> QED BY <1>4, <2>14, <2>16, <2>17, <2>18, <2>19 DEF ListsInv
<1> QED BY <1>5, <1>6


-----------------------------------------------------------------------------
(* Lists: the steps of the map and of the loop, and the theorems *)

\* The map's keys after a step: a loop over a list or a range is left alone.
LEMMA OrderStep ==
  ASSUME ListsInv, Running, NEW i \in Nat, NEW del \in Nat, NEW n \in Nat, i + del <= Len(order), del = n => del = 0,
         order' \in Seq(Key), IsInjective(order'), Len(order') = Len(order) - del + n,
         Followed("map", 0, i, del, n), UNCHANGED <<list, var>>, Counted
  PROVE  ListsInv'
<1>1. LoopInv
  BY DEF ListsInv
<1>2. changes' \in 0..MaxChanges
  BY ListsAssumption DEF Counted, ListsInv
<1>3. LoopInv'
  <2>1. CASE loop = NoLoop
    BY <2>1 DEF Followed, Looping, LoopInv
  <2>2. CASE loop # NoLoop /\ loop.on # "map"
    <3>1. loop' = loop /\ ~loop.ended
      BY <2>2 DEF Followed, Looping, Running
    <3> QED BY <1>1, <2>2, <3>1 DEF LoopInv
  <2>3. CASE loop # NoLoop /\ loop.on = "map"
    <3>1. ~loop.ended /\ Looping("map", 0) /\ Len(loop.visited) = Len(order)
      BY <1>1, <2>3 DEF Running, Looping, LoopInv
    <3>2. i + del <= Len(loop.visited)
      BY <3>1
    <3>3. Moved(del, n)
      BY ONLY <1>1, <2>3, <3>1, <3>2, i \in Nat, del \in Nat, n \in Nat, del = n => del = 0,
              Followed("map", 0, i, del, n), FollowedStep
    <3> QED BY <1>1, <2>3, <3>1, <3>3 DEF LoopInv, Moved
  <2> QED BY <2>1, <2>2, <2>3
<1> QED BY <1>2, <1>3 DEF ListsInv

LEMMA MapSetStep ==
  ASSUME ListsInv, Running, NEW k \in Key, MapSet(k)
  PROVE  ListsInv'
<1>1. order \in Seq(Key) /\ IsInjective(order)
  BY DEF ListsInv
<1>2. PICK n \in Nat : n = Len(order)
  BY <1>1
<1>3. UNCHANGED <<list, var>> /\ Counted
  BY DEF MapSet
<1>4. CASE k \in Range(order)
  <2>1. order' = order /\ loop' = loop
    BY <1>4 DEF MapSet
  <2>2. changes' \in 0..MaxChanges
    BY <1>3, ListsAssumption DEF Counted, ListsInv
  <2> QED BY <1>3, <2>1, <2>2 DEF ListsInv, LoopInv, More, Left
<1>5. CASE k \notin Range(order)
  <2>1. order' = Append(order, k) /\ Followed("map", 0, n, 0, 1)
    BY <1>2, <1>5 DEF MapSet
  <2>2. order' \in Seq(Key) /\ Len(order') = n + 1 /\ order'[n + 1] = k /\ \A j \in 1..n : order'[j] = order[j]
    BY <1>1, <1>2, <2>1
  <2>3. IsInjective(order')
    <3>1. ASSUME NEW a \in 1..(n + 1), NEW b \in 1..(n + 1), order'[a] = order'[b] PROVE a = b
      <4>1. \A j \in 1..n : order[j] # k
        BY <1>1, <1>2, <1>5 DEF Range
      <4>2. \A c, d \in 1..n : order[c] = order[d] => c = d
        BY <1>1, <1>2 DEF IsInjective
      <4>3. CASE a = n + 1 \/ b = n + 1
        BY <2>2, <3>1, <4>1, <4>3
      <4>4. CASE a # n + 1 /\ b # n + 1
        BY <2>2, <3>1, <4>2, <4>4
      <4> QED BY <4>3, <4>4
    <3>2. DOMAIN order' = 1..(n + 1)
      BY <2>2
    <3> QED BY <3>1, <3>2 DEF IsInjective
  <2>4. n + 0 <= Len(order) /\ Len(order') = Len(order) - 0 + 1
    BY <1>2, <2>2
  <2>5. 0 \in Nat /\ 1 \in Nat /\ (0 = 1 => 0 = 0)
    OBVIOUS
  <2> QED BY ONLY ListsInv, Running, <1>3, <2>1, <2>2, <2>3, <2>4, <2>5, n \in Nat, OrderStep
<1> QED BY <1>4, <1>5

LEMMA MapPopStep ==
  ASSUME ListsInv, Running, NEW k \in Key, MapPop(k)
  PROVE  ListsInv'
<1>1. order \in Seq(Key) /\ IsInjective(order)
  BY DEF ListsInv
<1>2. PICK n \in Nat : n = Len(order)
  BY <1>1
<1>3. UNCHANGED <<list, var>> /\ Counted
  BY DEF MapPop
<1>4. PICK i : i = CHOOSE j \in DOMAIN order : order[j] = k
  OBVIOUS
<1>5. i \in 1..n
  <2>1. \E j \in DOMAIN order : order[j] = k
    BY DEF MapPop, Range
  <2> QED BY <1>1, <1>2, <1>4, <2>1
<1>6. PICK p \in Nat : p = i - 1
  BY <1>5
<1>7. order' = Splice(order, p, 1, <<>>) /\ Followed("map", 0, p, 1, 0)
  BY <1>4, <1>6 DEF MapPop
<1>8. PICK e : e = <<>>
  OBVIOUS
<1>9. e \in Seq(Key) /\ Len(e) = 0
  BY <1>8
<1>10. p + 1 <= Len(order)
  BY <1>2, <1>5, <1>6
<1>11. order' \in Seq(Key) /\ Spliced(order', order, p, 1, e)
  BY <1>1, <1>7, <1>8, <1>9, <1>10, SpliceIs
<1>12. /\ Len(order') = n - 1
       /\ \A j \in 1..p : order'[j] = order[j]
       /\ \A j \in 1..(n - p - 1) : order'[p + j] = order[p + 1 + j]
  <2>1. /\ Len(order') = n - 1 + 0
        /\ \A j \in 1..(n - p - 1) : order'[p + 0 + j] = order[p + 1 + j]
        /\ \A j \in 1..p : order'[j] = order[j]
    BY <1>2, <1>9, <1>11 DEF Spliced
  <2>2. p + 0 = p
    BY <1>6
  <2> QED BY <1>2, <2>1, <2>2
<1>13. IsInjective(order')
  <2>1. \A c, d \in 1..n : order[c] = order[d] => c = d
    BY <1>1, <1>2 DEF IsInjective
  <2>2. ASSUME NEW a \in 1..(n - 1) PROVE order'[a] = order[IF a <= p THEN a ELSE a + 1]
    <3>1. CASE a <= p
      BY <1>12, <3>1
    <3>2. CASE ~(a <= p)
      <4>1. PICK j \in 1..(n - p - 1) : a = p + j
        <5>1. a - p \in 1..(n - p - 1) /\ a = p + (a - p)
          BY <1>6, <3>2
        <5> QED BY <5>1
      <4>2. order'[a] = order[p + 1 + j] /\ p + 1 + j = a + 1
        <5>1. order'[p + j] = order[p + 1 + j]
          BY <1>12
        <5> QED BY <1>6, <4>1, <5>1
      <4> QED BY <3>2, <4>2
    <3> QED BY <3>1, <3>2
  <2>3. ASSUME NEW a \in 1..(n - 1), NEW b \in 1..(n - 1), order'[a] = order'[b] PROVE a = b
    <3>1. PICK c \in 1..n : c = IF a <= p THEN a ELSE a + 1
      <4>1. (IF a <= p THEN a ELSE a + 1) \in 1..n
        BY <1>6
      <4> QED BY <4>1
    <3>2. PICK d \in 1..n : d = IF b <= p THEN b ELSE b + 1
      <4>1. (IF b <= p THEN b ELSE b + 1) \in 1..n
        BY <1>6
      <4> QED BY <4>1
    <3>3. c = d
      BY <2>1, <2>2, <2>3, <3>1, <3>2
    <3> QED BY <1>6, <3>1, <3>2, <3>3
  <2>4. DOMAIN order' = 1..(n - 1)
    BY <1>11, <1>12
  <2> QED BY <2>3, <2>4 DEF IsInjective
<1>14. Len(order') = Len(order) - 1 + 0
  BY <1>2, <1>12
<1>15. 0 \in Nat /\ 1 \in Nat /\ (1 = 0 => 1 = 0)
  OBVIOUS
<1> QED BY ONLY ListsInv, Running, <1>3, <1>7, <1>10, <1>11, <1>13, <1>14, <1>15, p \in Nat, OrderStep

LEMMA MapClearStep ==
  ASSUME ListsInv, Running, MapClear
  PROVE  ListsInv'
<1>1. order \in Seq(Key) /\ order # <<>>
  BY DEF ListsInv, MapClear
<1>2. PICK n \in Nat : n = Len(order) /\ n # 0
  BY <1>1
<1>3. UNCHANGED <<list, var>> /\ Counted /\ Followed("map", 0, 0, n, 0)
  BY <1>2 DEF MapClear
<1>4. order' = <<>>
  BY DEF MapClear
<1>5. order' \in Seq(Key) /\ IsInjective(order') /\ Len(order') = Len(order) - n + 0
  BY <1>2, <1>4 DEF IsInjective
<1>6. 0 \in Nat /\ (n = 0 => n = 0) /\ 0 + n <= Len(order)
  BY <1>2
<1> QED BY ONLY ListsInv, Running, <1>3, <1>5, <1>6, n \in Nat, OrderStep


LEMMA BeginStep ==
  ASSUME ListsInv, Begin
  PROVE  ListsInv'
<1>1. UNCHANGED <<list, var, order, changes>>
  BY DEF Begin
<1>2. ASSUME NEW on \in {"list", "map", "range"}, NEW id \in Nat \cup Range_, NEW n \in Nat, loop' = Started(on, id, n)
      PROVE  /\ loop' \in Loop /\ loop'.on = on /\ loop'.id = id /\ Len(loop'.visited) = n /\ loop'.iter = 0
             /\ ~loop'.ended /\ Walked(loop')
  <2>1. PICK s : s = [i \in 1..n |-> 0]
    OBVIOUS
  <2>2. s \in Seq(Nat) /\ Len(s) = n /\ Upto(s, 0)
    BY <2>1 DEF Upto
  <2>3. loop' = [on |-> on, id |-> id, iter |-> 0, visited |-> s, shifted |-> FALSE, ended |-> FALSE]
    BY <1>2, <2>1 DEF Started
  <2> QED BY <2>2, <2>3 DEF Loop, Walked
<1>3. LoopInv'
  <2>1. CASE \E v \in Variable : loop' = Started("list", var[v], Count(var[v]))
    <3>1. PICK v \in Variable : loop' = Started("list", var[v], Count(var[v]))
      BY <2>1
    <3>2. PICK l : l = var[v]
      OBVIOUS
    <3>3. PICK n \in Nat : n = Count(l)
      BY <3>2, Held
    <3>4. l \in 1..Len(list) /\ n = Len(list[l].elems) /\ l \in Nat \cup Range_
      <4>1. l \in 1..Len(list) /\ n = Len(list[l].elems)
        BY <3>2, <3>3, Held
      <4> QED BY <4>1
    <3>5. loop' = Started("list", l, n)
      BY <3>1, <3>2, <3>3
    <3> QED BY <1>1, <1>2, <3>4, <3>5 DEF LoopInv
  <2>2. CASE loop' = Started("map", 0, Len(order))
    <3>1. PICK n \in Nat : n = Len(order)
      BY DEF ListsInv
    <3>2. loop' = Started("map", 0, n) /\ 0 \in Nat \cup Range_
      BY <2>2, <3>1
    <3> QED BY <1>1, <1>2, <3>1, <3>2 DEF LoopInv
  <2>3. CASE \E r \in Range_ : loop' = Started("range", r, 0)
    <3>1. PICK r \in Range_ : loop' = Started("range", r, 0)
      BY <2>3
    <3>2. Numbers(r) \in Nat
      BY ListsAssumption DEF Numbers
    <3>3. /\ loop' \in Loop /\ loop'.on = "range" /\ loop'.id = r /\ Len(loop'.visited) = 0 /\ loop'.iter = 0
          /\ ~loop'.ended /\ Walked(loop')
      BY <1>2, <3>1
    <3> QED BY <3>2, <3>3 DEF LoopInv
  <2> QED BY <2>1, <2>2, <2>3 DEF Begin
<1> QED BY <1>1, <1>3 DEF ListsInv

LEMMA VisitStep ==
  ASSUME ListsInv, Visit
  PROVE  ListsInv'
<1>1. UNCHANGED <<list, var, order, changes>> /\ loop # NoLoop /\ ~loop.ended /\ More
  BY DEF Visit
<1>2. LoopInv /\ loop \in Loop
  BY <1>1 DEF ListsInv, LoopInv
<1>3. PICK s \in Seq(Nat) : s = loop.visited
  BY <1>2 DEF Loop
<1>4. PICK c \in Nat : c = loop.iter
  BY <1>2 DEF Loop
<1>5. PICK t : t = IF loop.on = "range" THEN Append(s, 1) ELSE [s EXCEPT ![c + 1] = s[c + 1] + 1]
  OBVIOUS
<1>6. loop' = [loop EXCEPT !.iter = c + 1, !.visited = t]
  BY <1>3, <1>4, <1>5 DEF Visit
<1>7. t \in Seq(Nat) /\ Len(t) = (IF loop.on = "range" THEN Len(s) + 1 ELSE Len(s))
      /\ (loop.on = "range" => Len(s) = c) /\ (loop.on # "range" => c < Len(s))
  <2>1. CASE loop.on = "range"
    BY <1>1, <1>2, <1>3, <1>4, <1>5, <2>1 DEF LoopInv
  <2>2. CASE loop.on # "range"
    <3>1. c < Len(s)
      BY <1>1, <1>2, <1>3, <1>4, <2>2 DEF LoopInv, More, Left, Loop
    <3>2. c + 1 \in 1..Len(s) /\ s[c + 1] + 1 \in Nat
      BY <1>3, <3>1
    <3> QED BY <1>3, <1>5, <2>2, <3>1, <3>2
  <2> QED BY <2>1, <2>2
<1>8. /\ loop' \in Loop /\ loop'.on = loop.on /\ loop'.id = loop.id /\ loop'.iter = c + 1 /\ loop'.visited = t
      /\ loop'.ended = loop.ended /\ loop'.shifted = loop.shifted
  <2>1. c + 1 \in Nat /\ t \in Seq(Nat)
    BY <1>4, <1>7
  <2> QED BY ONLY <1>2, <1>6, <2>1 DEF Loop
<1>9. ASSUME ~loop.shifted PROVE Walked(loop')
  <2>1. c <= Len(s) /\ Upto(s, c)
    BY <1>1, <1>2, <1>3, <1>4, <1>9 DEF LoopInv, Walked
  <2>2. PICK n \in Nat : n = Len(s)
    BY <1>3
  <2>3. \A j \in 1..n : s[j] = IF j <= c THEN 1 ELSE 0
    BY <2>1, <2>2 DEF Upto
  <2>4. c + 1 <= Len(t)
    BY <1>3, <1>7
  <2>5. Upto(t, c + 1)
    <3>1. CASE loop.on = "range"
      <4>1. t = Append(s, 1) /\ n = c
        BY <1>5, <1>7, <2>2, <3>1
      <4>2. Len(t) = n + 1 /\ t[n + 1] = 1 /\ \A j \in 1..n : t[j] = s[j]
        <5>1. PICK x \in Nat : x = 1
          OBVIOUS
        <5>2. Len(Append(s, x)) = Len(s) + 1 /\ Append(s, x)[Len(s) + 1] = x /\ \A j \in 1..Len(s) : Append(s, x)[j] = s[j]
          BY ONLY s \in Seq(Nat), x \in Nat, AppendProperties
        <5> QED BY ONLY <2>2, <4>1, <5>1, <5>2
      <4> QED BY <2>3, <4>1, <4>2 DEF Upto
    <3>2. CASE loop.on # "range"
      <4>1. t = [s EXCEPT ![c + 1] = s[c + 1] + 1] /\ c < n /\ Len(t) = n
        BY <1>5, <1>7, <2>2, <3>2
      <4>2. t[c + 1] = 1 /\ \A j \in 1..n : j # c + 1 => t[j] = s[j]
        BY <1>3, <2>2, <2>3, <4>1
      <4> QED BY <2>3, <4>1, <4>2 DEF Upto
    <3> QED BY <3>1, <3>2
  <2> QED BY <1>8, <2>4, <2>5 DEF Walked
<1>10. ASSUME loop.on = "range" PROVE loop.id \in Range_ /\ Len(t) = c + 1 /\ c + 1 <= Numbers(loop.id)
  <2>1. PICK r \in Range_ : r = loop.id
    BY <1>1, <1>2, <1>10 DEF LoopInv
  <2>2. PICK a \in Int : a = r.from
    BY ListsAssumption
  <2>3. PICK b \in Int : b = r.to
    BY ListsAssumption
  <2>4. c <= (IF a <= b THEN b - a ELSE a - b)
    BY <1>1, <1>2, <1>4, <1>10, <2>1, <2>2, <2>3 DEF LoopInv, Numbers
  <2>5. a # b /\ (IF a <= b THEN a + c ELSE a - c) # b
    BY <1>1, <1>4, <1>10, <2>1, <2>2, <2>3 DEF More, Current
  <2>6. c + 1 <= (IF a <= b THEN b - a ELSE a - b)
    BY <2>4, <2>5
  <2> QED BY <1>7, <1>10, <2>1, <2>2, <2>3, <2>6 DEF Numbers
<1>11. loop' # NoLoop
  BY <1>8 DEF Loop, NoLoop
<1>12. LoopInv'
  <2>1. loop.on = "list" => loop.id \in 1..Len(list) /\ Len(t) = Len(list[loop.id].elems)
    BY <1>1, <1>2, <1>3, <1>7 DEF LoopInv
  <2>2. loop.on = "map" => Len(t) = Len(order)
    BY <1>1, <1>2, <1>3, <1>7 DEF LoopInv
  <2> QED BY <1>1, <1>8, <1>9, <1>10, <1>11, <2>1, <2>2 DEF LoopInv
<1> QED BY <1>1, <1>12 DEF ListsInv

LEMMA ExitStep ==
  ASSUME ListsInv, Exit
  PROVE  ListsInv'
<1>1. UNCHANGED <<list, var, order, changes>> /\ loop # NoLoop
  BY DEF Exit
<1>2. LoopInv /\ loop \in Loop
  BY <1>1 DEF ListsInv, LoopInv
<1>3. CASE ~loop.ended /\ ~More /\ loop' = [loop EXCEPT !.ended = TRUE]
  <2>1. /\ loop' \in Loop /\ loop'.on = loop.on /\ loop'.id = loop.id /\ loop'.iter = loop.iter
        /\ loop'.visited = loop.visited /\ loop'.shifted = loop.shifted
    BY <1>2, <1>3 DEF Loop
  <2>2. loop' # NoLoop
    BY <2>1 DEF Loop, NoLoop
  <2>3. ~More'
    BY <1>1, <1>3, <2>1 DEF More, Left
  <2>4. LoopInv'
    BY <1>1, <1>2, <2>1, <2>2, <2>3 DEF LoopInv, Walked
  <2> QED BY <1>1, <2>4 DEF ListsInv
<1>4. CASE loop.ended /\ loop' = NoLoop
  BY <1>1, <1>4 DEF ListsInv, LoopInv
<1> QED BY <1>3, <1>4 DEF Exit




LEMMA ListsInit == LInit => ListsInv
<1> SUFFICES ASSUME LInit PROVE ListsInv
  OBVIOUS
<1>1. PICK n \in 0..Longest : \E x \in Element :
        list = <<[elems |-> [i \in 1..n |-> x], capacity |-> Reserved(0, n)], [elems |-> <<>>, capacity |-> 0]>>
  BY DEF LInit
<1>2. PICK x \in Element :
        list = <<[elems |-> [i \in 1..n |-> x], capacity |-> Reserved(0, n)], [elems |-> <<>>, capacity |-> 0]>>
  BY <1>1
<1>3. n \in Nat
  BY <1>1, ListsAssumption
<1>4. PICK s : s = [i \in 1..n |-> x]
  OBVIOUS
<1>5. s \in Sequence_ /\ Len(s) = n
  BY <1>3, <1>4 DEF Sequence_
<1>6. Roomy(0, 0)
  BY DEF Roomy
<1>7. PICK c : c = Reserved(0, n)
  OBVIOUS
<1>8. Roomy(n, c) /\ c \in Nat
  <2>1. Roomy(n, c)
    BY <1>3, <1>6, <1>7, ReservedIs
  <2> QED BY <2>1 DEF Roomy
<1>9. PICK a : a = [elems |-> s, capacity |-> c]
  OBVIOUS
<1>10. PICK e : e = <<>>
  OBVIOUS
<1>11. PICK b : b = [elems |-> e, capacity |-> 0]
  OBVIOUS
<1>12. a \in Buffer /\ b \in Buffer /\ list = <<a, b>>
  <2>1. e \in Sequence_
    BY <1>10 DEF Sequence_
  <2> QED BY <1>2, <1>4, <1>5, <1>7, <1>8, <1>9, <1>10, <1>11, <2>1 DEF Buffer
<1>13. list \in Seq(Buffer) /\ Len(list) = 2 /\ list[1] = a /\ list[2] = b
  BY <1>12
<1>14. \A l \in 1..Len(list) : Roomy(Len(list[l].elems), list[l].capacity)
  <2>1. Roomy(Len(a.elems), a.capacity)
    BY <1>5, <1>8, <1>9
  <2>2. Roomy(Len(b.elems), b.capacity)
    BY <1>6, <1>10, <1>11
  <2> QED BY <1>13, <2>1, <2>2
<1>15. var \in [Variable -> 1..Len(list)]
  BY <1>13 DEF LInit
<1>16. order \in Seq(Key) /\ IsInjective(order)
  <2>1. PICK m \in 0..Longest : order \in [1..m -> Key] /\ IsInjective(order)
    BY DEF LInit
  <2> QED BY <2>1, ListsAssumption
<1>17. LoopInv /\ changes \in 0..MaxChanges
  BY ListsAssumption DEF LInit, LoopInv
<1> QED BY <1>13, <1>14, <1>15, <1>16, <1>17 DEF ListsInv

LEMMA ListsStep == ListsInv /\ [LNext]_lvars => ListsInv'
<1> SUFFICES ASSUME ListsInv, [LNext]_lvars PROVE ListsInv'
  OBVIOUS
<1>1. CASE UNCHANGED lvars
  BY <1>1 DEF lvars, ListsInv, LoopInv, More, Left
<1>2. CASE Begin
  BY <1>2, BeginStep
<1>3. CASE Visit
  BY <1>3, VisitStep
<1>4. CASE Exit
  BY <1>4, ExitStep
<1>5. CASE Change
  <2>1. Running
    BY <1>5 DEF Change, Running
  <2>2. ASSUME NEW v \in Variable, NEW x \in Element, ListAppend(v, x) PROVE ListsInv'
    BY <2>1, <2>2, ListAppendStep
  <2>3. ASSUME NEW v \in Variable, NEW x \in Element, NEW i \in 0..MaxLength, ListInsert(v, i, x) PROVE ListsInv'
    BY <2>1, <2>3, ListInsertStep
  <2>4. ASSUME NEW v \in Variable, NEW x \in Element, NEW i \in 0..MaxLength, SetSubscript(v, i - 2, x) PROVE ListsInv'
    <3>1. PICK at \in Int : at = i - 2
      OBVIOUS
    <3> QED BY <2>1, <2>4, <3>1, SetSubscriptStep
  <2>5. ASSUME NEW v \in Variable, NEW i \in -1..MaxLength, ListPop(v, i) PROVE ListsInv'
    BY <2>1, <2>5, ListPopStep
  <2>6. ASSUME NEW v \in Variable, NEW i \in -1..MaxLength, ListResize(v, i) PROVE ListsInv'
    BY <2>1, <2>6, ListResizeStep
  <2>7. ASSUME NEW v \in Variable, ListClear(v) PROVE ListsInv'
    BY <2>1, <2>7, ListClearStep
  <2>8. ASSUME NEW v \in Variable, NEW w \in Variable, AddInPlace(v, w) PROVE ListsInv'
    BY <2>1, <2>8, AddInPlaceStep
  <2>9. ASSUME NEW v \in Variable, NEW w \in Variable, Add(v, w) PROVE ListsInv'
    BY <2>1, <2>9, AddStep
  <2>10. ASSUME NEW k \in Key, MapSet(k) PROVE ListsInv'
    BY <2>1, <2>10, MapSetStep
  <2>11. ASSUME NEW k \in Key, MapPop(k) PROVE ListsInv'
    BY <2>1, <2>11, MapPopStep
  <2>12. ASSUME MapClear PROVE ListsInv'
    BY <2>1, <2>12, MapClearStep
  <2> QED BY <1>5, <2>2, <2>3, <2>4, <2>5, <2>6, <2>7, <2>8, <2>9, <2>10, <2>11, <2>12 DEF Change
<1> QED BY <1>1, <1>2, <1>3, <1>4, <1>5 DEF LNext, Iterate

LEMMA ListsFit == ListsInv => BufferFits
<1> SUFFICES ASSUME ListsInv PROVE BufferFits
  OBVIOUS
<1>1. list \in Seq(Buffer) /\ DOMAIN list = 1..Len(list)
  BY DEF ListsInv
<1>2. ASSUME NEW l \in 1..Len(list)
      PROVE  /\ list[l].elems \in Sequence_
             /\ Len(list[l].elems) <= list[l].capacity
             /\ list[l].capacity = 0 \/ (IsPower(list[l].capacity) /\ list[l].capacity >= MinCapacity)
  <2>1. list[l] \in Buffer
    BY ONLY <1>1, <1>2, ElementOfSeq
  <2>2. Roomy(Len(list[l].elems), list[l].capacity)
    BY DEF ListsInv
  <2> QED BY <2>1, <2>2 DEF Buffer, Roomy
<1>3. loop = NoLoop \/ loop.on \in {"list", "map", "range"}
  BY DEF ListsInv, LoopInv, Loop
<1>4. Range(order) \subseteq Key
  BY DEF ListsInv, Range
<1>5. TypeOK
  BY <1>1, <1>2, <1>3, <1>4 DEF TypeOK, ListsInv
<1> QED BY <1>1, <1>2, <1>5 DEF BufferFits

LEMMA ListsSeen == ListsInv => SeenOnce
<1> SUFFICES ASSUME ListsInv, loop # NoLoop, ~loop.shifted
             PROVE  /\ \A i \in DOMAIN loop.visited : loop.visited[i] <= 1 /\ (loop.ended => loop.visited[i] = 1)
                    /\ loop.ended /\ loop.on = "range" =>
                         Len(loop.visited) = IF loop.id.from <= loop.id.to THEN loop.id.to - loop.id.from
                                                                           ELSE loop.id.from - loop.id.to
  BY DEF SeenOnce
<1>1. LoopInv /\ loop \in Loop
  BY DEF ListsInv, LoopInv
<1>2. PICK s \in Seq(Nat) : s = loop.visited
  BY <1>1 DEF Loop
<1>3. PICK c \in Nat : c = loop.iter
  BY <1>1 DEF Loop
<1>4. PICK n \in Nat : n = Len(s)
  BY <1>2
<1>5. c <= n /\ \A j \in 1..n : s[j] = IF j <= c THEN 1 ELSE 0
  BY <1>1, <1>2, <1>3, <1>4 DEF LoopInv, Walked, Upto
<1>6. ASSUME loop.ended PROVE c >= n
  <2>1. ~More
    BY <1>1, <1>6 DEF LoopInv
  <2>2. CASE loop.on = "range"
    BY <1>1, <1>2, <1>3, <1>4, <2>2 DEF LoopInv
  <2>3. CASE loop.on # "range"
    BY <1>1, <1>2, <1>3, <1>4, <2>1, <2>3 DEF LoopInv, More, Left, Loop
  <2> QED BY <2>2, <2>3
<1>7. \A i \in DOMAIN s : s[i] <= 1 /\ (loop.ended => s[i] = 1)
  <2>1. DOMAIN s = 1..n
    BY <1>2, <1>4
  <2> QED BY <1>5, <1>6, <2>1
<1>8. ASSUME loop.ended, loop.on = "range" PROVE n = Numbers(loop.id)
  <2>1. PICK r \in Range_ : r = loop.id
    BY <1>1, <1>8 DEF LoopInv
  <2>2. PICK a \in Int : a = r.from
    BY ListsAssumption
  <2>3. PICK b \in Int : b = r.to
    BY ListsAssumption
  <2>4. c <= (IF a <= b THEN b - a ELSE a - b) /\ n = c
    BY <1>1, <1>2, <1>3, <1>4, <1>8, <2>1, <2>2, <2>3 DEF LoopInv, Numbers
  <2>5. a = b \/ (IF a <= b THEN a + c ELSE a - c) = b
    BY <1>1, <1>3, <1>8, <2>1, <2>2, <2>3 DEF LoopInv, More, Current
  <2>6. n = IF a <= b THEN b - a ELSE a - b
    BY <2>4, <2>5
  <2> QED BY <2>1, <2>2, <2>3, <2>6 DEF Numbers
<1> QED BY <1>2, <1>4, <1>7, <1>8 DEF Numbers

\* However often its elements are put in, taken out and moved, by splices of
\* a list into itself too, no buffer holds more than it was made for
\* (listInsert, listAdd, listRemoveAt, listShrink).
THEOREM BuffersCorrect == LSpec => []BufferFits
<1>1. LInit => ListsInv
  BY ListsInit
<1>2. ListsInv /\ [LNext]_lvars => ListsInv'
  BY ListsStep
<1>3. ListsInv => BufferFits
  BY ListsFit
<1> QED BY <1>1, <1>2, <1>3, PTL DEF LSpec

\* A loop whose body changes only places at or after its cursor visits each
\* place once, and a loop over a range each of its numbers (varIterate).
THEOREM VisitsCorrect == LSpec => []SeenOnce
<1>1. LInit => ListsInv
  BY ListsInit
<1>2. ListsInv /\ [LNext]_lvars => ListsInv'
  BY ListsStep
<1>3. ListsInv => SeenOnce
  BY ListsSeen
<1> QED BY <1>1, <1>2, <1>3, PTL DEF LSpec
=============================================================================
