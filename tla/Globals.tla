------------------------------- MODULE Globals -------------------------------
(***************************************************************************)
(* The globals of modules.  A module keeps the names of its globals as     *)
(* indices of its constants, the values in a parallel array, an index from *)
(* names to places that is rebuilt when it is dirty, and the last lookup:  *)
(* the address of a string and a place.  That address keeps no string      *)
(* alive; a string at the address of one that was freed is the same key.   *)
(*                                                                         *)
(* Bounded: the addresses of strings, one string held by the program, the *)
(* globals of a module.                                                    *)
(***************************************************************************)
EXTENDS Naturals, Sequences, FiniteSets

CONSTANTS
  Module, Main,        \* modules; the one of the script
  Text, Address, Value,
  MaxGlobals,
  Foreign,             \* names are looked up that are not constants of the module
  None

ASSUME MainAssumption == Main \in Module
ASSUME AddressAssumption == Address \subseteq Nat    \* the free list is taken from in order
ASSUME NoneAssumption == None \notin Text

VARIABLES
  text,                \* the text of the string at each address, or None
  interned,            \* the addresses the intern pool knows
  named,               \* strings the program holds
  loaded,              \* the modules there are
  constants, global_names, globals,
  global_indices, global_indices_dirty,
  name_cache, index_cache

strings == <<text, interned, named>>
cache == <<name_cache, index_cache>>
index == <<global_indices, global_indices_dirty>>
arrays == <<global_names, globals>>
vars == <<strings, loaded, constants, arrays, index, cache>>

Elements(s) == {s[i] : i \in DOMAIN s}
Without(s, i) == SubSeq(s, 1, i - 1) \o SubSeq(s, i + 1, Len(s))
Unused == {a \in Address : text[a] = None}
NoIndex == 0
NoNames == [t \in {} |-> NoIndex]

\* Places are counted from 1; no place is 0.
NameAt(m, i) == text[constants[m][global_names[m][i]]]

\* The place a name has, and the place of the first constant that has a text.
FirstOf(S) == IF S = {} THEN NoIndex ELSE CHOOSE i \in S : \A j \in S : i <= j
GlobalIndex(m, t) == FirstOf({i \in DOMAIN global_names[m] : NameAt(m, i) = t})
ConstantIndex(m, t) == FirstOf({i \in DOMAIN constants[m] : text[constants[m][i]] = t})

Within(m, i) == i # NoIndex /\ i <= Len(globals[m])
\* A name that were there twice would be indexed at its last place.
Rebuilt(m) ==
  [t \in {NameAt(m, i) : i \in DOMAIN global_names[m]} |->
     CHOOSE i \in DOMAIN global_names[m] : NameAt(m, i) = t /\ \A j \in DOMAIN global_names[m] : NameAt(m, j) = t => j <= i]
Indexed(m) == IF global_indices_dirty[m] THEN Rebuilt(m) ELSE global_indices[m]
CacheHits(m, s) == ~global_indices_dirty[m] /\ name_cache[m] = s /\ Within(m, index_cache[m])

\* What a lookup answers.
Found(m, s) ==
  IF CacheHits(m, s) THEN index_cache[m]
  ELSE LET i == IF text[s] \in DOMAIN Indexed(m) THEN Indexed(m)[text[s]] ELSE NoIndex
       IN IF Within(m, i) THEN i ELSE NoIndex

\* A lookup that answered, and what it leaves behind.
GlobalIndexByName(m, s) ==
  IF CacheHits(m, s) THEN UNCHANGED <<index, cache>>
  ELSE /\ global_indices' = [global_indices EXCEPT ![m] = Indexed(m)]
       /\ global_indices_dirty' = [global_indices_dirty EXCEPT ![m] = FALSE]
       /\ name_cache' = [name_cache EXCEPT ![m] = s]
       /\ index_cache' = [index_cache EXCEPT ![m] = Found(m, s)]

-----------------------------------------------------------------------------
(* Steps *)

\* A string of the intern pool, or a new one that goes into it.
Interned(t) == {a \in interned : text[a] = t}
InternedString(t, a) ==
  \/ a \in Interned(t) /\ UNCHANGED <<text, interned>>
  \/ /\ Interned(t) = {} /\ a \in Unused /\ \A b \in Unused : a <= b
     /\ text' = [text EXCEPT ![a] = t] /\ interned' = interned \cup {a}

\* The constant of m with a text, or a new one.
AddString(m, t, a) ==
  \/ ConstantIndex(m, t) # NoIndex /\ a = constants[m][ConstantIndex(m, t)] /\ UNCHANGED <<text, interned, constants>>
  \/ ConstantIndex(m, t) = NoIndex /\ InternedString(t, a) /\ constants' = [constants EXCEPT ![m] = Append(@, a)]

Init ==
  /\ text = [a \in Address |-> None] /\ interned = {} /\ named = {} /\ loaded = {Main}
  /\ constants = [m \in Module |-> <<>>]
  /\ global_names = [m \in Module |-> <<>>] /\ globals = [m \in Module |-> <<>>]
  /\ global_indices = [m \in Module |-> NoNames]
  /\ global_indices_dirty = [m \in Module |-> TRUE]
  /\ name_cache = [m \in Module |-> None] /\ index_cache = [m \in Module |-> NoIndex]

\* Code that names a global is compiled; or it does not compile, its
\* constants are cut off again, and a string nothing refers to stays.
Compile(m, t) ==
  /\ m \in loaded
  /\ \E a \in Address :
       AddString(m, t, a) /\ UNCHANGED <<named, loaded, arrays, index, cache>>
CompileError(m, t) ==
  /\ m \in loaded /\ ConstantIndex(m, t) = NoIndex
  /\ \E a \in Address : InternedString(t, a)
  /\ UNCHANGED <<named, loaded, constants, arrays, index, cache>>

\* The program computes a string.
Compute(t) ==
  /\ Unused # {} /\ named = {}
  /\ LET a == FirstOf(Unused) IN text' = [text EXCEPT ![a] = t] /\ named' = named \cup {a}
  /\ UNCHANGED <<interned, loaded, constants, arrays, index, cache>>
Drop(a) == a \in named /\ named' = named \ {a} /\ UNCHANGED <<text, interned, loaded, constants, arrays, index, cache>>

SetGlobal(m, t, v) ==
  /\ m \in loaded
  /\ LET i == GlobalIndex(m, t) IN
     IF i # NoIndex
     THEN /\ globals' = [globals EXCEPT ![m][i] = v]
          /\ name_cache' = [name_cache EXCEPT ![m] = constants[m][global_names[m][i]]]
          /\ index_cache' = [index_cache EXCEPT ![m] = i]
          /\ UNCHANGED <<text, interned, constants, global_names, index>>
     ELSE /\ Len(globals[m]) < MaxGlobals
          /\ \E a \in Address : AddString(m, t, a)
          /\ global_names' = [global_names EXCEPT ![m] =
               Append(@, IF ConstantIndex(m, t) # NoIndex THEN ConstantIndex(m, t) ELSE Len(constants[m]) + 1)]
          /\ globals' = [globals EXCEPT ![m] = Append(@, v)]
          /\ global_indices_dirty' = [global_indices_dirty EXCEPT ![m] = TRUE]
          /\ name_cache' = [name_cache EXCEPT ![m] = None] /\ index_cache' = [index_cache EXCEPT ![m] = NoIndex]
          /\ UNCHANGED global_indices
  /\ UNCHANGED <<named, loaded>>

\* Mutant: the index is kept.
DeleteKeepingIndex(m, t) ==
  /\ m \in loaded /\ GlobalIndex(m, t) # NoIndex
  /\ LET i == GlobalIndex(m, t) IN
     /\ globals' = [globals EXCEPT ![m] = Without(@, i)]
     /\ global_names' = [global_names EXCEPT ![m] = Without(@, i)]
  /\ name_cache' = [name_cache EXCEPT ![m] = None] /\ index_cache' = [index_cache EXCEPT ![m] = NoIndex]
  /\ UNCHANGED <<strings, loaded, constants, index>>

\* Mutant: the names move up, and the values stay.
DeleteNameOnly(m, t) ==
  /\ m \in loaded /\ GlobalIndex(m, t) # NoIndex
  /\ globals' = [globals EXCEPT ![m] = SubSeq(@, 1, Len(@) - 1)]
  /\ global_names' = [global_names EXCEPT ![m] = Without(@, GlobalIndex(m, t))]
  /\ global_indices_dirty' = [global_indices_dirty EXCEPT ![m] = TRUE]
  /\ name_cache' = [name_cache EXCEPT ![m] = None] /\ index_cache' = [index_cache EXCEPT ![m] = NoIndex]
  /\ UNCHANGED <<strings, loaded, constants, global_indices>>

DeleteGlobal(m, t) ==
  /\ m \in loaded /\ GlobalIndex(m, t) # NoIndex
  /\ LET i == GlobalIndex(m, t) IN
     /\ globals' = [globals EXCEPT ![m] = Without(@, i)]
     /\ global_names' = [global_names EXCEPT ![m] = Without(@, i)]
  /\ global_indices_dirty' = [global_indices_dirty EXCEPT ![m] = TRUE]
  /\ name_cache' = [name_cache EXCEPT ![m] = None] /\ index_cache' = [index_cache EXCEPT ![m] = NoIndex]
  /\ UNCHANGED <<strings, loaded, constants, global_indices>>

\* The names looked up in m.
Names(m) == Elements(constants[m]) \cup (IF Foreign THEN named \cup UNION {Elements(constants[n]) : n \in loaded} ELSE {})
Lookup(m, s) ==
  /\ m \in loaded /\ s \in Names(m)
  /\ GlobalIndexByName(m, s)
  /\ UNCHANGED <<strings, loaded, constants, arrays>>

\* eval and load: a module that begins with the globals of m.
Load(m, e) ==
  /\ m \in loaded /\ e \notin loaded /\ loaded' = loaded \cup {e}
  /\ constants' = [constants EXCEPT ![e] = constants[m]]
  /\ global_names' = [global_names EXCEPT ![e] = global_names[m]]
  /\ globals' = [globals EXCEPT ![e] = globals[m]]
  /\ UNCHANGED <<strings, index, cache>>

\* A module nothing refers to any more, and the strings nothing refers to.
Unload(e) ==
  /\ e \in loaded \ {Main} /\ loaded' = loaded \ {e}
  /\ constants' = [constants EXCEPT ![e] = <<>>]
  /\ global_names' = [global_names EXCEPT ![e] = <<>>] /\ globals' = [globals EXCEPT ![e] = <<>>]
  /\ global_indices' = [global_indices EXCEPT ![e] = NoNames]
  /\ global_indices_dirty' = [global_indices_dirty EXCEPT ![e] = TRUE]
  /\ name_cache' = [name_cache EXCEPT ![e] = None] /\ index_cache' = [index_cache EXCEPT ![e] = NoIndex]
  /\ UNCHANGED strings

Collect ==
  LET live == named \cup UNION {Elements(constants[m]) : m \in loaded} IN
  /\ \E a \in Address \ live : text[a] # None
  /\ text' = [a \in Address |-> IF a \in live THEN text[a] ELSE None]
  /\ interned' = interned \cap live
  /\ UNCHANGED <<named, loaded, constants, arrays, index, cache>>

Next ==
  \/ \E m \in Module, t \in Text :
       \/ Compile(m, t) \/ CompileError(m, t) \/ DeleteGlobal(m, t)
       \/ \E v \in Value : SetGlobal(m, t, v)
  \/ \E t \in Text : Compute(t)
  \/ \E a \in Address : Drop(a) \/ \E m \in Module : Lookup(m, a)
  \/ \E m, e \in Module : Load(m, e)
  \/ \E e \in Module : Unload(e)
  \/ Collect

Spec == Init /\ [][Next]_vars

-----------------------------------------------------------------------------
(* Properties *)

\* LookupRight: the answer of moduleGetGlobalIndexByName, from the last lookup,
\* the index or a rebuilt index, is the place moduleGetGlobalIndex finds by
\* going through all names, for every name the program can look up.
LookupRight == \A m \in loaded : \A s \in Names(m) : Found(m, s) = GlobalIndex(m, text[s])

\* Implements: whatever the arrays, the constants and the index are, a program
\* sees one value for each name it has defined and not deleted, and a module
\* that eval or load makes begins with those of the module it is made from.
Env == [m \in Module |-> [t \in {NameAt(m, i) : i \in DOMAIN globals[m]} |-> globals[m][GlobalIndex(m, t)]]]
Seen == INSTANCE Scope WITH env <- Env
Implements == Seen!Spec
=============================================================================
