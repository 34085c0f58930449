------------------------------- MODULE Natives -------------------------------
(***************************************************************************)
(* C code on the collected heap.  A native is the sequence of its steps    *)
(* that allocate, store, or touch the temporary references; its local      *)
(* variables are not seen by the collector.  Every step that grows memory  *)
(* may collect first.  Interned strings are found again through a pool     *)
(* that does not keep them alive.                                          *)
(*                                                                         *)
(* Bounded: the objects, the slots of the program, the calls it makes, and *)
(* the collections that begin.                                             *)
(***************************************************************************)
EXTENDS Heap, Sequences, FiniteSets

CONSTANTS
  Slot,          \* the places of the program the collector marks: stack, handles
  Native,        \* the natives called, a function from names to sequences of steps
  Argument,      \* the kinds of the slots each native gets as arguments
  Hash,          \* the hash of each text
  InitialCapacity, LoadPercent, MaxCalls, MaxCollections,
  None, Freed    \* no object; a local variable whose object was freed

VARIABLES
  first,           \* the list of all objects, newest first
  kind, text,      \* what each object is; the text of a string
  held,            \* pointers kept in an object that marking does not follow
  slots, env,      \* the program's values; the native's local variables
  code,            \* the steps left of the native that runs
  made,            \* how many calls were made
  collections,     \* how many collections began
  checked,         \* this step has seen to the collection it may cause
  temp_reference, pool

locals == <<kind, text, held, env>>
calls == <<code, made, slots, temp_reference>>
nvars == <<vars, first, locals, calls, collections, checked, pool>>

Elements(s) == {s[i] : i \in DOMAIN s}
NoObject == {None, Freed}

\* Mutant: a collection starts from the places of the program alone.
RootsOfPlaces(temps, places) == {places[s] : s \in DOMAIN places} \ {None}

Roots(temps, places) == Elements(temps) \cup ({places[s] : s \in DOMAIN places} \ {None})

-----------------------------------------------------------------------------
(* The intern pool: an open hash table with linear probing *)

Capacity(p) == Cardinality(DOMAIN p)
Entries(p) == {p[i] : i \in DOMAIN p} \ {None}
Empty(n) == [i \in 0..(n - 1) |-> None]
Distance(p, h, i) == (i + Capacity(p) - (h % Capacity(p))) % Capacity(p)

\* The entry probing meets first, from the hash on, among those of S.
Nearest(p, h, S) == CHOOSE i \in S : \A j \in S : Distance(p, h, i) <= Distance(p, h, j)
Free(p) == {i \in DOMAIN p : p[i] = None}

FindInterned(p, t) ==
  LET same == {i \in DOMAIN p : p[i] # None /\ text[p[i]] = t}
      scanned == {i \in same : Distance(p, Hash[t], i) < Cardinality(Entries(p))
                               /\ \A j \in Free(p) : Distance(p, Hash[t], i) < Distance(p, Hash[t], j)}
  IN IF scanned = {} THEN None ELSE p[Nearest(p, Hash[t], scanned)]

Insert(p, o, t) == [p EXCEPT ![Nearest(p, Hash[t], Free(p))] = o]

\* The entries of S, in the order of the table, put into a new one.
Rebuilt(p, n, S) ==
  LET put[i \in 0..Capacity(p)] ==
        IF i = 0 THEN Empty(n)
        ELSE IF p[i - 1] \in S THEN Insert(put[i - 1], p[i - 1], text[p[i - 1]]) ELSE put[i - 1]
  IN put[Capacity(p)]

Overfull(count, n) == count * 100 > n * LoadPercent
Doubled[k \in Nat] == IF k = 0 THEN InitialCapacity ELSE 2 * Doubled[k - 1]
TargetCapacity(count) ==
  CHOOSE n \in {Doubled[k] : k \in 0..count} :
    /\ ~Overfull(count, n)
    /\ n = InitialCapacity \/ Overfull(count, n \div 2)

\* Mutant: places are emptied, and the other strings stay where they are.
SweepStringPoolInPlace(p, live) == [i \in DOMAIN p |-> IF p[i] \in live THEN p[i] ELSE None]

SweepStringPool(p, live) ==
  IF Entries(p) \subseteq live THEN p
  ELSE Rebuilt(p, TargetCapacity(Cardinality(Entries(p) \cap live)), live)

InternString(p, o, t) ==
  LET grown == IF Overfull(Cardinality(Entries(p)) + 1, Capacity(p))
               THEN Rebuilt(p, 2 * Capacity(p), Entries(p)) ELSE p
  IN IF FindInterned(grown, t) # None THEN grown ELSE Insert(grown, o, t)

-----------------------------------------------------------------------------
(* The steps of a native *)

New(x, k, to) == [do |-> "new", x |-> x, kind |-> k, to |-> to]
Grow(x) == [do |-> "grow", x |-> x]
Put(x, y) == [do |-> "put", x |-> x, y |-> y]
Hold(x, y) == [do |-> "hold", x |-> x, y |-> y]
Push(x) == [do |-> "push", x |-> x]
Pop == [do |-> "pop"]
Intern(x, t) == [do |-> "intern", x |-> x, text |-> t]
Constant(x, y, t, n) == [do |-> "constant", x |-> x, y |-> y, text |-> t, skip |-> n]
Return(x) == [do |-> "return", x |-> x]

Steps ==
  [do : {"new"}, x : STRING, kind : STRING, to : SUBSET STRING]
  \cup [do : {"grow", "push", "return"}, x : STRING] \cup [do : {"pop"}]
  \cup [do : {"put", "hold"}, x : STRING, y : STRING]
  \cup [do : {"intern"}, x : STRING, text : DOMAIN Hash]
  \cup [do : {"constant"}, x : STRING, y : STRING, text : DOMAIN Hash, skip : Nat]

\* Any program of steps; a pool that has room for an entry when it is new.
ASSUME NativesAssumption ==
  /\ Object \subseteq Nat /\ IsFiniteSet(Object) /\ None \notin Object /\ Freed \notin Object
  /\ Native \in [DOMAIN Native -> Seq(Steps)]
  /\ Hash \in [DOMAIN Hash -> Nat]
  /\ InitialCapacity \in Nat \ {0} /\ LoadPercent \in 1..99 /\ InitialCapacity * LoadPercent >= 100

AddConstant(m, v) == <<Grow(m), Put(m, v)>>
AddString(m, t) ==
  <<Constant(m, "str", t, 5), Intern("str", t), Push("str"), Grow(m), Put(m, "str"), Pop>>
SetGlobal(m, t, v) == <<Push(v)>> \o AddString(m, t) \o <<Grow(m), Grow(m), Put(m, v), Pop>>

NewList(l) == <<New(l, "list", {}), Push(l), Grow(l), Pop>>
NewModule(m) == <<New(m, "module", {}), Push(m), New("map", "map", {}), Put(m, "map"), Pop>>
NewFunction(f, m, t) ==
  <<New(f, "func", {m}), Push(f)>> \o AddConstant(m, f) \o AddString(m, t) \o <<Hold(f, "str"), Grow(f), Pop>>
NewClosure(c, f) == <<New(c, "closure", {f})>>
NewFiber(b, c) == <<New(b, "fiber", {c}), Push(b), Grow(b), Grow(b), Pop>>
NewMethodBind(b, c) == <<New(b, "bind", {c})>>
NewInstance(i, c) == <<New(i, "inst", {c}), Push(i), Pop>>
NewClass(c, m, t) ==
  <<New(c, "class", {}), Push(c), New("map", "map", {}), Put(c, "map"), New("map", "map", {}), Put(c, "map")>>
  \o AddString(m, t) \o <<Put(c, "str")>> \o AddConstant(m, c) \o SetGlobal(m, t, c) \o <<Pop>>
AddMain(m) ==
  NewFunction("fn", m, "@main") \o <<Push("fn")>> \o NewClosure("body", "fn") \o <<Put(m, "body"), Pop>>
  \o SetGlobal(m, "@main", "body")
InitializeModule(m, path, name) ==
  SetGlobal(m, "__file__", path) \o SetGlobal(m, "_name", name) \o SetGlobal(m, "_module", m)

\* A script that is imported, up to its registration.
ImportScript ==
  <<New("path", "string", {}), Push("path"), New("name", "string", {}), Push("name")>>
  \o NewModule("module") \o <<Put("module", "path"), Put("module", "name"), Push("module")>>
  \o InitializeModule("module", "path", "name") \o AddMain("module") \o <<Return("module"), Pop, Pop, Pop>>

\* A module made by the host: its name is given up before its globals are set.
HostModule ==
  <<New("name", "string", {}), Push("name")>> \o NewModule("module") \o <<Put("module", "name"), Pop>>
  \o SetGlobal("module", "_name", "name") \o SetGlobal("module", "_module", "module")
  \o <<Push("module"), Grow("module"), Return("module"), Pop>>

AddFunction(t) ==
  NewFunction("fn", "module", t) \o <<Push("fn")>> \o NewClosure("body", "fn") \o SetGlobal("module", t, "body") \o <<Return("body"), Pop>>
DefineClass(t) ==
  NewClass("class", "module", t) \o <<Push("class"), Grow("class"), Return("class"), Pop>>
\* CREATE_CLASS: the superclass is kept in the class, and not marked with it.
Inherit == <<Hold("class", "super")>>
Instantiate == NewInstance("inst", "class") \o <<Return("inst")>>
NewBoundMethod ==
  <<Push("inst")>> \o NewMethodBind("bind", "closure") \o <<Push("bind"), Put("bind", "inst"), Pop, Pop, Return("bind")>>
Spawn == NewFiber("fiber", "closure") \o <<Return("fiber")>>
\* One turn of the loops of split, gmatch and Class.methods.
Collected(x, k, to) ==
  NewList("list") \o <<Push("list"), New(x, k, to), Push(x), Grow("list"), Put("list", x), Pop, Pop, Return("list")>>
StringSplit == Collected("ch", "string", {})
ClassMethods == Collected("mb", "bind", {"closure"})

-----------------------------------------------------------------------------
(* The program *)

Step == Head(code)
Operands(step) ==
  (IF step.do = "new" THEN step.to ELSE IF step.do \in {"pop", "intern"} THEN {} ELSE {step.x})
  \cup (IF step.do \in {"put", "hold"} THEN {step.y} ELSE {})
Known(x) == x \in DOMAIN env
Operable == \A x \in Operands(Step) : Known(x) /\ env[x] \notin NoObject

\* The step asks for memory.
Grows == \/ Step.do \in {"new", "grow"}
         \/ Step.do = "intern" /\ FindInterned(pool, Step.text) = None

Bind(x, o) == env' = [y \in DOMAIN env \cup {x} |-> IF y = x THEN o ELSE env[y]]
Fresh == CHOOSE o \in Object \ allocated : \A p \in Object \ allocated : o <= p
Continue == code' = Tail(code) /\ checked' = FALSE
\* The local variables are gone when the native returns.
Leave == env' = IF code' = <<>> THEN [x \in {} |-> None] ELSE env

\* Mutant: a new object goes to the end of the list.
MakeLast(x, k, to, t) ==
  /\ Bind(x, Fresh)
  /\ allocated' = allocated \cup {Fresh} /\ first' = first \o <<Fresh>>
  /\ refs' = [refs EXCEPT ![Fresh] = {env[y] : y \in to}]
  /\ kind' = [kind EXCEPT ![Fresh] = k] /\ text' = [text EXCEPT ![Fresh] = t]
  /\ held' = [held EXCEPT ![Fresh] = {}]

\* varInitObject puts a new object at the head of the list.
Make(x, k, to, t) ==
  /\ Bind(x, Fresh)
  /\ allocated' = allocated \cup {Fresh} /\ first' = <<Fresh>> \o first
  /\ refs' = [refs EXCEPT ![Fresh] = {env[y] : y \in to}]
  /\ kind' = [kind EXCEPT ![Fresh] = k] /\ text' = [text EXCEPT ![Fresh] = t]
  /\ held' = [held EXCEPT ![Fresh] = {}]

NInit ==
  /\ Init
  /\ first = <<>> /\ kind = [o \in Object |-> None] /\ text = [o \in Object |-> None]
  /\ held = [o \in Object |-> {}] /\ slots = [s \in Slot |-> None] /\ env = [x \in {} |-> None]
  /\ code = <<>> /\ made = 0 /\ collections = 0 /\ checked = FALSE
  /\ temp_reference = <<>> /\ pool = Empty(InitialCapacity)

Idle == code = <<>> /\ phase = "run"
Makes(steps) == Cardinality({i \in DOMAIN steps : steps[i].do \in {"new", "intern"}})

\* A native is called with values of the program, if the bound on objects
\* leaves room for what it makes.
Call(n, args) ==
  /\ Idle
  /\ \A x \in DOMAIN args : slots[args[x]] # None /\ kind[slots[args[x]]] = Argument[n][x]
  /\ Makes(Native[n]) <= Cardinality(Object \ allocated)
  /\ made < MaxCalls /\ made' = made + 1
  /\ code' = Native[n]
  /\ env' = [x \in DOMAIN args |-> slots[args[x]]]
  /\ UNCHANGED <<vars, first, kind, text, held, slots, collections, checked, temp_reference, pool>>

\* The program forgets a value; the host releases a handle.
Forget(s) ==
  /\ Idle /\ slots[s] # None
  /\ slots' = [slots EXCEPT ![s] = None]
  /\ roots' = Roots(temp_reference, slots')
  /\ UNCHANGED <<allocated, refs, phase, marked, working_set, unswept, first, locals, code, made, collections, temp_reference, checked, pool>>

Running == code # <<>> /\ phase = "run" /\ (Grows => checked) /\ Operable
Same == UNCHANGED <<phase, marked, working_set, unswept, made, collections>>
SameHeap == UNCHANGED <<allocated, first, refs, kind, text, held>>
SameRoots == UNCHANGED <<roots, slots, temp_reference>>

ExecNew ==
  /\ Running /\ Step.do = "new"
  /\ Make(Step.x, Step.kind, Step.to, None) /\ Continue
  /\ SameRoots /\ Same /\ UNCHANGED pool

\* The pool is asked again when the string is there: the collection its
\* memory caused may have changed it.
ExecIntern ==
  /\ Running /\ Step.do = "intern" /\ Continue
  /\ LET o == FindInterned(pool, Step.text) IN
     IF o # None
     THEN Bind(Step.x, o) /\ UNCHANGED <<allocated, first, refs, kind, text, held, pool>>
     ELSE Make(Step.x, "string", {}, Step.text) /\ pool' = InternString(pool, Fresh, Step.text)
  /\ SameRoots /\ Same

\* moduleAddString finds a constant with the text, and is done.
ExecConstant ==
  /\ Running /\ Step.do = "constant"
  /\ LET found == {o \in refs[env[Step.x]] : kind[o] = "string" /\ text[o] = Step.text} IN
     IF found # {}
     THEN /\ Bind(Step.y, CHOOSE o \in found : TRUE)
          /\ code' = SubSeq(code, Step.skip + 2, Len(code)) /\ checked' = FALSE
     ELSE Continue /\ UNCHANGED env
  /\ SameRoots /\ Same /\ UNCHANGED <<allocated, first, refs, kind, text, held, pool>>

ExecStore ==
  /\ Running /\ Step.do \in {"grow", "put", "hold"} /\ Continue
  /\ refs' = IF Step.do = "put" THEN [refs EXCEPT ![env[Step.x]] = @ \cup {env[Step.y]}] ELSE refs
  /\ held' = IF Step.do = "hold" THEN [held EXCEPT ![env[Step.x]] = @ \cup {env[Step.y]}] ELSE held
  /\ SameRoots /\ Same /\ Leave /\ UNCHANGED <<allocated, first, kind, text, pool>>

ExecTemp ==
  /\ Running /\ Step.do \in {"push", "pop"} /\ Continue
  /\ temp_reference' = IF Step.do = "push" THEN Append(temp_reference, env[Step.x])
                       ELSE SubSeq(temp_reference, 1, Len(temp_reference) - 1)
  /\ roots' = Roots(temp_reference', slots)
  /\ SameHeap /\ Same /\ Leave /\ UNCHANGED <<slots, pool>>

ExecReturn(s) ==
  /\ Running /\ Step.do = "return" /\ Continue
  /\ slots' = [slots EXCEPT ![s] = env[Step.x]]
  /\ roots' = Roots(temp_reference, slots')
  /\ SameHeap /\ Same /\ Leave /\ UNCHANGED <<temp_reference, pool>>

-----------------------------------------------------------------------------
(* The collector *)

Begin == Collect /\ collections < MaxCollections /\ collections' = collections + 1

\* vmRealloc: memory grows past the limit, or not.
VmRealloc ==
  /\ phase = "run" /\ code # <<>> /\ Grows /\ ~checked /\ Operable
  /\ checked' = TRUE
  /\ \/ Begin
     \/ UNCHANGED <<vars, collections>>
  /\ UNCHANGED <<first, locals, calls, pool>>

\* lang.gc()
LangGC == Idle /\ allocated # {} /\ Begin /\ UNCHANGED <<first, locals, calls, checked, pool>>

\* Mutant: what the popped object refers to is not visited.
PopMarkedShallow ==
  /\ phase = "mark" /\ working_set # {}
  /\ working_set' = working_set \ {CHOOSE o \in working_set : \A p \in working_set : o <= p}
  /\ UNCHANGED <<allocated, refs, roots, phase, marked, unswept, first, locals, calls, collections, checked, pool>>

\* The working set is a stack; its order decides nothing.
PopMarked ==
  /\ working_set # {} /\ Visit(CHOOSE o \in working_set : \A p \in working_set : o <= p)
  /\ UNCHANGED <<first, locals, calls, collections, checked, pool>>

SweepPool ==
  /\ Sweep
  /\ pool' = SweepStringPool(pool, marked)
  /\ UNCHANGED <<first, locals, calls, collections, checked>>

\* The walk goes along the list; an object is freed by leaving it out there.
NextPlace == CHOOSE i \in DOMAIN first : first[i] \in unswept /\ \A j \in 1..(i - 1) : first[j] \notin unswept
NextOnList == first[NextPlace]
Unlinked(s, i) == SubSeq(s, 1, i - 1) \o SubSeq(s, i + 1, Len(s))

FreeObject ==
  /\ unswept # {} /\ Meet(NextOnList)
  /\ IF NextOnList \in marked THEN UNCHANGED <<first, locals>>
     ELSE /\ first' = Unlinked(first, NextPlace)
          /\ kind' = [kind EXCEPT ![NextOnList] = None] /\ text' = [text EXCEPT ![NextOnList] = None]
          /\ held' = [held EXCEPT ![NextOnList] = {}]
          /\ env' = [x \in DOMAIN env |-> IF env[x] = NextOnList THEN Freed ELSE env[x]]
  /\ UNCHANGED <<calls, collections, checked, pool>>

CollectEnd == Resume /\ UNCHANGED <<first, locals, calls, collections, checked, pool>>

CollectorStep == PopMarked \/ SweepPool \/ FreeObject \/ CollectEnd
NativeStep == VmRealloc \/ ExecNew \/ ExecIntern \/ ExecConstant \/ ExecStore \/ ExecTemp \/ \E s \in Slot : ExecReturn(s)
Program ==
  \/ \E n \in DOMAIN Native : \E args \in [DOMAIN Argument[n] -> Slot] : Call(n, args)
  \/ \E s \in Slot : Forget(s)
  \/ LangGC

NNext == Program \/ NativeStep \/ CollectorStep
NSpec == NInit /\ [][NNext]_nvars

-----------------------------------------------------------------------------
(* Properties *)

\* HeldAllocated: a pointer that marking does not follow, such as the name of
\* a function into the text of a string, leads to an allocated object for as
\* long as the object that keeps it is kept.
HeldAllocated ==
  \A o \in Kept : held[o] \subseteq allocated

\* UsesAllocated: C code never goes on with an object that a collection
\* under it has freed, and every call leaves the stack of temporary
\* references as it found it: newFunction, moduleSetGlobal, newClass and the
\* natives that build lists hold what they use, and nothing longer.
UsesAllocated ==
  /\ code # <<>> => \A x \in Operands(Step) : Known(x) => env[x] # Freed
  /\ Idle => temp_reference = <<>>
  /\ HeldAllocated

\* What is known of the local variables before a step: live are those whose
\* objects no collection has freed, stack has for each temporary reference
\* those that are it, args those that are still in a slot, and edges the pairs
\* of which the first refers to the second.
Config ==
  [code : Seq(Steps), live : SUBSET STRING, stack : Seq(SUBSET STRING), args : SUBSET STRING,
   edges : SUBSET (STRING \X STRING)]
Start(steps, names) == [code |-> steps, live |-> names, stack |-> <<>>, args |-> names, edges |-> {}]

Anchored(c) == c.live \cap (c.args \cup UNION Elements(c.stack))
Survivors(c) == [c EXCEPT !.live = Anchored(c), !.edges = {e \in @ : e[1] \in Anchored(c) /\ e[2] \in Anchored(c)}]
Rebound(c, x) ==
  [c EXCEPT !.live = @ \cup {x}, !.stack = [i \in DOMAIN @ |-> @[i] \ {x}], !.args = @ \ {x},
            !.edges = {e \in @ : e[1] # x /\ e[2] # x}]
Linked(c, E) == [c EXCEPT !.edges = @ \cup E]

\* A step that may collect operates on what is anchored, every other on what
\* is live; a pointer that marking does not follow leads where marking comes
\* by another way; what is pushed is popped.
Disciplined(c) ==
  IF c.code = <<>> THEN c.stack = <<>>
  ELSE LET step == Head(c.code) IN
       /\ Operands(step) \subseteq (IF step.do \in {"new", "grow"} THEN Anchored(c) ELSE c.live)
       /\ step.do = "hold" => \E z \in c.live : <<step.x, z>> \in c.edges /\ <<z, step.y>> \in c.edges

Effects(c, step) ==
  CASE step.do = "new" -> {Linked(Rebound(Survivors(c), step.x), {<<step.x, y>> : y \in step.to \ {step.x}})}
    [] step.do = "intern" -> {Rebound(Survivors(c), step.x)}
    [] step.do = "grow" -> {Survivors(c)}
    [] step.do = "put" -> {Linked(c, {<<step.x, step.y>>})}
    [] step.do = "push" -> {[c EXCEPT !.stack = Append(@, {step.x})]}
    [] step.do = "pop" -> {[c EXCEPT !.stack = SubSeq(@, 1, Len(@) - 1)]}
    [] step.do = "return" -> {[c EXCEPT !.args = {}]}
    [] OTHER -> {c}

Followers(c) ==
  LET step == Head(c.code) IN
  {[d EXCEPT !.code = Tail(c.code)] : d \in Effects(c, step)}
  \cup IF step.do # "constant" THEN {}
       ELSE {[Linked(Rebound(c, step.y), {<<step.x, step.y>>} \ {<<step.y, step.y>>})
              EXCEPT !.code = SubSeq(c.code, step.skip + 2, Len(c.code))]}

\* W shows that the natives hold what they use: it has every configuration
\* they come to.
Discipline(W) ==
  /\ W \subseteq Config
  /\ \A n \in DOMAIN Native : Start(Native[n], DOMAIN Argument[n]) \in W
  /\ \A c \in W : Disciplined(c) /\ (c.code # <<>> => Followers(c) \subseteq W)

\* PoolExact: the pool holds no freed string, no two of the same text, and
\* probing finds each of them, across inserts, growth and the sweeps.
PoolExact ==
  phase # "sweep" \/ unswept = {} =>
    /\ Entries(pool) \subseteq allocated
    /\ \A o \in Entries(pool) : FindInterned(pool, text[o]) = o
    /\ Cardinality({i \in DOMAIN pool : pool[i] # None}) = Cardinality({text[o] : o \in Entries(pool)})
    /\ ~Overfull(Cardinality(Entries(pool)), Capacity(pool))

\* The steps of natives that store into the objects of the names of P alone,
\* and give these names, which no constant or interned string gets, to objects
\* whose freeing reads no other.
Owning == {"closure", "inst"}
Orderly(P) ==
  {step \in Steps :
     /\ step.do = "put" => step.x \in P
     /\ step.do = "new" /\ step.x \in P => step.kind \notin Owning
     /\ step.do = "intern" => step.x \notin P
     /\ step.do = "constant" => step.y \notin P}

\* No native stores into a closure or an instance: what it refers to is
\* older than it.
PutsApart(P) ==
  \A n \in DOMAIN Native :
    /\ Native[n] \in Seq(Orderly(P))
    /\ \A x \in DOMAIN Argument[n] \cap P : Argument[n][x] \notin Owning

\* FreedInOrder: what freeing an object reads, the function of a closure and
\* the class of an instance, is not freed before it: the list is newest first.
FreedInOrder ==
  [][\A p \in allocated \ allocated', o \in allocated' :
       p \in refs[o] => <<kind[o], kind[p]>> \notin {<<"closure", "func">>, <<"inst", "class">>}]_nvars
=============================================================================
