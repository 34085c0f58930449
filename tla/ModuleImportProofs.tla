------------------------- MODULE ModuleImportProofs -------------------------
(***************************************************************************)
(* Imports, for any files and search paths.  Bodies of modules: each is    *)
(* entered at most once, cycles of imports end, what an import uses        *)
(* without running it is over or importing, and a wildcard statement       *)
(* leaves no module out.  Resolution: the search and its cache agree with  *)
(* the resolver.                                                           *)
(***************************************************************************)
EXTENDS ModuleImport, FiniteSetTheorems, FunctionTheorems, SequenceTheorems,
        WellFoundedInduction, TLAPS

USE ImportAssumption DEF top

-----------------------------------------------------------------------------
(* The inductive invariant *)

\* The types of what bodies depend on.
BodyTypes ==
  /\ loaded \in [File -> 0..MaxLoads]
  /\ initialized \subseteq Object
  /\ frames \in Seq(Frame)
  /\ walk \in Walk
  /\ starts \in [Object -> Nat]

\* The modules in use on the frames are the registered ones.
Current == \A m \in Modules \cup walk.found : m[2] = loaded[m[1]]

\* A module was entered once if it is marked, else never.
Marked ==
  \A m \in Object :
    /\ starts[m] = IF m \in initialized THEN 1 ELSE 0
    /\ m \in initialized => m[2] <= loaded[m[1]]

\* Only a fiber at work walks a directory.
Idle == frames = <<>> => walk = NoWalk

\* BodyOnce rests on the marks, CyclesEnd and ReadyToUse on what is registered.
BodyInv == BodyTypes /\ Current /\ Marked /\ Idle /\ CyclesEnd /\ ReadyToUse

\* What follows depends on the frames only through their modules.
Same(s, t) == Len(s) = Len(t) /\ \A i \in 1..Len(s) : s[i].module = t[i].module

-----------------------------------------------------------------------------
(* Lemmas *)

LEMMA ObtainEffect ==
  ASSUME BodyTypes, NEW n, NEW m \in Object, Obtain(n, m)
  PROVE  /\ loaded' \in [File -> 0..MaxLoads]
         /\ m[2] = loaded'[m[1]]
         /\ \A f \in File : loaded'[f] = loaded[f] \/ loaded[f] = 0
  <1> DEFINE f == Search(n).file
  <1>1. /\ loaded' = IF loaded[f] > 0 THEN loaded ELSE [loaded EXCEPT ![f] = 1]
        /\ m = <<f, loaded'[f]>>
    BY DEF Obtain
  <1> HIDE DEF f
  <1>2. f \in File
    BY <1>1 DEF Object
  <1> QED
    BY <1>1, <1>2 DEF BodyTypes

LEMMA ModulesAreObjects == ASSUME BodyTypes PROVE Modules \subseteq Object
  <1>1. \A i \in 1..Len(frames) : frames[i] \in Frame
    BY DEF BodyTypes
  <1>2. \A i \in 1..Len(frames) : frames[i].module \in Object \cup {Chunk}
    BY <1>1 DEF Frame
  <1> QED
    BY <1>2 DEF Modules

\* Current survives when a first module of some files is registered.
LEMMA CurrentKept ==
  ASSUME BodyTypes, Current, NEW S \in SUBSET Object,
         \A m \in S : m[2] = loaded[m[1]],
         \A f \in File : loaded'[f] = loaded[f] \/ loaded[f] = 0
  PROVE  \A m \in S : m[2] = loaded'[m[1]]
  <1> SUFFICES ASSUME NEW m \in S PROVE m[2] = loaded'[m[1]]
    OBVIOUS
  <1>1. m[1] \in File /\ m[2] # 0 /\ m[2] = loaded[m[1]]
    BY DEF Object
  <1> QED
    BY <1>1

\* A change of the top frame that keeps its module.
LEMMA TopChanged ==
  ASSUME BodyTypes, frames # <<>>, NEW fr \in Frame,
         fr.module = frames[Len(frames)].module,
         NEW t, t = [frames EXCEPT ![Len(frames)] = fr]
  PROVE  t \in Seq(Frame) /\ Same(frames, t)
  <1>1. /\ Len(frames) \in Nat /\ Len(frames) >= 1
        /\ frames \in [1..Len(frames) -> Frame]
    BY DEF BodyTypes
  <1>2. Len(frames) \in 1..Len(frames) /\ frames \in Seq(Frame)
    BY <1>1 DEF BodyTypes
  <1>3. t \in Seq(Frame) /\ Len(t) = Len(frames)
    BY <1>2, ExceptSeq
  <1> QED
    BY <1>1, <1>3 DEF Same

LEMMA SameFrames ==
  ASSUME BodyTypes, frames' \in Seq(Frame), Same(frames, frames')
  PROVE  Modules' = Modules /\ (CyclesEnd => CyclesEnd')
  <1>1. /\ Len(frames') = Len(frames) /\ Len(frames) \in Nat
        /\ \A i \in 1..Len(frames) : frames'[i].module = frames[i].module
    BY DEF Same, BodyTypes
  <1>2. \A i \in 1..Len(frames) : FileOf(i)' = FileOf(i)
    BY <1>1 DEF FileOf
  <1>3. CyclesEnd => CyclesEnd'
    BY <1>1, <1>2 DEF CyclesEnd
  <1>4. Modules' = Modules
    <2>1. {frames'[i].module : i \in 1..Len(frames')} = {frames[i].module : i \in 1..Len(frames)}
      BY <1>1
    <2> QED
      BY <2>1 DEF Modules
  <1> QED
    BY <1>3, <1>4

\* What a frame for m on top of frames like the present ones does.
LEMMA FrameAdded ==
  ASSUME BodyTypes, NEW t \in Seq(Frame), Same(frames, t), NEW m \in Object,
         frames' = Append(t, New(m))
  PROVE  /\ frames' \in Seq(Frame)
         /\ Modules' = Modules \cup {m}
         /\ CyclesEnd /\ (\A i \in 1..Len(frames) : FileOf(i) # m[1]) => CyclesEnd'
  <1>1. New(m) \in Frame /\ New(m).module = m /\ m # Chunk /\ m[1] # Root
    BY DEF New, Frame, Object
  <1>2. /\ frames' \in Seq(Frame)
        /\ Len(frames') = Len(frames) + 1 /\ Len(frames) \in Nat
        /\ \A i \in 1..Len(frames) : frames'[i].module = frames[i].module
        /\ frames'[Len(frames) + 1].module = m
    BY <1>1 DEF Same, BodyTypes
  <1>3. Modules' = Modules \cup {m}
    <2>1. {frames'[i].module : i \in 1..Len(frames')}
            = {frames[i].module : i \in 1..Len(frames)} \cup {m}
      BY <1>2
    <2> QED
      BY <1>1, <2>1 DEF Modules
  <1>4. /\ \A i \in 1..Len(frames) : FileOf(i)' = FileOf(i)
        /\ \A k : k = Len(frames) + 1 => FileOf(k)' = m[1]
    <2>1. \A i \in 1..Len(frames) :
            frames'[i].module = Chunk <=> frames[i].module = Chunk
      BY <1>2
    <2> QED
      BY <1>1, <1>2, <2>1 DEF FileOf
  <1>5. ASSUME CyclesEnd, \A i \in 1..Len(frames) : FileOf(i) # m[1] PROVE CyclesEnd'
    <2>1. ASSUME NEW i \in 1..Len(frames'), NEW j \in 1..Len(frames'), i < j,
                 FileOf(i)' = FileOf(j)'
          PROVE  FALSE
      <3> DEFINE n == Len(frames)
      <3>0. n \in Nat /\ i \in 1..(n + 1) /\ j \in 1..(n + 1) /\ i < j
        BY <1>2, <2>1
      <3> HIDE DEF n
      <3>1. i \in 1..n /\ (j \in 1..n \/ j = n + 1)
        BY <3>0
      <3> QED
        BY <1>4, <1>5, <2>1, <3>1 DEF CyclesEnd, n
    <2>2. Len(frames') \in Nat
      BY <1>2
    <2> QED
      BY <2>1, <2>2 DEF CyclesEnd
  <1> QED
    BY <1>2, <1>3, <1>5

\* A registered module that is not marked is of a file with no frame.
LEMMA FileIsNew ==
  ASSUME BodyTypes, Current, ReadyToUse, NEW m \in Object, m \notin initialized,
         m[2] = loaded[m[1]] \/ loaded[m[1]] = 0
  PROVE  \A i \in 1..Len(frames) : FileOf(i) # m[1]
  <1> SUFFICES ASSUME NEW i \in 1..Len(frames), FileOf(i) = m[1] PROVE FALSE
    OBVIOUS
  <1>1. m[1] # Root /\ frames[i].module # Chunk
    BY DEF Object, FileOf
  <1>2. frames[i].module \in Modules
    BY <1>1 DEF Modules
  <1> DEFINE o == frames[i].module
  <1>3. o \in Object /\ o[1] = m[1] /\ o[2] = loaded[m[1]]
    BY <1>1, <1>2, ModulesAreObjects DEF FileOf, Current
  <1>4. o[2] # 0
    BY <1>3 DEF Object
  <1>5. o = m
    BY <1>3, <1>4 DEF Object
  <1>6. m \in initialized
    BY <1>2, <1>5 DEF ReadyToUse
  <1> QED
    BY <1>6

\* A body is entered: its module was registered but not marked.
LEMMA Entered ==
  ASSUME BodyInv, NEW m \in Object, m \notin initialized, NEW t \in Seq(Frame),
         Same(frames, t), frames' = Append(t, New(m)),
         loaded' \in [File -> 0..MaxLoads], m[2] = loaded'[m[1]],
         \A f \in File : loaded'[f] = loaded[f] \/ loaded[f] = 0,
         initialized' = initialized \cup {m},
         starts' = [starts EXCEPT ![m] = @ + 1],
         ended' = ended,
         walk' \in Walk, walk'.found \subseteq walk.found
  PROVE  BodyInv'
  <1> USE DEF BodyInv
  <1>1. /\ frames' \in Seq(Frame)
        /\ Modules' = Modules \cup {m}
        /\ CyclesEnd /\ (\A i \in 1..Len(frames) : FileOf(i) # m[1]) => CyclesEnd'
    BY FrameAdded
  <1>2. m[1] \in File /\ m[2] \in 1..MaxLoads
    BY DEF Object
  <1>3. CyclesEnd'
    BY <1>1, <1>2, FileIsNew
  <1>4. BodyTypes'
    BY <1>1 DEF BodyTypes
  <1>5. Current'
    <2>1. walk.found \subseteq Object
      BY DEF BodyTypes, Walk
    <2>2. \A o \in Modules \cup walk.found : o[2] = loaded'[o[1]]
      BY <2>1, ModulesAreObjects, CurrentKept DEF Current
    <2> QED
      BY <1>1, <2>2 DEF Current
  <1>6. Marked'
    <2> SUFFICES ASSUME NEW o \in Object
                 PROVE  /\ starts'[o] = IF o \in initialized' THEN 1 ELSE 0
                        /\ o \in initialized' => o[2] <= loaded'[o[1]]
      BY DEF Marked
    <2>1. o[1] \in File /\ o[2] \in 1..MaxLoads
      BY DEF Object
    <2>2. starts'[o] = IF o \in initialized' THEN 1 ELSE 0
      BY DEF Marked, BodyTypes
    <2>3. ASSUME o = m PROVE o[2] <= loaded'[o[1]]
      BY <1>2, <2>3
    <2>4. ASSUME o \in initialized PROVE o[2] <= loaded'[o[1]]
      <3>1. o[2] <= loaded[o[1]]
        BY <2>4 DEF Marked
      <3>2. loaded'[o[1]] = loaded[o[1]] \/ loaded[o[1]] = 0
        BY <2>1
      <3>3. loaded[o[1]] # 0
        BY <2>1, <3>1
      <3> QED
        BY <3>1, <3>2, <3>3
    <2> QED
      BY <2>2, <2>3, <2>4
  <1>7. ReadyToUse'
    BY <1>1 DEF ReadyToUse
  <1>8. Idle'
    <2>1. Append(t, New(m)) # <<>>
      OBVIOUS
    <2> QED
      BY <2>1 DEF Idle
  <1> QED
    BY <1>3, <1>4, <1>5, <1>6, <1>7, <1>8

\* No body is entered or left.
LEMMA Undisturbed ==
  ASSUME BodyInv, frames' \in Seq(Frame), Same(frames, frames'),
         loaded' \in [File -> 0..MaxLoads],
         \A f \in File : loaded'[f] = loaded[f] \/ loaded[f] = 0,
         initialized' = initialized, starts' = starts, ended' = ended,
         walk' \in Walk, \A m \in walk'.found \ walk.found : m[2] = loaded'[m[1]],
         frames = <<>> => walk' = walk
  PROVE  BodyInv'
  <1> USE DEF BodyInv
  <1>1. Modules' = Modules /\ CyclesEnd'
    BY SameFrames
  <1>2. BodyTypes'
    BY DEF BodyTypes
  <1>3. Current'
    <2>1. walk.found \subseteq Object
      BY DEF BodyTypes, Walk
    <2>2. \A o \in Modules \cup walk.found : o[2] = loaded'[o[1]]
      BY <2>1, ModulesAreObjects, CurrentKept DEF Current
    <2> QED
      BY <1>1, <2>2 DEF Current
  <1>4. Marked'
    <2> SUFFICES ASSUME NEW o \in Object, o \in initialized PROVE o[2] <= loaded'[o[1]]
      BY DEF Marked
    <2>1. o[1] \in File /\ o[2] \in 1..MaxLoads /\ o[2] <= loaded[o[1]]
      BY DEF Object, Marked
    <2>2. loaded[o[1]] # 0 /\ (loaded'[o[1]] = loaded[o[1]] \/ loaded[o[1]] = 0)
      BY <2>1
    <2> QED
      BY <2>1, <2>2
  <1>5. ReadyToUse'
    BY <1>1 DEF ReadyToUse
  <1>6. Idle'
    <2>1. frames' = <<>> => frames = <<>>
      BY DEF Same, BodyTypes
    <2> QED
      BY <2>1 DEF Idle
  <1> QED
    BY <1>1, <1>2, <1>3, <1>4, <1>5, <1>6

\* An error ends all bodies, S among them.
LEMMA Unwound ==
  ASSUME BodyInv, NEW S \in SUBSET Object, Unwind(S), Modules \subseteq S,
         loaded' \in [File -> 0..MaxLoads],
         \A f \in File : loaded'[f] = loaded[f] \/ loaded[f] = 0,
         initialized' = initialized \cup S,
         starts' \in [Object -> Nat],
         \A m \in Object : starts'[m] = IF m \in initialized' THEN 1 ELSE 0,
         \A m \in initialized' : m[2] <= loaded'[m[1]]
  PROVE  BodyInv'
  <1> USE DEF BodyInv
  <1>1. frames' = <<>> /\ walk' = NoWalk /\ ended' = ended \cup S
    BY DEF Unwind
  <1>2. Modules' = {} /\ CyclesEnd'
    BY <1>1 DEF Modules, CyclesEnd
  <1>3. walk' \in Walk /\ walk'.found = {}
    BY <1>1 DEF NoWalk, Walk
  <1>4. BodyTypes'
    BY <1>1, <1>3 DEF BodyTypes
  <1>5. Current' /\ Marked'
    BY <1>2, <1>3 DEF Current, Marked
  <1>6. ReadyToUse'
    BY <1>1, <1>2 DEF ReadyToUse
  <1> QED
    BY <1>1, <1>2, <1>4, <1>5, <1>6 DEF Idle

-----------------------------------------------------------------------------
(* Every step preserves the invariant *)

LEMMA BodyStep == BodyInv /\ [Next]_vars => BodyInv'
<1> SUFFICES ASSUME BodyInv, [Next]_vars PROVE BodyInv'
  OBVIOUS
<1> USE DEF BodyInv
<1>0. /\ frames \in Seq(Frame) /\ Same(frames, frames)
      /\ walk \in Walk /\ walk.found \subseteq Object
      /\ loaded \in [File -> 0..MaxLoads]
      /\ starts \in [Object -> Nat]
      /\ Modules \subseteq Object
  BY ModulesAreObjects DEF BodyTypes, Walk, Same
\* Steps that touch neither frames nor modules.
<1>1. ASSUME UNCHANGED <<loaded, bodies, walk>> PROVE BodyInv'
  BY <1>0, <1>1, Undisturbed DEF bodies
\* Steps that only raise an error.
<1>2. ASSUME Unwind(Modules), UNCHANGED <<loaded, initialized, starts>> PROVE BodyInv'
  <2>1. initialized = initialized \cup Modules
    BY DEF ReadyToUse
  <2> QED
    BY <1>0, <1>2, <2>1, Unwound DEF Marked, BodyTypes
\* A host begins on a new fiber.
<1>3. ASSUME frames = <<>>, NEW m \in Object \cup {Chunk}, Begin(m) 
      PROVE  /\ frames' \in Seq(Frame) /\ Modules' = {m} \ {Chunk} /\ CyclesEnd'
             /\ Modules = {} /\ ended' = ended /\ walk' = walk
  <2>1. New(m) \in Frame /\ New(m).module = m
    BY DEF New, Frame
  <2>2. frames' = <<New(m)>> /\ ended' = ended /\ walk' = walk
    BY <1>3 DEF Begin
  <2>3. frames' \in Seq(Frame) /\ Len(frames') = 1 /\ frames'[1].module = m
    BY <2>1, <2>2
  <2>4. Modules' = {m} \ {Chunk}
    BY <2>3 DEF Modules
  <2>5. CyclesEnd'
    BY <2>3 DEF CyclesEnd
  <2> QED
    BY <1>3, <2>2, <2>3, <2>4, <2>5 DEF Modules
<1>4. CASE RunChunk
  <2>1. /\ frames' \in Seq(Frame) /\ Modules' = {} /\ Modules = {} /\ CyclesEnd'
        /\ UNCHANGED <<ended, walk, loaded, initialized, starts>>
    BY <1>3, <1>4 DEF RunChunk
  <2>2. BodyTypes' /\ Marked'
    BY <1>0, <2>1 DEF BodyTypes, Marked
  <2>3. walk = NoWalk
    BY <1>4 DEF RunChunk, Idle
  <2>4. Current' /\ Idle' /\ ReadyToUse'
    BY <2>1, <2>3 DEF Current, Idle, ReadyToUse
  <2> QED
    BY <2>1, <2>2, <2>4
<1>5. ASSUME NEW f \in File, RunFile(f) PROVE BodyInv'
  <2> DEFINE m == <<f, loaded[f] + 1>>
  <2>1. /\ m \in Object /\ m[1] = f /\ m[2] = loaded[f] + 1
        /\ loaded' = [loaded EXCEPT ![f] = @ + 1]
        /\ loaded' \in [File -> 0..MaxLoads]
    BY <1>0, <1>5 DEF RunFile, Object
  <2>2. /\ initialized' = initialized \cup {m}
        /\ starts' = [starts EXCEPT ![m] = @ + 1]
        /\ frames = <<>> /\ Begin(m)
    BY <1>5 DEF RunFile
  <2> HIDE DEF m
  <2>3. m # Chunk
    BY <2>1
  <2>4. /\ frames' \in Seq(Frame) /\ Modules' = {m} /\ Modules = {} /\ CyclesEnd'
        /\ ended' = ended /\ walk' = walk
    BY <1>3, <2>1, <2>2, <2>3
  <2>5. m \notin initialized
    BY <1>0, <2>1 DEF Marked
  <2>6. walk.found = {}
    BY <2>2 DEF Idle, NoWalk
  <2>7. BodyTypes'
    <3>1. starts' \in [Object -> Nat]
      BY <1>0, <2>1, <2>2
    <3> QED
      BY <1>0, <2>1, <2>2, <2>4, <3>1 DEF BodyTypes
  <2>8. Current'
    BY <1>0, <2>1, <2>4, <2>6 DEF Current
  <2>9. Marked'
    <3>1. \A o \in Object : o[1] \in File /\ o[2] \in 1..MaxLoads
      BY DEF Object
    <3> QED
      BY <1>0, <2>1, <2>2, <2>5, <3>1 DEF Marked
  <2>10. ReadyToUse'
    BY <2>2, <2>4, <2>5 DEF ReadyToUse
  <2>11. Idle'
    BY <2>2, <2>4 DEF Idle
  <2> QED
    BY <2>4, <2>7, <2>8, <2>9, <2>10, <2>11
\* An import that gives a module.
<1>6. ASSUME NEW n \in Name, NEW m \in Object, Obtain(n, m)
      PROVE  /\ loaded' \in [File -> 0..MaxLoads]
             /\ m[2] = loaded'[m[1]]
             /\ \A f \in File : loaded'[f] = loaded[f] \/ loaded[f] = 0
  BY <1>6, ObtainEffect
<1>7. ASSUME NEW n \in Name, Import(n) PROVE BodyInv'
  <2>1. PICK m \in Object :
          /\ Obtain(n, m)
          /\ IF m \in initialized
               THEN UNCHANGED <<frames, initialized, starts, capacity>>
               ELSE frames' = Append(frames, New(m)) /\ Enter(m)
    BY <1>7 DEF Import
  <2>2. walk' = walk /\ ended' = ended
    BY <1>7 DEF Import
  <2>3. /\ loaded' \in [File -> 0..MaxLoads]
        /\ m[2] = loaded'[m[1]]
        /\ \A f \in File : loaded'[f] = loaded[f] \/ loaded[f] = 0
    BY <1>6, <2>1
  <2>4. CASE m \in initialized
    BY <1>0, <2>1, <2>2, <2>3, <2>4, Undisturbed
  <2>5. CASE m \notin initialized
    <3>1. /\ frames' = Append(frames, New(m))
          /\ initialized' = initialized \cup {m}
          /\ starts' = [starts EXCEPT ![m] = @ + 1]
      BY <2>1, <2>5 DEF Enter
    <3> QED
      BY <1>0, <2>2, <2>3, <2>5, <3>1, Entered
  <2> QED
    BY <2>4, <2>5
<1>8. ASSUME NEW n \in Name, ImportFails(n) PROVE BodyInv'
  <2>1. Unwind(Modules) /\ UNCHANGED <<initialized, starts>>
    BY <1>8 DEF ImportFails
  <2>2. CASE Fails(n)
    BY <1>2, <2>1, <2>2 DEF Fails
  <2>3. ASSUME NEW m \in Object, Obtain(n, m) PROVE BodyInv'
    <3>1. /\ loaded' \in [File -> 0..MaxLoads]
          /\ \A f \in File : loaded'[f] = loaded[f] \/ loaded[f] = 0
      BY <1>6, <2>3
    <3>2. initialized' = initialized \cup Modules
      BY <2>1 DEF ReadyToUse
    <3>3. \A o \in initialized' : o[2] <= loaded'[o[1]]
      <4> SUFFICES ASSUME NEW o \in initialized PROVE o[2] <= loaded'[o[1]]
        BY <2>1
      <4>1. o \in Object
        BY DEF BodyTypes
      <4>2. o[1] \in File /\ o[2] \in 1..MaxLoads /\ o[2] <= loaded[o[1]]
        BY <4>1 DEF Object, Marked
      <4>3. loaded[o[1]] # 0 /\ (loaded'[o[1]] = loaded[o[1]] \/ loaded[o[1]] = 0)
        BY <3>1, <4>2
      <4> QED
        BY <4>2, <4>3
    <3> QED
      BY <1>0, <2>1, <3>1, <3>2, <3>3, Unwound DEF Marked, BodyTypes
  <2> QED
    BY <1>8, <2>2, <2>3 DEF ImportFails
<1>9. ASSUME NEW n \in Name, Load(n) PROVE BodyInv'
  <2>1. PICK m \in Object : Obtain(n, m)
    BY <1>9 DEF Load
  <2>2. UNCHANGED <<bodies, walk>>
    BY <1>9 DEF Load
  <2> QED
    BY <1>0, <1>6, <2>1, <2>2, Undisturbed DEF bodies
<1>10. ASSUME NEW d \in Directory, ImportAll(d) PROVE BodyInv'
  <2> DEFINE fr == [frames[Len(frames)] EXCEPT !.all = d, !.rewound = FALSE]
  <2>1. /\ frames # <<>>
        /\ walk' = [todo |-> Listing[d], found |-> {}, dir |-> d]
        /\ frames' = [frames EXCEPT ![Len(frames)] = fr]
        /\ UNCHANGED <<loaded, initialized, starts, ended>>
    BY <1>10 DEF ImportAll
  <2>2. frames[Len(frames)] \in Frame
    BY <1>0, <2>1
  <2>3. fr \in Frame /\ fr.module = frames[Len(frames)].module
    BY <2>2 DEF Frame
  <2>4. frames' \in Seq(Frame) /\ Same(frames, frames')
    BY <2>1, <2>3, TopChanged
  <2>5. walk' \in Walk /\ walk'.found = {}
    BY <2>1 DEF Walk
  <2> QED
    BY <1>0, <2>1, <2>4, <2>5, Undisturbed
<1>11. ASSUME NEW n \in Name, WalkFile(n) PROVE BodyInv'
  <2>1. PICK m \in Object :
          Obtain(n, m) /\ walk' = [walk EXCEPT !.todo = @ \ {n}, !.found = @ \cup {m}]
    BY <1>11 DEF WalkFile
  <2>2. UNCHANGED bodies /\ n \in walk.todo
    BY <1>11 DEF WalkFile
  <2>3. walk' \in Walk /\ walk'.found = walk.found \cup {m}
    BY <1>0, <2>1 DEF Walk
  <2>4. frames # <<>>
    BY <2>2 DEF Idle, NoWalk
  <2> QED
    BY <1>0, <1>6, <2>1, <2>2, <2>3, <2>4, Undisturbed DEF bodies
<1>12. ASSUME NEW n \in Name, WalkFails(n) PROVE BodyInv'
  <2>1. /\ UNCHANGED <<bodies, loaded>> /\ n \in walk.todo
        /\ walk' = [walk EXCEPT !.todo = @ \ {n}]
    BY <1>12 DEF WalkFails, Fails
  <2>2. walk' \in Walk /\ walk'.found = walk.found
    BY <1>0, <2>1 DEF Walk
  <2>3. frames # <<>>
    BY <2>1 DEF Idle, NoWalk
  <2> QED
    BY <1>0, <2>1, <2>2, <2>3, Undisturbed DEF bodies
<1>13. ASSUME NEW n \in Name, PlainFails(n) PROVE BodyInv'
  BY <1>2, <1>13 DEF PlainFails, Fails
<1>14. ASSUME NEW m \in Object, WalkEnter(m) PROVE BodyInv'
  <2>1. /\ m \in walk.found /\ m \notin initialized
        /\ initialized' = initialized \cup {m}
        /\ starts' = [starts EXCEPT ![m] = @ + 1]
        /\ UNCHANGED loaded
    BY <1>14 DEF WalkEnter, Enter
  <2>2. frames # <<>>
    BY <2>1 DEF Idle, NoWalk
  <2>3. m[2] = loaded[m[1]] /\ m[1] \in File
    BY <2>1 DEF Current, Object
  <2>4. CASE error
    <3>1. Unwind(Modules \cup {m})
      BY <1>14, <2>4 DEF WalkEnter
    <3>2. initialized' = initialized \cup (Modules \cup {m})
      BY <2>1 DEF ReadyToUse
    <3>3. /\ starts' \in [Object -> Nat]
          /\ \A o \in Object : starts'[o] = IF o \in initialized' THEN 1 ELSE 0
      BY <1>0, <2>1 DEF Marked
    <3>4. \A o \in initialized' : o[2] <= loaded'[o[1]]
      BY <1>0, <2>1, <2>3 DEF Marked, BodyTypes
    <3> QED
      BY <1>0, <2>1, <3>1, <3>2, <3>3, <3>4, Unwound
  <2>5. CASE ~error
    <3>1. PICK fr \in Rewind(frames[Len(frames)]) :
            frames' = Append([frames EXCEPT ![Len(frames)] = fr], New(m))
      BY <1>14, <2>5 DEF WalkEnter
    <3>2. walk' = NoWalk /\ ended' = ended
      BY <1>14, <2>5 DEF WalkEnter
    <3>3. frames[Len(frames)] \in Frame
      BY <1>0, <2>2
    <3>4. fr \in Frame /\ fr.module = frames[Len(frames)].module
      <4>1. PICK b \in BOOLEAN :
              fr = [frames[Len(frames)] EXCEPT !.rewound = b, !.extra = @ + 1]
        BY DEF Rewind
      <4> DEFINE e == frames[Len(frames)]
      <4>2. e.extra + 1 \in Nat /\ e = [module |-> e.module, all |-> e.all,
                                         rewound |-> e.rewound, extra |-> e.extra]
        BY <3>3 DEF Frame
      <4> HIDE DEF e
      <4>3. fr = [e EXCEPT !.rewound = b, !.extra = @ + 1] /\ e \in Frame
        BY <3>3, <4>1 DEF e
      <4>4. fr \in Frame /\ fr.module = e.module
        BY <4>2, <4>3 DEF Frame
      <4> QED
        BY <4>4 DEF e
    <3> DEFINE t == [frames EXCEPT ![Len(frames)] = fr]
    <3>5. t \in Seq(Frame) /\ Same(frames, t)
      BY <2>2, <3>4, TopChanged
    <3>6. walk' \in Walk /\ walk'.found = {}
      BY <3>2 DEF NoWalk, Walk
    <3> HIDE DEF t
    <3>7. frames' = Append(t, New(m))
      BY <3>1 DEF t
    <3> QED
      BY <1>0, <2>1, <2>3, <3>2, <3>5, <3>6, <3>7, Entered
  <2> QED
    BY <2>4, <2>5
<1>15. CASE WalkDone
  <2> DEFINE fr == [frames[Len(frames)] EXCEPT !.all = None]
  <2>1. /\ walk.dir # None
        /\ walk' = NoWalk
        /\ frames' = [frames EXCEPT ![Len(frames)] = fr]
        /\ UNCHANGED <<loaded, initialized, starts, ended>>
    BY <1>15 DEF WalkDone, Walked
  <2>2. frames # <<>>
    BY <2>1 DEF Idle, NoWalk
  <2>3. frames[Len(frames)] \in Frame
    BY <1>0, <2>2
  <2>4. fr \in Frame /\ fr.module = frames[Len(frames)].module
    BY <2>3 DEF Frame
  <2>5. frames' \in Seq(Frame) /\ Same(frames, frames')
    BY <2>1, <2>2, <2>4, TopChanged
  <2>6. walk' \in Walk /\ walk'.found = {}
    BY <2>1 DEF NoWalk, Walk
  <2> QED
    BY <1>0, <2>1, <2>2, <2>5, <2>6, Undisturbed
<1>16. CASE Return
  <2> DEFINE n == Len(frames)  m == frames[n].module
  <2>1. /\ frames # <<>> /\ walk = NoWalk
        /\ frames' = SubSeq(frames, 1, n - 1)
        /\ ended' = ended \cup ({m} \ {Chunk})
        /\ UNCHANGED <<loaded, initialized, starts, walk>>
    BY <1>16 DEF Return, Running
  <2>2. n \in Nat /\ n >= 1
    BY <1>0, <2>1
  <2>3. /\ frames' \in Seq(Frame) /\ Len(frames') = n - 1
        /\ \A i \in 1..(n - 1) : frames'[i] = frames[i]
    <3>1. \A i \in 1..(n - 1) : frames[i] \in Frame
      BY <1>0, <2>2
    <3> HIDE DEF n
    <3>2. 1 \in Int /\ n - 1 \in Int /\ n - 1 >= 0
      BY <2>2
    <3>3. /\ SubSeq(frames, 1, n - 1) \in Seq(Frame)
          /\ Len(SubSeq(frames, 1, n - 1)) = IF 1 <= n - 1 THEN n - 1 - 1 + 1 ELSE 0
          /\ \A i \in 1..(n - 1 - 1 + 1) :
               SubSeq(frames, 1, n - 1)[i] = frames[1 + i - 1]
      BY <3>1, <3>2, SubSeqProperties
    <3>4. n - 1 - 1 + 1 = n - 1 /\ (~(1 <= n - 1) => n - 1 = 0)
      BY <2>2
    <3>5. \A i \in 1..(n - 1) : 1 + i - 1 = i
      OBVIOUS
    <3> QED
      BY <2>1, <3>3, <3>4, <3>5
  <2>4. CyclesEnd'
    BY <2>2, <2>3 DEF CyclesEnd, FileOf
  <2>5. \A i \in 1..(n - 1) : frames[i].module # m
    BY <2>2 DEF CyclesEnd, FileOf
  <2>6. Modules' = Modules \ {m}
    <3>1. Modules' = {frames[i].module : i \in 1..(n - 1)} \ {Chunk}
      BY <2>2, <2>3 DEF Modules
    <3>2. Modules = ({frames[i].module : i \in 1..(n - 1)} \cup {m}) \ {Chunk}
      BY <2>2 DEF Modules
    <3> QED
      BY <2>5, <3>1, <3>2
  <2>7. {m} \ {Chunk} \subseteq Modules
    BY <2>2 DEF Modules
  <2> HIDE DEF m
  <2>8. BodyTypes' /\ Current' /\ Marked' /\ Idle'
    BY <1>0, <2>1, <2>3, <2>6 DEF BodyTypes, Current, Marked, Idle
  <2>9. ReadyToUse'
    BY <2>1, <2>6, <2>7 DEF ReadyToUse, Modules
  <2> QED
    BY <2>4, <2>8, <2>9
<1>17. CASE Fail
  BY <1>2, <1>17 DEF Fail
<1>18. ASSUME NEW p \in SearchPath, AddSearchPath(p) \/ AppendPath(p) PROVE BodyInv'
  BY <1>1, <1>18 DEF AddSearchPath, AppendPath
<1>19. CASE ClearImportResolveCache
  BY <1>1, <1>19 DEF ClearImportResolveCache
<1>20. ASSUME NEW f \in File, Edit(f) PROVE BodyInv'
  BY <1>1, <1>20 DEF Edit
<1>21. CASE UNCHANGED vars
  BY <1>1, <1>21 DEF vars
<1> QED
  BY <1>4, <1>5, <1>7, <1>8, <1>9, <1>10, <1>11, <1>12, <1>13, <1>14, <1>15,
     <1>16, <1>17, <1>18, <1>19, <1>20, <1>21 DEF Next

-----------------------------------------------------------------------------
(* Theorems *)

LEMMA BodyCorrect == Spec => []BodyInv
<1>1. Init => BodyInv
  <2> SUFFICES ASSUME Init PROVE BodyInv
    OBVIOUS
  <2>1. Modules = {} /\ frames \in Seq(Frame)
    BY DEF Init, Modules
  <2>2. walk \in Walk /\ walk.found = {}
    BY DEF Init, NoWalk, Walk
  <2> QED
    BY <2>1, <2>2 DEF Init, BodyInv, BodyTypes, Current, Marked, Idle, CyclesEnd,
                      ReadyToUse
<1>2. BodyInv /\ [Next]_vars => BodyInv'
  BY BodyStep
<1> QED
  BY <1>1, <1>2, PTL DEF Spec

\* The body of a module object is entered at most once (IMPORT,
\* IMPORT_WILDCARD, RunFileWithModule), for any files, directories, search paths
\* and cache limit, and however files change and errors end bodies.
THEOREM OnceCorrect == Spec => []BodyOnce
<1>1. BodyInv => BodyOnce
  BY DEF BodyInv, Marked, BodyOnce
<1> QED
  BY <1>1, BodyCorrect, PTL

\* No file has two frames on a fiber: cycles of imports end, and imports nest at
\* most as deep as there are files (the initialized flag set before the body).
THEOREM CyclesCorrect == Spec => []CyclesEnd
<1>1. BodyInv => CyclesEnd
  BY DEF BodyInv
<1> QED
  BY <1>1, BodyCorrect, PTL

\* A module an import uses without running it has returned, was ended by an
\* error, or is importing (IMPORT, IMPORT_WILDCARD).
THEOREM ReadyCorrect == Spec => []ReadyToUse
<1>1. BodyInv => ReadyToUse
  BY DEF BodyInv
<1> QED
  BY <1>1, BodyCorrect, PTL
-----------------------------------------------------------------------------
(* Wildcard statements *)

\* Frames are moved only when there are more than fit at first; until then the
\* rewind of a wildcard statement is never lost.
RewindInv ==
  /\ capacity \in Nat /\ capacity >= InitialFrames
  /\ walk # NoWalk => walk.dir # None
  /\ capacity = InitialFrames => WildcardRepeats

LEMMA GrownIs ==
  ASSUME BodyTypes, capacity \in Nat, capacity >= InitialFrames
  PROVE  /\ Grown \in Nat /\ Grown >= InitialFrames
         /\ Grown = InitialFrames => capacity = InitialFrames /\ ~(Len(frames) + 1 > capacity)
<1>1. Len(frames) \in Nat
  BY DEF BodyTypes
<1> QED BY <1>1 DEF Grown

\* A body entered on top of frames whose wildcard statements are all rewound.
LEMMA RepeatsAppended ==
  ASSUME NEW t \in Seq(Frame), NEW m \in Object \cup {Chunk},
         \A i \in 1..Len(t) : t[i].all # None => t[i].rewound,
         frames' = Append(t, New(m))
  PROVE  WildcardRepeats'
<1>1. New(m) \in Frame /\ New(m).all = None
  BY DEF New, Frame
<1>2. /\ Len(frames') = Len(t) + 1 /\ Len(t) \in Nat
      /\ \A i \in 1..Len(t) : frames'[i] = t[i]
      /\ frames'[Len(t) + 1] = New(m)
  BY <1>1
<1>3. \A i \in 1..Len(frames') : i \in 1..Len(t) \/ i = Len(t) + 1
  BY <1>2
<1>4. \A i \in 1..Len(frames') : frames'[i].all # None => frames'[i].rewound
  BY <1>1, <1>2, <1>3
<1> QED BY <1>4 DEF WildcardRepeats

LEMMA RewindStep == BodyInv /\ RewindInv /\ [Next]_vars => RewindInv'
<1> SUFFICES ASSUME BodyInv, RewindInv, [Next]_vars PROVE RewindInv'
  OBVIOUS
<1> USE DEF BodyInv, RewindInv
<1>0. /\ frames \in Seq(Frame) /\ walk \in Walk /\ NoWalk.dir = None /\ NoWalk.todo = {}
      /\ Len(frames) \in Nat
  BY DEF BodyTypes, NoWalk
<1>1. ASSUME UNCHANGED <<bodies, walk>> PROVE RewindInv'
  BY <1>1 DEF bodies, WildcardRepeats
<1>2. ASSUME NEW S, Unwind(S), capacity' \in {capacity, Grown} PROVE RewindInv'
  <2>1. frames' = <<>> /\ walk' = NoWalk
    BY <1>2 DEF Unwind
  <2>2. WildcardRepeats'
    BY <2>1 DEF WildcardRepeats
  <2> QED BY <1>2, <2>1, <2>2, GrownIs
<1>3. ASSUME frames = <<>>, NEW m \in Object \cup {Chunk}, Begin(m), capacity' = InitialFrames
      PROVE  RewindInv'
  <2>1. frames' = Append(<<>>, New(m)) /\ walk' = walk
    BY <1>3 DEF Begin
  <2>2. <<>> \in Seq(Frame) /\ Len(<<>>) = 0
    OBVIOUS
  <2>3. \A i \in 1..Len(<<>>) : <<>>[i].all # None => <<>>[i].rewound
    BY <2>2
  <2>4. WildcardRepeats'
    BY <2>1, <2>2, <2>3, RepeatsAppended
  <2> QED BY <1>3, <2>1, <2>4
<1>4. CASE RunChunk
  BY <1>3, <1>4 DEF RunChunk
<1>5. ASSUME NEW f \in File, RunFile(f) PROVE RewindInv'
  <2>1. <<f, loaded[f] + 1>> \in Object
    BY <1>5 DEF RunFile, Object, BodyTypes
  <2> QED BY <1>3, <1>5, <2>1 DEF RunFile
<1>6. ASSUME NEW n \in Name, Import(n) PROVE RewindInv'
  <2>1. PICK m \in Object :
          /\ Obtain(n, m)
          /\ IF m \in initialized
               THEN UNCHANGED <<frames, initialized, starts, capacity>>
               ELSE frames' = Append(frames, New(m)) /\ Enter(m)
    BY <1>6 DEF Import
  <2>2. walk' = walk /\ walk = NoWalk
    BY <1>6 DEF Import, Running
  <2>3. CASE m \in initialized
    BY <2>1, <2>2, <2>3 DEF WildcardRepeats
  <2>4. CASE m \notin initialized
    <3>1. frames' = Append(frames, New(m)) /\ capacity' = Grown
      BY <2>1, <2>4 DEF Enter
    <3>2. ASSUME capacity = InitialFrames PROVE WildcardRepeats'
      <4>1. \A i \in 1..Len(frames) : frames[i].all # None => frames[i].rewound
        BY <2>2, <3>2 DEF WildcardRepeats
      <4> QED BY <1>0, <3>1, <4>1, RepeatsAppended
    <3> QED BY <2>2, <3>1, <3>2, GrownIs
  <2> QED BY <2>3, <2>4
<1>7. ASSUME NEW n \in Name, ImportFails(n) PROVE RewindInv'
  BY <1>2, <1>7 DEF ImportFails
<1>8. ASSUME NEW n \in Name, Load(n) PROVE RewindInv'
  BY <1>1, <1>8 DEF Load
<1>9. ASSUME NEW d \in Directory, ImportAll(d) PROVE RewindInv'
  <2> DEFINE fr == [frames[Len(frames)] EXCEPT !.all = d, !.rewound = FALSE]
  <2>1. /\ frames # <<>> /\ walk = NoWalk
        /\ walk' = [todo |-> Listing[d], found |-> {}, dir |-> d]
        /\ frames' = [frames EXCEPT ![Len(frames)] = fr]
        /\ capacity' = capacity
    BY <1>9 DEF ImportAll
  <2> HIDE DEF fr
  <2>2. walk'.dir # None /\ walk' # NoWalk
    BY <1>0, <2>1
  <2>3. Len(frames') = Len(frames) /\ \A i \in 1..Len(frames) : i < Len(frames) => frames'[i] = frames[i]
    BY <1>0, <2>1
  <2>4. WildcardRepeats => WildcardRepeats'
    BY <2>2, <2>3 DEF WildcardRepeats
  <2> QED BY <2>1, <2>2, <2>4
<1>10. ASSUME UNCHANGED <<frames, capacity>>, walk # NoWalk, walk'.dir = walk.dir PROVE RewindInv'
  <2>1. walk' # NoWalk
    BY <1>0, <1>10
  <2> QED BY <1>10, <2>1 DEF WildcardRepeats
<1>11. ASSUME NEW n \in Name, WalkFile(n) \/ WalkFails(n) PROVE RewindInv'
  <2>1. UNCHANGED <<frames, capacity>> /\ walk # NoWalk
    BY <1>0, <1>11 DEF WalkFile, WalkFails, bodies
  <2>2. walk'.dir = walk.dir
    <3>1. CASE WalkFile(n)
      <4>1. PICK m \in Object : walk' = [walk EXCEPT !.todo = @ \ {n}, !.found = @ \cup {m}]
        BY <3>1 DEF WalkFile
      <4> QED BY <1>0, <4>1 DEF Walk
    <3>2. CASE WalkFails(n)
      <4>1. walk' = [walk EXCEPT !.todo = @ \ {n}]
        BY <3>2 DEF WalkFails
      <4> QED BY <1>0, <4>1 DEF Walk
    <3> QED BY <1>11, <3>1, <3>2
  <2> QED BY <1>10, <2>1, <2>2
<1>12. ASSUME NEW n \in Name, PlainFails(n) PROVE RewindInv'
  BY <1>2, <1>12 DEF PlainFails
<1>13. ASSUME NEW m \in Object, WalkEnter(m) PROVE RewindInv'
  <2>1. capacity' = Grown /\ walk.dir # None
    BY <1>13 DEF WalkEnter, Enter, Walked
  <2>2. CASE error
    BY <1>2, <1>13, <2>1, <2>2 DEF WalkEnter
  <2>3. CASE ~error
    <3>1. PICK fr \in Rewind(frames[Len(frames)]) :
            frames' = Append([frames EXCEPT ![Len(frames)] = fr], New(m))
      BY <1>13, <2>3 DEF WalkEnter
    <3>2. walk' = NoWalk
      BY <1>13, <2>3 DEF WalkEnter
    <3>3. ASSUME capacity = InitialFrames, ~(Len(frames) + 1 > capacity) PROVE WildcardRepeats'
      <4> DEFINE e == frames[Len(frames)]
      <4>1. frames # <<>>
        BY <1>0, <2>1 DEF Idle
      <4>2. e \in Frame /\ e.extra + 1 \in Nat
        <5>1. e \in Frame
          BY <1>0, <4>1
        <5> HIDE DEF e
        <5> QED BY <5>1 DEF Frame
      <4>3. fr = [e EXCEPT !.rewound = TRUE, !.extra = @ + 1]
        BY <3>3 DEF Rewind
      <4> HIDE DEF e
      <4>4. fr \in Frame /\ fr.rewound
        BY <4>2, <4>3 DEF Frame
      <4> DEFINE t == [frames EXCEPT ![Len(frames)] = fr]
      <4>5. /\ t \in Seq(Frame) /\ Len(t) = Len(frames)
            /\ \A i \in 1..Len(frames) : IF i = Len(frames) THEN t[i] = fr ELSE t[i] = frames[i]
        BY <1>0, <4>1, <4>4
      <4>6. \A i \in 1..Len(frames) : i # Len(frames) /\ frames[i].all # None => frames[i].rewound
        BY <1>0, <3>3 DEF WildcardRepeats
      <4> HIDE DEF t
      <4>7. \A i \in 1..Len(t) : t[i].all # None => t[i].rewound
        BY <4>4, <4>5, <4>6
      <4> QED BY <3>1, <4>5, <4>7, RepeatsAppended DEF t
    <3> QED BY <2>1, <3>2, <3>3, GrownIs
  <2> QED BY <2>2, <2>3
<1>14. CASE WalkDone
  <2> DEFINE fr == [frames[Len(frames)] EXCEPT !.all = None]
  <2>1. /\ walk.dir # None /\ walk' = NoWalk /\ capacity' = capacity
        /\ frames' = [frames EXCEPT ![Len(frames)] = fr]
    BY <1>14 DEF WalkDone, Walked
  <2>2. frames # <<>>
    BY <1>0, <2>1 DEF Idle
  <2>3. fr.all = None
    <3>1. frames[Len(frames)] \in Frame
      BY <1>0, <2>2
    <3> QED BY <3>1 DEF Frame
  <2> HIDE DEF fr
  <2>4. /\ Len(frames') = Len(frames)
        /\ \A i \in 1..Len(frames) : IF i = Len(frames) THEN frames'[i] = fr ELSE frames'[i] = frames[i]
    BY <1>0, <2>1, <2>2
  <2>5. WildcardRepeats => WildcardRepeats'
    BY <1>0, <2>3, <2>4 DEF WildcardRepeats
  <2> QED BY <2>1, <2>5
<1>15. CASE Return
  <2> DEFINE n == Len(frames)
  <2>1. /\ walk = NoWalk /\ walk' = walk /\ capacity' = capacity /\ n >= 1
        /\ frames' = SubSeq(frames, 1, n - 1)
    BY <1>0, <1>15 DEF Return, Running
  <2>2. Len(frames') = n - 1 /\ \A i \in 1..(n - 1) : frames'[i] = frames[i]
    <3> HIDE DEF n
    <3>1. n \in Nat /\ n - 1 \in Nat
      BY <1>0, <2>1 DEF n
    <3>2. \A i \in 1..(n - 1) : frames[i] \in Frame
      BY <1>0, <3>1 DEF n
    <3>3. /\ Len(SubSeq(frames, 1, n - 1)) = IF 1 <= n - 1 THEN n - 1 - 1 + 1 ELSE 0
          /\ \A i \in 1..(n - 1 - 1 + 1) : SubSeq(frames, 1, n - 1)[i] = frames[1 + i - 1]
      BY <3>1, <3>2, SubSeqProperties
    <3>4. n - 1 - 1 + 1 = n - 1 /\ (~(1 <= n - 1) => n - 1 = 0)
      BY <2>1, <3>1
    <3>5. \A i \in 1..(n - 1) : 1 + i - 1 = i
      OBVIOUS
    <3> QED BY <2>1, <3>3, <3>4, <3>5
  <2>3. WildcardRepeats => WildcardRepeats'
    BY <1>0, <2>1, <2>2 DEF WildcardRepeats
  <2> QED BY <2>1, <2>3
<1>16. CASE Fail
  BY <1>2, <1>16 DEF Fail
<1>17. ASSUME NEW p \in SearchPath, AddSearchPath(p) \/ AppendPath(p) PROVE RewindInv'
  BY <1>1, <1>17 DEF AddSearchPath, AppendPath
<1>18. CASE ClearImportResolveCache
  BY <1>1, <1>18 DEF ClearImportResolveCache
<1>19. ASSUME NEW f \in File, Edit(f) PROVE RewindInv'
  BY <1>1, <1>19 DEF Edit
<1>20. CASE UNCHANGED vars
  BY <1>1, <1>20 DEF vars
<1> QED
  BY <1>4, <1>5, <1>6, <1>7, <1>8, <1>9, <1>11, <1>12, <1>13, <1>14, <1>15, <1>16,
     <1>17, <1>18, <1>19, <1>20 DEF Next

LEMMA RewindCorrect == Spec => []RewindInv
<1>1. Init => RewindInv
  BY DEF Init, RewindInv, WildcardRepeats
<1>2. BodyInv /\ RewindInv /\ [Next]_vars => RewindInv'
  BY RewindStep
<1> QED BY <1>1, <1>2, BodyCorrect, PTL DEF Spec

\* A rewind is never lost where all frames that imports can nest fit at first.
LEMMA FramesFit ==
  ASSUME IsFiniteSet(File), BodyTypes, CyclesEnd, NEW f \in File,
         \A i \in 1..Len(frames) : FileOf(i) # f
  PROVE  Len(frames) <= Cardinality(File)
<1> DEFINE n == Len(frames)
           T == (File \cup {Root}) \ {f}
           g == [i \in 1..n |-> FileOf(i)]
<1>1. n \in Nat
  BY DEF BodyTypes
<1>2. \A i \in 1..n : FileOf(i) \in File \cup {Root}
  <2>1. \A i \in 1..n : frames[i] \in Frame
    BY DEF BodyTypes
  <2>2. \A i \in 1..n : frames[i].module \in Object \cup {Chunk}
    BY <2>1 DEF Frame
  <2> QED BY <2>2 DEF FileOf, Object
<1>3. g \in Injection(1..n, T)
  <2>1. g \in [1..n -> T]
    BY <1>2
  <2>2. \A i, j \in 1..n : g[i] = g[j] => i = j
    BY DEF CyclesEnd
  <2> QED BY <2>1, <2>2 DEF Injection, IsInjective
<1> HIDE DEF g
<1>4. IsFiniteSet(T) /\ Cardinality(T) = Cardinality(File) /\ Cardinality(File) \in Nat
  <2>1. /\ IsFiniteSet(File \cup {Root})
        /\ Cardinality(File \cup {Root}) = Cardinality(File) + 1
    BY FS_AddElement
  <2>2. IsFiniteSet(T) /\ Cardinality(T) = Cardinality(File \cup {Root}) - 1
    BY <2>1, FS_RemoveElement
  <2>3. Cardinality(File) \in Nat
    BY FS_CardinalityType
  <2> QED BY <2>1, <2>2, <2>3
<1>5. IsFiniteSet(1..n) /\ Cardinality(1..n) = n
  <2>1. ASSUME NEW k \in Nat PROVE IsFiniteSet(1..k) /\ Cardinality(1..k) = k
    <3>1. IsFiniteSet(1..k) /\ Cardinality(1..k) = IF 1 > k THEN 0 ELSE k - 1 + 1
      BY FS_Interval
    <3> QED BY <3>1
  <2> HIDE DEF n
  <2> QED BY <1>1, <2>1
<1> HIDE DEF T
<1> QED BY <1>3, <1>4, <1>5, FS_Injection

LEMMA GrownNot ==
  ASSUME IsFiniteSet(File), Cardinality(File) < InitialFrames, BodyInv,
         capacity = InitialFrames, NEW m \in Object, m \notin initialized,
         m[2] = loaded[m[1]] \/ loaded[m[1]] = 0
  PROVE  Grown = InitialFrames
<1>1. m[1] \in File
  BY DEF Object
<1>2. \A i \in 1..Len(frames) : FileOf(i) # m[1]
  BY FileIsNew DEF BodyInv
<1>3. Len(frames) <= Cardinality(File)
  BY <1>1, <1>2, FramesFit DEF BodyInv
<1>4. Len(frames) \in Nat /\ Cardinality(File) \in Nat
  BY FS_CardinalityType DEF BodyInv, BodyTypes
<1> QED BY <1>3, <1>4 DEF Grown

LEMMA ShallowStep ==
  ASSUME IsFiniteSet(File), Cardinality(File) < InitialFrames
  PROVE  BodyInv /\ capacity = InitialFrames /\ [Next]_vars => capacity' = InitialFrames
<1> SUFFICES ASSUME BodyInv, capacity = InitialFrames, [Next]_vars
             PROVE  capacity' = InitialFrames
  OBVIOUS
<1>1. ASSUME NEW n \in Name, Import(n) PROVE capacity' = InitialFrames
  <2>1. PICK m \in Object :
          /\ Obtain(n, m)
          /\ IF m \in initialized
               THEN UNCHANGED <<frames, initialized, starts, capacity>>
               ELSE frames' = Append(frames, New(m)) /\ Enter(m)
    BY <1>1 DEF Import
  <2>2. m[2] = loaded'[m[1]] /\ \A f \in File : loaded'[f] = loaded[f] \/ loaded[f] = 0
    BY <2>1, ObtainEffect DEF BodyInv
  <2>3. m[2] = loaded[m[1]] \/ loaded[m[1]] = 0
    BY <2>2 DEF Object
  <2> QED BY <2>1, <2>3, GrownNot DEF Enter
<1>2. ASSUME NEW m \in Object, WalkEnter(m) PROVE capacity' = InitialFrames
  <2>1. capacity' = Grown /\ m \in walk.found /\ m \notin initialized
    BY <1>2 DEF WalkEnter, Enter
  <2>2. m[2] = loaded[m[1]]
    BY <2>1 DEF BodyInv, Current
  <2> QED BY <2>1, <2>2, GrownNot
<1>3. CASE RunChunk \/ WalkDone \/ Return \/ Fail \/ ClearImportResolveCache \/ UNCHANGED vars
  BY <1>3 DEF RunChunk, WalkDone, Return, Fail, ClearImportResolveCache, vars, bodies
<1>4. ASSUME NEW f \in File, RunFile(f) \/ Edit(f) PROVE capacity' = InitialFrames
  BY <1>4 DEF RunFile, Edit, bodies
<1>5. ASSUME NEW n \in Name,
             ImportFails(n) \/ Load(n) \/ WalkFile(n) \/ WalkFails(n) \/ PlainFails(n)
      PROVE  capacity' = InitialFrames
  BY <1>5 DEF ImportFails, Load, WalkFile, WalkFails, PlainFails, bodies
<1>6. ASSUME NEW d \in Directory, ImportAll(d) PROVE capacity' = InitialFrames
  BY <1>6 DEF ImportAll
<1>7. ASSUME NEW p \in SearchPath, AddSearchPath(p) \/ AppendPath(p)
      PROVE  capacity' = InitialFrames
  BY <1>7 DEF AddSearchPath, AppendPath, bodies
<1> QED BY <1>1, <1>2, <1>3, <1>4, <1>5, <1>6, <1>7 DEF Next

\* With fewer files than frames fit at first, a wildcard statement is left only
\* with all of its modules initialized: the frame of an entered body returns to
\* it (the rewind of IMPORT_WILDCARD).  With more, pushCallFrame may move the
\* frames before the rewind writes through its old pointer; RewindCorrect says
\* what holds until it does.
THEOREM WildcardCorrect ==
  ASSUME IsFiniteSet(File), Cardinality(File) < InitialFrames
  PROVE  Spec => []WildcardRepeats
<1>1. Init => capacity = InitialFrames
  BY DEF Init
<1>2. BodyInv /\ capacity = InitialFrames /\ [Next]_vars => (capacity = InitialFrames)'
  BY ShallowStep
<1>3. RewindInv /\ capacity = InitialFrames => WildcardRepeats
  BY DEF RewindInv
<1> QED BY <1>1, <1>2, <1>3, BodyCorrect, RewindCorrect, PTL DEF Spec

-----------------------------------------------------------------------------
(* Recursion *)

LEMMA LeastIn ==
  ASSUME NEW S \in SUBSET Nat, S # {}
  PROVE  \E i \in S : \A j \in S : i <= j
<1> DEFINE R == OpToRel(<, Nat)
<1>1. IsWellFoundedOn(R, Nat)
  BY NatLessThanWellFounded
<1>2. \A x, y \in Nat : <<x, y>> \in R <=> x < y
  BY DEF OpToRel
<1> HIDE DEF R
<1>3. PICK x \in S : \A y \in S : ~ (<<y, x>> \in R)
  BY <1>1, WFMin
<1>4. \A y \in S : ~ (y < x)
  BY <1>2, <1>3
<1>5. \A y \in S : x <= y
  BY <1>4
<1> QED BY <1>5

LEMMA NatInduct ==
  ASSUME NEW S, 0 \in S, \A n \in Nat : n \in S => n + 1 \in S
  PROVE  Nat \subseteq S
<1> DEFINE T == Nat \ S
<1>1. ASSUME T # {} PROVE FALSE
  <2>1. PICK i \in T : \A j \in T : i <= j
    BY <1>1, LeastIn
  <2>2. i \in Nat /\ i # 0 /\ i \notin S
    BY <2>1
  <2>3. i - 1 \in Nat /\ i - 1 \notin T /\ (i - 1) + 1 = i
    BY <2>1, <2>2
  <2> QED BY <2>2, <2>3
<1> QED BY <1>1

\* A value that each step makes from the last.
Recurrent(S, x, F) ==
  \E f \in [Nat -> S] : f[0] = x /\ \A i \in Nat : f[i + 1] = F[i][f[i]]

LEMMA Recursion ==
  ASSUME NEW S, NEW x \in S, NEW F \in [Nat -> [S -> S]]
  PROVE  Recurrent(S, x, F)
<1> DEFINE Part(n, f) == f[0] = x /\ \A i \in 0..(n - 1) : f[i + 1] = F[i][f[i]]
           P == {n \in Nat : \E f \in [0..n -> S] : Part(n, f)}
<1>1. 0 \in P
  <2>1. [i \in 0..0 |-> x] \in [0..0 -> S] /\ Part(0, [i \in 0..0 |-> x])
    OBVIOUS
  <2> QED BY <2>1
<1>2. ASSUME NEW n \in Nat, n \in P PROVE n + 1 \in P
  <2>1. PICK f \in [0..n -> S] : Part(n, f)
    BY <1>2
  <2> DEFINE g == [i \in 0..(n + 1) |-> IF i = n + 1 THEN F[n][f[n]] ELSE f[i]]
  <2>2. g \in [0..(n + 1) -> S]
    BY <2>1
  <2>3. Part(n + 1, g)
    BY <2>1
  <2> HIDE DEF g, Part
  <2>4. n + 1 \in Nat
    OBVIOUS
  <2> QED BY <2>2, <2>3, <2>4
<1>3. \A n \in Nat : n \in P
  <2> HIDE DEF P
  <2> QED BY <1>1, <1>2, NatInduct
<1> DEFINE p == [n \in Nat |-> CHOOSE f \in [0..n -> S] : Part(n, f)]
<1>4. \A n \in Nat : p[n] \in [0..n -> S] /\ Part(n, p[n])
  BY <1>3
<1> HIDE DEF p
<1>5. ASSUME NEW n \in Nat PROVE p[n + 1][n] = p[n][n]
  <2> DEFINE Q == {k \in Nat : k <= n => p[n + 1][k] = p[n][k]}
  <2>1. 0 \in Q
    BY <1>4
  <2>2. ASSUME NEW k \in Nat, k \in Q PROVE k + 1 \in Q
    <3> SUFFICES ASSUME k + 1 <= n PROVE p[n + 1][k + 1] = p[n][k + 1]
      OBVIOUS
    <3>1. k \in 0..(n - 1) /\ k \in 0..((n + 1) - 1)
      OBVIOUS
    <3>2. p[n][k + 1] = F[k][p[n][k]] /\ p[n + 1][k + 1] = F[k][p[n + 1][k]]
      BY <1>4, <3>1
    <3> QED BY <2>2, <3>1, <3>2
  <2>3. Nat \subseteq Q
    <3> HIDE DEF Q
    <3> QED BY <2>1, <2>2, NatInduct
  <2> QED BY <2>3
<1> DEFINE h == [n \in Nat |-> p[n][n]]
<1>6. h \in [Nat -> S] /\ h[0] = x
  BY <1>4
<1>7. ASSUME NEW i \in Nat PROVE h[i + 1] = F[i][h[i]]
  <2>1. p[i + 1][i + 1] = F[i][p[i + 1][i]]
    BY <1>4
  <2> QED BY <1>5, <2>1
<1> QED BY <1>6, <1>7 DEF Recurrent

-----------------------------------------------------------------------------
(* Resolution *)

\* What _resolvePathWithCache is given and gives back.
Caches == UNION {[D -> File \cup {Missing}] : D \in SUBSET (Place \X Name)}
Truthful(c) == \A x \in DOMAIN c : Where[x] \in changed \/ c[x] = Resolver(x[1], x[2])
Answers ==
  {s \in [cache : Caches, entries : Nat, file : File \cup {Missing}] : Truthful(s.cache)}

\* The types of what resolution depends on, and the cache.
ResolveInv ==
  /\ status \in [File -> {"good", "broken", "absent"}]
  /\ changed \subseteq File
  /\ paths \in Seq(SearchPath)
  /\ cache \in Caches
  /\ entries \in Nat
  /\ CacheCurrent

LEMMA CacheParts ==
  ASSUME NEW c \in Caches
  PROVE  DOMAIN c \subseteq Place \X Name /\ \A x \in DOMAIN c : c[x] \in File \cup {Missing}
  BY DEF Caches

LEMMA CacheIs ==
  ASSUME NEW D \in SUBSET (Place \X Name), NEW c, c = [x \in D |-> c[x]],
         \A x \in D : c[x] \in File \cup {Missing}
  PROVE  c \in Caches
<1>1. c \in [D -> File \cup {Missing}]
  OBVIOUS
<1> QED BY <1>1 DEF Caches

LEMMA ResolverIs ==
  ASSUME NEW p \in Place, NEW n \in Name
  PROVE  Resolver(p, n) \in File \cup {Missing}
  BY DEF Resolver

\* A question answered from the cache or by the resolver.
LEMMA Asked ==
  ASSUME NEW s \in Answers, NEW p \in Place, NEW n \in Name, NEW r,
         r = ResolveWithCache(s, p, n)
  PROVE  r \in Answers /\ (changed = {} => r.file = Resolver(p, n))
<1>1. /\ s \in [cache : Caches, entries : Nat, file : File \cup {Missing}]
      /\ Truthful(s.cache)
  BY DEF Answers
<1> DEFINE x == <<p, n>>
<1>2. x \in Place \X Name /\ x[1] = p /\ x[2] = n
  OBVIOUS
<1>3. s.cache \in Caches /\ s.entries \in Nat
  BY <1>1
<1>4. CASE x \in DOMAIN s.cache
  <2>1. r = [s EXCEPT !.file = s.cache[x]]
    BY <1>4 DEF ResolveWithCache
  <2>2. s.cache[x] \in File \cup {Missing}
    BY <1>3, <1>4, CacheParts
  <2>3. /\ r \in [cache : Caches, entries : Nat, file : File \cup {Missing}]
        /\ r.cache = s.cache /\ r.file = s.cache[x]
    BY <1>1, <2>1, <2>2
  <2>4. changed = {} => s.cache[x] = Resolver(p, n)
    BY <1>1, <1>2, <1>4 DEF Truthful
  <2> QED BY <1>1, <2>3, <2>4 DEF Answers
<1>5. CASE x \notin DOMAIN s.cache
  <2> DEFINE full == s.entries >= CacheLimit
             kept == IF full THEN {} ELSE DOMAIN s.cache
             c == [y \in kept \cup {x} |-> IF y = x THEN Resolver(p, n) ELSE s.cache[y]]
  <2>1. r = [cache |-> c, entries |-> IF full THEN 1 ELSE s.entries + 1,
             file |-> Resolver(p, n)]
    BY <1>5 DEF ResolveWithCache
  <2>2. kept \subseteq DOMAIN s.cache /\ kept \cup {x} \in SUBSET (Place \X Name)
    BY <1>2, <1>3, CacheParts
  <2> HIDE DEF kept
  <2>3. \A y \in kept \cup {x} : c[y] = IF y = x THEN Resolver(p, n) ELSE s.cache[y]
    OBVIOUS
  <2>4. \A y \in kept \cup {x} : c[y] \in File \cup {Missing}
    BY <1>3, <2>2, <2>3, CacheParts, ResolverIs
  <2>5. DOMAIN c = kept \cup {x} /\ c = [y \in kept \cup {x} |-> c[y]]
    OBVIOUS
  <2>6. Truthful(c)
    BY <1>1, <1>2, <2>2, <2>3, <2>5 DEF Truthful
  <2> HIDE DEF c
  <2>7. c \in Caches
    BY <2>2, <2>4, <2>5, CacheIs
  <2>8. (IF full THEN 1 ELSE s.entries + 1) \in Nat
    BY <1>3
  <2> HIDE DEF full
  <2>9. /\ r \in [cache : Caches, entries : Nat, file : File \cup {Missing}]
        /\ r.cache = c /\ r.file = Resolver(p, n)
    BY <2>1, <2>7, <2>8, ResolverIs
  <2> QED BY <2>6, <2>9 DEF Answers
<1> QED BY <1>4, <1>5

\* The answer before any question.
LEMMA Unasked ==
  ASSUME ResolveInv
  PROVE  [cache |-> cache, entries |-> entries, file |-> Missing] \in Answers
  BY DEF ResolveInv, Answers, Truthful, CacheCurrent

\* The i-th place of the search: the root, then the search paths.
At(i) == IF i = 0 THEN Root ELSE paths[i]

\* An answer to n that came from the places up to the i-th.
Turn(n, i, s) == IF s.file # Missing THEN s ELSE ResolveWithCache(s, At(i), n)

FirstFound(n, i, file) ==
  IF file = Missing
    THEN \A j \in 0..i : Resolver(At(j), n) = Missing
    ELSE \E k \in 0..i : /\ Resolver(At(k), n) = file
                         /\ \A j \in 0..(k - 1) : Resolver(At(j), n) = Missing

\* The search as a sequence of answers, one for each place.
Searched(n, r) ==
  \E f \in [0..Len(paths) -> Answers] :
    /\ f[0] = ResolveWithCache([cache |-> cache, entries |-> entries, file |-> Missing], Root, n)
    /\ f[Len(paths)] = r
    /\ \A i \in 0..(Len(paths) - 1) : f[i + 1] = Turn(n, i + 1, f[i])

LEMMA AtPlace ==
  ASSUME ResolveInv
  PROVE  /\ Len(paths) \in Nat
         /\ \A i \in 0..Len(paths) : At(i) \in Place
  BY DEF ResolveInv, At, Place

LEMMA SearchTurns ==
  ASSUME ResolveInv, NEW n \in Name
  PROVE  Searched(n, PathSearch(n))
<1> DEFINE start == [cache |-> cache, entries |-> entries, file |-> Missing]
           x == ResolveWithCache(start, Root, n)
           N == Len(paths)
           upto[i \in 0..N] ==
             IF i = 0 THEN ResolveWithCache(start, Root, n)
             ELSE IF upto[i - 1].file # Missing THEN upto[i - 1]
             ELSE ResolveWithCache(upto[i - 1], paths[i], n)
           F == [i \in Nat |-> [s \in Answers |-> IF i < N THEN Turn(n, i + 1, s) ELSE s]]
<1>1. N \in Nat /\ x \in Answers
  <2>1. start \in Answers
    BY Unasked
  <2> HIDE DEF start
  <2>2. Root \in Place
    BY DEF Place
  <2> QED BY <2>1, <2>2, Asked, AtPlace
<1>2. ASSUME NEW i \in 0..N, NEW s \in Answers PROVE Turn(n, i, s) \in Answers
  BY Asked, AtPlace DEF Turn
<1>3. F \in [Nat -> [Answers -> Answers]]
  <2>1. ASSUME NEW i \in Nat, NEW s \in Answers
        PROVE  (IF i < N THEN Turn(n, i + 1, s) ELSE s) \in Answers
    <3>1. CASE i < N
      <4>1. i + 1 \in 0..N
        BY <1>1, <3>1
      <4> QED BY <1>2, <3>1, <4>1
    <3> QED BY <3>1
  <2> QED BY <2>1
<1>4. \A i \in Nat, s \in Answers : F[i][s] = IF i < N THEN Turn(n, i + 1, s) ELSE s
  OBVIOUS
<1>5. PathSearch(n) = upto[N]
  BY DEF PathSearch
<1> HIDE DEF F, x
<1>6. PICK f \in [Nat -> Answers] : f[0] = x /\ \A i \in Nat : f[i + 1] = F[i][f[i]]
  <2>1. Recurrent(Answers, x, F)
    BY <1>1, <1>3, Recursion
  <2> QED BY <2>1 DEF Recurrent
<1> DEFINE g == [i \in 0..N |-> f[i]]
<1>7. g \in [0..N -> Answers] /\ g[0] = x
  BY <1>1, <1>6
<1>8. \A i \in 0..(N - 1) : g[i + 1] = Turn(n, i + 1, g[i])
  <2> SUFFICES ASSUME NEW i \in 0..(N - 1) PROVE g[i + 1] = Turn(n, i + 1, g[i])
    OBVIOUS
  <2> HIDE DEF N
  <2>1. i \in Nat /\ i < N /\ i \in 0..N /\ i + 1 \in 0..N
    BY <1>1
  <2>2. g[i] = f[i] /\ g[i + 1] = f[i + 1] /\ f[i] \in Answers
    BY <1>6, <2>1
  <2> QED BY <1>4, <1>6, <2>1, <2>2
<1> HIDE DEF g
<1>9. g = [i \in 0..N |->
             IF i = 0 THEN ResolveWithCache(start, Root, n)
             ELSE IF g[i - 1].file # Missing THEN g[i - 1]
             ELSE ResolveWithCache(g[i - 1], paths[i], n)]
  <2> HIDE DEF N
  <2>1. ASSUME NEW i \in 0..N
        PROVE  g[i] = IF i = 0 THEN ResolveWithCache(start, Root, n)
                      ELSE IF g[i - 1].file # Missing THEN g[i - 1]
                      ELSE ResolveWithCache(g[i - 1], paths[i], n)
    <3>1. CASE i # 0
      <4>1. i - 1 \in 0..(N - 1) /\ (i - 1) + 1 = i
        BY <1>1, <3>1
      <4>2. g[i] = Turn(n, i, g[i - 1])
        BY <1>8, <4>1
      <4> QED BY <3>1, <4>2 DEF Turn, At
    <3>2. CASE i = 0
      BY <1>7, <3>2 DEF x
    <3> QED BY <3>1, <3>2
  <2> QED BY <1>7, <2>1
<1>10. upto = [i \in 0..N |->
                 IF i = 0 THEN ResolveWithCache(start, Root, n)
                 ELSE IF upto[i - 1].file # Missing THEN upto[i - 1]
                 ELSE ResolveWithCache(upto[i - 1], paths[i], n)]
  BY <1>9
<1> HIDE DEF upto, N
<1>11. upto[0] = x /\ DOMAIN upto = 0..N
  BY <1>1, <1>10 DEF x
<1>12. \A i \in 0..(N - 1) : upto[i + 1] = Turn(n, i + 1, upto[i])
  <2> SUFFICES ASSUME NEW i \in 0..(N - 1) PROVE upto[i + 1] = Turn(n, i + 1, upto[i])
    OBVIOUS
  <2>1. i + 1 \in 0..N /\ i + 1 # 0 /\ (i + 1) - 1 = i
    BY <1>1
  <2> QED BY <1>10, <2>1 DEF Turn, At
<1>13. upto \in [0..N -> Answers]
  <2> DEFINE S == {i \in Nat : i <= N => upto[i] \in Answers}
  <2>1. 0 \in S
    BY <1>1, <1>11
  <2>2. ASSUME NEW i \in Nat, i \in S PROVE i + 1 \in S
    <3> SUFFICES ASSUME i + 1 <= N PROVE upto[i + 1] \in Answers
      OBVIOUS
    <3>1. i \in 0..(N - 1) /\ i + 1 \in 0..N /\ upto[i] \in Answers
      BY <1>1, <2>2
    <3> QED BY <1>2, <1>12, <3>1
  <2>3. Nat \subseteq S
    <3> HIDE DEF S
    <3> QED BY <2>1, <2>2, NatInduct
  <2>4. \A i \in 0..N : upto[i] \in Answers
    BY <1>1, <2>3
  <2>5. upto = [i \in 0..N |-> upto[i]]
    BY <1>10
  <2> QED BY <2>4, <2>5
<1> QED BY <1>5, <1>11, <1>12, <1>13 DEF Searched, N, x

\* The answer of a search; the first file of the places if none has changed.
LEMMA SearchFound ==
  ASSUME ResolveInv, NEW n \in Name
  PROVE  /\ PathSearch(n) \in Answers
         /\ changed = {} => FirstFound(n, Len(paths), PathSearch(n).file)
<1> DEFINE N == Len(paths)
           start == [cache |-> cache, entries |-> entries, file |-> Missing]
<1>1. PICK f \in [0..N -> Answers] :
        /\ f[0] = ResolveWithCache(start, Root, n)
        /\ f[N] = PathSearch(n)
        /\ \A i \in 0..(N - 1) : f[i + 1] = Turn(n, i + 1, f[i])
  BY SearchTurns DEF Searched
<1>2. N \in Nat /\ \A i \in 0..N : At(i) \in Place
  BY AtPlace
<1>3. start \in Answers
  BY Unasked
<1> HIDE DEF N, start
<1>4. ASSUME changed = {} PROVE FirstFound(n, N, f[N].file)
  <2> DEFINE S == {i \in Nat : i <= N => FirstFound(n, i, f[i].file)}
  <2>1. 0 \in S
    <3>1. At(0) = Root /\ Root \in Place
      BY DEF At, Place
    <3>2. f[0].file = Resolver(At(0), n)
      BY <1>1, <1>3, <1>4, <3>1, Asked
    <3>3. FirstFound(n, 0, f[0].file)
      BY <3>2 DEF FirstFound
    <3> QED BY <3>3
  <2>2. ASSUME NEW i \in Nat, i \in S PROVE i + 1 \in S
    <3> SUFFICES ASSUME i + 1 <= N PROVE FirstFound(n, i + 1, f[i + 1].file)
      OBVIOUS
    <3>1. /\ i \in 0..(N - 1) /\ i \in 0..N /\ i + 1 \in 0..N
          /\ f[i] \in Answers /\ At(i + 1) \in Place
          /\ FirstFound(n, i, f[i].file)
      BY <1>1, <1>2, <2>2
    <3>2. f[i + 1] = Turn(n, i + 1, f[i])
      BY <1>1, <3>1
    <3>3. CASE f[i].file # Missing
      <4>1. f[i + 1] = f[i]
        BY <3>2, <3>3 DEF Turn
      <4> QED BY <3>1, <3>3, <4>1 DEF FirstFound
    <3>4. CASE f[i].file = Missing
      <4>1. f[i + 1].file = Resolver(At(i + 1), n)
        BY <1>4, <3>1, <3>2, <3>4, Asked DEF Turn
      <4>2. \A j \in 0..i : Resolver(At(j), n) = Missing
        BY <3>1, <3>4 DEF FirstFound
      <4>3. (i + 1) - 1 = i /\ \A j \in 0..(i + 1) : j \in 0..i \/ j = i + 1
        OBVIOUS
      <4> QED BY <3>1, <4>1, <4>2, <4>3 DEF FirstFound
    <3> QED BY <3>3, <3>4
  <2>3. Nat \subseteq S
    <3> HIDE DEF S
    <3> QED BY <2>1, <2>2, NatInduct
  <2> QED BY <1>2, <2>3
<1>5. f[N] \in Answers
  BY <1>1, <1>2
<1> QED BY <1>1, <1>4, <1>5 DEF N

LEMMA SearchIs ==
  ASSUME BodyInv, ResolveInv, NEW n \in Name, frames # <<>>
  PROVE  Search(n) \in Answers
<1>1. From \in Place
  <2>1. frames[Len(frames)] \in Frame
    BY DEF BodyInv, BodyTypes
  <2>2. frames[Len(frames)].module \in Object \cup {Chunk}
    BY <2>1 DEF Frame
  <2> QED BY <2>2 DEF From, FileOf, Object, Place
<1> QED BY <1>1, Unasked, Asked, SearchFound DEF Search

LEMMA AnswerKept ==
  ASSUME ResolveInv, NEW s \in Answers, cache' = s.cache, entries' = s.entries,
         UNCHANGED <<files, paths>>
  PROVE  ResolveInv'
<1>1. s.cache \in Caches /\ s.entries \in Nat /\ Truthful(s.cache)
  BY DEF Answers
<1>2. \A p, n : Resolver(p, n)' = Resolver(p, n)
  BY DEF Resolver, files
<1>3. CacheCurrent'
  BY <1>1, <1>2 DEF Truthful, CacheCurrent, files
<1> QED BY <1>1, <1>3 DEF ResolveInv, files

LEMMA ResolveStep == BodyInv /\ ResolveInv /\ [Next]_vars => ResolveInv'
<1> SUFFICES ASSUME BodyInv, ResolveInv, [Next]_vars PROVE ResolveInv'
  OBVIOUS
<1>0. NoWalk.todo = {}
  BY DEF NoWalk
<1>1. ASSUME UNCHANGED <<files, cache, entries>>, paths' \in Seq(SearchPath) PROVE ResolveInv'
  <2>1. \A p, n : Resolver(p, n)' = Resolver(p, n)
    BY <1>1 DEF Resolver, files
  <2>2. CacheCurrent'
    BY <1>1, <2>1 DEF ResolveInv, CacheCurrent, files
  <2> QED BY <1>1, <2>2 DEF ResolveInv, files
<1>2. ASSUME UNCHANGED <<files, resolution>> PROVE ResolveInv'
  BY <1>1, <1>2 DEF resolution, ResolveInv
<1>3. ASSUME NEW n \in Name, frames # <<>>, Fails(n) \/ \E m \in Object : Obtain(n, m)
      PROVE  ResolveInv'
  <2>1. /\ cache' = Search(n).cache /\ entries' = Search(n).entries
        /\ UNCHANGED <<files, paths>>
    BY <1>3 DEF Fails, Obtain
  <2>2. Search(n) \in Answers
    BY <1>3, SearchIs
  <2> QED BY <2>1, <2>2, AnswerKept
<1>4. ASSUME NEW n \in Name, Import(n) \/ ImportFails(n) \/ Load(n) PROVE ResolveInv'
  <2>1. frames # <<>> /\ (Fails(n) \/ \E m \in Object : Obtain(n, m))
    BY <1>4 DEF Import, ImportFails, Load, Running
  <2> QED BY <1>3, <2>1
<1>5. ASSUME NEW n \in Name, WalkFile(n) \/ WalkFails(n) \/ PlainFails(n) PROVE ResolveInv'
  <2>1. n \in walk.todo /\ (Fails(n) \/ \E m \in Object : Obtain(n, m))
    BY <1>5 DEF WalkFile, WalkFails, PlainFails
  <2>2. frames # <<>>
    BY <1>0, <2>1 DEF BodyInv, Idle
  <2> QED BY <1>3, <2>1, <2>2
<1>6. CASE RunChunk \/ WalkDone \/ Return \/ Fail \/ UNCHANGED vars
  BY <1>2, <1>6 DEF RunChunk, WalkDone, Return, Fail, vars
<1>7. ASSUME NEW f \in File, RunFile(f) PROVE ResolveInv'
  BY <1>2, <1>7 DEF RunFile
<1>8. ASSUME NEW d \in Directory, ImportAll(d) PROVE ResolveInv'
  BY <1>2, <1>8 DEF ImportAll
<1>9. ASSUME NEW m \in Object, WalkEnter(m) PROVE ResolveInv'
  BY <1>2, <1>9 DEF WalkEnter
<1>10. ASSUME Emptied, UNCHANGED status, paths' \in Seq(SearchPath) PROVE ResolveInv'
  <2>1. cache' = <<>> /\ entries' = 0 /\ changed' = {} /\ DOMAIN <<>> = {}
    BY <1>10 DEF Emptied
  <2>2. cache' \in Caches
    <3>1. <<>> = [x \in {} |-> <<>>[x]]
      OBVIOUS
    <3> QED BY <2>1, <3>1, CacheIs
  <2>3. CacheCurrent'
    BY <2>1 DEF CacheCurrent
  <2> QED BY <1>10, <2>1, <2>2, <2>3 DEF ResolveInv
<1>11. ASSUME NEW p \in SearchPath, AddSearchPath(p) PROVE ResolveInv'
  BY <1>10, <1>11 DEF AddSearchPath, ResolveInv
<1>12. ASSUME NEW p \in SearchPath, AppendPath(p) PROVE ResolveInv'
  BY <1>1, <1>12 DEF AppendPath, ResolveInv
<1>13. CASE ClearImportResolveCache
  BY <1>10, <1>13 DEF ClearImportResolveCache, ResolveInv
<1>14. ASSUME NEW f \in File, Edit(f) PROVE ResolveInv'
  <2>1. PICK x \in {"good", "broken", "absent"} : status' = [status EXCEPT ![f] = x]
    BY <1>14 DEF Edit
  <2>2. changed' = changed \cup {f} /\ UNCHANGED resolution
    BY <1>14 DEF Edit
  <2>3. status' \in [File -> {"good", "broken", "absent"}]
    BY <2>1 DEF ResolveInv
  <2>4. ASSUME NEW y \in DOMAIN cache, Where[y] \notin changed'
        PROVE  cache[y] = Resolver(y[1], y[2])'
    <3>1. y \in Place \X Name
      BY CacheParts DEF ResolveInv
    <3>2. y = <<y[1], y[2]>> /\ Where[y] \in File \cup {Missing}
      BY <3>1
    <3>3. cache[y] = Resolver(y[1], y[2])
      BY <2>2, <2>4 DEF ResolveInv, CacheCurrent
    <3>4. Where[y] # Missing => status'[Where[y]] = status[Where[y]]
      BY <2>1, <2>2, <2>4, <3>2 DEF ResolveInv
    <3> QED BY <3>2, <3>3, <3>4 DEF Resolver
  <2>5. CacheCurrent'
    BY <2>2, <2>4 DEF CacheCurrent, resolution
  <2> QED BY <2>2, <2>3, <2>5 DEF ResolveInv, resolution
<1> QED BY <1>4, <1>5, <1>6, <1>7, <1>8, <1>9, <1>11, <1>12, <1>13, <1>14 DEF Next

\* The modules of a file but the first were made by RunFile, which runs them,
\* and the rest of the types.
RestInv ==
  /\ error \in BOOLEAN
  /\ ended \subseteq Object
  /\ \A m \in Object : 1 < m[2] /\ m[2] <= loaded[m[1]] => m \in initialized

\* No module but the first ones is made, and none is unmarked.
LEMMA FirstsOnly ==
  ASSUME BodyTypes, RestInv, initialized \subseteq initialized',
         \A f \in File : loaded'[f] = loaded[f] \/ loaded'[f] = 1,
         error' \in BOOLEAN, ended' \subseteq Object
  PROVE  RestInv'
<1>1. ASSUME NEW m \in Object, 1 < m[2], m[2] <= loaded'[m[1]] PROVE m \in initialized'
  <2>1. m[1] \in File /\ m[2] \in Nat
    BY DEF Object
  <2>2. loaded'[m[1]] = loaded[m[1]]
    BY <1>1, <2>1
  <2> QED BY <1>1, <2>2 DEF RestInv
<1> QED BY <1>1 DEF RestInv

LEMMA RestStep == BodyInv /\ RestInv /\ [Next]_vars => RestInv'
<1> SUFFICES ASSUME BodyInv, RestInv, [Next]_vars PROVE RestInv'
  OBVIOUS
<1>0. BodyTypes /\ Modules \subseteq Object /\ error \in BOOLEAN /\ ended \subseteq Object
  BY ModulesAreObjects DEF BodyInv, RestInv
<1>1. ASSUME UNCHANGED loaded, initialized \subseteq initialized',
             error' \in BOOLEAN, ended' \subseteq Object
      PROVE  RestInv'
  BY <1>0, <1>1, FirstsOnly
<1>2. ASSUME NEW n \in Name, NEW m \in Object, Obtain(n, m)
      PROVE  \A f \in File : loaded'[f] = loaded[f] \/ loaded'[f] = 1
  <2> DEFINE f == Search(n).file
  <2>1. /\ loaded' = IF loaded[f] > 0 THEN loaded ELSE [loaded EXCEPT ![f] = 1]
        /\ m = <<f, loaded'[f]>>
    BY <1>2 DEF Obtain
  <2> HIDE DEF f
  <2> QED BY <1>0, <2>1 DEF BodyTypes, Object
<1>3. ASSUME NEW S \in SUBSET Object, Unwind(S) PROVE error' \in BOOLEAN /\ ended' \subseteq Object
  BY <1>0, <1>3 DEF Unwind
<1>4. CASE RunChunk
  BY <1>0, <1>1, <1>4 DEF RunChunk, Begin
<1>5. ASSUME NEW f \in File, RunFile(f) PROVE RestInv'
  <2> DEFINE m == <<f, loaded[f] + 1>>
  <2>1. /\ loaded' = [loaded EXCEPT ![f] = @ + 1] /\ initialized' = initialized \cup {m}
        /\ error' = error /\ ended' = ended
    BY <1>5 DEF RunFile, Begin
  <2>2. ASSUME NEW o \in Object, 1 < o[2], o[2] <= loaded'[o[1]] PROVE o \in initialized'
    <3>1. o = <<o[1], o[2]>> /\ o[1] \in File /\ o[2] \in Nat
      BY DEF Object
    <3>2. loaded[o[1]] \in Nat
      BY <1>0, <3>1 DEF BodyTypes
    <3>3. o[2] <= loaded[o[1]] \/ (o[1] = f /\ o[2] = loaded[f] + 1)
      BY <1>0, <2>1, <2>2, <3>1, <3>2 DEF BodyTypes
    <3> QED BY <2>1, <2>2, <3>1, <3>3 DEF RestInv
  <2> QED BY <1>0, <2>1, <2>2 DEF RestInv
<1>6. ASSUME NEW n \in Name, Import(n) PROVE RestInv'
  <2>1. PICK m \in Object :
          /\ Obtain(n, m)
          /\ IF m \in initialized
               THEN UNCHANGED <<frames, initialized, starts, capacity>>
               ELSE frames' = Append(frames, New(m)) /\ Enter(m)
    BY <1>6 DEF Import
  <2>2. initialized \subseteq initialized'
    BY <2>1 DEF Enter
  <2>3. error' = error /\ ended' = ended
    BY <1>6 DEF Import
  <2>4. \A f \in File : loaded'[f] = loaded[f] \/ loaded'[f] = 1
    BY <1>2, <2>1
  <2> QED BY <1>0, <2>2, <2>3, <2>4, FirstsOnly
<1>7. ASSUME NEW n \in Name, Fails(n) \/ \E m \in Object : Obtain(n, m),
             initialized \subseteq initialized', error' \in BOOLEAN, ended' \subseteq Object
      PROVE  RestInv'
  <2>1. CASE Fails(n)
    BY <1>1, <1>7, <2>1 DEF Fails
  <2>2. ASSUME NEW m \in Object, Obtain(n, m) PROVE RestInv'
    <3>1. \A f \in File : loaded'[f] = loaded[f] \/ loaded'[f] = 1
      BY <1>2, <2>2
    <3> QED BY <1>0, <1>7, <3>1, FirstsOnly
  <2> QED BY <1>7, <2>1, <2>2
<1>8. ASSUME NEW n \in Name, ImportFails(n) PROVE RestInv'
  <2>1. /\ Fails(n) \/ \E m \in Object : Obtain(n, m)
        /\ Unwind(Modules) /\ initialized' = initialized
    BY <1>8 DEF ImportFails
  <2> QED BY <1>0, <1>3, <1>7, <2>1
<1>9. ASSUME NEW n \in Name, Load(n) PROVE RestInv'
  <2>1. \E m \in Object : Obtain(n, m)
    BY <1>9 DEF Load
  <2>2. initialized' = initialized /\ error' = error /\ ended' = ended
    BY <1>9 DEF Load, bodies
  <2> QED BY <1>0, <1>7, <2>1, <2>2
<1>10. ASSUME NEW d \in Directory, ImportAll(d) PROVE RestInv'
  BY <1>0, <1>1, <1>10 DEF ImportAll
<1>11. ASSUME NEW n \in Name, WalkFile(n) PROVE RestInv'
  <2>1. \E m \in Object : Obtain(n, m)
    BY <1>11 DEF WalkFile
  <2>2. initialized' = initialized /\ error' = error /\ ended' = ended
    BY <1>11 DEF WalkFile, bodies
  <2> QED BY <1>0, <1>7, <2>1, <2>2
<1>12. ASSUME NEW n \in Name, WalkFails(n) PROVE RestInv'
  <2>1. Fails(n) /\ initialized' = initialized /\ error' = TRUE /\ ended' = ended
    BY <1>12 DEF WalkFails, bodies
  <2> QED BY <1>0, <1>7, <2>1
<1>13. ASSUME NEW n \in Name, PlainFails(n) PROVE RestInv'
  <2>1. Fails(n) /\ initialized' = initialized /\ Unwind(Modules)
    BY <1>13 DEF PlainFails
  <2> QED BY <1>0, <1>3, <1>7, <2>1
<1>14. ASSUME NEW m \in Object, WalkEnter(m) PROVE RestInv'
  <2>1. UNCHANGED loaded /\ initialized' = initialized \cup {m}
    BY <1>14 DEF WalkEnter, Enter
  <2>2. error' \in BOOLEAN /\ ended' \subseteq Object
    <3>1. CASE error
      BY <1>0, <1>3, <1>14, <3>1 DEF WalkEnter
    <3>2. CASE ~error
      BY <1>0, <1>14, <3>2 DEF WalkEnter
    <3> QED BY <3>1, <3>2
  <2> QED BY <1>1, <2>1, <2>2
<1>15. CASE WalkDone
  BY <1>0, <1>1, <1>15 DEF WalkDone
<1>16. CASE Return
  <2>1. /\ frames # <<>> /\ UNCHANGED <<loaded, initialized>>
        /\ ended' = ended \cup ({frames[Len(frames)].module} \ {Chunk})
        /\ error' = (error /\ Len(frames) > 1)
    BY <1>16 DEF Return, Running
  <2>2. {frames[Len(frames)].module} \ {Chunk} \subseteq Modules
    <3>1. Len(frames) \in 1..Len(frames)
      BY <1>0, <2>1 DEF BodyTypes
    <3> QED BY <3>1 DEF Modules
  <2>3. ended' \subseteq Object
    BY <1>0, <2>1, <2>2
  <2> QED BY <1>1, <2>1, <2>3
<1>17. CASE Fail
  BY <1>0, <1>1, <1>3, <1>17 DEF Fail
<1>18. ASSUME NEW p \in SearchPath, AddSearchPath(p) \/ AppendPath(p) PROVE RestInv'
  BY <1>0, <1>1, <1>18 DEF AddSearchPath, AppendPath, bodies
<1>19. CASE ClearImportResolveCache
  BY <1>0, <1>1, <1>19 DEF ClearImportResolveCache, bodies
<1>20. ASSUME NEW f \in File, Edit(f) PROVE RestInv'
  BY <1>0, <1>1, <1>20 DEF Edit, bodies
<1>21. CASE UNCHANGED vars
  BY <1>0, <1>1, <1>21 DEF vars, bodies
<1> QED
  BY <1>4, <1>5, <1>6, <1>8, <1>9, <1>10, <1>11, <1>12, <1>13, <1>14, <1>15,
     <1>16, <1>17, <1>18, <1>19, <1>20, <1>21 DEF Next

\* What a state says of imports.
AgreeInv == BodyInv /\ RewindInv /\ ResolveInv /\ RestInv

LEMMA AgreeCorrect == Spec => []AgreeInv
<1>1. Init => ResolveInv /\ RestInv
  <2> SUFFICES ASSUME Init PROVE ResolveInv /\ RestInv
    OBVIOUS
  <2>1. cache = <<>> /\ DOMAIN <<>> = {}
    BY DEF Init
  <2>2. cache \in Caches
    <3>1. <<>> = [x \in {} |-> <<>>[x]]
      OBVIOUS
    <3> QED BY <2>1, <3>1, CacheIs
  <2>3. ResolveInv
    BY <2>1, <2>2 DEF Init, ResolveInv, CacheCurrent
  <2>4. \A m \in Object : m[2] \in 1..MaxLoads /\ m[1] \in File
    BY DEF Object
  <2>5. ASSUME NEW m \in Object, 1 < m[2], m[2] <= loaded[m[1]] PROVE FALSE
    <3>1. loaded[m[1]] = 0 /\ m[2] \in Nat
      BY <2>4 DEF Init
    <3> QED BY <2>5, <3>1
  <2>6. RestInv
    BY <2>5 DEF Init, RestInv
  <2> QED BY <2>3, <2>6
<1> QED BY <1>1, BodyCorrect, RewindCorrect, ResolveStep, RestStep, PTL DEF Spec, AgreeInv

FirstIn(places, n, f) ==
  \E i \in DOMAIN places :
    /\ Resolver(places[i], n) = f
    /\ \A j \in 1..(i - 1) : Resolver(places[j], n) = Missing

LEMMA FirstInPlaces ==
  ASSUME ResolveInv, NEW n \in Name, NEW f \in File, FirstFound(n, Len(paths), f)
  PROVE  FirstIn(<<Root>> \o paths, n, f)
<1> DEFINE places == <<Root>> \o paths
<1>1. paths \in Seq(SearchPath) /\ Len(paths) \in Nat
  BY DEF ResolveInv
<1>2. DOMAIN places = 1..(Len(paths) + 1) /\ \A j \in 0..Len(paths) : places[j + 1] = At(j)
  BY <1>1 DEF At
<1> HIDE DEF places
<1>3. PICK k \in 0..Len(paths) :
        Resolver(At(k), n) = f /\ \A j \in 0..(k - 1) : Resolver(At(j), n) = Missing
  <2>1. f # Missing
    OBVIOUS
  <2> QED BY <2>1 DEF FirstFound
<1>4. k + 1 \in DOMAIN places /\ Resolver(places[k + 1], n) = f
  BY <1>1, <1>2, <1>3
<1>5. ASSUME NEW j \in 1..((k + 1) - 1) PROVE Resolver(places[j], n) = Missing
  <2>1. j - 1 \in 0..(k - 1) /\ j - 1 \in 0..Len(paths) /\ (j - 1) + 1 = j
    BY <1>1, <1>3
  <2> QED BY <1>2, <1>3, <2>1
<1> QED BY <1>4, <1>5 DEF FirstIn, places

\* Whatever was cached, evicted, added to the search paths or imported before:
\* imports of a file between two RunFile of it share one module, a cached answer
\* is the resolver's unless the file has changed since, and a name that is not
\* relative means the first file along the root and the search paths
\* (_resolvePathWithCache, _importPathSearch, _importResolved).
THEOREM ImportsCorrect == Spec => ImportsAgree
<1>1. AgreeInv => TypeOK /\ OneModule /\ CacheCurrent
  <2> SUFFICES ASSUME AgreeInv PROVE TypeOK /\ OneModule /\ CacheCurrent
    OBVIOUS
  <2>1. TypeOK
    BY CacheParts DEF AgreeInv, BodyInv, BodyTypes, RewindInv, ResolveInv, RestInv, TypeOK
  <2>2. \A m \in Modules \cup initialized \cup walk.found : m[2] <= loaded[m[1]]
    <3>1. Modules \cup initialized \cup walk.found \subseteq Object
      BY ModulesAreObjects DEF AgreeInv, BodyInv, BodyTypes, Walk
    <3> SUFFICES ASSUME NEW m \in Object, m \in Modules \cup initialized \cup walk.found
                 PROVE  m[2] <= loaded[m[1]]
      BY <3>1
    <3>2. m[2] \in Nat
      BY DEF Object
    <3> QED BY <3>2 DEF AgreeInv, BodyInv, Current, Marked
  <2>3. OneModule
    BY <2>2 DEF OneModule, AgreeInv, RestInv
  <2> QED BY <2>1, <2>3 DEF AgreeInv, ResolveInv
<1>2. AgreeInv /\ [Next]_vars =>
        [\A n \in Name \ Relative, m \in Object :
           Obtain(n, m) /\ changed = {} =>
             LET places == <<Root>> \o paths
             IN \E i \in DOMAIN places :
                  /\ Resolver(places[i], n) = m[1]
                  /\ \A j \in 1..(i - 1) : Resolver(places[j], n) = Missing]_vars
  <2> SUFFICES ASSUME AgreeInv, NEW n \in Name \ Relative, NEW m \in Object,
                      Obtain(n, m), changed = {}
               PROVE  LET places == <<Root>> \o paths
                      IN \E i \in DOMAIN places :
                           /\ Resolver(places[i], n) = m[1]
                           /\ \A j \in 1..(i - 1) : Resolver(places[j], n) = Missing
    OBVIOUS
  <2>1. m[1] = PathSearch(n).file /\ m[1] \in File /\ ResolveInv
    BY DEF Obtain, Search, Object, AgreeInv
  <2>2. FirstFound(n, Len(paths), m[1])
    BY <2>1, SearchFound
  <2>3. FirstIn(<<Root>> \o paths, n, m[1])
    BY <2>1, <2>2, FirstInPlaces
  <2> QED BY <2>3 DEF FirstIn
<1> QED BY <1>1, <1>2, AgreeCorrect, PTL DEF Spec, ImportsAgree, FirstOnPath

=============================================================================
