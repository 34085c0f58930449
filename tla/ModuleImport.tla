---------------------------- MODULE ModuleImport ----------------------------
(***************************************************************************)
(* Imports: how a name is resolved to a file through the search paths and  *)
(* the resolve cache, how a file becomes a module, and how the bodies of   *)
(* modules run on the frames of the importing fiber.                       *)
(*                                                                         *)
(* A module object is <<f, k>>, the k-th one made from file f: imports     *)
(* make one and register it, RunFile makes and registers another each      *)
(* time, so the registered module of f is <<f, loaded[f]>>.  Native        *)
(* modules and custom searchers are left out: they have no body to run.    *)
(***************************************************************************)
EXTENDS Integers, Sequences, FiniteSets, SequencesExt

CONSTANTS
  File,          \* resolved paths of scripts
  Volatile,      \* those that are created, removed or edited at run time
  Name,          \* what import statements name
  Relative,      \* the names that start with a dot
  Directory,     \* what wildcard imports name
  Plain,         \* those that are files and no directories
  Listing,       \* the names in each directory, the one of a plain file
  SearchPath,    \* entries of package.path
  Root,          \* resolution without a search path (VAR_NULL as from_key)
  Where,         \* where a place has a name, if the file exists
  Missing,       \* VAR_FALSE in the cache: not found
  Chunk,         \* the code of RunString or of a line of the REPL
  None,
  MaxLoads,      \* bound on the modules made from one file
  CacheLimit,    \* import_resolve_cache_limit
  InitialFrames  \* INITIAL_CALL_FRAMES

Place == {Root} \cup SearchPath \cup File
Object == File \X (1..MaxLoads)

ASSUME ImportAssumption ==
  /\ Volatile \subseteq File
  /\ Relative \subseteq Name
  /\ Plain \subseteq Directory
  /\ Listing \in [Directory -> SUBSET Name]
  /\ Where \in [Place \X Name -> File \cup {Missing}]
  /\ Missing \notin File /\ Root \notin File
  /\ None \notin Directory
  /\ Chunk \notin Object
  /\ MaxLoads \in Nat \ {0}
  /\ CacheLimit \in Nat \ {0}
  /\ InitialFrames \in Nat \ {0}

VARIABLES
  status,       \* of each file: what loading it gives
  changed,      \* files whose status changed since the cache was empty (history)
  paths,        \* search_paths
  cache,        \* import_resolve_cache, its buckets flattened
  entries,      \* import_resolve_cache_entries
  loaded,       \* modules made from each file; the last one is registered
  initialized,  \* the modules marked so
  frames,       \* of the running fiber: the main function of a module each
  capacity,     \* frame_capacity
  walk,         \* a wildcard import under way, of the top frame
  error,        \* whether the fiber has an error pending
  starts,       \* how often each body was entered (history)
  ended         \* the bodies that returned or that an error unwound (history)

files == <<status, changed>>
resolution == <<paths, cache, entries>>
bodies == <<initialized, frames, capacity, starts, ended>>
vars == <<files, resolution, loaded, bodies, walk, error>>

\* A frame has a wildcard statement it has not finished, in [all]; [rewound]
\* says that its ip is back at that statement, and [extra] counts the operands
\* it has on the stack besides what the compiler knows of.
Frame ==
  [module : Object \cup {Chunk}, all : Directory \cup {None}, rewound : BOOLEAN,
   extra : Nat]

NoWalk == [todo |-> {}, found |-> {}, dir |-> None]
Walk == [todo : SUBSET Name, found : SUBSET Object, dir : Directory \cup {None}]

TypeOK ==
  /\ status \in [File -> {"good", "broken", "absent"}]
  /\ changed \subseteq File
  /\ paths \in Seq(SearchPath)
  /\ DOMAIN cache \subseteq Place \X Name
  /\ \A x \in DOMAIN cache : cache[x] \in File \cup {Missing}
  /\ entries \in Nat
  /\ loaded \in [File -> 0..MaxLoads]
  /\ initialized \subseteq Object
  /\ frames \in Seq(Frame)
  /\ capacity \in Nat
  /\ walk \in Walk
  /\ error \in BOOLEAN
  /\ starts \in [Object -> Nat]
  /\ ended \subseteq Object

Init ==
  /\ status = [f \in File |-> "good"]
  /\ changed = {}
  /\ paths = <<>>
  /\ cache = <<>>
  /\ entries = 0
  /\ loaded = [f \in File |-> 0]
  /\ initialized = {}
  /\ frames = <<>>
  /\ capacity = InitialFrames
  /\ walk = NoWalk
  /\ error = FALSE
  /\ starts = [m \in Object |-> 0]
  /\ ended = {}

-----------------------------------------------------------------------------
(* Resolution *)

\* config.resolve_path_fn: the file, if it is there.
Resolver(p, n) ==
  LET f == Where[<<p, n>>]
  IN IF f # Missing /\ status[f] # "absent" THEN f ELSE Missing

\* _resolvePathWithCache.  An answer, found or not, is cached; a full cache is
\* emptied before.
ResolveWithCache(s, p, n) ==
  IF <<p, n>> \in DOMAIN s.cache
    THEN [s EXCEPT !.file = s.cache[<<p, n>>]]
    ELSE LET full == s.entries >= CacheLimit
             kept == IF full THEN {} ELSE DOMAIN s.cache
             r == Resolver(p, n)
         IN [cache |-> [x \in kept \cup {<<p, n>>} |-> IF x = <<p, n>> THEN r ELSE s.cache[x]],
             entries |-> IF full THEN 1 ELSE s.entries + 1,
             file |-> r]

\* Mutant: the search paths come before the root.
PathSearchRootLast(n) ==
  FoldLeft(LAMBDA s, p : IF s.file # Missing THEN s ELSE ResolveWithCache(s, p, n),
           [cache |-> cache, entries |-> entries, file |-> Missing], Append(paths, Root))

\* _importPathSearch: the root, then every search path, up to the first answer.
PathSearch(n) ==
  LET upto[i \in 0..Len(paths)] ==
        IF i = 0
          THEN ResolveWithCache([cache |-> cache, entries |-> entries, file |-> Missing], Root, n)
        ELSE IF upto[i - 1].file # Missing THEN upto[i - 1]
        ELSE ResolveWithCache(upto[i - 1], paths[i], n)
  IN  upto[Len(paths)]

top == Len(frames)

FileOf(i) == IF frames[i].module = Chunk THEN Root ELSE frames[i].module[1]

\* Where a relative name is resolved from: module->path.
From == FileOf(top)

Search(n) ==
  IF n \in Relative
    THEN ResolveWithCache([cache |-> cache, entries |-> entries, file |-> Missing], From, n)
    ELSE PathSearch(n)

\* vmImportModule gives m: the registered module of the file that is found, or
\* one compiled and registered now.
Obtain(n, m) ==
  LET s == Search(n)
  IN /\ s.file # Missing
     /\ loaded[s.file] > 0 \/ status[s.file] = "good"
     /\ loaded' = IF loaded[s.file] > 0 THEN loaded ELSE [loaded EXCEPT ![s.file] = 1]
     /\ m = <<s.file, loaded'[s.file]>>
     /\ cache' = s.cache
     /\ entries' = s.entries
     /\ UNCHANGED <<files, paths>>

\* vmImportModule sets an error: nothing is found, or it cannot be loaded or
\* compiled.
Fails(n) ==
  LET s == Search(n)
  IN /\ s.file # Missing => loaded[s.file] = 0 /\ status[s.file] # "good"
     /\ cache' = s.cache
     /\ entries' = s.entries
     /\ UNCHANGED <<files, paths, loaded>>

-----------------------------------------------------------------------------
(* Frames *)

Modules == {frames[i].module : i \in 1..top} \ {Chunk}

\* Runs code of a module body: what follows the current instruction is free.
Running == frames # <<>> /\ walk = NoWalk /\ ~frames[top].rewound

New(m) == [module |-> m, all |-> None, rewound |-> FALSE, extra |-> 0]

\* pushCallFrame of the body of m.
Grown == IF top + 1 > capacity THEN 2 * capacity ELSE capacity

\* Mutant: the module is marked when its body has returned.
EnterMarkingLate(m) ==
  /\ initialized' = initialized \cup ended
  /\ starts' = [starts EXCEPT ![m] = @ + 1]
  /\ capacity' = Grown

Enter(m) ==
  /\ initialized' = initialized \cup {m}
  /\ starts' = [starts EXCEPT ![m] = @ + 1]
  /\ capacity' = Grown

\* CHECK_ERROR, RUNTIME_ERROR: the error ends the fiber and all its frames.
Unwind(S) ==
  /\ frames' = <<>>
  /\ walk' = NoWalk
  /\ error' = FALSE
  /\ ended' = ended \cup S

\* A host runs code on a new fiber.
Begin(m) ==
  /\ frames' = <<New(m)>>
  /\ UNCHANGED <<walk, error, ended>>

\* RunString, RunREPL.
RunChunk ==
  /\ frames = <<>>
  /\ Begin(Chunk)
  /\ capacity' = InitialFrames
  /\ UNCHANGED <<files, resolution, loaded, initialized, starts>>

\* Mutant: the module of the file is not marked.
RunFileUnmarked(f) ==
  /\ frames = <<>>
  /\ status[f] = "good"
  /\ loaded[f] < MaxLoads
  /\ loaded' = [loaded EXCEPT ![f] = @ + 1]
  /\ Begin(<<f, loaded[f] + 1>>)
  /\ starts' = [starts EXCEPT ![<<f, loaded[f] + 1>>] = @ + 1]
  /\ capacity' = InitialFrames
  /\ UNCHANGED <<files, resolution, initialized>>

\* RunFileWithModule: the module is new even if the file was imported before.
RunFile(f) ==
  /\ frames = <<>>
  /\ status[f] = "good"
  /\ loaded[f] < MaxLoads
  /\ loaded' = [loaded EXCEPT ![f] = @ + 1]
  /\ LET m == <<f, loaded[f] + 1>>
     IN /\ Begin(m)
        /\ initialized' = initialized \cup {m}
        /\ starts' = [starts EXCEPT ![m] = @ + 1]
  /\ capacity' = InitialFrames
  /\ UNCHANGED <<files, resolution>>

\* IMPORT.  The module it pushes is stored and popped by the instructions that
\* follow it.
Import(n) ==
  /\ Running
  /\ ~error
  /\ \E m \in Object :
       /\ Obtain(n, m)
       /\ IF m \in initialized
            THEN UNCHANGED <<frames, initialized, starts, capacity>>
            ELSE frames' = Append(frames, New(m)) /\ Enter(m)
  /\ UNCHANGED <<walk, error, ended>>

\* IMPORT or package.load fails, or finds an error pending.
ImportFails(n) ==
  /\ Running
  /\ Fails(n) \/ (error /\ \E m \in Object : Obtain(n, m))
  /\ Unwind(Modules)
  /\ UNCHANGED <<initialized, starts, capacity>>

\* package.load: the module is not entered.
Load(n) ==
  /\ Running
  /\ ~error
  /\ \E m \in Object : Obtain(n, m)
  /\ UNCHANGED <<bodies, walk, error>>

\* IMPORT_WILDCARD, from the start or again after a rewind: utilWalkDirectory
\* begins.
ImportAll(d) ==
  /\ frames # <<>>
  /\ walk = NoWalk
  /\ frames[top].rewound => d = frames[top].all
  /\ walk' = [todo |-> Listing[d], found |-> {}, dir |-> d]
  /\ frames' = [frames EXCEPT ![top] = [@ EXCEPT !.all = d, !.rewound = FALSE]]
  /\ UNCHANGED <<files, resolution, loaded, initialized, capacity, starts, ended, error>>

\* wildcardRuntimeCallback, for one file of the directory, or the import of the
\* path itself where there is no directory.
WalkFile(n) ==
  /\ n \in walk.todo
  /\ \E m \in Object :
       /\ Obtain(n, m)
       /\ walk' = [walk EXCEPT !.todo = @ \ {n}, !.found = @ \cup {m}]
  /\ UNCHANGED <<bodies, error>>

\* The callback leaves an error pending, and the walk goes on.
WalkFails(n) ==
  /\ n \in walk.todo
  /\ walk.dir \notin Plain
  /\ Fails(n)
  /\ walk' = [walk EXCEPT !.todo = @ \ {n}]
  /\ error' = TRUE
  /\ UNCHANGED bodies

\* Where there is no directory, the error is raised at once.
PlainFails(n) ==
  /\ n \in walk.todo
  /\ walk.dir \in Plain
  /\ Fails(n)
  /\ Unwind(Modules)
  /\ UNCHANGED <<initialized, starts, capacity>>

Walked == walk.dir # None /\ walk.todo = {}

\* Mutant: the frame goes on after the statement.
RewindNever(fr) == {[fr EXCEPT !.extra = @ + 1]}

\* What becomes of the importing frame when a body is entered: its ip is
\* rewound through a pointer that pushCallFrame may have made dangling.
Rewind(fr) ==
  {[fr EXCEPT !.rewound = r, !.extra = @ + 1] :
     r \in IF top + 1 > capacity THEN BOOLEAN ELSE {TRUE}}

\* Mutant: all modules that were found are marked with the first one.
WalkEnterMarkingAll(m) ==
  /\ Walked
  /\ m \in walk.found \ initialized
  /\ initialized' = initialized \cup walk.found
  /\ starts' = [starts EXCEPT ![m] = @ + 1]
  /\ capacity' = Grown
  /\ IF error
       THEN Unwind(Modules \cup {m})
       ELSE /\ \E fr \in Rewind(frames[top]) :
                 frames' = Append([frames EXCEPT ![top] = fr], New(m))
            /\ walk' = NoWalk
            /\ UNCHANGED <<error, ended>>
  /\ UNCHANGED <<files, resolution, loaded>>

\* The walk is over: a module that was not initialized is pushed and entered.
WalkEnter(m) ==
  /\ Walked
  /\ m \in walk.found \ initialized
  /\ Enter(m)
  /\ IF error
       THEN Unwind(Modules \cup {m})
       ELSE /\ \E fr \in Rewind(frames[top]) :
                 frames' = Append([frames EXCEPT ![top] = fr], New(m))
            /\ walk' = NoWalk
            /\ UNCHANGED <<error, ended>>
  /\ UNCHANGED <<files, resolution, loaded>>

\* The walk is over and all it found is initialized: the globals are copied.
WalkDone ==
  /\ Walked
  /\ walk.found \subseteq initialized
  /\ frames' = [frames EXCEPT ![top] = [@ EXCEPT !.all = None]]
  /\ walk' = NoWalk
  /\ UNCHANGED <<files, resolution, loaded, initialized, capacity, starts, ended, error>>

\* RETURN of a body.
Return ==
  /\ Running
  /\ frames' = SubSeq(frames, 1, top - 1)
  /\ ended' = ended \cup ({frames[top].module} \ {Chunk})
  /\ error' = (error /\ top > 1)
  /\ UNCHANGED <<files, resolution, loaded, initialized, capacity, starts, walk>>

\* Any other instruction that fails, or that finds the pending error.
Fail ==
  /\ Running
  /\ Unwind(Modules)
  /\ UNCHANGED <<files, resolution, loaded, initialized, starts, capacity>>

-----------------------------------------------------------------------------
(* Search paths, the cache and the files *)

Emptied == cache' = <<>> /\ entries' = 0 /\ changed' = {}

\* AddSearchPath
AddSearchPath(p) ==
  /\ p \notin Range(paths)
  /\ paths' = Append(paths, p)
  /\ Emptied
  /\ UNCHANGED <<status, loaded, bodies, walk, error>>

\* package.path.append, from a script: the cache stays.
AppendPath(p) ==
  /\ Running
  /\ p \notin Range(paths)
  /\ paths' = Append(paths, p)
  /\ UNCHANGED <<files, cache, entries, loaded, bodies, walk, error>>

ClearImportResolveCache ==
  /\ Emptied
  /\ UNCHANGED <<status, paths, loaded, bodies, walk, error>>

\* A file is created, removed, or edited so that it no longer compiles.
Edit(f) ==
  /\ f \in Volatile
  /\ \E x \in {"good", "broken", "absent"} \ {status[f]} :
       status' = [status EXCEPT ![f] = x]
  /\ changed' = changed \cup {f}
  /\ UNCHANGED <<resolution, loaded, bodies, walk, error>>

Next ==
  \/ RunChunk
  \/ \E f \in File : RunFile(f) \/ Edit(f)
  \/ \E n \in Name : Import(n) \/ ImportFails(n) \/ Load(n)
  \/ \E n \in Name : WalkFile(n) \/ WalkFails(n) \/ PlainFails(n)
  \/ \E d \in Directory : ImportAll(d)
  \/ \E m \in Object : WalkEnter(m)
  \/ WalkDone
  \/ Return
  \/ Fail
  \/ \E p \in SearchPath : AddSearchPath(p) \/ AppendPath(p)
  \/ ClearImportResolveCache

Spec == Init /\ [][Next]_vars

-----------------------------------------------------------------------------
(* Properties *)

\* A module's body is entered at most once, however it is imported: directly,
\* by a cycle, through a directory, again after it failed, by a second host run
\* (IMPORT, IMPORT_WILDCARD, RunFileWithModule).
BodyOnce == \A m \in Object : starts[m] <= 1

\* "Module initialized needs to be set to true just before executing their main
\* function to avoid cyclic inclusion" (saynaa_public.c): the frames of a fiber
\* belong to different files, so cycles of imports end.
CyclesEnd == \A i, j \in 1..top : FileOf(i) = FileOf(j) => i = j

\* What IMPORT finds initialized, and so uses without running it, has returned,
\* was ended by an error, or is importing: its frame is below (a cycle).
ReadyToUse == initialized = ended \cup Modules /\ ended \cap Modules = {}

\* An import makes a module of a file only if the file has none, so all that
\* import it in between two RunFile of it share one module (_importResolved).
OneModule ==
  /\ \A m \in Modules \cup initialized \cup walk.found : m[2] <= loaded[m[1]]
  /\ \A m \in Object : 1 < m[2] /\ m[2] <= loaded[m[1]] => m \in initialized

\* A wildcard statement is left only with all of its modules initialized and
\* their globals copied: after the body of one of them has returned, the frame
\* is at the statement again (the rewind of IMPORT_WILDCARD).
WildcardRepeats ==
  \A i \in 1..top : frames[i].all # None /\ (i < top \/ walk = NoWalk) => frames[i].rewound

\* A cached answer is the resolver's for that name from that place, unless the
\* file was created, removed or edited since the cache was last cleared.
CacheCurrent ==
  \A x \in DOMAIN cache : Where[x] \in changed \/ cache[x] = Resolver(x[1], x[2])

\* A name that is not relative means its first file along the root and the
\* search paths, in their order, whatever was cached, evicted, added to the
\* paths or imported before (_importPathSearch).
FirstOnPath ==
  [][\A n \in Name \ Relative, m \in Object :
       Obtain(n, m) /\ changed = {} =>
         LET places == <<Root>> \o paths
         IN \E i \in DOMAIN places :
              /\ Resolver(places[i], n) = m[1]
              /\ \A j \in 1..(i - 1) : Resolver(places[j], n) = Missing]_vars

\* What a name means does not depend on what was asked before: imports of a
\* file share one module, a cached answer is the resolver's, and a name is its
\* first file on the path.
ImportsAgree == [](TypeOK /\ OneModule /\ CacheCurrent) /\ FirstOnPath
=============================================================================
