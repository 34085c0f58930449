--------------------------------- MODULE Path ---------------------------------
(***************************************************************************)
(* The path library (saynaa_path.c) as it is built for Unix, the module    *)
(* path on top of it, and how an import finds its file (saynaa_opt_path.c, *)
(* and the wildcard's helpers of saynaa_utils.c).  Paths fit the buffers.  *)
(***************************************************************************)
EXTENDS Strings, Bytecode

CONSTANTS
  Cwd, Exe,            \* what getcwd and osGetExeFilePath give
  FileSystem,          \* the names from the root to every file and directory, with its kind
  SharedObject,        \* the end of a native module's file
  PathLimit,           \* FILENAME_MAX
  MaxJoin,             \* MAX_JOIN_PATHS
  Path_, Joinable, Absolute_, Import_ \* paths to normalize, join, relate and import

Sep == "/"
Dot == "."
DotDot == <<Dot, Dot>>
LastAt(p, c) == Max({0} \cup {i \in DOMAIN p : p[i] = c})
SkipSeps(p, n) == Min({i \in n..Len(p) : i = Len(p) \/ p[i + 1] # Sep})
SkipName(p, n) == Min({i \in n..Len(p) : i = Len(p) \/ p[i + 1] = Sep})
IsAbsolute(p) == p # <<>> /\ p[1] = Sep

-----------------------------------------------------------------------------
(* Normalizing, into a buffer of its own or into the one that is read.      *)

Write(b, n, t) == [i \in 1..Max({Len(b), n + Len(t)}) |-> IF i \in (n + 1)..(n + Len(t)) THEN t[i - n] ELSE b[i]]
Parted(b, w) == w > 0 /\ b[w] # Sep
CanPop(b, w) == w > 0 /\ SubSeq(b, LastAt(SubSeq(b, 1, w), Sep) + 1, w) # DotDot
\* Mutant: a name at the start goes with the one after it.
PopOneMore(b, w, root) ==
  LET k == LastAt(SubSeq(b, 1, w), Sep) IN IF k <= root THEN IF root = 1 THEN w ELSE 0 ELSE LastAt(SubSeq(b, 1, k - 1), Sep)

\* The end of what is kept without its last name; the first name of an
\* absolute path is always kept.
Pop(b, w, root) ==
  LET k == LastAt(SubSeq(b, 1, w), Sep) IN IF k <= root THEN IF root = 1 THEN w ELSE 0 ELSE k - 1

RECURSIVE Walked(_, _, _, _, _)
Walked(path, shared, b, w, p) ==
  LET source == IF shared THEN SubSeq(b, 1, Len(path)) ELSE path
      start == SkipSeps(source, p)
      end == SkipName(source, start)
      name == SubSeq(source, start + 1, end)
      parted == IF Parted(b, w) THEN Write(b, w, <<Sep>>) ELSE b
      v == IF Parted(b, w) THEN w + 1 ELSE w
      text == IF shared /\ name # DotDot THEN SubSeq(parted, start + 1, end) ELSE name
  IN IF start = Len(path) THEN [buffer |-> b, length |-> w]
     ELSE IF name = <<Dot>> THEN Walked(path, shared, b, w, end)
     ELSE IF name = DotDot /\ CanPop(b, w) THEN Walked(path, shared, b, Pop(b, w, IF IsAbsolute(path) THEN 1 ELSE 0), end)
     ELSE Walked(path, shared, Write(parted, v, text), v + Len(text), end)

NormalizeInto(path, shared) ==
  LET b == IF shared THEN path ELSE SubSeq(path, 1, IF IsAbsolute(path) THEN 1 ELSE 0)
      root == IF IsAbsolute(path) THEN 1 ELSE 0
      r == Walked(path, shared, b, root, root)
  IN IF path = <<>> \/ r.length = 0 THEN <<Dot>>
     ELSE SubSeq(r.buffer, 1, IF r.length > root /\ ~Parted(r.buffer, r.length) THEN r.length - 1 ELSE r.length)
Normalize(path) == NormalizeInto(path, FALSE)

-----------------------------------------------------------------------------
(* Joining, taking apart and relating paths *)

Join(a, b) ==
  LET apart == ~(a # <<>> /\ Last(a) = Sep) /\ ~(b # <<>> /\ b[1] = Sep)
  IN NormalizeInto(a \o (IF apart THEN <<Sep>> ELSE <<>>) \o b, TRUE)
GetAbsolute(base, path) == IF IsAbsolute(path) THEN Normalize(path) ELSE Join(base, path)
PathAbs(path) == GetAbsolute(Cwd, path)

\* <<>> when there are too many to join.
PathJoin(paths) ==
  IF Len(paths) > MaxJoin THEN <<>>
  ELSE IF paths = <<>> THEN <<<<>>>>
  ELSE <<FoldLeft(Join, NormalizeInto(paths[1], TRUE), Tail(paths))>>

Trimmed(p) == SubSeq(p, 1, Max({0} \cup {i \in DOMAIN p : p[i] # Sep}))
Dirname(p) == SubSeq(Trimmed(p), 1, LastAt(Trimmed(p), Sep))
Basename(p) == SubSeq(Trimmed(p), LastAt(Trimmed(p), Sep) + 1, Len(Trimmed(p)))
Extension(p) ==
  LET i == LastAt(Basename(p), Dot) IN IF i <= 1 THEN <<>> ELSE SubSeq(Basename(p), i, Len(Basename(p)))

\* Both paths are absolute; letters are compared without their case.
GetRelative(base, path) ==
  LET Agree(i) == Recased(base[i], 1, 2) = Recased(path[i], 1, 2)
      n == Max({k \in 0..Min({Len(base), Len(path)}) : \A i \in 1..k : Agree(i)})
      \* back to the start of a name that differs
      From(p) == IF n < Len(p) /\ p[n + 1] # Sep THEN LastAt(SubSeq(base, 1, n), Sep) ELSE n
      ups == Cardinality({i \in (From(base) + 1)..Len(base) : base[i] # Sep /\ (i = From(base) + 1 \/ base[i - 1] = Sep)})
      up == FlattenSeq([i \in 1..ups |-> Append(DotDot, Sep)])
      rest == Drop(path, SkipSeps(path, From(path)))
  IN IF n = Len(base) /\ n = Len(path) THEN <<Dot>>
     ELSE IF From(path) < Len(path) THEN up \o rest
     ELSE IF up = <<>> THEN <<Dot>> ELSE Front(up)
PathRelpath(path, from) == GetRelative(PathAbs(from), PathAbs(path))

-----------------------------------------------------------------------------
(* Names of a path, and where they lead: what the system makes of it.       *)

Names(p) ==
  LET starts == SetToSortSeq({i \in DOMAIN p : p[i] # Sep /\ (i = 1 \/ p[i - 1] = Sep)}, LAMBDA i, j : i < j)
  IN SelectSeq([k \in DOMAIN starts |-> SubSeq(p, starts[k], SkipName(p, starts[k]))], LAMBDA n : n # <<Dot>>)
Follow(names, rooted) ==
  FoldLeft(LAMBDA s, n : IF n # DotDot THEN Append(s, n)
                         ELSE IF s # <<>> /\ Last(s) # DotDot THEN Front(s)
                         ELSE IF rooted THEN s ELSE Append(s, n), <<>>, names)
InFull(p) == IF IsAbsolute(p) THEN p ELSE Cwd \o <<Sep>> \o p
Place_(p) == Follow(Names(InFull(p)), TRUE)
Stat(p) == IF p # <<>> /\ Place_(p) \in DOMAIN FileSystem THEN FileSystem[Place_(p)] ELSE "none"
IsFile(p) == Stat(p) = "file"
IsDir(p) == Stat(p) = "dir"
Exists(p) == Stat(p) # "none"

\* Entries of a directory, as readdir gives them.
Entries(p) ==
  {<<Dot>>, DotDot} \cup {Last(f) : f \in {g \in DOMAIN FileSystem : g # <<>> /\ Front(g) = Place_(p)}}
ListDir(p) == IF IsDir(p) THEN Entries(p) \ {<<Dot>>, DotDot} ELSE {}
WalkDirectory(p) ==
  {SubSeq(n, 1, Len(n) - Len(Ext)) :
     n \in {e \in IF IsDir(p) THEN Entries(p) ELSE {} : e[1] # Dot /\ Len(e) > Len(Ext) /\ IsSuffix(Ext, e)}}

-----------------------------------------------------------------------------
(* Importing *)

Init_ == <<Sep, "_", "i">>
EXT == <<BytecodeExt, Ext, <<>>, Init_ \o BytecodeExt, Init_ \o Ext, SharedObject, Init_ \o SharedObject>>
CheckImportExists(p, ext) == Len(p) + Len(ext) + 1 < PathLimit /\ IsFile(p \o ext)
\* A path that may be NULL is <<>> or <<path>>.
\* Mutant: source is preferred to bytecode.
TrySourceFirst(p) ==
  LET tried == SelectSeq(<<Ext, BytecodeExt>> \o Drop(EXT, 2), LAMBDA ext : CheckImportExists(p, ext))
  IN IF IsFile(p) THEN <<p>> ELSE IF tried = <<>> THEN <<>> ELSE <<p \o tried[1]>>
TryImportPaths(p) ==
  LET tried == SelectSeq(EXT, LAMBDA ext : CheckImportExists(p, ext))
  IN IF IsFile(p) THEN <<p>> ELSE IF tried = <<>> THEN <<>> ELSE <<p \o tried[1]>>

\* From a script or a directory, or from nowhere (<<>>).
ResolveImport(from, path) ==
  LET given == PathAbs(from[1])
      dir == IF Last(from[1]) \in {Sep, "\\"} \/ IsDir(given) THEN given ELSE Dirname(given)
  IN IF IsAbsolute(path) THEN TryImportPaths(Normalize(path))
     ELSE IF from = <<>> THEN TryImportPaths(Normalize(PathAbs(path)))
     ELSE IF dir = <<>> THEN <<>>
     ELSE TryImportPaths(Normalize(Join(dir, path)))

SearchPaths ==
  LET exe == Dirname(Exe) IN <<Append(Cwd, Sep)>> \o IF exe = <<>> THEN <<>> ELSE <<exe \o <<"libs", Sep>>>>

\* utilResolvePath: where a wildcard import looks.
ResolvePath(base, target) ==
  LET sep == Max({LastAt(base, Sep), LastAt(base, "\\")})
  IN IF IsAbsolute(target) \/ sep <= 1 THEN target ELSE SubSeq(base, 1, sep - 1) \o <<Sep>> \o target

-----------------------------------------------------------------------------
CallPath == call = Idle /\
  \/ \E p \in Path_ : Do("normalize", <<p>>, <<Normalize(p), NormalizeInto(p, TRUE), Normalize(Normalize(p))>>)
  \/ \E p \in Path_ : Do("parts", <<p>>, <<Dirname(p), Basename(p), Extension(p)>>)
  \/ \E n \in 0..(MaxJoin + 1) : \E ps \in [1..n -> Joinable] : Do("join", ps, PathJoin(ps))
  \/ \E a, b \in Absolute_ : Do("relative", <<a, b>>, PathRelpath(b, a))
  \/ \E p \in Import_ : Do("list", <<p>>, <<ListDir(p), WalkDirectory(p), Exists(p)>>)
  \/ \E f \in {<<>>} \cup {<<s>> : s \in Range(SearchPaths) \cup Import_}, p \in Import_ :
       f # <<<<>>>> /\ Do("import", <<f, p>>, ResolveImport(f, p))
  \/ \E f, p \in Import_ : Do("wildcard", <<f, p>>, ResolvePath(f, p))

\* A path with a ".." that leaves the first directory of an absolute path:
\* normalizing keeps that directory, against path.md:171.
BackToRoot(p) ==
  IsAbsolute(p) /\ \E k \in DOMAIN Names(p) : Names(p)[k] = DotDot /\ Len(Follow(SubSeq(Names(p), 1, k - 1), TRUE)) = 1

\* A path normalized leads where it did, is the same in place as apart, is
\* its own normal form, and is found again from its two parts.
NormalLaws ==
  /\ call.op = "normalize" => LET p == call.args[1] n == call.result[1] IN
       /\ call.result[2] = n /\ call.result[3] = n
       /\ IsAbsolute(n) = IsAbsolute(p)
       /\ ~BackToRoot(p) => Names(n) = Follow(Names(p), IsAbsolute(p))
  /\ call.op = "parts" => LET p == call.args[1] IN
       /\ Names(p) # <<>> => PathJoin(<<call.result[1], call.result[2]>>) = <<Normalize(p)>>
       /\ call.result[3] # <<>> => Len(call.result[3]) < Len(call.result[2]) /\ IsSuffix(call.result[3], call.result[2])

\* Paths joined one after another are the normal form of all of them.
JoinLaws ==
  call.op = "join" =>
    /\ call.result = <<>> <=> Len(call.args) > MaxJoin
    /\ call.args # <<>> /\ call.result # <<>> =>
         call.result[1] = Normalize(FoldLeft(LAMBDA p, q : p \o <<Sep>> \o q, IF call.args[1] = <<>> THEN <<Dot>> ELSE call.args[1], Tail(call.args)))

\* The relative path leads from the one place to the other, if the first
\* names in which they differ do not begin the one with the other, case aside.
RelativeLaws ==
  call.op = "relative" =>
    LET a == Place_(PathAbs(call.args[1])) b == Place_(PathAbs(call.args[2]))
        Fold(n) == [i \in DOMAIN n |-> Recased(n[i], 1, 2)]
        apart == \A i \in DOMAIN a \cap DOMAIN b :
                   a[i] # b[i] /\ SubSeq(a, 1, i - 1) = SubSeq(b, 1, i - 1) =>
                     ~IsPrefix(Fold(a[i]), Fold(b[i])) /\ ~IsPrefix(Fold(b[i]), Fold(a[i]))
    IN apart => Follow(a \o Names(call.result), TRUE) = b

\* An import from a script, a directory or nowhere finds the first file of
\* those its name can mean there, and a wildcard looks in the directory an
\* import would; only from a script in the root it looks in the current one.
TextOf(names) == FlattenSeq([k \in DOMAIN names |-> <<Sep>> \o names[k]])
Beside(from) == IF Last(from) \in {Sep, "\\"} \/ IsDir(from) THEN Place_(from) ELSE Front(Place_(from))
ImportLaws ==
  /\ call.op = "import" =>
       LET f == call.args[1] p == call.args[2]
           dir == IF IsAbsolute(p) THEN <<>> ELSE IF f = <<>> THEN Names(Cwd) ELSE Beside(f[1])
           target == Follow(dir \o Names(p), TRUE)
           found == SelectSeq(<<<<>>>> \o EXT, LAMBDA ext : IsFile(TextOf(target) \o ext))
       IN target # <<>> /\ ~BackToRoot(TextOf(dir) \o <<Sep>> \o p) /\ (f # <<>> => ~BackToRoot(InFull(f[1]))) =>
            call.result = IF found = <<>> THEN <<>> ELSE <<TextOf(target) \o found[1]>>
  /\ call.op = "wildcard" =>
       LET f == call.args[1] p == call.args[2] IN
       ~IsAbsolute(p) /\ LastAt(f, Sep) > 1 /\ Stat(f) = "file" => Place_(call.result) = Follow(Beside(f) \o Names(p), TRUE)
  /\ call.op = "list" => LET r == call.result IN
       /\ r[1] # {} => r[3] /\ IsDir(call.args[1])
       /\ \A n \in r[2] : IsFile(call.args[1] \o <<Sep>> \o n \o Ext) \/ IsDir(call.args[1] \o <<Sep>> \o n \o Ext)

PathLaws == NormalLaws /\ JoinLaws /\ RelativeLaws /\ ImportLaws
=============================================================================
