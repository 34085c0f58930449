------------------------------ MODULE Dispatch ------------------------------
(***************************************************************************)
(* Classes, their methods, and the caches in front of the lookup of        *)
(* methods and attributes of instances: the magic methods a class keeps    *)
(* for itself, the global method cache, and the inline caches of the       *)
(* METHOD_CALL and GET_ATTRIB instructions.                                *)
(*                                                                         *)
(* Of the inline caches one entry each is modelled, with the sites (the    *)
(* instructions) that share it; of the magic methods, _getattribute, which *)
(* decides every attribute access: the others are resolved the same way.   *)
(***************************************************************************)
EXTENDS Integers, Sequences, FiniteSets, FiniteSetsExt, SequencesExt

CONSTANTS
  Class, Object,        \* the classes, the builtin Object among them
  Instance,
  Method, NameOf,       \* closures, and fn->name of each
  Builtin,              \* the native methods of Object
  Name, Getattribute,   \* names, "_getattribute" among them
  CallSite, AttribSite, \* METHOD_CALL and GET_ATTRIB instructions
  SiteName,             \* the name each of them carries
  Plain,                \* a value that is not a bound method
  NULL, Unresolved,     \* (Closure*) -1
  InlineCapacity,       \* INSTANCE_INLINE_ATTR_CAPACITY
  MaxEpoch,             \* UINT32_MAX
  Practice              \* what the scripts of this instance do, see below

ASSUME DispatchAssumption ==
  /\ IsFiniteSet(Class) /\ Object \in Class
  /\ NULL \notin Class \cup Method /\ Unresolved \notin Method \cup {NULL}
  /\ Builtin \subseteq Method /\ IsFiniteSet(Builtin) /\ \A m \in Builtin : NameOf[m] # Getattribute
  /\ Plain \notin [method : Method, instance : Instance]
  /\ NameOf \in [Method -> Name] /\ Getattribute \in Name
  /\ SiteName \in [CallSite \cup AttribSite -> Name]
  /\ InlineCapacity \in Nat /\ MaxEpoch \in Nat \ {0}
  \* "early":     use a class, or inherit from it, before its statement ran
  \* "late":      add methods to a class that has subclasses
  \* "shadow":    give an attribute the name of a method
  \* "bound":     keep a bound method in an attribute
  \* "intercept": give attributes to instances that have a _getattribute
  /\ Practice \subseteq {"early", "late", "shadow", "bound", "intercept"}

Bound == [method : Method, instance : Instance]   \* MethodBind
Value == {Plain} \cup Bound

VARIABLES
  super, methods, magic,
  defined,    \* classes whose statement has run
  building,   \* the class whose statement is running
  class,      \* Instance.cls
  inline,     \* Instance.inline_attrib_names, _values
  attribs,    \* Instance.attribs
  cache,      \* method_cache_class, _name, _closure
  epoch,      \* inline_cache_epoch
  mic, aic    \* an entry of method_inline_cache, of attrib_inline_cache

classVars == <<super, methods, defined, building>>
objectVars == <<class, inline, attribs>>
inlineVars == <<epoch, mic, aic>>
vars == <<classVars, objectVars, inlineVars, magic, cache>>

Blank == [site |-> NULL, epoch |-> 0, kind |-> "none", cls |-> NULL,
          name |-> NULL, slot |-> 0, method |-> NULL]

InlineEntry ==
  [site : CallSite \cup AttribSite \cup {NULL}, epoch : 0..MaxEpoch,
   kind : {"none", "inline", "bind"}, cls : Class \cup {NULL}, name : Name \cup {NULL},
   slot : 0..InlineCapacity, method : Method \cup {NULL}]

TypeOK ==
  /\ super \in [Class -> Class \cup {NULL}]
  /\ methods \in [Class -> Seq(Method)]
  /\ magic \in [Class -> Method \cup {NULL, Unresolved}]
  /\ defined \subseteq Class /\ building \in Class \cup {NULL}
  /\ class \in [Instance -> Class \cup {NULL}]
  /\ \A o \in Instance :
       /\ inline[o] \in Seq([name : Name, value : Value]) /\ Len(inline[o]) <= InlineCapacity
       /\ DOMAIN attribs[o] \subseteq Name /\ Range(attribs[o]) \subseteq Value
  /\ cache \in [cls : Class, name : Name, method : Method] \cup {NULL}
  /\ epoch \in 1..MaxEpoch
  /\ mic \in InlineEntry /\ aic \in InlineEntry

\* The compiler has made the class objects; their statements have not run.
Init ==
  /\ super = [c \in Class |-> IF c = Object THEN NULL ELSE Object]
  /\ methods = [c \in Class |-> IF c = Object THEN SetToSeq(Builtin) ELSE <<>>]
  /\ magic = [c \in Class |-> Unresolved]
  /\ defined = {Object} /\ building = NULL
  /\ class = [o \in Instance |-> NULL]
  /\ inline = [o \in Instance |-> <<>>]
  /\ attribs = [o \in Instance |-> <<>>]
  /\ cache = NULL
  /\ epoch = 1 /\ mic = Blank /\ aic = Blank

-----------------------------------------------------------------------------
(* Looking up *)

\* c, its super class and so on up to Object.
Up(c, n) ==
  LET up[i \in Nat] == IF i = 0 THEN c
                       ELSE IF up[i - 1] = NULL THEN NULL ELSE super[up[i - 1]]
  IN  up[n]

Heirs(c) == {d \in Class : \E n \in 0..Cardinality(Class) : Up(d, n) = c}

Named(c, n) == {i \in DOMAIN methods[c] : NameOf[methods[c][i]] = n}

\* clsGetMethod.  A name bound twice keeps its first method (method_lookup).
GetMethod(c, n) ==
  LET having == {k \in 0..Cardinality(Class) : Up(c, k) # NULL /\ Named(Up(c, k), n) # {}} IN
  IF having = {} THEN NULL
  ELSE LET d == Up(c, Min(having)) IN methods[d][Min(Named(d, n))]

\* getMagicMethod: what class c will have for magic method after the call.
GetMagic(c) ==
  LET having == {k \in 1..Cardinality(Class) :
                   Up(c, k) # NULL /\ magic[Up(c, k)] \notin {NULL, Unresolved}}
  IN  IF magic[c] # Unresolved THEN magic[c]
      ELSE IF having = {} THEN NULL ELSE magic[Up(c, Min(having))]

ResolveMagic(c) == magic' = [magic EXCEPT ![c] = GetMagic(c)]

\* The global method cache answers for class c and name n.
Cached(c, n) == cache # NULL /\ cache.cls = c /\ cache.name = n

\* hasMethod: the method it finds, and what it leaves in the cache.
FindMethod(c, n) == IF Cached(c, n) THEN cache.method ELSE GetMethod(c, n)

Remember(c, n) ==
  cache' = IF FindMethod(c, n) = NULL THEN cache
           ELSE [cls |-> c, name |-> n, method |-> FindMethod(c, n)]

-----------------------------------------------------------------------------
(* Changing classes *)

\* Mutant: the epoch wraps around and old entries become valid again.
InvalidateWithoutClearing ==
  /\ epoch' = IF epoch = MaxEpoch THEN 1 ELSE epoch + 1
  /\ UNCHANGED <<mic, aic>>

\* vmInvalidateInlineCaches
InvalidateInlineCaches ==
  IF epoch = MaxEpoch THEN epoch' = 1 /\ mic' = Blank /\ aic' = Blank
  ELSE epoch' = epoch + 1 /\ UNCHANGED <<mic, aic>>

\* Mutant: bindMethod leaves the global cache alone.
BindKeepingCache(c, m) ==
  /\ InvalidateInlineCaches
  /\ magic' = IF NameOf[m] = Getattribute THEN [magic EXCEPT ![c] = m] ELSE magic
  /\ methods' = [methods EXCEPT ![c] = Append(@, m)]
  /\ UNCHANGED cache

\* bindMethod
Bind(c, m) ==
  /\ InvalidateInlineCaches
  /\ cache' = IF cache # NULL /\ cache.cls = c THEN NULL ELSE cache
  /\ magic' = IF NameOf[m] = Getattribute THEN [magic EXCEPT ![c] = m] ELSE magic
  /\ methods' = [methods EXCEPT ![c] = Append(@, m)]

Unbound(m) == \A c \in Class : m \notin Range(methods[c])

HasAttribs(o) == inline[o] # <<>> \/ attribs[o] # <<>>

\* CREATE_CLASS: class c inherits from b.
CreateClass(c, b) ==
  /\ building = NULL
  /\ c \notin defined
  /\ b # c
  /\ "early" \in Practice \/ b \in defined
  /\ super' = [super EXCEPT ![c] = b]
  /\ building' = c
  /\ UNCHANGED <<methods, defined, magic, cache, objectVars, inlineVars>>

\* BIND_METHOD, for a function of the class body.
BindMethod(m) ==
  /\ building # NULL
  /\ Unbound(m)
  /\ Bind(building, m)
  /\ UNCHANGED <<super, defined, building, objectVars>>

EndClass ==
  /\ building # NULL
  /\ defined' = defined \cup {building}
  /\ building' = NULL
  /\ UNCHANGED <<super, methods, magic, cache, objectVars, inlineVars>>

\* ClassAddMethod of the host, at any later time.
ClassAddMethod(c, m) ==
  /\ building = NULL
  /\ c \in defined \ {Object}
  /\ Unbound(m)
  /\ "late" \in Practice \/ Heirs(c) \cap defined = {c}
  /\ "intercept" \in Practice \/ NameOf[m] # Getattribute
       \/ \A o \in Instance : class[o] \in Heirs(c) => ~HasAttribs(o)
  /\ Bind(c, m)
  /\ UNCHANGED <<super, defined, building, objectVars>>

-----------------------------------------------------------------------------
(* Instances and their attributes *)

Construct(o, c) ==
  /\ building = NULL
  /\ class[o] = NULL
  /\ c # Object
  /\ "early" \in Practice \/ c \in defined
  /\ class' = [class EXCEPT ![o] = c]
  /\ UNCHANGED <<inline, attribs, classVars, magic, cache, inlineVars>>

InlineIndex(o, n) == {i \in DOMAIN inline[o] : inline[o][i].name = n}

\* _instanceSetAttribFast
SetFast(o, n, v) ==
  IF InlineIndex(o, n) # {}
    THEN /\ inline' = [inline EXCEPT ![o][Min(InlineIndex(o, n))].value = v]
         /\ UNCHANGED attribs
  ELSE IF n \notin DOMAIN attribs[o] /\ Len(inline[o]) < InlineCapacity
    THEN /\ inline' = [inline EXCEPT ![o] = Append(@, [name |-> n, value |-> v])]
         /\ UNCHANGED attribs
    ELSE /\ attribs' = [attribs EXCEPT ![o] = [a \in DOMAIN @ \cup {n} |-> IF a = n THEN v ELSE @[a]]]
         /\ UNCHANGED inline

\* SET_ATTRIB
SetAttrib(o, n, v) ==
  /\ building = NULL
  /\ class[o] # NULL
  /\ "shadow" \in Practice \/ \A m \in Method : NameOf[m] # n
  /\ "bound" \in Practice \/ v = Plain
  /\ "intercept" \in Practice \/ GetMethod(class[o], Getattribute) = NULL
  /\ SetFast(o, n, v)
  /\ UNCHANGED <<class, classVars, magic, cache, inlineVars>>

\* delattr: _instanceRemoveAttribFast moves the later inline ones down.
DelAttrib(o, n) ==
  /\ building = NULL
  /\ class[o] # NULL
  /\ \/ /\ InlineIndex(o, n) # {}
        /\ inline' = [inline EXCEPT ![o] = RemoveAt(@, Min(InlineIndex(o, n)))]
        /\ UNCHANGED attribs
     \/ /\ InlineIndex(o, n) = {} /\ n \in DOMAIN attribs[o]
        /\ attribs' = [attribs EXCEPT ![o] = [a \in DOMAIN @ \ {n} |-> @[a]]]
        /\ UNCHANGED inline
  /\ UNCHANGED <<class, classVars, magic, cache, inlineVars>>

\* The attribute of the instance itself, as a set.
Own(o, n) ==
  {inline[o][i].value : i \in InlineIndex(o, n)}
    \cup {attribs[o][a] : a \in DOMAIN attribs[o] \cap {n}}

-----------------------------------------------------------------------------
(* The instructions that read through the caches *)

CallHit(s, o) ==
  /\ mic.site = s /\ mic.epoch = epoch /\ mic.cls = class[o]
  /\ mic.name = SiteName[s] /\ mic.method # NULL

\* METHOD_CALL
MethodCall(s, o) ==
  LET c == class[o]
      n == SiteName[s]
  IN  /\ building = NULL
      /\ c # NULL
      /\ ~CallHit(s, o)
      /\ Remember(c, n)
      /\ IF FindMethod(c, n) # NULL
           THEN /\ mic' = [Blank EXCEPT !.site = s, !.epoch = epoch, !.cls = c,
                                        !.name = n, !.method = FindMethod(c, n)]
                /\ UNCHANGED magic
           ELSE ResolveMagic(c) /\ UNCHANGED mic   \* varGetAttrib
      /\ UNCHANGED <<classVars, objectVars, epoch, aic>>

\* What a hit of the inline cache gives; no elements where there is none.
HitValue(s, o) ==
  IF aic.site # s \/ aic.epoch # epoch \/ aic.name # SiteName[s] \/ aic.cls # class[o]
    THEN {}
  ELSE IF aic.kind = "inline"
    THEN {inline[o][i].value : i \in InlineIndex(o, aic.name) \cap {aic.slot}}
  ELSE IF aic.kind = "bind" THEN {[method |-> aic.method, instance |-> o]} ELSE {}

\* What varGetAttrib looks up after _getattribute (which may return anything).
LookedUp(o, n) ==
  IF GetMagic(class[o]) # NULL THEN {Plain}
  ELSE IF Own(o, n) # {} THEN Own(o, n)
  ELSE IF FindMethod(class[o], n) # NULL
    THEN {[method |-> FindMethod(class[o], n), instance |-> o]}
    ELSE {}

\* The entry GET_ATTRIB leaves after it found value.
Entry(s, o, value) ==
  LET n    == SiteName[s]
      seen == [Blank EXCEPT !.site = s, !.epoch = epoch, !.name = n]
  IN  IF value \in Bound
        THEN [seen EXCEPT !.kind = "bind", !.cls = class[o], !.method = value.method,
                          !.slot = IF InlineIndex(o, n) = {} THEN 0 ELSE Min(InlineIndex(o, n))]
      ELSE IF InlineIndex(o, n) # {}
        THEN [seen EXCEPT !.kind = "inline", !.cls = class[o], !.slot = Min(InlineIndex(o, n))]
      ELSE seen

\* GET_ATTRIB.  An error leaves the entry alone.
GetAttrib(s, o) ==
  LET n == SiteName[s] IN
  /\ building = NULL
  /\ class[o] # NULL
  /\ HitValue(s, o) = {}
  /\ ResolveMagic(class[o])
  /\ IF GetMagic(class[o]) = NULL /\ Own(o, n) = {} THEN Remember(class[o], n)
     ELSE UNCHANGED cache
  /\ \/ \E v \in LookedUp(o, n) : aic' = Entry(s, o, v)
     \/ LookedUp(o, n) = {} /\ UNCHANGED aic
  /\ UNCHANGED <<classVars, objectVars, epoch, mic>>

-----------------------------------------------------------------------------
(* The collector *)

\* Classes and instances that nothing refers to.
Unused(C) ==
  /\ C \subseteq defined \ {Object}
  /\ building = NULL
  /\ \A o \in Instance : class[o] \notin C
  /\ \A d \in defined \ C : super[d] \notin C

\* The memory of a class is used again for another one.
Free(C) ==
  /\ super' = [c \in Class |-> IF c \in C THEN Object ELSE super[c]]
  /\ methods' = [c \in Class |-> IF c \in C THEN <<>> ELSE methods[c]]
  /\ magic' = [c \in Class |-> IF c \in C THEN Unresolved ELSE magic[c]]
  /\ defined' = defined \ C

\* vmCollectGarbage
Collect(C, O) ==
  /\ Unused(C) /\ Free(C)
  /\ cache' = NULL
  /\ InvalidateInlineCaches
  /\ class' = [o \in Instance |-> IF o \in O THEN NULL ELSE class[o]]
  /\ inline' = [o \in Instance |-> IF o \in O THEN <<>> ELSE inline[o]]
  /\ attribs' = [o \in Instance |-> IF o \in O THEN <<>> ELSE attribs[o]]
  /\ UNCHANGED building

Next ==
  \/ \E c \in Class, b \in Class : CreateClass(c, b)
  \/ \E m \in Method : BindMethod(m)
  \/ EndClass
  \/ \E c \in Class, m \in Method : ClassAddMethod(c, m)
  \/ \E o \in Instance, c \in Class : Construct(o, c)
  \/ \E o \in Instance, n \in Name, v \in Value : SetAttrib(o, n, v)
  \/ \E o \in Instance, n \in Name : DelAttrib(o, n)
  \/ \E s \in CallSite, o \in Instance : MethodCall(s, o)
  \/ \E s \in AttribSite, o \in Instance : GetAttrib(s, o)
  \/ \E C \in SUBSET Class, O \in SUBSET Instance : Collect(C, O)

Spec == Init /\ [][Next]_vars

-----------------------------------------------------------------------------
(* What must hold *)

\* What a class has bound last under the magic name, or inherits.
Inherited(c) ==
  LET having == {k \in 0..Cardinality(Class) :
                   Up(c, k) # NULL /\ Named(Up(c, k), Getattribute) # {}}
  IN  IF having = {} THEN NULL
      ELSE LET d == Up(c, Min(having)) IN methods[d][Max(Named(d, Getattribute))]

\* The value of an attribute access without any cache: _getattribute is
\* "called for every attribute access" (class.md), else the instance's own
\* attribute, else the method of its class bound to it.
Fresh(o, n) ==
  IF Inherited(class[o]) # NULL THEN {}
  ELSE IF Own(o, n) # {} THEN Own(o, n)
  ELSE IF GetMethod(class[o], n) = NULL THEN {}
  ELSE {[method |-> GetMethod(class[o], n), instance |-> o]}

\* The magic method a class keeps for itself is the one of its nearest
\* ancestor, whatever was resolved, bound or collected before (getMagicMethod).
MagicExact == \A c \in Class : magic[c] # Unresolved => magic[c] = Inherited(c)

\* The global method cache answers what walking up the classes would
\* (hasMethod): bindMethod and the collector drop what they invalidate.
CacheExact == cache # NULL => cache.method = GetMethod(cache.cls, cache.name)

\* A METHOD_CALL whose inline entry is valid calls the method its receiver's
\* class has now, also when the epoch has wrapped around.
CallExact ==
  \A s \in CallSite, o \in Instance :
    class[o] # NULL /\ CallHit(s, o) => mic.method = GetMethod(class[o], SiteName[s])

\* None of the three places a method is remembered in (the class, the global
\* cache, the instruction) ever answers for a class, a name or an epoch that
\* has changed since.
CachesExact == MagicExact /\ CacheExact /\ CallExact

\* An instance has an attribute in one place only: deleting it really removes
\* it, and no older value comes back (_instanceSetAttribFast).
AttribOnce ==
  \A o \in Instance, n \in Name :
    Cardinality(InlineIndex(o, n)) + Cardinality(DOMAIN attribs[o] \cap {n}) <= 1

\* A GET_ATTRIB answered from its inline entry gives the value it would have
\* without, for any instance: attributes added, removed and moved, in slots or
\* in the map, methods bound later, classes freed.
AttribExact ==
  /\ TypeOK /\ AttribOnce
  /\ \A s \in AttribSite, o \in Instance :
       class[o] # NULL => HitValue(s, o) \subseteq Fresh(o, SiteName[s])
=============================================================================
