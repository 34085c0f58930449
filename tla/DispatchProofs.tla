--------------------------- MODULE DispatchProofs ---------------------------
(***************************************************************************)
(* Theorems about Dispatch, for any classes, methods, instances and        *)
(* instructions, and any number of epochs: the caches answer what walking  *)
(* up the classes would, and an attribute read through its inline cache is *)
(* the one the instance has.                                               *)
(*                                                                         *)
(* The first half is about walks up the classes: what one gives when only  *)
(* classes off its path have changed, and that one that starts at a super  *)
(* class gives what is left of the walk.  That needs the classes to be a   *)
(* tree, which is part of the invariant.                                   *)
(***************************************************************************)
EXTENDS Dispatch, FiniteSetTheorems, SequenceTheorems, WellFoundedInduction, TLAPS

-----------------------------------------------------------------------------
(* Numbers *)

LEMMA LeastIn ==
  ASSUME NEW S \in SUBSET Nat, S # {}
  PROVE  \E i \in S : \A j \in S : i <= j
<1> DEFINE R == OpToRel(<, Nat)
<1>1. IsWellFoundedOn(R, Nat)
  BY NatLessThanWellFounded
<1>2. \A x, y \in Nat : <<x, y>> \in R <=> x < y
  BY DEF OpToRel
<1> HIDE DEF R
<1>3. PICK x \in S : \A y \in S : ~ (<<y, x>> \in R)
  BY <1>1, WFMin
<1>4. \A y \in S : ~ (y < x)
  BY <1>2, <1>3
<1>5. \A y \in S : x <= y
  BY <1>4
<1> QED BY <1>5

LEMMA NatInduct ==
  ASSUME NEW S, 0 \in S, \A n \in Nat : n \in S => n + 1 \in S
  PROVE  Nat \subseteq S
<1> DEFINE T == Nat \ S
<1>1. ASSUME T # {} PROVE FALSE
  <2>1. PICK i \in T : \A j \in T : i <= j
    BY <1>1, LeastIn
  <2>2. i \in Nat /\ i # 0 /\ i \notin S
    BY <2>1
  <2>3. i - 1 \in Nat /\ i - 1 \notin T /\ (i - 1) + 1 = i
    BY <2>1, <2>2
  <2> QED BY <2>2, <2>3
<1> QED BY <1>1

LEMMA MinIn ==
  ASSUME NEW S \in SUBSET Nat, S # {}
  PROVE  Min(S) \in S /\ \A j \in S : Min(S) <= j
BY LeastIn DEF Min

LEMMA MinUnique ==
  ASSUME NEW S \in SUBSET Nat, NEW i \in S, \A j \in S : i <= j
  PROVE  Min(S) = i
<1>1. Min(S) \in S /\ Min(S) <= i
  BY MinIn
<1>2. i \in Nat /\ Min(S) \in Nat /\ i <= Min(S)
  BY <1>1
<1> QED BY <1>1, <1>2

LEMMA MaxIn ==
  ASSUME NEW n \in Nat, NEW S \in SUBSET (1..n), S # {}
  PROVE  Max(S) \in S /\ \A j \in S : Max(S) >= j
<1> DEFINE T == {n - j : j \in S}
<1>1. T \in SUBSET Nat /\ T # {}
  <2>1. \A j \in S : j \in 1..n /\ n - j \in Nat
    OBVIOUS
  <2> QED BY <2>1
<1>2. PICK i \in T : \A j \in T : i <= j
  BY <1>1, LeastIn
<1>3. PICK k \in S : i = n - k
  BY <1>2
<1>4. \A j \in S : k >= j
  <2> TAKE j \in S
  <2>1. n - k <= n - j
    BY <1>2, <1>3
  <2> QED BY <2>1
<1>5. \E x \in S : \A y \in S : x >= y
  BY <1>4
<1> QED BY <1>5 DEF Max

\* A function applied again and again.
Iterable(S, F, x) == \E f \in [Nat -> S] : f[0] = x /\ \A i \in Nat : f[i + 1] = F[f[i]]

LEMMA Iterates ==
  ASSUME NEW S, NEW F \in [S -> S], NEW x \in S
  PROVE  Iterable(S, F, x)
<1> DEFINE Part(n, f) == f[0] = x /\ \A i \in 0..(n - 1) : f[i + 1] = F[f[i]]
           P == {n \in Nat : \E f \in [0..n -> S] : Part(n, f)}
<1>1. 0 \in P
  <2>1. [i \in 0..0 |-> x] \in [0..0 -> S] /\ Part(0, [i \in 0..0 |-> x])
    OBVIOUS
  <2> QED BY <2>1
<1>2. ASSUME NEW n \in Nat, n \in P PROVE n + 1 \in P
  <2>1. PICK f \in [0..n -> S] : Part(n, f)
    BY <1>2
  <2> DEFINE g == [i \in 0..(n + 1) |-> IF i = n + 1 THEN F[f[n]] ELSE f[i]]
  <2>2. g \in [0..(n + 1) -> S]
    BY <2>1
  <2>3. Part(n + 1, g)
    BY <2>1
  <2> HIDE DEF g, Part
  <2>4. n + 1 \in Nat
    OBVIOUS
  <2> QED BY <2>2, <2>3, <2>4
<1>3. \A n \in Nat : n \in P
  <2> HIDE DEF P
  <2> QED BY <1>1, <1>2, NatInduct
<1> DEFINE p == [n \in Nat |-> CHOOSE f \in [0..n -> S] : Part(n, f)]
<1>4. \A n \in Nat : p[n] \in [0..n -> S] /\ Part(n, p[n])
  BY <1>3
<1> HIDE DEF p
<1>5. ASSUME NEW n \in Nat PROVE p[n + 1][n] = p[n][n]
  <2> DEFINE Q == {k \in Nat : k <= n => p[n + 1][k] = p[n][k]}
  <2>1. 0 \in Q
    BY <1>4
  <2>2. ASSUME NEW k \in Nat, k \in Q PROVE k + 1 \in Q
    <3> SUFFICES ASSUME k + 1 <= n PROVE p[n + 1][k + 1] = p[n][k + 1]
      OBVIOUS
    <3>1. k \in 0..(n - 1) /\ k \in 0..((n + 1) - 1)
      OBVIOUS
    <3>2. p[n][k + 1] = F[p[n][k]] /\ p[n + 1][k + 1] = F[p[n + 1][k]]
      BY <1>4, <3>1
    <3> QED BY <2>2, <3>1, <3>2
  <2>3. Nat \subseteq Q
    <3> HIDE DEF Q
    <3> QED BY <2>1, <2>2, NatInduct
  <2> QED BY <2>3
<1> DEFINE h == [n \in Nat |-> p[n][n]]
<1>6. h \in [Nat -> S] /\ h[0] = x
  BY <1>4
<1>7. ASSUME NEW i \in Nat PROVE h[i + 1] = F[h[i]]
  <2>1. p[i + 1][i + 1] = F[p[i + 1][i]]
    BY <1>4
  <2> QED BY <1>5, <2>1
<1> QED BY <1>6, <1>7 DEF Iterable

-----------------------------------------------------------------------------
(* Walks up the classes *)

SuperOK == super \in [Class -> Class \cup {NULL}]
MethodsOK == methods \in [Class -> Seq(Method)]

\* What Up is, one class at a time.
Steps ==
  \A c \in Class : /\ Up(c, 0) = c
                   /\ \A n \in Nat : Up(c, n + 1) = IF Up(c, n) = NULL THEN NULL ELSE super[Up(c, n)]

LEMMA UpSteps == SuperOK => Steps
<1> SUFFICES ASSUME SuperOK, NEW c \in Class
             PROVE  /\ Up(c, 0) = c
                    /\ \A n \in Nat : Up(c, n + 1) = IF Up(c, n) = NULL THEN NULL ELSE super[Up(c, n)]
  BY DEF Steps
<1> DEFINE C == Class \cup {NULL}
           up[i \in Nat] == IF i = 0 THEN c ELSE IF up[i - 1] = NULL THEN NULL ELSE super[up[i - 1]]
           F == [d \in C |-> IF d = NULL THEN NULL ELSE super[d]]
<1>1. F \in [C -> C]
  BY DEF SuperOK
<1>2. \A d \in C : F[d] = IF d = NULL THEN NULL ELSE super[d]
  OBVIOUS
<1>3. c \in C
  OBVIOUS
<1> HIDE DEF F, C
<1>4. PICK f \in [Nat -> C] : f[0] = c /\ \A i \in Nat : f[i + 1] = F[f[i]]
  <2>1. Iterable(C, F, c)
    BY <1>1, <1>3, Iterates
  <2> QED BY <2>1 DEF Iterable
<1>5. f = [i \in Nat |-> IF i = 0 THEN c ELSE IF f[i - 1] = NULL THEN NULL ELSE super[f[i - 1]]]
  <2>1. ASSUME NEW i \in Nat
        PROVE  f[i] = IF i = 0 THEN c ELSE IF f[i - 1] = NULL THEN NULL ELSE super[f[i - 1]]
    <3>1. CASE i # 0
      <4>1. i - 1 \in Nat /\ (i - 1) + 1 = i
        BY <3>1
      <4>2. f[i] = F[f[i - 1]] /\ f[i - 1] \in C
        BY <1>4, <4>1
      <4> QED BY <1>2, <3>1, <4>2
    <3> QED BY <1>4, <3>1
  <2> QED BY <2>1
<1>6. up = [i \in Nat |-> IF i = 0 THEN c ELSE IF up[i - 1] = NULL THEN NULL ELSE super[up[i - 1]]]
  BY <1>5
<1>7. \A n : Up(c, n) = up[n]
  BY DEF Up
<1> HIDE DEF up
<1>8. up[0] = c
  BY <1>6
<1>9. ASSUME NEW n \in Nat PROVE up[n + 1] = IF up[n] = NULL THEN NULL ELSE super[up[n]]
  <2>1. n + 1 \in Nat /\ n + 1 # 0 /\ (n + 1) - 1 = n
    OBVIOUS
  <2> QED BY <1>6, <2>1
<1> QED BY <1>7, <1>8, <1>9

LEMMA UpStepsNext == SuperOK' => Steps'
  BY UpSteps, PTL

\* A walk that starts further up goes on as one from below.
LEMMA UpShift ==
  ASSUME SuperOK, NEW c \in Class, NEW k \in Nat, Up(c, k) \in Class, NEW j \in Nat
  PROVE  Up(Up(c, k), j) = Up(c, k + j)
<1> DEFINE d == Up(c, k)
           P == {i \in Nat : Up(d, i) = Up(c, k + i)}
<1>1. Steps
  BY UpSteps
<1>2. d \in Class
  OBVIOUS
<1> HIDE DEF d
<1>3. 0 \in P
  BY <1>1, <1>2 DEF Steps, d
<1>4. ASSUME NEW i \in Nat, i \in P PROVE i + 1 \in P
  <2>1. k + i \in Nat /\ k + (i + 1) = (k + i) + 1
    OBVIOUS
  <2>2. Up(c, (k + i) + 1) = IF Up(c, k + i) = NULL THEN NULL ELSE super[Up(c, k + i)]
    BY <1>1, <2>1 DEF Steps
  <2>3. Up(d, i + 1) = IF Up(d, i) = NULL THEN NULL ELSE super[Up(d, i)]
    BY <1>1, <1>2 DEF Steps
  <2> QED BY <1>4, <2>1, <2>2, <2>3
<1> HIDE DEF P
<1>5. Nat \subseteq P
  BY <1>3, <1>4, NatInduct
<1> QED BY <1>5 DEF P, d

\* A walk stays in a set of classes that holds with each its super class, and
\* is the same when no class in it has another super class than before.
LEMMA SameUp ==
  ASSUME SuperOK, SuperOK', NEW S \in SUBSET Class,
         \A c \in S : super[c] \in S \cup {NULL} /\ super'[c] = super[c]
  PROVE  \A c \in S, n \in Nat : Up(c, n) \in S \cup {NULL} /\ Up(c, n)' = Up(c, n)
<1> DEFINE P == {n \in Nat : \A c \in S : Up(c, n) \in S \cup {NULL} /\ Up(c, n)' = Up(c, n)}
<1>1. Steps /\ Steps'
  BY UpSteps, UpStepsNext
<1>2. 0 \in P
  BY <1>1 DEF Steps
<1>3. ASSUME NEW n \in Nat, n \in P PROVE n + 1 \in P
  <2>1. ASSUME NEW c \in S PROVE Up(c, n + 1) \in S \cup {NULL} /\ Up(c, n + 1)' = Up(c, n + 1)
    <3>1. Up(c, n + 1) = IF Up(c, n) = NULL THEN NULL ELSE super[Up(c, n)]
      BY <1>1 DEF Steps
    <3>2. Up(c, n + 1)' = IF Up(c, n)' = NULL THEN NULL ELSE super'[Up(c, n)']
      BY <1>1 DEF Steps
    <3>3. Up(c, n) \in S \cup {NULL} /\ Up(c, n)' = Up(c, n)
      BY <1>3
    <3> HIDE DEF P
    <3> QED BY <3>1, <3>2, <3>3
  <2> QED BY <2>1
<1> HIDE DEF P
<1>4. Nat \subseteq P
  BY <1>2, <1>3, NatInduct
<1> QED BY <1>4 DEF P

LEMMA UpType == SuperOK => \A c \in Class, n \in Nat : Up(c, n) \in Class \cup {NULL}
<1> SUFFICES ASSUME SuperOK, NEW c \in Class
             PROVE  \A n \in Nat : Up(c, n) \in Class \cup {NULL}
  OBVIOUS
<1> DEFINE P == {n \in Nat : Up(c, n) \in Class \cup {NULL}}
<1>1. Steps
  BY UpSteps
<1>2. 0 \in P
  BY <1>1 DEF Steps
<1>3. ASSUME NEW n \in Nat, n \in P PROVE n + 1 \in P
  <2>1. Up(c, n + 1) = IF Up(c, n) = NULL THEN NULL ELSE super[Up(c, n)]
    BY <1>1 DEF Steps
  <2> QED BY <1>3, <2>1 DEF SuperOK
<1> HIDE DEF P
<1>4. Nat \subseteq P
  BY <1>2, <1>3, NatInduct
<1> QED BY <1>4 DEF P

-----------------------------------------------------------------------------
(* What the lookups find *)

\* Where on the walk from c there are classes with a method named n, and the
\* nearest of these classes.
Having(c, n) == {k \in 0..Cardinality(Class) : Up(c, k) # NULL /\ Named(Up(c, k), n) # {}}
Nearest(c, n) == Up(c, Min(Having(c, n)))

LEMMA GetMethodIs ==
  \A c, n : GetMethod(c, n) = IF Having(c, n) = {} THEN NULL
                              ELSE methods[Nearest(c, n)][Min(Named(Nearest(c, n), n))]
  BY DEF GetMethod, Having, Nearest

LEMMA InheritedIs ==
  \A c : Inherited(c) = IF Having(c, Getattribute) = {} THEN NULL
                        ELSE methods[Nearest(c, Getattribute)][Max(Named(Nearest(c, Getattribute), Getattribute))]
  BY DEF Inherited, Having, Nearest

LEMMA ClassCount == Cardinality(Class) \in Nat
  BY DispatchAssumption, FS_CardinalityType

LEMMA NamedIn ==
  ASSUME MethodsOK, NEW d \in Class, NEW n, Named(d, n) # {}
  PROVE  /\ Min(Named(d, n)) \in Named(d, n) /\ Max(Named(d, n)) \in Named(d, n)
         /\ \A i \in Named(d, n) : methods[d][i] \in Method /\ NameOf[methods[d][i]] = n
         /\ \A i \in Named(d, n) : Max(Named(d, n)) >= i
<1>1. methods[d] \in Seq(Method) /\ Len(methods[d]) \in Nat /\ DOMAIN methods[d] = 1..Len(methods[d])
  BY DEF MethodsOK
<1>2. Named(d, n) \in SUBSET (1..Len(methods[d])) /\ Named(d, n) \in SUBSET Nat
  BY <1>1 DEF Named
<1>3. \A i \in Named(d, n) : methods[d][i] \in Method /\ NameOf[methods[d][i]] = n
  BY <1>1 DEF Named
<1> QED BY <1>1, <1>2, <1>3, MinIn, MaxIn

LEMMA NearestIn ==
  ASSUME SuperOK, NEW c \in Class, NEW n, Having(c, n) # {}
  PROVE  /\ Min(Having(c, n)) \in Having(c, n) /\ Min(Having(c, n)) \in Nat
         /\ Nearest(c, n) \in Class /\ Named(Nearest(c, n), n) # {}
<1>1. Having(c, n) \in SUBSET Nat
  BY DEF Having
<1>2. Min(Having(c, n)) \in Having(c, n)
  BY <1>1, MinIn
<1> QED BY <1>1, <1>2, UpType DEF Having, Nearest

\* What a lookup finds is a method of that name.
LEMMA Found ==
  ASSUME SuperOK, MethodsOK, NEW c \in Class, NEW n
  PROVE  /\ GetMethod(c, n) = NULL \/ (GetMethod(c, n) \in Method /\ NameOf[GetMethod(c, n)] = n)
         /\ GetMethod(c, n) = NULL <=> Having(c, n) = {}
<1>1. CASE Having(c, n) = {}
  BY <1>1, GetMethodIs
<1>2. CASE Having(c, n) # {}
  <2>1. Nearest(c, n) \in Class /\ Named(Nearest(c, n), n) # {}
    BY <1>2, NearestIn
  <2>2. GetMethod(c, n) = methods[Nearest(c, n)][Min(Named(Nearest(c, n), n))]
    BY <1>2, GetMethodIs
  <2>3. GetMethod(c, n) \in Method /\ NameOf[GetMethod(c, n)] = n
    BY <2>1, <2>2, NamedIn
  <2> QED BY <1>2, <2>3, DispatchAssumption
<1> QED BY <1>1, <1>2

LEMMA InheritedFound ==
  ASSUME SuperOK, MethodsOK, NEW c \in Class
  PROVE  /\ Inherited(c) \in Method \cup {NULL}
         /\ Inherited(c) = NULL <=> GetMethod(c, Getattribute) = NULL
         /\ Inherited(c) = NULL <=> Having(c, Getattribute) = {}
<1> DEFINE n == Getattribute
<1>1. CASE Having(c, n) = {}
  BY <1>1, InheritedIs, GetMethodIs
<1>2. CASE Having(c, n) # {}
  <2>1. Nearest(c, n) \in Class /\ Named(Nearest(c, n), n) # {}
    BY <1>2, NearestIn
  <2>2. Inherited(c) = methods[Nearest(c, n)][Max(Named(Nearest(c, n), n))]
    BY <1>2, InheritedIs
  <2>3. Inherited(c) \in Method
    BY <2>1, <2>2, NamedIn
  <2> QED BY <1>2, <2>3, DispatchAssumption, Found
<1> QED BY <1>1, <1>2

\* A lookup finds what it found before when no class on its walk has another
\* super class, or other methods of the name.
LEMMA SameLookup ==
  ASSUME SuperOK, SuperOK', MethodsOK, NEW S \in SUBSET Class, NEW n,
         \A c \in S : super[c] \in S \cup {NULL} /\ super'[c] = super[c],
         \A c \in S : Named(c, n)' = Named(c, n) /\ \A i \in Named(c, n) : methods'[c][i] = methods[c][i],
         NEW c \in S
  PROVE  /\ GetMethod(c, n)' = GetMethod(c, n)
         /\ n = Getattribute => Inherited(c)' = Inherited(c)
<1>1. \A k \in Nat : Up(c, k) \in S \cup {NULL} /\ Up(c, k)' = Up(c, k)
  BY SameUp
<1>2. \A d \in S : d # NULL
  BY DispatchAssumption
<1>3. Having(c, n)' = Having(c, n)
  <2>1. ASSUME NEW k \in 0..Cardinality(Class)
        PROVE  (Up(c, k)' # NULL /\ Named(Up(c, k), n)' # {}) <=> (Up(c, k) # NULL /\ Named(Up(c, k), n) # {})
    <3>1. k \in Nat
      BY ClassCount
    <3>2. Up(c, k)' = Up(c, k) /\ Up(c, k) \in S \cup {NULL}
      BY <1>1, <3>1
    <3>3. ASSUME Up(c, k) \in S PROVE Named(Up(c, k), n)' = Named(Up(c, k), n)
      <4>1. PICK d \in S : d = Up(c, k) /\ d = Up(c, k)'
        BY <3>2, <3>3
      <4>2. Named(d, n)' = Named(d, n)
        OBVIOUS
      <4> QED BY <4>1, <4>2 DEF Named
    <3> QED BY <1>2, <3>2, <3>3
  <2> QED BY <2>1 DEF Having
<1>4. CASE Having(c, n) = {}
  <2>1. GetMethod(c, n)' = NULL /\ GetMethod(c, n) = NULL
    BY <1>3, <1>4, GetMethodIs DEF GetMethod, Having
  <2>2. n = Getattribute => Inherited(c)' = NULL /\ Inherited(c) = NULL
    BY <1>3, <1>4 DEF Inherited, Having
  <2> QED BY <2>1, <2>2
<1>5. CASE Having(c, n) # {}
  <2>1. Nearest(c, n) \in Class /\ Named(Nearest(c, n), n) # {} /\ Min(Having(c, n)) \in Nat
    BY <1>5, NearestIn
  <2>2. Nearest(c, n) \in S /\ Nearest(c, n)' = Nearest(c, n)
    BY <1>1, <1>3, <2>1, DispatchAssumption DEF Nearest
  <2>3. PICK d \in S : d = Nearest(c, n) /\ d = Nearest(c, n)'
    BY <2>2
  <2>4. Min(Named(d, n)) \in Named(d, n) /\ Max(Named(d, n)) \in Named(d, n)
    BY <2>1, <2>3, NamedIn
  <2>5. GetMethod(c, n) = methods[d][Min(Named(d, n))]
    BY <1>5, <2>3, GetMethodIs
  <2>6. GetMethod(c, n)' = methods'[d][Min(Named(d, n)')]
    BY <1>3, <1>5, <2>3 DEF GetMethod, Having, Nearest, Named
  <2>7. n = Getattribute => Inherited(c) = methods[d][Max(Named(d, n))]
    BY <1>5, <2>3, InheritedIs
  <2>8. n = Getattribute => Inherited(c)' = methods'[d][Max(Named(d, n)')]
    <3>1. Inherited(c)' = IF Having(c, Getattribute)' = {} THEN NULL
                          ELSE (methods[Nearest(c, Getattribute)][Max(Named(Nearest(c, Getattribute), Getattribute))])'
      BY DEF Inherited, Having, Nearest
    <3>2. SUFFICES ASSUME n = Getattribute PROVE Inherited(c)' = methods'[d][Max(Named(d, n)')]
      OBVIOUS
    <3>3. Having(c, Getattribute)' # {} /\ Nearest(c, Getattribute)' = d
      BY <1>3, <1>5, <2>3, <3>2
    <3>4. Inherited(c)' = methods'[d][Max(Named(d, Getattribute)')]
      BY <3>1, <3>3 DEF Named
    <3> QED BY <3>2, <3>4
  <2>9. Named(d, n)' = Named(d, n) /\ methods'[d][Min(Named(d, n))] = methods[d][Min(Named(d, n))]
        /\ methods'[d][Max(Named(d, n))] = methods[d][Max(Named(d, n))]
    BY <2>4
  <2> QED BY <2>5, <2>6, <2>7, <2>8, <2>9
<1> QED BY <1>4, <1>5

-----------------------------------------------------------------------------
(* The tree of classes, and the magic methods kept in it *)

TreeOK == \E h \in [Class -> Nat] : \A c \in Class : super[c] # NULL => h[c] = h[super[c]] + 1

\* A walk is shorter than there are classes.
LEMMA WalkEnds ==
  ASSUME SuperOK, TreeOK, NEW c \in Class, NEW n \in Nat, Up(c, n) # NULL
  PROVE  n < Cardinality(Class)
<1>1. PICK h \in [Class -> Nat] : \A d \in Class : super[d] # NULL => h[d] = h[super[d]] + 1
  BY DEF TreeOK
<1>2. Steps /\ \A k \in Nat : Up(c, k) \in Class \cup {NULL}
  BY UpSteps, UpType
<1> DEFINE P == {k \in Nat : Up(c, k) # NULL => \A j \in 0..k : Up(c, j) # NULL /\ h[Up(c, j)] = h[c] - j}
<1>3. 0 \in P
  <2>1. Up(c, 0) = c /\ h[c] \in Nat
    BY <1>2 DEF Steps
  <2>2. \A j \in 0..0 : j = 0
    OBVIOUS
  <2> QED BY <2>1, <2>2, DispatchAssumption
<1>4. ASSUME NEW k \in Nat, k \in P PROVE k + 1 \in P
  <2> SUFFICES ASSUME Up(c, k + 1) # NULL
               PROVE  \A j \in 0..(k + 1) : Up(c, j) # NULL /\ h[Up(c, j)] = h[c] - j
    OBVIOUS
  <2>1. Up(c, k) # NULL /\ Up(c, k + 1) = super[Up(c, k)]
    BY <1>2 DEF Steps
  <2>2. \A j \in 0..k : Up(c, j) # NULL /\ h[Up(c, j)] = h[c] - j
    BY <1>4, <2>1
  <2>3. h[Up(c, k)] = h[Up(c, k + 1)] + 1 /\ h[Up(c, k)] = h[c] - k
    BY <1>1, <1>2, <2>1, <2>2
  <2>4. h[Up(c, k + 1)] \in Nat /\ h[c] \in Nat
    BY <1>2
  <2>5. h[Up(c, k + 1)] = h[c] - (k + 1)
    BY <2>3, <2>4
  <2>6. \A j \in 0..(k + 1) : j \in 0..k \/ j = k + 1
    OBVIOUS
  <2> QED BY <2>2, <2>5, <2>6
<1> HIDE DEF P
<1>5. n \in P
  BY <1>3, <1>4, NatInduct
<1>6. \A j \in 0..n : Up(c, j) # NULL /\ h[Up(c, j)] = h[c] - j
  BY <1>5 DEF P
<1> DEFINE f == [j \in 0..n |-> Up(c, j)]
<1>7. f \in Injection(0..n, Class)
  <2>1. f \in [0..n -> Class]
    BY <1>2, <1>6
  <2>2. ASSUME NEW i \in 0..n, NEW j \in 0..n, f[i] = f[j] PROVE i = j
    <3>1. h[c] - i = h[c] - j /\ h[c] \in Nat
      BY <1>6, <2>2
    <3> QED BY <3>1
  <2> QED BY <2>1, <2>2 DEF Injection, IsInjective
<1>8. Cardinality(0..n) <= Cardinality(Class)
  BY <1>7, FS_Injection, DispatchAssumption
<1>9. Cardinality(0..n) = n + 1
  BY FS_Interval
<1> QED BY <1>8, <1>9, ClassCount

MagicOK == magic \in [Class -> Method \cup {NULL, Unresolved}]

\* A class that has a _getattribute keeps the one it bound last.
MagicLast ==
  \A c \in Class : Named(c, Getattribute) # {} => magic[c] = methods[c][Max(Named(c, Getattribute))]

\* The magic method getMagicMethod resolves, from what the classes above keep
\* for themselves, is the one of the nearest class that has one.
LEMMA MagicResolved ==
  ASSUME SuperOK, MethodsOK, MagicOK, TreeOK, MagicLast, MagicExact, NEW c \in Class
  PROVE  GetMagic(c) = Inherited(c)
<1> DEFINE n == Getattribute
           H == {k \in 1..Cardinality(Class) : Up(c, k) # NULL /\ magic[Up(c, k)] \notin {NULL, Unresolved}}
<1>1. CASE magic[c] # Unresolved
  BY <1>1 DEF GetMagic, MagicExact
<1>2. CASE magic[c] = Unresolved
  <2>1. \A d \in Class : Named(d, n) # {} => magic[d] \notin {NULL, Unresolved}
    BY NamedIn, DispatchAssumption DEF MagicLast
  <2>2. Steps /\ \A k \in Nat : Up(c, k) \in Class \cup {NULL}
    BY UpSteps, UpType
  <2>3. \A k \in Having(c, n) : k \in H
    <3> TAKE k \in Having(c, n)
    <3>1. k \in 0..Cardinality(Class) /\ Up(c, k) # NULL /\ Named(Up(c, k), n) # {}
      BY DEF Having
    <3>2. Up(c, k) \in Class /\ magic[Up(c, k)] \notin {NULL, Unresolved}
      BY <2>1, <2>2, <3>1, ClassCount
    <3>3. k # 0
      BY <1>2, <2>2, <3>2 DEF Steps
    <3> QED BY <3>1, <3>2, <3>3, ClassCount
  <2>4. GetMagic(c) = IF H = {} THEN NULL ELSE magic[Up(c, Min(H))]
    BY <1>2 DEF GetMagic
  <2>5. CASE H = {}
    BY <2>3, <2>4, <2>5, InheritedIs
  <2>6. CASE H # {}
    <3> DEFINE k == Min(H)
               d == Up(c, k)
    <3>1. k \in H /\ \A i \in H : k <= i
      <4>1. H \in SUBSET Nat
        OBVIOUS
      <4> HIDE DEF H
      <4> QED BY <2>6, <4>1, MinIn
    <3>2. k \in Nat /\ d \in Class /\ magic[d] \notin {NULL, Unresolved}
      BY <2>2, <3>1
    <3> HIDE DEF k, H
    <3>3. magic[d] = Inherited(d) /\ Having(d, n) # {}
      BY <3>2, InheritedFound DEF MagicExact
    <3> DEFINE j == Min(Having(d, n))
    <3>4. j \in Having(d, n) /\ j \in Nat
      BY <3>2, <3>3, NearestIn
    <3>5. \A i \in Having(d, n) : j <= i
      BY <3>3, MinIn DEF Having
    <3>6. \A i \in Nat : Up(d, i) = Up(c, k + i)
      BY <3>2, UpShift
    <3>7. k + j \in Having(c, n)
      <4>1. Up(c, k + j) # NULL /\ Named(Up(c, k + j), n) # {}
        BY <3>4, <3>6 DEF Having
      <4>2. k + j < Cardinality(Class)
        BY <3>2, <3>4, <4>1, WalkEnds
      <4>3. k + j \in 0..Cardinality(Class)
        BY <3>2, <3>4, <4>2, ClassCount
      <4> HIDE DEF d, j
      <4> QED BY <4>1, <4>3 DEF Having
    <3>8. \A i \in Having(c, n) : k + j <= i
      <4> TAKE i \in Having(c, n)
      <4>1. i \in Nat /\ i <= Cardinality(Class) /\ k <= i
        BY <2>3, <3>1, ClassCount DEF Having
      <4>2. i - k \in 0..Cardinality(Class) /\ k + (i - k) = i
        BY <3>2, <4>1, ClassCount
      <4>3. Up(d, i - k) = Up(c, i)
        BY <3>6, <4>2, ClassCount
      <4>4. i - k \in Having(d, n)
        BY <4>2, <4>3 DEF Having
      <4>5. j <= i - k
        BY <3>5, <4>4
      <4> QED BY <3>2, <3>4, <4>1, <4>5
    <3>9. Min(Having(c, n)) = k + j
      <4>1. Having(c, n) \in SUBSET Nat
        BY ClassCount DEF Having
      <4> QED BY <3>7, <3>8, <4>1, MinUnique
    <3>10. Nearest(c, n) = Nearest(d, n)
      BY <3>4, <3>6, <3>9 DEF Nearest
    <3>11. Inherited(c) = Inherited(d)
      BY <3>3, <3>7, <3>10, InheritedIs
    <3> QED BY <2>4, <2>6, <3>3, <3>11 DEF k, H
  <2> QED BY <2>5, <2>6
<1> QED BY <1>1, <1>2 DEF MagicOK

-----------------------------------------------------------------------------
(* The attributes of one instance *)

Pair == [name : Name, value : Value]

\* Inline ones and those in the map, each name in one place.
AttribsOK(I, A) ==
  /\ I \in Seq(Pair) /\ Len(I) <= InlineCapacity
  /\ DOMAIN A \subseteq Name /\ Range(A) \subseteq Value
  /\ \A i, j \in 1..Len(I) : I[i].name = I[j].name => i = j
  /\ \A i \in 1..Len(I) : I[i].name \notin DOMAIN A

AllAttribsOK ==
  /\ inline = [o \in Instance |-> inline[o]] /\ attribs = [o \in Instance |-> attribs[o]]
  /\ \A o \in Instance : AttribsOK(inline[o], attribs[o])

LEMMA RemoveIs ==
  ASSUME NEW S, NEW s \in Seq(S), NEW k \in 1..Len(s)
  PROVE  /\ RemoveAt(s, k) \in Seq(S) /\ Len(RemoveAt(s, k)) = Len(s) - 1
         /\ \A i \in 1..(Len(s) - 1) : RemoveAt(s, k)[i] = s[IF i < k THEN i ELSE i + 1]
<1> DEFINE a == SubSeq(s, 1, k - 1)
           b == SubSeq(s, k + 1, Len(s))
<1>1. Len(s) \in Nat /\ k \in Nat /\ k >= 1 /\ k <= Len(s)
  OBVIOUS
<1>2. /\ a \in Seq(S) /\ Len(a) = k - 1
      /\ \A i \in 1..(k - 1) : a[i] = s[i]
  <2>1. \A i \in 1..(k - 1) : s[i] \in S
    BY <1>1
  <2>2. /\ a \in Seq(S) /\ Len(a) = (IF 1 <= k - 1 THEN (k - 1) - 1 + 1 ELSE 0)
        /\ \A i \in 1..((k - 1) - 1 + 1) : a[i] = s[1 + i - 1]
    BY <1>1, <2>1, SubSeqProperties
  <2> HIDE DEF a
  <2>3. Len(a) = k - 1
    <3>1. CASE 1 <= k - 1
      BY <1>1, <2>2, <3>1
    <3>2. CASE ~(1 <= k - 1)
      BY <1>1, <2>2, <3>2
    <3> QED BY <3>1, <3>2
  <2> QED BY <1>1, <2>2, <2>3
<1>3. /\ b \in Seq(S) /\ Len(b) = Len(s) - k
      /\ \A i \in 1..(Len(s) - k) : b[i] = s[k + i]
  <2>1. \A i \in (k + 1)..Len(s) : s[i] \in S
    BY <1>1
  <2>2. /\ b \in Seq(S) /\ Len(b) = (IF k + 1 <= Len(s) THEN Len(s) - (k + 1) + 1 ELSE 0)
        /\ \A i \in 1..(Len(s) - (k + 1) + 1) : b[i] = s[(k + 1) + i - 1]
    BY <1>1, <2>1, SubSeqProperties
  <2> HIDE DEF b
  <2>3. Len(b) = Len(s) - k
    <3>1. CASE k + 1 <= Len(s)
      BY <1>1, <2>2, <3>1
    <3>2. CASE ~(k + 1 <= Len(s))
      BY <1>1, <2>2, <3>2
    <3> QED BY <3>1, <3>2
  <2>4. ASSUME NEW i \in 1..(Len(s) - k) PROVE b[i] = s[k + i]
    <3>1. i \in 1..(Len(s) - (k + 1) + 1) /\ (k + 1) + i - 1 = k + i
      BY <1>1
    <3> QED BY <2>2, <3>1
  <2> QED BY <2>2, <2>3, <2>4
<1> DEFINE r == a \o b
<1> HIDE DEF a, b
<1>4. /\ r \in Seq(S) /\ Len(r) = Len(a) + Len(b)
      /\ \A i \in 1..(Len(a) + Len(b)) : r[i] = IF i <= Len(a) THEN a[i] ELSE b[i - Len(a)]
  BY <1>2, <1>3, ConcatProperties
<1> HIDE DEF r
<1>5. Len(r) = Len(s) - 1
  BY <1>1, <1>2, <1>3, <1>4
<1>6. ASSUME NEW i \in 1..(Len(s) - 1) PROVE r[i] = s[IF i < k THEN i ELSE i + 1]
  <2>1. i \in 1..(Len(a) + Len(b))
    BY <1>1, <1>2, <1>3
  <2>2. CASE i < k
    <3>1. i <= Len(a) /\ i \in 1..(k - 1)
      BY <1>1, <1>2, <2>2
    <3>2. r[i] = a[i]
      BY <1>4, <2>1, <3>1
    <3> QED BY <1>2, <2>2, <3>1, <3>2
  <2>3. CASE ~(i < k)
    <3>1. ~(i <= Len(a)) /\ i - Len(a) \in 1..(Len(s) - k) /\ k + (i - Len(a)) = i + 1
      BY <1>1, <1>2, <2>3
    <3>2. r[i] = b[i - Len(a)]
      BY <1>4, <2>1, <3>1
    <3> QED BY <1>3, <2>3, <3>1, <3>2
  <2> QED BY <2>2, <2>3
<1>7. RemoveAt(s, k) = r
  BY DEF RemoveAt, r, a, b
<1> QED BY <1>4, <1>5, <1>6, <1>7

LEMMA InlineIn ==
  ASSUME AllAttribsOK, NEW o \in Instance, NEW n, InlineIndex(o, n) # {}
  PROVE  /\ Min(InlineIndex(o, n)) \in 1..Len(inline[o])
         /\ inline[o][Min(InlineIndex(o, n))].name = n
         /\ \A i \in 1..Len(inline[o]) : inline[o][i].name = n => i = Min(InlineIndex(o, n))
<1>1. inline[o] \in Seq(Pair) /\ \A i, j \in 1..Len(inline[o]) : inline[o][i].name = inline[o][j].name => i = j
  BY DEF AllAttribsOK, AttribsOK
<1>2. DOMAIN inline[o] = 1..Len(inline[o])
  BY <1>1
<1>3. InlineIndex(o, n) \in SUBSET Nat
  BY <1>2 DEF InlineIndex
<1>4. Min(InlineIndex(o, n)) \in InlineIndex(o, n)
  BY <1>3, MinIn
<1> QED BY <1>1, <1>2, <1>4 DEF InlineIndex

LEMMA SetFastKeeps ==
  ASSUME AllAttribsOK, NEW o \in Instance, NEW n \in Name, NEW v \in Value, SetFast(o, n, v)
  PROVE  /\ AllAttribsOK'
         /\ \A p \in Instance \ {o} : inline'[p] = inline[p] /\ attribs'[p] = attribs[p]
         /\ \A i \in 1..Len(inline'[o]) :
              \/ i \in 1..Len(inline[o]) /\ inline'[o][i] = inline[o][i]
              \/ inline'[o][i] = [name |-> n, value |-> v]
         /\ \A a \in DOMAIN attribs'[o] :
              \/ a \in DOMAIN attribs[o] /\ attribs'[o][a] = attribs[o][a]
              \/ a = n /\ attribs'[o][a] = v
<1> DEFINE I == inline[o]
           A == attribs[o]
<1>1. AttribsOK(I, A) /\ I \in Seq(Pair) /\ Len(I) \in Nat /\ DOMAIN I = 1..Len(I)
  BY DEF AllAttribsOK, AttribsOK
<1>2. \A i \in 1..Len(I) : I[i] \in Pair
  BY <1>1
<1>3. inline = [p \in Instance |-> inline[p]] /\ attribs = [p \in Instance |-> attribs[p]]
      /\ \A p \in Instance : AttribsOK(inline[p], attribs[p])
  BY DEF AllAttribsOK
<1>4. CASE InlineIndex(o, n) # {}
  <2> DEFINE k == Min(InlineIndex(o, n))
             J == [I EXCEPT ![k].value = v]
  <2>1. k \in 1..Len(I) /\ I[k].name = n
    BY <1>4, InlineIn
  <2> HIDE DEF k
  <2>2. inline' = [inline EXCEPT ![o] = J] /\ attribs' = attribs
    BY <1>4 DEF SetFast, k
  <2>3. J \in Seq(Pair) /\ Len(J) = Len(I)
        /\ \A i \in 1..Len(I) : J[i] = IF i = k THEN [name |-> n, value |-> v] ELSE I[i]
    <3>1. [I[k] EXCEPT !.value = v] = [name |-> n, value |-> v]
      <4>1. PICK w \in Value : I[k] = [name |-> n, value |-> w]
        <5>1. ASSUME NEW x \in Pair PROVE \E w \in Value : x = [name |-> x.name, value |-> w]
          BY DEF Pair
        <5> QED BY <1>2, <2>1, <5>1
      <4> QED BY <4>1
    <3>2. J = [I EXCEPT ![k] = [name |-> n, value |-> v]]
      BY <3>1
    <3>3. [name |-> n, value |-> v] \in Pair
      BY DEF Pair
    <3> HIDE DEF J
    <3> QED BY <1>1, <2>1, <3>2, <3>3, ExceptSeq
  <2> HIDE DEF J
  <2>4. inline'[o] = J /\ attribs'[o] = A /\ \A p \in Instance \ {o} : inline'[p] = inline[p] /\ attribs'[p] = attribs[p]
    BY <1>3, <2>2
  <2>5. \A i \in 1..Len(I) : J[i].name = I[i].name
    BY <2>1, <2>3
  <2>6. AttribsOK(J, A)
    BY <1>1, <2>3, <2>5 DEF AttribsOK
  <2>7. AllAttribsOK'
    BY <1>3, <2>2, <2>4, <2>6 DEF AllAttribsOK
  <2> QED BY <2>3, <2>4, <2>7
<1>5. CASE InlineIndex(o, n) = {} /\ n \notin DOMAIN A /\ Len(I) < InlineCapacity
  <2> DEFINE x == [name |-> n, value |-> v]
             J == Append(I, x)
  <2>1. x \in Pair
    BY DEF Pair
  <2>2. inline' = [inline EXCEPT ![o] = J] /\ attribs' = attribs
    BY <1>5 DEF SetFast
  <2>3. \A i \in 1..Len(I) : I[i].name # n
    BY <1>1, <1>5 DEF InlineIndex
  <2>4. J \in Seq(Pair) /\ Len(J) = Len(I) + 1 /\ (\A i \in 1..Len(I) : J[i] = I[i]) /\ J[Len(I) + 1] = x
    <3> HIDE DEF x
    <3> QED BY <1>1, <2>1, AppendProperties
  <2>5. x.name = n
    OBVIOUS
  <2> HIDE DEF J, x
  <2>6. inline'[o] = J /\ attribs'[o] = A /\ \A p \in Instance \ {o} : inline'[p] = inline[p] /\ attribs'[p] = attribs[p]
    BY <1>3, <2>2
  <2>7. \A i \in 1..Len(J) : (i \in 1..Len(I) /\ J[i] = I[i]) \/ (i = Len(I) + 1 /\ J[i] = x)
    BY <1>1, <2>4
  <2>8. AttribsOK(J, A)
    <3>1. Len(J) <= InlineCapacity
      BY <1>1, <1>5, <2>4, DispatchAssumption
    <3>2. \A i, j \in 1..Len(J) : J[i].name = J[j].name => i = j
      BY <1>1, <2>3, <2>5, <2>7 DEF AttribsOK
    <3>3. \A i \in 1..Len(J) : J[i].name \notin DOMAIN A
      BY <1>1, <1>5, <2>5, <2>7 DEF AttribsOK
    <3> QED BY <1>1, <2>4, <3>1, <3>2, <3>3 DEF AttribsOK
  <2>9. AllAttribsOK'
    BY <1>3, <2>2, <2>6, <2>8 DEF AllAttribsOK
  <2> QED BY <2>6, <2>7, <2>9 DEF x
<1>6. CASE InlineIndex(o, n) = {} /\ ~(n \notin DOMAIN A /\ Len(I) < InlineCapacity)
  <2> DEFINE B == [a \in DOMAIN A \cup {n} |-> IF a = n THEN v ELSE A[a]]
  <2>1. attribs' = [attribs EXCEPT ![o] = B] /\ inline' = inline
    BY <1>6 DEF SetFast
  <2>2. \A i \in 1..Len(I) : I[i].name # n
    BY <1>1, <1>6 DEF InlineIndex
  <2>3. DOMAIN B = DOMAIN A \cup {n} /\ \A a \in DOMAIN B : B[a] = IF a = n THEN v ELSE A[a]
    OBVIOUS
  <2> HIDE DEF B
  <2>4. inline'[o] = I /\ attribs'[o] = B /\ \A p \in Instance \ {o} : inline'[p] = inline[p] /\ attribs'[p] = attribs[p]
    BY <1>3, <2>1
  <2>5. DOMAIN B \subseteq Name /\ Range(B) \subseteq Value
    BY <1>1, <2>3 DEF AttribsOK, Range
  <2>6. AttribsOK(I, B)
    BY <1>1, <2>2, <2>3, <2>5 DEF AttribsOK
  <2>7. AllAttribsOK'
    BY <1>3, <2>1, <2>4, <2>6 DEF AllAttribsOK
  <2> QED BY <1>1, <2>3, <2>4, <2>7
<1> QED BY <1>4, <1>5, <1>6

LEMMA DelAttribKeeps ==
  ASSUME AllAttribsOK, NEW o \in Instance, NEW n \in Name, DelAttrib(o, n)
  PROVE  /\ AllAttribsOK'
         /\ \A p \in Instance \ {o} : inline'[p] = inline[p] /\ attribs'[p] = attribs[p]
         /\ \A i \in 1..Len(inline'[o]) : \E j \in 1..Len(inline[o]) : inline'[o][i] = inline[o][j]
         /\ \A a \in DOMAIN attribs'[o] : a \in DOMAIN attribs[o] /\ attribs'[o][a] = attribs[o][a]
<1> DEFINE I == inline[o]
           A == attribs[o]
<1>1. AttribsOK(I, A) /\ I \in Seq(Pair) /\ Len(I) \in Nat /\ DOMAIN I = 1..Len(I)
  BY DEF AllAttribsOK, AttribsOK
<1>2. inline = [p \in Instance |-> inline[p]] /\ attribs = [p \in Instance |-> attribs[p]]
      /\ \A p \in Instance : AttribsOK(inline[p], attribs[p])
  BY DEF AllAttribsOK
<1>3. CASE InlineIndex(o, n) # {} /\ inline' = [inline EXCEPT ![o] = RemoveAt(@, Min(InlineIndex(o, n)))] /\ UNCHANGED attribs
  <2> DEFINE k == Min(InlineIndex(o, n))
             J == RemoveAt(I, k)
  <2>1. k \in 1..Len(I)
    BY <1>3, InlineIn
  <2>2. inline' = [inline EXCEPT ![o] = J] /\ attribs' = attribs
    BY <1>3
  <2> HIDE DEF k
  <2>3. J \in Seq(Pair) /\ Len(J) = Len(I) - 1 /\ \A i \in 1..(Len(I) - 1) : J[i] = I[IF i < k THEN i ELSE i + 1]
    BY <1>1, <2>1, RemoveIs
  <2> HIDE DEF J
  <2>4. inline'[o] = J /\ attribs'[o] = A /\ \A p \in Instance \ {o} : inline'[p] = inline[p] /\ attribs'[p] = attribs[p]
    BY <1>2, <2>2
  <2> DEFINE at(i) == IF i < k THEN i ELSE i + 1
  <2>5. \A i \in 1..Len(J) : at(i) \in 1..Len(I) /\ J[i] = I[at(i)]
    BY <1>1, <2>1, <2>3
  <2>6. \A i, j \in 1..Len(J) : at(i) = at(j) => i = j
    BY <1>1, <2>1, <2>3
  <2> HIDE DEF at
  <2>7. AttribsOK(J, A)
    <3>1. Len(J) <= InlineCapacity
      BY <1>1, <2>3, DispatchAssumption DEF AttribsOK
    <3>2. \A i, j \in 1..Len(J) : J[i].name = J[j].name => i = j
      BY <1>1, <2>5, <2>6 DEF AttribsOK
    <3>3. \A i \in 1..Len(J) : J[i].name \notin DOMAIN A
      BY <1>1, <2>5 DEF AttribsOK
    <3> QED BY <1>1, <2>3, <3>1, <3>2, <3>3 DEF AttribsOK
  <2>8. AllAttribsOK'
    BY <1>2, <2>2, <2>4, <2>7 DEF AllAttribsOK
  <2> QED BY <2>4, <2>5, <2>8
<1>4. CASE attribs' = [attribs EXCEPT ![o] = [a \in DOMAIN @ \ {n} |-> @[a]]] /\ UNCHANGED inline
  <2> DEFINE B == [a \in DOMAIN A \ {n} |-> A[a]]
  <2>1. attribs' = [attribs EXCEPT ![o] = B] /\ inline' = inline
    BY <1>4
  <2>2. DOMAIN B \subseteq DOMAIN A /\ \A a \in DOMAIN B : B[a] = A[a]
    OBVIOUS
  <2> HIDE DEF B
  <2>3. inline'[o] = I /\ attribs'[o] = B /\ \A p \in Instance \ {o} : inline'[p] = inline[p] /\ attribs'[p] = attribs[p]
    BY <1>2, <2>1
  <2>4. DOMAIN B \subseteq Name /\ Range(B) \subseteq Value
    BY <1>1, <2>2 DEF AttribsOK, Range
  <2>5. AttribsOK(I, B)
    BY <1>1, <2>2, <2>4 DEF AttribsOK
  <2>6. AllAttribsOK'
    BY <1>2, <2>1, <2>3, <2>5 DEF AllAttribsOK
  <2> QED BY <2>2, <2>3, <2>6
<1> QED BY <1>3, <1>4 DEF DelAttrib

-----------------------------------------------------------------------------
(* Types, and one place for each attribute *)

TypeInv == TypeOK /\ AllAttribsOK

Cache == [cls : Class, name : Name, method : Method]

LEMMA Parts ==
  ASSUME TypeInv
  PROVE  SuperOK /\ MethodsOK /\ MagicOK /\ cache \in Cache \cup {NULL} /\ epoch \in 1..MaxEpoch
  BY DEF TypeInv, TypeOK, SuperOK, MethodsOK, MagicOK, Cache

\* Once an attribute's names are apart, TypeOK and AttribOnce hold for them.
LEMMA OnceHolds == AllAttribsOK => AttribOnce
<1> SUFFICES ASSUME AllAttribsOK, NEW o \in Instance, NEW n \in Name
             PROVE  Cardinality(InlineIndex(o, n)) + Cardinality(DOMAIN attribs[o] \cap {n}) <= 1
  BY DEF AttribOnce
<1> DEFINE K == InlineIndex(o, n)
           M == DOMAIN attribs[o] \cap {n}
<1> SUFFICES Cardinality(K) + Cardinality(M) <= 1
  OBVIOUS
<1>1. AttribsOK(inline[o], attribs[o]) /\ DOMAIN inline[o] = 1..Len(inline[o])
  BY DEF AllAttribsOK, AttribsOK
<1>2. Cardinality({}) = 0 /\ \A x : Cardinality({x}) = 1
  BY FS_EmptySet, FS_Singleton
<1>3. M = {} \/ M = {n}
  OBVIOUS
<1>6. Cardinality(M) = 0 \/ Cardinality(M) = 1
  BY <1>2, <1>3
<1>4. CASE K = {}
  <2>1. Cardinality(K) = 0
    BY <1>2, <1>4
  <2> HIDE DEF K, M
  <2> QED BY <1>6, <2>1
<1>5. CASE K # {}
  <2>1. PICK i \in K : TRUE
    BY <1>5
  <2>2. K = {i}
    BY <1>1, <2>1 DEF AttribsOK, InlineIndex
  <2>3. M = {}
    BY <1>1, <2>1 DEF AttribsOK, InlineIndex
  <2>4. Cardinality(K) = 1 /\ Cardinality(M) = 0
    BY <1>2, <2>2, <2>3
  <2> HIDE DEF K, M
  <2> QED BY <2>4
<1> QED BY <1>4, <1>5

\* TypeOK says of the attributes what AttribsOK does.
Rest ==
  /\ super \in [Class -> Class \cup {NULL}]
  /\ methods \in [Class -> Seq(Method)]
  /\ magic \in [Class -> Method \cup {NULL, Unresolved}]
  /\ defined \subseteq Class /\ building \in Class \cup {NULL}
  /\ class \in [Instance -> Class \cup {NULL}]
  /\ cache \in Cache \cup {NULL} /\ epoch \in 1..MaxEpoch
  /\ mic \in InlineEntry /\ aic \in InlineEntry

LEMMA TypeParts == TypeInv <=> Rest /\ AllAttribsOK
  BY DEF TypeInv, TypeOK, Rest, Cache, AllAttribsOK, AttribsOK, Pair

LEMMA TypePartsNext == TypeInv' <=> Rest' /\ AllAttribsOK'
  BY TypeParts, PTL

LEMMA BlankType == Blank \in InlineEntry
  BY DispatchAssumption DEF Blank, InlineEntry

LEMMA AttribsKept == AllAttribsOK /\ UNCHANGED <<inline, attribs>> => AllAttribsOK'
  BY DEF AllAttribsOK, AttribsOK

LEMMA TypeInit == Init => TypeInv
<1> SUFFICES ASSUME Init PROVE Rest /\ AllAttribsOK
  BY TypeParts
<1>1. SetToSeq(Builtin) \in Seq(Method)
  <2> DEFINE n == Cardinality(Builtin)
  <2>1. n \in Nat /\ ExistsBijection(1..n, Builtin)
    BY DispatchAssumption, FS_CardinalityType
  <2>2. \E f \in [1..n -> Builtin] : IsInjective(f)
    BY <2>1 DEF ExistsBijection, Bijection, Injection
  <2>3. SetToSeq(Builtin) \in [1..n -> Builtin]
    BY <2>2 DEF SetToSeq
  <2> HIDE DEF n
  <2> QED BY <2>1, <2>3, DispatchAssumption
<1>2. methods \in [Class -> Seq(Method)]
  BY <1>1 DEF Init
<1>3. super \in [Class -> Class \cup {NULL}] /\ magic \in [Class -> Method \cup {NULL, Unresolved}]
  BY DispatchAssumption DEF Init
<1>4. defined \subseteq Class /\ building \in Class \cup {NULL} /\ class \in [Instance -> Class \cup {NULL}]
      /\ cache \in Cache \cup {NULL} /\ epoch \in 1..MaxEpoch /\ mic \in InlineEntry /\ aic \in InlineEntry
  BY BlankType, DispatchAssumption DEF Init
<1>5. AllAttribsOK
  <2>1. inline = [o \in Instance |-> <<>>] /\ attribs = [o \in Instance |-> <<>>]
    BY DEF Init
  <2>2. AttribsOK(<<>>, <<>>)
    BY DispatchAssumption DEF AttribsOK, Range
  <2> QED BY <2>1, <2>2 DEF AllAttribsOK
<1> QED BY <1>2, <1>3, <1>4, <1>5 DEF Rest

\* A method looked up through the global cache is a method or none.
LEMMA FindType ==
  ASSUME TypeInv, NEW c \in Class, NEW n
  PROVE  FindMethod(c, n) \in Method \cup {NULL}
<1>1. CASE Cached(c, n)
  BY <1>1, Parts DEF Cached, FindMethod, Cache
<1>2. CASE ~Cached(c, n)
  BY <1>2, Parts, Found DEF FindMethod
<1> QED BY <1>1, <1>2

LEMMA RememberType ==
  ASSUME TypeInv, NEW c \in Class, NEW n \in Name, Remember(c, n)
  PROVE  cache' \in Cache \cup {NULL}
  BY FindType, Parts DEF Remember, Cache

LEMMA ResolveType ==
  ASSUME TypeInv, NEW c \in Class, ResolveMagic(c)
  PROVE  /\ GetMagic(c) \in Method \cup {NULL}
         /\ magic' = [magic EXCEPT ![c] = GetMagic(c)] /\ magic' \in [Class -> Method \cup {NULL, Unresolved}]
<1> DEFINE H == {k \in 1..Cardinality(Class) : Up(c, k) # NULL /\ magic[Up(c, k)] \notin {NULL, Unresolved}}
<1>1. GetMagic(c) = IF magic[c] # Unresolved THEN magic[c] ELSE IF H = {} THEN NULL ELSE magic[Up(c, Min(H))]
  BY DEF GetMagic
<1>2. CASE H # {}
  <2>1. Min(H) \in H
    <3>1. H \in SUBSET Nat
      OBVIOUS
    <3> HIDE DEF H
    <3> QED BY <1>2, <3>1, MinIn
  <2>2. Up(c, Min(H)) \in Class /\ magic[Up(c, Min(H))] \in Method
    BY <2>1, UpType, Parts DEF MagicOK
  <2> HIDE DEF H
  <2> QED BY <1>1, <2>2, Parts DEF MagicOK, ResolveMagic
<1>3. CASE H = {}
  <2> HIDE DEF H
  <2> QED BY <1>1, <1>3, Parts DEF MagicOK, ResolveMagic
<1> QED BY <1>2, <1>3

LEMMA InvalidateType ==
  ASSUME TypeInv, InvalidateInlineCaches
  PROVE  epoch' \in 1..MaxEpoch /\ mic' \in InlineEntry /\ aic' \in InlineEntry
<1>1. epoch \in 1..MaxEpoch /\ mic \in InlineEntry /\ aic \in InlineEntry /\ MaxEpoch \in Nat
  BY DispatchAssumption DEF TypeInv, TypeOK
<1> QED BY <1>1, BlankType DEF InvalidateInlineCaches

LEMMA BindType ==
  ASSUME TypeInv, NEW c \in Class, NEW m \in Method, Bind(c, m)
  PROVE  /\ methods' \in [Class -> Seq(Method)] /\ magic' \in [Class -> Method \cup {NULL, Unresolved}]
         /\ cache' \in Cache \cup {NULL}
         /\ epoch' \in 1..MaxEpoch /\ mic' \in InlineEntry /\ aic' \in InlineEntry
<1>1. methods' = [methods EXCEPT ![c] = Append(@, m)] /\ InvalidateInlineCaches
  BY DEF Bind
<1>2. methods' \in [Class -> Seq(Method)]
  <2>1. Append(methods[c], m) \in Seq(Method)
    BY Parts, AppendProperties DEF MethodsOK
  <2> QED BY <1>1, <2>1, Parts DEF MethodsOK
<1>3. magic' \in [Class -> Method \cup {NULL, Unresolved}]
  BY Parts DEF Bind, MagicOK
<1>4. cache' \in Cache \cup {NULL}
  BY Parts DEF Bind
<1> QED BY <1>1, <1>2, <1>3, <1>4, InvalidateType

LEMMA EntryType ==
  ASSUME TypeInv, NEW s \in AttribSite, NEW o \in Instance, class[o] # NULL, NEW value
  PROVE  Entry(s, o, value) \in InlineEntry
<1> DEFINE n == SiteName[s]
           k == IF InlineIndex(o, n) = {} THEN 0 ELSE Min(InlineIndex(o, n))
<1>1. k \in 0..InlineCapacity
  <2>1. AllAttribsOK /\ Len(inline[o]) \in Nat /\ Len(inline[o]) <= InlineCapacity
    BY DEF TypeInv, AllAttribsOK, AttribsOK
  <2> QED BY <2>1, InlineIn, DispatchAssumption
<1>2. n \in Name /\ class[o] \in Class /\ epoch \in 0..MaxEpoch
  BY DispatchAssumption DEF TypeInv, TypeOK
<1>3. CASE value \in Bound
  <2>1. Entry(s, o, value) = [site |-> s, epoch |-> epoch, kind |-> "bind", cls |-> class[o], name |-> n,
                              slot |-> k, method |-> value.method]
    BY <1>3 DEF Entry, Blank
  <2>2. value.method \in Method
    BY <1>3 DEF Bound
  <2> HIDE DEF n, k
  <2> QED BY <1>1, <1>2, <2>1, <2>2 DEF InlineEntry
<1>4. CASE value \notin Bound /\ InlineIndex(o, n) # {}
  <2>1. Entry(s, o, value) = [site |-> s, epoch |-> epoch, kind |-> "inline", cls |-> class[o], name |-> n,
                              slot |-> k, method |-> NULL]
    BY <1>4 DEF Entry, Blank
  <2> HIDE DEF n, k
  <2> QED BY <1>1, <1>2, <2>1 DEF InlineEntry
<1>5. CASE value \notin Bound /\ InlineIndex(o, n) = {}
  <2>1. Entry(s, o, value) = [site |-> s, epoch |-> epoch, kind |-> "none", cls |-> NULL, name |-> n,
                              slot |-> 0, method |-> NULL]
    BY <1>5 DEF Entry, Blank
  <2> HIDE DEF n, k
  <2> QED BY <1>2, <2>1, DispatchAssumption DEF InlineEntry
<1> QED BY <1>3, <1>4, <1>5

LEMMA TypeStep ==
  ASSUME TypeInv, [Next]_vars
  PROVE  TypeInv'
<1>0. Rest /\ AllAttribsOK
  BY TypeParts
<1> SUFFICES Rest' /\ AllAttribsOK'
  BY TypePartsNext
<1>1. CASE UNCHANGED vars
  <2>1. UNCHANGED <<super, methods, magic, defined, building, class, inline, attribs, cache, epoch, mic, aic>>
    BY <1>1 DEF vars, classVars, objectVars, inlineVars
  <2> QED BY <1>0, <2>1, AttribsKept DEF Rest
<1>2. ASSUME NEW c \in Class, NEW b \in Class, CreateClass(c, b)
      PROVE  Rest' /\ AllAttribsOK'
  <2>1. super' \in [Class -> Class \cup {NULL}] /\ building' \in Class \cup {NULL}
    BY <1>0, <1>2 DEF Rest, CreateClass
  <2>2. UNCHANGED <<methods, magic, defined, class, inline, attribs, cache, epoch, mic, aic>>
    BY <1>2 DEF CreateClass, objectVars, inlineVars
  <2> QED BY <1>0, <2>1, <2>2, AttribsKept DEF Rest
<1>3. ASSUME NEW m \in Method, BindMethod(m)
      PROVE  Rest' /\ AllAttribsOK'
  <2>1. building \in Class
    BY <1>0, <1>3 DEF Rest, BindMethod
  <2>2. UNCHANGED <<super, defined, building, class, inline, attribs>> /\ Bind(building, m)
    BY <1>3 DEF BindMethod, objectVars
  <2> QED BY <1>0, <2>1, <2>2, AttribsKept, BindType DEF Rest
<1>4. CASE EndClass
  <2>1. defined' \subseteq Class /\ building' \in Class \cup {NULL}
    BY <1>0, <1>4 DEF Rest, EndClass
  <2>2. UNCHANGED <<super, methods, magic, class, inline, attribs, cache, epoch, mic, aic>>
    BY <1>4 DEF EndClass, objectVars, inlineVars
  <2> QED BY <1>0, <2>1, <2>2, AttribsKept DEF Rest
<1>5. ASSUME NEW c \in Class, NEW m \in Method, ClassAddMethod(c, m)
      PROVE  Rest' /\ AllAttribsOK'
  <2>1. UNCHANGED <<super, defined, building, class, inline, attribs>> /\ Bind(c, m)
    BY <1>5 DEF ClassAddMethod, objectVars
  <2> QED BY <1>0, <2>1, AttribsKept, BindType DEF Rest
<1>6. ASSUME NEW o \in Instance, NEW c \in Class, Construct(o, c)
      PROVE  Rest' /\ AllAttribsOK'
  <2>1. class' \in [Instance -> Class \cup {NULL}]
    BY <1>0, <1>6 DEF Rest, Construct
  <2>2. UNCHANGED <<super, methods, magic, defined, building, inline, attribs, cache, epoch, mic, aic>>
    BY <1>6 DEF Construct, classVars, inlineVars
  <2> QED BY <1>0, <2>1, <2>2, AttribsKept DEF Rest
<1>7. ASSUME NEW o \in Instance, NEW n \in Name, NEW v \in Value, SetAttrib(o, n, v)
      PROVE  Rest' /\ AllAttribsOK'
  <2>1. UNCHANGED <<super, methods, magic, defined, building, class, cache, epoch, mic, aic>> /\ SetFast(o, n, v)
    BY <1>7 DEF SetAttrib, classVars, inlineVars
  <2> QED BY <1>0, <2>1, SetFastKeeps DEF Rest
<1>8. ASSUME NEW o \in Instance, NEW n \in Name, DelAttrib(o, n)
      PROVE  Rest' /\ AllAttribsOK'
  <2>1. UNCHANGED <<super, methods, magic, defined, building, class, cache, epoch, mic, aic>>
    BY <1>8 DEF DelAttrib, classVars, inlineVars
  <2> QED BY <1>0, <1>8, <2>1, DelAttribKeeps DEF Rest
<1>9. ASSUME NEW s \in CallSite, NEW o \in Instance, MethodCall(s, o)
      PROVE  Rest' /\ AllAttribsOK'
  <2> DEFINE c == class[o]
             n == SiteName[s]
  <2>1. c \in Class /\ n \in Name /\ epoch \in 1..MaxEpoch
    BY <1>0, <1>9, DispatchAssumption DEF Rest, MethodCall
  <2>2. UNCHANGED <<super, methods, defined, building, class, inline, attribs, epoch, aic>>
    BY <1>9 DEF MethodCall, classVars, objectVars
  <2>3. Remember(c, n)
    BY <1>9 DEF MethodCall
  <2>4. CASE FindMethod(c, n) # NULL
    <3>1. UNCHANGED magic /\ mic' = [Blank EXCEPT !.site = s, !.epoch = epoch, !.cls = c, !.name = n, !.method = FindMethod(c, n)]
      BY <1>9, <2>4 DEF MethodCall
    <3>2. mic' = [site |-> s, epoch |-> epoch, kind |-> "none", cls |-> c, name |-> n, slot |-> 0, method |-> FindMethod(c, n)]
      BY <3>1 DEF Blank
    <3>3. FindMethod(c, n) \in Method \cup {NULL}
      BY <2>1, FindType
    <3> HIDE DEF c, n
    <3>4. mic' \in InlineEntry
      BY <2>1, <3>2, <3>3, DispatchAssumption DEF InlineEntry
    <3> QED BY <1>0, <2>1, <2>2, <2>3, <3>1, <3>4, RememberType, AttribsKept DEF Rest
  <2>5. CASE FindMethod(c, n) = NULL
    <3>1. ResolveMagic(c) /\ UNCHANGED mic
      BY <1>9, <2>5 DEF MethodCall
    <3> HIDE DEF c, n
    <3> QED BY <1>0, <2>1, <2>2, <2>3, <3>1, RememberType, ResolveType, AttribsKept DEF Rest
  <2> QED BY <2>4, <2>5
<1>10. ASSUME NEW s \in AttribSite, NEW o \in Instance, GetAttrib(s, o)
       PROVE  Rest' /\ AllAttribsOK'
  <2> DEFINE c == class[o]
             n == SiteName[s]
  <2>1. c \in Class /\ n \in Name /\ c # NULL
    BY <1>0, <1>10, DispatchAssumption DEF Rest, GetAttrib
  <2>2. UNCHANGED <<super, methods, defined, building, class, inline, attribs, epoch, mic>> /\ ResolveMagic(c)
    BY <1>10 DEF GetAttrib, classVars, objectVars
  <2>3. cache' \in Cache \cup {NULL}
    <3>1. Remember(c, n) \/ UNCHANGED cache
      BY <1>10 DEF GetAttrib
    <3> QED BY <1>0, <2>1, <3>1, RememberType DEF Rest
  <2>4. aic' \in InlineEntry
    <3>1. (\E v \in LookedUp(o, n) : aic' = Entry(s, o, v)) \/ UNCHANGED aic
      BY <1>10 DEF GetAttrib
    <3> QED BY <1>0, <2>1, <3>1, EntryType DEF Rest
  <2>5. magic' \in [Class -> Method \cup {NULL, Unresolved}]
    BY <2>1, <2>2, ResolveType
  <2> HIDE DEF c, n
  <2> QED BY <1>0, <2>2, <2>3, <2>4, <2>5, AttribsKept DEF Rest
<1>11. ASSUME NEW C \in SUBSET Class, NEW O \in SUBSET Instance, Collect(C, O)
       PROVE  Rest' /\ AllAttribsOK'
  <2>1. super' \in [Class -> Class \cup {NULL}] /\ methods' \in [Class -> Seq(Method)]
        /\ magic' \in [Class -> Method \cup {NULL, Unresolved}] /\ defined' \subseteq Class
    BY <1>0, <1>11, DispatchAssumption DEF Rest, Collect, Free
  <2>2. building' = building /\ cache' = NULL /\ class' \in [Instance -> Class \cup {NULL}] /\ InvalidateInlineCaches
    BY <1>0, <1>11 DEF Rest, Collect
  <2>3. AllAttribsOK'
    <3>1. inline' = [o \in Instance |-> IF o \in O THEN <<>> ELSE inline[o]]
          /\ attribs' = [o \in Instance |-> IF o \in O THEN <<>> ELSE attribs[o]]
      BY <1>11 DEF Collect
    <3>2. AttribsOK(<<>>, <<>>)
      BY DispatchAssumption DEF AttribsOK, Range
    <3>3. \A o \in Instance : AttribsOK(inline'[o], attribs'[o])
      BY <1>0, <3>1, <3>2 DEF AllAttribsOK
    <3> QED BY <3>1, <3>3 DEF AllAttribsOK
  <2> QED BY <1>0, <2>1, <2>2, <2>3, InvalidateType DEF Rest
<1> QED BY <1>1, <1>2, <1>3, <1>4, <1>5, <1>6, <1>7, <1>8, <1>9, <1>10, <1>11 DEF Next

\* Whatever the scripts and the host do, an instance has each attribute in one
\* place only (_instanceSetAttribFast, _instanceRemoveAttribFast), and the
\* classes and caches hold what they should hold.
THEOREM TypeCorrect == Spec => [](TypeOK /\ AttribOnce)
<1>1. Init => TypeInv
  BY TypeInit
<1>2. TypeInv /\ [Next]_vars => TypeInv'
  BY TypeStep
<1>3. TypeInv => TypeOK /\ AttribOnce
  BY OnceHolds DEF TypeInv
<1> QED BY <1>1, <1>2, <1>3, PTL DEF Spec

-----------------------------------------------------------------------------
(* The classes form a tree, which only grows at its leaves *)

\* With no class used before its statement has run, a class inherits from one
\* that has, and only such classes have instances.
HierInv ==
  /\ Object \in defined /\ super[Object] = NULL /\ building \notin defined
  /\ \A c \in Class \ {Object} : super[c] \in defined
  /\ TreeOK
  /\ \A c \in Class \ (defined \cup {building}) : super[c] = Object /\ magic[c] = Unresolved
  /\ \A o \in Instance : class[o] \in defined \cup {NULL}
  /\ MagicLast

LEMMA SameMagicLast == MagicLast /\ UNCHANGED <<methods, magic>> => MagicLast'
  BY DEF MagicLast, Named

LEMMA SameTree == TreeOK /\ UNCHANGED super => TreeOK'
  BY DEF TreeOK

Leaf(c) == \A d \in Class : super[d] # c

\* What binding a method changes.
LEMMA BindNames ==
  ASSUME TypeInv, NEW c \in Class, NEW m \in Method, Bind(c, m)
  PROVE  /\ \A d \in Class \ {c} : methods'[d] = methods[d] /\ magic'[d] = magic[d]
         /\ \A n : n # NameOf[m] =>
              Named(c, n)' = Named(c, n) /\ \A i \in Named(c, n) : methods'[c][i] = methods[c][i]
         /\ LET n == NameOf[m] IN
              Named(c, n)' # {} /\ Max(Named(c, n)') = Len(methods[c]) + 1 /\ methods'[c][Len(methods[c]) + 1] = m
<1> DEFINE l == Len(methods[c])
<1>1. methods' = [methods EXCEPT ![c] = Append(@, m)] /\ methods \in [Class -> Seq(Method)] /\ methods[c] \in Seq(Method)
  BY Parts DEF Bind, MethodsOK
<1>2. l \in Nat /\ DOMAIN methods[c] = 1..l
  BY <1>1
<1>3. /\ methods'[c] \in Seq(Method) /\ Len(methods'[c]) = l + 1
      /\ (\A i \in 1..l : methods'[c][i] = methods[c][i]) /\ methods'[c][l + 1] = m
  <2>1. methods'[c] = Append(methods[c], m)
    BY <1>1
  <2> QED BY <1>1, <2>1, AppendProperties
<1>4. DOMAIN methods'[c] = 1..(l + 1)
  BY <1>3
<1>5. \A d \in Class \ {c} : methods'[d] = methods[d] /\ magic'[d] = magic[d]
  BY <1>1, Parts DEF Bind, MagicOK
<1> HIDE DEF l
<1>6. ASSUME NEW n, n # NameOf[m]
      PROVE  Named(c, n)' = Named(c, n) /\ \A i \in Named(c, n) : methods'[c][i] = methods[c][i]
  <2>1. \A i \in 1..(l + 1) : i \in 1..l \/ i = l + 1
    BY <1>2
  <2>2. 1..l \subseteq 1..(l + 1)
    BY <1>2
  <2> QED BY <1>2, <1>3, <1>4, <1>6, <2>1, <2>2 DEF Named
<1> DEFINE n == NameOf[m]
           N == {i \in DOMAIN methods'[c] : NameOf[methods'[c][i]] = n}
<1>7. Named(c, n)' = N
  BY DEF Named
<1>8. N \in SUBSET (1..(l + 1)) /\ l + 1 \in N
  BY <1>2, <1>3, <1>4
<1>9. Max(N) = l + 1
  <2> HIDE DEF N
  <2>1. Max(N) \in N /\ Max(N) >= l + 1
    <3> DEFINE k == l + 1
    <3>1. k \in Nat /\ N \in SUBSET (1..k) /\ N # {} /\ k \in N
      BY <1>2, <1>8
    <3> HIDE DEF k
    <3>2. Max(N) \in N /\ \A j \in N : Max(N) >= j
      BY <3>1, MaxIn
    <3> QED BY <3>1, <3>2 DEF k
  <2>2. Max(N) \in 1..(l + 1)
    BY <1>8, <2>1
  <2> QED BY <1>2, <2>1, <2>2
<1> QED BY <1>3, <1>5, <1>6, <1>7, <1>8, <1>9 DEF l

\* It is bound to a class nothing inherits from.
LEMMA BodyLeaf ==
  ASSUME TypeInv, HierInv, NEW m, BindMethod(m)
  PROVE  Leaf(building) /\ building \in Class \ defined
<1>1. building \in Class \ defined
  BY DEF TypeInv, TypeOK, HierInv, BindMethod
<1>2. \A d \in Class : super[d] = NULL \/ super[d] \in defined
  BY DEF HierInv
<1> QED BY <1>1, <1>2, DispatchAssumption DEF Leaf

LEMMA LateLeaf ==
  ASSUME TypeInv, HierInv, "late" \notin Practice, NEW c \in Class, NEW m, ClassAddMethod(c, m)
  PROVE  Leaf(c)
<1>1. c \in defined \ {Object} /\ building = NULL /\ Heirs(c) \cap defined = {c}
  BY DEF ClassAddMethod
<1> SUFFICES ASSUME NEW d \in Class, super[d] = c PROVE FALSE
  BY DEF Leaf
<1>2. CASE d \in defined
  <2>1. Up(d, 0) = d /\ Up(d, 0 + 1) = c
    BY Parts, UpSteps, DispatchAssumption DEF Steps
  <2>2. 1 \in 0..Cardinality(Class)
    <3>1. Cardinality(Class) # 0
      BY DispatchAssumption, FS_EmptySet
    <3> QED BY <3>1, ClassCount
  <2>3. d \in Heirs(c)
    BY <2>1, <2>2 DEF Heirs
  <2>4. d = c
    BY <1>1, <1>2, <2>3
  <2>5. PICK h \in [Class -> Nat] : \A e \in Class : super[e] # NULL => h[e] = h[super[e]] + 1
    BY DEF HierInv, TreeOK
  <2>6. h[c] = h[c] + 1 /\ h[c] \in Nat
    BY <2>4, <2>5, DispatchAssumption
  <2> QED BY <2>6
<1>3. CASE d \notin defined
  BY <1>1, <1>3, DispatchAssumption DEF HierInv
<1> QED BY <1>2, <1>3

\* Keeping a magic method for itself changes nothing for a class that has one.
LEMMA ResolveKeeps ==
  ASSUME TypeInv, HierInv, NEW c \in defined, ResolveMagic(c), UNCHANGED <<super, methods, defined, building, class>>
  PROVE  HierInv'
<1>1. magic' = [magic EXCEPT ![c] = GetMagic(c)] /\ c \in Class
  BY ResolveType DEF TypeInv, TypeOK
<1>2. MagicLast'
  <2> SUFFICES ASSUME NEW d \in Class, Named(d, Getattribute) # {}
               PROVE  magic'[d] = methods[d][Max(Named(d, Getattribute))]
    BY DEF MagicLast, Named
  <2>1. magic[d] = methods[d][Max(Named(d, Getattribute))]
    BY DEF HierInv, MagicLast
  <2>2. magic[d] # Unresolved
    BY <2>1, Parts, NamedIn, DispatchAssumption
  <2>3. GetMagic(d) = magic[d]
    BY <2>2 DEF GetMagic
  <2> QED BY <1>1, <2>1, <2>3, Parts DEF MagicOK
<1>3. TreeOK'
  BY DEF HierInv, TreeOK
<1>4. \A d \in Class \ (defined \cup {building}) : magic'[d] = Unresolved
  BY <1>1, Parts DEF HierInv, MagicOK
<1> QED BY <1>2, <1>3, <1>4 DEF HierInv

LEMMA BindKeepsHier ==
  ASSUME TypeInv, HierInv, NEW c \in Class, c \in defined \cup {building}, NEW m \in Method, Bind(c, m),
         UNCHANGED <<super, defined, building, class>>
  PROVE  HierInv'
<1>1. MagicLast'
  <2> SUFFICES ASSUME NEW d \in Class, Named(d, Getattribute)' # {}
               PROVE  magic'[d] = methods'[d][Max(Named(d, Getattribute)')]
    BY DEF MagicLast, Named
  <2>1. CASE d # c
    <3>1. methods'[d] = methods[d] /\ magic'[d] = magic[d]
      BY <2>1, BindNames
    <3>2. Named(d, Getattribute)' = Named(d, Getattribute)
      BY <3>1 DEF Named
    <3>3. magic[d] = methods[d][Max(Named(d, Getattribute))]
      BY <3>2 DEF HierInv, MagicLast
    <3> QED BY <3>1, <3>2, <3>3
  <2>2. CASE d = c /\ NameOf[m] = Getattribute
    <3>1. magic'[c] = m
      BY <2>2, Parts DEF Bind, MagicOK
    <3> QED BY <2>2, <3>1, BindNames
  <2>3. CASE d = c /\ NameOf[m] # Getattribute
    <3>1. magic'[c] = magic[c]
      BY <2>3, Parts DEF Bind, MagicOK
    <3>2. Named(c, Getattribute)' = Named(c, Getattribute)
          /\ \A i \in Named(c, Getattribute) : methods'[c][i] = methods[c][i]
      BY <2>3, BindNames
    <3>3. Max(Named(c, Getattribute)) \in Named(c, Getattribute)
      BY <2>3, <3>2, Parts, NamedIn
    <3>4. magic[c] = methods[c][Max(Named(c, Getattribute))]
      BY <2>3, <3>2 DEF HierInv, MagicLast
    <3> QED BY <2>3, <3>1, <3>2, <3>3, <3>4
  <2> QED BY <2>1, <2>2, <2>3
<1>2. TreeOK'
  BY DEF HierInv, TreeOK
<1>3. \A d \in Class \ (defined \cup {building}) : magic'[d] = magic[d]
  BY BindNames
<1> QED BY <1>1, <1>2, <1>3 DEF HierInv

LEMMA CollectFacts ==
  ASSUME TypeInv, HierInv, NEW C \in SUBSET Class, NEW O \in SUBSET Instance, Collect(C, O)
  PROVE  /\ C \subseteq defined \ {Object} /\ building = NULL
         /\ \A c \in Class \ C : super[c] \in (Class \ C) \cup {NULL} /\ super'[c] = super[c] /\ methods'[c] = methods[c]
                                 /\ magic'[c] = magic[c]
         /\ \A c \in C : super'[c] = Object /\ methods'[c] = <<>> /\ magic'[c] = Unresolved
         /\ defined' = defined \ C /\ building' = NULL
<1>1. Unused(C) /\ Free(C) /\ building' = building
  BY DEF Collect
<1>2. C \subseteq defined \ {Object} /\ building = NULL /\ \A d \in defined \ C : super[d] \notin C
  BY <1>1 DEF Unused
<1>3. \A c \in Class \ C : super[c] \in (Class \ C) \cup {NULL}
  <2> TAKE c \in Class \ C
  <2>1. CASE c \in defined
    BY <1>2, <2>1, Parts DEF SuperOK
  <2>2. CASE c \notin defined
    BY <1>2, <2>2, DispatchAssumption DEF HierInv
  <2> QED BY <2>1, <2>2
<1> QED BY <1>1, <1>2, <1>3 DEF Free

LEMMA HierStep ==
  ASSUME "early" \notin Practice, TypeInv, HierInv, [Next]_vars
  PROVE  HierInv'
<1>0. defined \subseteq Class /\ building \in Class \cup {NULL}
  BY DEF TypeInv, TypeOK
<1>a. ASSUME UNCHANGED <<super, methods, magic, defined, building, class>>
      PROVE  HierInv'
  BY <1>a DEF HierInv, TreeOK, MagicLast, Named
<1>1. CASE UNCHANGED vars
  BY <1>1, <1>a DEF vars, classVars, objectVars
<1>2. ASSUME NEW c \in Class, NEW b \in Class, CreateClass(c, b)
      PROVE  HierInv'
  <2>1. c \notin defined /\ b \in defined /\ building = NULL /\ building' = c /\ super' = [super EXCEPT ![c] = b]
        /\ UNCHANGED <<methods, defined, magic, class>>
    BY <1>2 DEF CreateClass, objectVars
  <2>2. c # Object /\ b # c
    BY <2>1 DEF HierInv
  <2>3. \A d \in Class : super'[d] = IF d = c THEN b ELSE super[d]
    BY <2>1, Parts DEF SuperOK
  <2>4. TreeOK'
    <3>1. PICK h \in [Class -> Nat] : \A d \in Class : super[d] # NULL => h[d] = h[super[d]] + 1
      BY DEF HierInv, TreeOK
    <3> DEFINE g == [h EXCEPT ![c] = h[b] + 1]
    <3>2. g \in [Class -> Nat]
      OBVIOUS
    <3>3. ASSUME NEW d \in Class, super'[d] # NULL PROVE g[d] = g[super'[d]] + 1
      <4>1. CASE d = c
        BY <2>2, <2>3, <4>1
      <4>2. CASE d # c
        <5>1. super'[d] = super[d] /\ super[d] \in Class /\ super[d] # c
          BY <1>0, <2>1, <2>3, <3>3, <4>2 DEF HierInv
        <5> QED BY <3>1, <3>3, <4>2, <5>1
      <4> QED BY <4>1, <4>2
    <3> HIDE DEF g
    <3> QED BY <3>2, <3>3 DEF TreeOK
  <2>5. MagicLast'
    BY <2>1, SameMagicLast DEF HierInv
  <2>6. \A d \in Class \ {Object} : super'[d] \in defined
    BY <2>1, <2>3 DEF HierInv
  <2>7. super'[Object] = NULL
    BY <2>2, <2>3, DispatchAssumption DEF HierInv
  <2>8. \A d \in Class \ (defined \cup {c}) : super'[d] = Object /\ magic[d] = Unresolved
    BY <2>1, <2>3, DispatchAssumption DEF HierInv
  <2> QED BY <2>1, <2>4, <2>5, <2>6, <2>7, <2>8 DEF HierInv
<1>3. ASSUME NEW m \in Method, BindMethod(m)
      PROVE  HierInv'
  <2>1. building \in Class /\ building \in defined \cup {building} /\ Bind(building, m)
        /\ UNCHANGED <<super, defined, building, class>>
    BY <1>0, <1>3 DEF BindMethod, objectVars
  <2> QED BY <2>1, BindKeepsHier
<1>4. CASE EndClass
  <2>1. building \in Class /\ defined' = defined \cup {building} /\ building' = NULL
        /\ UNCHANGED <<super, methods, magic, class>>
    BY <1>0, <1>4 DEF EndClass, objectVars
  <2>2. TreeOK' /\ MagicLast'
    BY <2>1, SameTree, SameMagicLast DEF HierInv
  <2>3. NULL \notin defined'
    BY <1>0, <2>1, DispatchAssumption
  <2>4. /\ Object \in defined' /\ super'[Object] = NULL /\ \A c \in Class \ {Object} : super'[c] \in defined'
        /\ \A o \in Instance : class'[o] \in defined' \cup {NULL}
    BY <2>1 DEF HierInv
  <2>5. \A c \in Class \ (defined' \cup {building'}) : super'[c] = Object /\ magic'[c] = Unresolved
    BY <2>1 DEF HierInv
  <2> QED BY <2>1, <2>2, <2>3, <2>4, <2>5 DEF HierInv
<1>5. ASSUME NEW c \in Class, NEW m \in Method, ClassAddMethod(c, m)
      PROVE  HierInv'
  <2>1. c \in defined \cup {building} /\ Bind(c, m) /\ UNCHANGED <<super, defined, building, class>>
    BY <1>5 DEF ClassAddMethod, objectVars
  <2> QED BY <2>1, BindKeepsHier
<1>6. ASSUME NEW o \in Instance, NEW c \in Class, Construct(o, c)
      PROVE  HierInv'
  <2>1. c \in defined /\ class' = [class EXCEPT ![o] = c] /\ UNCHANGED <<super, methods, magic, defined, building>>
    BY <1>6 DEF Construct, classVars
  <2>2. TreeOK' /\ MagicLast'
    BY <2>1, SameTree, SameMagicLast DEF HierInv
  <2>3. \A p \in Instance : class'[p] \in defined \cup {NULL}
    BY <2>1 DEF HierInv, TypeInv, TypeOK
  <2> QED BY <2>1, <2>2, <2>3 DEF HierInv
<1>7. ASSUME NEW o \in Instance, NEW n \in Name, NEW v \in Value, SetAttrib(o, n, v)
      PROVE  HierInv'
  BY <1>7, <1>a DEF SetAttrib, classVars
<1>8. ASSUME NEW o \in Instance, NEW n \in Name, DelAttrib(o, n)
      PROVE  HierInv'
  BY <1>8, <1>a DEF DelAttrib, classVars
<1>9. ASSUME NEW s \in CallSite, NEW o \in Instance, MethodCall(s, o)
      PROVE  HierInv'
  <2>1. UNCHANGED <<super, methods, defined, building, class>> /\ class[o] \in defined
        /\ (UNCHANGED magic \/ ResolveMagic(class[o]))
    BY <1>9 DEF MethodCall, classVars, objectVars, HierInv
  <2> QED BY <1>a, <2>1, ResolveKeeps
<1>10. ASSUME NEW s \in AttribSite, NEW o \in Instance, GetAttrib(s, o)
       PROVE  HierInv'
  <2>1. UNCHANGED <<super, methods, defined, building, class>> /\ class[o] \in defined /\ ResolveMagic(class[o])
    BY <1>10 DEF GetAttrib, classVars, objectVars, HierInv
  <2> QED BY <2>1, ResolveKeeps
<1>11. ASSUME NEW C \in SUBSET Class, NEW O \in SUBSET Instance, Collect(C, O)
       PROVE  HierInv'
  <2>1. /\ C \subseteq defined \ {Object} /\ building = NULL
        /\ \A c \in Class \ C : super[c] \in (Class \ C) \cup {NULL} /\ super'[c] = super[c] /\ methods'[c] = methods[c]
                                /\ magic'[c] = magic[c]
        /\ \A c \in C : super'[c] = Object /\ methods'[c] = <<>> /\ magic'[c] = Unresolved
        /\ defined' = defined \ C /\ building' = NULL
    BY <1>11, CollectFacts
  <2>2. /\ class' = [o \in Instance |-> IF o \in O THEN NULL ELSE class[o]]
        /\ \A o \in Instance : class[o] \notin C
    BY <1>11 DEF Collect, Unused
  <2>3. TreeOK'
    <3>1. PICK h \in [Class -> Nat] : \A d \in Class : super[d] # NULL => h[d] = h[super[d]] + 1
      BY DEF HierInv, TreeOK
    <3> DEFINE g == [d \in Class |-> IF d \in C THEN h[Object] + 1 ELSE h[d]]
    <3>2. g \in [Class -> Nat]
      BY DispatchAssumption
    <3>3. ASSUME NEW d \in Class, super'[d] # NULL PROVE g[d] = g[super'[d]] + 1
      <4>1. CASE d \in C
        BY <2>1, <4>1, DispatchAssumption
      <4>2. CASE d \notin C
        <5>1. super'[d] = super[d] /\ super[d] \in Class \ C
          BY <2>1, <3>3, <4>2
        <5> QED BY <3>1, <3>3, <4>2, <5>1
      <4> QED BY <4>1, <4>2
    <3> HIDE DEF g
    <3> QED BY <3>2, <3>3 DEF TreeOK
  <2>4. MagicLast'
    <3> SUFFICES ASSUME NEW d \in Class, Named(d, Getattribute)' # {}
                 PROVE  magic'[d] = methods'[d][Max(Named(d, Getattribute)')]
      BY DEF MagicLast, Named
    <3>1. d \notin C
      BY <2>1 DEF Named
    <3>2. methods'[d] = methods[d] /\ magic'[d] = magic[d]
      BY <2>1, <3>1
    <3> QED BY <3>2 DEF HierInv, MagicLast, Named
  <2>5. Object \in defined' /\ super'[Object] = NULL
    BY <2>1, DispatchAssumption DEF HierInv
  <2>6. ASSUME NEW c \in Class \ {Object} PROVE super'[c] \in defined'
    BY <2>1, <2>5, DispatchAssumption DEF HierInv
  <2>7. ASSUME NEW c \in Class \ defined' PROVE super'[c] = Object /\ magic'[c] = Unresolved
    BY <2>1, DispatchAssumption DEF HierInv
  <2>8. \A o \in Instance : class'[o] \in defined' \cup {NULL}
    BY <2>1, <2>2 DEF HierInv
  <2>9. NULL \notin defined'
    BY <1>0, <2>1, DispatchAssumption
  <2> QED BY <2>1, <2>3, <2>4, <2>5, <2>6, <2>7, <2>8, <2>9 DEF HierInv
<1> QED BY <1>1, <1>2, <1>3, <1>4, <1>5, <1>6, <1>7, <1>8, <1>9, <1>10, <1>11 DEF Next

LEMMA HierInit == Init => HierInv
<1> SUFFICES ASSUME Init PROVE HierInv
  OBVIOUS
<1>1. TreeOK
  <2> DEFINE h == [c \in Class |-> IF c = Object THEN 0 ELSE 1]
  <2>1. h \in [Class -> Nat] /\ \A c \in Class : super[c] # NULL => h[c] = h[super[c]] + 1
    BY DispatchAssumption DEF Init
  <2> HIDE DEF h
  <2> QED BY <2>1 DEF TreeOK
<1>2. MagicLast
  <2>1. ASSUME NEW c \in Class, NEW i \in Named(c, Getattribute) PROVE FALSE
    <3>1. CASE c = Object
      <4> DEFINE n == Cardinality(Builtin)
      <4>1. n \in Nat /\ ExistsBijection(1..n, Builtin)
        BY DispatchAssumption, FS_CardinalityType
      <4>2. \E f \in [1..n -> Builtin] : IsInjective(f)
        BY <4>1 DEF ExistsBijection, Bijection, Injection
      <4>3. methods[c] \in [1..n -> Builtin]
        BY <3>1, <4>2 DEF SetToSeq, Init
      <4> HIDE DEF n
      <4> QED BY <2>1, <4>3, DispatchAssumption DEF Named
    <3>2. CASE c # Object
      BY <2>1, <3>2 DEF Named, Init
    <3> QED BY <3>1, <3>2
  <2> QED BY <2>1 DEF MagicLast
<1> QED BY <1>1, <1>2, DispatchAssumption DEF Init, HierInv

-----------------------------------------------------------------------------
(* The caches of methods *)

\* An entry that is not stale is of a class that is in use.
CacheInv ==
  /\ MagicExact
  /\ cache # NULL => cache.cls \in defined /\ cache.method = GetMethod(cache.cls, cache.name)
  /\ mic.epoch <= epoch /\ aic.epoch <= epoch
  /\ mic.epoch = epoch /\ mic.method # NULL =>
       mic.cls \in defined /\ mic.method = GetMethod(mic.cls, mic.name)

\* Nothing is found anew while no class changes.
LEMMA KeptLookups ==
  ASSUME TypeInv, UNCHANGED <<super, methods>>, NEW c \in Class, NEW n
  PROVE  GetMethod(c, n)' = GetMethod(c, n) /\ Inherited(c)' = Inherited(c)
<1>1. SuperOK /\ SuperOK' /\ MethodsOK
  BY Parts DEF SuperOK
<1>2. \A d \in Class : super[d] \in Class \cup {NULL} /\ super'[d] = super[d]
  BY <1>1 DEF SuperOK
<1>3. \A x : \A d \in Class : Named(d, x)' = Named(d, x) /\ \A i \in Named(d, x) : methods'[d][i] = methods[d][i]
  BY DEF Named
<1>4. GetMethod(c, n)' = GetMethod(c, n)
  BY <1>1, <1>2, <1>3, SameLookup
<1>5. Inherited(c)' = Inherited(c)
  BY <1>1, <1>2, <1>3, SameLookup
<1> QED BY <1>4, <1>5

\* All that was cached for an instruction is stale after vmInvalidateInlineCaches.
LEMMA Stale ==
  ASSUME TypeInv, mic.epoch <= epoch, aic.epoch <= epoch, InvalidateInlineCaches
  PROVE  mic'.epoch < epoch' /\ aic'.epoch < epoch'
<1>1. epoch \in 1..MaxEpoch /\ mic.epoch \in Nat /\ aic.epoch \in Nat
  BY DispatchAssumption DEF TypeInv, TypeOK, InlineEntry
<1>2. CASE epoch = MaxEpoch
  BY <1>2 DEF InvalidateInlineCaches, Blank
<1>3. CASE epoch # MaxEpoch
  BY <1>1, <1>3 DEF InvalidateInlineCaches
<1> QED BY <1>2, <1>3

\* What binding a method to a class without heirs changes: nothing for the
\* others, and for the class itself only what it has of that name.
LEMMA BindLookups ==
  ASSUME TypeInv, HierInv, NEW c \in Class, Leaf(c), NEW m \in Method, Bind(c, m), UNCHANGED super
  PROVE  /\ \A n : \A d \in Class \ {c} : GetMethod(d, n)' = GetMethod(d, n) /\ Inherited(d)' = Inherited(d)
         /\ NameOf[m] # Getattribute => Inherited(c)' = Inherited(c)
         /\ NameOf[m] = Getattribute => Inherited(c)' = m
<1>1. SuperOK /\ SuperOK' /\ MethodsOK
  BY Parts DEF SuperOK
<1>2. ASSUME NEW d \in Class \ {c}, NEW n
      PROVE  GetMethod(d, n)' = GetMethod(d, n) /\ Inherited(d)' = Inherited(d)
  <2> DEFINE S == Class \ {c}
  <2>1. S \in SUBSET Class /\ d \in S
    OBVIOUS
  <2>2. \A e \in S : super[e] \in S \cup {NULL} /\ super'[e] = super[e]
    BY <1>1 DEF SuperOK, Leaf
  <2>3. \A x : \A e \in S : Named(e, x)' = Named(e, x) /\ \A i \in Named(e, x) : methods'[e][i] = methods[e][i]
    <3>1. \A e \in S : methods'[e] = methods[e]
      BY BindNames
    <3> QED BY <3>1 DEF Named
  <2> HIDE DEF S
  <2>4. GetMethod(d, n)' = GetMethod(d, n)
    BY <1>1, <2>1, <2>2, <2>3, SameLookup
  <2>5. Inherited(d)' = Inherited(d)
    BY <1>1, <2>1, <2>2, <2>3, SameLookup
  <2> QED BY <2>4, <2>5
<1>3. ASSUME NameOf[m] # Getattribute PROVE Inherited(c)' = Inherited(c)
  <2>1. \A e \in Class : super[e] \in Class \cup {NULL} /\ super'[e] = super[e]
    BY <1>1 DEF SuperOK
  <2>2. \A e \in Class : Named(e, Getattribute)' = Named(e, Getattribute)
          /\ \A i \in Named(e, Getattribute) : methods'[e][i] = methods[e][i]
    <3>1. \A e \in Class \ {c} : methods'[e] = methods[e]
      BY BindNames
    <3>2. Named(c, Getattribute)' = Named(c, Getattribute)
          /\ \A i \in Named(c, Getattribute) : methods'[c][i] = methods[c][i]
      BY <1>3, BindNames
    <3>3. \A e \in Class \ {c} : Named(e, Getattribute)' = Named(e, Getattribute)
      BY <3>1 DEF Named
    <3> QED BY <3>1, <3>2, <3>3
  <2> QED BY <1>1, <2>1, <2>2, SameLookup
<1>4. ASSUME NameOf[m] = Getattribute PROVE Inherited(c)' = m
  <2> DEFINE H == Having(c, Getattribute)'
  <2>1. Up(c, 0)' = c
    BY <1>1, UpStepsNext DEF Steps
  <2>2. Named(c, Getattribute)' # {} /\ methods'[c][Max(Named(c, Getattribute)')] = m
    BY <1>4, BindNames
  <2>3. Named(Up(c, 0), Getattribute)' = Named(c, Getattribute)'
    BY <2>1 DEF Named
  <2>4. H \in SUBSET Nat /\ 0 \in H /\ \A k \in H : 0 <= k
    BY <2>1, <2>2, <2>3, ClassCount, DispatchAssumption DEF Having
  <2>5. Min(H) = 0
    <3> HIDE DEF H
    <3> QED BY <2>4, MinUnique
  <2>6. Nearest(c, Getattribute)' = c
    BY <2>1, <2>5 DEF Nearest
  <2>7. Inherited(c)' = IF Having(c, Getattribute)' = {} THEN NULL
                        ELSE (methods[Nearest(c, Getattribute)][Max(Named(Nearest(c, Getattribute), Getattribute))])'
    BY DEF Inherited, Having, Nearest
  <2>8. Inherited(c)' = methods'[c][Max(Named(c, Getattribute)')]
    BY <2>4, <2>6, <2>7 DEF Named
  <2> QED BY <2>2, <2>8
<1> QED BY <1>2, <1>3, <1>4

LEMMA BindKeepsCaches ==
  ASSUME TypeInv, HierInv, CacheInv,
         NEW c \in Class, Leaf(c), NEW m \in Method, Bind(c, m), UNCHANGED super, defined \subseteq defined'
  PROVE  CacheInv'
<1>1. /\ \A n : \A d \in Class \ {c} : GetMethod(d, n)' = GetMethod(d, n) /\ Inherited(d)' = Inherited(d)
      /\ NameOf[m] # Getattribute => Inherited(c)' = Inherited(c)
      /\ NameOf[m] = Getattribute => Inherited(c)' = m
  BY BindLookups
<1>2. ASSUME NEW d \in Class, magic'[d] # Unresolved PROVE magic'[d] = Inherited(d)'
  <2>1. CASE d # c
    <3>1. magic'[d] = magic[d]
      BY <2>1, BindNames
    <3> QED BY <1>1, <1>2, <2>1, <3>1 DEF CacheInv, MagicExact
  <2>2. CASE d = c /\ NameOf[m] = Getattribute
    <3>1. magic'[c] = m
      BY <2>2, Parts DEF Bind, MagicOK
    <3> QED BY <1>1, <2>2, <3>1
  <2>3. CASE d = c /\ NameOf[m] # Getattribute
    <3>1. magic'[c] = magic[c]
      BY <2>3 DEF Bind
    <3> QED BY <1>1, <1>2, <2>3, <3>1 DEF CacheInv, MagicExact
  <2> QED BY <2>1, <2>2, <2>3
<1>3. ASSUME cache' # NULL
      PROVE  cache'.cls \in defined' /\ cache'.method = GetMethod(cache.cls, cache.name)' /\ cache' = cache
  <2>1. cache' = cache /\ cache.cls # c
    BY <1>3 DEF Bind
  <2>2. cache.cls \in Class \ {c}
    BY <1>3, <2>1, Parts DEF Cache
  <2>3. GetMethod(cache.cls, cache.name)' = GetMethod(cache.cls, cache.name)
    <3>1. PICK d \in Class \ {c} : d = cache.cls
      BY <2>2
    <3>2. PICK n : n = cache.name
      OBVIOUS
    <3>3. GetMethod(d, n)' = GetMethod(d, n)
      BY <1>1
    <3> QED BY <2>1, <3>1, <3>2, <3>3
  <2> QED BY <1>3, <2>1, <2>3 DEF CacheInv
<1>4. mic'.epoch < epoch' /\ aic'.epoch < epoch'
  BY Stale DEF CacheInv, Bind
<1>5. mic'.epoch \in Nat /\ aic'.epoch \in Nat /\ epoch' \in Nat
  BY BindType, DispatchAssumption DEF InlineEntry
<1> QED BY <1>2, <1>3, <1>4, <1>5 DEF CacheInv, MagicExact

\* What stands in the caches stays right as long as what it was looked up from
\* does.
LEMMA CachesKept ==
  ASSUME TypeInv, HierInv, CacheInv, UNCHANGED <<super, methods, magic, epoch, mic, aic, cache>>, defined \subseteq defined'
  PROVE  CacheInv'
<1>1. \A n : \A c \in Class : GetMethod(c, n)' = GetMethod(c, n) /\ Inherited(c)' = Inherited(c)
  BY KeptLookups
<1>2. defined \subseteq Class
  BY DEF TypeInv, TypeOK
<1>3. MagicExact'
  BY <1>1 DEF CacheInv, MagicExact
<1>4. ASSUME cache # NULL PROVE cache'.cls \in defined' /\ cache'.method = GetMethod(cache.cls, cache.name)'
  <2>1. cache.cls \in defined /\ cache.method = GetMethod(cache.cls, cache.name)
    BY <1>4 DEF CacheInv
  <2>2. PICK d, n : d \in Class /\ d = cache.cls /\ n = cache.name
    BY <1>2, <2>1
  <2>3. GetMethod(d, n)' = GetMethod(d, n)
    BY <1>1, <2>2
  <2>4. GetMethod(cache.cls, cache.name)' = GetMethod(d, n)'
    BY <2>2
  <2> QED BY <2>1, <2>2, <2>3, <2>4
<1>5. ASSUME mic.epoch = epoch, mic.method # NULL
      PROVE  mic'.cls \in defined' /\ mic'.method = GetMethod(mic.cls, mic.name)'
  <2>1. mic.cls \in defined /\ mic.method = GetMethod(mic.cls, mic.name)
    BY <1>5 DEF CacheInv
  <2>2. PICK d, n : d \in Class /\ d = mic.cls /\ n = mic.name
    BY <1>2, <2>1
  <2>3. GetMethod(d, n)' = GetMethod(d, n)
    BY <1>1, <2>2
  <2>4. GetMethod(mic.cls, mic.name)' = GetMethod(d, n)'
    BY <2>2
  <2> QED BY <2>1, <2>2, <2>3, <2>4
<1> QED BY <1>3, <1>4, <1>5 DEF CacheInv

\* The statement of a class starts to run: the others stay what they are.
LEMMA CreateLookups ==
  ASSUME "early" \notin Practice, TypeInv, TypeInv', HierInv, NEW c \in Class, NEW b \in Class, CreateClass(c, b)
  PROVE  \A n : \A d \in Class \ {c} : GetMethod(d, n)' = GetMethod(d, n) /\ Inherited(d)' = Inherited(d)
<1>1. c \notin defined /\ building = NULL /\ super' = [super EXCEPT ![c] = b] /\ UNCHANGED methods
  BY DEF CreateClass
<1> DEFINE S == Class \ {c}
<1>2. \A e \in S : super[e] \in S \cup {NULL} /\ super'[e] = super[e]
  BY <1>1, Parts DEF HierInv, SuperOK
<1>3. \A x : \A e \in S : Named(e, x)' = Named(e, x) /\ \A i \in Named(e, x) : methods'[e][i] = methods[e][i]
  BY <1>1 DEF Named
<1>4. SuperOK /\ SuperOK' /\ MethodsOK
  BY Parts, PTL
<1>5. S \in SUBSET Class
  OBVIOUS
<1>6. ASSUME NEW d \in Class \ {c}, NEW n
      PROVE  GetMethod(d, n)' = GetMethod(d, n) /\ Inherited(d)' = Inherited(d)
  <2>1. d \in S
    OBVIOUS
  <2> HIDE DEF S
  <2>2. GetMethod(d, n)' = GetMethod(d, n)
    BY <1>2, <1>3, <1>4, <1>5, <2>1, SameLookup
  <2>3. Inherited(d)' = Inherited(d)
    BY <1>2, <1>3, <1>4, <1>5, <2>1, SameLookup
  <2> QED BY <2>2, <2>3
<1> QED BY <1>6

\* A class whose statement starts to run is in no cache.
LEMMA CreateKeepsCaches ==
  ASSUME "early" \notin Practice, TypeInv, TypeInv', HierInv, CacheInv, NEW c \in Class, NEW b \in Class, CreateClass(c, b)
  PROVE  CacheInv'
<1>1. c \notin defined /\ building = NULL /\ super' = [super EXCEPT ![c] = b] /\ defined \subseteq Class
      /\ UNCHANGED <<methods, defined, magic, cache, epoch, mic, aic>>
  BY DEF CreateClass, inlineVars, TypeInv, TypeOK
<1>6. \A n : \A d \in Class \ {c} : GetMethod(d, n)' = GetMethod(d, n) /\ Inherited(d)' = Inherited(d)
  BY CreateLookups
<1>7. magic[c] = Unresolved
  BY <1>1, DispatchAssumption DEF HierInv
<1>8. MagicExact'
  BY <1>1, <1>6, <1>7 DEF CacheInv, MagicExact
<1>9. ASSUME cache # NULL PROVE cache'.cls \in defined' /\ cache'.method = GetMethod(cache.cls, cache.name)'
  <2>1. cache.cls \in defined /\ cache.method = GetMethod(cache.cls, cache.name)
    BY <1>9 DEF CacheInv
  <2>2. PICK d, n : d \in Class \ {c} /\ d = cache.cls /\ n = cache.name
    BY <1>1, <2>1
  <2>3. GetMethod(d, n)' = GetMethod(d, n)
    BY <1>6, <2>2
  <2>4. GetMethod(cache.cls, cache.name)' = GetMethod(d, n)'
    BY <1>1, <2>2
  <2> QED BY <1>1, <2>1, <2>2, <2>3, <2>4
<1>10. ASSUME mic.epoch = epoch, mic.method # NULL
      PROVE  mic'.cls \in defined' /\ mic'.method = GetMethod(mic.cls, mic.name)'
  <2>1. mic.cls \in defined /\ mic.method = GetMethod(mic.cls, mic.name)
    BY <1>10 DEF CacheInv
  <2>2. PICK d, n : d \in Class \ {c} /\ d = mic.cls /\ n = mic.name
    BY <1>1, <2>1
  <2>3. GetMethod(d, n)' = GetMethod(d, n)
    BY <1>6, <2>2
  <2>4. GetMethod(mic.cls, mic.name)' = GetMethod(d, n)'
    BY <1>1, <2>2
  <2> QED BY <1>1, <2>1, <2>2, <2>3, <2>4
<1> QED BY <1>1, <1>8, <1>9, <1>10 DEF CacheInv

LEMMA CollectLookups ==
  ASSUME TypeInv, TypeInv', HierInv, NEW C \in SUBSET Class, NEW O \in SUBSET Instance, Collect(C, O)
  PROVE  \A d \in Class \ C : Inherited(d)' = Inherited(d)
<1>1. \A c \in Class \ C : super[c] \in (Class \ C) \cup {NULL} /\ super'[c] = super[c] /\ methods'[c] = methods[c]
  BY CollectFacts
<1> DEFINE S == Class \ C
<1>3. \A x : \A e \in S : Named(e, x)' = Named(e, x) /\ \A i \in Named(e, x) : methods'[e][i] = methods[e][i]
  BY <1>1 DEF Named
<1>4. SuperOK /\ SuperOK' /\ MethodsOK
  BY Parts, PTL
<1>5. ASSUME NEW d \in Class \ C PROVE Inherited(d)' = Inherited(d)
  <2>1. d \in S /\ S \in SUBSET Class /\ \A e \in S : super[e] \in S \cup {NULL} /\ super'[e] = super[e]
    BY <1>1
  <2> HIDE DEF S
  <2> QED BY <1>3, <1>4, <2>1, SameLookup
<1> QED BY <1>5

\* What was freed is in no cache either.
LEMMA CollectKeepsCaches ==
  ASSUME TypeInv, TypeInv', HierInv, CacheInv, NEW C \in SUBSET Class, NEW O \in SUBSET Instance, Collect(C, O)
  PROVE  CacheInv'
<1>1. /\ \A c \in Class \ C : super[c] \in (Class \ C) \cup {NULL} /\ super'[c] = super[c] /\ methods'[c] = methods[c]
                              /\ magic'[c] = magic[c]
      /\ \A c \in C : magic'[c] = Unresolved
  BY CollectFacts
<1>2. cache' = NULL /\ InvalidateInlineCaches
  BY DEF Collect
<1>5. \A d \in Class \ C : Inherited(d)' = Inherited(d)
  BY CollectLookups
<1>6. MagicExact'
  BY <1>1, <1>5 DEF CacheInv, MagicExact
<1>7. mic'.epoch < epoch' /\ aic'.epoch < epoch'
  BY <1>2, Stale DEF CacheInv
<1>8. mic'.epoch \in Nat /\ aic'.epoch \in Nat /\ epoch' \in Nat
  BY <1>2, InvalidateType, DispatchAssumption DEF InlineEntry
<1> QED BY <1>2, <1>6, <1>7, <1>8 DEF CacheInv

\* hasMethod: the global cache gives what walking up the classes would.
LEMMA FindIsGet ==
  ASSUME CacheInv, NEW c \in Class, NEW n
  PROVE  FindMethod(c, n) = GetMethod(c, n)
  BY DEF CacheInv, FindMethod, Cached

LEMMA MagicIsInherited ==
  ASSUME TypeInv, HierInv, CacheInv, NEW c \in Class
  PROVE  GetMagic(c) = Inherited(c)
  BY Parts, MagicResolved DEF HierInv, CacheInv

\* What the instructions leave in the caches is what they found.
LEMMA LookupKeepsCaches ==
  ASSUME TypeInv, HierInv, CacheInv, NEW c \in defined, NEW n,
         UNCHANGED <<super, methods, defined, epoch>>, UNCHANGED magic \/ ResolveMagic(c),
         UNCHANGED cache \/ Remember(c, n),
         UNCHANGED mic \/ (mic'.epoch = epoch /\ mic'.cls = c /\ mic'.name = n /\ mic'.method = FindMethod(c, n)),
         aic'.epoch <= epoch
  PROVE  CacheInv'
<1>1. c \in Class /\ defined \subseteq Class
  BY DEF TypeInv, TypeOK
<1>2. \A x : \A d \in Class : GetMethod(d, x)' = GetMethod(d, x) /\ Inherited(d)' = Inherited(d)
  BY KeptLookups
<1>3. MagicExact'
  <2>1. CASE UNCHANGED magic
    BY <1>2, <2>1 DEF CacheInv, MagicExact
  <2>2. CASE ResolveMagic(c)
    <3>1. magic' = [magic EXCEPT ![c] = Inherited(c)]
      BY <1>1, <2>2, MagicIsInherited DEF ResolveMagic
    <3>2. \A d \in Class : magic'[d] = IF d = c THEN Inherited(c) ELSE magic[d]
      BY <1>1, <3>1, Parts DEF MagicOK
    <3> QED BY <1>2, <3>2 DEF CacheInv, MagicExact
  <2> QED BY <2>1, <2>2
<1>4. ASSUME cache' # NULL
      PROVE  cache'.cls \in defined /\ cache'.method = GetMethod(cache'.cls, cache'.name)
  <2>1. CASE UNCHANGED cache
    BY <1>4, <2>1 DEF CacheInv
  <2>2. CASE Remember(c, n)
    <3>1. CASE FindMethod(c, n) = NULL
      BY <1>4, <2>2, <3>1 DEF CacheInv, Remember
    <3>2. CASE FindMethod(c, n) # NULL
      BY <1>1, <2>2, <3>2, FindIsGet DEF Remember
    <3> QED BY <3>1, <3>2
  <2> QED BY <2>1, <2>2
<1>5. ASSUME cache' # NULL
      PROVE  cache'.cls \in defined' /\ cache'.method = GetMethod(cache.cls, cache.name)'
  <2>1. PICK d, x : d \in Class /\ d = cache'.cls /\ x = cache'.name
    BY <1>1, <1>4, <1>5
  <2>2. GetMethod(d, x)' = GetMethod(d, x) /\ cache'.method = GetMethod(d, x)
    BY <1>2, <1>4, <1>5, <2>1
  <2>3. GetMethod(cache.cls, cache.name)' = GetMethod(d, x)'
    BY <2>1
  <2> QED BY <1>4, <1>5, <2>2, <2>3
<1>6. ASSUME mic'.epoch = epoch, mic'.method # NULL
      PROVE  mic'.cls \in defined /\ mic'.method = GetMethod(mic'.cls, mic'.name)
  BY <1>1, <1>6, FindIsGet DEF CacheInv
<1>7. ASSUME mic'.epoch = epoch', mic'.method # NULL
      PROVE  mic'.cls \in defined' /\ mic'.method = GetMethod(mic.cls, mic.name)'
  <2>1. PICK d, x : d \in Class /\ d = mic'.cls /\ x = mic'.name
    BY <1>1, <1>6, <1>7
  <2>2. GetMethod(d, x)' = GetMethod(d, x) /\ mic'.method = GetMethod(d, x)
    BY <1>2, <1>6, <1>7, <2>1
  <2>3. GetMethod(mic.cls, mic.name)' = GetMethod(d, x)'
    BY <2>1
  <2> QED BY <1>6, <1>7, <2>2, <2>3
<1>8. mic'.epoch <= epoch'
  <2>1. epoch \in Nat
    BY Parts, DispatchAssumption
  <2> QED BY <2>1 DEF CacheInv
<1> QED BY <1>3, <1>5, <1>7, <1>8 DEF CacheInv

LEMMA CacheStep ==
  ASSUME "early" \notin Practice, "late" \notin Practice, TypeInv, TypeInv', HierInv, CacheInv, [Next]_vars
  PROVE  CacheInv'
<1>0. defined \subseteq Class /\ building \in Class \cup {NULL}
  BY DEF TypeInv, TypeOK
<1>1. CASE UNCHANGED vars
  BY <1>1, CachesKept DEF vars, classVars, inlineVars
<1>2. ASSUME NEW c \in Class, NEW b \in Class, CreateClass(c, b) PROVE CacheInv'
  BY <1>2, CreateKeepsCaches
<1>3. ASSUME NEW m \in Method, BindMethod(m) PROVE CacheInv'
  <2>1. Leaf(building) /\ building \in Class /\ Bind(building, m) /\ UNCHANGED super /\ defined \subseteq defined'
    BY <1>3, BodyLeaf DEF BindMethod
  <2>2. PICK c \in Class : c = building
    BY <2>1
  <2>3. Leaf(c) /\ Bind(c, m)
    BY <2>1, <2>2
  <2> QED BY <2>1, <2>3, BindKeepsCaches
<1>4. CASE EndClass
  BY <1>4, CachesKept DEF EndClass, inlineVars
<1>5. ASSUME NEW c \in Class, NEW m \in Method, ClassAddMethod(c, m) PROVE CacheInv'
  <2>1. Leaf(c) /\ Bind(c, m) /\ UNCHANGED super /\ defined \subseteq defined'
    BY <1>5, LateLeaf DEF ClassAddMethod
  <2> QED BY <2>1, BindKeepsCaches
<1>6. ASSUME NEW o \in Instance, NEW c \in Class, Construct(o, c) PROVE CacheInv'
  BY <1>6, CachesKept DEF Construct, inlineVars, classVars
<1>7. ASSUME NEW o \in Instance, NEW n \in Name, NEW v \in Value, SetAttrib(o, n, v) PROVE CacheInv'
  BY <1>7, CachesKept DEF SetAttrib, inlineVars, classVars
<1>8. ASSUME NEW o \in Instance, NEW n \in Name, DelAttrib(o, n) PROVE CacheInv'
  BY <1>8, CachesKept DEF DelAttrib, inlineVars, classVars
<1>9. ASSUME NEW s \in CallSite, NEW o \in Instance, MethodCall(s, o) PROVE CacheInv'
  <2>1. PICK c, n : c \in defined /\ c = class[o] /\ n = SiteName[s]
    BY <1>9 DEF MethodCall, HierInv
  <2>2. /\ UNCHANGED <<super, methods, defined, epoch, aic>> /\ Remember(c, n)
        /\ IF FindMethod(c, n) # NULL
             THEN /\ mic' = [Blank EXCEPT !.site = s, !.epoch = epoch, !.cls = c,
                                          !.name = n, !.method = FindMethod(c, n)]
                  /\ UNCHANGED magic
             ELSE ResolveMagic(c) /\ UNCHANGED mic
    BY <1>9, <2>1 DEF MethodCall, classVars
  <2>3. /\ UNCHANGED magic \/ ResolveMagic(c)
        /\ UNCHANGED mic \/ (mic'.epoch = epoch /\ mic'.cls = c /\ mic'.name = n /\ mic'.method = FindMethod(c, n))
    BY <2>2 DEF Blank
  <2>4. aic'.epoch <= epoch
    BY <2>2 DEF CacheInv
  <2> QED BY <2>1, <2>2, <2>3, <2>4, LookupKeepsCaches
<1>10. ASSUME NEW s \in AttribSite, NEW o \in Instance, GetAttrib(s, o) PROVE CacheInv'
  <2>1. PICK c, n : c \in defined /\ c = class[o] /\ n = SiteName[s]
    BY <1>10 DEF GetAttrib, HierInv
  <2>2. /\ UNCHANGED <<super, methods, defined, epoch, mic>> /\ ResolveMagic(c)
        /\ UNCHANGED cache \/ Remember(c, n)
        /\ UNCHANGED aic \/ \E v : aic' = Entry(s, o, v)
    BY <1>10, <2>1 DEF GetAttrib, classVars
  <2>3. aic'.epoch <= epoch
    <3>1. \A v : Entry(s, o, v).epoch = epoch
      BY DEF Entry, Blank
    <3>2. epoch \in Nat
      BY Parts, DispatchAssumption
    <3> QED BY <2>2, <3>1, <3>2 DEF CacheInv
  <2> QED BY <2>1, <2>2, <2>3, LookupKeepsCaches
<1>11. ASSUME NEW C \in SUBSET Class, NEW O \in SUBSET Instance, Collect(C, O) PROVE CacheInv'
  BY <1>11, CollectKeepsCaches
<1> QED BY <1>1, <1>2, <1>3, <1>4, <1>5, <1>6, <1>7, <1>8, <1>9, <1>10, <1>11 DEF Next

\* What the caches answer is what the classes have: the method a class keeps
\* for itself (getMagicMethod), the global cache (hasMethod) and the inline
\* caches of METHOD_CALL, with bindMethod and the collector dropping what they
\* make stale, and the epoch starting again at one.  It takes scripts that use
\* no class before its statement has run, and a host that adds methods only to
\* classes without subclasses.
THEOREM CachesCorrect ==
  ASSUME "early" \notin Practice, "late" \notin Practice
  PROVE  Spec => []CachesExact
<1>1. Init => TypeInv /\ HierInv /\ CacheInv
  BY TypeInit, HierInit, DispatchAssumption DEF Init, CacheInv, MagicExact, Blank
<1>2. TypeInv /\ HierInv /\ CacheInv /\ [Next]_vars => (TypeInv /\ HierInv /\ CacheInv)'
  BY TypeStep, HierStep, CacheStep
<1>3. TypeInv /\ HierInv /\ CacheInv => CachesExact
  <2> SUFFICES ASSUME TypeInv, HierInv, CacheInv,
                      NEW s \in CallSite, NEW o \in Instance, class[o] # NULL, CallHit(s, o)
               PROVE  mic.method = GetMethod(class[o], SiteName[s])
    BY DEF CachesExact, CacheExact, CallExact, CacheInv
  <2> QED BY DEF CallHit, CacheInv
<1> QED BY <1>1, <1>2, <1>3, PTL DEF Spec

-----------------------------------------------------------------------------
(* The inline cache of attributes *)

NoMethod(n) == \A m \in Method : NameOf[m] # n

\* The attributes of an instance hold no methods, and hide none.
Modest(o) ==
  /\ \A i \in 1..Len(inline[o]) : inline[o][i].value = Plain /\ NoMethod(inline[o][i].name)
  /\ \A a \in DOMAIN attribs[o] : attribs[o][a] = Plain /\ NoMethod(a)

Bare(o) == inline[o] = <<>> /\ DOMAIN attribs[o] = {}

\* Only an instance without a _getattribute has any.
Accessed(o) == Bare(o) \/ (class[o] # NULL /\ Inherited(class[o]) = NULL)

\* An entry that is not stale is of a class in use that has no _getattribute.
EntryOK ==
  aic.epoch = epoch /\ aic.kind # "none" =>
    /\ aic.cls \in defined /\ Inherited(aic.cls) = NULL
    /\ aic.kind = "bind" => aic.method = GetMethod(aic.cls, aic.name) /\ aic.method # NULL

AttribInv == (\A o \in Instance : Modest(o) /\ Accessed(o)) /\ EntryOK

\* The value an instance has itself is that of one of its attributes.
LEMMA OwnPlain ==
  ASSUME TypeInv, NEW o \in Instance, Modest(o), NEW n
  PROVE  /\ \A v \in Own(o, n) : v = Plain
         /\ Own(o, n) # {} => NoMethod(n)
<1>1. DOMAIN inline[o] = 1..Len(inline[o])
  BY DEF TypeInv, AllAttribsOK, AttribsOK
<1> QED BY <1>1 DEF Own, InlineIndex, Modest

LEMMA HitRight ==
  ASSUME TypeInv, AttribInv, NEW s \in AttribSite, NEW o \in Instance, class[o] # NULL
  PROVE  HitValue(s, o) \subseteq Fresh(o, SiteName[s])
<1> SUFFICES ASSUME NEW v \in HitValue(s, o) PROVE v \in Fresh(o, SiteName[s])
  OBVIOUS
<1> DEFINE n == SiteName[s]
<1>1. aic.epoch = epoch /\ aic.name = n /\ aic.cls = class[o] /\ aic.kind \in {"inline", "bind"}
  BY DEF HitValue
<1>2. class[o] \in Class /\ Inherited(class[o]) = NULL /\ SuperOK /\ MethodsOK /\ Modest(o)
      /\ (aic.kind = "bind" => aic.method = GetMethod(class[o], n) /\ aic.method # NULL)
  BY <1>1, Parts DEF AttribInv, EntryOK, TypeInv, TypeOK
<1>3. CASE aic.kind = "inline"
  <2>1. v \in {inline[o][i].value : i \in InlineIndex(o, aic.name) \cap {aic.slot}}
    BY <1>1, <1>3 DEF HitValue
  <2>2. v \in Own(o, n)
    BY <1>1, <2>1 DEF Own
  <2> QED BY <1>2, <2>2 DEF Fresh
<1>4. CASE aic.kind = "bind"
  <2>1. v = [method |-> aic.method, instance |-> o]
    BY <1>1, <1>4 DEF HitValue
  <2>2. GetMethod(class[o], n) \in Method /\ NameOf[GetMethod(class[o], n)] = n
    BY <1>2, <1>4, Found
  <2>3. Own(o, n) = {}
    BY <1>2, <2>2, OwnPlain DEF NoMethod
  <2> QED BY <1>2, <1>4, <2>1, <2>3 DEF Fresh
<1> QED BY <1>1, <1>3, <1>4

\* The entry GET_ATTRIB leaves.
LEMMA EntryRight ==
  ASSUME TypeInv, HierInv, CacheInv, AttribInv, NEW s \in AttribSite, NEW o \in Instance, class[o] # NULL,
         NEW v \in LookedUp(o, SiteName[s]), NEW e, e = Entry(s, o, v), e.kind # "none"
  PROVE  /\ e.cls = class[o] /\ Inherited(class[o]) = NULL
         /\ e.kind = "bind" => e.method = GetMethod(class[o], e.name) /\ e.method # NULL
<1> DEFINE n == SiteName[s]
<1>1. class[o] \in Class /\ GetMagic(class[o]) = Inherited(class[o]) /\ FindMethod(class[o], n) = GetMethod(class[o], n)
  BY MagicIsInherited, FindIsGet DEF TypeInv, TypeOK
<1>2. Modest(o) /\ Accessed(o)
  BY DEF AttribInv
<1>3. CASE v \in Bound
  <2>1. v # Plain
    BY <1>3, DispatchAssumption DEF Bound
  <2>2. v \notin Own(o, n)
    BY <1>2, <2>1, OwnPlain
  <2>3. Inherited(class[o]) = NULL /\ GetMethod(class[o], n) # NULL
        /\ v = [method |-> GetMethod(class[o], n), instance |-> o]
    BY <1>1, <2>1, <2>2 DEF LookedUp
  <2>4. e.kind = "bind" /\ e.cls = class[o] /\ e.name = n /\ e.method = v.method
    BY <1>3 DEF Entry, Blank
  <2> QED BY <2>3, <2>4
<1>4. CASE v \notin Bound /\ InlineIndex(o, n) # {}
  <2>1. e.kind = "inline" /\ e.cls = class[o]
    BY <1>4 DEF Entry, Blank
  <2>2. ~Bare(o)
    BY <1>4 DEF Bare, InlineIndex
  <2> QED BY <1>2, <2>1, <2>2 DEF Accessed
<1>5. CASE v \notin Bound /\ InlineIndex(o, n) = {}
  BY <1>5 DEF Entry, Blank
<1> QED BY <1>3, <1>4, <1>5

\* Every class in use finds what it found.
LookupsKept == \A n : \A d \in defined : GetMethod(d, n)' = GetMethod(d, n) /\ Inherited(d)' = Inherited(d)

LEMMA SameLookups ==
  ASSUME TypeInv, UNCHANGED <<super, methods>>
  PROVE  LookupsKept
<1>1. defined \subseteq Class
  BY DEF TypeInv, TypeOK
<1> QED BY <1>1, KeptLookups DEF LookupsKept

LEMMA ModestKept ==
  ASSUME NEW o \in Instance, Modest(o), inline'[o] = inline[o], attribs'[o] = attribs[o]
  PROVE  Modest(o)'
  BY DEF Modest, NoMethod

LEMMA AccessedKept ==
  ASSUME NEW o \in Instance, Accessed(o), inline'[o] = inline[o], attribs'[o] = attribs[o], class'[o] = class[o],
         NEW d, d = class[o], d # NULL => Inherited(d)' = Inherited(d)
  PROVE  Accessed(o)'
<1>1. CASE Bare(o)
  BY <1>1 DEF Accessed, Bare
<1>2. CASE class[o] # NULL /\ Inherited(class[o]) = NULL
  <2>1. Inherited(d)' = NULL /\ class'[o] = d
    BY <1>2
  <2>2. Inherited(class[o])' = Inherited(d)'
    BY <2>1
  <2> QED BY <1>2, <2>1, <2>2 DEF Accessed
<1> QED BY <1>1, <1>2 DEF Accessed

LEMMA EntryKept ==
  ASSUME TypeInv, EntryOK, LookupsKept, UNCHANGED <<aic, epoch>>, defined \subseteq defined'
  PROVE  EntryOK'
<1> SUFFICES ASSUME aic.epoch = epoch, aic.kind # "none"
             PROVE  /\ aic.cls \in defined' /\ Inherited(aic.cls)' = NULL
                    /\ aic.kind = "bind" => aic.method = GetMethod(aic.cls, aic.name)' /\ aic.method # NULL
  BY DEF EntryOK
<1>1. PICK d, n : d \in defined /\ d = aic.cls /\ n = aic.name
  BY DEF EntryOK
<1>2. GetMethod(d, n)' = GetMethod(d, n) /\ Inherited(d)' = Inherited(d)
  BY <1>1 DEF LookupsKept
<1>3. GetMethod(aic.cls, aic.name)' = GetMethod(d, n)' /\ Inherited(aic.cls)' = Inherited(d)'
  BY <1>1
<1>4. Inherited(d) = NULL /\ (aic.kind = "bind" => aic.method = GetMethod(d, n) /\ aic.method # NULL)
  BY <1>1 DEF EntryOK
<1> QED BY <1>1, <1>2, <1>3, <1>4

\* Classes change; instances do not, and no entry outlives it that is wrong.
LEMMA AttribsStand ==
  ASSUME TypeInv, HierInv, AttribInv, UNCHANGED <<inline, attribs, class>>, LookupsKept, EntryOK'
  PROVE  AttribInv'
<1> SUFFICES ASSUME NEW o \in Instance PROVE Modest(o)' /\ Accessed(o)'
  BY DEF AttribInv
<1>1. PICK d : d = class[o]
  OBVIOUS
<1>2. d # NULL => Inherited(d)' = Inherited(d)
  BY <1>1 DEF HierInv, LookupsKept
<1>3. Modest(o)'
  BY ModestKept DEF AttribInv
<1>4. Accessed(o)'
  BY <1>1, <1>2, AccessedKept DEF AttribInv
<1> QED BY <1>3, <1>4

LEMMA BindKeepsAttribs ==
  ASSUME TypeInv, HierInv, CacheInv, AttribInv, NEW c \in Class, Leaf(c), NEW m \in Method, Bind(c, m),
         UNCHANGED <<super, inline, attribs, class>>,
         NameOf[m] = Getattribute => \A o \in Instance : class[o] = c => Bare(o)
  PROVE  AttribInv'
<1>1. /\ \A n : \A d \in Class \ {c} : GetMethod(d, n)' = GetMethod(d, n) /\ Inherited(d)' = Inherited(d)
      /\ NameOf[m] # Getattribute => Inherited(c)' = Inherited(c)
  BY BindLookups
<1>2. ASSUME NEW o \in Instance PROVE Modest(o)' /\ Accessed(o)'
  <2>1. Modest(o)'
    BY ModestKept DEF AttribInv
  <2>2. CASE class[o] = c /\ NameOf[m] = Getattribute
    BY <2>1, <2>2 DEF Accessed, Bare
  <2>3. CASE class[o] # c \/ NameOf[m] # Getattribute
    <3>1. PICK d : d = class[o]
      OBVIOUS
    <3>2. d # NULL => Inherited(d)' = Inherited(d)
      BY <1>1, <2>3, <3>1 DEF TypeInv, TypeOK
    <3> QED BY <2>1, <3>1, <3>2, AccessedKept DEF AttribInv
  <2> QED BY <2>2, <2>3
<1>3. aic'.epoch < epoch'
  BY Stale DEF CacheInv, Bind
<1>4. aic'.epoch \in Nat /\ epoch' \in Nat
  BY BindType, DispatchAssumption DEF InlineEntry
<1> QED BY <1>2, <1>3, <1>4 DEF AttribInv, EntryOK

LEMMA SetKeepsAttribs ==
  ASSUME Practice = {}, TypeInv, HierInv, AttribInv,
         NEW o \in Instance, NEW n \in Name, NEW v \in Value, SetAttrib(o, n, v)
  PROVE  AttribInv'
<1>1. /\ class[o] # NULL /\ NoMethod(n) /\ v = Plain /\ GetMethod(class[o], Getattribute) = NULL /\ SetFast(o, n, v)
      /\ UNCHANGED <<class, super, methods, defined, epoch, aic>>
  BY DEF SetAttrib, NoMethod, classVars, inlineVars
<1>2. Inherited(class[o]) = NULL
  BY <1>1, InheritedFound, Parts DEF TypeInv, TypeOK
<1>3. /\ \A p \in Instance \ {o} : inline'[p] = inline[p] /\ attribs'[p] = attribs[p]
      /\ \A i \in 1..Len(inline'[o]) : \/ i \in 1..Len(inline[o]) /\ inline'[o][i] = inline[o][i]
                                       \/ inline'[o][i] = [name |-> n, value |-> v]
      /\ \A a \in DOMAIN attribs'[o] : \/ a \in DOMAIN attribs[o] /\ attribs'[o][a] = attribs[o][a]
                                       \/ a = n /\ attribs'[o][a] = v
  BY <1>1, SetFastKeeps DEF TypeInv
<1>4. LookupsKept
  BY <1>1, SameLookups
<1>5. EntryOK'
  BY <1>1, <1>4, EntryKept DEF AttribInv
<1>6. Modest(o)'
  BY <1>1, <1>3 DEF AttribInv, Modest, NoMethod
<1>7. Accessed(o)'
  <2>1. PICK d \in defined : d = class[o]
    BY <1>1 DEF HierInv
  <2>2. Inherited(d)' = NULL /\ Inherited(class[o])' = Inherited(d)'
    BY <1>1, <1>2, <1>4, <2>1 DEF LookupsKept
  <2> QED BY <1>1, <2>2 DEF Accessed
<1>8. ASSUME NEW p \in Instance \ {o} PROVE Modest(p)' /\ Accessed(p)'
  <2>1. PICK d : d = class[p]
    OBVIOUS
  <2>2. d # NULL => Inherited(d)' = Inherited(d)
    BY <1>4, <2>1 DEF HierInv, LookupsKept
  <2>3. Modest(p)'
    BY <1>3, ModestKept DEF AttribInv
  <2>4. Accessed(p)'
    BY <1>1, <1>3, <2>1, <2>2, AccessedKept DEF AttribInv
  <2> QED BY <2>3, <2>4
<1> QED BY <1>5, <1>6, <1>7, <1>8 DEF AttribInv

LEMMA DelKeepsAttribs ==
  ASSUME TypeInv, HierInv, AttribInv, NEW o \in Instance, NEW n \in Name, DelAttrib(o, n)
  PROVE  AttribInv'
<1>1. UNCHANGED <<class, super, methods, defined, epoch, aic>>
  BY DEF DelAttrib, classVars, inlineVars
<1>2. /\ \A p \in Instance \ {o} : inline'[p] = inline[p] /\ attribs'[p] = attribs[p]
      /\ \A i \in 1..Len(inline'[o]) : \E j \in 1..Len(inline[o]) : inline'[o][i] = inline[o][j]
      /\ \A a \in DOMAIN attribs'[o] : a \in DOMAIN attribs[o] /\ attribs'[o][a] = attribs[o][a]
  BY DelAttribKeeps DEF TypeInv
<1>3. LookupsKept
  BY <1>1, SameLookups
<1>4. EntryOK'
  BY <1>1, <1>3, EntryKept DEF AttribInv
<1>5. Modest(o)'
  BY <1>2 DEF AttribInv, Modest, NoMethod
<1>6. Accessed(o)'
  <2>1. ~Bare(o)
    BY DEF DelAttrib, InlineIndex, Bare
  <2>2. class[o] # NULL /\ Inherited(class[o]) = NULL
    BY <2>1 DEF AttribInv, Accessed
  <2>3. PICK d \in defined : d = class[o]
    BY <2>2 DEF HierInv
  <2>4. Inherited(d)' = NULL /\ Inherited(class[o])' = Inherited(d)'
    BY <1>1, <1>3, <2>2, <2>3 DEF LookupsKept
  <2> QED BY <1>1, <2>2, <2>4 DEF Accessed
<1>7. ASSUME NEW p \in Instance \ {o} PROVE Modest(p)' /\ Accessed(p)'
  <2>1. PICK d : d = class[p]
    OBVIOUS
  <2>2. d # NULL => Inherited(d)' = Inherited(d)
    BY <1>3, <2>1 DEF HierInv, LookupsKept
  <2>3. Modest(p)'
    BY <1>2, ModestKept DEF AttribInv
  <2>4. Accessed(p)'
    BY <1>1, <1>2, <2>1, <2>2, AccessedKept DEF AttribInv
  <2> QED BY <2>3, <2>4
<1> QED BY <1>4, <1>5, <1>6, <1>7 DEF AttribInv

LEMMA CollectKeepsAttribs ==
  ASSUME TypeInv, TypeInv', HierInv, CacheInv, AttribInv, NEW C \in SUBSET Class, NEW O \in SUBSET Instance, Collect(C, O)
  PROVE  AttribInv'
<1>1. \A d \in Class \ C : Inherited(d)' = Inherited(d)
  BY CollectLookups
<1>2. InvalidateInlineCaches /\ Unused(C)
      /\ class' = [p \in Instance |-> IF p \in O THEN NULL ELSE class[p]]
      /\ inline' = [p \in Instance |-> IF p \in O THEN <<>> ELSE inline[p]]
      /\ attribs' = [p \in Instance |-> IF p \in O THEN <<>> ELSE attribs[p]]
  BY DEF Collect
<1>3. aic'.epoch < epoch'
  BY <1>2, Stale DEF CacheInv
<1>4. aic'.epoch \in Nat /\ epoch' \in Nat
  BY <1>2, InvalidateType, DispatchAssumption DEF InlineEntry
<1>5. ASSUME NEW o \in O PROVE Modest(o)' /\ Accessed(o)'
  <2>1. inline'[o] = <<>> /\ attribs'[o] = <<>> /\ o \in Instance
    BY <1>2
  <2> QED BY <2>1 DEF Modest, Accessed, Bare
<1>6. ASSUME NEW o \in Instance \ O PROVE Modest(o)' /\ Accessed(o)'
  <2>1. inline'[o] = inline[o] /\ attribs'[o] = attribs[o] /\ class'[o] = class[o]
    BY <1>2
  <2>2. PICK d : d = class[o]
    OBVIOUS
  <2>3. d # NULL => Inherited(d)' = Inherited(d)
    BY <1>1, <1>2, <2>2 DEF Unused, TypeInv, TypeOK
  <2>4. Modest(o)'
    BY <2>1, ModestKept DEF AttribInv
  <2>5. Accessed(o)'
    BY <2>1, <2>2, <2>3, AccessedKept DEF AttribInv
  <2> QED BY <2>4, <2>5
<1> QED BY <1>3, <1>4, <1>5, <1>6 DEF AttribInv, EntryOK

LEMMA AttribStep ==
  ASSUME Practice = {}, TypeInv, TypeInv', HierInv, CacheInv, AttribInv, [Next]_vars
  PROVE  AttribInv'
<1>0. defined \subseteq Class /\ building \in Class \cup {NULL}
  BY DEF TypeInv, TypeOK
<1>a. ASSUME UNCHANGED <<super, methods, inline, attribs, class, aic, epoch>>, defined \subseteq defined'
      PROVE  AttribInv'
  <2>1. LookupsKept
    BY <1>a, SameLookups
  <2>2. EntryOK'
    BY <1>a, <2>1, EntryKept DEF AttribInv
  <2> QED BY <1>a, <2>1, <2>2, AttribsStand
<1>1. CASE UNCHANGED vars
  BY <1>1, <1>a DEF vars, classVars, objectVars, inlineVars
<1>2. ASSUME NEW c \in Class, NEW b \in Class, CreateClass(c, b) PROVE AttribInv'
  <2>1. c \notin defined /\ UNCHANGED <<defined, inline, attribs, class, aic, epoch>>
    BY <1>2 DEF CreateClass, objectVars, inlineVars
  <2>2. \A n : \A d \in Class \ {c} : GetMethod(d, n)' = GetMethod(d, n) /\ Inherited(d)' = Inherited(d)
    BY <1>2, CreateLookups
  <2>3. LookupsKept
    BY <1>0, <2>1, <2>2 DEF LookupsKept
  <2>4. EntryOK'
    BY <2>1, <2>3, EntryKept DEF AttribInv
  <2> QED BY <2>1, <2>3, <2>4, AttribsStand
<1>3. ASSUME NEW m \in Method, BindMethod(m) PROVE AttribInv'
  <2>1. Leaf(building) /\ building \in Class \ defined /\ Bind(building, m) /\ UNCHANGED <<super, inline, attribs, class>>
    BY <1>3, BodyLeaf DEF BindMethod, objectVars
  <2>2. PICK c \in Class \ defined : c = building
    BY <2>1
  <2>3. Leaf(c) /\ Bind(c, m)
    BY <2>1, <2>2
  <2>4. \A o \in Instance : class[o] # c
    BY <2>2, DispatchAssumption DEF HierInv
  <2> QED BY <2>1, <2>3, <2>4, BindKeepsAttribs
<1>4. CASE EndClass
  BY <1>4, <1>a DEF EndClass, inlineVars, objectVars
<1>5. ASSUME NEW c \in Class, NEW m \in Method, ClassAddMethod(c, m) PROVE AttribInv'
  <2>1. Leaf(c) /\ Bind(c, m) /\ UNCHANGED <<super, inline, attribs, class>>
    BY <1>5, LateLeaf DEF ClassAddMethod, objectVars
  <2>2. NameOf[m] = Getattribute => \A o \in Instance : class[o] \in Heirs(c) => ~HasAttribs(o)
    BY <1>5 DEF ClassAddMethod
  <2>3. c \in Heirs(c)
    BY UpSteps, Parts, ClassCount DEF Steps, Heirs
  <2>4. \A o \in Instance : ~HasAttribs(o) => Bare(o)
    BY DEF HasAttribs, Bare
  <2>5. NameOf[m] = Getattribute => \A o \in Instance : class[o] = c => Bare(o)
    BY <2>2, <2>3, <2>4
  <2> QED BY <2>1, <2>5, BindKeepsAttribs
<1>6. ASSUME NEW o \in Instance, NEW c \in Class, Construct(o, c) PROVE AttribInv'
  <2>1. /\ class[o] = NULL /\ class' = [class EXCEPT ![o] = c]
        /\ UNCHANGED <<inline, attribs, super, methods, defined, epoch, aic>>
    BY <1>6 DEF Construct, classVars, inlineVars
  <2>2. LookupsKept
    BY <2>1, SameLookups
  <2>3. EntryOK'
    BY <2>1, <2>2, EntryKept DEF AttribInv
  <2>4. ASSUME NEW p \in Instance PROVE Modest(p)' /\ Accessed(p)'
    <3>1. Modest(p)'
      BY <2>1, ModestKept DEF AttribInv
    <3>2. CASE p = o
      BY <2>1, <3>1, <3>2 DEF AttribInv, Accessed, Bare
    <3>3. CASE p # o
      <4>1. class'[p] = class[p]
        BY <2>1, <3>3 DEF TypeInv, TypeOK
      <4>2. PICK d : d = class[p]
        OBVIOUS
      <4>3. d # NULL => Inherited(d)' = Inherited(d)
        BY <2>2, <4>2 DEF HierInv, LookupsKept
      <4> QED BY <2>1, <3>1, <4>1, <4>2, <4>3, AccessedKept DEF AttribInv
    <3> QED BY <3>2, <3>3
  <2> QED BY <2>3, <2>4 DEF AttribInv
<1>7. ASSUME NEW o \in Instance, NEW n \in Name, NEW v \in Value, SetAttrib(o, n, v) PROVE AttribInv'
  BY <1>7, SetKeepsAttribs
<1>8. ASSUME NEW o \in Instance, NEW n \in Name, DelAttrib(o, n) PROVE AttribInv'
  BY <1>8, DelKeepsAttribs
<1>9. ASSUME NEW s \in CallSite, NEW o \in Instance, MethodCall(s, o) PROVE AttribInv'
  BY <1>9, <1>a DEF MethodCall, classVars, objectVars
<1>10. ASSUME NEW s \in AttribSite, NEW o \in Instance, GetAttrib(s, o) PROVE AttribInv'
  <2>1. /\ class[o] # NULL /\ UNCHANGED <<super, methods, defined, building, inline, attribs, class, epoch>>
        /\ UNCHANGED aic \/ \E v \in LookedUp(o, SiteName[s]) : aic' = Entry(s, o, v)
    BY <1>10 DEF GetAttrib, classVars, objectVars
  <2>2. CASE UNCHANGED aic
    BY <1>a, <2>1, <2>2
  <2>3. CASE \E v \in LookedUp(o, SiteName[s]) : aic' = Entry(s, o, v)
    <3>1. PICK v \in LookedUp(o, SiteName[s]) : aic' = Entry(s, o, v)
      BY <2>3
    <3>2. PICK e : e = Entry(s, o, v)
      OBVIOUS
    <3>3. LookupsKept
      BY <2>1, SameLookups
    <3>4. EntryOK'
      <4> SUFFICES ASSUME e.kind # "none"
                   PROVE  /\ e.cls \in defined /\ Inherited(aic.cls)' = NULL
                          /\ e.kind = "bind" => e.method = GetMethod(aic.cls, aic.name)' /\ e.method # NULL
        BY <2>1, <3>1, <3>2 DEF EntryOK
      <4>1. /\ e.cls = class[o] /\ Inherited(class[o]) = NULL
            /\ e.kind = "bind" => e.method = GetMethod(class[o], e.name) /\ e.method # NULL
        BY <2>1, <3>2, EntryRight
      <4>2. PICK d, n : d \in defined /\ d = class[o] /\ n = e.name
        BY <2>1 DEF HierInv
      <4>3. GetMethod(d, n)' = GetMethod(d, n) /\ Inherited(d)' = Inherited(d)
        BY <3>3, <4>2 DEF LookupsKept
      <4>4. Inherited(aic.cls)' = Inherited(d)' /\ GetMethod(aic.cls, aic.name)' = GetMethod(d, n)'
        BY <3>1, <3>2, <4>1, <4>2
      <4> QED BY <4>1, <4>2, <4>3, <4>4
    <3> QED BY <2>1, <3>3, <3>4, AttribsStand
  <2> QED BY <2>1, <2>2, <2>3
<1>11. ASSUME NEW C \in SUBSET Class, NEW O \in SUBSET Instance, Collect(C, O) PROVE AttribInv'
  BY <1>11, CollectKeepsAttribs
<1> QED BY <1>1, <1>2, <1>3, <1>4, <1>5, <1>6, <1>7, <1>8, <1>9, <1>10, <1>11 DEF Next

\* An attribute read through the inline cache of GET_ATTRIB is the one the
\* instance has, for every instance that meets the instruction, also when its
\* attributes moved to other slots or to the map, when methods were bound or
\* classes freed since.  It takes scripts of none of the practices: each of
\* them breaks it.
THEOREM AttribCorrect ==
  ASSUME Practice = {}
  PROVE  Spec => []AttribExact
<1>0. "early" \notin Practice /\ "late" \notin Practice
  OBVIOUS
<1>1. Init => TypeInv /\ HierInv /\ CacheInv /\ AttribInv
  <2> SUFFICES ASSUME Init PROVE AttribInv
    BY TypeInit, HierInit, DispatchAssumption DEF Init, CacheInv, MagicExact, Blank
  <2>1. ASSUME NEW o \in Instance PROVE Modest(o) /\ Accessed(o)
    <3>1. inline[o] = <<>> /\ attribs[o] = <<>>
      BY DEF Init
    <3> QED BY <3>1 DEF Modest, Accessed, Bare
  <2>2. EntryOK
    BY DEF Init, EntryOK, Blank
  <2> QED BY <2>1, <2>2 DEF AttribInv
<1>2. TypeInv /\ HierInv /\ CacheInv /\ AttribInv /\ [Next]_vars => (TypeInv /\ HierInv /\ CacheInv /\ AttribInv)'
  BY <1>0, TypeStep, HierStep, CacheStep, AttribStep
<1>3. TypeInv /\ HierInv /\ CacheInv /\ AttribInv => AttribExact
  BY OnceHolds, HitRight DEF AttribExact, TypeInv
<1> QED BY <1>1, <1>2, <1>3, PTL DEF Spec

=============================================================================
