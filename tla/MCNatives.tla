----------------------------- MODULE MCNatives -------------------------------
(* Instance of the heap and the natives for TLC. *)
EXTENDS Natives, TLC

CONSTANT N, Called
Symmetry == Permutations(Slot)

MCObject == 1..N
MCHash == [t \in {"__file__", "_name", "_module", "@main", "f", "C"} |->
             CASE t \in {"_name", "f", "@main"} -> 3 [] t = "_module" -> 0 [] OTHER -> 1]
Programs ==
  [import |-> ImportScript, host |-> HostModule, function |-> AddFunction("f"), class |-> DefineClass("C"),
   inherit |-> Inherit, new |-> Instantiate, bind |-> NewBoundMethod, spawn |-> Spawn,
   split |-> StringSplit, methods |-> ClassMethods]
Kinds ==
  [import |-> [x \in {} |-> None], host |-> [x \in {} |-> None], function |-> [module |-> "module"],
   class |-> [module |-> "module"], inherit |-> [class |-> "class", super |-> "class"],
   new |-> [class |-> "class"], bind |-> [inst |-> "inst", closure |-> "closure"], spawn |-> [closure |-> "closure"],
   split |-> [x \in {} |-> None], methods |-> [closure |-> "closure"]]
MCNative == [n \in Called |-> Programs[n]]
MCArgument == [n \in Called |-> Kinds[n]]

\* Every configuration the natives come to from those of S.
RECURSIVE Reached(_)
Reached(S) ==
  LET T == S \cup UNION {Followers(c) : c \in {d \in S : d.code # <<>>}}
  IN IF T = S THEN S ELSE Reached(T)
Configs(n) == Reached({Start(Programs[n], DOMAIN Kinds[n])})

\* The natives hold what they use, but for two: a module made by the host is
\* not held while its globals are set, and a superclass is not marked.
ASSUME NativesDiscipline ==
  /\ Discipline(UNION {Configs(n) : n \in Called})
  /\ \A n \in DOMAIN Programs : (n \in {"host", "inherit"}) <=> \E c \in Configs(n) : ~Disciplined(c)

\* They store into modules, classes, bound methods and lists.
Stored == {"module", "class", "bind", "list"}
ASSUME NativesStores ==
  /\ PutsApart(Stored)
  /\ \A n \in DOMAIN Programs : Programs[n] \in Seq(Orderly(Stored))

=============================================================================
