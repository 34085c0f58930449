---------------------------- MODULE FibersProofs ----------------------------
(***************************************************************************)
(* Theorems about Fibers, for any set of fibers and any depth of nested    *)
(* run loops.  LinkInv is inductive; the properties follow from it.        *)
(***************************************************************************)
EXTENDS FibersRefinement, SequenceTheorems, WellFoundedInduction, TLAPS

-----------------------------------------------------------------------------
(* Lemmas about the sequence of activations *)

\* Removing the last element keeps the others where they are.
LEMMA Pop ==
  ASSUME NEW S, NEW s \in Seq(S), s # <<>>
  PROVE  /\ Len(s) \in Nat \ {0}
         /\ DOMAIN s = 1..Len(s)
         /\ s[Len(s)] \in S
         /\ SubSeq(s, 1, Len(s) - 1) \in Seq(S)
         /\ Len(SubSeq(s, 1, Len(s) - 1)) = Len(s) - 1
         /\ DOMAIN SubSeq(s, 1, Len(s) - 1) = 1..(Len(s) - 1)
         /\ \A i \in 1..(Len(s) - 1) : SubSeq(s, 1, Len(s) - 1)[i] = s[i]
<1>1. Len(s) \in Nat \ {0} /\ DOMAIN s = 1..Len(s) /\ \A i \in 1..Len(s) : s[i] \in S
  BY EmptySeq, LenProperties, ElementOfSeq
<1>2. Len(s) - 1 \in 0..Len(s)
  BY <1>1
<1>3. ASSUME NEW n \in 0..Len(s)
      PROVE  /\ SubSeq(s, 1, n) \in Seq(S)
             /\ Len(SubSeq(s, 1, n)) = n
             /\ DOMAIN SubSeq(s, 1, n) = 1..n
             /\ \A i \in 1..n : SubSeq(s, 1, n)[i] = s[i]
  OBVIOUS
<1> QED
  BY <1>1, <1>2, <1>3

\* Appending adds one element on top.
LEMMA Push ==
  ASSUME NEW S, NEW s \in Seq(S), NEW a \in S
  PROVE  /\ Append(s, a) \in Seq(S)
         /\ Len(s) \in Nat
         /\ Len(Append(s, a)) = Len(s) + 1
         /\ DOMAIN s = 1..Len(s)
         /\ DOMAIN Append(s, a) = 1..(Len(s) + 1)
         /\ Append(s, a)[Len(s) + 1] = a
         /\ \A i \in 1..Len(s) : Append(s, a)[i] = s[i]
  OBVIOUS

\* What an activation holds.
LEMMA ActivationType ==
  ASSUME TypeOK
  PROVE  /\ Len(loops) \in Nat
         /\ DOMAIN loops = 1..Len(loops)
         /\ \A i \in DOMAIN loops : /\ loops[i] \in Activation
                                    /\ loops[i].callee \in Fiber
                                    /\ loops[i].last \in Fiber \cup {NULL}
<1>1. loops \in Seq(Activation)
  BY DEF TypeOK
<1>2. \A i \in DOMAIN loops : loops[i] \in Activation
  BY <1>1
<1> QED
  BY <1>1, <1>2 DEF Activation

\* What leaving a loop does to the variables it writes.
LEMMA LeaveLoopEffect ==
  ASSUME TypeOK, loops # <<>>,
         NEW ok \in BOOLEAN, NEW left \in Fiber \cup {NULL},
         NEW err \in [Fiber -> BOOLEAN],
         LeaveLoop(ok, left, err)
  PROVE  /\ Len(loops) \in Nat \ {0}
         /\ DOMAIN loops = 1..Len(loops)
         /\ Top \in Activation
         /\ loops' \in Seq(Activation)
         /\ Len(loops') = Len(loops) - 1
         /\ DOMAIN loops' = 1..(Len(loops) - 1)
         /\ \A i \in 1..(Len(loops) - 1) : loops'[i] = loops[i]
         /\ cur' \in Fiber \cup {NULL}
         /\ cur' \in {left, Top.last}
         /\ error' \in [Fiber -> BOOLEAN]
         /\ \A f \in Fiber : f # Top.callee => error'[f] = err[f]
         /\ verdict' \in {"none", "ok", "error", "unknown"}
<1>1. loops \in Seq(Activation)
  BY DEF TypeOK
<1>2. /\ Len(loops) \in Nat \ {0}
      /\ DOMAIN loops = 1..Len(loops)
      /\ Top \in Activation
  BY <1>1, Pop DEF Top
<1>3. /\ loops' \in Seq(Activation)
      /\ Len(loops') = Len(loops) - 1
      /\ DOMAIN loops' = 1..(Len(loops) - 1)
      /\ \A i \in 1..(Len(loops) - 1) : loops'[i] = loops[i]
  BY <1>1, Pop DEF LeaveLoop
<1>4. Top.last \in Fiber \cup {NULL} /\ Top.callee \in Fiber
  BY <1>2 DEF Activation
<1>5. cur' \in Fiber \cup {NULL} /\ cur' \in {left, Top.last}
  BY <1>4 DEF LeaveLoop
<1>6. /\ error' \in [Fiber -> BOOLEAN]
      /\ \A f \in Fiber : f # Top.callee => error'[f] = err[f]
  BY <1>4 DEF LeaveLoop
<1>7. verdict' \in {"none", "ok", "error", "unknown"}
  BY DEF LeaveLoop, PcallVerdict, TypeOK
<1> QED
  BY <1>2, <1>3, <1>5, <1>6, <1>7

\* The collector keeps its roots and what they lead to.
LEMMA MarkedClosed ==
  ASSUME TypeOK
  PROVE  /\ Roots \subseteq Fiber
         /\ Marked \subseteq Fiber
         /\ Roots \subseteq Marked
         /\ \A f \in Marked : caller[f] \in Marked \cup {NULL}
                              /\ native[f] \in Marked \cup {NULL}
<1>1. Roots \subseteq Fiber
  <2>1. \A i \in DOMAIN loops : loops[i] \in Activation
    BY DEF TypeOK
  <2> QED
    BY <2>1 DEF Roots, TypeOK, Activation
<1>2. Marked \subseteq Fiber
  BY DEF Marked
<1>3. Roots \subseteq Marked
  BY <1>1 DEF Marked
<1>4. ASSUME NEW f \in Marked
      PROVE  caller[f] \in Marked \cup {NULL} /\ native[f] \in Marked \cup {NULL}
  <2>1. f \in Fiber /\ caller[f] \in Fiber \cup {NULL} /\ native[f] \in Fiber \cup {NULL}
    BY <1>2 DEF TypeOK
  <2>2. ASSUME NEW S \in SUBSET Fiber, Roots \subseteq S, ClosedUnderMark(S)
        PROVE  caller[f] \in S \cup {NULL} /\ native[f] \in S \cup {NULL}
    BY <2>2 DEF Marked, ClosedUnderMark
  <2> QED
    BY <2>1, <2>2 DEF Marked
<1> QED
  BY <1>1, <1>2, <1>3, <1>4

-----------------------------------------------------------------------------
(* The typing invariant *)

LEMMA TypeInit == Init => TypeOK
<1> SUFFICES ASSUME Init PROVE TypeOK
  OBVIOUS
<1>1. loops \in Seq(Activation) /\ Len(loops) = 0
  BY EmptySeq DEF Init
<1>2. 0 \in 0..MaxLoops
  BY FiberAssumption DEF FiberAssumption
<1> QED
  BY <1>1, <1>2 DEF Init, TypeOK, States

\* A new activation of the right type is on the stack of activations.
LEMMA EnterType ==
  ASSUME TypeOK, NEW f \in Fiber, NEW k \in {"script", "native"},
         NEW by \in {"call", "pcall"}, Enter(f, k, by)
  PROVE  TypeOK'
<1>1. [callee |-> f, last |-> cur, by |-> by] \in Activation
  BY DEF TypeOK, Activation, Entries
<1>2. loops' \in Seq(Activation) /\ Len(loops') \in 0..MaxLoops
  BY <1>1, Push, FiberAssumption DEF TypeOK, Enter, FiberAssumption
<1> QED
  BY <1>2 DEF TypeOK, Enter, States

\* Leaving a loop keeps the types when what else the action writes does.
LEMMA LeaveLoopType ==
  ASSUME TypeOK, loops # <<>>,
         NEW ok \in BOOLEAN, NEW left \in Fiber \cup {NULL},
         NEW err \in [Fiber -> BOOLEAN],
         LeaveLoop(ok, left, err),
         state' \in [Fiber -> States],
         caller' \in [Fiber -> Fiber \cup {NULL}],
         UNCHANGED <<kind, native, held, crashed>>
  PROVE  TypeOK'
<1>1. Len(loops') \in 0..MaxLoops
  BY LeaveLoopEffect, FiberAssumption DEF TypeOK, FiberAssumption
<1> QED
  BY <1>1, LeaveLoopEffect DEF TypeOK

LEMMA TypeStep == TypeOK /\ [Next]_vars => TypeOK'
<1> SUFFICES ASSUME TypeOK, [Next]_vars PROVE TypeOK'
  OBVIOUS
<1>0. cur # NULL => cur \in Fiber /\ caller[cur] \in Fiber \cup {NULL}
  BY DEF TypeOK
<1>1. ASSUME NEW f \in Fiber, HostRun(f) PROVE TypeOK'
  <2>1. [callee |-> f, last |-> NULL, by |-> "run"] \in Activation
    BY DEF Activation, Entries
  <2>2. loops' \in Seq(Activation) /\ Len(loops') = 1
    BY <1>1, <2>1 DEF HostRun
  <2> QED
    BY <1>1, <2>2, FiberAssumption DEF HostRun, TypeOK, States, FiberAssumption
<1>2. ASSUME NEW f \in Fiber, HostCall(f) PROVE TypeOK'
  BY <1>2, EnterType DEF HostCall
<1>3. ASSUME NEW f \in Fiber, NEW k \in {"script", "native"},
             NEW by \in {"call", "pcall"}, CallBack(f, k, by)
      PROVE  TypeOK'
  BY <1>3, EnterType DEF CallBack
<1>4. ASSUME NEW f \in Fiber, PcallYield(f) PROVE TypeOK'
  BY <1>4 DEF PcallYield, TypeOK, States
<1>5. ASSUME NEW f \in Fiber, NEW k \in {"script", "native"}, NewFiber(f, k)
      PROVE  TypeOK'
  BY <1>5 DEF NewFiber, TypeOK, States
<1>6. ASSUME NEW f \in Fiber, RunFiber(f) PROVE TypeOK'
  BY <1>6 DEF RunFiber, SwitchTo, TypeOK, States
<1>7. ASSUME NEW f \in Fiber, RunNativeFiber(f) PROVE TypeOK'
  <2>1. [error EXCEPT ![f] = TRUE] \in [Fiber -> BOOLEAN] /\ loops # <<>>
    BY <1>7 DEF TypeOK, RunNativeFiber, InScript
  <2>2. state' \in [Fiber -> States] /\ caller' \in [Fiber -> Fiber \cup {NULL}]
    BY <1>7 DEF RunNativeFiber, TypeOK, States
  <2> QED
    BY <1>7, <2>1, <2>2, LeaveLoopType DEF RunNativeFiber, TypeOK
<1>8. ASSUME NEW f \in Fiber, ResumeFiber(f) PROVE TypeOK'
  BY <1>8 DEF ResumeFiber, SwitchTo, TypeOK, States
<1>9. ASSUME Raise PROVE TypeOK'
  <2>1. [error EXCEPT ![cur] = TRUE] \in [Fiber -> BOOLEAN] /\ loops # <<>>
        /\ caller[cur] \in Fiber \cup {NULL}
    BY <1>0, <1>9 DEF TypeOK, Raise, InScript
  <2>2. state' \in [Fiber -> States] /\ caller' \in [Fiber -> Fiber \cup {NULL}]
    BY <1>9 DEF Raise, FailCurrent, TypeOK, States
  <2> QED
    BY <1>9, <2>1, <2>2, LeaveLoopType DEF Raise, FailCurrent
<1>10. ASSUME YieldToCaller PROVE TypeOK'
  BY <1>0, <1>10 DEF YieldToCaller, InScript, TypeOK, States
<1>11. ASSUME YieldAtBase PROVE TypeOK'
  <2>1. state' \in [Fiber -> States] /\ caller' \in [Fiber -> Fiber \cup {NULL}]
        /\ loops # <<>> /\ error \in [Fiber -> BOOLEAN]
    BY <1>11 DEF YieldAtBase, InScript, TypeOK, States
  <2> QED
    BY <1>11, <2>1, LeaveLoopType DEF YieldAtBase
<1>12. ASSUME ReturnToCaller PROVE TypeOK'
  BY <1>0, <1>12 DEF ReturnToCaller, InScript, TypeOK, States
<1>13. ASSUME ReturnAtBase PROVE TypeOK'
  <2>1. state' \in [Fiber -> States] /\ caller' \in [Fiber -> Fiber \cup {NULL}]
        /\ loops # <<>> /\ error \in [Fiber -> BOOLEAN] /\ cur \in Fiber \cup {NULL}
    BY <1>13 DEF ReturnAtBase, InScript, TypeOK
  <2> QED
    BY <1>13, <2>1, LeaveLoopType DEF ReturnAtBase
<1>14. ASSUME NativeReturn PROVE TypeOK'
  <2>1. state' \in [Fiber -> States] /\ caller' \in [Fiber -> Fiber \cup {NULL}]
        /\ loops # <<>> /\ error \in [Fiber -> BOOLEAN]
    BY <1>14 DEF NativeReturn, InNative, TypeOK
  <2> QED
    BY <1>14, <2>1, LeaveLoopType DEF NativeReturn
<1>15. ASSUME NativeError PROVE TypeOK'
  <2> DEFINE raised == [error EXCEPT ![cur] = TRUE]
             err == IF Top.by = "call" /\ Top.last # NULL
                      THEN [raised EXCEPT ![Top.last] = TRUE] ELSE raised
  <2>1. state' \in [Fiber -> States] /\ caller' \in [Fiber -> Fiber \cup {NULL}]
        /\ loops # <<>> /\ err \in [Fiber -> BOOLEAN]
    BY <1>15 DEF NativeError, InNative, TypeOK
  <2>2. LeaveLoop(FALSE, NULL, err) /\ UNCHANGED <<kind, native, held, crashed>>
    BY <1>15 DEF NativeError
  <2> HIDE DEF err
  <2> QED
    BY <2>1, <2>2, LeaveLoopType
<1>16. ASSUME Collect PROVE TypeOK'
  BY <1>16, MarkedClosed DEF Collect, TypeOK, States
<1>17. ASSUME NEW f \in Fiber, Drop(f) PROVE TypeOK'
  BY <1>17 DEF Drop, TypeOK
<1>18. CASE UNCHANGED vars
  BY <1>18 DEF vars, TypeOK
<1> QED
  BY <1>1, <1>2, <1>3, <1>4, <1>5, <1>6, <1>7, <1>8, <1>9, <1>10, <1>11, <1>12,
     <1>13, <1>14, <1>15, <1>16, <1>17, <1>18 DEF Next

\* The variables of the fiber machinery keep their types: no link, activation
\* or register ever holds anything but a fiber or null.
THEOREM TypeCorrect == Spec => []TypeOK
  BY TypeInit, TypeStep, PTL DEF Spec

-----------------------------------------------------------------------------
(* The links between fibers: LinkInv is inductive *)

\* Busy in the next state.
BusyNext(f) == state'[f] = "RUNNING" \/ (kind'[f] = "native" /\ f \notin held')

\* What the invariant says of the running script's fiber.
LEMMA ScriptIsRunning ==
  ASSUME LinkInv, InScript
  PROVE  /\ cur \in Fiber
         /\ state[cur] = "RUNNING"
         /\ loops # <<>>
         /\ \A f \in Fiber : caller[f] # cur
         /\ \A i \in DOMAIN loops : loops[i].last # cur
<1>1. cur \in Fiber /\ loops # <<>> /\ kind[cur] = "script"
  BY DEF LinkInv, TypeOK, InScript
<1>2. state[cur] = "RUNNING"
  BY <1>1 DEF LinkInv, CurrentBusy, Busy, BusyNext, InScript
<1>3. \A f \in Fiber : caller[f] # cur
  BY <1>1 DEF LinkInv, CallersRunning, InScript
<1>4. \A i \in DOMAIN loops : loops[i].last # cur
  BY <1>1 DEF LinkInv, LastsBusy, InScript
<1> QED
  BY <1>1, <1>2, <1>3, <1>4

\* A fiber that is not allocated is nowhere to be found.
LEMMA FreshIsUnused ==
  ASSUME LinkInv, NEW f \in Fiber, Fresh(f)
  PROVE  /\ f # cur /\ f \notin held /\ caller[f] = NULL
         /\ \A g \in Fiber : caller[g] # f
         /\ \A i \in DOMAIN loops :
              loops[i].last # f /\ (loops[i].by # "run" => loops[i].callee # f)
<1>1. kind[f] = "none" /\ f \notin held /\ f # NULL
  BY FiberAssumption DEF LinkInv, FreeUnused, Fresh, FiberAssumption
<1>2. ~Busy(f)
  BY <1>1 DEF Busy, BusyNext, Fresh
<1>3. f # cur /\ \A i \in DOMAIN loops : loops[i].last # f
  BY <1>1, <1>2 DEF LinkInv, CurrentBusy, LastsBusy
<1>4. caller[f] = NULL /\ \A g \in Fiber : caller[g] # f
  BY <1>1 DEF LinkInv, CallersRunning, Fresh
<1>5. \A i \in DOMAIN loops : loops[i].by # "run" => loops[i].callee # f
  BY DEF LinkInv, ActivationsLinked, Fresh
<1> QED
  BY <1>1, <1>3, <1>4, <1>5

LEMMA LinkInit == Init => LinkInv
<1> SUFFICES ASSUME Init PROVE LinkInv
  OBVIOUS
<1>1. DOMAIN loops = {}
  BY DEF Init
<1> QED
  BY <1>1, TypeInit DEF Init, LinkInv, CallersRunning, CallersDistinct, LastsBusy,
     CurrentBusy, FreeUnused, ActivationsLinked

\* A callback: the current fiber is put away beneath a fresh one.
LEMMA EnterKeepsLinks ==
  ASSUME LinkInv, NEW f \in Fiber, NEW k \in {"script", "native"},
         NEW by \in {"call", "pcall"}, Enter(f, k, by)
  PROVE  LinkInv'
<1>0. TypeOK /\ TypeOK' /\ Fresh(f)
  BY EnterType DEF LinkInv, Enter
<1>1. [callee |-> f, last |-> cur, by |-> by] \in Activation
  BY <1>0 DEF TypeOK, Activation, Entries
<1> DEFINE n == Len(loops) + 1
<1>2. /\ Len(loops) \in Nat
      /\ DOMAIN loops = 1..Len(loops)
      /\ DOMAIN loops' = 1..n
      /\ loops'[n] = [callee |-> f, last |-> cur, by |-> by]
      /\ \A i \in DOMAIN loops : loops'[i] = loops[i]
  BY <1>0, <1>1, Push DEF TypeOK, Enter
<1>3. /\ \A i \in DOMAIN loops' : i \in DOMAIN loops \/ i = n
      /\ n \notin DOMAIN loops
      /\ \A i \in DOMAIN loops : loops'[i].last = loops[i].last
      /\ loops'[n].last = cur
  BY <1>2
<1> HIDE DEF n
<1>4. /\ cur' = f /\ caller' = caller /\ held' = held
      /\ state' = [state EXCEPT ![f] = IF k = "native" THEN "NEW" ELSE "RUNNING"]
      /\ kind' = [kind EXCEPT ![f] = k]
      /\ native' = [native EXCEPT ![f] = cur]
  BY DEF Enter
<1>5. /\ \A g \in Fiber : g # f => state'[g] = state[g] /\ kind'[g] = kind[g]
                                   /\ native'[g] = native[g]
      /\ native'[f] = cur /\ kind'[f] = k /\ state'[f] # "FREE"
  BY <1>0, <1>4 DEF TypeOK
<1>6. \A g \in Fiber \ {f} : BusyNext(g) = Busy(g)
  BY <1>4, <1>5 DEF Busy, BusyNext
<1>7. CallersRunning'
  BY <1>0, <1>3, <1>4, <1>5, FreshIsUnused DEF LinkInv, CallersRunning, TypeOK
<1>8. CallersDistinct'
  BY <1>4 DEF LinkInv, CallersDistinct
<1>9. LastsBusy'
  <2> SUFFICES ASSUME NEW i \in DOMAIN loops', loops'[i].last # NULL
               PROVE  /\ BusyNext(loops'[i].last) /\ loops'[i].last # cur'
                      /\ \A j \in DOMAIN loops' : loops'[j].last = loops'[i].last => j = i
    BY DEF LastsBusy, Busy, BusyNext
  <2>1. CASE i \in DOMAIN loops
    <3>1. loops'[i].last = loops[i].last /\ loops[i].last # f /\ loops[i].last # cur /\ Busy(loops[i].last)
      BY <1>0, <1>3, <2>1, FreshIsUnused DEF LinkInv, LastsBusy
    <3>2. loops[i].last \in Fiber
      BY <1>0, <1>3, <2>1, <3>1, ActivationType
    <3> QED
      BY <1>3, <1>4, <1>6, <2>1, <3>1, <3>2 DEF LinkInv, LastsBusy
  <2>2. CASE i = n
    <3>1. loops'[i].last = cur /\ cur \in Fiber /\ cur # f /\ Busy(cur)
      BY <1>0, <1>3, <2>2, FreshIsUnused DEF LinkInv, CurrentBusy, TypeOK
    <3> QED
      BY <1>3, <1>4, <1>6, <2>2, <3>1 DEF LinkInv, LastsBusy
  <2> QED
    BY <1>3, <2>1, <2>2
<1>10. CurrentBusy'
  BY <1>0, <1>4, FreshIsUnused DEF CurrentBusy, Busy, BusyNext, TypeOK
<1>11. FreeUnused'
  BY <1>0, <1>4, <1>5, FreshIsUnused DEF LinkInv, FreeUnused, TypeOK
<1>12. ActivationsLinked'
  <2> SUFFICES ASSUME NEW i \in DOMAIN loops'
               PROVE  /\ loops'[i].by = "run" => loops'[i].last = NULL
                      /\ loops'[i].by # "run" =>
                           /\ native'[loops'[i].callee] = loops'[i].last
                           /\ state'[loops'[i].callee] # "FREE"
                      /\ \A j \in DOMAIN loops' : j <= i => loops'[j].last # loops'[i].callee
    BY DEF ActivationsLinked
  <2>1. CASE i \in DOMAIN loops
    <3>1. loops'[i] = loops[i] /\ loops[i] \in Activation /\ loops'[i].last = loops[i].last
      BY <1>0, <1>2, <1>3, <2>1 DEF TypeOK
    <3>2. \A j \in DOMAIN loops' : j <= i => j \in DOMAIN loops
      BY <1>2, <2>1 DEF n
    <3>3. loops[i].by # "run" => /\ native'[loops[i].callee] = native[loops[i].callee]
                                 /\ state'[loops[i].callee] = state[loops[i].callee]
      BY <1>0, <1>5, <2>1, <3>1, FreshIsUnused DEF Activation
    <3> QED
      BY <1>3, <2>1, <3>1, <3>2, <3>3 DEF LinkInv, ActivationsLinked
  <2>2. CASE i = n
    BY <1>0, <1>2, <1>3, <1>5, <2>2, FreshIsUnused
  <2> QED
    BY <1>3, <2>1, <2>2
<1> QED
  BY <1>0, <1>7, <1>8, <1>9, <1>10, <1>11, <1>12 DEF LinkInv

\* run() or resume(): a waiting fiber goes on top of the running one.
LEMMA SwitchKeepsLinks ==
  ASSUME LinkInv, TypeOK', InScript, NEW f \in held,
         state[f] \in {"NEW", "YIELDED"}, SwitchTo(f)
  PROVE  LinkInv'
<1>1. f \in Fiber /\ TypeOK /\ cur \in Fiber /\ f # cur /\ state[cur] = "RUNNING"
  BY ScriptIsRunning DEF LinkInv, TypeOK
<1>2. /\ cur' = f /\ held' = held /\ loops' = loops /\ kind' = kind /\ native' = native
      /\ \A g \in Fiber : g # f => state'[g] = state[g] /\ caller'[g] = caller[g]
      /\ state'[f] = "RUNNING" /\ caller'[f] = cur
  BY <1>1 DEF SwitchTo, TypeOK
<1>3. \A g \in Fiber : caller[g] # f
  BY <1>1, FiberAssumption DEF LinkInv, CallersRunning, FiberAssumption
<1>4. \A i \in DOMAIN loops : loops[i].last # NULL =>
        loops[i].last \in Fiber /\ loops[i].last # f /\ loops[i].last # cur /\ Busy(loops[i].last)
  <2>1. \A i \in DOMAIN loops : loops[i].last \in Fiber \cup {NULL}
    BY <1>1, ActivationType
  <2> QED
    BY <1>1, <2>1 DEF LinkInv, LastsBusy, Busy
<1>5. \A i \in DOMAIN loops : loops'[i].last = loops[i].last
  BY <1>2
<1>6. \A g \in Fiber : Busy(g) => BusyNext(g)
  BY <1>1, <1>2 DEF Busy, BusyNext
<1>7. CallersRunning'
  <2> SUFFICES ASSUME NEW g \in Fiber, caller'[g] # NULL
               PROVE  /\ state'[g] = "RUNNING" /\ state'[caller'[g]] = "RUNNING"
                      /\ caller'[g] # cur' /\ \A i \in DOMAIN loops' : loops'[i].last # caller'[g]
    BY DEF CallersRunning
  <2>1. CASE g = f
    BY <1>1, <1>2, <1>5, <2>1, ScriptIsRunning
  <2>2. CASE g # f
    BY <1>1, <1>2, <1>3, <1>5, <2>2 DEF LinkInv, CallersRunning, TypeOK
  <2> QED
    BY <2>1, <2>2
<1>8. CallersDistinct'
  BY <1>1, <1>2, ScriptIsRunning DEF LinkInv, CallersDistinct
<1>9. LastsBusy'
  BY <1>2, <1>4, <1>5, <1>6 DEF LinkInv, LastsBusy, Busy, BusyNext
<1>10. CurrentBusy'
  BY <1>2 DEF CurrentBusy, Busy
<1>11. FreeUnused'
  BY <1>1, <1>2 DEF LinkInv, FreeUnused, TypeOK
<1>12. ActivationsLinked'
  <2>1. \A i \in DOMAIN loops : loops[i].callee \in Fiber
    BY <1>1, ActivationType
  <2> QED
    BY <1>2, <1>5, <2>1 DEF LinkInv, ActivationsLinked
<1> QED
  BY <1>7, <1>8, <1>9, <1>10, <1>11, <1>12 DEF LinkInv

\* yield() or RETURN towards the caller: the running fiber leaves the top.
LEMMA BackKeepsLinks ==
  ASSUME LinkInv, TypeOK', InScript, caller[cur] # NULL, NEW s \in {"YIELDED", "DONE"},
         state' = [state EXCEPT ![cur] = s],
         caller' = [caller EXCEPT ![cur] = NULL],
         cur' = caller[cur],
         UNCHANGED <<kind, native, held, loops>>
  PROVE  LinkInv'
<1>1. TypeOK /\ cur \in Fiber /\ caller[cur] \in Fiber
  BY ScriptIsRunning DEF LinkInv, TypeOK
<1>2. /\ state[caller[cur]] = "RUNNING" /\ caller[cur] # cur
      /\ \A i \in DOMAIN loops : loops[i].last # caller[cur] /\ loops[i].last # cur
      /\ \A g \in Fiber : g # cur => caller[g] # caller[cur]
      /\ \A g \in Fiber : caller[g] # cur
  BY <1>1, ScriptIsRunning DEF LinkInv, CallersRunning, CallersDistinct
<1>3. /\ \A g \in Fiber : g # cur => state'[g] = state[g] /\ caller'[g] = caller[g]
      /\ caller'[cur] = NULL /\ state'[cur] # "FREE"
  BY <1>1 DEF TypeOK
<1>4. \A i \in DOMAIN loops :
        loops'[i].last = loops[i].last /\ loops[i].last \in Fiber \cup {NULL}
        /\ loops[i].callee \in Fiber
  BY <1>1, <1>2, ActivationType
<1>5. \A g \in Fiber : g # cur => BusyNext(g) = Busy(g)
  BY <1>3 DEF Busy, BusyNext
<1>6. CallersRunning'
  BY <1>1, <1>2, <1>3, <1>4 DEF LinkInv, CallersRunning, TypeOK
<1>7. CallersDistinct'
  BY <1>1, <1>3 DEF LinkInv, CallersDistinct
<1>8. LastsBusy'
  BY <1>2, <1>4, <1>5 DEF LinkInv, LastsBusy, Busy, BusyNext
<1>9. CurrentBusy'
  BY <1>1, <1>2, <1>3 DEF CurrentBusy, Busy
<1>10. FreeUnused'
  BY <1>1, <1>3 DEF LinkInv, FreeUnused, TypeOK
<1>11. ActivationsLinked'
  BY <1>3, <1>4 DEF LinkInv, ActivationsLinked
<1> QED
  BY <1>6, <1>7, <1>8, <1>9, <1>10, <1>11 DEF LinkInv

\* Leaving a loop.  At most one fiber g changes; it is nobody's caller and no
\* native awaits it.  The fiber the loop leaves current, if any, is free of
\* callers and of waiting natives.
LEMMA LeaveKeepsLinks ==
  ASSUME LinkInv, TypeOK', loops # <<>>,
         NEW ok \in BOOLEAN, NEW left \in Fiber \cup {NULL},
         NEW err \in [Fiber -> BOOLEAN], LeaveLoop(ok, left, err),
         UNCHANGED <<kind, native, held>>,
         NEW g \in Fiber,
         \A f \in Fiber : f # g => state'[f] = state[f] /\ caller'[f] = caller[f],
         state[g] # "FREE", state'[g] # "FREE",
         \A f \in Fiber : caller[f] # g,
         \A i \in DOMAIN loops : loops[i].last # g,
         caller'[g] = NULL \/ (caller'[g] = caller[g] /\ state'[g] = state[g]),
         left # NULL => /\ BusyNext(left)
                        /\ \A f \in Fiber : caller'[f] # left
                        /\ \A i \in DOMAIN loops : loops[i].last # left
  PROVE  LinkInv'
<1> DEFINE n == Len(loops)
<1>1. /\ TypeOK
      /\ n \in Nat /\ DOMAIN loops = 1..n /\ DOMAIN loops' = 1..(n - 1) /\ n \in DOMAIN loops
      /\ \A i \in 1..(n - 1) : loops'[i] = loops[i]
      /\ cur' \in {left, loops[n].last}
  BY LeaveLoopEffect DEF LinkInv, Top
<1>2. \A i \in DOMAIN loops :
        loops[i].last \in Fiber \cup {NULL} /\ loops[i].callee \in Fiber
  BY <1>1, ActivationType
<1>3. \A i \in DOMAIN loops' : /\ i \in DOMAIN loops /\ i # n
                               /\ loops'[i] = loops[i] /\ loops'[i].last = loops[i].last
  BY <1>1 
<1> HIDE DEF n
<1>4. \A f \in Fiber : f # g => BusyNext(f) = Busy(f)
  BY DEF Busy, BusyNext
<1>5. loops[n].last # NULL => /\ loops[n].last \in Fiber /\ BusyNext(loops[n].last)
                          /\ \A f \in Fiber : caller'[f] # loops[n].last
                          /\ \A i \in DOMAIN loops' : loops'[i].last # loops[n].last
  <2> SUFFICES ASSUME loops[n].last # NULL
               PROVE  /\ loops[n].last \in Fiber /\ BusyNext(loops[n].last)
                      /\ \A f \in Fiber : caller'[f] # loops[n].last
                      /\ \A i \in DOMAIN loops' : loops'[i].last # loops[n].last
    OBVIOUS
  <2>1. loops[n].last \in Fiber /\ loops[n].last # g /\ Busy(loops[n].last)
        /\ \A i \in DOMAIN loops : loops[i].last = loops[n].last => i = n
    BY <1>1, <1>2 DEF LinkInv, LastsBusy
  <2>2. \A f \in Fiber : caller[f] # loops[n].last
    BY <1>1, <2>1, FiberAssumption DEF LinkInv, CallersRunning, FiberAssumption
  <2>3. \A f \in Fiber : caller'[f] # loops[n].last
    BY <2>1, <2>2, FiberAssumption DEF FiberAssumption
  <2>4. BusyNext(loops[n].last)
    BY <1>4, <2>1
  <2> QED
    BY <1>3, <2>1, <2>3, <2>4
<1>6. left # NULL => left \in Fiber
  OBVIOUS
<1>7. CallersRunning'
  BY <1>1, <1>3, <1>5, <1>6 DEF LinkInv, CallersRunning, TypeOK
<1>8. CallersDistinct'
  BY DEF LinkInv, CallersDistinct
<1>9. LastsBusy'
  <2>1. \A i \in DOMAIN loops' : loops[i].last # NULL =>
          loops[i].last \in Fiber /\ BusyNext(loops[i].last) /\ loops[i].last # left
    BY <1>2, <1>3, <1>4 DEF LinkInv, LastsBusy
  <2>2. \A i \in DOMAIN loops' : loops[i].last # NULL => loops[i].last # cur'
    BY <1>1, <1>3, <1>5, <2>1
  <2> QED
    BY <1>3, <2>1, <2>2 DEF LinkInv, LastsBusy, Busy, BusyNext
<1>10. CurrentBusy'
  BY <1>1, <1>5 DEF CurrentBusy, Busy, BusyNext
<1>11. FreeUnused'
  BY <1>1 DEF LinkInv, FreeUnused, TypeOK
<1>12. ActivationsLinked'
  BY <1>1, <1>2, <1>3 DEF LinkInv, ActivationsLinked
<1> QED
  BY <1>7, <1>8, <1>9, <1>10, <1>11, <1>12 DEF LinkInv

\* A collection keeps every fiber the links and the activations mention.
LEMMA CollectKeepsLinks ==
  ASSUME LinkInv, TypeOK', Collect
  PROVE  LinkInv'
<1>1. /\ TypeOK /\ held \subseteq Marked
      /\ cur # NULL => cur \in Marked
      /\ \A f \in Marked : f \in Fiber /\ caller[f] \in Marked \cup {NULL}
                           /\ native[f] \in Marked \cup {NULL}
  <2>1. TypeOK
    BY DEF LinkInv
  <2>2. held \subseteq Roots /\ (cur # NULL => cur \in Roots)
    BY <2>1, FiberAssumption DEF Roots, TypeOK, FiberAssumption
  <2> QED
    BY <2>1, <2>2, MarkedClosed
<1>2. /\ \A f \in Marked : state'[f] = state[f] /\ kind'[f] = kind[f]
                           /\ caller'[f] = caller[f] /\ native'[f] = native[f]
      /\ \A f \in Fiber \ Marked : state'[f] = "FREE" /\ kind'[f] = "none"
                                   /\ caller'[f] = NULL
      /\ held' = held /\ cur' = cur /\ loops' = loops
  BY <1>1 DEF Collect
<1>3. \A i \in DOMAIN loops :
        /\ loops[i].by # "run" => loops[i].callee \in Marked
        /\ loops[i].last \in Marked \cup {NULL}
  <2> SUFFICES ASSUME NEW i \in DOMAIN loops
               PROVE  /\ loops[i].by # "run" => loops[i].callee \in Marked
                      /\ loops[i].last \in Marked \cup {NULL}
    OBVIOUS
  <2>1. CASE loops[i].by = "run"
    BY <2>1 DEF LinkInv, ActivationsLinked
  <2>2. CASE loops[i].by # "run"
    <3>1. loops[i].callee \in Roots
      BY <1>1, <2>2, ActivationType, FiberAssumption DEF Roots, FiberAssumption
    <3>2. loops[i].callee \in Marked
      BY <1>1, <3>1, MarkedClosed
    <3> QED
      BY <1>1, <2>2, <3>2 DEF LinkInv, ActivationsLinked
  <2> QED
    BY <2>1, <2>2
<1>4. \A f \in Marked : Busy(f) => BusyNext(f)
  BY <1>2 DEF Busy, BusyNext
<1>5. CallersRunning'
  BY <1>1, <1>2 DEF LinkInv, CallersRunning
<1>6. CallersDistinct'
  BY <1>1, <1>2 DEF LinkInv, CallersDistinct
<1>7. LastsBusy'
  BY <1>2, <1>3, <1>4 DEF LinkInv, LastsBusy, Busy, BusyNext
<1>8. CurrentBusy'
  BY <1>1, <1>2, <1>4 DEF LinkInv, CurrentBusy, Busy, BusyNext
<1>9. FreeUnused'
  BY <1>1, <1>2 DEF LinkInv, FreeUnused
<1>10. ActivationsLinked'
  BY <1>2, <1>3 DEF LinkInv, ActivationsLinked
<1> QED
  BY <1>5, <1>6, <1>7, <1>8, <1>9, <1>10 DEF LinkInv

LEMMA LinkStep == LinkInv /\ [Next]_vars => LinkInv'
<1> SUFFICES ASSUME LinkInv, [Next]_vars PROVE LinkInv'
  OBVIOUS
<1>0. TypeOK /\ TypeOK'
  BY TypeStep DEF LinkInv
<1>1. ASSUME NEW f \in Fiber, HostRun(f) PROVE LinkInv'
  <2>1. DOMAIN loops = {} /\ DOMAIN loops' = {1} /\ loops'[1].last = NULL
        /\ loops'[1].by = "run" /\ loops'[1].callee = f
    BY <1>1 DEF HostRun, AtHost
  <2>2. /\ cur' = f /\ caller' = caller /\ held' = held /\ native' = native
        /\ state'[f] = "RUNNING" /\ kind'[f] = "script"
        /\ \A g \in Fiber : g # f => state'[g] = state[g] /\ kind'[g] = kind[g]
    BY <1>0, <1>1 DEF HostRun, TypeOK
  <2>3. /\ caller[f] = NULL /\ f \notin held
        /\ \A g \in Fiber : caller[g] # f
    BY <1>1, FreshIsUnused DEF HostRun
  <2>4. CallersRunning' /\ CallersDistinct'
    BY <1>0, <2>1, <2>2, <2>3 DEF LinkInv, CallersRunning, CallersDistinct, TypeOK
  <2>5. LastsBusy' /\ CurrentBusy'
    BY <2>1, <2>2 DEF LastsBusy, CurrentBusy, Busy
  <2>6. FreeUnused'
    BY <1>0, <2>2, <2>3 DEF LinkInv, FreeUnused, TypeOK
  <2>7. ActivationsLinked'
    BY <2>1, FiberAssumption DEF ActivationsLinked, FiberAssumption
  <2> QED
    BY <1>0, <2>4, <2>5, <2>6, <2>7 DEF LinkInv
<1>2. ASSUME NEW f \in Fiber, HostCall(f) PROVE LinkInv'
  BY <1>2, EnterKeepsLinks DEF HostCall
<1>3. ASSUME NEW f \in Fiber, NEW k \in {"script", "native"},
             NEW by \in {"call", "pcall"}, CallBack(f, k, by)
      PROVE  LinkInv'
  BY <1>3, EnterKeepsLinks DEF CallBack
<1>4. ASSUME NEW f \in Fiber, NEW s \in States \ {"FREE"},
             NEW k \in {"script", "native"}, Fresh(f),
             state' = [state EXCEPT ![f] = s], kind' = [kind EXCEPT ![f] = k],
             caller' = caller, loops' = loops,
             native' = native \/ native' = [native EXCEPT ![f] = cur],
             cur' \in {cur, NULL}, held' \in {held, held \cup {f}}
      PROVE  LinkInv'
  <2>1. /\ \A g \in Fiber : g # f => state'[g] = state[g] /\ kind'[g] = kind[g]
                                     /\ native'[g] = native[g]
        /\ state'[f] = s /\ kind'[f] = k
    BY <1>0, <1>4 DEF TypeOK
  <2>2. /\ f # cur /\ caller[f] = NULL /\ f # NULL
        /\ \A g \in Fiber : caller[g] # f
        /\ \A i \in DOMAIN loops :
             loops[i].last # f /\ (loops[i].by # "run" => loops[i].callee # f)
    BY <1>4, FreshIsUnused, FiberAssumption DEF FiberAssumption
  <2>3. \A g \in Fiber : g # f => Busy(g) = BusyNext(g)
    BY <1>4, <2>1 DEF Busy, BusyNext
  <2>4. CallersRunning' /\ CallersDistinct'
    BY <1>0, <1>4, <2>1, <2>2 DEF LinkInv, CallersRunning, CallersDistinct, TypeOK
  <2>5. LastsBusy'
    BY <1>0, <1>4, <2>2, <2>3, ActivationType DEF LinkInv, LastsBusy, Busy, BusyNext
  <2>6. CurrentBusy'
    BY <1>0, <1>4, <2>2, <2>3 DEF LinkInv, CurrentBusy, Busy, BusyNext, TypeOK
  <2>7. FreeUnused'
    BY <1>0, <1>4, <2>1 DEF LinkInv, FreeUnused, TypeOK
  <2>8. ActivationsLinked'
    BY <1>0, <1>4, <2>1, <2>2, ActivationType DEF LinkInv, ActivationsLinked
  <2> QED
    BY <1>0, <2>4, <2>5, <2>6, <2>7, <2>8 DEF LinkInv
<1>5. ASSUME NEW f \in Fiber, PcallYield(f) PROVE LinkInv'
  BY <1>4, <1>5 DEF PcallYield, States
<1>6. ASSUME NEW f \in Fiber, NEW k \in {"script", "native"}, NewFiber(f, k)
      PROVE  LinkInv'
  BY <1>4, <1>6 DEF NewFiber, States
<1>7. ASSUME NEW f \in Fiber, RunFiber(f) PROVE LinkInv'
  BY <1>0, <1>7, SwitchKeepsLinks DEF RunFiber
<1>8. ASSUME NEW f \in Fiber, ResumeFiber(f) PROVE LinkInv'
  BY <1>0, <1>8, SwitchKeepsLinks DEF ResumeFiber
<1>9. ASSUME NEW f \in Fiber, RunNativeFiber(f) PROVE LinkInv'
  <2>1. InScript /\ f \in held /\ state[f] = "NEW" /\ f # NULL
    BY <1>9, FiberAssumption DEF RunNativeFiber, FiberAssumption
  <2>2. /\ cur \in Fiber /\ cur # f /\ state[cur] = "RUNNING" /\ loops # <<>>
        /\ \A g \in Fiber : caller[g] # cur
        /\ \A i \in DOMAIN loops : loops[i].last # cur
    BY <2>1, ScriptIsRunning
  <2>3. /\ \A g \in Fiber : g # f => state'[g] = state[g]
        /\ state'[f] = "DONE" /\ caller' = caller
        /\ LeaveLoop(FALSE, cur, [error EXCEPT ![f] = TRUE])
        /\ UNCHANGED <<kind, native, held>>
    BY <1>0, <1>9 DEF RunNativeFiber, TypeOK
  <2>4. /\ \A g \in Fiber : caller[g] # f
        /\ caller[f] = NULL
    BY <2>1, <1>0 DEF LinkInv, CallersRunning
  <2>5. \A i \in DOMAIN loops : loops[i].last # f
    BY <2>1 DEF LinkInv, LastsBusy, Busy
  <2>6. [error EXCEPT ![f] = TRUE] \in [Fiber -> BOOLEAN] /\ BusyNext(cur)
    BY <1>0, <2>2, <2>3 DEF TypeOK, BusyNext
  <2> QED
    BY <1>0, <2>1, <2>2, <2>3, <2>4, <2>5, <2>6, LeaveKeepsLinks
<1>10. ASSUME Raise PROVE LinkInv'
  <2>1. /\ cur \in Fiber /\ state[cur] = "RUNNING" /\ loops # <<>>
        /\ \A g \in Fiber : caller[g] # cur
        /\ \A i \in DOMAIN loops : loops[i].last # cur
    BY <1>10, ScriptIsRunning DEF Raise
  <2>2. /\ \A g \in Fiber : g # cur => state'[g] = state[g] /\ caller'[g] = caller[g]
        /\ state'[cur] = "DONE" /\ caller'[cur] = NULL
        /\ LeaveLoop(FALSE, caller[cur], [error EXCEPT ![cur] = TRUE])
        /\ UNCHANGED <<kind, native, held>>
    BY <1>0, <1>10, <2>1 DEF Raise, FailCurrent, TypeOK
  <2>3. caller[cur] \in Fiber \cup {NULL} /\ [error EXCEPT ![cur] = TRUE] \in [Fiber -> BOOLEAN]
    BY <1>0, <2>1 DEF TypeOK
  <2>4. caller[cur] # NULL => /\ BusyNext(caller[cur])
                              /\ \A g \in Fiber : caller'[g] # caller[cur]
                              /\ \A i \in DOMAIN loops : loops[i].last # caller[cur]
    BY <2>1, <2>2, <2>3 DEF LinkInv, CallersRunning, CallersDistinct, BusyNext
  <2> QED
    BY <1>0, <2>1, <2>2, <2>3, <2>4, LeaveKeepsLinks
<1>11. ASSUME YieldToCaller PROVE LinkInv'
  BY <1>0, <1>11, BackKeepsLinks DEF YieldToCaller
<1>12. ASSUME ReturnToCaller PROVE LinkInv'
  BY <1>0, <1>12, BackKeepsLinks DEF ReturnToCaller
<1>13. ASSUME YieldAtBase PROVE LinkInv'
  <2>1. /\ cur \in Fiber /\ state[cur] = "RUNNING" /\ loops # <<>>
        /\ \A g \in Fiber : caller[g] # cur
        /\ \A i \in DOMAIN loops : loops[i].last # cur
    BY <1>13, ScriptIsRunning DEF YieldAtBase
  <2>2. /\ \A g \in Fiber : g # cur => state'[g] = state[g]
        /\ state'[cur] = "YIELDED" /\ caller' = caller /\ caller[cur] = NULL
        /\ LeaveLoop(TRUE, NULL, error) /\ error \in [Fiber -> BOOLEAN]
        /\ UNCHANGED <<kind, native, held>>
    BY <1>0, <1>13, <2>1 DEF YieldAtBase, TypeOK
  <2> QED
    BY <1>0, <2>1, <2>2, LeaveKeepsLinks
<1>14. ASSUME ReturnAtBase PROVE LinkInv'
  <2>1. /\ cur \in Fiber /\ state[cur] = "RUNNING" /\ loops # <<>>
        /\ \A g \in Fiber : caller[g] # cur
        /\ \A i \in DOMAIN loops : loops[i].last # cur
    BY <1>14, ScriptIsRunning DEF ReturnAtBase
  <2>2. /\ state' = state /\ caller' = caller
        /\ LeaveLoop(TRUE, cur, error) /\ error \in [Fiber -> BOOLEAN]
        /\ UNCHANGED <<kind, native, held>>
    BY <1>0, <1>14 DEF ReturnAtBase, TypeOK
  <2>3. BusyNext(cur)
    BY <2>1, <2>2 DEF BusyNext
  <2> QED
    BY <1>0, <2>1, <2>2, <2>3, LeaveKeepsLinks
<1>15. ASSUME InNative, state' = state, caller' = caller, UNCHANGED <<kind, native, held>>,
              NEW ok \in BOOLEAN, NEW err \in [Fiber -> BOOLEAN], LeaveLoop(ok, NULL, err)
       PROVE  LinkInv'
  <2>1. cur \in Fiber /\ loops # <<>> /\ kind[cur] = "native"
    BY <1>0, <1>15 DEF InNative, TypeOK
  <2>2. /\ state[cur] # "FREE"
        /\ \A g \in Fiber : caller[g] # cur
        /\ \A i \in DOMAIN loops : loops[i].last # cur
    BY <1>15, <2>1, FiberAssumption
       DEF LinkInv, CallersRunning, LastsBusy, FreeUnused, FiberAssumption, InNative
  <2> QED
    BY <1>0, <1>15, <2>1, <2>2, LeaveKeepsLinks
<1>16. ASSUME NativeReturn PROVE LinkInv'
  BY <1>0, <1>15, <1>16 DEF NativeReturn, TypeOK
<1>17. ASSUME NativeError PROVE LinkInv'
  <2> DEFINE raised == [error EXCEPT ![cur] = TRUE]
             err == IF Top.by = "call" /\ Top.last # NULL
                      THEN [raised EXCEPT ![Top.last] = TRUE] ELSE raised
  <2>1. err \in [Fiber -> BOOLEAN]
    BY <1>0 DEF TypeOK
  <2>2. LeaveLoop(FALSE, NULL, err) /\ UNCHANGED <<kind, native, held>> /\ InNative
        /\ state' = state /\ caller' = caller
    BY <1>17 DEF NativeError
  <2> HIDE DEF err
  <2> QED
    BY <1>15, <2>1, <2>2
<1>18. ASSUME Collect PROVE LinkInv'
  BY <1>0, <1>18, CollectKeepsLinks
<1>19. ASSUME NEW f \in Fiber, Drop(f) PROVE LinkInv'
  <2>1. UNCHANGED <<state, kind, caller, native, cur, loops>> /\ held' = held \ {f}
    BY <1>19 DEF Drop
  <2>2. CallersRunning' /\ CallersDistinct' /\ FreeUnused' /\ ActivationsLinked'
    BY <2>1 DEF LinkInv, CallersRunning, CallersDistinct, FreeUnused, ActivationsLinked
  <2>3. LastsBusy' /\ CurrentBusy'
    BY <2>1 DEF LinkInv, LastsBusy, CurrentBusy, Busy
  <2> QED
    BY <1>0, <2>2, <2>3 DEF LinkInv
<1>20. CASE UNCHANGED vars
  <2>1. UNCHANGED <<state, kind, caller, native, cur, loops, held>>
    BY <1>20 DEF vars
  <2> QED
    BY <1>0, <2>1 DEF LinkInv, CallersRunning, CallersDistinct, FreeUnused,
       ActivationsLinked, LastsBusy, CurrentBusy, Busy
<1> QED
  BY <1>1, <1>2, <1>3, <1>5, <1>6, <1>7, <1>8, <1>9, <1>10, <1>11, <1>12, <1>13,
     <1>14, <1>16, <1>17, <1>18, <1>19, <1>20 DEF Next

-----------------------------------------------------------------------------
(* The results *)

\* LinkInv, the inductive invariant, holds in every reachable state.
THEOREM LinksCorrect == Spec => []LinkInv
  BY LinkInit, LinkStep, PTL DEF Spec

\* FIBER_SWITCH_BACK never meets a caller that is not RUNNING, and no two
\* fibers share one, for any number of fibers and any nesting of run loops.
THEOREM SwitchBackCorrect == Spec => []SwitchBackSafe
<1>1. LinkInv => SwitchBackSafe
  BY DEF LinkInv, CallersRunning, CallersDistinct, SwitchBackSafe
<1> QED
  BY <1>1, LinksCorrect, PTL

\* Which fibers a step may touch: the running one, or one that waits.
LEMMA StepTouches ==
  ASSUME LinkInv, Next
  PROVE  \/ Collect
         \/ UNCHANGED <<state, caller>>
         \/ \E g \in Fiber :
              /\ \A f \in Fiber : f # g => state'[f] = state[f] /\ caller'[f] = caller[f]
              /\ state[g] \in {"FREE", "NEW", "YIELDED", "RUNNING"}
              /\ \A i \in DOMAIN loops : loops[i].last # g
<1>0. TypeOK
  BY DEF LinkInv
<1> DEFINE Touches(g) ==
      /\ \A f \in Fiber : f # g => state'[f] = state[f] /\ caller'[f] = caller[f]
      /\ state[g] \in {"FREE", "NEW", "YIELDED", "RUNNING"}
      /\ \A i \in DOMAIN loops : loops[i].last # g
<1>1. SUFFICES ASSUME ~Collect, ~UNCHANGED <<state, caller>>
              PROVE  \E g \in Fiber : Touches(g)
  OBVIOUS
<1>2. ASSUME NEW f \in Fiber, Fresh(f),
             \A g \in Fiber : g # f => state'[g] = state[g], caller' = caller
      PROVE  Touches(f)
  BY <1>2, FreshIsUnused DEF Fresh
<1>3. ASSUME NEW f \in held, state[f] \in {"NEW", "YIELDED"},
             \A g \in Fiber : g # f => state'[g] = state[g] /\ caller'[g] = caller[g]
      PROVE  f \in Fiber /\ Touches(f)
  <2>1. f \in Fiber /\ f # NULL
    BY <1>0, FiberAssumption DEF TypeOK, FiberAssumption
  <2>2. \A i \in DOMAIN loops : loops[i].last # f
    BY <1>3, <2>1 DEF LinkInv, LastsBusy, Busy
  <2> QED
    BY <1>3, <2>1, <2>2
<1>4. ASSUME InScript,
             \A g \in Fiber : g # cur => state'[g] = state[g] /\ caller'[g] = caller[g]
      PROVE  cur \in Fiber /\ Touches(cur)
  BY <1>4, ScriptIsRunning
<1> HIDE DEF Touches
<1>6. ASSUME NEW f \in Fiber, HostRun(f) PROVE Touches(f)
  BY <1>0, <1>2, <1>6 DEF HostRun, TypeOK
<1>7. ASSUME NEW f \in Fiber, NEW k, NEW by, Enter(f, k, by) PROVE Touches(f)
  BY <1>0, <1>2, <1>7 DEF Enter, TypeOK
<1>8. ASSUME NEW f \in Fiber, PcallYield(f) PROVE Touches(f)
  BY <1>0, <1>2, <1>8 DEF PcallYield, TypeOK
<1>9. ASSUME NEW f \in Fiber, NEW k, NewFiber(f, k) PROVE Touches(f)
  BY <1>0, <1>2, <1>9 DEF NewFiber, TypeOK
<1>10. ASSUME NEW f \in Fiber, RunFiber(f) \/ ResumeFiber(f) PROVE Touches(f)
  BY <1>0, <1>3, <1>10 DEF RunFiber, ResumeFiber, SwitchTo, TypeOK
<1>11. ASSUME NEW f \in Fiber, RunNativeFiber(f) PROVE Touches(f)
  BY <1>0, <1>3, <1>11 DEF RunNativeFiber, TypeOK
<1>12. ASSUME Raise \/ YieldToCaller \/ YieldAtBase \/ ReturnToCaller
       PROVE  \E g \in Fiber : Touches(g)
  BY <1>0, <1>4, <1>12 DEF Raise, FailCurrent, YieldToCaller, YieldAtBase,
     ReturnToCaller, TypeOK
<1>13. ASSUME \/ ReturnAtBase \/ NativeReturn \/ NativeError
              \/ \E f \in Fiber : Drop(f)
       PROVE  UNCHANGED <<state, caller>>
  BY <1>13 DEF ReturnAtBase, NativeReturn, NativeError, Drop
<1> QED
  BY <1>1, <1>6, <1>7, <1>8, <1>9, <1>10, <1>11, <1>12, <1>13
     DEF Next, HostCall, CallBack

\* A fiber that is done stays done until it is collected.
THEOREM DoneCorrect == Spec => DoneIsFinal
<1>1. LinkInv /\ [Next]_vars =>
        [\A f \in Fiber : state[f] = "DONE" => state'[f] \in {"DONE", "FREE"}]_vars
  <2> SUFFICES ASSUME LinkInv, Next, NEW f \in Fiber, state[f] = "DONE"
               PROVE  state'[f] \in {"DONE", "FREE"}
    OBVIOUS
  <2>1. CASE Collect
    BY <2>1 DEF Collect
  <2>2. CASE ~Collect
    BY <2>2, StepTouches
  <2> QED
    BY <2>1, <2>2
<1> QED
  BY <1>1, LinksCorrect, PTL DEF Spec, DoneIsFinal

\* Leaving one loop writes the error of no fiber awaited beneath it.
LEMMA ErrorsBeneath ==
  ASSUME LinkInv, Next, ~Collect,
         NEW i \in DOMAIN loops \cap DOMAIN loops', loops[i].last # NULL
  PROVE  error'[loops[i].last] = error[loops[i].last]
<1> DEFINE l == loops[i].last
<1>0. TypeOK /\ l \in Fiber /\ l # cur
  BY ActivationType DEF LinkInv, LastsBusy
<1>1. ASSUME NEW ok \in BOOLEAN, NEW left \in Fiber \cup {NULL},
             NEW err \in [Fiber -> BOOLEAN], LeaveLoop(ok, left, err),
             loops # <<>>, l # Top.last => err[l] = error[l]
      PROVE  error'[l] = error[l]
  <2>1. i \in 1..(Len(loops) - 1) /\ Len(loops) \in DOMAIN loops
        /\ i # Len(loops) /\ i <= Len(loops)
    BY <1>0, <1>1, LeaveLoopEffect
  <2>2. l # Top.last
    BY <2>1 DEF LinkInv, LastsBusy, Top
  <2>3. l # Top.callee
    BY <2>1 DEF LinkInv, ActivationsLinked, Top
  <2> QED
    BY <1>0, <1>1, <2>2, <2>3, LeaveLoopEffect
<1> HIDE DEF l
<1>2. ASSUME NEW f \in Fiber, RunNativeFiber(f) PROVE error'[l] = error[l]
  <2>1. f # l /\ loops # <<>> /\ cur \in Fiber
    BY <1>0, <1>2 DEF RunNativeFiber, InScript, LinkInv, LastsBusy, Busy, l, TypeOK
  <2>2. [error EXCEPT ![f] = TRUE] \in [Fiber -> BOOLEAN]
        /\ [error EXCEPT ![f] = TRUE][l] = error[l]
    BY <1>0, <2>1 DEF TypeOK
  <2> QED
    BY <1>1, <1>2, <2>1, <2>2 DEF RunNativeFiber
<1>3. ASSUME Raise PROVE error'[l] = error[l]
  <2>1. loops # <<>> /\ cur \in Fiber /\ caller[cur] \in Fiber \cup {NULL}
    BY <1>0, <1>3 DEF Raise, InScript, TypeOK
  <2>2. [error EXCEPT ![cur] = TRUE] \in [Fiber -> BOOLEAN]
        /\ [error EXCEPT ![cur] = TRUE][l] = error[l]
    BY <1>0, <2>1 DEF TypeOK
  <2> QED
    BY <1>1, <1>3, <2>1, <2>2 DEF Raise, FailCurrent
<1>4. ASSUME YieldAtBase \/ ReturnAtBase \/ NativeReturn PROVE error'[l] = error[l]
  <2>1. loops # <<>> /\ error \in [Fiber -> BOOLEAN] /\ cur \in Fiber \cup {NULL}
    BY <1>0, <1>4 DEF YieldAtBase, ReturnAtBase, NativeReturn, InScript, InNative, TypeOK
  <2> QED
    BY <1>1, <1>4, <2>1 DEF YieldAtBase, ReturnAtBase, NativeReturn
<1>5. ASSUME NativeError PROVE error'[l] = error[l]
  <2> DEFINE raised == [error EXCEPT ![cur] = TRUE]
             err == IF Top.by = "call" /\ Top.last # NULL
                      THEN [raised EXCEPT ![Top.last] = TRUE] ELSE raised
  <2>1. /\ loops # <<>> /\ err \in [Fiber -> BOOLEAN]
        /\ l # Top.last => err[l] = error[l]
    BY <1>0, <1>5 DEF NativeError, InNative, TypeOK
  <2>2. LeaveLoop(FALSE, NULL, err)
    BY <1>5 DEF NativeError
  <2> HIDE DEF err
  <2> QED
    BY <1>1, <2>1, <2>2
<1>6. ASSUME error' = error PROVE error'[l] = error[l]
  BY <1>6
<1>7. error'[l] = error[l]
  BY <1>2, <1>3, <1>4, <1>5, <1>6 DEF Next, HostRun, HostCall, CallBack, Enter,
     PcallYield, NewFiber, RunFiber, ResumeFiber, SwitchTo, YieldToCaller,
     ReturnToCaller, Drop
<1> QED
  BY <1>7 DEF l

\* What a native put away on the C stack is as it left it when it gets control
\* back, whatever the loops above it ran.
THEOREM FrozenCorrect == Spec => FrozenBelow
<1>1. LinkInv /\ [Next]_vars =>
        [\A i \in DOMAIN loops \cap DOMAIN loops' :
           LET l == loops[i].last IN l # NULL =>
             state'[l] = state[l] /\ caller'[l] = caller[l] /\ error'[l] = error[l]]_vars
  <2> SUFFICES ASSUME LinkInv, Next, NEW i \in DOMAIN loops \cap DOMAIN loops',
                      loops[i].last # NULL
               PROVE  /\ state'[loops[i].last] = state[loops[i].last]
                      /\ caller'[loops[i].last] = caller[loops[i].last]
                      /\ error'[loops[i].last] = error[loops[i].last]
    OBVIOUS
  <2>0. TypeOK /\ loops[i].last \in Fiber
    BY ActivationType DEF LinkInv
  <2>1. CASE Collect
    <3>1. loops[i].by # "run" /\ native[loops[i].callee] = loops[i].last
      BY DEF LinkInv, ActivationsLinked
    <3>2. loops[i].callee \in Roots
      BY <2>0, <3>1, ActivationType, FiberAssumption DEF Roots, FiberAssumption
    <3>3. loops[i].last \in Marked
      BY <2>0, <3>1, <3>2, MarkedClosed
    <3> QED
      BY <2>0, <2>1, <3>3 DEF Collect, TypeOK
  <2>2. CASE ~Collect
    BY <2>0, <2>2, StepTouches, ErrorsBeneath
  <2> QED
    BY <2>1, <2>2
<1> QED
  BY <1>1, LinksCorrect, PTL DEF Spec, FrozenBelow
-----------------------------------------------------------------------------
(* What the links lead to: LoopInv is inductive *)

\* Fibers that C code made for itself are no script's to run; a fiber that is
\* not allocated has nothing of an earlier one.
Natives ==
  /\ \A f \in held : native[f] = NULL
  /\ \A f \in held : state[f] = "YIELDED" => kind[f] = "script"
  /\ \A f \in Fiber : caller[f] # NULL => kind[f] = "script" /\ native[f] = NULL
  /\ \A f \in Fiber : state[f] = "FREE" => native[f] = NULL /\ ~error[f]
  /\ \A f \in Fiber : native[f] # NULL => state[native[f]] # "FREE"

\* What the host enters is a script's function; every other loop awaits a fiber.
Entered ==
  \A i \in DOMAIN loops :
    /\ state[loops[i].callee] # "FREE"
    /\ loops[i].by = "run" => i = 1 /\ native[loops[i].callee] = NULL
    /\ i = 1 => kind[loops[i].callee] = "script"
    /\ i > 1 => loops[i].last # NULL

\* The chain of callers of a loop's innermost fiber lies in G and can only end
\* in the fiber the loop was entered with.
RootSet(i, G) ==
  /\ Innermost(i) \in G
  /\ \A g \in G :
       /\ g = Innermost(i) \/ state[g] = "RUNNING"
       /\ IF caller[g] = NULL THEN g = loops[i].callee ELSE caller[g] \in G

Rooted == ~crashed => \A i \in DOMAIN loops : \E G \in SUBSET Fiber : RootSet(i, G)

\* The fiber the host left behind; a chain of callers in G leads to nothing.
Base == IF loops = <<>> THEN cur ELSE loops[1].last

GroundSet(G) ==
  /\ Base \in G \cup {NULL}
  /\ \A g \in G : /\ state[g] = "RUNNING"
                  /\ IF caller[g] = NULL THEN native[g] = NULL ELSE caller[g] \in G

Grounded == \E G \in SUBSET Fiber : GroundSet(G)

\* No error is left on what the host may call from.
HostClean == loops = <<>> /\ cur # NULL => ~error[cur]

LoopInv ==
  /\ Natives
  /\ Entered
  /\ Rooted
  /\ Grounded
  /\ NoStaleError
  /\ HostClean
  /\ BacktraceTerminates

\* The invariant of the links, fiber by fiber.
LEMMA Standing ==
  ASSUME LinkInv
  PROVE  /\ Len(loops) \in Nat /\ DOMAIN loops = 1..Len(loops)
         /\ cur # NULL => /\ cur \in Fiber /\ state[cur] # "FREE"
                          /\ cur \in held => state[cur] = "RUNNING"
                          /\ \A f \in Fiber : caller[f] # cur
         /\ \A f \in Fiber : caller[f] # NULL =>
              /\ caller[f] \in Fiber /\ caller[f] # cur
              /\ state[f] = "RUNNING" /\ state[caller[f]] = "RUNNING"
         /\ \A i \in DOMAIN loops :
              /\ loops[i].callee \in Fiber /\ loops[i].last \in Fiber \cup {NULL}
              /\ loops[i].by \in {"run", "call", "pcall"}
              /\ loops[i].by = "run" => loops[i].last = NULL
              /\ loops[i].by # "run" => native[loops[i].callee] = loops[i].last
              /\ loops[i].last # NULL =>
                   /\ state[loops[i].last] # "FREE" /\ loops[i].last # cur
                   /\ loops[i].last \in held => state[loops[i].last] = "RUNNING"
                   /\ \A f \in Fiber : caller[f] # loops[i].last
                   /\ \A j \in DOMAIN loops : loops[j].last = loops[i].last => j = i
<1>1. TypeOK
  BY DEF LinkInv
<1>2. /\ Len(loops) \in Nat /\ DOMAIN loops = 1..Len(loops)
      /\ \A i \in DOMAIN loops : /\ loops[i].callee \in Fiber /\ loops[i].last \in Fiber \cup {NULL}
                                 /\ loops[i].by \in {"run", "call", "pcall"}
  BY <1>1, ActivationType DEF Activation, Entries
<1>3. \A f \in Fiber : caller[f] # NULL =>
        /\ caller[f] \in Fiber /\ caller[f] # cur
        /\ state[f] = "RUNNING" /\ state[caller[f]] = "RUNNING"
        /\ \A i \in DOMAIN loops : loops[i].last # caller[f]
  BY <1>1 DEF LinkInv, CallersRunning, TypeOK
<1>4. \A f \in Fiber : Busy(f) => state[f] # "FREE" /\ (f \in held => state[f] = "RUNNING")
  BY <1>1 DEF LinkInv, FreeUnused, Busy
<1>5. cur # NULL => /\ cur \in Fiber /\ state[cur] # "FREE"
                    /\ cur \in held => state[cur] = "RUNNING"
                    /\ \A f \in Fiber : caller[f] # cur
  BY <1>1, <1>3, <1>4 DEF LinkInv, CurrentBusy, TypeOK
<1>6. \A i \in DOMAIN loops : loops[i].last # NULL =>
        /\ state[loops[i].last] # "FREE" /\ loops[i].last # cur
        /\ loops[i].last \in held => state[loops[i].last] = "RUNNING"
        /\ \A f \in Fiber : caller[f] # loops[i].last
        /\ \A j \in DOMAIN loops : loops[j].last = loops[i].last => j = i
  BY <1>2, <1>3, <1>4 DEF LinkInv, LastsBusy
<1>7. \A i \in DOMAIN loops :
        /\ loops[i].by = "run" => loops[i].last = NULL
        /\ loops[i].by # "run" => native[loops[i].callee] = loops[i].last
  BY DEF LinkInv, ActivationsLinked
<1> QED BY <1>2, <1>3, <1>5, <1>6, <1>7

\* The fiber a loop runs is the one it was entered with if it has no caller.
LEMMA BaseIsCallee ==
  ASSUME LinkInv, Rooted, ~crashed, loops # <<>>, cur # NULL, caller[cur] = NULL
  PROVE  cur = Top.callee
<1>1. Len(loops) \in DOMAIN loops /\ Innermost(Len(loops)) = cur
  <2>1. loops \in Seq(Activation)
    BY DEF LinkInv, TypeOK
  <2> QED BY <2>1 DEF Innermost
<1>2. PICK G \in SUBSET Fiber : RootSet(Len(loops), G)
  BY <1>1 DEF Rooted
<1> QED BY <1>1, <1>2 DEF RootSet, Top

\* How a loop is left: g is the one fiber that changes, left what the loop
\* leaves current.
Leaving(g, left, err) ==
  /\ \E ok \in BOOLEAN : LeaveLoop(ok, left, err)
  /\ UNCHANGED <<kind, native, held, crashed>>
  /\ ~crashed /\ loops # <<>> /\ cur # NULL
  /\ \A f \in Fiber : f # g => state'[f] = state[f] /\ caller'[f] = caller[f]
  /\ caller'[g] \in {NULL, caller[g]}
  /\ state[g] # "FREE" /\ state'[g] # "FREE"
  /\ g \in held /\ state'[g] = "YIELDED" => kind[g] = "script"
  /\ \A f \in Fiber : caller[f] # g
  /\ \A i \in DOMAIN loops : loops[i].last # g
  /\ left \in {NULL, cur, caller[cur]}
  /\ left # NULL => /\ state[cur] = "RUNNING" /\ ~err[left]
                    /\ left # g \/ UNCHANGED <<state, caller>>
  /\ g \in held /\ state'[g] \in {"NEW", "YIELDED"} => ~err[g]
  /\ \A f \in Fiber : err[f] => error[f] \/ f = g \/ (f = Top.last /\ Len(loops) > 1)

LeaveActions ==
  \/ \E f \in Fiber : RunNativeFiber(f)
  \/ Raise \/ YieldAtBase \/ ReturnAtBase \/ NativeReturn \/ NativeError

LEMMA LeaveActionsLeave ==
  ASSUME LinkInv, Natives, Entered, Rooted, NoStaleError, LeaveActions
  PROVE  \E g \in Fiber, left \in Fiber \cup {NULL}, err \in [Fiber -> BOOLEAN] :
           Leaving(g, left, err)
<1>0. TypeOK /\ NULL \notin Fiber
  BY FiberAssumption DEF LinkInv, FiberAssumption
<1>1. ASSUME NEW f \in Fiber, RunNativeFiber(f)
      PROVE  [error EXCEPT ![f] = TRUE] \in [Fiber -> BOOLEAN] /\ Leaving(f, cur, [error EXCEPT ![f] = TRUE])
  <2>1. InScript /\ ~error[cur] /\ f \in held /\ state[f] = "NEW"
    BY <1>1 DEF RunNativeFiber
  <2>2. /\ cur \in Fiber /\ state[cur] = "RUNNING" /\ loops # <<>> /\ cur # f
        /\ \A h \in Fiber : caller[h] # f
        /\ \A i \in DOMAIN loops : loops[i].last # f
    BY <1>0, <2>1, ScriptIsRunning, Standing
  <2>3. /\ LeaveLoop(FALSE, cur, [error EXCEPT ![f] = TRUE])
        /\ UNCHANGED <<kind, native, held, crashed>> /\ ~crashed /\ caller' = caller
        /\ \A h \in Fiber : h # f => state'[h] = state[h]
        /\ state'[f] = "DONE"
    BY <1>0, <1>1, <2>1 DEF RunNativeFiber, InScript, TypeOK
  <2>4. /\ [error EXCEPT ![f] = TRUE] \in [Fiber -> BOOLEAN] /\ ~[error EXCEPT ![f] = TRUE][cur]
        /\ \A h \in Fiber : [error EXCEPT ![f] = TRUE][h] => error[h] \/ h = f
    BY <1>0, <2>1, <2>2 DEF TypeOK
  <2> QED BY <1>0, <2>1, <2>2, <2>3, <2>4 DEF Leaving
<1>2. ASSUME InScript
      PROVE  /\ cur \in Fiber /\ state[cur] = "RUNNING" /\ loops # <<>> /\ ~crashed /\ cur # NULL
             /\ \A h \in Fiber : caller[h] # cur
             /\ \A i \in DOMAIN loops : loops[i].last # cur
             /\ kind[cur] = "script"
  BY <1>0, <1>2, ScriptIsRunning DEF InScript
<1>3. ASSUME Raise
      PROVE  /\ caller[cur] \in Fiber \cup {NULL} /\ cur \in Fiber
             /\ [error EXCEPT ![cur] = TRUE] \in [Fiber -> BOOLEAN]
             /\ Leaving(cur, caller[cur], [error EXCEPT ![cur] = TRUE])
  <2> DEFINE err == [error EXCEPT ![cur] = TRUE]
  <2>1. /\ LeaveLoop(FALSE, caller[cur], err)
        /\ UNCHANGED <<kind, native, held, crashed>> /\ InScript
        /\ \A h \in Fiber : h # cur => state'[h] = state[h] /\ caller'[h] = caller[h]
        /\ state'[cur] = "DONE" /\ caller'[cur] = NULL
    BY <1>0, <1>2, <1>3 DEF Raise, FailCurrent, TypeOK
  <2>2. caller[cur] \in Fiber \cup {NULL} /\ caller[cur] # cur
    BY <1>0, <1>2, <2>1 DEF TypeOK
  <2>3. /\ err \in [Fiber -> BOOLEAN]
        /\ \A h \in Fiber : h # cur => err[h] = error[h]
    BY <1>0, <1>2, <2>1 DEF TypeOK
  <2>4. caller[cur] # NULL => ~err[caller[cur]]
    BY <1>2, <2>1, <2>2, <2>3 DEF NoStaleError
  <2> HIDE DEF err
  <2>5. Leaving(cur, caller[cur], err)
    BY <1>2, <2>1, <2>2, <2>3, <2>4 DEF Leaving
  <2> QED BY <1>2, <2>1, <2>2, <2>3, <2>5 DEF err
<1>4. ASSUME YieldAtBase PROVE cur \in Fiber /\ error \in [Fiber -> BOOLEAN] /\ Leaving(cur, NULL, error)
  <2>1. /\ LeaveLoop(TRUE, NULL, error) /\ InScript /\ ~error[cur]
        /\ UNCHANGED <<kind, native, held, crashed, caller>>
        /\ \A h \in Fiber : h # cur => state'[h] = state[h]
        /\ state'[cur] = "YIELDED"
    BY <1>0, <1>2, <1>4 DEF YieldAtBase, TypeOK
  <2> QED BY <1>0, <1>2, <2>1 DEF Leaving, TypeOK
<1>5. ASSUME ReturnAtBase PROVE cur \in Fiber /\ error \in [Fiber -> BOOLEAN] /\ Leaving(cur, cur, error)
  <2>1. /\ LeaveLoop(TRUE, cur, error) /\ InScript /\ ~error[cur]
        /\ UNCHANGED <<kind, native, held, crashed, caller, state>>
    BY <1>5 DEF ReturnAtBase
  <2> QED BY <1>0, <1>2, <2>1 DEF Leaving, TypeOK
<1>6. ASSUME InNative
      PROVE  /\ cur \in Fiber /\ state[cur] # "FREE" /\ loops # <<>> /\ ~crashed /\ cur # NULL
             /\ \A h \in Fiber : caller[h] # cur
             /\ \A i \in DOMAIN loops : loops[i].last # cur
             /\ cur \in held => state[cur] = "RUNNING"
             /\ Len(loops) > 1
             /\ caller[cur] = NULL
  <2>1. loops # <<>> /\ cur # NULL /\ kind[cur] = "native" /\ ~crashed
    BY <1>6 DEF InNative
  <2>2. /\ cur \in Fiber /\ state[cur] # "FREE" /\ (\A h \in Fiber : caller[h] # cur)
        /\ cur \in held => state[cur] = "RUNNING"
        /\ \A i \in DOMAIN loops : loops[i].last # cur
    BY <2>1, Standing
  <2>3. caller[cur] = NULL
    BY <2>1, <2>2 DEF Natives
  <2>4. cur = Top.callee
    BY <2>1, <2>3, BaseIsCallee
  <2>5. Len(loops) > 1
    <3>1. Len(loops) \in Nat /\ DOMAIN loops = 1..Len(loops) /\ Len(loops) >= 1
      BY <1>0, <2>1 DEF TypeOK
    <3>2. Len(loops) # 1
      BY <2>1, <2>4, <3>1 DEF Top, Entered
    <3> QED BY <3>1, <3>2
  <2> QED BY <2>1, <2>2, <2>3, <2>5
<1>7. ASSUME NativeReturn
      PROVE  cur \in Fiber /\ error \in [Fiber -> BOOLEAN] /\ Leaving(cur, NULL, error)
  <2>1. /\ LeaveLoop(TRUE, NULL, error) /\ InNative /\ ~error[cur]
        /\ UNCHANGED <<kind, native, held, crashed, caller, state>>
    BY <1>7 DEF NativeReturn
  <2>2. error \in [Fiber -> BOOLEAN]
    BY <1>0 DEF TypeOK
  <2>3. /\ cur \in Fiber /\ state[cur] # "FREE" /\ loops # <<>> /\ ~crashed /\ cur # NULL
        /\ \A h \in Fiber : caller[h] # cur
        /\ \A i \in DOMAIN loops : loops[i].last # cur
        /\ cur \in held => state[cur] = "RUNNING"
    BY <1>6, <2>1
  <2> QED BY <1>0, <2>1, <2>2, <2>3 DEF Leaving
<1>8. ASSUME NativeError
      PROVE  \E err \in [Fiber -> BOOLEAN] : cur \in Fiber /\ Leaving(cur, NULL, err)
  <2> DEFINE raised == [error EXCEPT ![cur] = TRUE]
             err == IF Top.by = "call" /\ Top.last # NULL
                      THEN [raised EXCEPT ![Top.last] = TRUE] ELSE raised
  <2>1. /\ LeaveLoop(FALSE, NULL, err) /\ InNative
        /\ UNCHANGED <<kind, native, held, crashed, caller, state>>
    BY <1>8 DEF NativeError
  <2>2. /\ cur \in Fiber /\ state[cur] # "FREE" /\ loops # <<>> /\ ~crashed /\ cur # NULL
        /\ \A h \in Fiber : caller[h] # cur
        /\ \A i \in DOMAIN loops : loops[i].last # cur
        /\ cur \in held => state[cur] = "RUNNING"
        /\ Len(loops) > 1
    BY <1>6, <2>1
  <2>3. raised \in [Fiber -> BOOLEAN] /\ \A h \in Fiber : h # cur => raised[h] = error[h]
    BY <1>0, <2>2 DEF TypeOK
  <2> HIDE DEF raised
  <2>4. /\ err \in [Fiber -> BOOLEAN]
        /\ \A h \in Fiber : err[h] => raised[h] \/ h = Top.last
    BY <2>3
  <2> HIDE DEF err
  <2>5. \A h \in Fiber : err[h] => error[h] \/ h = cur \/ (h = Top.last /\ Len(loops) > 1)
    BY <2>2, <2>3, <2>4
  <2>6. Leaving(cur, NULL, err)
    BY <1>0, <2>1, <2>2, <2>5 DEF Leaving
  <2> QED BY <2>2, <2>4, <2>6
<1>9. NULL \in Fiber \cup {NULL} /\ \A f \in Fiber : f \in Fiber \cup {NULL}
  OBVIOUS
<1> QED BY <1>1, <1>2, <1>3, <1>4, <1>5, <1>7, <1>8, <1>9 DEF LeaveActions, RunNativeFiber
-----------------------------------------------------------------------------
(* Lemmas the steps share *)

\* What lang.backtrace() goes to next, in this state and in the next one.
Up(f) == IF caller[f] # NULL THEN caller[f] ELSE native[f]
UpNext(f) == IF caller'[f] # NULL THEN caller'[f] ELSE native'[f]

\* A step that only cuts links makes no walk endless.
LEMMA LinksCut ==
  ASSUME BacktraceTerminates, \A f \in Fiber : UpNext(f) \in {Up(f), NULL}
  PROVE  BacktraceTerminates'
<1> SUFFICES ASSUME NEW S \in SUBSET Fiber, \A f \in S : UpNext(f) \in S
             PROVE  S = {}
  BY DEF BacktraceTerminates, UpNext
<1>1. \A f \in S : Up(f) \in S
  BY FiberAssumption DEF FiberAssumption
<1> QED BY <1>1 DEF BacktraceTerminates, Up

\* Nor does one that links a fiber to which nothing leads.
LEMMA LinkOfNew ==
  ASSUME BacktraceTerminates, NEW f \in Fiber,
         \A g \in Fiber : g # f => UpNext(g) = Up(g) /\ Up(g) # f,
         UpNext(f) # f
  PROVE  BacktraceTerminates'
<1> SUFFICES ASSUME NEW S \in SUBSET Fiber, \A g \in S : UpNext(g) \in S
             PROVE  S = {}
  BY DEF BacktraceTerminates, UpNext
<1>1. S \ {f} \in SUBSET Fiber /\ \A g \in S \ {f} : Up(g) \in S \ {f}
  OBVIOUS
<1>2. S \ {f} = {}
  BY <1>1 DEF BacktraceTerminates, Up
<1> QED BY <1>2

\* The fiber innermost in a loop is the current one or one a native restores.
LEMMA InnermostIs ==
  ASSUME LinkInv, NEW i \in DOMAIN loops
  PROVE  \/ i = Len(loops) /\ Innermost(i) = cur
         \/ /\ i # Len(loops) /\ i + 1 \in DOMAIN loops
            /\ Innermost(i) = loops[i + 1].last
<1>1. Len(loops) \in Nat /\ DOMAIN loops = 1..Len(loops)
  BY Standing
<1> QED BY <1>1 DEF Innermost

\* A fiber that waits for a script, or is not allocated, is in no loop.
LEMMA WaitingOutside ==
  ASSUME LinkInv, NEW f \in Fiber, state[f] # "RUNNING", f # cur,
         \A i \in DOMAIN loops : loops[i].last # f
  PROVE  /\ \A i \in DOMAIN loops : \A G \in SUBSET Fiber : RootSet(i, G) => f \notin G
         /\ \A G \in SUBSET Fiber : GroundSet(G) => f \notin G
<1>1. ASSUME NEW i \in DOMAIN loops, NEW G \in SUBSET Fiber, RootSet(i, G) PROVE f \notin G
  BY <1>1, InnermostIs DEF RootSet
<1> QED BY <1>1 DEF GroundSet

\* What is known of a fiber that is not allocated.
LEMMA FreshOutside ==
  ASSUME LinkInv, LoopInv, NEW f \in Fiber, Fresh(f)
  PROVE  /\ f # cur /\ f \notin held /\ caller[f] = NULL /\ native[f] = NULL /\ ~error[f]
         /\ \A g \in Fiber : caller[g] # f /\ native[g] # f
         /\ \A i \in DOMAIN loops : loops[i].last # f /\ loops[i].callee # f
         /\ \A i \in DOMAIN loops : \A G \in SUBSET Fiber : RootSet(i, G) => f \notin G
         /\ \A G \in SUBSET Fiber : GroundSet(G) => f \notin G
<1>1. state[f] = "FREE" /\ f # NULL
  BY FiberAssumption DEF Fresh, FiberAssumption
<1>2. /\ f # cur /\ f \notin held /\ caller[f] = NULL
      /\ \A g \in Fiber : caller[g] # f
      /\ \A i \in DOMAIN loops : loops[i].last # f
  BY FreshIsUnused
<1>3. native[f] = NULL /\ ~error[f] /\ \A g \in Fiber : native[g] # f
  BY <1>1 DEF LoopInv, Natives
<1>4. \A i \in DOMAIN loops : loops[i].callee # f
  BY <1>1 DEF LoopInv, Entered
<1> QED BY <1>1, <1>2, <1>3, <1>4, WaitingOutside

-----------------------------------------------------------------------------
(* Each kind of step keeps LoopInv *)

\* RunString and RunFile: one loop, one fiber.
LEMMA HostRunKeeps ==
  ASSUME LinkInv, LinkInv', LoopInv, NEW f \in Fiber, HostRun(f)
  PROVE  LoopInv'
<1>0. TypeOK /\ NULL \notin Fiber
  BY FiberAssumption DEF LinkInv, FiberAssumption
<1>1. Fresh(f) /\ ~crashed
  BY DEF HostRun, AtHost
<1>2. /\ \A g \in Fiber : caller[g] # f /\ native[g] # f
      /\ f \notin held /\ caller[f] = NULL /\ native[f] = NULL /\ ~error[f]
  BY <1>1, FreshOutside
<1>3. /\ state'[f] = "RUNNING" /\ kind'[f] = "script"
      /\ \A g \in Fiber : g # f => state'[g] = state[g] /\ kind'[g] = kind[g]
      /\ cur' = f /\ UNCHANGED <<caller, native, error, held, verdict, crashed>>
  BY <1>0 DEF HostRun, TypeOK
<1>4. /\ DOMAIN loops' = {1} /\ Len(loops') = 1
      /\ loops'[1].callee = f /\ loops'[1].last = NULL /\ loops'[1].by = "run"
  BY DEF HostRun
<1>5. Natives'
  BY <1>0, <1>2, <1>3 DEF LoopInv, Natives, TypeOK
<1>6. Entered'
  BY <1>2, <1>3, <1>4 DEF Entered
<1>7. Rooted'
  <2>1. RootSet(1, {f})'
    BY <1>2, <1>3, <1>4 DEF RootSet, Innermost
  <2> QED BY <1>4, <2>1 DEF Rooted
<1>8. Grounded'
  <2>1. loops' # <<>>
    BY <1>4
  <2>2. Base' = NULL
    BY <1>4, <2>1 DEF Base
  <2>3. GroundSet({})'
    BY <2>2 DEF GroundSet
  <2> QED BY <2>3 DEF Grounded
<1>9. NoStaleError' /\ HostClean'
  BY <1>0, <1>2, <1>3, <1>4 DEF LoopInv, NoStaleError, HostClean, TypeOK
<1>10. BacktraceTerminates'
  BY <1>3, LinksCut DEF LoopInv, Up, UpNext
<1> QED BY <1>5, <1>6, <1>7, <1>8, <1>9, <1>10 DEF LoopInv

\* Fiber(fn), and the fiber pcall(yield) loses: no loop changes.
LEMMA NewKeeps ==
  ASSUME LinkInv, LinkInv', LoopInv, NEW f \in Fiber,
         (\E k \in {"script", "native"} : NewFiber(f, k)) \/ PcallYield(f)
  PROVE  LoopInv'
<1>0. TypeOK /\ NULL \notin Fiber
  BY FiberAssumption DEF LinkInv, FiberAssumption
<1>1. /\ Fresh(f) /\ InScript /\ loops # <<>>
      /\ cur \in Fiber /\ state[cur] = "RUNNING"
  <2>1. Fresh(f) /\ InScript
    BY DEF NewFiber, PcallYield
  <2> QED BY <2>1, ScriptIsRunning
<1>2. /\ f # cur /\ f \notin held /\ caller[f] = NULL /\ native[f] = NULL /\ ~error[f]
      /\ \A g \in Fiber : caller[g] # f /\ native[g] # f
      /\ \A i \in DOMAIN loops : loops[i].last # f /\ loops[i].callee # f
      /\ \A i \in DOMAIN loops : \A G \in SUBSET Fiber : RootSet(i, G) => f \notin G
      /\ \A G \in SUBSET Fiber : GroundSet(G) => f \notin G
  BY <1>1, FreshOutside
<1>3. /\ state'[f] # "FREE" /\ kind'[f] \in {"script", "native"}
      /\ held' \in {held, held \cup {f}} /\ (held' # held => native'[f] = NULL /\ state'[f] = "NEW")
      /\ \A g \in Fiber : g # f => /\ state'[g] = state[g] /\ kind'[g] = kind[g]
                                   /\ native'[g] = native[g]
      /\ native'[f] \in {NULL, cur}
      /\ UNCHANGED <<caller, error, loops>>
      /\ (cur' = cur /\ crashed' = crashed) \/ crashed'
  BY <1>0, <1>2 DEF NewFiber, PcallYield, TypeOK
<1>4. Natives'
  BY <1>0, <1>1, <1>2, <1>3 DEF LoopInv, Natives, TypeOK
<1>5. Entered'
  BY <1>0, <1>2, <1>3, Standing DEF LoopInv, Entered
<1>6. Rooted'
  <2> SUFFICES ASSUME ~crashed', NEW i \in DOMAIN loops
               PROVE  \E G \in SUBSET Fiber : RootSet(i, G)'
    BY <1>3 DEF Rooted
  <2>1. cur' = cur /\ ~crashed
    BY <1>3
  <2>2. PICK G \in SUBSET Fiber : RootSet(i, G)
    BY <2>1 DEF LoopInv, Rooted
  <2>3. RootSet(i, G)'
    BY <1>2, <1>3, <2>1, <2>2 DEF RootSet, Innermost
  <2> QED BY <2>3
<1>7. Grounded'
  <2>1. PICK G \in SUBSET Fiber : GroundSet(G)
    BY DEF LoopInv, Grounded
  <2>2. GroundSet(G)'
    BY <1>1, <1>2, <1>3, <2>1 DEF GroundSet, Base
  <2> QED BY <2>2 DEF Grounded
<1>8. NoStaleError' /\ HostClean'
  BY <1>0, <1>1, <1>2, <1>3 DEF LoopInv, NoStaleError, HostClean, TypeOK
<1>9. BacktraceTerminates'
  <2>1. UpNext(f) # f
    BY <1>0, <1>2, <1>3 DEF UpNext
  <2>2. \A g \in Fiber : g # f => UpNext(g) = Up(g) /\ Up(g) # f
    BY <1>2, <1>3 DEF Up, UpNext
  <2> QED BY <2>1, <2>2, LinkOfNew DEF LoopInv
<1> QED BY <1>4, <1>5, <1>6, <1>7, <1>8, <1>9 DEF LoopInv

\* vmCallMethod and pcall: a loop on top, for a fiber of its own.
LEMMA EnterKeeps ==
  ASSUME LinkInv, LinkInv', LoopInv, NEW f \in Fiber, NEW k \in {"script", "native"},
         NEW by \in {"call", "pcall"},
         CallBack(f, k, by) \/ (HostCall(f) /\ k = "script" /\ by = "call")
  PROVE  LoopInv'
<1>0. TypeOK /\ NULL \notin Fiber
  BY FiberAssumption DEF LinkInv, FiberAssumption
<1>1. /\ Enter(f, k, by) /\ Fresh(f) /\ ~crashed
      /\ cur # NULL => ~error[cur]
      /\ \/ loops = <<>> /\ k = "script"
         \/ loops # <<>> /\ cur # NULL
  BY DEF CallBack, HostCall, Enter, InScript, InNative, AtHost, LoopInv, HostClean
<1>2. /\ f # cur /\ f \notin held /\ caller[f] = NULL /\ native[f] = NULL /\ ~error[f]
      /\ \A g \in Fiber : caller[g] # f /\ native[g] # f
      /\ \A i \in DOMAIN loops : loops[i].last # f /\ loops[i].callee # f
      /\ \A i \in DOMAIN loops : \A G \in SUBSET Fiber : RootSet(i, G) => f \notin G
      /\ \A G \in SUBSET Fiber : GroundSet(G) => f \notin G
  BY <1>1, FreshOutside
<1>3. /\ state'[f] # "FREE" /\ kind'[f] = k /\ native'[f] = cur
      /\ \A g \in Fiber : g # f => /\ state'[g] = state[g] /\ kind'[g] = kind[g]
                                   /\ native'[g] = native[g]
      /\ cur' = f /\ UNCHANGED <<caller, error, held, crashed>>
  BY <1>0, <1>1 DEF Enter, TypeOK
<1> DEFINE n == Len(loops)
           a == [callee |-> f, last |-> cur, by |-> by]
<1>4. /\ n \in Nat /\ DOMAIN loops = 1..n /\ DOMAIN loops' = 1..(n + 1)
      /\ Len(loops') = n + 1
      /\ loops'[n + 1] = a
      /\ \A i \in 1..n : loops'[i] = loops[i]
      /\ n = 0 <=> loops = <<>>
  <2>1. loops \in Seq(Activation) /\ a \in Activation
    BY <1>0 DEF TypeOK, Activation, Entries
  <2> HIDE DEF a
  <2>2. loops' = Append(loops, a)
    BY <1>1 DEF Enter, a
  <2> QED BY <2>1, <2>2, Push, EmptySeq
<1>5. a.callee = f /\ a.last = cur /\ a.by # "run"
  OBVIOUS
<1> HIDE DEF n, a
<1>6. cur # NULL => cur \in Fiber /\ state[cur] # "FREE"
  BY Standing
<1>7. Natives'
  BY <1>0, <1>2, <1>3, <1>6 DEF LoopInv, Natives, TypeOK
<1>8. Entered'
  <2> SUFFICES ASSUME NEW i \in 1..(n + 1)
               PROVE  /\ state'[loops'[i].callee] # "FREE"
                      /\ loops'[i].by = "run" => i = 1 /\ native'[loops'[i].callee] = NULL
                      /\ i = 1 => kind'[loops'[i].callee] = "script"
                      /\ i > 1 => loops'[i].last # NULL
    BY <1>4 DEF Entered
  <2>1. CASE i \in 1..n
    <3>1. loops[i].callee \in Fiber /\ loops[i].callee # f
      BY <1>2, <1>4, <2>1, Standing
    <3> QED BY <1>3, <1>4, <2>1, <3>1 DEF LoopInv, Entered
  <2>2. CASE i = n + 1
    <3>1. i = 1 => loops = <<>>
      BY <1>4, <2>2
    <3>2. i > 1 => loops # <<>>
      BY <1>4, <2>2
    <3> QED BY <1>1, <1>3, <1>4, <1>5, <2>2, <3>1, <3>2
  <2> QED BY <1>4, <2>1, <2>2
<1>9. \A i \in 1..n : (Innermost(i))' = Innermost(i)
  <2> SUFFICES ASSUME NEW i \in 1..n
               PROVE  (IF i = n + 1 THEN cur' ELSE loops'[i + 1].last)
                        = (IF i = n THEN cur ELSE loops[i + 1].last)
    BY <1>4 DEF Innermost, n
  <2>1. i # n + 1
    BY <1>4
  <2>2. CASE i = n
    BY <1>4, <1>5, <2>1, <2>2
  <2>3. CASE i # n
    <3>1. i + 1 \in 1..n
      BY <1>4, <2>3
    <3> QED BY <1>4, <2>1, <2>3, <3>1
  <2> QED BY <2>2, <2>3
<1>10. Rooted'
  <2> SUFFICES ASSUME NEW i \in 1..(n + 1)
               PROVE  \E G \in SUBSET Fiber : RootSet(i, G)'
    BY <1>4 DEF Rooted
  <2>1. CASE i \in 1..n
    <3>1. PICK G \in SUBSET Fiber : RootSet(i, G)
      BY <1>1, <1>4, <2>1 DEF LoopInv, Rooted
    <3>2. RootSet(i, G)'
      BY <1>2, <1>3, <1>4, <1>9, <2>1, <3>1 DEF RootSet
    <3> QED BY <3>2
  <2>2. CASE i = n + 1
    <3>1. RootSet(i, {f})'
      BY <1>2, <1>3, <1>4, <1>5, <2>2 DEF RootSet, Innermost
    <3> QED BY <3>1
  <2> QED BY <1>4, <2>1, <2>2
<1>11. Grounded'
  <2>1. PICK G \in SUBSET Fiber : GroundSet(G)
    BY DEF LoopInv, Grounded
  <2>2. Base' = Base
    <3>1. loops' # <<>>
      BY <1>4
    <3>2. CASE n = 0
      BY <1>4, <1>5, <3>1, <3>2 DEF Base
    <3>3. CASE n # 0
      <4>1. 1 \in 1..n
        BY <1>4, <3>3
      <4> QED BY <1>4, <3>1, <3>3, <4>1 DEF Base
    <3> QED BY <3>2, <3>3
  <2>3. GroundSet(G)'
    BY <1>2, <1>3, <2>1, <2>2 DEF GroundSet
  <2> QED BY <2>3 DEF Grounded
<1>12. NoStaleError' /\ HostClean'
  <2>1. \A i \in 1..(n + 1) : loops'[i].last # NULL => ~error[loops'[i].last]
    BY <1>1, <1>4, <1>5 DEF LoopInv, NoStaleError
  <2>2. loops' # <<>>
    BY <1>4
  <2> QED BY <1>0, <1>2, <1>3, <1>4, <2>1, <2>2 DEF LoopInv, NoStaleError, HostClean, TypeOK
<1>13. BacktraceTerminates'
  <2>1. UpNext(f) # f
    BY <1>2, <1>3 DEF UpNext
  <2>2. \A g \in Fiber : g # f => UpNext(g) = Up(g) /\ Up(g) # f
    BY <1>2, <1>3 DEF Up, UpNext
  <2> QED BY <2>1, <2>2, LinkOfNew DEF LoopInv
<1> QED BY <1>7, <1>8, <1>10, <1>11, <1>12, <1>13 DEF LoopInv

\* Fiber.run and Fiber.resume: the running fiber becomes the caller of one that
\* was in no loop, so nothing that leads to the running one leads on to it.
LEMMA SwitchKeeps ==
  ASSUME LinkInv, LinkInv', LoopInv, NEW f \in Fiber, RunFiber(f) \/ ResumeFiber(f)
  PROVE  LoopInv'
<1>0. TypeOK /\ NULL \notin Fiber
  BY FiberAssumption DEF LinkInv, FiberAssumption
<1>1. /\ SwitchTo(f) /\ InScript /\ f \in held /\ state[f] \in {"NEW", "YIELDED"}
      /\ kind[f] = "script" /\ native[f] = NULL /\ ~error[cur] /\ ~crashed
  BY DEF RunFiber, ResumeFiber, LoopInv, Natives, InScript
<1>2. /\ cur \in Fiber /\ state[cur] = "RUNNING" /\ loops # <<>> /\ f # cur
      /\ \A i \in DOMAIN loops : loops[i].last # cur
  BY <1>1, ScriptIsRunning
<1>3. /\ caller[f] = NULL
      /\ \A g \in Fiber : caller[g] # f
      /\ \A i \in DOMAIN loops : loops[i].last # f
      /\ Len(loops) \in Nat /\ DOMAIN loops = 1..Len(loops)
  BY <1>0, <1>1, Standing
<1>4. /\ \A i \in DOMAIN loops : \A G \in SUBSET Fiber : RootSet(i, G) => f \notin G
      /\ \A G \in SUBSET Fiber : GroundSet(G) => f \notin G
  BY <1>1, <1>2, <1>3, WaitingOutside
<1>5. /\ state'[f] = "RUNNING" /\ caller'[f] = cur /\ cur' = f
      /\ \A g \in Fiber : g # f => state'[g] = state[g] /\ caller'[g] = caller[g]
      /\ UNCHANGED <<kind, native, error, held, loops, verdict, crashed>>
  BY <1>0, <1>1 DEF SwitchTo, TypeOK
<1>6. Natives'
  BY <1>0, <1>1, <1>5 DEF LoopInv, Natives, TypeOK
<1>7. Entered'
  <2>1. \A i \in DOMAIN loops : loops[i].callee \in Fiber
    BY Standing
  <2> QED BY <1>5, <2>1 DEF LoopInv, Entered
<1>8. Rooted'
  <2> SUFFICES ASSUME NEW i \in DOMAIN loops
               PROVE  \E G \in SUBSET Fiber : RootSet(i, G)'
    BY <1>5 DEF Rooted
  <2>1. PICK G \in SUBSET Fiber : RootSet(i, G)
    BY <1>1 DEF LoopInv, Rooted
  <2>2. f \notin G
    BY <1>4, <2>1
  <2>3. CASE i = Len(loops)
    <3>1. Innermost(i) = cur /\ Innermost(i)' = f
      BY <1>5, <2>3 DEF Innermost
    <3>2. RootSet(i, G \cup {f})'
      BY <1>0, <1>2, <1>5, <2>1, <2>2, <3>1 DEF RootSet
    <3> QED BY <3>2
  <2>4. CASE i # Len(loops)
    <3>1. Innermost(i)' = Innermost(i)
      BY <1>5, <2>4 DEF Innermost
    <3>2. RootSet(i, G)'
      BY <1>5, <2>1, <2>2, <3>1 DEF RootSet
    <3> QED BY <3>2
  <2> QED BY <2>3, <2>4
<1>9. Grounded'
  <2>1. PICK G \in SUBSET Fiber : GroundSet(G)
    BY DEF LoopInv, Grounded
  <2>2. Base' = Base
    BY <1>2, <1>5 DEF Base
  <2>3. GroundSet(G)'
    BY <1>4, <1>5, <2>1, <2>2 DEF GroundSet
  <2> QED BY <2>3 DEF Grounded
<1>10. NoStaleError' /\ HostClean'
  BY <1>0, <1>1, <1>2, <1>5 DEF LoopInv, NoStaleError, HostClean, TypeOK
<1>11. BacktraceTerminates'
  <2> SUFFICES ASSUME NEW S \in SUBSET Fiber, \A g \in S : UpNext(g) \in S
               PROVE  S = {}
    BY DEF BacktraceTerminates, UpNext
  <2>1. \A g \in Fiber : g # f => UpNext(g) = Up(g)
    BY <1>5 DEF Up, UpNext
  <2>2. CASE f \notin S
    BY <2>1, <2>2 DEF LoopInv, BacktraceTerminates, Up
  <2>3. CASE f \in S
    <3>1. cur \in S
      BY <1>0, <1>2, <1>5, <2>3 DEF UpNext
    <3> DEFINE Within(g) == \/ \E G \in SUBSET Fiber : GroundSet(G) /\ g \in G
                            \/ \E i \in DOMAIN loops : \E G \in SUBSET Fiber : RootSet(i, G) /\ g \in G
               T == {g \in S : Within(g)}
    <3>2. Within(cur)
      <4>1. Len(loops) \in DOMAIN loops /\ Innermost(Len(loops)) = cur
        <5>1. loops \in Seq(Activation)
          BY <1>0 DEF TypeOK
        <5> QED BY <1>2, <5>1 DEF Innermost
      <4>2. PICK G \in SUBSET Fiber : RootSet(Len(loops), G)
        BY <1>1, <4>1 DEF LoopInv, Rooted
      <4> QED BY <4>1, <4>2 DEF RootSet
    <3>3. ASSUME NEW g \in S, NEW G \in SUBSET Fiber, GroundSet(G), g \in G
          PROVE  Within(Up(g))
      <4>1. g # f
        BY <1>4, <3>3
      <4>2. Up(g) \in S
        BY <2>1, <4>1
      <4> QED BY <1>0, <3>3, <4>2 DEF GroundSet, Up
    <3>4. ASSUME NEW g \in S, NEW i \in DOMAIN loops, NEW G \in SUBSET Fiber,
                 RootSet(i, G), g \in G
          PROVE  Within(Up(g))
      <4>1. g # f
        BY <1>4, <3>4
      <4>2. Up(g) \in S /\ Up(g) # NULL
        BY <1>0, <2>1, <4>1
      <4>3. CASE caller[g] # NULL
        BY <3>4, <4>3 DEF RootSet, Up
      <4>4. CASE caller[g] = NULL
        <5>1. g = loops[i].callee /\ Up(g) = native[g]
          BY <3>4, <4>4 DEF RootSet, Up
        <5>2. loops[i].by # "run"
          BY <4>2, <5>1 DEF LoopInv, Entered
        <5>3. Up(g) = loops[i].last
          BY <5>1, <5>2, Standing
        <5>4. CASE i = 1
          <6>1. PICK H \in SUBSET Fiber : GroundSet(H)
            BY DEF LoopInv, Grounded
          <6>2. Up(g) \in H
            BY <1>2, <4>2, <5>3, <5>4, <6>1 DEF GroundSet, Base
          <6> QED BY <6>1, <6>2
        <5>5. CASE i # 1
          <6>1. i - 1 \in DOMAIN loops /\ Innermost(i - 1) = loops[i].last
            BY <1>3, <5>5 DEF Innermost
          <6>2. PICK H \in SUBSET Fiber : RootSet(i - 1, H)
            BY <1>1, <6>1 DEF LoopInv, Rooted
          <6>3. Up(g) \in H
            BY <5>3, <6>1, <6>2 DEF RootSet
          <6> QED BY <6>1, <6>2, <6>3
        <5> QED BY <5>4, <5>5
      <4> QED BY <4>3, <4>4
    <3>5. ASSUME NEW g \in S, Within(g) PROVE Up(g) \in S /\ Within(Up(g))
      <4>1. g # f
        BY <1>4, <3>5
      <4>2. Within(Up(g))
        BY <3>3, <3>4, <3>5
      <4> QED BY <2>1, <4>1, <4>2
    <3> HIDE DEF Within
    <3>6. T \in SUBSET Fiber /\ cur \in T /\ \A g \in T : Up(g) \in T
      BY <3>1, <3>2, <3>5
    <3> QED BY <3>6 DEF LoopInv, BacktraceTerminates, Up
  <2> QED BY <2>2, <2>3
<1> QED BY <1>6, <1>7, <1>8, <1>9, <1>10, <1>11 DEF LoopInv

\* yield, and the return of a fiber that was run: control goes back to the
\* caller, and the fiber that yields or returns is in no loop any more.
LEMMA BackKeeps ==
  ASSUME LinkInv, LinkInv', LoopInv, YieldToCaller \/ ReturnToCaller
  PROVE  LoopInv'
<1>0. TypeOK /\ NULL \notin Fiber
  BY FiberAssumption DEF LinkInv, FiberAssumption
<1>1. InScript /\ ~error[cur] /\ caller[cur] # NULL /\ kind[cur] = "script" /\ ~crashed
  BY DEF YieldToCaller, ReturnToCaller, InScript
<1>2. /\ cur \in Fiber /\ state[cur] = "RUNNING" /\ loops # <<>>
      /\ \A g \in Fiber : caller[g] # cur
      /\ \A i \in DOMAIN loops : loops[i].last # cur
  BY <1>1, ScriptIsRunning
<1>3. /\ state'[cur] \in {"YIELDED", "DONE"} /\ caller'[cur] = NULL /\ cur' = caller[cur]
      /\ \A g \in Fiber : g # cur => state'[g] = state[g] /\ caller'[g] = caller[g]
      /\ UNCHANGED <<kind, native, error, held, loops, verdict, crashed>>
  BY <1>0, <1>2 DEF YieldToCaller, ReturnToCaller, TypeOK
<1>4. caller[cur] \in Fiber /\ caller[cur] # cur
  BY <1>1, <1>2, Standing
<1>5. native[cur] = NULL
  BY <1>1, <1>2 DEF LoopInv, Natives
<1>6. Natives'
  BY <1>0, <1>1, <1>2, <1>3 DEF LoopInv, Natives, TypeOK
<1>7. Entered'
  <2>1. \A i \in DOMAIN loops : loops[i].callee \in Fiber
    BY Standing
  <2> QED BY <1>3, <2>1 DEF LoopInv, Entered
<1>8. Rooted'
  <2> SUFFICES ASSUME NEW i \in DOMAIN loops
               PROVE  \E G \in SUBSET Fiber : RootSet(i, G)'
    BY <1>3 DEF Rooted
  <2>1. PICK G \in SUBSET Fiber : RootSet(i, G)
    BY <1>1 DEF LoopInv, Rooted
  <2>2. Innermost(i)' \in G \ {cur}
    <3>1. CASE i = Len(loops)
      BY <1>1, <1>3, <1>4, <2>1, <3>1 DEF RootSet, Innermost
    <3>2. CASE i # Len(loops)
      <4>1. Innermost(i)' = Innermost(i)
        BY <1>3, <3>2 DEF Innermost
      <4>2. Innermost(i) # cur
        BY <1>2, <3>2, InnermostIs
      <4> QED BY <2>1, <4>1, <4>2 DEF RootSet
    <3> QED BY <3>1, <3>2
  <2>3. ASSUME NEW g \in G \ {cur}
        PROVE  /\ g = Innermost(i)' \/ state'[g] = "RUNNING"
               /\ IF caller'[g] = NULL THEN g = loops'[i].callee ELSE caller'[g] \in G \ {cur}
    <3>1. state'[g] = state[g] /\ caller'[g] = caller[g] /\ caller[g] # cur
      BY <1>2, <1>3
    <3>2. g = Innermost(i) => g = Innermost(i)'
      <4>1. CASE i = Len(loops)
        BY <4>1 DEF Innermost
      <4>2. CASE i # Len(loops)
        BY <1>3, <4>2 DEF Innermost
      <4> QED BY <4>1, <4>2
    <3> QED BY <1>3, <2>1, <3>1, <3>2 DEF RootSet
  <2>4. PICK H \in SUBSET Fiber : H = G \ {cur}
    OBVIOUS
  <2>5. RootSet(i, H)'
    BY <2>2, <2>3, <2>4 DEF RootSet
  <2> QED BY <2>5
<1>9. Grounded'
  <2>1. PICK G \in SUBSET Fiber : GroundSet(G)
    BY DEF LoopInv, Grounded
  <2>2. Base' = Base /\ Base # cur
    <3>1. 1 \in DOMAIN loops
      <4>1. loops \in Seq(Activation)
        BY <1>0 DEF TypeOK
      <4> QED BY <1>2, <4>1
    <3> QED BY <1>2, <1>3, <3>1 DEF Base
  <2>3. PICK H \in SUBSET Fiber : H = G \ {cur}
    OBVIOUS
  <2>4. GroundSet(H)'
    BY <1>2, <1>3, <2>1, <2>2, <2>3 DEF GroundSet
  <2> QED BY <2>4 DEF Grounded
<1>10. NoStaleError' /\ HostClean'
  BY <1>0, <1>1, <1>2, <1>3 DEF LoopInv, NoStaleError, HostClean, TypeOK
<1>11. BacktraceTerminates'
  <2>1. \A f \in Fiber : UpNext(f) \in {Up(f), NULL}
    BY <1>3, <1>5 DEF Up, UpNext
  <2> QED BY <2>1, LinksCut DEF LoopInv
<1> QED BY <1>6, <1>7, <1>8, <1>9, <1>10, <1>11 DEF LoopInv

\* The loops beneath one that is left work on what they did.
LEMMA LeaveFrames ==
  ASSUME LinkInv, LoopInv, NEW g \in Fiber, NEW left \in Fiber \cup {NULL},
         NEW err \in [Fiber -> BOOLEAN], Leaving(g, left, err)
  PROVE  /\ Len(loops) \in Nat \ {0} /\ Len(loops') = Len(loops) - 1
         /\ DOMAIN loops = 1..Len(loops) /\ DOMAIN loops' = 1..(Len(loops) - 1)
         /\ \A i \in 1..(Len(loops) - 1) :
              /\ loops'[i] = loops[i]
              /\ Innermost(i)' = Innermost(i) /\ Innermost(i) # g
<1>0. TypeOK /\ NULL \notin Fiber
  BY FiberAssumption DEF LinkInv, FiberAssumption
<1>1. PICK ok \in BOOLEAN : LeaveLoop(ok, left, err)
  BY DEF Leaving
<1> DEFINE n == Len(loops)
           top == loops[n]
<1>2. loops # <<>> /\ \A i \in DOMAIN loops : loops[i].last # g
  BY DEF Leaving
<1>3. /\ n \in Nat \ {0} /\ DOMAIN loops = 1..n /\ DOMAIN loops' = 1..(n - 1)
      /\ Len(loops') = n - 1
      /\ \A i \in 1..(n - 1) : loops'[i] = loops[i]
  BY <1>0, <1>1, <1>2, LeaveLoopEffect
<1>4. top.by = "run" => n = 1
  BY <1>3 DEF LoopInv, Entered
<1>5. cur' = IF top.by = "run" THEN left ELSE top.last
  BY <1>1 DEF LeaveLoop, Top
<1> HIDE DEF n, top
<1>6. ASSUME NEW i \in 1..(n - 1) PROVE Innermost(i)' = Innermost(i) /\ Innermost(i) # g
  <2>1. i # n /\ i + 1 \in 1..n /\ i + 1 \in DOMAIN loops
    BY <1>3
  <2>2. Innermost(i) = loops[i + 1].last /\ Innermost(i) # g
    BY <1>2, <2>1 DEF Innermost, n
  <2>3. CASE i = n - 1
    <3>1. n # 1 /\ top.by # "run" /\ i + 1 = n
      BY <1>3, <1>4, <2>3
    <3> QED BY <1>3, <1>5, <2>2, <2>3, <3>1 DEF Innermost, top
  <2>4. CASE i # n - 1
    <3>1. i + 1 \in 1..(n - 1)
      BY <1>3, <2>4
    <3> QED BY <1>3, <2>2, <2>4, <3>1 DEF Innermost
  <2> QED BY <2>3, <2>4
<1> QED BY <1>3, <1>6 DEF n

\* An error, a return, a yield out of a loop, a native that finishes: the one
\* fiber that changes leaves every loop beneath, and the loop itself is gone.
LEMMA LeaveKeeps ==
  ASSUME LinkInv, LinkInv', LoopInv, LeaveActions
  PROVE  LoopInv'
<1>0. TypeOK /\ NULL \notin Fiber
  BY FiberAssumption DEF LinkInv, FiberAssumption
<1>1. PICK g \in Fiber, left \in Fiber \cup {NULL}, err \in [Fiber -> BOOLEAN] :
        Leaving(g, left, err)
  BY LeaveActionsLeave DEF LoopInv
<1>2. PICK ok \in BOOLEAN : LeaveLoop(ok, left, err)
  BY <1>1 DEF Leaving
<1> DEFINE n == Len(loops)
           top == loops[n]
<1>3. /\ UNCHANGED <<kind, native, held, crashed>>
      /\ ~crashed /\ loops # <<>> /\ cur # NULL
      /\ \A f \in Fiber : f # g => state'[f] = state[f] /\ caller'[f] = caller[f]
      /\ caller'[g] \in {NULL, caller[g]}
      /\ state[g] # "FREE" /\ state'[g] # "FREE"
      /\ g \in held /\ state'[g] = "YIELDED" => kind[g] = "script"
      /\ \A f \in Fiber : caller[f] # g
      /\ \A i \in DOMAIN loops : loops[i].last # g
      /\ left \in {NULL, cur, caller[cur]}
      /\ left # NULL => /\ state[cur] = "RUNNING" /\ ~err[left]
                        /\ left # g \/ UNCHANGED <<state, caller>>
      /\ g \in held /\ state'[g] \in {"NEW", "YIELDED"} => ~err[g]
      /\ \A f \in Fiber : err[f] => error[f] \/ f = g \/ (f = top.last /\ n > 1)
  BY <1>1 DEF Leaving, Top
<1>4. /\ n \in Nat \ {0} /\ DOMAIN loops = 1..n /\ DOMAIN loops' = 1..(n - 1)
      /\ Len(loops') = n - 1
      /\ \A i \in 1..(n - 1) : loops'[i] = loops[i]
      /\ error' \in [Fiber -> BOOLEAN]
      /\ n - 1 \in Nat /\ n \in DOMAIN loops
      /\ loops' = <<>> <=> n = 1
  <2>1. /\ n \in Nat \ {0} /\ DOMAIN loops = 1..n /\ DOMAIN loops' = 1..(n - 1)
        /\ Len(loops') = n - 1 /\ loops' \in Seq(Activation)
        /\ \A i \in 1..(n - 1) : loops'[i] = loops[i]
        /\ error' \in [Fiber -> BOOLEAN]
    BY <1>0, <1>2, <1>3, LeaveLoopEffect
  <2>2. loops' = <<>> <=> Len(loops') = 0
    BY <2>1, EmptySeq
  <2> HIDE DEF n
  <2> QED BY <2>1, <2>2
<1>5. /\ cur' = IF top.by = "run" THEN left ELSE top.last
      /\ \A f \in Fiber : error'[f] => err[f]
  BY <1>0, <1>2 DEF LeaveLoop, Top
<1>6. /\ top.callee \in Fiber /\ top.last \in Fiber \cup {NULL}
      /\ top.by = "run" => n = 1 /\ native[top.callee] = NULL
      /\ top.last # NULL => /\ state[top.last] # "FREE" /\ top.last # g
                            /\ top.last \in held => state[top.last] = "RUNNING"
                            /\ \A f \in Fiber : caller[f] # top.last
                            /\ \A j \in DOMAIN loops : loops[j].last = top.last => j = n
                            /\ ~error[top.last]
  <2>1. top.by = "run" => n = 1 /\ native[top.callee] = NULL
    BY <1>4 DEF LoopInv, Entered
  <2>2. top.last # NULL => ~error[top.last]
    BY <1>4 DEF LoopInv, NoStaleError
  <2> HIDE DEF n
  <2> QED BY <1>3, <1>4, <2>1, <2>2, Standing
<1> HIDE DEF n, top
<1>7. \A f \in Fiber : error'[f] => error[f] \/ f = g \/ (f = top.last /\ n > 1)
  BY <1>3, <1>5
<1>8. \A i \in DOMAIN loops' : /\ i \in DOMAIN loops /\ loops'[i] = loops[i] /\ i # n
                               /\ loops[i].callee \in Fiber /\ loops[i].last \in Fiber \cup {NULL}
  BY <1>4, Standing
<1>9. Natives'
  <2>1. \A f \in Fiber : state'[f] = "FREE" => state[f] = "FREE" /\ f # g
    BY <1>3
  <2>2. \A f \in Fiber : state'[f] = "FREE" => ~error'[f]
    BY <1>0, <1>6, <1>7, <2>1 DEF LoopInv, Natives
  <2> QED BY <1>0, <1>3, <2>1, <2>2 DEF LoopInv, Natives, TypeOK
<1>10. Entered'
  BY <1>3, <1>8 DEF LoopInv, Entered
<1>11. \A i \in DOMAIN loops' : Innermost(i)' = Innermost(i) /\ Innermost(i) # g
  BY <1>1, LeaveFrames
<1>12. Rooted'
  <2> SUFFICES ASSUME NEW i \in DOMAIN loops'
               PROVE  \E G \in SUBSET Fiber : RootSet(i, G)'
    BY DEF Rooted
  <2>1. PICK G \in SUBSET Fiber : RootSet(i, G)
    BY <1>3, <1>8 DEF LoopInv, Rooted
  <2>2. PICK H \in SUBSET Fiber : H = G \ {g}
    OBVIOUS
  <2>3. RootSet(i, H)'
    BY <1>3, <1>8, <1>11, <2>1, <2>2 DEF RootSet
  <2> QED BY <2>3
<1>13. Grounded'
  <2>1. PICK G \in SUBSET Fiber : GroundSet(G)
    BY DEF LoopInv, Grounded
  <2>2. Base = loops[1].last /\ 1 \in DOMAIN loops
    BY <1>3, <1>4 DEF Base
  <2>3. PICK H \in SUBSET Fiber : H = G \ {g}
    OBVIOUS
  <2>4. CASE Base' = Base
    <3>1. Base # g
      BY <1>3, <2>2
    <3>2. GroundSet(H)'
      BY <1>3, <2>1, <2>3, <2>4, <3>1 DEF GroundSet
    <3> QED BY <3>2 DEF Grounded
  <2>5. CASE n # 1
    <3>1. 1 \in 1..(n - 1) /\ loops' # <<>>
      BY <1>4, <2>5
    <3>2. Base' = Base
      BY <1>4, <2>2, <3>1 DEF Base
    <3> QED BY <2>4, <3>2
  <2>6. CASE n = 1 /\ top.by # "run"
    <3>1. Base' = Base
      BY <1>4, <1>5, <2>2, <2>6 DEF Base, top
    <3> QED BY <2>4, <3>1
  <2>7. CASE n = 1 /\ top.by = "run"
    <3>1. Base' = left
      BY <1>4, <1>5, <2>7 DEF Base
    <3>2. CASE left = NULL
      <4>1. PICK K \in SUBSET Fiber : K = {}
        OBVIOUS
      <4>2. GroundSet(K)'
        BY <3>1, <3>2, <4>1 DEF GroundSet
      <4> QED BY <4>2 DEF Grounded
    <3>3. CASE left # NULL
      <4>1. 1 \in DOMAIN loops /\ Innermost(1) = cur /\ top = loops[1]
        BY <1>4, <2>2, <2>7 DEF Innermost, n, top
      <4>2. PICK K \in SUBSET Fiber : RootSet(1, K)
        BY <1>3, <4>1 DEF LoopInv, Rooted
      <4>3. left \in K
        BY <1>3, <3>3, <4>1, <4>2 DEF RootSet
      <4>4. \A f \in K : /\ state[f] = "RUNNING"
                         /\ IF caller[f] = NULL THEN native[f] = NULL ELSE caller[f] \in K
        BY <1>3, <1>6, <2>7, <3>3, <4>1, <4>2 DEF RootSet
      <4>5. CASE UNCHANGED <<state, caller>>
        <5>1. GroundSet(K)'
          BY <1>3, <3>1, <4>3, <4>4, <4>5 DEF GroundSet
        <5> QED BY <5>1 DEF Grounded
      <4>6. CASE left # g
        <5>1. PICK J \in SUBSET Fiber : J = K \ {g}
          OBVIOUS
        <5>2. GroundSet(J)'
          BY <1>3, <3>1, <4>3, <4>4, <4>6, <5>1 DEF GroundSet
        <5> QED BY <5>2 DEF Grounded
      <4> QED BY <1>3, <3>3, <4>5, <4>6
    <3> QED BY <3>2, <3>3
  <2> QED BY <2>5, <2>6, <2>7
<1>14. NoStaleError'
  <2>1. ASSUME NEW f \in held, state'[f] \in {"NEW", "YIELDED"} PROVE ~error'[f]
    <3>1. f \in Fiber
      BY <1>0 DEF TypeOK
    <3>2. CASE f = g
      BY <1>3, <1>5, <2>1, <3>1, <3>2
    <3>3. CASE f # g
      <4>1. state[f] \in {"NEW", "YIELDED"} /\ ~error[f]
        BY <1>3, <2>1, <3>1, <3>3 DEF LoopInv, NoStaleError
      <4>2. f # top.last
        BY <1>0, <1>6, <2>1, <3>1, <4>1
      <4> QED BY <1>7, <3>1, <3>3, <4>1, <4>2
    <3> QED BY <3>2, <3>3
  <2>2. ASSUME NEW f \in Fiber, caller'[f] # NULL PROVE ~error'[caller'[f]]
    <3>1. caller'[f] = caller[f] /\ caller[f] # NULL
      BY <1>3, <2>2
    <3>2. caller[f] \in Fiber /\ ~error[caller[f]] /\ caller[f] # g /\ caller[f] # top.last
      BY <1>0, <1>3, <1>6, <3>1 DEF LoopInv, NoStaleError, TypeOK
    <3> QED BY <1>7, <3>1, <3>2
  <2>3. ASSUME NEW i \in DOMAIN loops', loops'[i].last # NULL PROVE ~error'[loops'[i].last]
    <3>1. i \in DOMAIN loops /\ loops'[i] = loops[i] /\ loops[i].last \in Fiber
          /\ ~error[loops[i].last] /\ loops[i].last # g
      BY <1>3, <1>8, <2>3 DEF LoopInv, NoStaleError
    <3>2. loops[i].last # top.last
      BY <1>6, <1>8, <2>3, <3>1
    <3> QED BY <1>7, <3>1, <3>2
  <2> QED BY <1>3, <2>1, <2>2, <2>3 DEF NoStaleError
<1>15. HostClean'
  <2> SUFFICES ASSUME n = 1, cur' # NULL PROVE ~error'[cur']
    BY <1>4 DEF HostClean
  <2>1. CASE top.by = "run"
    <3>1. cur' = left /\ left \in Fiber /\ ~err[left]
      BY <1>3, <1>5, <2>1
    <3> QED BY <1>5, <3>1
  <2>2. CASE top.by # "run"
    <3>1. cur' = top.last /\ top.last \in Fiber /\ ~error[top.last] /\ top.last # g
      BY <1>5, <1>6, <2>2
    <3> QED BY <1>7, <3>1
  <2> QED BY <2>1, <2>2
<1>16. BacktraceTerminates'
  <2>1. \A f \in Fiber : UpNext(f) \in {Up(f), NULL}
    BY <1>3 DEF LoopInv, Natives, Up, UpNext
  <2> QED BY <2>1, LinksCut DEF LoopInv
<1> QED BY <1>9, <1>10, <1>12, <1>13, <1>14, <1>15, <1>16 DEF LoopInv

\* A collection keeps what the loops work on: the fiber a loop is innermost in
\* is marked, and then its chain of callers down to the one it was entered with.
LEMMA CollectKeeps ==
  ASSUME LinkInv, LinkInv', LoopInv, Collect
  PROVE  LoopInv'
<1>0. TypeOK /\ NULL \notin Fiber
  BY FiberAssumption DEF LinkInv, FiberAssumption
<1> DEFINE M == Marked
<1>1. /\ M \subseteq Fiber /\ held \subseteq M /\ (cur # NULL => cur \in M)
      /\ \A f \in M : caller[f] \in M \cup {NULL} /\ native[f] \in M \cup {NULL}
  <2>1. held \subseteq Roots /\ (cur # NULL => cur \in Roots)
    BY <1>0 DEF Roots, TypeOK
  <2> QED BY <1>0, <2>1, MarkedClosed
<1>2. /\ ~crashed
      /\ \A f \in M : /\ state'[f] = state[f] /\ kind'[f] = kind[f] /\ caller'[f] = caller[f]
                      /\ native'[f] = native[f] /\ error'[f] = error[f]
      /\ \A f \in Fiber \ M : /\ state'[f] = "FREE" /\ caller'[f] = NULL /\ native'[f] = NULL
                              /\ ~error'[f]
      /\ UNCHANGED <<held, cur, loops, crashed>>
  BY <1>0, <1>1 DEF Collect, TypeOK
<1>3. \A i \in DOMAIN loops :
        /\ loops[i].by # "run" => loops[i].callee \in M
        /\ loops[i].last \in M \cup {NULL}
  <2> SUFFICES ASSUME NEW i \in DOMAIN loops
               PROVE  /\ loops[i].by # "run" => loops[i].callee \in M
                      /\ loops[i].last \in M \cup {NULL}
    OBVIOUS
  <2>1. CASE loops[i].by = "run"
    BY <2>1, Standing
  <2>2. CASE loops[i].by # "run"
    <3>1. loops[i].callee \in Roots /\ native[loops[i].callee] = loops[i].last
      BY <1>0, <2>2, Standing DEF Roots
    <3> QED BY <1>0, <1>1, <2>2, <3>1, MarkedClosed
  <2> QED BY <2>1, <2>2
<1> HIDE DEF M
<1>4. \A i \in DOMAIN loops : Innermost(i) \in M \cup {NULL}
  BY <1>1, <1>3, InnermostIs
<1>5. \A i \in DOMAIN loops : Innermost(i)' = Innermost(i)
  BY <1>2 DEF Innermost
<1>6. Natives'
  BY <1>0, <1>1, <1>2 DEF LoopInv, Natives, TypeOK
<1>7. \A i \in DOMAIN loops : loops[i].callee \in M
  <2> SUFFICES ASSUME NEW i \in DOMAIN loops, loops[i].callee \notin M PROVE FALSE
    OBVIOUS
  <2>1. PICK G \in SUBSET Fiber : RootSet(i, G)
    BY <1>2 DEF LoopInv, Rooted
  <2>2. Innermost(i) \in G \cap M
    BY <1>0, <1>4, <2>1 DEF RootSet
  <2>3. \A f \in G \cap M : Up(f) \in G \cap M
    BY <1>0, <1>1, <2>1 DEF RootSet, Up
  <2>4. G \cap M = {}
    BY <2>3 DEF LoopInv, BacktraceTerminates, Up
  <2> QED BY <2>2, <2>4
<1>8. Entered'
  BY <1>2, <1>7 DEF LoopInv, Entered
<1>9. Rooted'
  <2> SUFFICES ASSUME NEW i \in DOMAIN loops
               PROVE  \E G \in SUBSET Fiber : RootSet(i, G)'
    BY <1>2 DEF Rooted
  <2>1. PICK G \in SUBSET Fiber : RootSet(i, G)
    BY <1>2 DEF LoopInv, Rooted
  <2>2. PICK H \in SUBSET Fiber : H = G \cap M
    OBVIOUS
  <2>3. RootSet(i, H)'
    BY <1>0, <1>1, <1>2, <1>4, <1>5, <2>1, <2>2 DEF RootSet
  <2> QED BY <2>3
<1>10. Grounded'
  <2>1. PICK G \in SUBSET Fiber : GroundSet(G)
    BY DEF LoopInv, Grounded
  <2>2. PICK H \in SUBSET Fiber : H = G \cap M
    OBVIOUS
  <2>3. Base' = Base /\ Base \in M \cup {NULL}
    <3>1. loops # <<>> => 1 \in DOMAIN loops
      <4>1. loops \in Seq(Activation)
        BY <1>0 DEF TypeOK
      <4> QED BY <4>1
    <3> QED BY <1>1, <1>2, <1>3, <3>1 DEF Base
  <2>4. GroundSet(H)'
    BY <1>0, <1>1, <1>2, <2>1, <2>2, <2>3 DEF GroundSet
  <2> QED BY <2>4 DEF Grounded
<1>11. NoStaleError' /\ HostClean'
  BY <1>0, <1>1, <1>2, <1>3 DEF LoopInv, NoStaleError, HostClean, TypeOK
<1>12. BacktraceTerminates'
  <2>1. \A f \in Fiber : UpNext(f) \in {Up(f), NULL}
    BY <1>2 DEF Up, UpNext
  <2> QED BY <2>1, LinksCut DEF LoopInv
<1> QED BY <1>6, <1>8, <1>9, <1>10, <1>11, <1>12 DEF LoopInv

\* The script drops a fiber, or nothing happens.
LEMMA DropKeeps ==
  ASSUME LinkInv, LoopInv, UNCHANGED <<state, kind, caller, native, error, cur, loops, crashed>>,
         held' \subseteq held
  PROVE  LoopInv'
<1>1. Natives' /\ NoStaleError' /\ HostClean'
  BY DEF LoopInv, Natives, NoStaleError, HostClean
<1>2. Entered'
  BY DEF LoopInv, Entered
<1>3. Rooted'
  BY DEF LoopInv, Rooted, RootSet, Innermost
<1>4. Grounded'
  BY DEF LoopInv, Grounded, GroundSet, Base
<1>5. BacktraceTerminates'
  BY DEF LoopInv, BacktraceTerminates
<1> QED BY <1>1, <1>2, <1>3, <1>4, <1>5 DEF LoopInv

LEMMA LoopInit == Init => LoopInv
<1> SUFFICES ASSUME Init PROVE LoopInv
  OBVIOUS
<1>1. DOMAIN loops = {}
  BY DEF Init
<1>2. Natives /\ Entered /\ Rooted /\ NoStaleError /\ HostClean
  BY <1>1 DEF Init, Natives, Entered, Rooted, NoStaleError, HostClean
<1>3. Grounded
  <2>1. GroundSet({})
    BY DEF Init, GroundSet, Base
  <2> QED BY <2>1 DEF Grounded
<1>4. BacktraceTerminates
  <2> SUFFICES ASSUME NEW S \in SUBSET Fiber, \A f \in S : NULL \in S PROVE S = {}
    BY DEF Init, BacktraceTerminates
  <2> QED BY FiberAssumption DEF FiberAssumption
<1> QED BY <1>2, <1>3, <1>4 DEF LoopInv

LEMMA LoopStep == LinkInv /\ LoopInv /\ [Next]_vars => LoopInv'
<1> SUFFICES ASSUME LinkInv, LoopInv, [Next]_vars PROVE LoopInv'
  OBVIOUS
<1>0. LinkInv'
  BY LinkStep
<1>1. ASSUME NEW f \in Fiber, HostRun(f) PROVE LoopInv'
  BY <1>0, <1>1, HostRunKeeps
<1>2. ASSUME NEW f \in Fiber, HostCall(f) PROVE LoopInv'
  BY <1>0, <1>2, EnterKeeps
<1>3. ASSUME NEW f \in Fiber, NEW k \in {"script", "native"},
             NEW by \in {"call", "pcall"}, CallBack(f, k, by)
      PROVE  LoopInv'
  BY <1>0, <1>3, EnterKeeps
<1>4. ASSUME NEW f \in Fiber,
             (\E k \in {"script", "native"} : NewFiber(f, k)) \/ PcallYield(f)
      PROVE  LoopInv'
  BY <1>0, <1>4, NewKeeps
<1>5. ASSUME NEW f \in Fiber, RunFiber(f) \/ ResumeFiber(f) PROVE LoopInv'
  BY <1>0, <1>5, SwitchKeeps
<1>6. ASSUME YieldToCaller \/ ReturnToCaller PROVE LoopInv'
  BY <1>0, <1>6, BackKeeps
<1>7. ASSUME LeaveActions PROVE LoopInv'
  BY <1>0, <1>7, LeaveKeeps
<1>8. ASSUME Collect PROVE LoopInv'
  BY <1>0, <1>8, CollectKeeps
<1>9. ASSUME NEW f \in Fiber, Drop(f) PROVE LoopInv'
  BY <1>9, DropKeeps DEF Drop
<1>10. CASE UNCHANGED vars
  BY <1>10, DropKeeps DEF vars
<1> QED
  BY <1>1, <1>2, <1>3, <1>4, <1>5, <1>6, <1>7, <1>8, <1>9, <1>10 DEF Next, LeaveActions

-----------------------------------------------------------------------------
(* Induction over the natural numbers, from their well-founded order *)

LEMMA LeastIn ==
  ASSUME NEW S \in SUBSET Nat, S # {}
  PROVE  \E i \in S : \A j \in S : i <= j
<1> DEFINE R == OpToRel(<, Nat)
<1>1. IsWellFoundedOn(R, Nat)
  BY NatLessThanWellFounded
<1>2. \A x, y \in Nat : <<x, y>> \in R <=> x < y
  BY DEF OpToRel
<1> HIDE DEF R
<1>3. PICK x \in S : \A y \in S : ~ (<<y, x>> \in R)
  BY <1>1, WFMin
<1>4. \A y \in S : ~ (y < x)
  BY <1>2, <1>3
<1>5. \A y \in S : x <= y
  BY <1>4
<1> QED BY <1>5

LEMMA NatInduct ==
  ASSUME NEW S, 0 \in S, \A n \in Nat : n \in S => n + 1 \in S
  PROVE  Nat \subseteq S
<1> DEFINE T == Nat \ S
<1>1. ASSUME T # {} PROVE FALSE
  <2>1. PICK i \in T : \A j \in T : i <= j
    BY <1>1, LeastIn
  <2>2. i \in Nat /\ i # 0 /\ i \notin S
    BY <2>1
  <2>3. i - 1 \in Nat /\ i - 1 \notin T /\ (i - 1) + 1 = i
    BY <2>1, <2>2
  <2> QED BY <2>2, <2>3
<1> QED BY <1>1

-----------------------------------------------------------------------------
(* The fibers of a loop, as a sequence *)

\* c lists the chain of callers of f, outermost first.
Chain(c, f) ==
  /\ c \in Seq(Fiber) /\ c # <<>>
  /\ c[Len(c)] = f
  /\ caller[c[1]] = NULL
  /\ \A i \in 1..(Len(c) - 1) : caller[c[i + 1]] = c[i]

\* Every fiber has exactly one, because no walk along the callers is endless.
LEMMA ChainExists ==
  ASSUME TypeOK, BacktraceTerminates, NEW f \in Fiber
  PROVE  \E c : Chain(c, f)
<1> DEFINE S == {g \in Fiber : ~ \E c : Chain(c, g)}
<1>1. ASSUME NEW g \in S PROVE caller[g] # NULL /\ caller[g] \in S
  <2>1. g \in Fiber
    OBVIOUS
  <2>2. CASE caller[g] = NULL
    <3>1. /\ <<g>> \in Seq(Fiber) /\ <<g>> # <<>> /\ Len(<<g>>) = 1 /\ <<g>>[1] = g
      BY <2>1
    <3>2. Chain(<<g>>, g)
      BY <2>2, <3>1 DEF Chain
    <3> QED BY <3>2
  <2>3. CASE caller[g] # NULL /\ caller[g] \notin S
    <3>1. PICK c : Chain(c, caller[g])
      BY <2>1, <2>3 DEF TypeOK
    <3> DEFINE d == Append(c, g)
    <3>2. c \in Seq(Fiber) /\ Len(c) \in Nat \ {0} /\ DOMAIN c = 1..Len(c)
      BY <3>1, EmptySeq, LenProperties DEF Chain
    <3>3. /\ d \in Seq(Fiber) /\ Len(d) = Len(c) + 1 /\ d[Len(c) + 1] = g
          /\ \A i \in 1..Len(c) : d[i] = c[i]
      BY <2>1, <3>2
    <3> HIDE DEF d
    <3>4. ASSUME NEW i \in 1..(Len(d) - 1) PROVE caller[d[i + 1]] = d[i]
      <4>1. i \in 1..Len(c)
        BY <3>2, <3>3
      <4>2. CASE i = Len(c)
        BY <3>1, <3>3, <4>1, <4>2 DEF Chain
      <4>3. CASE i # Len(c)
        <5>0. \A m \in Nat : \A j \in 1..m : j # m => j \in 1..(m - 1) /\ j + 1 \in 1..m
          OBVIOUS
        <5>1. i \in 1..(Len(c) - 1) /\ i + 1 \in 1..Len(c)
          BY <3>2, <4>1, <4>3, <5>0
        <5> QED BY <3>1, <3>3, <5>1 DEF Chain
      <4> QED BY <4>2, <4>3
    <3>5. d # <<>> /\ 1 \in 1..Len(c) /\ d[Len(d)] = g
      BY <3>2, <3>3
    <3>6. Chain(d, g)
      BY <3>1, <3>3, <3>4, <3>5 DEF Chain
    <3> QED BY <3>6
  <2> QED BY <2>2, <2>3
<1>2. \A g \in S : Up(g) \in S
  BY <1>1 DEF Up
<1>3. S = {}
  <2>1. S \in SUBSET Fiber
    OBVIOUS
  <2> HIDE DEF S
  <2> QED BY <1>2, <2>1 DEF BacktraceTerminates, Up
<1> QED BY <1>3

\* Without its last element a chain is the caller's.
LEMMA ChainFront ==
  ASSUME TypeOK, NEW f \in Fiber, NEW c, Chain(c, f)
  PROVE  /\ caller[f] = NULL => c = <<f>>
         /\ caller[f] # NULL =>
              /\ Chain(SubSeq(c, 1, Len(c) - 1), caller[f])
              /\ c = Append(SubSeq(c, 1, Len(c) - 1), f)
<1>1. /\ c \in Seq(Fiber) /\ c # <<>>
      /\ c[Len(c)] = f
      /\ caller[c[1]] = NULL
      /\ \A i \in 1..(Len(c) - 1) : caller[c[i + 1]] = c[i]
  BY DEF Chain
<1>2. Len(c) \in Nat \ {0} /\ \A i \in 1..Len(c) : c[i] \in Fiber
  BY <1>1, EmptySeq, LenProperties, ElementOfSeq
<1>3. CASE Len(c) = 1
  <2>1. c = <<f>>
    BY <1>1, <1>3
  <2> QED BY <1>1, <1>3, <2>1
<1>4. CASE Len(c) # 1
  <2> DEFINE n == Len(c) - 1
             d == SubSeq(c, 1, n)
  <2>1. n \in Nat \ {0} /\ n \in 1..(Len(c) - 1) /\ n + 1 = Len(c)
    BY <1>2, <1>4
  <2>2. caller[f] = c[n] /\ c[n] \in Fiber
    BY <1>1, <1>2, <2>1
  <2>3. /\ d \in Seq(Fiber) /\ Len(d) = n /\ \A i \in 1..n : d[i] = c[i]
    BY <1>1, Pop
  <2> HIDE DEF d
  <2>4. c = Append(d, f)
    <3>1. Append(d, f) \in Seq(Fiber) /\ Len(Append(d, f)) = n + 1
          /\ Append(d, f)[n + 1] = f /\ \A i \in 1..n : Append(d, f)[i] = d[i]
      BY <2>3, Push
    <3> HIDE DEF n
    <3>2. \A i \in 1..Len(c) : c[i] = Append(d, f)[i]
      BY <1>1, <2>1, <2>3, <3>1
    <3> QED BY <1>1, <2>1, <3>1, <3>2, SeqEqual
  <2>5. Chain(d, caller[f])
    <3> HIDE DEF n
    <3>1. \A i \in 1..(n - 1) : i \in 1..n /\ i + 1 \in 1..n /\ i \in 1..(Len(c) - 1)
      BY <2>1
    <3>2. d # <<>> /\ 1 \in 1..n /\ n \in 1..n
      BY <2>1, <2>3
    <3> QED BY <1>1, <2>1, <2>2, <2>3, <3>1, <3>2 DEF Chain
  <2> QED BY <2>2, <2>4, <2>5, FiberAssumption DEF d, FiberAssumption
<1> QED BY <1>3, <1>4

LEMMA ChainUnique ==
  ASSUME TypeOK, BacktraceTerminates, NEW f \in Fiber, NEW c, NEW d, Chain(c, f), Chain(d, f)
  PROVE  c = d
<1> DEFINE Two(g) == \E x, y : Chain(x, g) /\ Chain(y, g) /\ x # y
           S == {g \in Fiber : Two(g)}
<1>1. ASSUME NEW g \in S PROVE caller[g] # NULL /\ caller[g] \in S
  <2>1. g \in Fiber
    OBVIOUS
  <2>2. PICK x, y : Chain(x, g) /\ Chain(y, g) /\ x # y
    OBVIOUS
  <2>3. caller[g] # NULL
    BY <2>1, <2>2, ChainFront
  <2> DEFINE xs == SubSeq(x, 1, Len(x) - 1)
             ys == SubSeq(y, 1, Len(y) - 1)
  <2>4. /\ Chain(xs, caller[g]) /\ x = Append(xs, g)
        /\ Chain(ys, caller[g]) /\ y = Append(ys, g)
    BY <2>1, <2>2, <2>3, ChainFront
  <2> HIDE DEF xs, ys
  <2>5. Two(caller[g])
    BY <2>2, <2>4
  <2> QED BY <2>1, <2>3, <2>5 DEF TypeOK
<1>2. S = {}
  <2>1. \A g \in S : Up(g) \in S
    BY <1>1 DEF Up
  <2>2. S \in SUBSET Fiber
    OBVIOUS
  <2> HIDE DEF S
  <2> QED BY <2>1, <2>2 DEF BacktraceTerminates, Up
<1> QED BY <1>2

\* Segment is that chain.
LEMMA SegmentIsChain ==
  ASSUME TypeOK, BacktraceTerminates, NEW f \in Fiber
  PROVE  /\ Chain(Segment(f), f)
         /\ Segment(f) = IF caller[f] = NULL THEN <<f>> ELSE Append(Segment(caller[f]), f)
<1> DEFINE b == [g \in Fiber |-> CHOOSE c : Chain(c, g)]
           Rec(x) == x = [g \in Fiber |-> IF caller[g] = NULL THEN <<g>> ELSE Append(x[caller[g]], g)]
           beneath == CHOOSE x : Rec(x)
<1>1. \A g \in Fiber : Chain(b[g], g)
  BY ChainExists
<1>2. ASSUME NEW g \in Fiber
      PROVE  b[g] = IF caller[g] = NULL THEN <<g>> ELSE Append(b[caller[g]], g)
  <2>1. Chain(b[g], g)
    BY <1>1
  <2> HIDE DEF b
  <2>2. CASE caller[g] = NULL
    BY <2>1, <2>2, ChainFront
  <2>3. CASE caller[g] # NULL
    <3> DEFINE front == SubSeq(b[g], 1, Len(b[g]) - 1)
    <3>1. Chain(front, caller[g]) /\ b[g] = Append(front, g)
      BY <2>1, <2>3, ChainFront
    <3>2. caller[g] \in Fiber /\ Chain(b[caller[g]], caller[g])
      BY <1>1, <2>3 DEF TypeOK
    <3> HIDE DEF front
    <3>3. front = b[caller[g]]
      BY <3>1, <3>2, ChainUnique
    <3> QED BY <2>3, <3>1, <3>3
  <2> QED BY <2>2, <2>3
<1>3. Rec(b)
  <2>1. b = [g \in Fiber |-> b[g]]
    OBVIOUS
  <2> HIDE DEF b
  <2> QED BY <1>2, <2>1
<1>4. Rec(beneath)
  BY <1>3
<1>5. \A h : Segment(h) = beneath[h]
  BY DEF Segment
<1> HIDE DEF b, beneath
<1>6. \A g \in Fiber : beneath[g] = IF caller[g] = NULL THEN <<g>> ELSE Append(beneath[caller[g]], g)
  BY <1>4
<1> HIDE DEF Rec
<1> DEFINE S == {g \in Fiber : ~Chain(beneath[g], g)}
<1>7. ASSUME NEW g \in S PROVE caller[g] # NULL /\ caller[g] \in S
  <2>1. g \in Fiber
    OBVIOUS
  <2>2. PICK c : Chain(c, g)
    BY <2>1, ChainExists
  <2>3. caller[g] # NULL
    BY <1>6, <2>1, <2>2, ChainFront
  <2>4. caller[g] \in Fiber /\ beneath[g] = Append(beneath[caller[g]], g)
    BY <1>6, <2>1, <2>3 DEF TypeOK
  <2> DEFINE front == SubSeq(c, 1, Len(c) - 1)
  <2>5. Chain(front, caller[g]) /\ c = Append(front, g)
    BY <2>1, <2>2, <2>3, ChainFront
  <2> HIDE DEF front
  <2>6. ~Chain(beneath[caller[g]], caller[g])
    BY <2>2, <2>4, <2>5, ChainUnique
  <2> QED BY <2>3, <2>4, <2>6
<1>8. S = {}
  <2>1. \A g \in S : Up(g) \in S
    BY <1>7 DEF Up
  <2>2. S \in SUBSET Fiber
    OBVIOUS
  <2> HIDE DEF S
  <2> QED BY <2>1, <2>2 DEF BacktraceTerminates, Up
<1>9. Chain(beneath[f], f)
  BY <1>8
<1> QED BY <1>5, <1>6, <1>9 DEF TypeOK

\* The chain of a loop starts at the fiber the loop was entered with.
LEMMA SegmentBase ==
  ASSUME TypeOK, BacktraceTerminates, NEW i \in DOMAIN loops, NEW G \in SUBSET Fiber,
         RootSet(i, G)
  PROVE  \A f \in G : Segment(f)[1] = loops[i].callee
<1> DEFINE S == {f \in G : Segment(f)[1] # loops[i].callee}
<1>1. ASSUME NEW f \in S PROVE caller[f] # NULL /\ caller[f] \in S
  <2>1. f \in Fiber /\ f \in G
    OBVIOUS
  <2>2. Segment(f) = IF caller[f] = NULL THEN <<f>> ELSE Append(Segment(caller[f]), f)
    BY <2>1, SegmentIsChain
  <2>3. caller[f] # NULL
    <3>1. <<f>>[1] = f
      OBVIOUS
    <3> QED BY <2>1, <2>2, <3>1 DEF RootSet
  <2>4. caller[f] \in G
    BY <2>1, <2>3 DEF RootSet
  <2>5. Segment(caller[f]) \in Seq(Fiber) /\ Segment(caller[f]) # <<>>
    BY <2>4, SegmentIsChain DEF Chain
  <2>6. Append(Segment(caller[f]), f)[1] = Segment(caller[f])[1]
    <3>1. \A s \in Seq(Fiber) : s # <<>> => 1 \in 1..Len(s)
      BY Pop
    <3> QED BY <2>1, <2>5, <3>1, Push
  <2> QED BY <2>2, <2>3, <2>4, <2>6
<1>2. S = {}
  <2>1. \A f \in S : Up(f) \in S
    BY <1>1 DEF Up
  <2>2. S \in SUBSET Fiber
    OBVIOUS
  <2> HIDE DEF S
  <2> QED BY <2>1, <2>2 DEF BacktraceTerminates, Up
<1> QED BY <1>2

-----------------------------------------------------------------------------
(* The result *)

\* What the loops work on stays sound, for any number of fibers and any nesting
\* of run loops, callbacks and pcalls: every fiber something refers to is
\* alive, lang.backtrace() ends from any fiber, no error waits on a fiber that
\* can be entered or returned to, and each loop's chain of callers ends in the
\* fiber it was entered with.
THEOREM LoopsCorrect == Spec => []LoopsSound
<1>1. LinkInv /\ LoopInv => LoopsSound
  <2> SUFFICES ASSUME LinkInv, LoopInv PROVE LoopsSound
    OBVIOUS
  <2>0. TypeOK /\ NULL \notin Fiber
    BY FiberAssumption DEF LinkInv, FiberAssumption
  <2>1. NoDanglingFiber
    <3>1. cur # NULL => cur \in Fiber /\ state[cur] # "FREE"
      BY Standing
    <3>2. \A f \in Fiber : /\ caller[f] # NULL => caller[f] \in Fiber /\ state[caller[f]] # "FREE"
                           /\ native[f] # NULL => native[f] \in Fiber /\ state[native[f]] # "FREE"
      <4>1. \A f \in Fiber : caller[f] # NULL => caller[f] \in Fiber /\ state[caller[f]] # "FREE"
        BY Standing
      <4>2. \A f \in Fiber : native[f] # NULL => native[f] \in Fiber /\ state[native[f]] # "FREE"
        BY <2>0 DEF LoopInv, Natives, TypeOK
      <4> QED BY <4>1, <4>2
    <3>3. \A i \in DOMAIN loops :
            /\ loops[i].callee \in Fiber /\ state[loops[i].callee] # "FREE"
            /\ loops[i].last # NULL => loops[i].last \in Fiber /\ state[loops[i].last] # "FREE"
      BY Standing DEF LoopInv, Entered
    <3> QED BY <3>1, <3>2, <3>3 DEF NoDanglingFiber
  <2>2. LoopBaseIntact
    <3> SUFFICES ASSUME ~crashed, NEW i \in DOMAIN loops
                 PROVE  Innermost(i) # NULL /\ Segment(Innermost(i))[1] = loops[i].callee
      BY DEF LoopBaseIntact
    <3>1. PICK G \in SUBSET Fiber : RootSet(i, G)
      BY DEF LoopInv, Rooted
    <3>2. Innermost(i) \in G /\ Innermost(i) # NULL
      BY <2>0, <3>1 DEF RootSet
    <3> QED BY <2>0, <3>1, <3>2, SegmentBase DEF LoopInv
  <2> QED BY <2>0, <2>1, <2>2 DEF LoopInv, LoopsSound
<1> QED BY <1>1, LinkInit, LinkStep, LoopInit, LoopStep, PTL DEF Spec

-----------------------------------------------------------------------------
(* The stack of coroutines, loop by loop *)

\* The fibers of a chain, and the fibers of loop i.
Members(f) == ToSet(Segment(f))
Team(i) == Members(Innermost(i))

\* What a set of fibers keeps to itself.
CallerClosed(K) == \A f \in K : caller[f] # NULL => caller[f] \in K

\* A chain is its last fiber on top of the caller's chain.
LEMMA MembersAre ==
  ASSUME TypeOK, BacktraceTerminates, NEW f \in Fiber
  PROVE  /\ Members(f) \subseteq Fiber /\ f \in Members(f)
         /\ Members(f) = IF caller[f] = NULL THEN {f} ELSE Members(caller[f]) \cup {f}
         /\ Segment(f) \in Seq(Fiber) /\ Segment(f) # <<>>
<1>1. /\ Segment(f) \in Seq(Fiber) /\ Segment(f) # <<>>
      /\ Segment(f) = IF caller[f] = NULL THEN <<f>> ELSE Append(Segment(caller[f]), f)
  BY SegmentIsChain DEF Chain
<1>2. Members(f) \subseteq Fiber
  BY <1>1 DEF Members, ToSet
<1>3. CASE caller[f] = NULL
  <2>1. ToSet(<<f>>) = {f}
    BY DEF ToSet
  <2> QED BY <1>1, <1>2, <1>3, <2>1 DEF Members
<1>4. CASE caller[f] # NULL
  <2>1. caller[f] \in Fiber
    BY <1>4 DEF TypeOK
  <2>2. Segment(caller[f]) \in Seq(Fiber)
    BY <2>1, SegmentIsChain DEF Chain
  <2>3. \A s \in Seq(Fiber) : ToSet(Append(s, f)) = ToSet(s) \cup {f}
    <3> SUFFICES ASSUME NEW s \in Seq(Fiber) PROVE ToSet(Append(s, f)) = ToSet(s) \cup {f}
      OBVIOUS
    <3>1. /\ Len(s) \in Nat /\ DOMAIN s = 1..Len(s) /\ DOMAIN Append(s, f) = 1..(Len(s) + 1)
          /\ Append(s, f)[Len(s) + 1] = f
          /\ \A i \in 1..Len(s) : Append(s, f)[i] = s[i]
      BY Push
    <3>2. 1..(Len(s) + 1) = 1..Len(s) \cup {Len(s) + 1}
      BY <3>1
    <3> QED BY <3>1, <3>2 DEF ToSet
  <2> QED BY <1>1, <1>2, <1>4, <2>2, <2>3 DEF Members
<1> QED BY <1>1, <1>2, <1>3, <1>4

\* It stays in every set that holds its last fiber and its members' callers.
LEMMA MembersWithin ==
  ASSUME TypeOK, BacktraceTerminates, NEW K \in SUBSET Fiber, CallerClosed(K), NEW f \in K
  PROVE  Members(f) \subseteq K
<1> DEFINE S == {g \in K : ~ (Members(g) \subseteq K)}
<1>1. ASSUME NEW g \in S PROVE caller[g] # NULL /\ caller[g] \in S
  <2>1. g \in Fiber /\ g \in K /\ ~ (Members(g) \subseteq K)
    OBVIOUS
  <2>2. Members(g) = IF caller[g] = NULL THEN {g} ELSE Members(caller[g]) \cup {g}
    BY <2>1, MembersAre
  <2>3. caller[g] # NULL
    BY <2>1, <2>2
  <2> QED BY <2>1, <2>2, <2>3 DEF CallerClosed
<1>2. S = {}
  <2>1. \A g \in S : Up(g) \in S
    BY <1>1 DEF Up
  <2>2. S \in SUBSET Fiber
    OBVIOUS
  <2> HIDE DEF S
  <2> QED BY <2>1, <2>2 DEF BacktraceTerminates, Up
<1> QED BY <1>2

\* Every fiber of a chain but the last is called by another one of it.
LEMMA MembersCalled ==
  ASSUME TypeOK, BacktraceTerminates, NEW f \in Fiber
  PROVE  /\ \A y \in Members(f) : y = f \/ \E x \in Members(f) : caller[x] = y
         /\ CallerClosed(Members(f))
<1> DEFINE Called(g) == /\ \A y \in Members(g) : y = g \/ \E x \in Members(g) : caller[x] = y
                        /\ CallerClosed(Members(g))
           S == {g \in Fiber : ~Called(g)}
<1>1. ASSUME NEW g \in Fiber, caller[g] = NULL \/ Called(caller[g]) PROVE Called(g)
  <2>1. Members(g) = IF caller[g] = NULL THEN {g} ELSE Members(caller[g]) \cup {g}
    BY MembersAre
  <2>2. CASE caller[g] = NULL
    BY <2>1, <2>2 DEF CallerClosed
  <2>3. CASE caller[g] # NULL
    <3>1. caller[g] \in Fiber /\ caller[g] \in Members(caller[g])
      BY <2>3, MembersAre DEF TypeOK
    <3>2. \A y \in Members(caller[g]) : y = caller[g] \/ \E x \in Members(caller[g]) : caller[x] = y
      BY <1>1, <2>3
    <3>3. CallerClosed(Members(g))
      BY <1>1, <2>1, <2>3, <3>1 DEF CallerClosed
    <3>4. \A y \in Members(g) : y = g \/ \E x \in Members(g) : caller[x] = y
      BY <2>1, <2>3, <3>1, <3>2
    <3> QED BY <3>3, <3>4
  <2> QED BY <2>2, <2>3
<1> HIDE DEF Called
<1>2. S = {}
  <2>1. \A g \in S : Up(g) \in S
    BY <1>1 DEF Up, TypeOK
  <2>2. S \in SUBSET Fiber
    OBVIOUS
  <2> HIDE DEF S
  <2> QED BY <2>1, <2>2 DEF BacktraceTerminates, Up
<1>3. Called(f)
  BY <1>2
<1> QED BY <1>3 DEF Called

\* Two chains that share a fiber lie on one another.
LEMMA ChainsMeet ==
  ASSUME TypeOK, BacktraceTerminates, CallersDistinct, NEW f \in Fiber, NEW g \in Fiber,
         Members(f) \cap Members(g) # {}
  PROVE  f \in Members(g) \/ g \in Members(f)
<1> DEFINE Apart(h) == Members(h) \cap Members(g) # {} /\ h \notin Members(g) /\ g \notin Members(h)
           S == {h \in Fiber : Apart(h)}
<1>1. ASSUME NEW h \in S PROVE caller[h] # NULL /\ caller[h] \in S
  <2>1. h \in Fiber /\ Members(h) \cap Members(g) # {} /\ h \notin Members(g) /\ g \notin Members(h)
    OBVIOUS
  <2>2. Members(h) = IF caller[h] = NULL THEN {h} ELSE Members(caller[h]) \cup {h}
    BY <2>1, MembersAre
  <2>3. caller[h] # NULL /\ Members(caller[h]) \cap Members(g) # {}
    BY <2>1, <2>2
  <2>4. caller[h] \in Fiber /\ g \notin Members(caller[h])
    BY <2>1, <2>2, <2>3 DEF TypeOK
  <2>5. caller[h] \notin Members(g)
    <3> SUFFICES ASSUME caller[h] \in Members(g) PROVE FALSE
      OBVIOUS
    <3>1. caller[h] # g
      BY <2>4, MembersAre
    <3>2. PICK x \in Members(g) : caller[x] = caller[h]
      BY <3>1, MembersCalled
    <3>3. x \in Fiber
      BY MembersAre
    <3>4. x = h
      BY <2>1, <2>3, <3>2, <3>3 DEF CallersDistinct
    <3> QED BY <2>1, <3>4
  <2> QED BY <2>3, <2>4, <2>5
<1>2. S = {}
  <2>1. \A h \in S : Up(h) \in S
    BY <1>1 DEF Up
  <2>2. S \in SUBSET Fiber
    OBVIOUS
  <2> HIDE DEF S
  <2> QED BY <2>1, <2>2 DEF BacktraceTerminates, Up
<1> QED BY <1>2

\* The loops have no fiber in common, and no fiber is called from another loop.
Teams ==
  /\ \A i \in DOMAIN loops :
       /\ Innermost(i) \in Fiber /\ Innermost(i) \in Team(i) /\ Team(i) \subseteq Fiber
       /\ \A f \in Fiber : caller[f] # Innermost(i)
       /\ \A y \in Team(i) : y = Innermost(i) \/ \E x \in Team(i) : caller[x] = y
       /\ \A y \in Team(i) : y = Innermost(i) \/ state[y] = "RUNNING"
       /\ CallerClosed(Team(i))
  /\ \A i, j \in DOMAIN loops : i # j => Team(i) \cap Team(j) = {}

LEMMA TeamsAre == LinkInv /\ LoopInv /\ ~crashed => Teams
<1> SUFFICES ASSUME LinkInv, LoopInv, ~crashed PROVE Teams
  OBVIOUS
<1>0. TypeOK /\ BacktraceTerminates /\ CallersDistinct /\ NULL \notin Fiber
  BY FiberAssumption DEF LinkInv, LoopInv, FiberAssumption
<1>1. ASSUME NEW i \in DOMAIN loops
      PROVE  /\ Innermost(i) \in Fiber /\ Innermost(i) \in Team(i) /\ Team(i) \subseteq Fiber
             /\ \A f \in Fiber : caller[f] # Innermost(i)
             /\ \A y \in Team(i) : y = Innermost(i) \/ \E x \in Team(i) : caller[x] = y
             /\ \A y \in Team(i) : y = Innermost(i) \/ state[y] = "RUNNING"
             /\ CallerClosed(Team(i))
  <2>1. PICK G \in SUBSET Fiber : RootSet(i, G)
    BY DEF LoopInv, Rooted
  <2>2. Innermost(i) \in Fiber /\ Innermost(i) \in G /\ CallerClosed(G) /\ Innermost(i) # NULL
    BY <1>0, <2>1 DEF RootSet, CallerClosed
  <2>3. Members(Innermost(i)) \subseteq G
    BY <1>0, <2>2, MembersWithin
  <2>4. \A f \in Fiber : caller[f] # Innermost(i)
    <3>1. CASE Innermost(i) = cur
      BY <2>2, <3>1, Standing
    <3>2. CASE i + 1 \in DOMAIN loops /\ Innermost(i) = loops[i + 1].last
      <4>1. PICK k \in DOMAIN loops : Innermost(i) = loops[k].last
        BY <3>2
      <4>2. loops[k].last # NULL
        BY <2>2, <4>1
      <4>3. \A f \in Fiber : caller[f] # loops[k].last
        BY <4>2, Standing
      <4> QED BY <4>1, <4>3
    <3> QED BY <3>1, <3>2, InnermostIs
  <2> QED BY <1>0, <2>1, <2>2, <2>3, <2>4, MembersAre, MembersCalled DEF Team, RootSet
<1>2. ASSUME NEW i \in DOMAIN loops, NEW j \in DOMAIN loops, i # j,
             Team(i) \cap Team(j) # {}
      PROVE  FALSE
  <2>1. Innermost(i) \in Members(Innermost(j)) \/ Innermost(j) \in Members(Innermost(i))
    BY <1>0, <1>1, <1>2, ChainsMeet DEF Team
  <2>2. Innermost(i) = Innermost(j)
    BY <1>1, <2>1 DEF Team
  <2>3. CASE i = Len(loops) \/ j = Len(loops)
    BY <1>1, <1>2, <2>2, <2>3, InnermostIs, Standing, <1>0
  <2>4. CASE i # Len(loops) /\ j # Len(loops)
    <3>1. /\ i + 1 \in DOMAIN loops /\ j + 1 \in DOMAIN loops
          /\ loops[i + 1].last = loops[j + 1].last /\ loops[i + 1].last # NULL
      BY <1>0, <1>1, <2>2, <2>4, InnermostIs
    <3>2. i + 1 = j + 1
      BY <3>1, Standing
    <3>3. i \in Nat /\ j \in Nat
      BY Standing
    <3> QED BY <1>2, <3>2, <3>3
  <2> QED BY <2>3, <2>4
<1> QED BY <1>1, <1>2 DEF Teams

\* The stack of the lowest loops.
UptoIs(u) ==
  u = [i \in 0..Len(loops) |-> IF i = 0 THEN <<>> ELSE u[i - 1] \o Segment(Innermost(i))]

Upto == CHOOSE u : UptoIs(u)

Shape ==
  /\ Len(loops) \in Nat /\ DOMAIN loops = 1..Len(loops)
  /\ Upto[0] = <<>>
  /\ \A i \in 0..Len(loops) : Upto[i] \in Seq(Fiber)
  /\ \A i \in 1..Len(loops) : /\ Segment(Innermost(i)) \in Seq(Fiber) \ {<<>>}
                              /\ Upto[i] = Upto[i - 1] \o Segment(Innermost(i))
  /\ ActiveStack = Upto[Len(loops)]

LEMMA ShapeIs == LinkInv /\ LoopInv /\ ~crashed => Shape
<1> SUFFICES ASSUME LinkInv, LoopInv, ~crashed PROVE Shape
  OBVIOUS
<1> DEFINE N == Len(loops)
           Part(n, u) == u[0] = <<>> /\ \A i \in 1..n : u[i] = u[i - 1] \o Segment(Innermost(i))
           Some(n) == \E u \in [0..n -> Seq(Fiber)] : Part(n, u)
           P == {n \in Nat : n <= N => Some(n)}
<1>0. N \in Nat /\ DOMAIN loops = 1..N
  BY Standing
<1>1. \A i \in 1..N : Segment(Innermost(i)) \in Seq(Fiber) \ {<<>>}
  <2>1. \A i \in 1..N : Innermost(i) \in Fiber
    BY <1>0, TeamsAre DEF Teams
  <2> QED BY <2>1, MembersAre DEF LinkInv, LoopInv
<1> HIDE DEF N
<1>2. Some(0)
  <2>1. PICK u : u = [i \in 0..0 |-> <<>>]
    OBVIOUS
  <2>2. u \in [0..0 -> Seq(Fiber)] /\ Part(0, u)
    BY <2>1
  <2> QED BY <2>2
<1>3. ASSUME NEW n \in Nat, Some(n), n + 1 <= N PROVE Some(n + 1)
  <2>1. PICK u \in [0..n -> Seq(Fiber)] : Part(n, u)
    BY <1>0, <1>3
  <2>2. n + 1 \in 1..N /\ n \in 0..n
    BY <1>0, <1>3
  <2>3. PICK t \in Seq(Fiber) : t = u[n] \o Segment(Innermost(n + 1))
    <3>1. u[n] \in Seq(Fiber) /\ Segment(Innermost(n + 1)) \in Seq(Fiber)
      BY <1>1, <2>1, <2>2
    <3> QED BY <3>1, ConcatProperties
  <2>4. PICK v : v = [i \in 0..(n + 1) |-> IF i = n + 1 THEN t ELSE u[i]]
    OBVIOUS
  <2>5. v \in [0..(n + 1) -> Seq(Fiber)]
    BY <2>1, <2>4
  <2>6. ASSUME NEW i \in 1..(n + 1) PROVE v[i] = v[i - 1] \o Segment(Innermost(i))
    <3>1. CASE i = n + 1
      <4>1. v[i] = t /\ i - 1 = n /\ v[i - 1] = u[n]
        BY <2>4, <3>1
      <4> QED BY <2>3, <3>1, <4>1
    <3>2. CASE i # n + 1
      <4>1. i \in 1..n /\ v[i] = u[i] /\ v[i - 1] = u[i - 1]
        BY <2>4, <3>2
      <4> QED BY <2>1, <4>1
    <3> QED BY <3>1, <3>2
  <2>7. v[0] = <<>>
    BY <2>1, <2>4
  <2> QED BY <2>5, <2>6, <2>7
<1> HIDE DEF Some
<1>4. Some(N)
  <2>1. 0 \in P
    BY <1>2
  <2>2. \A n \in Nat : n \in P => n + 1 \in P
    BY <1>0, <1>3
  <2>3. Nat \subseteq P
    <3> HIDE DEF P
    <3> QED BY <2>1, <2>2, NatInduct
  <2> QED BY <1>0, <2>3
<1>5. PICK u \in [0..N -> Seq(Fiber)] : Part(N, u)
  BY <1>4 DEF Some
<1>6. UptoIs(u)
  <2>1. u = [i \in 0..N |-> u[i]]
    OBVIOUS
  <2>2. ASSUME NEW i \in 0..N
        PROVE  u[i] = IF i = 0 THEN <<>> ELSE u[i - 1] \o Segment(Innermost(i))
    <3>1. i # 0 => i \in 1..N
      BY <1>0
    <3> QED BY <1>5, <3>1
  <2>3. u = [i \in 0..N |-> IF i = 0 THEN <<>> ELSE u[i - 1] \o Segment(Innermost(i))]
    BY <2>1, <2>2
  <2> QED BY <2>3 DEF UptoIs, N
<1>7. UptoIs(Upto)
  BY <1>6 DEF Upto
<1> HIDE DEF P
<1>8. \A i \in 0..N : Upto[i] = IF i = 0 THEN <<>> ELSE Upto[i - 1] \o Segment(Innermost(i))
  <2>1. PICK w : w = Upto
    OBVIOUS
  <2>2. w = [i \in 0..N |-> IF i = 0 THEN <<>> ELSE w[i - 1] \o Segment(Innermost(i))]
    BY <1>7, <2>1 DEF UptoIs, N
  <2>3. \A i \in 0..N : w[i] = IF i = 0 THEN <<>> ELSE w[i - 1] \o Segment(Innermost(i))
    BY <2>2
  <2> QED BY <2>1, <2>3
<1>9. Upto[0] = <<>> /\ \A i \in 1..N : Upto[i] = Upto[i - 1] \o Segment(Innermost(i))
  <2>1. 0 \in 0..N /\ \A i \in 1..N : i \in 0..N /\ i # 0
    BY <1>0
  <2> QED BY <1>8, <2>1
<1> DEFINE Q == {n \in Nat : n <= N => Upto[n] \in Seq(Fiber)}
<1>10. 0 \in Q
  <2>1. Upto[0] \in Seq(Fiber)
    BY <1>9, EmptySeq
  <2> QED BY <2>1
<1>11. ASSUME NEW n \in Nat, n \in Q PROVE n + 1 \in Q
  <2> SUFFICES ASSUME n + 1 <= N PROVE Upto[n + 1] \in Seq(Fiber)
    OBVIOUS
  <2>1. n + 1 \in 1..N /\ (n + 1) - 1 = n /\ n <= N
    BY <1>0
  <2>2. Upto[n] \in Seq(Fiber) /\ Segment(Innermost(n + 1)) \in Seq(Fiber)
    BY <1>1, <1>11, <2>1
  <2>3. Upto[n + 1] = Upto[n] \o Segment(Innermost(n + 1))
    BY <1>9, <2>1
  <2> QED BY <2>2, <2>3, ConcatProperties
<1>12. \A i \in 0..N : Upto[i] \in Seq(Fiber)
  <2>1. Nat \subseteq Q
    <3> HIDE DEF Q
    <3> QED BY <1>10, <1>11, NatInduct
  <2> QED BY <1>0, <2>1
<1>13. ActiveStack = Upto[N]
  BY DEF ActiveStack, Upto, UptoIs, N
<1> QED BY <1>0, <1>1, <1>9, <1>12, <1>13 DEF Shape, N

\* The fibers on the stack of the lowest loops are those loops' teams.
LEMMA ConcatSet ==
  ASSUME NEW s \in Seq(Fiber), NEW t \in Seq(Fiber)
  PROVE  ToSet(s \o t) = ToSet(s) \cup ToSet(t)
<1>1. /\ s \o t \in Seq(Fiber) /\ Len(s) \in Nat /\ Len(t) \in Nat
      /\ DOMAIN s = 1..Len(s) /\ DOMAIN t = 1..Len(t)
      /\ DOMAIN (s \o t) = 1..(Len(s) + Len(t))
      /\ \A i \in 1..(Len(s) + Len(t)) :
           (s \o t)[i] = IF i <= Len(s) THEN s[i] ELSE t[i - Len(s)]
  BY ConcatProperties, LenProperties
<1>2. ASSUME NEW m \in Nat, NEW n \in Nat
      PROVE  /\ \A i \in 1..(m + n) : i <= m => i \in 1..m
             /\ \A i \in 1..(m + n) : ~ (i <= m) => i - m \in 1..n
             /\ \A i \in 1..m : i \in 1..(m + n) /\ i <= m
             /\ \A i \in 1..n : i + m \in 1..(m + n) /\ ~ (i + m <= m) /\ (i + m) - m = i
  OBVIOUS
<1> DEFINE m == Len(s)
           n == Len(t)
           u == s \o t
<1> HIDE DEF m, n, u
<1>3. /\ m \in Nat /\ n \in Nat
      /\ ToSet(s) = {s[i] : i \in 1..m} /\ ToSet(t) = {t[i] : i \in 1..n}
      /\ ToSet(u) = {u[i] : i \in 1..(m + n)}
      /\ \A i \in 1..(m + n) : u[i] = IF i <= m THEN s[i] ELSE t[i - m]
  BY <1>1 DEF ToSet, m, n, u
<1>4. \A i \in 1..m : u[i] = s[i] /\ i \in 1..(m + n)
  BY <1>2, <1>3
<1>5. \A i \in 1..n : u[i + m] = t[i] /\ i + m \in 1..(m + n)
  BY <1>2, <1>3
<1>6. \A i \in 1..(m + n) : u[i] \in ToSet(s) \cup ToSet(t)
  BY <1>2, <1>3
<1>7. ToSet(u) = ToSet(s) \cup ToSet(t)
  BY <1>3, <1>4, <1>5, <1>6
<1> QED BY <1>7 DEF u

\* Which fibers are on the stack of the lowest k loops.
OnUpto(k) == {f \in Fiber : \E j \in 1..k : f \in Team(j)}

LEMMA UptoSet == LinkInv /\ LoopInv /\ ~crashed => \A k \in 0..Len(loops) : ToSet(Upto[k]) = OnUpto(k)
<1> SUFFICES ASSUME LinkInv, LoopInv, ~crashed
             PROVE  \A k \in 0..Len(loops) : ToSet(Upto[k]) = OnUpto(k)
  OBVIOUS
<1>0. Shape /\ Teams
  BY ShapeIs, TeamsAre
<1> DEFINE N == Len(loops)
           P == {k \in Nat : k <= N => ToSet(Upto[k]) = OnUpto(k)}
<1>1. N \in Nat /\ DOMAIN loops = 1..N
  BY <1>0 DEF Shape
<1>2. 0 \in P
  <2>1. ToSet(<<>>) = {} /\ OnUpto(0) = {}
    BY DEF ToSet, OnUpto
  <2> QED BY <1>0, <2>1 DEF Shape
<1>3. ASSUME NEW k \in Nat, k \in P PROVE k + 1 \in P
  <2> SUFFICES ASSUME k + 1 <= N PROVE ToSet(Upto[k + 1]) = OnUpto(k + 1)
    OBVIOUS
  <2>1. k + 1 \in 1..N /\ (k + 1) - 1 = k /\ k <= N /\ k \in 0..N
    BY <1>1
  <2>2. /\ Upto[k] \in Seq(Fiber) /\ Segment(Innermost(k + 1)) \in Seq(Fiber)
        /\ Upto[k + 1] = Upto[k] \o Segment(Innermost(k + 1))
    BY <1>0, <2>1 DEF Shape
  <2>3. ToSet(Upto[k + 1]) = OnUpto(k) \cup Team(k + 1)
    BY <1>3, <2>1, <2>2, ConcatSet DEF Team, Members
  <2>4. 1..(k + 1) = 1..k \cup {k + 1}
    OBVIOUS
  <2>5. Team(k + 1) \subseteq Fiber
    BY <1>0, <1>1, <2>1 DEF Teams
  <2> QED BY <2>3, <2>4, <2>5 DEF OnUpto
<1>4. Nat \subseteq P
  <2> HIDE DEF P
  <2> QED BY <1>2, <1>3, NatInduct
<1> QED BY <1>1, <1>4

-----------------------------------------------------------------------------
(* What a step does to the stack *)

SegmentShape ==
  \A f \in Fiber : /\ Segment(f) \in Seq(Fiber)
                   /\ Segment(f) = IF caller[f] = NULL THEN <<f>> ELSE Append(Segment(caller[f]), f)

Good == LinkInv /\ LoopInv

\* What holds of the loops in a state holds in the next one too.
LEMMA ShapesNow == Good => /\ TypeOK /\ BacktraceTerminates /\ SegmentShape
                           /\ ~crashed => Shape /\ Teams /\ \A k \in 0..Len(loops) : ToSet(Upto[k]) = OnUpto(k)
<1>1. TypeOK /\ BacktraceTerminates => SegmentShape
  BY SegmentIsChain DEF SegmentShape, Chain
<1> QED BY <1>1, ShapeIs, TeamsAre, UptoSet DEF Good, LinkInv, LoopInv

LEMMA ShapesNext ==
  (Good => /\ TypeOK /\ BacktraceTerminates /\ SegmentShape
           /\ ~crashed => Shape /\ Teams /\ \A k \in 0..Len(loops) : ToSet(Upto[k]) = OnUpto(k))'
  BY ShapesNow, PTL

\* A chain whose members keep their callers is the same chain.
LEMMA SegmentSame ==
  ASSUME Good, Good', NEW K \in SUBSET Fiber, CallerClosed(K),
         \A f \in K : caller'[f] = caller[f]
  PROVE  \A f \in K : Segment(f)' = Segment(f)
<1>0. TypeOK /\ BacktraceTerminates /\ SegmentShape /\ SegmentShape'
  BY ShapesNow, ShapesNext
<1> DEFINE S == {g \in K : Segment(g)' # Segment(g)}
<1>1. ASSUME NEW g \in S PROVE caller[g] # NULL /\ caller[g] \in S
  <2>1. g \in Fiber /\ g \in K /\ Segment(g)' # Segment(g) /\ caller'[g] = caller[g]
    OBVIOUS
  <2>2. Segment(g) = IF caller[g] = NULL THEN <<g>> ELSE Append(Segment(caller[g]), g)
    BY <1>0, <2>1 DEF SegmentShape
  <2>3. PICK c : c = caller[g]
    OBVIOUS
  <2>4. Segment(g)' = IF c = NULL THEN <<g>> ELSE Append(Segment(c)', g)
    BY <1>0, <2>1, <2>3 DEF SegmentShape
  <2>5. c # NULL /\ Segment(c)' # Segment(c)
    BY <2>1, <2>2, <2>3, <2>4
  <2>6. c \in K
    BY <2>1, <2>3, <2>5 DEF CallerClosed
  <2> QED BY <2>3, <2>5, <2>6
<1>2. S = {}
  <2>1. \A g \in S : Up(g) \in S
    BY <1>1 DEF Up
  <2>2. S \in SUBSET Fiber
    OBVIOUS
  <2> HIDE DEF S
  <2> QED BY <1>0, <2>1, <2>2 DEF BacktraceTerminates, Up
<1> QED BY <1>2

\* A stack of loops whose chains are the same is the same stack.
LEMMA UptoSame ==
  ASSUME Shape, Shape', NEW m \in Nat, m <= Len(loops), m <= Len(loops'),
         \A i \in 1..m : Segment(Innermost(i))' = Segment(Innermost(i))
  PROVE  Upto[m]' = Upto[m]
<1> DEFINE P == {n \in Nat : n <= m => Upto[n]' = Upto[n]}
<1>0. Len(loops) \in Nat /\ Len(loops') \in Nat
  BY DEF Shape
<1>1. 0 \in P
  BY DEF Shape
<1>2. ASSUME NEW n \in Nat, n \in P PROVE n + 1 \in P
  <2> SUFFICES ASSUME n + 1 <= m PROVE Upto[n + 1]' = Upto[n + 1]
    OBVIOUS
  <2>1. n + 1 \in 1..m /\ n + 1 \in 1..Len(loops) /\ n + 1 \in 1..Len(loops') /\ (n + 1) - 1 = n /\ n <= m
    BY <1>0
  <2>2. Upto[n + 1] = Upto[n] \o Segment(Innermost(n + 1))
    BY <2>1 DEF Shape
  <2>3. Upto[n + 1]' = Upto[n]' \o Segment(Innermost(n + 1))'
    BY <2>1 DEF Shape
  <2> QED BY <1>2, <2>1, <2>2, <2>3
<1>3. Nat \subseteq P
  <2> HIDE DEF P
  <2> QED BY <1>1, <1>2, NatInduct
<1> QED BY <1>3

\* The loops whose teams keep their callers, in a stack that keeps those loops.
LEMMA StackKept ==
  ASSUME Good, Good', ~crashed, ~crashed', NEW m \in Nat, m <= Len(loops), m <= Len(loops'),
         \A i \in 1..m : Innermost(i)' = Innermost(i) /\ \A f \in Team(i) : caller'[f] = caller[f]
  PROVE  Upto[m]' = Upto[m]
<1>0. Shape /\ Shape' /\ Teams
  BY ShapesNow, ShapesNext
<1>1. ASSUME NEW i \in 1..m PROVE Segment(Innermost(i))' = Segment(Innermost(i))
  <2>1. i \in DOMAIN loops
    BY <1>0 DEF Shape
  <2>2. PICK h \in Fiber : h = Innermost(i) /\ h = Innermost(i)'
    BY <1>0, <2>1 DEF Teams
  <2>3. Team(i) \in SUBSET Fiber /\ CallerClosed(Team(i)) /\ h \in Team(i)
    BY <1>0, <2>1, <2>2 DEF Teams
  <2>4. PICK K \in SUBSET Fiber : K = Team(i)
    BY <2>3
  <2>5. Segment(h)' = Segment(h)
    BY <2>3, <2>4, SegmentSame
  <2>6. Segment(Innermost(i)) = Segment(h)
    BY <2>2
  <2>7. Segment(Innermost(i))' = Segment(h)'
    BY <2>2
  <2> QED BY <2>5, <2>6, <2>7
<1> QED BY <1>0, <1>1, UptoSame

\* What the status of a coroutine says of a fiber.
Ready(f) == f \in held /\ state[f] \in {"NEW", "YIELDED"}
ReadyNext(f) == f \in held' /\ state'[f] \in {"NEW", "YIELDED"}

StatusShape ==
  CoroutineStatus =
    [f \in Fiber |-> IF state[f] = "FREE" THEN "none"
                     ELSE IF Ready(f) \/ f \in ToSet(ActiveStack) THEN "open" ELSE "closed"]

LEMMA StatusNow == TypeOK /\ ~crashed => StatusShape
<1> SUFFICES ASSUME TypeOK, ~crashed PROVE StatusShape
  OBVIOUS
<1>1. \A f \in Fiber : f \in Enterable <=> Ready(f) \/ f \in ToSet(ActiveStack)
  BY DEF Enterable, Ready
<1> QED BY <1>1 DEF StatusShape, CoroutineStatus

LEMMA StatusNext == (TypeOK /\ ~crashed => StatusShape)'
  BY StatusNow, PTL

\* What does not change the status of a fiber off the stack.
Same(f) == (state'[f] = "FREE" <=> state[f] = "FREE") /\ (ReadyNext(f) <=> Ready(f))

\* A step that puts a fiber on the stack enters a coroutine.
LEMMA AbstractEnter ==
  ASSUME TypeOK, TypeOK', ~crashed, ~crashed', NEW f \in Fiber,
         ActiveStack \in Seq(Fiber), ActiveStack' = Append(ActiveStack, f),
         f \notin ToSet(ActiveStack), state[f] = "FREE" \/ Ready(f), state'[f] # "FREE",
         \A g \in Fiber : g # f => Same(g)
  PROVE  Abstract!Enter(f)
<1>0. StatusShape /\ StatusShape'
  BY StatusNow, StatusNext
<1>1. Abstract!OnStack = ToSet(ActiveStack)
  BY DEF Abstract!OnStack, ToSet
<1>2. ToSet(ActiveStack') = ToSet(ActiveStack) \cup {f}
  <2>1. PICK s \in Seq(Fiber) : s = ActiveStack
    OBVIOUS
  <2>2. /\ Len(s) \in Nat /\ DOMAIN s = 1..Len(s) /\ DOMAIN Append(s, f) = 1..(Len(s) + 1)
        /\ Append(s, f)[Len(s) + 1] = f
        /\ \A i \in 1..Len(s) : Append(s, f)[i] = s[i]
    BY Push
  <2>3. 1..(Len(s) + 1) = 1..Len(s) \cup {Len(s) + 1}
    BY <2>2
  <2>4. ToSet(Append(s, f)) = ToSet(s) \cup {f}
    BY <2>2, <2>3 DEF ToSet
  <2> QED BY <2>1, <2>4
<1>3. /\ CoroutineStatus[f] # "closed"
      /\ CoroutineStatus' = [g \in Fiber |-> IF g = f THEN "open" ELSE CoroutineStatus[g]]
  <2>1. CoroutineStatus' =
          [g \in Fiber |-> IF state'[g] = "FREE" THEN "none"
                     ELSE IF ReadyNext(g) \/ g \in ToSet(ActiveStack') THEN "open" ELSE "closed"]
    BY <1>0 DEF StatusShape, Ready, ReadyNext
  <2>2. CoroutineStatus =
          [g \in Fiber |-> IF state[g] = "FREE" THEN "none"
                     ELSE IF Ready(g) \/ g \in ToSet(ActiveStack) THEN "open" ELSE "closed"]
    BY <1>0 DEF StatusShape
  <2> HIDE DEF Ready, ReadyNext
  <2>3. ASSUME NEW g \in Fiber, g # f
        PROVE  /\ state'[g] = "FREE" <=> state[g] = "FREE"
               /\ ReadyNext(g) \/ g \in ToSet(ActiveStack') <=> Ready(g) \/ g \in ToSet(ActiveStack)
    BY <1>2, <2>3 DEF Same
  <2>4. f \in ToSet(ActiveStack')
    BY <1>2
  <2> QED BY <2>1, <2>2, <2>3, <2>4
<1>4. CoroutineStatus' = [CoroutineStatus EXCEPT ![f] = "open"]
  BY <1>0, <1>3 DEF StatusShape
<1> QED BY <1>1, <1>3, <1>4 DEF Abstract!Enter

\* Cutting off the end of a sequence.
LEMMA CutOff ==
  ASSUME NEW u \in Seq(Fiber), NEW t \in Seq(Fiber), t # <<>>
  PROVE  /\ Len(u) \in Nat /\ Len(u \o t) \in Nat /\ Len(u) < Len(u \o t)
         /\ SubSeq(u \o t, 1, Len(u)) = u
         /\ {(u \o t)[i] : i \in (Len(u) + 1)..Len(u \o t)} = ToSet(t)
         /\ Len(t) = 1 => Len(u \o t) - 1 = Len(u)
<1> DEFINE m == Len(u)
           n == Len(t)
           s == u \o t
<1>1. /\ m \in Nat /\ n \in Nat \ {0} /\ Len(s) = m + n /\ s \in Seq(Fiber)
      /\ \A i \in 1..(m + n) : s[i] = IF i <= m THEN u[i] ELSE t[i - m]
      /\ DOMAIN t = 1..n
  BY ConcatProperties, LenProperties, EmptySeq
<1>2. SubSeq(s, 1, m) = u
  <2>1. m \in 0..Len(s) /\ \A i \in 1..m : i \in 1..(m + n) /\ i <= m
    BY <1>1
  <2>2. /\ SubSeq(s, 1, m) \in Seq(Fiber) /\ Len(SubSeq(s, 1, m)) = m
        /\ \A i \in 1..m : SubSeq(s, 1, m)[i] = s[i]
    <3> HIDE DEF s, m
    <3> QED BY <1>1, <2>1
  <2>3. \A i \in 1..m : SubSeq(s, 1, m)[i] = u[i]
    BY <1>1, <2>1, <2>2
  <2> QED BY <2>2, <2>3, SeqEqual
<1> HIDE DEF m, n, s
<1>3. \A i \in (m + 1)..(m + n) : i \in 1..(m + n) /\ ~ (i <= m) /\ i - m \in 1..n
  BY <1>1
<1>4. \A i \in 1..n : i + m \in (m + 1)..(m + n) /\ (i + m) - m = i
  BY <1>1
<1>5. {s[i] : i \in (m + 1)..(m + n)} = ToSet(t)
  <2>1. ToSet(t) = {t[i] : i \in 1..n}
    BY <1>1 DEF ToSet
  <2>2. \A i \in (m + 1)..(m + n) : s[i] = t[i - m]
    BY <1>1, <1>3
  <2>3. \A i \in 1..n : s[i + m] = t[i]
    BY <1>4, <2>2
  <2> QED BY <1>3, <1>4, <2>1, <2>2, <2>3
<1> QED BY <1>1, <1>2, <1>5 DEF m, n, s

LEMMA Single ==
  ASSUME NEW f \in Fiber
  PROVE  <<f>> \in Seq(Fiber) /\ <<f>> # <<>> /\ Len(<<f>>) = 1 /\ ToSet(<<f>>) = {f}
<1>1. ToSet(<<f>>) = {f}
  BY DEF ToSet
<1>2. <<f>> \in Seq(Fiber) /\ <<f>> # <<>> /\ Len(<<f>>) = 1
  OBVIOUS
<1> QED BY <1>1, <1>2

\* A step that leaves a loop, or returns from a fiber, unwinds the stack; the
\* coroutines in E fail as they are entered.
LEMMA AbstractUnwind ==
  ASSUME TypeOK, TypeOK', ~crashed, ~crashed', NEW u \in Seq(Fiber), NEW t \in Seq(Fiber), t # <<>>,
         ActiveStack = u \o t, ActiveStack' = u, ToSet(u) \cap ToSet(t) = {},
         NEW E \in {{}} \cup {{c} : c \in Fiber}, E \cap ToSet(ActiveStack) = {},
         \A g \in E : Ready(g) /\ state[g] # "FREE" /\ ~ReadyNext(g) /\ state'[g] # "FREE",
         \A g \in ToSet(t) : state[g] # "FREE" /\ ~ReadyNext(g) /\ state'[g] # "FREE",
         \A g \in Fiber : g \notin E /\ g \notin ToSet(t) => Same(g)
  PROVE  Abstract!Next
<1>0. StatusShape /\ StatusShape'
  BY StatusNow, StatusNext
<1>1. Abstract!OnStack = ToSet(ActiveStack)
  BY DEF Abstract!OnStack, ToSet
<1> DEFINE n == Len(u)
           s == u \o t
<1>2. /\ n \in Nat /\ Len(s) \in Nat /\ n < Len(s) /\ SubSeq(s, 1, n) = u
      /\ {s[i] : i \in (n + 1)..Len(s)} = ToSet(t)
      /\ ToSet(s) = ToSet(u) \cup ToSet(t)
  BY CutOff, ConcatSet
<1>3. ActiveStack = s
  OBVIOUS
<1> HIDE DEF n, s
<1>4. CoroutineStatus' =
        [g \in Fiber |-> IF state'[g] = "FREE" THEN "none"
                   ELSE IF ReadyNext(g) \/ g \in ToSet(u) THEN "open" ELSE "closed"]
  BY <1>0 DEF StatusShape, Ready, ReadyNext
<1>5. CoroutineStatus =
        [g \in Fiber |-> IF state[g] = "FREE" THEN "none"
                   ELSE IF Ready(g) \/ g \in ToSet(s) THEN "open" ELSE "closed"]
  BY <1>0, <1>3 DEF StatusShape
<1>6. \A c \in E : CoroutineStatus[c] = "open"
  BY <1>5
<1>7. CoroutineStatus' =
        [c \in Fiber |-> IF c \in E \cup ToSet(t) THEN "closed" ELSE CoroutineStatus[c]]
  <2>1. ASSUME NEW g \in Fiber, g \notin E \cup ToSet(t)
        PROVE  /\ state'[g] = "FREE" <=> state[g] = "FREE"
               /\ ReadyNext(g) \/ g \in ToSet(u) <=> Ready(g) \/ g \in ToSet(s)
    BY <1>2, <2>1 DEF Same
  <2>2. ASSUME NEW g \in Fiber, g \in E \cup ToSet(t)
        PROVE  state'[g] # "FREE" /\ ~ReadyNext(g) /\ g \notin ToSet(u)
    BY <1>2, <1>3, <2>2
  <2> HIDE DEF Ready, ReadyNext
  <2> QED BY <1>4, <1>5, <2>1, <2>2
<1>8. Abstract!Unwind(n, E)
  BY <1>1, <1>2, <1>3, <1>6, <1>7 DEF Abstract!Unwind
<1>9. n \in 0..Len(ActiveStack)
  BY <1>2, <1>3
<1> QED BY <1>8, <1>9 DEF Abstract!Next

\* Giving up control while a script can still resume the fiber suspends it.
LEMMA AbstractSuspend ==
  ASSUME TypeOK, TypeOK', ~crashed, ~crashed', NEW u \in Seq(Fiber), NEW f \in Fiber,
         ActiveStack = u \o <<f>>, ActiveStack' = u,
         state[f] # "FREE", state'[f] # "FREE", ReadyNext(f),
         \A g \in Fiber : g # f => Same(g)
  PROVE  Abstract!Next
<1>0. StatusShape /\ StatusShape'
  BY StatusNow, StatusNext
<1>1. PICK t : t = <<f>> /\ t \in Seq(Fiber) /\ t # <<>> /\ Len(t) = 1 /\ ToSet(t) = {f}
  BY Single
<1> DEFINE s == u \o t
<1>2. /\ Len(u) \in Nat /\ Len(s) - 1 = Len(u) /\ Len(s) \in Nat /\ Len(u) < Len(s)
      /\ SubSeq(s, 1, Len(u)) = u
      /\ ToSet(s) = ToSet(u) \cup {f}
  <2>1. /\ Len(u) \in Nat /\ Len(s) - 1 = Len(u) /\ Len(s) \in Nat /\ Len(u) < Len(s)
        /\ SubSeq(s, 1, Len(u)) = u
    BY <1>1, CutOff
  <2>2. ToSet(s) = ToSet(u) \cup ToSet(t)
    BY <1>1, ConcatSet
  <2> QED BY <1>1, <2>1, <2>2
<1>3. ActiveStack = s
  BY <1>1
<1> HIDE DEF s
<1>4. s # <<>> /\ SubSeq(s, 1, Len(s) - 1) = u
  <2>1. s = <<>> => Len(s) = 0
    OBVIOUS
  <2> QED BY <1>2, <2>1
<1>5. CoroutineStatus' =
        [g \in Fiber |-> IF state'[g] = "FREE" THEN "none"
                   ELSE IF ReadyNext(g) \/ g \in ToSet(u) THEN "open" ELSE "closed"]
  BY <1>0 DEF StatusShape, Ready, ReadyNext
<1>6. CoroutineStatus =
        [g \in Fiber |-> IF state[g] = "FREE" THEN "none"
                   ELSE IF Ready(g) \/ g \in ToSet(s) THEN "open" ELSE "closed"]
  BY <1>0, <1>3 DEF StatusShape
<1>7. CoroutineStatus' = CoroutineStatus
  <2>1. ASSUME NEW g \in Fiber, g # f
        PROVE  /\ state'[g] = "FREE" <=> state[g] = "FREE"
               /\ ReadyNext(g) \/ g \in ToSet(u) <=> Ready(g) \/ g \in ToSet(s)
    BY <1>2, <2>1 DEF Same
  <2>2. f \in ToSet(s)
    BY <1>2
  <2> HIDE DEF Ready, ReadyNext
  <2> QED BY <1>5, <1>6, <2>1, <2>2
<1>8. Abstract!Suspend
  BY <1>3, <1>4, <1>7 DEF Abstract!Suspend
<1> QED BY <1>8 DEF Abstract!Next

\* Nothing on the stack changes: fibers come, go, or are lost.
LEMMA AbstractAside ==
  ASSUME TypeOK, TypeOK', ~crashed, ~crashed', ActiveStack \in Seq(Fiber),
         ActiveStack' = ActiveStack, NEW S \in SUBSET Fiber, S \cap ToSet(ActiveStack) = {},
         \A g \in ToSet(ActiveStack) : state[g] # "FREE" /\ state'[g] # "FREE",
         \A g \in Fiber : g \notin S /\ g \notin ToSet(ActiveStack) => Same(g),
         \/ \A g \in S : state'[g] = "FREE"
         \/ \E f \in S : S = {f} /\ state[f] = "FREE" /\ state'[f] # "FREE" /\ ReadyNext(f)
         \/ \E f \in S : S = {f} /\ state'[f] # "FREE" /\ ~ReadyNext(f)
  PROVE  Abstract!Next
<1>0. StatusShape /\ StatusShape'
  BY StatusNow, StatusNext
<1>1. Abstract!OnStack = ToSet(ActiveStack)
  BY DEF Abstract!OnStack, ToSet
<1> DEFINE s == ActiveStack
<1>2. CoroutineStatus' =
        [g \in Fiber |-> IF state'[g] = "FREE" THEN "none"
                   ELSE IF ReadyNext(g) \/ g \in ToSet(s) THEN "open" ELSE "closed"]
  BY <1>0 DEF StatusShape, Ready, ReadyNext
<1>3. CoroutineStatus =
        [g \in Fiber |-> IF state[g] = "FREE" THEN "none"
                   ELSE IF Ready(g) \/ g \in ToSet(s) THEN "open" ELSE "closed"]
  BY <1>0 DEF StatusShape
<1> HIDE DEF s
<1>4. ASSUME NEW g \in Fiber, g \notin S PROVE CoroutineStatus'[g] = CoroutineStatus[g]
  BY <1>2, <1>3, <1>4 DEF Same, s
<1>5. CASE \A g \in S : state'[g] = "FREE"
  <2>1. CoroutineStatus' = [c \in Fiber |-> IF c \in S THEN "none" ELSE CoroutineStatus[c]]
    <3>1. \A g \in S : CoroutineStatus'[g] = "none"
      BY <1>2, <1>5
    <3>2. CoroutineStatus' = [g \in Fiber |-> CoroutineStatus'[g]]
      BY <1>2
    <3> QED BY <1>4, <3>1, <3>2
  <2>2. Abstract!Forget(S)
    BY <1>1, <2>1 DEF Abstract!Forget
  <2> QED BY <2>2 DEF Abstract!Next
<1>6. ASSUME NEW f \in S, S = {f}, state[f] = "FREE", state'[f] # "FREE", ReadyNext(f)
      PROVE  Abstract!Next
  <2>1. CoroutineStatus[f] = "none" /\ CoroutineStatus'[f] = "open"
    BY <1>2, <1>3, <1>6
  <2>2. CoroutineStatus' = [CoroutineStatus EXCEPT ![f] = "open"]
    <3>1. /\ CoroutineStatus' = [g \in Fiber |-> CoroutineStatus'[g]]
          /\ CoroutineStatus = [g \in Fiber |-> CoroutineStatus[g]]
      BY <1>2, <1>3
    <3> QED BY <1>4, <1>6, <2>1, <3>1
  <2>3. Abstract!Create(f)
    BY <2>1, <2>2 DEF Abstract!Create
  <2> QED BY <2>3 DEF Abstract!Next
<1>7. ASSUME NEW f \in S, S = {f}, state'[f] # "FREE", ~ReadyNext(f)
      PROVE  Abstract!Next
  <2>1. CoroutineStatus'[f] = "closed"
    BY <1>2, <1>7 DEF s
  <2>2. CoroutineStatus' = [CoroutineStatus EXCEPT ![f] = "closed"]
    <3>1. /\ CoroutineStatus' = [g \in Fiber |-> CoroutineStatus'[g]]
          /\ CoroutineStatus = [g \in Fiber |-> CoroutineStatus[g]]
      BY <1>2, <1>3
    <3> QED BY <1>4, <1>7, <2>1, <3>1
  <2>3. Abstract!Abandon(f)
    BY <1>1, <1>7, <2>2 DEF Abstract!Abandon
  <2> QED BY <2>3 DEF Abstract!Next
<1> QED BY <1>5, <1>6, <1>7

-----------------------------------------------------------------------------
(* Each step is a step of the stack of coroutines *)

\* What is on the stack is alive and waits for no script.
LEMMA OnTheStack ==
  ASSUME Good, ~crashed
  PROVE  /\ ActiveStack \in Seq(Fiber)
         /\ ToSet(ActiveStack) = OnUpto(Len(loops))
         /\ \A g \in ToSet(ActiveStack) : g \in Fiber /\ state[g] # "FREE" /\ ~Ready(g)
<1>0. /\ LinkInv /\ Shape /\ Teams
      /\ \A k \in 0..Len(loops) : ToSet(Upto[k]) = OnUpto(k)
  BY ShapesNow DEF Good
<1>1. Len(loops) \in 0..Len(loops) /\ ActiveStack = Upto[Len(loops)]
  BY <1>0 DEF Shape
<1>2. ActiveStack \in Seq(Fiber) /\ ToSet(ActiveStack) = OnUpto(Len(loops))
  BY <1>0, <1>1 DEF Shape
<1>3. ASSUME NEW i \in DOMAIN loops
      PROVE  state[Innermost(i)] # "FREE" /\ ~Ready(Innermost(i))
  <2>1. Innermost(i) \in Fiber /\ Innermost(i) # NULL
    BY <1>0, FiberAssumption DEF Teams, FiberAssumption
  <2>2. CASE Innermost(i) = cur
    BY <1>0, <2>1, <2>2, Standing DEF Ready
  <2>3. CASE i + 1 \in DOMAIN loops /\ Innermost(i) = loops[i + 1].last
    <3>1. PICK k \in DOMAIN loops : Innermost(i) = loops[k].last
      BY <2>3
    <3>2. loops[k].last # NULL
      BY <2>1, <3>1
    <3>3. state[loops[k].last] # "FREE" /\ (loops[k].last \in held => state[loops[k].last] = "RUNNING")
      BY <1>0, <3>2, Standing
    <3> QED BY <3>1, <3>3 DEF Ready
  <2> QED BY <1>0, <2>2, <2>3, InnermostIs
<1>4. ASSUME NEW g \in OnUpto(Len(loops)) PROVE g \in Fiber /\ state[g] # "FREE" /\ ~Ready(g)
  <2>1. PICK i \in 1..Len(loops) : g \in Team(i)
    BY DEF OnUpto
  <2>2. i \in DOMAIN loops
    BY <1>0 DEF Shape
  <2>3. g = Innermost(i) \/ state[g] = "RUNNING"
    BY <1>0, <2>1, <2>2 DEF Teams
  <2> QED BY <1>3, <2>2, <2>3 DEF OnUpto, Ready
<1> QED BY <1>2, <1>4

\* RunString, RunFile, vmCallMethod and pcall put a fiber of their own on top.
LEMMA RefineEnter ==
  ASSUME Good, Good', NEW f \in Fiber,
         HostRun(f) \/ \E k \in {"script", "native"}, by \in {"call", "pcall"} : ~crashed /\ Enter(f, k, by)
  PROVE  Abstract!Next
<1>0. TypeOK /\ TypeOK' /\ LinkInv /\ LoopInv
  BY DEF Good, LinkInv
<1>1. Fresh(f) /\ ~crashed /\ ~crashed' /\ cur' = f /\ caller' = caller /\ held' = held
  BY DEF HostRun, AtHost, Enter
<1>2. f # cur /\ f \notin held /\ caller[f] = NULL
  BY <1>0, <1>1, FreshOutside
<1>3. state'[f] # "FREE" /\ \A g \in Fiber : g # f => state'[g] = state[g]
  BY <1>0 DEF HostRun, Enter, TypeOK
<1>4. PICK a \in Activation : loops' = Append(loops, a) /\ (a.last = cur \/ loops = <<>>)
  <2>1. CASE HostRun(f)
    <3>1. loops = <<>> /\ loops' = <<[callee |-> f, last |-> NULL, by |-> "run"]>>
      BY <2>1 DEF HostRun, AtHost
    <3>2. [callee |-> f, last |-> NULL, by |-> "run"] \in Activation
      BY DEF Activation, Entries
    <3> QED BY <3>1, <3>2
  <2>2. ASSUME NEW k \in {"script", "native"}, NEW by \in {"call", "pcall"}, Enter(f, k, by)
        PROVE  \E a \in Activation : loops' = Append(loops, a) /\ (a.last = cur \/ loops = <<>>)
    <3>1. [callee |-> f, last |-> cur, by |-> by] \in Activation
      BY <1>0 DEF Activation, Entries, TypeOK
    <3> QED BY <2>2, <3>1 DEF Enter
  <2> QED BY <2>1, <2>2
<1>5. Shape /\ Shape' /\ SegmentShape' /\ Teams
  BY <1>1, ShapesNow, ShapesNext
<1>6. PICK n \in Nat : n = Len(loops)
  BY <1>5 DEF Shape
<1>7. /\ Len(loops') = n + 1 /\ DOMAIN loops = 1..n /\ loops'[n + 1] = a
      /\ \A i \in 1..n : loops'[i] = loops[i]
  <2>1. loops \in Seq(Activation)
    BY <1>0 DEF TypeOK
  <2> QED BY <1>4, <1>6, <2>1, Push
<1>8. \A i \in 1..n : Innermost(i)' = Innermost(i)
  <2> SUFFICES ASSUME NEW i \in 1..n PROVE Innermost(i)' = Innermost(i)
    OBVIOUS
  <2>1. i # n + 1 /\ loops # <<>>
    <3>1. loops = <<>> => n = 0
      BY <1>6
    <3> QED BY <3>1
  <2>2. Innermost(i)' = loops'[i + 1].last
    BY <1>7, <2>1 DEF Innermost
  <2>3. CASE i = n
    BY <1>4, <1>6, <1>7, <2>1, <2>2, <2>3 DEF Innermost
  <2>4. CASE i # n
    <3>1. i + 1 \in 1..n
      BY <2>4
    <3> QED BY <1>6, <1>7, <2>2, <2>4, <3>1 DEF Innermost
  <2> QED BY <2>3, <2>4
<1>9. Upto[n]' = Upto[n]
  <2>1. n <= Len(loops) /\ n <= Len(loops')
    BY <1>6, <1>7
  <2> QED BY <1>1, <1>8, <2>1, StackKept
<1>10. Innermost(n + 1)' = f
  BY <1>1, <1>7 DEF Innermost
<1>11. Segment(f)' = <<f>>
  BY <1>1, <1>2, <1>5 DEF SegmentShape
<1>12. ActiveStack' = Append(ActiveStack, f)
  <2>1. ActiveStack = Upto[n] /\ Upto[n] \in Seq(Fiber)
    BY <1>5, <1>6 DEF Shape
  <2>2. n + 1 \in 1..Len(loops') /\ (n + 1) - 1 = n
    BY <1>7
  <2>3. ActiveStack' = Upto[n + 1]' /\ Upto[n + 1]' = Upto[n]' \o Segment(Innermost(n + 1))'
    BY <1>5, <1>7, <2>2 DEF Shape
  <2>4. Segment(Innermost(n + 1))' = Segment(f)'
    BY <1>10
  <2>5. Append(Upto[n], f) = Upto[n] \o <<f>>
    BY <2>1, AppendIsConcat
  <2> QED BY <1>9, <1>11, <2>1, <2>3, <2>4, <2>5
<1>13. ActiveStack \in Seq(Fiber) /\ f \notin ToSet(ActiveStack)
  BY <1>1, OnTheStack DEF Fresh
<1>14. \A g \in Fiber : g # f => Same(g)
  BY <1>1, <1>3 DEF Same, Ready, ReadyNext
<1>15. Abstract!Enter(f)
  BY <1>0, <1>1, <1>3, <1>12, <1>13, <1>14, AbstractEnter DEF Fresh
<1> QED BY <1>15 DEF Abstract!Next

\* The loops beneath the top one: nothing a step of the running fiber does to
\* its own caller, or to a fiber off the stack, reaches them.
LEMMA Beneath ==
  ASSUME Good, Good', ~crashed, ~crashed', NEW n \in Nat, n + 1 = Len(loops), n <= Len(loops'),
         \A i \in 1..n : Innermost(i)' = Innermost(i), NEW g \in Fiber,
         \A f \in Fiber : f # g => caller'[f] = caller[f],
         caller'[g] = caller[g] \/ g \notin OnUpto(n)
  PROVE  /\ Upto[n]' = Upto[n]
         /\ ActiveStack = Upto[n] \o Segment(Innermost(n + 1))
         /\ Upto[n] \in Seq(Fiber) /\ Segment(Innermost(n + 1)) \in Seq(Fiber) \ {<<>>}
         /\ ToSet(Upto[n]) = OnUpto(n)
         /\ ToSet(Segment(Innermost(n + 1))) = Team(n + 1)
         /\ Team(n + 1) \cap OnUpto(n) = {}
<1>0. /\ Shape /\ Teams
      /\ \A k \in 0..Len(loops) : ToSet(Upto[k]) = OnUpto(k)
  BY ShapesNow
<1>1. n + 1 \in 1..Len(loops) /\ n \in 0..Len(loops) /\ (n + 1) - 1 = n /\ n <= Len(loops)
      /\ DOMAIN loops = 1..(n + 1)
  BY <1>0 DEF Shape
<1>2. ASSUME NEW i \in 1..n, NEW f \in Team(i) PROVE caller'[f] = caller[f]
  <2>1. f \in Fiber
    BY <1>0, <1>1 DEF Teams
  <2>2. f \in OnUpto(n)
    BY <2>1 DEF OnUpto
  <2> QED BY <2>1, <2>2
<1>3. Upto[n]' = Upto[n]
  BY <1>1, <1>2, StackKept
<1>4. Team(n + 1) \cap OnUpto(n) = {}
  <2>1. \A j \in 1..n : j \in DOMAIN loops /\ n + 1 \in DOMAIN loops /\ j # n + 1
    BY <1>1
  <2> QED BY <1>0, <2>1 DEF Teams, OnUpto
<1> QED BY <1>0, <1>1, <1>3, <1>4 DEF Shape, Team, Members

LEMMA Join ==
  ASSUME NEW s \in Seq(Fiber), NEW t \in Seq(Fiber), NEW f \in Fiber
  PROVE  s \o Append(t, f) = (s \o t) \o <<f>>
<1>1. PICK w : w = <<f>> /\ w \in Seq(Fiber)
  BY Single
<1>2. Append(t, f) = t \o w
  BY <1>1, AppendIsConcat
<1>3. s \o (t \o w) = (s \o t) \o w
  BY <1>1, ConcatAssociative
<1> QED BY <1>1, <1>2, <1>3

\* Fiber.run and Fiber.resume enter the fiber on top of the running one.
LEMMA RefineSwitch ==
  ASSUME Good, Good', NEW f \in Fiber, RunFiber(f) \/ ResumeFiber(f)
  PROVE  Abstract!Next
<1>0. TypeOK /\ TypeOK' /\ LinkInv /\ LoopInv
  BY DEF Good, LinkInv
<1>1. SwitchTo(f) /\ InScript /\ Ready(f) /\ ~crashed /\ ~crashed'
  BY DEF RunFiber, ResumeFiber, InScript, SwitchTo, Ready
<1>2. loops # <<>> /\ cur \in Fiber
  BY <1>0, <1>1, ScriptIsRunning
<1>3. PICK c \in Fiber : c = cur
  BY <1>2
<1>4. Shape /\ Shape' /\ Teams /\ SegmentShape /\ SegmentShape'
  BY <1>1, ShapesNow, ShapesNext
<1>5. PICK n \in Nat : n + 1 = Len(loops)
  <2>1. Len(loops) \in Nat \ {0}
    BY <1>0, <1>2, LenProperties, EmptySeq DEF TypeOK
  <2>2. Len(loops) - 1 \in Nat /\ (Len(loops) - 1) + 1 = Len(loops)
    BY <2>1
  <2> QED BY <2>2
<1>6. /\ state'[f] = "RUNNING" /\ caller'[f] = c /\ cur' = f
      /\ \A g \in Fiber : g # f => state'[g] = state[g] /\ caller'[g] = caller[g]
      /\ UNCHANGED <<held, loops>>
  BY <1>0, <1>1, <1>3 DEF SwitchTo, TypeOK
<1>7. ActiveStack \in Seq(Fiber) /\ f \notin ToSet(ActiveStack) /\ f \notin OnUpto(n + 1)
  BY <1>1, <1>5, OnTheStack
<1>8. f \notin OnUpto(n) /\ f \notin Team(n + 1)
  <2>1. \A j \in 1..n : j \in 1..(n + 1)
    OBVIOUS
  <2>2. n + 1 \in 1..(n + 1)
    OBVIOUS
  <2> QED BY <1>7, <2>1, <2>2 DEF OnUpto
<1>9. \A i \in 1..n : Innermost(i)' = Innermost(i)
  <2>1. \A i \in 1..n : i # n + 1
    OBVIOUS
  <2> QED BY <1>5, <1>6, <2>1 DEF Innermost
<1>10. Innermost(n + 1) = c /\ Innermost(n + 1)' = f
  BY <1>3, <1>5, <1>6 DEF Innermost
<1>11. /\ Upto[n]' = Upto[n] /\ Upto[n] \in Seq(Fiber)
       /\ ActiveStack = Upto[n] \o Segment(c) /\ Segment(c) \in Seq(Fiber)
  <2>1. n <= Len(loops')
    BY <1>5, <1>6
  <2> QED BY <1>1, <1>5, <1>6, <1>8, <1>9, <1>10, <2>1, Beneath
<1>12. Segment(c)' = Segment(c)
  <2>1. n + 1 \in DOMAIN loops
    BY <1>4, <1>5 DEF Shape
  <2>2. PICK K \in SUBSET Fiber : K = Team(n + 1)
    BY <1>4, <2>1 DEF Teams
  <2>3. CallerClosed(K) /\ c \in K
    BY <1>4, <1>10, <2>1, <2>2 DEF Teams
  <2> QED BY <1>6, <1>8, <2>2, <2>3, SegmentSame
<1>13. Segment(f)' = Append(Segment(c), f)
  <2>1. c # NULL
    BY FiberAssumption DEF FiberAssumption
  <2>2. Segment(f)' = Append(Segment(c)', f)
    BY <1>4, <1>6, <2>1 DEF SegmentShape
  <2> QED BY <1>12, <2>2
<1>14. ActiveStack' = Append(ActiveStack, f)
  <2>1. n + 1 \in 1..Len(loops') /\ (n + 1) - 1 = n /\ n + 1 = Len(loops')
    BY <1>5, <1>6
  <2>2. ActiveStack' = Upto[n]' \o Segment(Innermost(n + 1))'
    BY <1>4, <2>1 DEF Shape
  <2>3. Segment(Innermost(n + 1))' = Segment(f)'
    BY <1>10
  <2>4. ActiveStack' = Upto[n] \o Append(Segment(c), f)
    BY <1>11, <1>13, <2>2, <2>3
  <2>5. PICK s, t : s = Upto[n] /\ t = Segment(c) /\ s \in Seq(Fiber) /\ t \in Seq(Fiber)
    BY <1>11
  <2>6. s \o Append(t, f) = (s \o t) \o <<f>>
    BY <2>5, Join
  <2>7. Append(ActiveStack, f) = ActiveStack \o <<f>>
    BY <1>7, AppendIsConcat
  <2> QED BY <1>11, <2>4, <2>5, <2>6, <2>7
<1>15. \A g \in Fiber : g # f => Same(g)
  BY <1>6 DEF Same, Ready, ReadyNext
<1>16. Abstract!Enter(f)
  BY <1>0, <1>1, <1>6, <1>7, <1>14, <1>15, AbstractEnter
<1> QED BY <1>16 DEF Abstract!Next

\* yield and the return of a fiber that was run take it off the top.
LEMMA RefineBack ==
  ASSUME Good, Good', YieldToCaller \/ ReturnToCaller
  PROVE  Abstract!Next
<1>0. TypeOK /\ TypeOK' /\ LinkInv /\ LoopInv
  BY DEF Good, LinkInv
<1>1. InScript /\ caller[cur] # NULL /\ ~crashed /\ ~crashed'
  BY DEF YieldToCaller, ReturnToCaller, InScript
<1>2. /\ loops # <<>> /\ cur \in Fiber /\ state[cur] = "RUNNING"
      /\ \A f \in Fiber : caller[f] # cur
      /\ \A i \in DOMAIN loops : loops[i].last # cur
  BY <1>0, <1>1, ScriptIsRunning
<1>3. PICK g \in Fiber, c \in Fiber : g = cur /\ c = caller[cur] /\ c # g
  BY <1>0, <1>1, <1>2 DEF TypeOK
<1>4. Shape /\ Shape' /\ Teams /\ SegmentShape /\ SegmentShape' /\ BacktraceTerminates
  BY <1>1, ShapesNow, ShapesNext
<1>5. PICK n \in Nat : n + 1 = Len(loops)
  <2>1. Len(loops) \in Nat \ {0}
    BY <1>0, <1>2, LenProperties, EmptySeq DEF TypeOK
  <2>2. Len(loops) - 1 \in Nat /\ (Len(loops) - 1) + 1 = Len(loops)
    BY <2>1
  <2> QED BY <2>2
<1>6. /\ state'[g] \in {"YIELDED", "DONE"} /\ caller'[g] = NULL /\ cur' = c
      /\ \A f \in Fiber : f # g => state'[f] = state[f] /\ caller'[f] = caller[f]
      /\ UNCHANGED <<held, loops>>
  BY <1>0, <1>1, <1>3 DEF YieldToCaller, ReturnToCaller, TypeOK
<1>7. n + 1 \in DOMAIN loops /\ Innermost(n + 1) = g /\ Innermost(n + 1)' = c
      /\ \A i \in 1..n : Innermost(i)' = Innermost(i)
  <2>1. \A i \in 1..n : i # n + 1
    OBVIOUS
  <2>2. n + 1 \in DOMAIN loops
    BY <1>4, <1>5 DEF Shape
  <2>3. \A i \in 1..n : Innermost(i)' = Innermost(i)
    BY <1>5, <1>6, <2>1 DEF Innermost
  <2>4. Innermost(n + 1) = g /\ Innermost(n + 1)' = c
    BY <1>3, <1>5, <1>6 DEF Innermost
  <2> QED BY <2>2, <2>3, <2>4
<1>8. g \in Team(n + 1)
  BY <1>4, <1>7 DEF Teams
<1>9. g \notin OnUpto(n)
  <2>1. \A j \in 1..n : j \in DOMAIN loops /\ j # n + 1
    BY <1>4, <1>5 DEF Shape
  <2> QED BY <1>4, <1>7, <1>8, <2>1 DEF Teams, OnUpto
<1>10. /\ Upto[n]' = Upto[n] /\ Upto[n] \in Seq(Fiber)
       /\ ActiveStack = Upto[n] \o Segment(g)
       /\ ToSet(Upto[n]) = OnUpto(n)
  <2>1. n <= Len(loops')
    BY <1>5, <1>6
  <2> QED BY <1>1, <1>5, <1>6, <1>7, <1>9, <2>1, Beneath
<1>11. PICK K \in SUBSET Fiber : K = Team(n + 1) \ {g}
  BY <1>4, <1>7 DEF Teams
<1>12. CallerClosed(K) /\ c \in K /\ c # NULL
  <2>1. CallerClosed(Team(n + 1))
    BY <1>4, <1>7 DEF Teams
  <2> QED BY <1>1, <1>2, <1>3, <1>8, <1>11, <2>1 DEF CallerClosed
<1>13. Segment(c)' = Segment(c) /\ Members(c) \subseteq K
  <2>1. \A f \in K : caller'[f] = caller[f]
    BY <1>6, <1>11
  <2> QED BY <1>0, <1>4, <1>12, <2>1, SegmentSame, MembersWithin
<1>14. Segment(g) = Append(Segment(c), g) /\ Segment(c) \in Seq(Fiber)
  BY <1>3, <1>4, <1>12 DEF SegmentShape
<1>15. PICK u \in Seq(Fiber) : u = Upto[n] \o Segment(c)
  BY <1>10, <1>14, ConcatProperties
<1>16. ActiveStack = u \o <<g>>
  <2>1. PICK s, t : s = Upto[n] /\ t = Segment(c) /\ s \in Seq(Fiber) /\ t \in Seq(Fiber)
    BY <1>10, <1>14
  <2>2. s \o Append(t, g) = (s \o t) \o <<g>>
    BY <2>1, Join
  <2> QED BY <1>10, <1>14, <1>15, <2>1, <2>2
<1>17. ActiveStack' = u
  <2>1. n + 1 \in 1..Len(loops') /\ (n + 1) - 1 = n /\ n + 1 = Len(loops')
    BY <1>5, <1>6
  <2>2. ActiveStack' = Upto[n]' \o Segment(Innermost(n + 1))'
    BY <1>4, <2>1 DEF Shape
  <2>3. Segment(Innermost(n + 1))' = Segment(c)'
    BY <1>7
  <2> QED BY <1>10, <1>13, <1>15, <2>2, <2>3
<1>18. \A f \in Fiber : f # g => Same(f)
  BY <1>6 DEF Same, Ready, ReadyNext
<1>19. state[g] # "FREE" /\ state'[g] # "FREE"
  BY <1>2, <1>3, <1>6
<1>20. CASE ReadyNext(g)
  BY <1>0, <1>1, <1>16, <1>17, <1>18, <1>19, <1>20, AbstractSuspend
<1>21. CASE ~ReadyNext(g)
  <2>1. PICK t : t = <<g>> /\ t \in Seq(Fiber) /\ t # <<>> /\ ToSet(t) = {g}
    BY Single
  <2>2. ToSet(u) \cap ToSet(t) = {}
    <3>1. ToSet(u) = OnUpto(n) \cup Members(c)
      BY <1>10, <1>14, <1>15, ConcatSet DEF Members
    <3> QED BY <1>9, <1>11, <1>13, <2>1, <3>1
  <2> QED BY <1>0, <1>1, <1>16, <1>17, <1>18, <1>19, <1>21, <2>1, <2>2, AbstractUnwind
<1> QED BY <1>20, <1>21


\* The top loop's chain t comes off the stack, the rest u stays.
Splits(u, t) ==
  /\ t # <<>> /\ ActiveStack = u \o t /\ ActiveStack' = u
  /\ ToSet(u) \cap ToSet(t) = {}
  /\ t = Segment(cur) /\ cur \in ToSet(t)
  /\ \A h \in ToSet(t) : h \in Fiber /\ state[h] # "FREE" /\ ~Ready(h)

\* What leaving a loop does to the loops, whichever way it is left.
LEMMA LeftLoops ==
  ASSUME Good, LeaveActions
  PROVE  /\ ~crashed /\ ~crashed' /\ held' = held /\ cur \in Fiber
         /\ \E n \in Nat : /\ n + 1 = Len(loops) /\ Len(loops') = n
                           /\ \A i \in 1..n : Innermost(i)' = Innermost(i)
<1>0. TypeOK /\ LinkInv /\ LoopInv /\ Natives /\ Entered /\ Rooted /\ NoStaleError
  BY DEF Good, LinkInv, LoopInv
<1>1. PICK g \in Fiber, left \in Fiber \cup {NULL}, err \in [Fiber -> BOOLEAN] : Leaving(g, left, err)
  BY <1>0, LeaveActionsLeave
<1>2. ~crashed /\ ~crashed' /\ held' = held /\ cur \in Fiber
  BY <1>0, <1>1 DEF Leaving, TypeOK
<1>3. /\ Len(loops) \in Nat \ {0} /\ Len(loops') = Len(loops) - 1
      /\ \A i \in 1..(Len(loops) - 1) : Innermost(i)' = Innermost(i)
  BY <1>0, <1>1, LeaveFrames
<1>4. Len(loops) - 1 \in Nat /\ (Len(loops) - 1) + 1 = Len(loops)
  BY <1>3
<1> QED BY <1>2, <1>3, <1>4

LEMMA LeftStack ==
  ASSUME Good, Good', LeaveActions, NEW g \in Fiber,
         \A f \in Fiber : f # g => caller'[f] = caller[f],
         caller'[g] = caller[g] \/ g = cur
  PROVE  \E u \in Seq(Fiber), t \in Seq(Fiber) : Splits(u, t)
<1>1. ~crashed /\ ~crashed' /\ cur \in Fiber
  BY LeftLoops
<1>2. PICK n \in Nat : /\ n + 1 = Len(loops) /\ Len(loops') = n
                       /\ \A i \in 1..n : Innermost(i)' = Innermost(i)
  BY LeftLoops
<1>3. Shape' /\ Teams /\ Shape
  BY <1>1, ShapesNow, ShapesNext
<1>4. n + 1 \in DOMAIN loops /\ Innermost(n + 1) = cur
  BY <1>2, <1>3 DEF Shape, Innermost
<1>5. cur \in Team(n + 1) /\ Team(n + 1) \subseteq Fiber
  BY <1>3, <1>4 DEF Teams
<1>6. cur \notin OnUpto(n)
  <2>1. \A j \in 1..n : j \in DOMAIN loops /\ j # n + 1
    BY <1>2, <1>3 DEF Shape
  <2> QED BY <1>3, <1>4, <1>5, <2>1 DEF Teams, OnUpto
<1>7. n <= Len(loops') /\ (caller'[g] = caller[g] \/ g \notin OnUpto(n))
  BY <1>2, <1>6
<1>8. /\ Upto[n]' = Upto[n]
      /\ ActiveStack = Upto[n] \o Segment(Innermost(n + 1))
      /\ Upto[n] \in Seq(Fiber) /\ Segment(Innermost(n + 1)) \in Seq(Fiber) \ {<<>>}
      /\ ToSet(Upto[n]) = OnUpto(n)
      /\ ToSet(Segment(Innermost(n + 1))) = Team(n + 1)
      /\ Team(n + 1) \cap OnUpto(n) = {}
  BY <1>1, <1>2, <1>7, Beneath
<1>9. ActiveStack' = Upto[n]'
  BY <1>2, <1>3 DEF Shape
<1>10. PICK u \in Seq(Fiber), t \in Seq(Fiber) : u = Upto[n] /\ t = Segment(cur)
  BY <1>4, <1>8
<1>11. /\ t # <<>> /\ ActiveStack = u \o t /\ ActiveStack' = u
       /\ ToSet(u) \cap ToSet(t) = {} /\ cur \in ToSet(t) /\ ToSet(t) \subseteq Fiber
  BY <1>4, <1>5, <1>8, <1>9, <1>10
<1>12. \A h \in ToSet(t) : state[h] # "FREE" /\ ~Ready(h)
  <2>1. ToSet(u \o t) = ToSet(u) \cup ToSet(t)
    BY ConcatSet
  <2> QED BY <1>1, <1>11, <2>1, OnTheStack
<1> QED BY <1>10, <1>11, <1>12 DEF Splits

\* Leaving a loop unwinds its chain, or suspends the fiber that yields.
LEMMA RefineLeave ==
  ASSUME Good, Good', LeaveActions
  PROVE  Abstract!Next
<1>0. /\ TypeOK /\ TypeOK' /\ LinkInv /\ SegmentShape
      /\ ~crashed /\ ~crashed' /\ held' = held /\ cur \in Fiber
  BY LeftLoops, ShapesNow DEF Good, LinkInv
<1>1. ASSUME NEW f \in Fiber, RunNativeFiber(f) PROVE Abstract!Next
  <2>1. /\ state'[f] = "DONE" /\ caller' = caller /\ Ready(f) /\ state[f] # "FREE"
        /\ \A g \in Fiber : g # f => state'[g] = state[g]
    BY <1>0, <1>1 DEF RunNativeFiber, TypeOK, Ready
  <2>2. PICK u \in Seq(Fiber), t \in Seq(Fiber) : Splits(u, t)
    BY <2>1, LeftStack
  <2>3. f \notin ToSet(ActiveStack)
    BY <1>0, <2>1, OnTheStack
  <2>4. PICK E \in {{}} \cup {{c} : c \in Fiber} : E = {f}
    OBVIOUS
  <2>5. E \cap ToSet(ActiveStack) = {}
    BY <2>3, <2>4
  <2>6. \A g \in E : Ready(g) /\ state[g] # "FREE" /\ ~ReadyNext(g) /\ state'[g] # "FREE"
    BY <2>1, <2>4 DEF ReadyNext
  <2>7. \A g \in ToSet(t) : state[g] # "FREE" /\ ~ReadyNext(g) /\ state'[g] # "FREE"
    BY <1>0, <2>1, <2>2 DEF Splits, Ready, ReadyNext
  <2>8. \A g \in Fiber : g \notin E /\ g \notin ToSet(t) => Same(g)
    BY <1>0, <2>1, <2>4 DEF Same, Ready, ReadyNext
  <2>9. t # <<>> /\ ActiveStack = u \o t /\ ActiveStack' = u /\ ToSet(u) \cap ToSet(t) = {}
    BY <2>2 DEF Splits
  <2> QED BY <1>0, <2>5, <2>6, <2>7, <2>8, <2>9, AbstractUnwind
<1>2. ASSUME \A g \in Fiber : g # cur => state'[g] = state[g] /\ caller'[g] = caller[g],
             state'[cur] # "FREE", ~ReadyNext(cur)
      PROVE  Abstract!Next
  <2>1. PICK g \in Fiber : g = cur
    BY <1>0
  <2>2. PICK u \in Seq(Fiber), t \in Seq(Fiber) : Splits(u, t)
    BY <1>2, <2>1, LeftStack
  <2>3. PICK E \in {{}} \cup {{c} : c \in Fiber} : E = {}
    OBVIOUS
  <2>4. \A h \in ToSet(t) : state[h] # "FREE" /\ ~ReadyNext(h) /\ state'[h] # "FREE"
    BY <1>0, <1>2, <2>2 DEF Splits, Ready, ReadyNext
  <2>5. \A h \in Fiber : h \notin E /\ h \notin ToSet(t) => Same(h)
    BY <1>0, <1>2, <2>2 DEF Splits, Same, Ready, ReadyNext
  <2>6. t # <<>> /\ ActiveStack = u \o t /\ ActiveStack' = u /\ ToSet(u) \cap ToSet(t) = {}
    BY <2>2 DEF Splits
  <2>7. /\ E \cap ToSet(ActiveStack) = {}
        /\ \A h \in E : Ready(h) /\ state[h] # "FREE" /\ ~ReadyNext(h) /\ state'[h] # "FREE"
    BY <2>3
  <2> QED BY <1>0, <2>4, <2>5, <2>6, <2>7, AbstractUnwind
<1>3. ASSUME Raise PROVE Abstract!Next
  <2>1. /\ \A g \in Fiber : g # cur => state'[g] = state[g] /\ caller'[g] = caller[g]
        /\ state'[cur] = "DONE"
    BY <1>0, <1>3 DEF Raise, FailCurrent, TypeOK
  <2> QED BY <1>2, <2>1 DEF ReadyNext
<1>4. ASSUME ReturnAtBase \/ NativeReturn \/ NativeError PROVE Abstract!Next
  <2>1. UNCHANGED <<state, caller>>
    BY <1>4 DEF ReturnAtBase, NativeReturn, NativeError
  <2>2. cur # NULL
    BY <1>0, FiberAssumption DEF FiberAssumption
  <2>3. state[cur] # "FREE" /\ (cur \in held => state[cur] = "RUNNING")
    BY <1>0, <2>2, Standing
  <2>4. state'[cur] # "FREE" /\ ~ReadyNext(cur)
    BY <1>0, <2>1, <2>3 DEF ReadyNext
  <2> QED BY <1>2, <2>1, <2>4
<1>5. ASSUME YieldAtBase PROVE Abstract!Next
  <2>1. PICK g \in Fiber : g = cur
    BY <1>0
  <2>2. /\ \A h \in Fiber : h # g => state'[h] = state[h] /\ caller'[h] = caller[h]
        /\ state'[g] = "YIELDED" /\ caller' = caller /\ caller[g] = NULL
    BY <1>0, <1>5, <2>1 DEF YieldAtBase, TypeOK
  <2>3. CASE ~ReadyNext(g)
    BY <1>2, <2>1, <2>2, <2>3 DEF ReadyNext
  <2>4. CASE ReadyNext(g)
    <3>1. PICK u \in Seq(Fiber), t \in Seq(Fiber) : Splits(u, t)
      BY <2>2, LeftStack
    <3>2. t = <<g>>
      BY <1>0, <2>1, <2>2, <3>1 DEF Splits, SegmentShape
    <3>3. ActiveStack = u \o <<g>> /\ ActiveStack' = u /\ state[g] # "FREE" /\ state'[g] # "FREE"
      BY <2>1, <2>2, <3>1, <3>2 DEF Splits
    <3>4. \A h \in Fiber : h # g => Same(h)
      BY <1>0, <2>2 DEF Same, Ready, ReadyNext
    <3> QED BY <1>0, <2>4, <3>3, <3>4, AbstractSuspend
  <2> QED BY <2>3, <2>4
<1> QED BY <1>1, <1>3, <1>4, <1>5 DEF LeaveActions


\* The stack when no loop changes and no fiber of a loop loses its caller.
LEMMA Undisturbed ==
  ASSUME Good, Good', ~crashed, ~crashed', UNCHANGED <<cur, loops>>,
         NEW M \in SUBSET Fiber, \A i \in DOMAIN loops : Team(i) \subseteq M,
         \A f \in M : caller'[f] = caller[f]
  PROVE  /\ ActiveStack \in Seq(Fiber) /\ ActiveStack' = ActiveStack
         /\ ToSet(ActiveStack) \subseteq M
         /\ \A g \in ToSet(ActiveStack) : g \in Fiber /\ state[g] # "FREE" /\ ~Ready(g)
<1>1. Shape /\ Shape'
  BY ShapesNow, ShapesNext
<1>2. PICK n \in Nat : n = Len(loops) /\ n = Len(loops')
  BY <1>1 DEF Shape
<1>3. /\ n <= Len(loops) /\ n <= Len(loops')
      /\ \A i \in 1..n : i \in DOMAIN loops
      /\ ActiveStack = Upto[n] /\ ActiveStack' = Upto[n]'
  BY <1>1, <1>2 DEF Shape
<1>4. \A i \in 1..n : Innermost(i)' = Innermost(i)
  BY DEF Innermost
<1>5. \A i \in 1..n : \A f \in Team(i) : caller'[f] = caller[f]
  BY <1>3
<1>6. Upto[n]' = Upto[n]
  BY <1>3, <1>4, <1>5, StackKept
<1>7. OnUpto(n) \subseteq M
  BY <1>3 DEF OnUpto
<1>8. ToSet(ActiveStack) = OnUpto(n)
  BY <1>2, OnTheStack
<1> QED BY <1>3, <1>6, <1>7, <1>8, OnTheStack

\* The collector takes fibers from off the stack only: the one a loop is
\* innermost in is marked, and with it its callers.
LEMMA RefineCollect ==
  ASSUME Good, Good', Collect
  PROVE  Abstract!Next
<1>0. TypeOK /\ TypeOK' /\ LinkInv /\ NULL \notin Fiber /\ BacktraceTerminates
  BY FiberAssumption, ShapesNow DEF Good, LinkInv, FiberAssumption
<1>1. PICK M \in SUBSET Fiber : M = Marked
  BY DEF Marked
<1>2. /\ held \subseteq M /\ (cur # NULL => cur \in M)
      /\ \A f \in M : caller[f] \in M \cup {NULL}
      /\ \A i \in DOMAIN loops : loops[i].last \in M \cup {NULL}
  <2>1. held \subseteq Roots /\ (cur # NULL => cur \in Roots)
    BY <1>0 DEF Roots, TypeOK
  <2>2. \A f \in M : caller[f] \in M \cup {NULL} /\ native[f] \in M \cup {NULL}
    BY <1>0, <1>1, MarkedClosed
  <2>3. \A i \in DOMAIN loops : loops[i].by # "run" => loops[i].callee \in Roots
    BY <1>0, Standing DEF Roots
  <2>4. Roots \subseteq M
    BY <1>0, <1>1, MarkedClosed
  <2> QED BY <1>0, <2>1, <2>2, <2>3, <2>4, Standing
<1>3. /\ ~crashed /\ ~crashed' /\ UNCHANGED <<held, cur, loops>>
      /\ \A f \in M : state'[f] = state[f] /\ caller'[f] = caller[f]
      /\ \A f \in Fiber \ M : state'[f] = "FREE"
  BY <1>0, <1>1 DEF Collect, TypeOK
<1>4. Teams
  BY <1>3, ShapesNow
<1>5. \A i \in DOMAIN loops : Innermost(i) \in M
  BY <1>0, <1>2, <1>4, InnermostIs DEF Teams
<1>6. CallerClosed(M)
  BY <1>2 DEF CallerClosed
<1>7. \A i \in DOMAIN loops : Team(i) \subseteq M
  <2> SUFFICES ASSUME NEW i \in DOMAIN loops PROVE Team(i) \subseteq M
    OBVIOUS
  <2>1. PICK h \in M : h = Innermost(i)
    BY <1>5
  <2>2. Members(h) \subseteq M
    BY <1>0, <1>6, <2>1, MembersWithin
  <2> QED BY <2>1, <2>2 DEF Team
<1>8. /\ ActiveStack \in Seq(Fiber) /\ ActiveStack' = ActiveStack
      /\ ToSet(ActiveStack) \subseteq M
      /\ \A g \in ToSet(ActiveStack) : g \in Fiber /\ state[g] # "FREE" /\ ~Ready(g)
  BY <1>3, <1>7, Undisturbed
<1>9. PICK S \in SUBSET Fiber : S = Fiber \ M
  OBVIOUS
<1>10. /\ S \cap ToSet(ActiveStack) = {}
       /\ \A g \in ToSet(ActiveStack) : state[g] # "FREE" /\ state'[g] # "FREE"
       /\ \A g \in S : state'[g] = "FREE"
  BY <1>3, <1>8, <1>9
<1>11. \A g \in Fiber : g \notin S /\ g \notin ToSet(ActiveStack) => Same(g)
  BY <1>3, <1>9 DEF Same, Ready, ReadyNext
<1> QED BY <1>0, <1>3, <1>8, <1>10, <1>11, AbstractAside

\* Fiber(fn) makes a coroutine; a script that lost its last reference to a
\* fiber that waits will never enter it.
LEMMA RefineNew ==
  ASSUME Good, Good', NEW f \in Fiber, Drop(f) \/ \E k \in {"script", "native"} : NewFiber(f, k)
  PROVE  Abstract!Next
<1>0. TypeOK /\ TypeOK' /\ LinkInv /\ LoopInv
  BY DEF Good, LinkInv
<1>1. ~crashed /\ ~crashed' /\ UNCHANGED <<cur, loops, caller>>
  BY DEF Drop, NewFiber, InScript
<1>2. \A i \in DOMAIN loops : Team(i) \subseteq Fiber
  BY <1>1, ShapesNow DEF Teams
<1>3. /\ ActiveStack \in Seq(Fiber) /\ ActiveStack' = ActiveStack
      /\ \A g \in ToSet(ActiveStack) : g \in Fiber /\ state[g] # "FREE" /\ ~Ready(g)
  <2>1. PICK M \in SUBSET Fiber : M = Fiber
    OBVIOUS
  <2>2. (\A i \in DOMAIN loops : Team(i) \subseteq M) /\ (\A g \in M : caller'[g] = caller[g])
    BY <1>1, <1>2, <2>1
  <2> QED BY <1>1, <2>2, Undisturbed
<1>4. ASSUME NEW k \in {"script", "native"}, NewFiber(f, k) PROVE Abstract!Next
  <2>1. /\ state[f] = "FREE" /\ state'[f] = "NEW" /\ held' = held \cup {f}
        /\ \A g \in Fiber : g # f => state'[g] = state[g]
    BY <1>0, <1>4 DEF NewFiber, Fresh, TypeOK
  <2>2. PICK S \in SUBSET Fiber : S = {f}
    OBVIOUS
  <2>3. S \cap ToSet(ActiveStack) = {}
    BY <1>3, <2>1, <2>2
  <2>4. \E h \in S : S = {h} /\ state[h] = "FREE" /\ state'[h] # "FREE" /\ ReadyNext(h)
    BY <2>1, <2>2 DEF ReadyNext
  <2>5. \A g \in ToSet(ActiveStack) : state[g] # "FREE" /\ state'[g] # "FREE"
    BY <1>3, <2>1
  <2>6. \A g \in Fiber : g \notin S /\ g \notin ToSet(ActiveStack) => Same(g)
    BY <2>1, <2>2 DEF Same, Ready, ReadyNext
  <2> QED BY <1>0, <1>1, <1>3, <2>3, <2>4, <2>5, <2>6, AbstractAside
<1>5. ASSUME Drop(f) PROVE Abstract!Next
  <2>1. state' = state /\ held' = held \ {f}
    BY <1>5 DEF Drop
  <2>2. PICK S \in SUBSET Fiber : S = IF Ready(f) THEN {f} ELSE {}
    OBVIOUS
  <2>3. S \cap ToSet(ActiveStack) = {}
    BY <1>3, <2>2
  <2>4. \A g \in ToSet(ActiveStack) : state[g] # "FREE" /\ state'[g] # "FREE"
    BY <1>3, <2>1
  <2>5. \A g \in Fiber : g \notin S /\ g \notin ToSet(ActiveStack) => Same(g)
    BY <2>1, <2>2 DEF Same, Ready, ReadyNext
  <2>6. \/ \A g \in S : state'[g] = "FREE"
        \/ \E h \in S : S = {h} /\ state'[h] # "FREE" /\ ~ReadyNext(h)
    BY <2>1, <2>2 DEF Ready, ReadyNext
  <2> QED BY <1>0, <1>1, <1>3, <2>3, <2>4, <2>5, <2>6, AbstractAside
<1> QED BY <1>4, <1>5

\* The crash ends every coroutine.
LEMMA RefineCrash ==
  ASSUME NEW f \in Fiber, PcallYield(f)
  PROVE  Abstract!Next
<1>1. crashed'
  BY DEF PcallYield
<1>2. ActiveStack' = <<>>
  BY <1>1 DEF ActiveStack
<1>3. CoroutineStatus' = [g \in Fiber |-> "closed"]
  BY <1>1 DEF CoroutineStatus
<1>4. Abstract!Halt
  BY <1>2, <1>3 DEF Abstract!Halt
<1> QED BY <1>4 DEF Abstract!Next

LEMMA RefineStep == Good /\ Good' /\ [Next]_vars => [Abstract!Next]_(Abstract!vars)
<1> SUFFICES ASSUME Good, Good', [Next]_vars PROVE [Abstract!Next]_(Abstract!vars)
  OBVIOUS
<1>1. ASSUME NEW f \in Fiber, HostRun(f) \/ HostCall(f) PROVE Abstract!Next
  BY <1>1, RefineEnter DEF HostCall, AtHost
<1>2. ASSUME NEW f \in Fiber, NEW k \in {"script", "native"},
             NEW by \in {"call", "pcall"}, CallBack(f, k, by)
      PROVE  Abstract!Next
  BY <1>2, RefineEnter DEF CallBack, InScript, InNative
<1>3. ASSUME NEW f \in Fiber, PcallYield(f) PROVE Abstract!Next
  BY <1>3, RefineCrash
<1>4. ASSUME NEW f \in Fiber, Drop(f) \/ \E k \in {"script", "native"} : NewFiber(f, k)
      PROVE  Abstract!Next
  BY <1>4, RefineNew
<1>5. ASSUME NEW f \in Fiber, RunFiber(f) \/ ResumeFiber(f) PROVE Abstract!Next
  BY <1>5, RefineSwitch
<1>6. ASSUME YieldToCaller \/ ReturnToCaller PROVE Abstract!Next
  BY <1>6, RefineBack
<1>7. ASSUME LeaveActions PROVE Abstract!Next
  BY <1>7, RefineLeave
<1>8. ASSUME Collect PROVE Abstract!Next
  BY <1>8, RefineCollect
<1>9. CASE UNCHANGED vars
  <2>1. UNCHANGED <<state, caller, held, cur, loops, crashed>>
    BY <1>9 DEF vars
  <2>2. UNCHANGED ActiveStack
    BY <2>1 DEF ActiveStack, Segment, Innermost
  <2>3. UNCHANGED Enterable
    BY <2>1, <2>2 DEF Enterable
  <2>4. UNCHANGED CoroutineStatus
    BY <2>1, <2>3 DEF CoroutineStatus
  <2> QED BY <2>2, <2>4 DEF Abstract!vars
<1> QED
  BY <1>1, <1>2, <1>3, <1>4, <1>5, <1>6, <1>7, <1>8, <1>9 DEF Next, LeaveActions

\* The fiber machinery of the VM keeps the discipline of a stack of coroutines
\* (CoroutineStack), for any number of fibers and of run loops nested on the C
\* stack: run, resume, yield and return, a native that runs a loop of its own,
\* the error that leaves it and the collector do what one stack would do.
THEOREM FibersImplement == Spec => Implements
<1>1. Init => Abstract!Init
  <2> SUFFICES ASSUME Init PROVE Abstract!Init
    OBVIOUS
  <2>1. Good /\ ~crashed
    BY LinkInit, LoopInit DEF Good, Init
  <2>2. Shape /\ TypeOK /\ Len(loops) = 0
    BY <2>1, ShapesNow DEF Init
  <2>3. ActiveStack = <<>>
    BY <2>2 DEF Shape
  <2>4. CoroutineStatus = [f \in Fiber |-> "none"]
    BY <2>1 DEF Init, CoroutineStatus
  <2> QED BY <2>3, <2>4 DEF Abstract!Init
<1>2. Good /\ Good' /\ [Next]_vars => [Abstract!Next]_(Abstract!vars)
  BY RefineStep
<1>3. Init => Good
  BY LinkInit, LoopInit DEF Good
<1>4. Good /\ [Next]_vars => Good'
  BY LinkStep, LoopStep DEF Good
<1> QED BY <1>1, <1>2, <1>3, <1>4, PTL DEF Spec, Implements, Abstract!Spec


=============================================================================
