------------------------------- MODULE Fibers -------------------------------
(***************************************************************************)
(* Fibers of the VM: their life cycle (run, yield, resume, return, error), *)
(* the caller and native links between them, the run loops nested on the C *)
(* stack (vmRunFiber re-entered by vmCallMethod and by pcall) and the part *)
(* of the collector that decides which fibers survive.                     *)
(*                                                                         *)
(* One step is what the VM does between two points at which script or host *)
(* code chooses what happens next.  A run loop that returns and the native *)
(* that entered it finishing are one step: no script code runs in between. *)
(***************************************************************************)
EXTENDS Naturals, Sequences

CONSTANTS
  Fiber,            \* fiber objects
  NULL,             \* the C null pointer
  MaxLoops,         \* bound on run loops nested on the C stack
  YieldUnderPcall   \* whether scripts of this instance write pcall(yield)

ASSUME FiberAssumption ==
  /\ NULL \notin Fiber
  /\ MaxLoops \in Nat \ {0}
  /\ YieldUnderPcall \in BOOLEAN

VARIABLES
  state,    \* Fiber.state; "FREE" is a fiber not allocated
  kind,     \* what the fiber's closure is: "script", "native"; "none" if FREE
  caller,   \* Fiber.caller: the fiber that ran or resumed this one
  native,   \* Fiber.native: the fiber current when C code created this one
  error,    \* Fiber.error # NULL
  held,     \* fibers a script holds a reference to (made by Fiber(fn))
  cur,      \* vm->fiber
  loops,    \* C activations, outermost first: who entered, what it will restore
  verdict,  \* what the last pcall to finish told its caller
  crashed   \* the process dereferenced a null vm->fiber

vars == <<state, kind, caller, native, error, held, cur, loops, verdict, crashed>>

States == {"FREE", "NEW", "RUNNING", "YIELDED", "DONE"}
Entries == {"run", "call", "pcall"}   \* RunString/RunFile, vmCallMethod, pcall

(***************************************************************************)
(* A C activation: the fiber it created and runs, the value of its local   *)
(* [last] (NULL for RunString, which restores nothing) and who it is.      *)
(***************************************************************************)
Activation == [callee : Fiber, last : Fiber \cup {NULL}, by : Entries]

TypeOK ==
  /\ state \in [Fiber -> States]
  /\ kind \in [Fiber -> {"none", "script", "native"}]
  /\ caller \in [Fiber -> Fiber \cup {NULL}]
  /\ native \in [Fiber -> Fiber \cup {NULL}]
  /\ error \in [Fiber -> BOOLEAN]
  /\ held \subseteq Fiber
  /\ cur \in Fiber \cup {NULL}
  /\ loops \in Seq(Activation)
  /\ Len(loops) \in 0..MaxLoops
  /\ verdict \in {"none", "ok", "error", "unknown"}
  /\ crashed \in BOOLEAN

Init ==
  /\ state = [f \in Fiber |-> "FREE"]
  /\ kind = [f \in Fiber |-> "none"]
  /\ caller = [f \in Fiber |-> NULL]
  /\ native = [f \in Fiber |-> NULL]
  /\ error = [f \in Fiber |-> FALSE]
  /\ held = {}
  /\ cur = NULL
  /\ loops = <<>>
  /\ verdict = "none"
  /\ crashed = FALSE

Top == loops[Len(loops)]

\* The host has control: no C activation, vm->fiber is whatever was left there.
AtHost == loops = <<>> /\ ~crashed

\* A run loop executes byte code of vm->fiber.
InScript == loops # <<>> /\ cur # NULL /\ kind[cur] = "script" /\ ~crashed

\* The body of the native function that pcall or vmCallMethod was given runs.
InNative == loops # <<>> /\ cur # NULL /\ kind[cur] = "native" /\ ~crashed

(***************************************************************************)
(* The innermost activation returns.  [left] is the vm->fiber the run loop *)
(* leaves; RunString keeps it, the other two restore their [last].  pcall  *)
(* reads the error of the fiber IT created, and clears it.                 *)
(***************************************************************************)
PcallVerdict(ok, err) ==
  IF ok THEN "ok" ELSE IF err[Top.callee] THEN "error" ELSE "unknown"

\* Mutant: vm->fiber is not restored after the nested run.
LeaveLoopUnrestored(ok, left, err) ==
  /\ loops' = SubSeq(loops, 1, Len(loops) - 1)
  /\ cur' = left
  /\ IF Top.by = "pcall"
       THEN /\ verdict' = PcallVerdict(ok, err)
            /\ error' = IF ok THEN err ELSE [err EXCEPT ![Top.callee] = FALSE]
       ELSE error' = err /\ verdict' = verdict

LeaveLoop(ok, left, err) ==
  /\ loops' = SubSeq(loops, 1, Len(loops) - 1)
  /\ cur' = IF Top.by = "run" THEN left ELSE Top.last
  /\ IF Top.by = "pcall"
       THEN /\ verdict' = PcallVerdict(ok, err)
            /\ error' = IF ok THEN err ELSE [err EXCEPT ![Top.callee] = FALSE]
       ELSE error' = err /\ verdict' = verdict

(***************************************************************************)
(* RUNTIME_ERROR / CHECK_ERROR: report, switch back to the caller with the *)
(* failed fiber DONE, and return from vmRunFiber: the whole loop is left,  *)
(* not only the failed fiber.                                              *)
(***************************************************************************)
FailCurrent ==
  /\ state' = [state EXCEPT ![cur] = "DONE"]
  /\ caller' = [caller EXCEPT ![cur] = NULL]
  /\ LeaveLoop(FALSE, caller[cur], [error EXCEPT ![cur] = TRUE])
  /\ UNCHANGED <<kind, native, held, crashed>>

-----------------------------------------------------------------------------
(* Entering a run loop *)

Fresh(f) == state[f] = "FREE"

\* RunString / RunFile: a fiber for the module body, run by the host.
HostRun(f) ==
  /\ AtHost
  /\ Fresh(f)
  /\ state' = [state EXCEPT ![f] = "RUNNING"]
  /\ kind' = [kind EXCEPT ![f] = "script"]
  /\ cur' = f
  /\ loops' = <<[callee |-> f, last |-> NULL, by |-> "run"]>>
  /\ UNCHANGED <<caller, native, error, held, verdict, crashed>>

\* vmCallMethod and pcall.  A native callee runs on its fiber without being
\* marked RUNNING; a script callee is handed to vmRunFiber.
Enter(f, k, by) ==
  /\ Fresh(f)
  /\ Len(loops) < MaxLoops
  /\ state' = [state EXCEPT ![f] = IF k = "native" THEN "NEW" ELSE "RUNNING"]
  /\ kind' = [kind EXCEPT ![f] = k]
  /\ native' = [native EXCEPT ![f] = cur]
  /\ cur' = f
  /\ loops' = Append(loops, [callee |-> f, last |-> cur, by |-> by])
  /\ UNCHANGED <<caller, error, held, verdict, crashed>>

\* An instruction or a native that calls back into a script, or pcall(fn).
\* (vmCallMethod's callee may be native too: a magic method bound to one.)
CallBack(f, k, by) ==
  /\ InScript \/ InNative
  /\ ~error[cur]
  /\ Enter(f, k, by)

\* The host calls a script function itself (the REPL runs each line this way).
HostCall(f) == AtHost /\ Enter(f, "script", "call")

\* pcall(yield): the native yields the fiber pcall made for it, vm->fiber
\* becomes NULL and pcall's VM_HAS_ERROR reads through it.
PcallYield(f) ==
  /\ YieldUnderPcall
  /\ InScript
  /\ ~error[cur]
  /\ Fresh(f)
  /\ state' = [state EXCEPT ![f] = "YIELDED"]
  /\ kind' = [kind EXCEPT ![f] = "native"]
  /\ native' = [native EXCEPT ![f] = cur]
  /\ cur' = NULL
  /\ crashed' = TRUE
  /\ UNCHANGED <<caller, error, held, loops, verdict>>

-----------------------------------------------------------------------------
(* What the running script may do *)

\* Fiber(fn)
NewFiber(f, k) ==
  /\ InScript
  /\ ~error[cur]
  /\ Fresh(f)
  /\ state' = [state EXCEPT ![f] = "NEW"]
  /\ kind' = [kind EXCEPT ![f] = k]
  /\ held' = held \cup {f}
  /\ UNCHANGED <<caller, native, error, cur, loops, verdict, crashed>>

\* The switch itself: the running fiber becomes the caller of f.
SwitchTo(f) ==
  /\ state' = [state EXCEPT ![f] = "RUNNING"]
  /\ caller' = [caller EXCEPT ![f] = cur]
  /\ cur' = f
  /\ UNCHANGED <<kind, native, error, held, loops, verdict, crashed>>

\* Mutant: vmPrepareFiber does not refuse a fiber that is done.
RunFinishedFiber(f) ==
  /\ InScript
  /\ ~error[cur]
  /\ f \in held
  /\ state[f] \in {"NEW", "DONE"}
  /\ kind[f] = "script"
  /\ SwitchTo(f)

\* f.run() on a new fiber of a script function.
RunFiber(f) ==
  /\ InScript
  /\ ~error[cur]
  /\ f \in held
  /\ state[f] = "NEW"
  /\ kind[f] = "script"
  /\ SwitchTo(f)

\* f.run() on a new fiber of a native function: the loop finds no call frame
\* on it, fails it, switches back and returns.
RunNativeFiber(f) ==
  /\ InScript
  /\ ~error[cur]
  /\ f \in held
  /\ state[f] = "NEW"
  /\ kind[f] = "native"
  /\ state' = [state EXCEPT ![f] = "DONE"]
  /\ LeaveLoop(FALSE, cur, [error EXCEPT ![f] = TRUE])
  /\ UNCHANGED <<kind, caller, native, held, crashed>>

\* Mutant: vmSwitchFiber does not refuse a running fiber.
ResumeRunningFiber(f) ==
  /\ InScript
  /\ ~error[cur]
  /\ f \in held
  /\ state[f] \in {"YIELDED", "RUNNING"}
  /\ SwitchTo(f)

\* f.resume() on a yielded fiber.
ResumeFiber(f) ==
  /\ InScript
  /\ ~error[cur]
  /\ f \in held
  /\ state[f] = "YIELDED"
  /\ SwitchTo(f)

\* A runtime error of the running fiber: its own, the refusal of run() or
\* resume() by a fiber in the wrong state, or one a native left on it.
Raise ==
  /\ InScript
  /\ FailCurrent

\* Mutant: vmYieldFiber keeps the caller of the fiber that yields.
YieldKeepsCaller ==
  /\ InScript
  /\ ~error[cur]
  /\ caller[cur] # NULL
  /\ state' = [state EXCEPT ![cur] = "YIELDED"]
  /\ cur' = caller[cur]
  /\ UNCHANGED <<kind, caller, native, error, held, loops, verdict, crashed>>

\* yield() with a fiber to go back to.
YieldToCaller ==
  /\ InScript
  /\ ~error[cur]
  /\ caller[cur] # NULL
  /\ state' = [state EXCEPT ![cur] = "YIELDED"]
  /\ caller' = [caller EXCEPT ![cur] = NULL]
  /\ cur' = caller[cur]
  /\ UNCHANGED <<kind, native, error, held, loops, verdict, crashed>>

\* yield() in the fiber a loop was entered with: vm->fiber becomes NULL and
\* the loop returns success.
YieldAtBase ==
  /\ InScript
  /\ ~error[cur]
  /\ caller[cur] = NULL
  /\ state' = [state EXCEPT ![cur] = "YIELDED"]
  /\ LeaveLoop(TRUE, NULL, error)
  /\ UNCHANGED <<kind, caller, native, held, crashed>>

\* RETURN of the outermost frame of a fiber run by another one.
ReturnToCaller ==
  /\ InScript
  /\ ~error[cur]
  /\ caller[cur] # NULL
  /\ state' = [state EXCEPT ![cur] = "DONE"]
  /\ caller' = [caller EXCEPT ![cur] = NULL]
  /\ cur' = caller[cur]
  /\ UNCHANGED <<kind, native, error, held, loops, verdict, crashed>>

\* RETURN of the outermost frame of the fiber a loop was entered with: the
\* loop returns and leaves the fiber's state alone.
ReturnAtBase ==
  /\ InScript
  /\ ~error[cur]
  /\ caller[cur] = NULL
  /\ LeaveLoop(TRUE, cur, error)
  /\ UNCHANGED <<state, kind, caller, native, held, crashed>>

-----------------------------------------------------------------------------
(* A native function run by pcall or vmCallMethod finishes *)

NativeReturn ==
  /\ InNative
  /\ ~error[cur]
  /\ LeaveLoop(TRUE, NULL, error)
  /\ UNCHANGED <<state, kind, caller, native, held, crashed>>

\* vmCallMethod hands the error to the fiber it restores, pcall reports it.
NativeError ==
  /\ InNative
  /\ LET raised == [error EXCEPT ![cur] = TRUE] IN
       LeaveLoop(FALSE, NULL,
         IF Top.by = "call" /\ Top.last # NULL
           THEN [raised EXCEPT ![Top.last] = TRUE] ELSE raised)
  /\ UNCHANGED <<state, kind, caller, native, held, crashed>>

-----------------------------------------------------------------------------
(* The collector, as far as fibers go *)

\* vm->fiber, temp references of the natives on the C stack, script values.
Roots ==
  (held \cup {cur}
     \cup {loops[i].callee : i \in {j \in DOMAIN loops : loops[j].by # "run"}}
     \cup {loops[i].last : i \in {j \in DOMAIN loops : loops[j].by = "call"}})
  \ {NULL}

\* What popMarkedObjects adds for a fiber: its caller and its native.
ClosedUnderMark(S) ==
  \A f \in S : caller[f] \in S \cup {NULL} /\ native[f] \in S \cup {NULL}

Marked ==
  LET roots  == Roots
      closed == {S \in SUBSET Fiber : roots \subseteq S /\ ClosedUnderMark(S)}
  IN  {f \in Fiber : \A S \in closed : f \in S}

Collect ==
  /\ ~crashed
  /\ LET marked == Marked IN
       /\ \E f \in Fiber \ marked : state[f] # "FREE"
       /\ state' = [f \in Fiber |-> IF f \in marked THEN state[f] ELSE "FREE"]
       /\ kind' = [f \in Fiber |-> IF f \in marked THEN kind[f] ELSE "none"]
       /\ caller' = [f \in Fiber |-> IF f \in marked THEN caller[f] ELSE NULL]
       /\ native' = [f \in Fiber |-> IF f \in marked THEN native[f] ELSE NULL]
       /\ error' = [f \in Fiber |-> f \in marked /\ error[f]]
  /\ UNCHANGED <<held, cur, loops, verdict, crashed>>

\* The script loses its last reference to a fiber.
Drop(f) ==
  /\ ~crashed
  /\ f \in held
  /\ held' = held \ {f}
  /\ UNCHANGED <<state, kind, caller, native, error, cur, loops, verdict, crashed>>

-----------------------------------------------------------------------------
Next ==
  \/ \E f \in Fiber : HostRun(f)
  \/ \E f \in Fiber : HostCall(f)
  \/ \E f \in Fiber, k \in {"script", "native"}, by \in {"call", "pcall"} :
       CallBack(f, k, by)
  \/ \E f \in Fiber : PcallYield(f)
  \/ \E f \in Fiber, k \in {"script", "native"} : NewFiber(f, k)
  \/ \E f \in Fiber : RunFiber(f)
  \/ \E f \in Fiber : RunNativeFiber(f)
  \/ \E f \in Fiber : ResumeFiber(f)
  \/ Raise
  \/ YieldToCaller
  \/ YieldAtBase
  \/ ReturnToCaller
  \/ ReturnAtBase
  \/ NativeReturn
  \/ NativeError
  \/ Collect
  \/ \E f \in Fiber : Drop(f)

Spec == Init /\ [][Next]_vars

-----------------------------------------------------------------------------
(* What must hold *)

\* The assertion of FIBER_SWITCH_BACK (saynaa_vm.c): when a fiber finishes or
\* fails, the caller control goes back to is still RUNNING, whatever was run,
\* resumed, yielded or abandoned since.  It also has to be the only one: no
\* two fibers will hand control back to the same caller.
SwitchBackSafe ==
  \A f \in Fiber : caller[f] # NULL =>
    /\ state[caller[f]] = "RUNNING"
    /\ caller[f] # cur
    /\ \A g \in Fiber : caller[g] = caller[f] => g = f

\* Collection frees no fiber the VM can still go back to: vm->fiber, the
\* callers and natives of live fibers, and the fibers that natives suspended on
\* the C stack will restore (pcall protects its own only through Fiber.native).
NoDanglingFiber ==
  LET live == {f \in Fiber : state[f] # "FREE"} IN
  /\ cur # NULL => cur \in live
  /\ \A f \in live : caller[f] \in live \cup {NULL} /\ native[f] \in live \cup {NULL}
  /\ \A i \in DOMAIN loops :
       loops[i].callee \in live /\ loops[i].last \in live \cup {NULL}

\* lang.backtrace() and the error report walk from vm->fiber to the caller, or
\* else to the native, until null: no set of fibers leads back into itself.
BacktraceTerminates ==
  LET up(f) == IF caller[f] # NULL THEN caller[f] ELSE native[f] IN
  \A S \in SUBSET Fiber : (\A f \in S : up(f) \in S) => S = {}

\* VM_SET_ERROR asserts that the current fiber carries no error yet.  So a
\* fiber that can be entered (NEW, YIELDED) or returned to (a caller, a fiber
\* a native will restore) carries none while it waits.
NoStaleError ==
  /\ \A f \in held : state[f] \in {"NEW", "YIELDED"} => ~error[f]
  /\ \A f \in Fiber : caller[f] # NULL => ~error[caller[f]]
  /\ \A i \in DOMAIN loops : loops[i].last # NULL => ~error[loops[i].last]

\* A run loop nested on the C stack (callback, pcall) leaves alone the fiber
\* the enclosing native will restore, whatever the inner script runs, resumes,
\* yields or fails: its state, its caller and its error are as it left them.
FrozenBelow ==
  [][\A i \in DOMAIN loops \cap DOMAIN loops' :
       LET l == loops[i].last IN l # NULL =>
         state'[l] = state[l] /\ caller'[l] = caller[l] /\ error'[l] = error[l]]_vars

\* "FIBER_DONE, //< Fiber finished and cannot be resumed." (saynaa_value.h)
DoneIsFinal ==
  [][\A f \in Fiber : state[f] = "DONE" => state'[f] \in {"DONE", "FREE"}]_vars

-----------------------------------------------------------------------------
(* The inductive invariant behind SwitchBackSafe, FrozenBelow, DoneIsFinal *)

\* A fiber with a caller runs on top of it, and nothing else leads back there.
CallersRunning ==
  \A f \in Fiber : caller[f] # NULL =>
    /\ state[f] = "RUNNING"
    /\ state[caller[f]] = "RUNNING"
    /\ caller[f] # cur
    /\ \A i \in DOMAIN loops : loops[i].last # caller[f]

CallersDistinct ==
  \A f, g \in Fiber : caller[f] # NULL /\ caller[f] = caller[g] => f = g

\* A fiber that no script can run or resume: running, or made by a native for
\* a native function.
Busy(f) == state[f] = "RUNNING" \/ (kind[f] = "native" /\ f \notin held)

\* The fibers natives will restore are busy, and each is awaited only once.
LastsBusy ==
  \A i \in DOMAIN loops : loops[i].last # NULL =>
    /\ Busy(loops[i].last)
    /\ loops[i].last # cur
    /\ \A j \in DOMAIN loops : loops[j].last = loops[i].last => j = i

CurrentBusy == cur # NULL => Busy(cur)

FreeUnused ==
  /\ \A f \in Fiber : state[f] = "FREE" => kind[f] = "none"
  /\ \A f \in held : state[f] # "FREE"

\* A native's temp reference and its fiber's native link keep both alive; the
\* fiber it made is none of those awaited beneath it.
ActivationsLinked ==
  \A i \in DOMAIN loops :
    /\ loops[i].by = "run" => loops[i].last = NULL
    /\ loops[i].by # "run" => /\ native[loops[i].callee] = loops[i].last
                              /\ state[loops[i].callee] # "FREE"
    /\ \A j \in DOMAIN loops : j <= i => loops[j].last # loops[i].callee

LinkInv ==
  /\ TypeOK
  /\ CallersRunning
  /\ CallersDistinct
  /\ LastsBusy
  /\ CurrentBusy
  /\ FreeUnused
  /\ ActivationsLinked
=============================================================================
