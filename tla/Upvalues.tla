------------------------------ MODULE Upvalues ------------------------------
(***************************************************************************)
(* How closures reach the locals of the functions they were written in:    *)
(* the stack of a fiber and its call frames, the list of open upvalues     *)
(* (captureUpvalue, closeUpvalues), closures that share an upvalue, the    *)
(* fiber's end, and the collector as far as upvalues go.                   *)
(*                                                                         *)
(* A closure stands for one captured variable: one with several upvalues   *)
(* is as many members of Closure.  Slot numbers are offsets from           *)
(* fiber->stack, starting at 1; slot 0 stands for an upvalue's own copy.   *)
(*                                                                         *)
(* The model follows the process up to the first pointer into freed        *)
(* memory: from there on its behaviour is undefined, and no action is      *)
(* enabled (Sound).                                                        *)
(***************************************************************************)
EXTENDS Naturals, Sequences

CONSTANTS
  Closure,     \* captured variables of closures
  Upvalue,     \* upvalue objects
  Value,       \* values of variables
  Null,        \* VAR_NULL
  NULL,        \* the C null pointer
  MaxSlots,    \* bound on the stack
  CapturedTailCalls   \* whether OP_TAIL_CALL runs in frames with captured locals

ASSUME UpvalueAssumption ==
  /\ Null \in Value
  /\ NULL \notin Upvalue
  /\ MaxSlots \in Nat \ {0}
  /\ CapturedTailCalls \in BOOLEAN

VARIABLES
  fiber,    \* "running", "done" (returned or failed) or "freed"
  slots,    \* the memory at fiber->stack
  sp,       \* the slot below fiber->sp: the top of the stack
  frames,   \* the frame bases (rbp), outermost first
  open,     \* fiber->open_upvalues, from its head
  alloc,    \* the upvalue objects that are allocated
  ptr,      \* Upvalue.ptr: a slot of the stack, or 0 (its field closed)
  closed,   \* Upvalue.closed
  upvalue,  \* the upvalue a live closure holds
  stale     \* upvalues whose ptr is into memory that was freed

vars == <<fiber, slots, sp, frames, open, alloc, ptr, closed, upvalue, stale>>

Slot == 1..MaxSlots
OnList == {open[k] : k \in DOMAIN open}
Held == {upvalue[c] : c \in Closure} \ {NULL}

TypeOK ==
  /\ fiber \in {"running", "done", "freed"}
  /\ slots \in [Slot -> Value]
  /\ sp \in Slot
  /\ frames \in Seq(Slot)
  /\ open \in Seq(Upvalue)
  /\ alloc \subseteq Upvalue
  /\ ptr \in [Upvalue -> 0..MaxSlots]
  /\ closed \in [Upvalue -> Value]
  /\ upvalue \in [Closure -> Upvalue \cup {NULL}]
  /\ stale \subseteq Upvalue

\* newFiber: slot 1 is the return value, the first frame's base.
Init ==
  /\ fiber = "running"
  /\ slots = [i \in Slot |-> Null]
  /\ sp = 1
  /\ frames = <<1>>
  /\ open = <<>>
  /\ alloc = {}
  /\ ptr = [u \in Upvalue |-> 0]
  /\ closed = [u \in Upvalue |-> Null]
  /\ upvalue = [c \in Closure |-> NULL]
  /\ stale = {}

\* No pointer leads into freed memory: the list of open upvalues, the pointers
\* of the upvalues, the upvalues of closures.
Sound == stale = {} /\ OnList \subseteq alloc /\ Held \subseteq alloc

Running == fiber = "running" /\ Sound

rbp == frames[Len(frames)]

\* What the closures of u read: *upvalue->ptr.
Deref(u) == IF ptr[u] = 0 THEN closed[u] ELSE slots[ptr[u]]

-----------------------------------------------------------------------------
(* The list of open upvalues *)

\* Mutant: an upvalue that is not found goes to the head of the list.
InsertAtHead(i, u) == open' = <<u>> \o open

\* The walk of captureUpvalue past the upvalues of higher slots.
InsertSorted(i, u) ==
  \E n \in 0..Len(open) :
    /\ n > 0 => ptr[open[n]] > i
    /\ n < Len(open) => ptr[open[n + 1]] < i
    /\ open' = SubSeq(open, 1, n) \o <<u>> \o SubSeq(open, n + 1, Len(open))

\* Mutant: the list is not searched for an upvalue of the local.
CaptureUpvalueAnew(i, u) ==
  /\ u \notin alloc
  /\ ptr' = [ptr EXCEPT ![u] = i]
  /\ closed' = [closed EXCEPT ![u] = Null]
  /\ alloc' = alloc \cup {u}
  /\ \E n \in 0..Len(open) :
       /\ n > 0 => ptr[open[n]] > i
       /\ n < Len(open) => ptr[open[n + 1]] <= i
       /\ open' = SubSeq(open, 1, n) \o <<u>> \o SubSeq(open, n + 1, Len(open))

\* captureUpvalue: u is the upvalue of slot i, found on the list or new.
CaptureUpvalue(i, u) ==
  \/ /\ u \in OnList
     /\ ptr[u] = i
     /\ UNCHANGED <<open, alloc, ptr, closed>>
  \/ /\ \A w \in OnList : ptr[w] # i
     /\ u \notin alloc
     /\ ptr' = [ptr EXCEPT ![u] = i]
     /\ closed' = [closed EXCEPT ![u] = Null]
     /\ alloc' = alloc \cup {u}
     /\ InsertSorted(i, u)

\* Mutant: the loop stops one slot too high.
CloseUpvaluesAbove(top) ==
  \E n \in 0..Len(open) :
    /\ \A k \in 1..n : ptr[open[k]] > top
    /\ n < Len(open) => ptr[open[n + 1]] <= top
    /\ LET shut == {open[k] : k \in 1..n} IN
         /\ ptr' = [u \in Upvalue |-> IF u \in shut THEN 0 ELSE ptr[u]]
         /\ closed' = [u \in Upvalue |-> IF u \in shut THEN Deref(u) ELSE closed[u]]
    /\ open' = SubSeq(open, n + 1, Len(open))

\* closeUpvalues: from the head, as long as the slot is top or higher.
CloseUpvalues(top) ==
  \E n \in 0..Len(open) :
    /\ \A k \in 1..n : ptr[open[k]] >= top
    /\ n < Len(open) => ptr[open[n + 1]] < top
    /\ LET shut == {open[k] : k \in 1..n} IN
         /\ ptr' = [u \in Upvalue |-> IF u \in shut THEN 0 ELSE ptr[u]]
         /\ closed' = [u \in Upvalue |-> IF u \in shut THEN Deref(u) ELSE closed[u]]
    /\ open' = SubSeq(open, n + 1, Len(open))

-----------------------------------------------------------------------------
(* Instructions *)

\* A declaration pushes its local.
PushLocal(v) ==
  /\ Running
  /\ sp < MaxSlots
  /\ sp' = sp + 1
  /\ slots' = [slots EXCEPT ![sp + 1] = v]
  /\ UNCHANGED <<fiber, frames, open, alloc, ptr, closed, upvalue, stale>>

\* STORE_LOCAL
StoreLocal(i, v) ==
  /\ Running
  /\ i \in (rbp + 1)..sp
  /\ slots' = [slots EXCEPT ![i] = v]
  /\ UNCHANGED <<fiber, sp, frames, open, alloc, ptr, closed, upvalue, stale>>

\* PUSH_CLOSURE with an immediate capture: a local of the running function.
Capture(c, i, u) ==
  /\ Running
  /\ upvalue[c] = NULL
  /\ i \in (rbp + 1)..sp
  /\ CaptureUpvalue(i, u)
  /\ upvalue' = [upvalue EXCEPT ![c] = u]
  /\ UNCHANGED <<fiber, slots, sp, frames, stale>>

\* PUSH_CLOSURE that reuses an upvalue of the running closure.
Share(c, d) ==
  /\ Running
  /\ upvalue[c] = NULL
  /\ upvalue[d] # NULL
  /\ upvalue' = [upvalue EXCEPT ![c] = upvalue[d]]
  /\ UNCHANGED <<fiber, slots, sp, frames, open, alloc, ptr, closed, stale>>

\* STORE_UPVALUE, on this fiber or another.
StoreUpvalue(c, v) ==
  /\ Sound
  /\ upvalue[c] # NULL
  /\ IF ptr[upvalue[c]] = 0
       THEN closed' = [closed EXCEPT ![upvalue[c]] = v] /\ slots' = slots
       ELSE slots' = [slots EXCEPT ![ptr[upvalue[c]]] = v] /\ closed' = closed
  /\ UNCHANGED <<fiber, sp, frames, open, alloc, ptr, upvalue, stale>>

\* CLOSE_UPVALUE: the end of a captured local's scope.
CloseUpvalue ==
  /\ Running
  /\ sp > rbp
  /\ CloseUpvalues(sp)
  /\ sp' = sp - 1
  /\ UNCHANGED <<fiber, slots, frames, alloc, upvalue, stale>>

\* POP: the end of a local that the compiler saw no closure capture.
PopLocal ==
  /\ Running
  /\ sp > rbp
  /\ \A u \in OnList : ptr[u] # sp
  /\ sp' = sp - 1
  /\ UNCHANGED <<fiber, slots, frames, open, alloc, ptr, closed, upvalue, stale>>

\* vmEnsureStackSize, when a call needs more than the stack has: realloc may
\* move it, and the pointers of the open upvalues are not remapped.
EnsureStackSize == stale' = stale \/ stale' = OnList

\* CALL: the return slot, one argument, a new frame.
Call(v) ==
  /\ Running
  /\ sp + 2 <= MaxSlots
  /\ sp' = sp + 2
  /\ slots' = [slots EXCEPT ![sp + 1] = Null, ![sp + 2] = v]
  /\ frames' = Append(frames, sp + 1)
  /\ EnsureStackSize
  /\ UNCHANGED <<fiber, open, alloc, ptr, closed, upvalue>>

\* TAIL_CALL (reuseCallFrame): the return slot and the argument were pushed
\* above the locals, and the argument is moved over the first of them.
TailCall(args) ==
  /\ Running
  /\ CapturedTailCalls \/ \A u \in OnList : ptr[u] <= rbp
  /\ sp + 1 + Len(args) <= MaxSlots
  /\ sp' = rbp + Len(args)
  /\ slots' = [i \in Slot |->
                 IF i \in (rbp + 1)..(rbp + Len(args)) THEN args[i - rbp]
                 ELSE IF i = sp + 1 THEN Null
                 ELSE IF i \in (sp + 2)..(sp + 1 + Len(args)) THEN args[i - sp - 1]
                 ELSE slots[i]]
  /\ EnsureStackSize
  /\ UNCHANGED <<fiber, frames, open, alloc, ptr, closed, upvalue>>

\* RETURN.  The outermost frame leaves sp where it is.
Return(v) ==
  /\ Running
  /\ CloseUpvalues(rbp + 1)
  /\ slots' = [slots EXCEPT ![rbp] = v]
  /\ sp' = IF Len(frames) = 1 THEN sp ELSE rbp
  /\ frames' = SubSeq(frames, 1, Len(frames) - 1)
  /\ fiber' = IF Len(frames) = 1 THEN "done" ELSE "running"
  /\ UNCHANGED <<alloc, upvalue, stale>>

\* A runtime error ends the fiber where it stands.
Fail ==
  /\ Running
  /\ fiber' = "done"
  /\ UNCHANGED <<slots, sp, frames, open, alloc, ptr, closed, upvalue, stale>>

-----------------------------------------------------------------------------
(* The collector *)

\* The fiber is collected: no closure keeps it, an open upvalue neither.
FreeFiber ==
  /\ Sound
  /\ fiber = "done"
  /\ fiber' = "freed"
  /\ stale' = OnList \cap Held
  /\ UNCHANGED <<slots, sp, frames, open, alloc, ptr, closed, upvalue>>

\* Another fiber takes its place.
NewFiber ==
  /\ Sound
  /\ fiber = "freed"
  /\ fiber' = "running"
  /\ slots' = [i \in Slot |-> Null]
  /\ sp' = 1
  /\ frames' = <<1>>
  /\ open' = <<>>
  /\ UNCHANGED <<alloc, ptr, closed, upvalue, stale>>

\* The script loses a closure.
Drop(c) ==
  /\ Sound
  /\ upvalue[c] # NULL
  /\ upvalue' = [upvalue EXCEPT ![c] = NULL]
  /\ UNCHANGED <<fiber, slots, sp, frames, open, alloc, ptr, closed, stale>>

\* Only closures mark upvalues.
Collect ==
  /\ Sound
  /\ alloc # Held
  /\ alloc' = Held
  /\ UNCHANGED <<fiber, slots, sp, frames, open, ptr, closed, upvalue, stale>>

Next ==
  \/ \E v \in Value : PushLocal(v)
  \/ \E i \in Slot, v \in Value : StoreLocal(i, v)
  \/ \E c \in Closure, i \in Slot, u \in Upvalue : Capture(c, i, u)
  \/ \E c, d \in Closure : Share(c, d)
  \/ \E c \in Closure, v \in Value : StoreUpvalue(c, v)
  \/ CloseUpvalue
  \/ PopLocal
  \/ \E v \in Value : Call(v)
  \/ \E args \in {<<>>} \cup {<<v>> : v \in Value} : TailCall(args)
  \/ \E v \in Value : Return(v)
  \/ Fail
  \/ FreeFiber
  \/ NewFiber
  \/ \E c \in Closure : Drop(c)
  \/ Collect

Spec == Init /\ [][Next]_vars

-----------------------------------------------------------------------------
(* What must hold *)

\* captureUpvalue and closeUpvalues find what they look for: the open upvalues
\* are sorted by strictly descending slot (so a local has at most one), and no
\* open upvalue a closure holds is missing from the list of its fiber.
OpenSorted ==
  Sound /\ fiber # "freed" =>
    /\ \A j, k \in DOMAIN open : j < k => ptr[open[j]] > ptr[open[k]]
    /\ \A u \in OnList : ptr[u] # 0
    /\ \A u \in Held : ptr[u] # 0 => u \in OnList

\* "once the variable is out of scope the [ptr] will points to the below value
\* [closed]" (saynaa_value.h): an open upvalue points to a local of a frame
\* that is still on the stack, never above the top and never to a return slot.
OpenAreLocals ==
  Running =>
    \A u \in OnList : ptr[u] \in 2..sp /\ \A k \in DOMAIN frames : ptr[u] # frames[k]

-----------------------------------------------------------------------------
(* The inductive invariant behind OpenSorted and OpenAreLocals *)

\* Frames lie above one another, and the top of the stack above all of them.
FramesNested ==
  fiber = "running" =>
    /\ frames # <<>>
    /\ \A k \in DOMAIN frames : frames[k] <= sp
    /\ \A j, k \in DOMAIN frames : j < k => frames[j] < frames[k]

\* A collected fiber leaves no closure with an open upvalue.
OrphansClosed == Sound /\ fiber = "freed" => \A u \in Held : ptr[u] = 0

UpvalueInv ==
  /\ TypeOK
  /\ FramesNested
  /\ OpenSorted
  /\ OrphansClosed
=============================================================================
