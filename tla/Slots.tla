-------------------------------- MODULE Slots --------------------------------
(***************************************************************************)
(* What C code sees of a fiber: slots, counted from the return value of    *)
(* the native that runs (fiber->ret), the first of them its arguments.     *)
(* The native asks for more, gives some back, and keeps values in them,    *)
(* while the collector marks the stack only up to its top.                 *)
(*                                                                         *)
(* One native runs at a time on a fiber, for functions it calls run on     *)
(* fibers of their own.  It is taken to keep its side: it gives back only  *)
(* slots it has, and touches only slots there are (VALIDATE_SLOT_INDEX).   *)
(*                                                                         *)
(* Bounded: the objects, the slots handed out and given back, handles.     *)
(***************************************************************************)
EXTENDS Integers, Sequences, FiniteSets, SequencesExt

CONSTANTS Object,
          Null, Junk, Freed,  \* no object; memory never written; an object that was freed
          Bottom, MaxArgs,    \* where return values are, how many arguments
          InitialSize, Extra, StackLimit,
          MaxSlots, MaxHandles, MaxElements

ASSUME SlotsAssumption ==
  /\ Object \cap {Null, Junk, Freed} = {} /\ Freed \notin {Null, Junk}
  /\ Bottom \subseteq Nat /\ {MaxArgs, StackLimit, MaxSlots, MaxHandles, MaxElements} \subseteq Nat
  /\ InitialSize \in Nat \ {0} /\ Extra \in Nat \ {0}   \* 16

VARIABLES stack, ret, sp, running, error,
          slot_next, free_slots,
          owned,              \* the slots the native has, a bag (slot_end, which nothing reads, is left out)
          kind, elements,     \* the heap: "free", or what each object is, and its values
          handles

stacks == <<stack, ret, sp, running, error>>
books == <<slot_next, free_slots, owned>>
heap == <<kind, elements, handles>>
vars == <<stacks, books, heap>>

Size(s) == Cardinality(DOMAIN s)
SlotsCount == Size(stack) - ret
SlotIndex == 0..(SlotsCount - 1)
Slot(i) == stack[ret + i]
Power[k \in Nat] == IF k = 0 THEN 1 ELSE 2 * Power[k - 1]
PowerOf2Ceil(n) == Power[CHOOSE k \in 0..n : Power[k] >= n /\ \A j \in 0..(k - 1) : Power[j] < n]

----------------------------------------------------------------------------
(* The collector *)
Closed(S) == \A o \in S : Range(elements[o]) \cap Object \subseteq S
\* What can be reached from S: what is in every closed set that holds S.
Marked(S) == {o \in Object : \A T \in SUBSET Object : S \subseteq T /\ Closed(T) => o \in T}
\* Mutant: the arguments are not marked.
LiveBelowReturn(temps) ==
  Marked(({stack[p] : p \in 0..ret} \cup {handles[h] : h \in DOMAIN handles} \cup temps) \cap Object)
Live(temps) == Marked(({stack[p] : p \in 0..(sp - 1)} \cup {handles[h] : h \in DOMAIN handles} \cup temps) \cap Object)

\* A step that grows memory may collect first: what is live then.
Lives(temps) == {{o \in Object : kind[o] # "free"}, Live(temps)}
Swept(s, live) == [p \in DOMAIN s |-> IF s[p] \in Object \ live THEN Freed ELSE s[p]]
Kinds(live) == [o \in Object |-> IF o \in live THEN kind[o] ELSE "free"]
Elements(live) == [o \in Object |-> IF o \in live THEN elements[o] ELSE <<>>]

----------------------------------------------------------------------------
(* Slots *)

\* vmEnsureStackSize for n slots from the return value on: a stack that would
\* be too large is left as it is, with an error.
Grown(s, n) ==
  IF ret + n >= StackLimit \/ Size(s) >= ret + n THEN s
  ELSE [p \in 0..(PowerOf2Ceil(ret + n) - 1) |-> IF p \in DOMAIN s THEN s[p] ELSE Junk]
ReservedTo(n) ==
  /\ \E live \in IF ret + n < StackLimit /\ Size(stack) >= ret + n THEN {{o \in Object : kind[o] # "free"}} ELSE Lives({}) :
       stack' = Swept(Grown(stack, n), live) /\ kind' = Kinds(live) /\ elements' = Elements(live)
  /\ error' = (error \/ ret + n >= StackLimit)
  /\ UNCHANGED <<ret, sp, running, handles>>
Unreserved == UNCHANGED <<stacks, heap>>

Reserve(n) == running /\ ReservedTo(n) /\ UNCHANGED <<slot_next, free_slots, owned>>

HandOut(i, n) == owned' = owned (+) SetToBag(i..(i + n - 1))

AllocSlot(n) ==
  /\ running /\ slot_next + n <= MaxSlots
  /\ IF slot_next + n > SlotsCount THEN ReservedTo(slot_next + n + Extra) ELSE Unreserved
  /\ slot_next' = slot_next + n
  /\ HandOut(slot_next, n)
  /\ UNCHANGED free_slots

\* Mutant: the slot stays on the list.
NextSlotKept(temporary) ==
  /\ running /\ temporary /\ free_slots # <<>> /\ HandOut(Last(free_slots), 1) /\ BagCardinality(owned) < MaxSlots
  /\ Unreserved /\ UNCHANGED <<slot_next, free_slots>>
\* Mutant: there is room for one slot more than there is.
NextSlotPast(temporary) ==
  /\ running /\ slot_next < MaxSlots
  /\ IF slot_next > SlotsCount THEN ReservedTo(slot_next + Extra) ELSE Unreserved
  /\ slot_next' = slot_next + 1 /\ HandOut(slot_next, 1) /\ UNCHANGED free_slots

NextSlot(temporary) ==
  /\ running
  /\ \/ /\ temporary /\ free_slots # <<>>
        /\ free_slots' = Front(free_slots)
        /\ HandOut(Last(free_slots), 1)
        /\ Unreserved /\ UNCHANGED slot_next
     \/ /\ ~temporary \/ free_slots = <<>>
        /\ slot_next < MaxSlots
        /\ IF slot_next >= SlotsCount THEN ReservedTo(slot_next + Extra) ELSE Unreserved
        /\ slot_next' = slot_next + 1
        /\ HandOut(slot_next, 1)
        /\ UNCHANGED free_slots

FreeSlot(i, n) ==
  /\ running /\ n > 0 /\ i..(i + n - 1) \subseteq BagToSet(owned)
  /\ free_slots' = IF i + n > slot_next THEN free_slots ELSE free_slots \o [k \in 1..n |-> i + k - 1]
  /\ owned' = owned (-) SetToBag(i..(i + n - 1))
  /\ UNCHANGED slot_next /\ Unreserved

----------------------------------------------------------------------------
(* Values in slots; those kept elsewhere are objects, which a collection    *)
(* may take.                                                                *)
Same == UNCHANGED <<ret, sp, running, books>>
Set(s, i, value) == [s EXCEPT ![ret + i] = value]

\* setSlotNull, setSlotBool, setSlotNumber, and what others hold already:
\* PlaceThis, GetClass, ImportModule.
SetSlot(i) == running /\ i \in SlotIndex /\ stack' = Set(stack, i, Null) /\ UNCHANGED error /\ Same /\ UNCHANGED heap

\* NewList, NewMap, setSlotString, setSlotPointer, setSlotClosure, ...
New(i, k) ==
  /\ running /\ i \in SlotIndex
  /\ \E live \in Lives({}) : \E o \in Object \ live :
       /\ kind' = [Kinds(live) EXCEPT ![o] = k] /\ elements' = Elements(live)
       /\ stack' = Set(Swept(stack, live), i, o)
  /\ UNCHANGED <<error, handles>> /\ Same

GetSlotHandle(i) ==
  /\ running /\ i \in SlotIndex /\ Slot(i) \in Object /\ Len(handles) < MaxHandles
  /\ \E live \in Lives({Slot(i)}) : stack' = Swept(stack, live) /\ kind' = Kinds(live) /\ elements' = Elements(live)
  /\ handles' = Append(handles, Slot(i))
  /\ UNCHANGED error /\ Same
SetSlotHandle(i, h) ==
  running /\ i \in SlotIndex /\ h \in DOMAIN handles /\ stack' = Set(stack, i, handles[h]) /\ UNCHANGED error /\ Same /\ UNCHANGED heap
ReleaseHandle(h) ==
  h \in DOMAIN handles /\ handles' = RemoveAt(handles, h) /\ UNCHANGED <<stacks, books, kind, elements>>

\* ListInsert and MapSet: the value is held while the container grows, the
\* container is not.
Insert(c, v, k, at) ==
  /\ running /\ {c, v} \subseteq SlotIndex /\ Slot(c) \in Object /\ kind[Slot(c)] = k /\ Slot(v) \in Object
  /\ LET l == Slot(c)
         n == Len(elements[l])
         index == IF at < 0 THEN at + n + 1 ELSE at
     IN IF index \notin 0..n THEN error' = TRUE /\ UNCHANGED <<stack, heap>>
        ELSE /\ n < MaxElements
             /\ \E live \in Lives({Slot(v)}) :
                  /\ stack' = Swept(stack, live) /\ kind' = Kinds(live)
                  /\ elements' = IF l \in live THEN [Elements(live) EXCEPT ![l] = InsertAt(@, index + 1, Slot(v))] ELSE Elements(live)
             /\ UNCHANGED <<error, handles>>
  /\ Same
ListInsert(l, at, v) == Insert(l, v, "list", at)
MapSet(m, v) == Insert(m, v, "map", -1)

ListPop(l, at, popped) ==
  /\ running /\ l \in SlotIndex /\ popped \in {-1} \cup SlotIndex /\ Slot(l) \in Object /\ kind[Slot(l)] = "list"
  /\ LET o == Slot(l)
         n == Len(elements[o])
         index == IF at < 0 THEN at + n ELSE at
     IN IF index \notin 0..(n - 1) THEN error' = TRUE /\ UNCHANGED <<stack, elements>>
        ELSE /\ elements' = [elements EXCEPT ![o] = RemoveAt(@, index + 1)]
             /\ stack' = IF popped = -1 THEN stack ELSE Set(stack, popped, elements[o][index + 1])
             /\ UNCHANGED error
  /\ UNCHANGED <<kind, handles>> /\ Same

\* CallFunction, CallMethod, NewInstance, GetAttribute, setAttribute: a
\* function runs on a fiber of its own, and its result, nothing the native
\* holds, goes into the slot.  It may collect, or fail; when even its fiber
\* could not be prepared, the variable the result is taken from was never
\* written.
CallFunction(i) ==
  /\ running /\ i \in {-1} \cup SlotIndex
  /\ \E live \in Lives({}), fails \in BOOLEAN :
       \E value \in {Null} \cup (Object \ live) \cup (IF fails THEN {Junk} ELSE {}) :
         /\ kind' = IF value \in Object THEN [Kinds(live) EXCEPT ![value] = "map"] ELSE Kinds(live)
         /\ elements' = Elements(live)
         /\ stack' = IF i = -1 THEN Swept(stack, live) ELSE Set(Swept(stack, live), i, value)
         /\ error' = fails
  /\ UNCHANGED handles /\ Same

----------------------------------------------------------------------------
(* Natives come and go.  A slot beyond the arguments holds nothing yet, the *)
(* next slot and the free ones stay as the native before left them, and an  *)
(* error ends the fiber.                                                    *)
Call(b, argc) ==
  /\ ~running /\ ~error /\ b + argc + 1 <= Size(stack)
  /\ ret' = b /\ sp' = b + argc + 1 /\ running' = TRUE
  /\ \E live \in Lives({}) : \E args \in [1..argc -> {Null} \cup (Object \ live)] :
       /\ IsInjective(SelectSeq(args, LAMBDA v : v \in Object))
       /\ kind' = [o \in Object |-> IF o \in Range(args) THEN "list" ELSE Kinds(live)[o]]
       /\ elements' = Elements(live)
       /\ stack' = [p \in DOMAIN stack |-> IF p < b \/ p = b THEN Null ELSE IF p <= b + argc THEN args[p - b] ELSE Junk]
  /\ UNCHANGED <<error, books, handles>>
Return == running /\ ~error /\ running' = FALSE /\ sp' = ret + 1 /\ owned' = EmptyBag
          /\ UNCHANGED <<stack, ret, error, slot_next, free_slots, heap>>

NewStack == [p \in 0..(InitialSize - 1) |-> Null]
Fail ==
  /\ error /\ error' = FALSE /\ running' = FALSE
  /\ stack' = NewStack /\ ret' = 0 /\ sp' = 1
  /\ slot_next' = 1 /\ free_slots' = <<>> /\ owned' = EmptyBag
  /\ UNCHANGED heap

Init ==
  /\ stack = NewStack /\ ret = 0 /\ sp = 1 /\ running = FALSE /\ error = FALSE
  /\ slot_next = 1 /\ free_slots = <<>> /\ owned = EmptyBag
  /\ kind = [o \in Object |-> "free"] /\ elements = [o \in Object |-> <<>>] /\ handles = <<>>
Places == 0..(MaxSlots - 1)
Step ==
  \/ \E n \in 1..MaxSlots : Reserve(n) \/ AllocSlot(n)
  \/ \E t \in BOOLEAN : NextSlot(t)
  \/ \E i \in Places, n \in 1..2 : FreeSlot(i, n)
  \/ \E i \in Places : SetSlot(i) \/ GetSlotHandle(i) \/ \E k \in {"list", "map"} : New(i, k)
  \/ \E i \in Places, h \in 1..MaxHandles : SetSlotHandle(i, h)
  \/ \E h \in 1..MaxHandles : ReleaseHandle(h)
  \/ \E c, v \in Places : MapSet(c, v) \/ \E at \in {-1, 0} : ListInsert(c, at, v)
  \/ \E c \in Places, p \in {-1, 0} : ListPop(c, -1, p)
  \/ \E i \in {-1} \cup Places : CallFunction(i)
  \/ Return
Next == (~error /\ Step) \/ Fail \/ \E b \in Bottom, argc \in 0..MaxArgs : Call(b, argc)
Spec == Init /\ [][Next]_vars

----------------------------------------------------------------------------
\* A native that gives back only what it has is never handed a slot it has
\* already, whatever natives before it left behind.
OwnersApart == owned = SetToBag(BagToSet(owned))

\* The return value and the arguments are never taken by a collection, nor is
\* anything in a list or a map that is there, nor what a handle holds: a
\* collection takes from a native only what it keeps in slots above them.
KeptBelow ==
  /\ \A p \in 0..(sp - 1) : stack[p] # Freed
  /\ \A o \in Object : kind[o] # "free" => \A v \in Range(elements[o]) \cap Object : kind[v] # "free"
  /\ \A h \in DOMAIN handles : handles[h] \in Object => kind[handles[h]] # "free"

\* A slot that nobody had before lies in the stack, unless the stack is at its
\* limit and the native has its error.
FreshInStack ==
  [][slot_next' > slot_next => error' \/ \A i \in slot_next..(slot_next' - 1) : ret + i \in DOMAIN stack']_vars

\* saynaa.h of GetSlotString, the strings of slots "only valid inside the
\* native function": there, they are valid.
ValuesKept == running => \A i \in SlotIndex : Slot(i) # Freed
=============================================================================
