--------------------------- MODULE CoroutineStack ---------------------------
(***************************************************************************)
(* What the fiber machinery of the VM promises, without run loops, links   *)
(* or collector: coroutines under a stack discipline.  Control sits on top *)
(* of a stack of distinct coroutines and goes back only to one beneath it; *)
(* a failure may unwind several at once; one that finished, failed or old  *)
(* unwound is closed, and a closed one is never entered again.             *)
(***************************************************************************)
EXTENDS Naturals, Sequences

CONSTANT Coroutine

VARIABLES
  stack,   \* the coroutines control will return through, outermost first
  status   \* "none" (does not exist), "open" (may be entered), "closed"

vars == <<stack, status>>

OnStack == LET old == stack IN {old[i] : i \in DOMAIN old}

TypeOK ==
  /\ stack \in Seq(Coroutine)
  /\ status \in [Coroutine -> {"none", "open", "closed"}]

Init == stack = <<>> /\ status = [c \in Coroutine |-> "none"]

Create(c) ==
  /\ status[c] = "none"
  /\ status' = [status EXCEPT ![c] = "open"]
  /\ UNCHANGED stack

\* Enter a coroutine: one waiting off the stack, or one made for this call.
Enter(c) ==
  /\ c \notin OnStack
  /\ status[c] # "closed"
  /\ status' = [status EXCEPT ![c] = "open"]
  /\ stack' = Append(stack, c)

\* The top one gives up control and may be entered again later.
Suspend ==
  /\ stack # <<>>
  /\ stack' = SubSeq(stack, 1, Len(stack) - 1)
  /\ UNCHANGED status

\* The top one ends; the n lowest survive it, those in between end with it,
\* and so does a coroutine that fails as soon as it is entered (E).
Unwind(n, E) ==
  LET old   == stack
      was   == status
      ended == E \cup {old[i] : i \in (n + 1)..Len(old)}
  IN  /\ n < Len(old)
      /\ E \cap OnStack = {}
      /\ \A c \in E : was[c] = "open"
      /\ stack' = SubSeq(old, 1, n)
      /\ status' = [c \in Coroutine |-> IF c \in ended THEN "closed" ELSE was[c]]

\* Nobody can enter it any more.
Abandon(c) ==
  /\ c \notin OnStack
  /\ status' = [status EXCEPT ![c] = "closed"]
  /\ UNCHANGED stack

\* Some that are off the stack are gone altogether.
Forget(S) ==
  /\ S \cap OnStack = {}
  /\ LET old == status IN
     status' = [c \in Coroutine |-> IF c \in S THEN "none" ELSE old[c]]
  /\ UNCHANGED stack

\* The process ends with all of them (exit, a crash).
Halt ==
  /\ stack' = <<>>
  /\ status' = [c \in Coroutine |-> "closed"]

Next ==
  \/ \E c \in Coroutine : Create(c) \/ Enter(c) \/ Abandon(c)
  \/ Suspend
  \/ Halt
  \/ \E n \in 0..Len(stack), E \in {{}} \cup {{c} : c \in Coroutine} : Unwind(n, E)
  \/ \E S \in SUBSET Coroutine : Forget(S)

Spec == Init /\ [][Next]_vars
=============================================================================
