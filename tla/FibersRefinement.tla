-------------------------- MODULE FibersRefinement --------------------------
(***************************************************************************)
(* Fibers implements CoroutineStack.  The stack of coroutines is threaded  *)
(* through the C activations: within a run loop it follows Fiber.caller    *)
(* from the running fiber down to the one the loop was entered with; below *)
(* that, it goes on from the fiber the loop will restore.                  *)
(***************************************************************************)
EXTENDS Fibers, FiniteSets, SequencesExt

\* The fiber that is innermost in loop i: vm->fiber, or what the loop above
\* it will restore.
Innermost(i) == IF i = Len(loops) THEN cur ELSE loops[i + 1].last

\* The fibers of one run loop, outermost first, from its innermost one.
Segment(h) ==
  LET beneath[f \in Fiber] ==
        IF caller[f] = NULL THEN <<f>> ELSE Append(beneath[caller[f]], f)
  IN  beneath[h]

\* A crash ends the process, and all coroutines with it.
ActiveStack ==
  LET upto[i \in 0..Len(loops)] ==
        IF i = 0 THEN <<>> ELSE upto[i - 1] \o Segment(Innermost(i))
  IN  IF crashed THEN <<>> ELSE upto[Len(loops)]

Enterable == {f \in held : state[f] \in {"NEW", "YIELDED"}} \cup ToSet(ActiveStack)

CoroutineStatus ==
  LET enterable == Enterable IN
  [f \in Fiber |-> IF crashed THEN "closed"
                   ELSE IF state[f] = "FREE" THEN "none"
                   ELSE IF f \in enterable THEN "open" ELSE "closed"]

Abstract == INSTANCE CoroutineStack
              WITH Coroutine <- Fiber, stack <- ActiveStack, status <- CoroutineStatus

\* Every step of the fiber machinery is a step of the coroutine discipline:
\* control returns only to fibers beneath the running one, an error unwinds to
\* the fiber below some activation, and a fiber that finished, failed or was
\* unwound over is never entered again (Fiber.run, Fiber.resume, yield, the
\* RETURN instruction, vmCallMethod, pcall, RunString and the collector).
Implements == Abstract!Spec

\* A run loop only ever works on a chain of fibers that ends in the one it was
\* entered with, so leaving it leaves nothing of an enclosing loop behind.
LoopBaseIntact ==
  ~crashed => \A i \in DOMAIN loops :
    Innermost(i) # NULL /\ Segment(Innermost(i))[1] = loops[i].callee

\* What a native that waits goes back to, and what an error or a collection
\* leaves behind: every fiber something refers to is alive, the walk of
\* lang.backtrace() from any fiber ends, no fiber that can still be entered or
\* returned to carries an error, and each run loop works on its own chain.
LoopsSound == TypeOK /\ NoDanglingFiber /\ BacktraceTerminates /\ NoStaleError /\ LoopBaseIntact
=============================================================================
