------------------------- MODULE UpvaluesRefinement -------------------------
(***************************************************************************)
(* Upvalues implements LexicalScope, as long as no tail call reuses a      *)
(* frame with captured locals and no pointer into freed memory arises.     *)
(***************************************************************************)
EXTENDS Upvalues

\* The closures that hold an upvalue.
HeldBy(S) == {c \in Closure : upvalue[c] \in S}

Scope ==
  [i \in 1..(IF frames = <<>> THEN 0 ELSE sp) |->
     [value |-> slots[i], by |-> HeldBy({u \in OnList : ptr[u] = i})]]

Outlived ==
  {[value |-> closed[u], by |-> HeldBy({u})] : u \in {w \in Held : ptr[w] = 0}}

Abstract == INSTANCE LexicalScope WITH local <- Scope, escaped <- Outlived

\* Through captures, shared upvalues, scope ends, returns, errors, collections
\* and new fibers, every closure that captured a variable and the function
\* that declared it read and write one and the same value (PUSH_CLOSURE,
\* PUSH_UPVALUE, STORE_UPVALUE, CLOSE_UPVALUE, CALL and RETURN of vmRunFiber).
Implements == Abstract!Spec
=============================================================================
