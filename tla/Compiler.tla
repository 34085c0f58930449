------------------------------ MODULE Compiler ------------------------------
(***************************************************************************)
(* The single pass from statements to bytecode: scopes and locals, the     *)
(* size of the stack, captured variables, and jumps that are patched once  *)
(* their target is known.  A behaviour is the compilation of one program,  *)
(* chosen construct by construct; programs that are rejected are left out. *)
(*                                                                         *)
(* Instructions count as one position whatever their length, and those     *)
(* with the same effect on the stack are one: "push" is any of a value,    *)
(* "unary" and "binary" any that replaces one and two of them, "or" also   *)
(* AND.  A "constant" is a number that stands for arg operators that were  *)
(* folded.                                                                 *)
(***************************************************************************)
EXTENDS Integers, Sequences, FiniteSets, SequencesExt, FiniteSetsExt

CONSTANTS
  Name,      \* identifiers, none of them a builtin
  None,
  Practice,  \* what programs do, see below
  MaxArgs,   \* bound on the parameters of a function, the arguments of a call
  Syntax     \* constructs and how many: a program keeps to one of these

\* elif: an if expression has an elif, or no else.  fold: the left operand of an
\* operator on constants ends in one that a jump passes.  shadow: a for variable
\* has the name of a visible local.  self: a local is used in its own
\* initializer.  nested: a default value, or the right of a compound assignment,
\* defines a local.  breakout: a function in a loop breaks that loop.
ASSUME CompilerAssumption ==
  /\ None \notin Name
  /\ Practice \subseteq {"elif", "fold", "shadow", "self", "nested", "breakout"}
  /\ MaxArgs \in Nat
  /\ \A g \in Syntax : g.max \in Nat

VARIABLES
  funcs,     \* compiler->func after its outer functions
  loops,     \* compiler->loop after its outer loops
  depth,     \* scope_depth
  globals,   \* global_names
  newLocal,  \* new_local
  calls,     \* the compile functions under way and where they are
  module,    \* the functions that are complete, in constants
  steps,
  syntax     \* the constructs of this program, and the bound on steps

scope == <<loops, depth, globals, newLocal, module>>
vars == <<funcs, calls, scope, steps, syntax>>

DepthGlobal == -1

NewFunc(type) ==
  [type |-> type, depth |-> depth, locals |-> <<>>, upvalues |-> <<>>, params |-> <<>>,
   size |-> 0, max |-> 0, code |-> <<>>, binds |-> {}]

\* Where a compile function is: an expression begins (and may define a local),
\* an operand is complete, a statement of a block begins.
Prefix(define) == [k |-> "prefix", define |-> define]
Infix == [k |-> "infix", call |-> FALSE]
AfterCall == [k |-> "infix", call |-> TRUE]   \* is_last_call
Block(kind) == [k |-> "block", kind |-> kind]

Init ==
  /\ depth = DepthGlobal
  /\ funcs = <<[NewFunc("main") EXCEPT !.depth = DepthGlobal]>>
  /\ loops = <<>>
  /\ globals = {}
  /\ newLocal = FALSE
  /\ calls = <<Block("main")>>
  /\ module = <<>>
  /\ steps = 0
  /\ syntax \in Syntax

-----------------------------------------------------------------------------
(* Emitting *)

Instr(op, arg) == [op |-> op, arg |-> arg]

\* The third column of saynaa_opcodes.h.
Effect ==
  [push |-> 1, constant |-> 1, read |-> 1, closure |-> 1, write |-> 0, pop |-> -1, close |-> -1,
   unary |-> 0, binary |-> -1, append |-> -1, insert |-> -2, keep |-> 1, keepBoth |-> 1,
   setSubscript |-> -2, bind |-> -1, wildcard |-> 0, print |-> 0, call |-> 0, jump |-> 0, loop |-> 0, jumpIfNot |-> -1, or |-> -1,
   iterTest |-> 0, iter |-> 0, return |-> -1, end |-> 0]

EmitByte(f, op) == [f EXCEPT !.code = Append(@, Instr(op, 0))]

ChangeStack(f, n) ==
  [f EXCEPT !.size = @ + n, !.max = IF f.size + n > @ THEN f.size + n ELSE @]

\* emitOpcode with its operand; a jump that is to be patched has 0.
Emit(f, op, arg) ==
  ChangeStack([f EXCEPT !.code = Append(@, Instr(op, arg))], Effect[op])

\* patchJump of all positions in S: they lead to what is emitted next.
Patch(f, S) ==
  [f EXCEPT !.code =
     [i \in DOMAIN f.code |->
        IF i \in S THEN [f.code[i] EXCEPT !.arg = Len(f.code) + 1] ELSE f.code[i]]]

\* The position of the last instruction.
Here(f) == Len(f.code)

AddVariable(f, n, level, d) ==
  [f EXCEPT !.locals =
     Append(@, [name |-> n, depth |-> d, captured |-> FALSE,
                id |-> <<level, Here(f), Len(f.locals)>>])]

\* The value on top of the stack is now the last local (history).
Bind(f) == [f EXCEPT !.binds = @ \cup {<<Here(f) + 1, Last(f.locals).id>>}]

\* How many locals a walk from the last one leaves, that ends before depth d.
Outside(f, d) == Max({0} \cup {i \in DOMAIN f.locals : f.locals[i].depth < d})

\* compilerPopLocals: instructions only, for the last local first.
PopLocals(f, d) ==
  LET Pop(l) == Instr(IF l.captured THEN "close" ELSE "pop", 0)
      last == Len(f.locals)
  IN [f EXCEPT !.code = @ \o [i \in 1..last - Outside(f, d) |-> Pop(f.locals[last + 1 - i])]]

\* compilerExitBlock
ExitBlock(f) ==
  LET kept == Outside(f, depth)
  IN [PopLocals(f, depth) EXCEPT
        !.locals = SubSeq(f.locals, 1, kept), !.size = @ - (Len(f.locals) - kept)]

-----------------------------------------------------------------------------
(* Names.  fs is the functions under compilation. *)

FindLocal(f, n) ==
  LET found == {i \in DOMAIN f.locals : f.locals[i].name = n}
  IN IF found = {} THEN 0 ELSE Min(found)

\* The function that findLocal and findUpvalue find n in, or 0.
Level(fs, n) ==
  Max({0} \cup {m \in DOMAIN fs :
                  /\ FindLocal(fs[m], n) # 0
                  /\ \A j \in m + 1..Len(fs) : fs[j].depth > DepthGlobal})

Indices(f, id) == {u \in DOMAIN f.upvalues : f.upvalues[u].id = id}

AddUpvalueImmediate(fs, j, m, i) ==
  [fs EXCEPT ![j].upvalues = Append(@, [immediate |-> TRUE, id |-> fs[m].locals[i].id,
                                        index |-> i])]

\* addUpvalue in function j, for the local i of function m.
AddUpvalue(fs, j, m, i) ==
  LET id == fs[m].locals[i].id
      u == [immediate |-> j = m + 1, id |-> id,
            index |-> IF j = m + 1 THEN i ELSE Min(Indices(fs[j - 1], id))]
  IN IF \E v \in Range(fs[j].upvalues) : v.index = u.index /\ v.immediate = u.immediate
       THEN fs
       ELSE [fs EXCEPT ![j].upvalues = Append(@, u)]

CaptureUnmarked(fs, m, i) ==
  LET upto[j \in m..Len(fs)] == IF j = m THEN fs ELSE AddUpvalue(upto[j - 1], j, m, i)
  IN upto[Len(fs)]

\* findUpvalue: every function from m to the current one captures the variable.
Capture(fs, m, i) ==
  LET upto[j \in m..Len(fs)] ==
        IF j = m THEN [fs EXCEPT ![m].locals[i].captured = TRUE]
        ELSE AddUpvalue(upto[j - 1], j, m, i)
  IN upto[Len(fs)]

\* compilerSearchName
Search(fs, n) ==
  LET m == Level(fs, n)
      i == FindLocal(fs[m], n)
      gs == Capture(fs, m, i)
  IN CASE m = Len(fs) -> [funcs |-> fs, place |-> "local", index |-> i]
       [] m \in 1..Len(fs) - 1 ->
            [funcs |-> gs, place |-> "upvalue",
             index |-> Min(Indices(Last(gs), fs[m].locals[i].id))]
       [] m = 0 ->
            [funcs |-> fs, place |-> IF n \in globals THEN "global" ELSE "none", index |-> 0]

\* What n means in the source: the variable declared last, in the innermost
\* function that has one.
Meaning(fs, n) ==
  LET having == {m \in DOMAIN fs : \E l \in Range(fs[m].locals) : l.name = n}
      locals == fs[Max(having)].locals
  IN IF having = {} THEN None ELSE locals[Max({i \in DOMAIN locals : locals[i].name = n})].id

\* The operand of an instruction that reads or writes the variable s found.
Access(s, id) ==
  [place |-> IF s.place = "none" THEN "global" ELSE s.place, index |-> s.index, id |-> id]

-----------------------------------------------------------------------------
(* Steps of the compile functions.  The head of calls is where they are. *)

F == Last(funcs)
AtGlobal == F.type = "main" /\ depth = DepthGlobal

At(k) == calls # <<>> /\ Head(calls).k = k

\* Of the functions fs the current one becomes f, and frames are what is left of
\* the construct.
Update(fs, f, frames) ==
  /\ funcs' = [fs EXCEPT ![Len(fs)] = f]
  /\ calls' = frames \o Tail(calls)

Continue(f, frames) == Update(funcs, f, frames)

\* A statement: its block goes on after frames.
Statement(f, frames) == At("block") /\ Continue(f, frames \o <<Head(calls)>>)

Construct(c) ==
  /\ c \in syntax.of /\ steps < syntax.max
  /\ steps' = steps + 1
  /\ UNCHANGED syntax

Rest == UNCHANGED <<steps, syntax>>

\* A jump, and where its target is known.
Jump(f, op) == Emit(f, op, 0)
Target(f) == [k |-> "target", patch |-> Here(f)]

ExprStatement ==
  /\ "expression" \in syntax.of /\ steps < syntax.max
  /\ Statement(F, <<Prefix(TRUE), [k |-> "statement"]>>)
  /\ newLocal' = FALSE
  /\ UNCHANGED <<loops, depth, globals, module>> /\ Rest

EndStatement ==
  /\ At("statement")
  /\ LET f == IF "repl" \in syntax.of /\ Len(funcs) = 1 THEN Emit(F, "print", 0) ELSE F
     IN Continue(IF newLocal THEN f ELSE Emit(f, "pop", 0), <<>>)
  /\ newLocal' = FALSE
  /\ UNCHANGED <<loops, depth, globals, module>> /\ Rest

If ==
  /\ Construct("if")
  /\ Statement(F, <<Prefix(FALSE), [k |-> "ifCond"]>>)
  /\ UNCHANGED scope

IfThen ==
  /\ At("ifCond")
  /\ LET f == Jump(F, "jumpIfNot")
     IN Continue(f, <<Block("if"), [k |-> "ifBody", patch |-> Here(f)]>>)
  /\ depth' = depth + 1
  /\ UNCHANGED <<loops, globals, newLocal, module>> /\ Rest

\* Jumps over what came since lead here.
EndJump ==
  /\ At("target") \/ At("ifBody")
  /\ Continue(Patch(F, {Head(calls).patch}), <<>>)
  /\ UNCHANGED scope /\ Rest

Else ==
  /\ At("ifBody")
  /\ LET f == Jump(F, "jump")
     IN Continue(Patch(f, {Head(calls).patch}),
                 <<Block("else"), Target(f)>>)
  /\ depth' = depth + 1
  /\ UNCHANGED <<loops, globals, newLocal, module>> /\ Rest

ElseIf ==
  /\ Construct("elif")
  /\ At("ifBody")
  /\ LET f == Jump(F, "jump")
     IN Continue(Patch(f, {Head(calls).patch}),
                 <<Prefix(FALSE), [k |-> "ifCond"], [k |-> "exitElif"], Target(f)>>)
  /\ depth' = depth + 1
  /\ UNCHANGED <<loops, globals, newLocal, module>>

\* After the inner if, which has a block of its own.
ExitElseIf ==
  /\ At("exitElif")
  /\ Continue(ExitBlock(F), <<>>)
  /\ depth' = depth - 1
  /\ UNCHANGED <<loops, globals, newLocal, module>> /\ Rest

-----------------------------------------------------------------------------
(* Loops *)

Loop(f) == [start |-> Here(f) + 1, patches |-> {}, depth |-> depth, level |-> Len(funcs)]

While ==
  /\ Construct("while")
  /\ Statement(F, <<Prefix(FALSE), [k |-> "whileCond"]>>)
  /\ loops' = <<Loop(F)>> \o loops
  /\ UNCHANGED <<depth, globals, newLocal, module>>

WhileBody ==
  /\ At("whileCond")
  /\ LET f == Jump(F, "jumpIfNot")
     IN Continue(f, <<Block("loop"), [k |-> "endLoop", patch |-> Here(f)]>>)
  /\ depth' = depth + 1
  /\ UNCHANGED <<loops, globals, newLocal, module>> /\ Rest

For(n) ==
  /\ Construct("for")
  /\ Statement(AddVariable(F, "@Sequence", Len(funcs), depth + 1),
               <<Prefix(FALSE), [k |-> "forSequence", name |-> n]>>)
  /\ FindLocal(F, n) = 0 \/ "shadow" \in Practice
  /\ depth' = depth + 1
  /\ UNCHANGED <<loops, globals, newLocal, module>>

ForBody ==
  /\ At("forSequence")
  /\ LET New(f, n) == Bind(Emit(AddVariable(f, n, Len(funcs), depth), "push", 0))
         test == Emit(New(New(Bind(F), "@iterator"), Head(calls).name), "iterTest", 0)
         f == Jump(test, "iter")
     IN /\ Continue(f, <<Block("loop"), [k |-> "endLoop", patch |-> Here(f)], [k |-> "endFor"]>>)
        /\ loops' = <<Loop(test)>> \o loops
  /\ depth' = depth + 1
  /\ UNCHANGED <<globals, newLocal, module>> /\ Rest

\* emitLoopJump, then the exit of the loop and its breaks are patched.
EndLoop ==
  /\ At("endLoop")
  /\ Continue(Patch(Emit(F, "loop", Head(loops).start),
                    {Head(calls).patch} \cup Head(loops).patches), <<>>)
  /\ loops' = Tail(loops)
  /\ UNCHANGED <<depth, globals, newLocal, module>> /\ Rest

EndFor ==
  /\ At("endFor")
  /\ Continue(ExitBlock(F), <<>>)
  /\ depth' = depth - 1
  /\ UNCHANGED <<loops, globals, newLocal, module>> /\ Rest

InLoop == loops # <<>> /\ (Head(loops).level = Len(funcs) \/ "breakout" \in Practice)

BreakKeepingLocals ==
  /\ Construct("break")
  /\ InLoop
  /\ LET f == Jump(F, "jump")
     IN /\ Statement(f, <<>>)
        /\ loops' = [loops EXCEPT ![1].patches = @ \cup {Here(f)}]
  /\ UNCHANGED <<depth, globals, newLocal, module>>

Break ==
  /\ Construct("break")
  /\ InLoop
  /\ LET f == Jump(PopLocals(F, Head(loops).depth + 1), "jump")
     IN /\ Statement(f, <<>>)
        /\ loops' = [loops EXCEPT ![1].patches = @ \cup {Here(f)}]
  /\ UNCHANGED <<depth, globals, newLocal, module>>

ContinueLoop ==
  /\ Construct("continue")
  /\ InLoop
  /\ Statement(Emit(PopLocals(F, Head(loops).depth + 1), "loop", Head(loops).start), <<>>)
  /\ UNCHANGED scope

-----------------------------------------------------------------------------
(* Functions *)

\* A body that the host runs may return.
MayReturn == Construct("return") /\ (depth # DepthGlobal \/ "runtime" \in syntax.of)

Return ==
  /\ MayReturn
  /\ Statement(F, <<Prefix(FALSE), [k |-> "return"]>>) /\ F.type # "constructor"
  /\ UNCHANGED scope

\* null is returned, or this.
ReturnNothing ==
  /\ MayReturn
  /\ Statement(Emit(Emit(F, "push", 0), "return", 0), <<>>)
  /\ UNCHANGED scope

EndReturn ==
  /\ At("return")
  /\ Continue(Emit(F, "return", 0), <<>>)
  /\ UNCHANGED scope /\ Rest

\* compileFunction, which goes on with the parameters; rest is what follows it.
PushFunc(type, n, rest) ==
  /\ Construct(type)
  /\ funcs' = Append(funcs, NewFunc(type))
  /\ calls' = <<[k |-> "params"], [k |-> "function", name |-> n]>> \o rest
  /\ depth' = depth + 1

TopLevelFunction(n) ==
  /\ At("block") /\ Head(calls).kind = "main"
  /\ PushFunc("toplevel", n, calls)
  /\ globals' = globals \cup {n}
  /\ UNCHANGED <<loops, newLocal, module>>

NamedFunction(n) ==
  /\ At("block") /\ Head(calls).kind # "main"
  /\ PushFunc("named", n, calls)
  /\ UNCHANGED <<loops, globals, newLocal, module>>

FunctionLiteral ==
  /\ At("prefix")
  /\ PushFunc("literal", None, <<Infix>> \o Tail(calls))
  /\ UNCHANGED <<loops, globals, newLocal, module>>

AddParameter(n) ==
  LET f == AddVariable(F, n, Len(funcs), depth)
  IN [f EXCEPT !.params = Append(@, Last(f.locals).id)]

Parameter(n) ==
  /\ At("params") /\ FindLocal(F, n) = 0 /\ Len(F.params) < MaxArgs
  /\ Construct("parameter")
  /\ Continue(AddParameter(n), <<Head(calls)>>)
  /\ UNCHANGED scope

\* if (n == null) then n = value
DefaultParameter(n) ==
  /\ At("params") /\ FindLocal(F, n) = 0 /\ Len(F.params) < MaxArgs
  /\ Construct("default")
  /\ LET f == AddParameter(n)
         a == [place |-> "local", index |-> Len(f.locals), id |-> Last(f.locals).id]
         g == Jump(Emit(Emit(Emit(f, "read", a), "push", 0), "binary", 0), "jumpIfNot")
     IN Continue(g, <<Prefix("nested" \in Practice),
                      [k |-> "default", access |-> a, patch |-> Here(g)], Head(calls)>>)
  /\ UNCHANGED scope

EndDefault ==
  /\ At("default")
  /\ Continue(Patch(Emit(Emit(F, "write", Head(calls).access), "pop", 0),
                    {Head(calls).patch}), <<>>)
  /\ UNCHANGED scope /\ Rest

FunctionBody ==
  /\ At("params")
  /\ Continue(ChangeStack(F, Len(F.params)), <<Block("function")>>)
  /\ depth' = depth + 1
  /\ UNCHANGED <<loops, globals, newLocal, module>> /\ Rest

StoreGlobal(f) ==
  Emit(Emit(f, "write", [place |-> "global", index |-> 0, id |-> None]), "pop", 0)

\* emitFunctionEnd.  The implicit return does not count.
EmitFunctionEnd(f) == Emit(EmitByte(f, "return"), "end", 0)

\* Where a named function goes, once its closure is on the stack.
Store(fs, n) ==
  LET s == Search(fs, n)
      f == Last(s.funcs)
      local == s.place = "none" /\ ~(f.type = "main" /\ depth - 1 = DepthGlobal)
      stored == IF local THEN Bind(AddVariable(f, n, Len(fs), depth - 1))
                ELSE Emit(Emit(f, "write", Access(s, Meaning(fs, n))), "pop", 0)
  IN [s.funcs EXCEPT ![Len(fs)] = stored]

EndFunction ==
  /\ At("function")
  /\ LET this == IF F.type = "constructor" THEN Emit(Emit(F, "push", 0), "return", 0) ELSE F
         f == EmitFunctionEnd(ExitBlock(this))
         outer == Front(funcs)
         fs == [outer EXCEPT ![Len(outer)] = Emit(@, "closure", f.upvalues)]
     IN /\ funcs' = CASE f.type = "literal" -> fs
                      [] f.type = "named" -> Store(fs, Head(calls).name)
                      [] f.type = "toplevel" -> [fs EXCEPT ![1] = StoreGlobal(@)]
                      [] f.type \in {"method", "constructor"} -> [fs EXCEPT ![1] = Emit(@, "bind", 0)]
        /\ module' = Append(module, f)
  /\ calls' = Tail(calls)
  /\ depth' = depth - 1
  /\ UNCHANGED <<loops, globals, newLocal>> /\ Rest

EndBlock ==
  /\ At("block") /\ Head(calls).kind # "main"
  /\ Continue(ExitBlock(F), <<>>)
  /\ depth' = depth - 1
  /\ UNCHANGED <<loops, globals, newLocal, module>> /\ Rest

EndProgram ==
  /\ At("block") /\ Head(calls).kind = "main"
  /\ module' = Append(module, EmitFunctionEnd(F))
  /\ funcs' = <<>>
  /\ calls' = <<>>
  /\ UNCHANGED <<loops, depth, globals, newLocal>> /\ Rest

-----------------------------------------------------------------------------
(* Expressions.  As an operand can be in parentheses, any can be a tree, and *)
(* any can be an assignment to a variable that exists.                       *)

\* What is returned is a call: unless for debugging, its instruction is changed.
TailCall(f) == [f EXCEPT !.code[Here(f)].op = "tailCall"]

\* parsePrecedence ends.
EndExpression ==
  /\ At("infix")
  /\ Continue(IF Head(calls).call /\ calls[2].k = "return" /\ "tail" \in syntax.of THEN TailCall(F) ELSE F,
              <<>>)
  /\ UNCHANGED scope /\ Rest

\* A number.
Literal ==
  /\ At("prefix")
  /\ Continue(Emit(F, "constant", 0), <<Infix>>)
  /\ UNCHANGED scope
  /\ IF calls[2].k = "statement" THEN Construct("expression") ELSE Rest

\* id is of a local whose initializer is under way, and does not begin with the
\* function that is being compiled.
Pending(id) ==
  \E i \in DOMAIN calls :
    /\ calls[i].k = "assign" /\ calls[i].define
    /\ calls[i].access.id = id
    /\ i > 2 => calls[i - 2].k # "function"

\* The names a program uses.
Usable(n) == "self" \in Practice \/ ~Pending(Meaning(funcs, n))

\* exprName with nothing assigned: a name not found is taken for a global.
Read(n) ==
  /\ At("prefix") /\ Construct("read") /\ Usable(n)
  /\ LET s == Search(funcs, n)
     IN Update(s.funcs, Emit(Last(s.funcs), "read", Access(s, Meaning(funcs, n))), <<Infix>>)
  /\ UNCHANGED scope

\* name = value.  A new local is added before its value is compiled.
Assign(n) ==
  /\ At("prefix") /\ Construct("assign") /\ Usable(n)
  /\ LET s == Search(funcs, n)
         new == s.place = "none"
         define == new /\ ~AtGlobal
         f == IF define THEN AddVariable(F, n, Len(funcs), depth) ELSE Last(s.funcs)
         a == IF define THEN [place |-> "local", index |-> Len(f.locals), id |-> Last(f.locals).id]
              ELSE Access(s, Meaning(funcs, n))
     IN /\ new => Head(calls).define
        /\ Update(s.funcs, f, <<Prefix(FALSE), [k |-> "assign", access |-> a, define |-> define]>>)
        /\ globals' = IF new /\ AtGlobal THEN globals \cup {n} ELSE globals
  /\ UNCHANGED <<loops, depth, newLocal, module>>

EndAssign ==
  /\ At("assign")
  /\ IF Head(calls).define
       THEN Continue(Bind(F), <<>>) /\ newLocal' = TRUE
       ELSE Continue(Emit(F, "write", Head(calls).access), <<>>) /\ UNCHANGED newLocal
  /\ UNCHANGED <<loops, depth, globals, module>> /\ Rest

\* name += value and the like
AssignOp(n) ==
  /\ At("prefix") /\ Construct("compound") /\ Usable(n)
  /\ LET s == Search(funcs, n)
         a == Access(s, Meaning(funcs, n))
     IN Update(s.funcs, Emit(Last(s.funcs), "read", a),
               <<Prefix(Head(calls).define /\ (AtGlobal \/ "nested" \in Practice)),
                 [k |-> "assignOp", access |-> a]>>)
  /\ UNCHANGED scope

EndAssignOp ==
  /\ At("assignOp")
  /\ Continue(Emit(Emit(F, "binary", 0), "write", Head(calls).access), <<>>)
  /\ UNCHANGED scope /\ Rest

EmitCall(f, n) == ChangeStack(Emit(f, "call", n), -n)

\* The arguments, then the call; after is what the expression goes on with.
Arguments(after) == [k |-> "call", args |-> 0, after |-> after]

\* A call with arguments in parentheses.
Call ==
  /\ At("infix") /\ Construct("call")
  /\ Continue(F, <<Arguments(AfterCall)>>)
  /\ UNCHANGED scope

\* Of a method; or with a function for its argument and without parentheses.
MethodCall ==
  /\ At("infix") /\ Construct("methodCall")
  /\ Continue(F, <<Arguments(Infix)>>)
  /\ UNCHANGED scope

Argument ==
  /\ At("call") /\ Head(calls).args < MaxArgs
  /\ Continue(F, <<Prefix(FALSE), [Head(calls) EXCEPT !.args = @ + 1]>>)
  /\ UNCHANGED scope /\ Rest

EndCall ==
  /\ At("call")
  /\ Continue(EmitCall(F, Head(calls).args), <<Head(calls).after>>)
  /\ UNCHANGED scope /\ Rest

Binary ==
  /\ At("infix") /\ Construct("binary")
  /\ Continue(F, <<Prefix(FALSE), [k |-> "binary"]>>)
  /\ UNCHANGED scope

\* tryFoldBinaryConstants looks for a number in each of the last two instructions.
Foldable(f) ==
  \A p \in {Here(f) - 1, Here(f)} : p \in DOMAIN f.code /\ f.code[p].op = "constant"

FoldTooFar(f) ==
  LET n == Here(f)
  IN [f EXCEPT !.code = Append(SubSeq(@, 1, n - 3), Instr("constant", 1)), !.size = @ - 1]

Fold(f) ==
  LET n == Here(f)
  IN [f EXCEPT !.code = Append(SubSeq(@, 1, n - 2),
                               Instr("constant", @[n - 1].arg + @[n].arg + 1)),
               !.size = @ - 1]

\* A jump leads to the right constant: the left operand is more than a constant.
JumpedTo(f) ==
  \E i \in Range(f.code) : i.op \in {"jump", "jumpIfNot", "or"} /\ i.arg = Here(f)

\* With + - * / and the comparisons, or with the other operators.
EndBinary ==
  /\ At("binary")
  /\ \/ /\ Foldable(F)
        /\ JumpedTo(F) => "fold" \in Practice
        /\ Continue(Fold(F), <<Infix>>)
     \/ Continue(Emit(F, "binary", 0), <<Infix>>)
  /\ UNCHANGED scope /\ Rest

\* Also exprAnd.
Or ==
  /\ At("infix") /\ Construct("or")
  /\ LET f == Jump(F, "or")
     IN Continue(f, <<Prefix(FALSE), Target(f), Infix>>)
  /\ UNCHANGED scope

\* condition ? value : value
Conditional ==
  /\ At("infix") /\ Construct("conditional")
  /\ LET f == Jump(F, "jumpIfNot")
     IN Continue(f, <<Prefix(FALSE), [k |-> "colon", patch |-> Here(f)]>>)
  /\ UNCHANGED scope

Colon ==
  /\ At("colon")
  /\ LET f == Jump(F, "jump")
     IN Continue(ChangeStack(Patch(f, {Head(calls).patch}), -1),
                 <<Prefix(FALSE), Target(f), Infix>>)
  /\ UNCHANGED scope /\ Rest

\* if condition then value else value
IfExpression ==
  /\ At("prefix") /\ Construct("ifexpr")
  /\ Continue(F, <<Prefix(FALSE), [k |-> "ifValue"], Infix>>)
  /\ UNCHANGED scope

IfValue ==
  /\ At("ifValue")
  /\ LET f == Jump(F, "jumpIfNot")
     IN Continue(f, <<Prefix(FALSE), [k |-> "elseValue", patch |-> Here(f)]>>)
  /\ UNCHANGED scope /\ Rest

\* What an if expression may go on with after its value.
Endings == IF "elif" \in Practice THEN {"else", "elif", "none"} ELSE {"else"}

\* The exit is patched only after else.
ElseValue(ending) ==
  /\ At("elseValue")
  /\ LET f == Jump(F, "jump")
         g == Patch(f, {Head(calls).patch})
         value == <<Prefix(FALSE)>>
     IN Continue(IF ending = "none" THEN ChangeStack(g, -1) ELSE g,
                 [else |-> value \o <<Target(f), [k |-> "endIf"]>>,
                  elif |-> value \o <<[k |-> "ifValue"], [k |-> "endIf"]>>,
                  none |-> <<>>][ending])
  /\ UNCHANGED scope /\ Rest

EndIfExpression ==
  /\ At("endIf")
  /\ Continue(ChangeStack(F, -1), <<>>)
  /\ UNCHANGED scope /\ Rest

-----------------------------------------------------------------------------
(* Lists, maps, strings with interpolations, attributes, subscripts *)

\* true, false, null.
Value ==
  /\ At("prefix") /\ Construct("value")
  /\ Continue(Emit(F, "push", 0), <<Infix>>)
  /\ UNCHANGED scope

Unary ==
  /\ At("prefix") /\ Construct("unary")
  /\ Continue(F, <<Prefix(FALSE), [k |-> "unary"], Infix>>)
  /\ UNCHANGED scope

EndUnary ==
  /\ At("unary")
  /\ Continue(Emit(F, "unary", 0), <<>>)
  /\ UNCHANGED scope /\ Rest

\* The elements, each with its instruction.
Elements(map) == [k |-> "elements", map |-> map, count |-> 0]

List ==
  /\ At("prefix") /\ Construct("list")
  /\ Continue(Emit(F, "push", 0), <<Elements(FALSE)>>)
  /\ UNCHANGED scope

Map ==
  /\ At("prefix") /\ Construct("map")
  /\ Continue(Emit(F, "push", 0), <<Elements(TRUE)>>)
  /\ UNCHANGED scope

NextElement == [Head(calls) EXCEPT !.count = @ + 1]
MayGoOn == At("elements") /\ Head(calls).count < MaxArgs

\* {value}, also in a map.
Element ==
  /\ MayGoOn
  /\ Continue(F, <<Prefix(FALSE), [k |-> "append"], NextElement>>)
  /\ UNCHANGED scope /\ Rest

\* {name: value}
NamedElement ==
  /\ MayGoOn /\ Head(calls).map
  /\ Continue(Emit(F, "push", 0), <<Prefix(FALSE), [k |-> "insert"], NextElement>>)
  /\ UNCHANGED scope /\ Rest

\* {key: value}
KeyElement ==
  /\ MayGoOn /\ Head(calls).map
  /\ Continue(F, <<Prefix(FALSE), [k |-> "key"], NextElement>>)
  /\ UNCHANGED scope /\ Rest

EndKey ==
  /\ At("key")
  /\ Continue(F, <<Prefix(FALSE), [k |-> "insert"]>>)
  /\ UNCHANGED scope /\ Rest

EndElements ==
  /\ At("elements")
  /\ Continue(F, <<Infix>>)
  /\ UNCHANGED scope /\ Rest

EndElement ==
  /\ At("append") \/ At("insert")
  /\ Continue(Emit(F, Head(calls).k, 0), <<>>)
  /\ UNCHANGED scope /\ Rest

\* The strings and values of a string are joined in a list, list_join below it.
EmitPart(f) == Emit(Emit(f, "push", 0), "append", 0)
Part == <<Prefix(FALSE), [k |-> "append"], [k |-> "join"]>>

Interpolation ==
  /\ At("prefix") /\ Construct("interpolation")
  /\ Continue(EmitPart(Emit(Emit(F, "push", 0), "push", 0)), Part \o <<Infix>>)
  /\ UNCHANGED scope

Interpolated ==
  /\ At("join") /\ Construct("interpolation")
  /\ Continue(EmitPart(F), Part)
  /\ UNCHANGED scope

\* The last string is left out if it is empty.
Join(empty) ==
  /\ At("join")
  /\ Continue(EmitCall(IF empty THEN F ELSE EmitPart(F), 1), <<>>)
  /\ UNCHANGED scope /\ Rest

Attrib ==
  /\ At("infix") /\ Construct("attrib")
  /\ Continue(Emit(F, "unary", 0), <<Infix>>)
  /\ UNCHANGED scope

\* value.name = value, and += and the like
SetAttrib(compound) ==
  /\ At("infix") /\ Construct("setAttrib")
  /\ Continue(IF compound THEN Emit(F, "keep", 0) ELSE F,
              <<Prefix(FALSE), [k |-> "set", compound |-> compound, op |-> "binary"]>>)
  /\ UNCHANGED scope

\* value[value], value[value] = value, and += and the like
Subscript(kind) ==
  /\ At("infix") /\ Construct("subscript")
  /\ Continue(F, <<Prefix(FALSE), [k |-> "subscript", kind |-> kind]>>)
  /\ UNCHANGED scope

EndSubscript ==
  /\ At("subscript")
  /\ LET kind == Head(calls).kind
     IN Continue(CASE kind = "get" -> Emit(F, "binary", 0) [] kind = "compound" -> Emit(F, "keepBoth", 0) [] OTHER -> F,
                 IF kind = "get" THEN <<Infix>>
                 ELSE <<Prefix(FALSE), [k |-> "set", compound |-> kind = "compound", op |-> "setSubscript"]>>)
  /\ UNCHANGED scope /\ Rest

EndSet ==
  /\ At("set")
  /\ Continue(Emit(IF Head(calls).compound THEN Emit(F, "binary", 0) ELSE F, Head(calls).op, 0), <<>>)
  /\ UNCHANGED scope /\ Rest

-----------------------------------------------------------------------------
(* Classes and imports, at the top level *)

\* The class stays on the stack while its methods are bound to it.
Class(n, parent) ==
  /\ At("block") /\ Head(calls).kind = "main" /\ Construct("class")
  /\ LET super == IF parent = None THEN Emit(F, "push", 0)
                  ELSE Emit(F, "read", Access(Search(funcs, parent), Meaning(funcs, parent)))
     IN Continue(Emit(super, "unary", 0), <<[k |-> "class", name |-> n], Head(calls)>>)
  /\ UNCHANGED scope

Method(type) ==
  /\ At("class")
  /\ PushFunc(type, None, calls)
  /\ UNCHANGED <<loops, globals, newLocal, module>>

EndClass ==
  /\ At("class")
  /\ Continue(StoreGlobal(F), <<>>)
  /\ globals' = globals \cup {Head(calls).name}
  /\ UNCHANGED <<loops, depth, newLocal, module>> /\ Rest

InMethod == F.type \in {"method", "constructor"}

This ==
  /\ At("prefix") /\ InMethod /\ Construct("this")
  /\ Continue(Emit(F, "push", 0), <<Infix>>)
  /\ UNCHANGED scope

Super ==
  /\ At("prefix") /\ InMethod /\ Construct("super")
  /\ Continue(Emit(F, "push", 0), <<Arguments(Infix)>>)
  /\ UNCHANGED scope

\* import path as n
Import(n) ==
  /\ At("block") /\ Head(calls).kind = "main" /\ Construct("import")
  /\ Statement(StoreGlobal(Emit(F, "push", 0)), <<>>)
  /\ globals' = globals \cup {n}
  /\ UNCHANGED <<loops, depth, newLocal, module>>

\* from path import names
FromImport(names) ==
  /\ At("block") /\ Head(calls).kind = "main" /\ Construct("from")
  /\ Statement(Emit(F, "push", 0), <<[k |-> "from", names |-> names]>>)
  /\ UNCHANGED scope

ImportName(n) ==
  /\ At("from") /\ n \in Head(calls).names
  /\ Continue(StoreGlobal(Emit(F, "keep", 0)), <<[k |-> "from", names |-> Head(calls).names \ {n}]>>)
  /\ globals' = globals \cup {n}
  /\ UNCHANGED <<loops, depth, newLocal, module>> /\ Rest

EndFrom ==
  /\ At("from") /\ Head(calls).names = {}
  /\ Continue(Emit(F, "pop", 0), <<>>)
  /\ UNCHANGED scope /\ Rest

WildcardImport ==
  /\ At("block") /\ Head(calls).kind = "main" /\ Construct("wildcard")
  /\ Statement(Emit(F, "wildcard", 0), <<>>)
  /\ UNCHANGED scope

-----------------------------------------------------------------------------
Done == calls = <<>> /\ UNCHANGED vars

Next ==
  \/ ExprStatement \/ EndStatement \/ EndJump
  \/ If \/ IfThen \/ Else \/ ElseIf \/ ExitElseIf
  \/ While \/ WhileBody \/ ForBody \/ EndLoop \/ EndFor \/ Break \/ ContinueLoop
  \/ Return \/ EndReturn \/ FunctionLiteral \/ EndDefault \/ FunctionBody \/ EndFunction
  \/ EndBlock \/ EndProgram \/ Done
  \/ EndExpression \/ Literal \/ EndAssign \/ EndAssignOp \/ EndCall \/ Binary \/ EndBinary
  \/ Or \/ Conditional \/ Colon
  \/ IfExpression \/ IfValue \/ EndIfExpression
  \/ \E ending \in Endings : ElseValue(ending)
  \/ ReturnNothing \/ Value \/ Unary \/ EndUnary \/ EndElement
  \/ Interpolation \/ Interpolated \/ \E empty \in BOOLEAN : Join(empty)
  \/ Attrib \/ EndSubscript \/ EndSet \/ \E compound \in BOOLEAN : SetAttrib(compound)
  \/ \E kind \in {"get", "set", "compound"} : Subscript(kind)
  \/ EndClass \/ This \/ WildcardImport \/ \E type \in {"method", "constructor"} : Method(type)
  \/ \E n \in Name, parent \in Name \cup {None} : Class(n, parent)
  \/ EndFrom \/ \E names \in SUBSET Name \ {{}} : FromImport(names)
  \/ Call \/ MethodCall \/ Super \/ Argument
  \/ List \/ Map \/ Element \/ NamedElement \/ KeyElement \/ EndKey \/ EndElements
  \/ \E n \in Name :
       \/ For(n) \/ TopLevelFunction(n) \/ NamedFunction(n) \/ Parameter(n) \/ DefaultParameter(n)
       \/ Read(n) \/ Assign(n) \/ AssignOp(n) \/ Import(n) \/ ImportName(n)

Spec == Init /\ [][Next]_vars

-----------------------------------------------------------------------------
(* What the stack of a function is when each of its instructions is reached:   *)
(* for every position the set of such stacks, of ids of locals and None for a  *)
(* value without a name.                                                       *)

Drop(s, n) == SubSeq(s, 1, Len(s) - n)

\* How many values an instruction finds on the stack at least.
Needs(i) ==
  CASE i.op \in {"pop", "close", "or", "jumpIfNot", "write", "return", "unary", "keep", "print"} -> 1
    [] i.op \in {"binary", "append", "bind", "keepBoth"} -> 2
    [] i.op \in {"call", "tailCall"} -> i.arg + 1
    [] i.op \in {"iterTest", "iter", "insert", "setSubscript"} -> 3
    [] OTHER -> 0

\* Those that it takes off, and those that leave a value in their place.
Takes(i) ==
  CASE i.op \in {"pop", "close", "append", "bind", "unary", "jumpIfNot", "or"} -> 1
    [] i.op \in {"binary", "insert"} -> 2
    [] i.op = "setSubscript" -> 3
    [] i.op \in {"call", "tailCall"} -> i.arg + 1
    [] OTHER -> 0

Leaving == {"push", "constant", "read", "closure", "keep", "keepBoth", "unary", "binary",
            "setSubscript", "call", "tailCall"}
Leaves(i) == IF i.op \in Leaving THEN 1 ELSE 0

Jumps == {"jump", "jumpIfNot", "or", "iter", "loop"}
Breaks == {"jump", "loop", "return", "end"}   \* The next instruction is not reached.

\* The positions and stacks after instruction i at p, which finds the stack s.
After(i, p, s) ==
  (IF i.op \in Breaks THEN {}
   ELSE {<<p + 1, Drop(s, Takes(i)) \o [j \in 1..Leaves(i) |-> None]>>})
  \cup (IF i.op \in Jumps THEN {<<i.arg, IF i.op = "jumpIfNot" THEN Drop(s, 1) ELSE s>>} ELSE {})

\* The top of the stack gets the name of the local that was bound here.
Labelled(f, p, s) ==
  LET ids == {b[2] : b \in {c \in f.binds : c[1] = p}}
  IN IF ids = {} \/ s = <<>> THEN s ELSE Append(Drop(s, 1), CHOOSE id \in ids : TRUE)

\* With what comes from position q when it is reached with the stacks of at.
Onward(f, at, q) ==
  LET ways == UNION {After(f.code[q], q, s) : s \in at[q]}
  IN [p \in DOMAIN f.code |->
        at[p] \cup {Labelled(f, p, w[2]) : w \in {w \in ways : p > q /\ w[1] = p}}]

Flow(f) ==
  LET upto[q \in 0..Len(f.code)] ==
        IF q = 0 THEN [p \in DOMAIN f.code |-> IF p = 1 THEN {f.params} ELSE {}]
        ELSE LET at == upto[q - 1] IN Onward(f, at, q)
  IN upto[Len(f.code)]

-----------------------------------------------------------------------------
(* Properties, of the functions of a program that is complete *)

Functions == IF calls = <<>> THEN Range(module) ELSE {}

PathsAgreeIn(f) ==
  LET at == Flow(f)
      end == Len(f.code)
  IN /\ \A p \in DOMAIN f.code :
          /\ f.code[p].op \in Jumps => f.code[p].arg \in 1..end
          /\ Cardinality(at[p]) <= 1
          /\ \A s \in at[p] :
               /\ Len(s) <= f.max + Len(f.params)
               /\ p # end - 1 => Len(s) >= Needs(f.code[p])
               /\ f.code[p].op = "loop" => at[f.code[p].arg] = {s}
               /\ f.code[p].op = "tailCall" => f.code[p + 1].op = "return"
     /\ at[end - 1] \subseteq {<<>>}
     /\ at[end] = {}

\* Every jump is patched, all the ways to an instruction leave the same values on
\* the stack, there are enough of them for it, and no more than the function's
\* stack size; a tail call's value is returned; the function's end is only reached
\* with an empty stack.
PathsAgree == \A f \in Functions : PathsAgreeIn(f)

\* f with the stack s makes a closure that captures c.  That may be the local which
\* the closure is to initialize, in the slot it is put into.
Captures(f, s, c) ==
  IF c.immediate
    THEN \/ c.index \in DOMAIN s /\ s[c.index] = c.id
         \/ c.index = Len(s) + 1 /\ \E b \in f.binds : b[2] = c.id
    ELSE c.index \in DOMAIN f.upvalues /\ f.upvalues[c.index].id = c.id

Reaches(f, s, a) ==
  CASE a.place = "local" -> a.index \in DOMAIN s /\ s[a.index] = a.id
    [] a.place = "upvalue" -> a.index \in DOMAIN f.upvalues /\ f.upvalues[a.index].id = a.id
    [] a.place = "global" -> a.id = None

\* As the compiler asserts (in compileClass, compileTopLevelStatement, exprName):
\* between statements the stack counts as many values as there are locals, and
\* between methods the class alone.
Counted == /\ At("block") => F.size = Len(F.locals)
           /\ At("class") => F.size = 1

\* The stack is counted right, and wherever a name is read, written or captured, the slot or the upvalue in the
\* instruction is the one of the variable that the name means there.
VariablesInPlace == Counted /\
  \A f \in Functions :
    LET at == Flow(f)
    IN \A p \in DOMAIN f.code : \A s \in at[p] :
         /\ f.code[p].op \in {"read", "write"} => Reaches(f, s, f.code[p].arg)
         /\ f.code[p].op = "closure" => \A c \in Range(f.code[p].arg) : Captures(f, s, c)

\* A local that a closure has captured by then leaves the stack by being closed.
CapturedClosed ==
  \A f \in Functions :
    LET at == Flow(f)
        captured(p) == {c.id : c \in {c \in UNION {Range(f.code[q].arg) : q \in
                          {q \in 1..p - 1 : f.code[q].op = "closure"}} : c.immediate}}
    IN \A p \in DOMAIN f.code : \A s \in at[p] :
         f.code[p].op = "pop" /\ s # <<>> => Last(s) \notin captured(p)

\* What was compiled before the target of a jump is not changed any more.
TargetsKept ==
  [][\A m \in DOMAIN funcs \cap DOMAIN funcs' :
       LET code == funcs[m].code
       IN \A j \in DOMAIN code :
            code[j].op \in {"jump", "jumpIfNot", "or", "iter"} =>
              \A p \in 1..code[j].arg - 1 :
                /\ p \in DOMAIN funcs'[m].code
                /\ funcs'[m].code[p].op = code[p].op
                /\ funcs'[m].code[p].op = "constant" => funcs'[m].code[p].arg = code[p].arg]_vars
=============================================================================
