------------------------------- MODULE Library -------------------------------
(* The pure library code: one call at a time, on inputs of small sets. *)
EXTENDS Strings, Operators, Lexer, Bytecode, Path, Json, Numbers

Init == call = Idle
Next == CallString \/ CallOperator \/ CallLexer \/ CallBytecode \/ CallPath \/ CallJson \/ CallNumber \/ Return
Spec == Init /\ [][Next]_call
=============================================================================
