------------------------------ MODULE MCLibrary ------------------------------
(* Instance of the library for TLC. *)
EXTENDS Library

CONSTANT Byte_

Texts_(alphabet, n) == UNION {[1..k -> alphabet] : k \in 0..n}
MCFolding == {<<"A", "a">>}
MCLiteral == {NewString(d) : d \in Texts_(Byte_, 3)}
MCArgument == {NewString(d) : d \in Texts_(Byte_ \ {"sp"}, 2)}

MCOrder == [c \in Byte_ |-> CASE c = "sp" -> 1 [] c = "pct" -> 2 [] c = "A" -> 3 [] OTHER -> 4]
MCValue == {Num(0), Num(1), Bool(TRUE), Null} \cup {Str(d) : d \in Texts_({"a", "A"}, 2)}
           \cup {ListOf("l1"), ListOf("l2"), MapOf("m1"), MapOf("m2")}

\* Lists and maps that hold values, and lists that hold one another without
\* and with a cycle.
Plain == {<<>>, <<Num(1)>>, <<Num(1), Num(0)>>, <<Str(<<"a">>)>>}
Pairs == {<<>>, <<<<Str(<<"a">>), Num(1)>>>>, <<<<Str(<<"a">>), Num(0)>>>>,
          <<<<Num(0), Num(1)>>, <<Str(<<"a">>), Num(1)>>>>}
MCHeaps ==
  {[id \in {"l1", "l2", "m1", "m2"} |-> CASE id = "l1" -> l [] id = "l2" -> k [] id = "m1" -> m [] OTHER -> n] :
     l \in Plain \cup {<<ListOf("l2")>>, <<MapOf("m1"), Num(1)>>}, k \in Plain, m \in Pairs, n \in Pairs}
MCCyclic ==
  {[id \in {"l1", "l2", "m1", "m2"} |-> CASE id = "l1" -> <<ListOf("l2"), Num(1)>> [] id = "l2" -> k [] id = "m1" -> m [] OTHER -> <<>>] :
     k \in {<<ListOf("l1")>>, <<MapOf("m1"), ListOf("l2")>>}, m \in {<<<<Num(0), ListOf("l1")>>, <<Num(1), MapOf("m1")>>>>}}

\* Strings that hold names, braces and strings, to the limit of nesting and
\* one past it.
TextPart(t) == [k |-> "text", text |-> t]
VarPart == [k |-> "var"]
ExprPart(n, blank) == [k |-> "expr", of |-> n, blank |-> blank]
Name == [k |-> "name"]
Braces(n) == [k |-> "braces", of |-> n]
StringOf(quote, parts) == [k |-> "str", quote |-> quote, parts |-> parts]
Written_ == {<<>>, <<"!">>, <<"$", "{">>, <<"}", "\"">>, <<"'", "\\">>}
Blanks == {<<>>, <<" ">>, <<"/", "*", "}", "\"", "*", "/">>}
Over(nodes, blanks, texts) ==
  {StringOf("\"", <<TextPart(t), ExprPart(n, b), TextPart(u)>>) : n \in nodes, b \in blanks, t, u \in texts}
Level0 == {Name, Braces(Name)} \cup {StringOf(q, <<TextPart(t)>>) : q \in {"\"", "'"}, t \in Written_}
          \cup {StringOf("\"", <<TextPart(t), VarPart, TextPart(u)>>) : t \in Written_, u \in {<<>>, <<"!">>, <<"}", "\"">>}}
Level1 == Over(Level0, Blanks, {<<>>, <<"}", "\"">>}) \cup {StringOf("\"", <<TextPart(<<>>), ExprPart(n, <<>>), TextPart(<<"!">>), VarPart, TextPart(<<>>)>>) : n \in Level0}
Level2 == Over(Level1, {<<>>}, {<<"$">>})
Level3 == {StringOf("\"", <<TextPart(<<>>), ExprPart(Braces(n), <<" ">>), TextPart(<<>>)>>) : n \in Level2}
MCNode == Level0 \cup Level1 \cup Level2 \cup Level3
MCKeyword == {<<"a", "b">>}
MCSource == {<<"0", "b">> \o d : d \in Texts_({"0", "1"}, 5)} \cup {<<"0", "x">> \o d : d \in Texts_({"0", "a", "e"}, 3)}
            \cup Texts_({"\"", "$", "{", "}", "a", "/", "*", "\n", "\\"}, 4) \cup Texts_({"<", "=", "-", ">", "e", "1", "0", "x", "b", ".", " "}, 4)
            \cup Texts_({"'", "\\", "x", "0", "\r", "\n", "\""}, 4)

\* Modules whose body has any two or three of the instructions, a closure
\* among them whose operands look like instructions.
Instruction == {<<0>>, <<1, 5>>, <<2, 4, 3>>, <<3, 0, 1>>, <<4, 5, 0, 1>>, <<5, 0, 2, 4, 1, 3>>, <<3, 0, 3>>}
Function(name, code, upvalues, lines) ==
  [tag |-> "function", name |-> <<name>>, doc |-> <<>>, arity |-> -1, method |-> FALSE, upvalues |-> upvalues,
   stack |-> 3, code |-> code, lines |-> lines]
Text_ == [tag |-> "string", text |-> <<1, 7>>]
Inner == [Function(<<2>>, <<4, 0, 0, 1>>, 1, <<5>>) EXCEPT !.doc = <<<<>>>>, !.arity = 1, !.method = TRUE]
Compiled_(c, code) == [constants |-> <<Function(<<>>, code, 0, <<1, 17>>), Text_, Inner, c>>, body |-> 0]
Other == {[tag |-> "null"], [tag |-> "bool", value |-> TRUE], [tag |-> "number", value |-> 300],
          [tag |-> "class", name |-> <<<<1>>>>, doc |-> <<>>, of |-> 7]}
MCCompiled == {Compiled_(c, a \o b) : c \in Other, a, b \in Instruction}
              \cup {Compiled_([tag |-> "null"], a \o b \o d) : a, b, d \in Instruction}
MCSaved == {Compiled_(c, <<5, 0, 2, 4, 1, 3, 2, 4, 3, 4, 5, 0, 1>>) : c \in Other}
MCTarget == {Fresh, [constants |-> <<Text_>>, body |-> None],
             [constants |-> <<[tag |-> "null"], Inner, [tag |-> "bool", value |-> TRUE]>>, body |-> 1],
             [constants |-> <<Inner, Inner, Text_, Inner, Text_>>, body |-> 0]}
MCMagic == <<5, 6>>
MCVersion == <<1, 2, 3>>
MCName == Texts_({".", "s", "a"}, 4)
MCExt == <<".", "s", "a">>
MCBytecodeExt == <<".", "s", "b", "c">>

\* A tree with scripts, bytecode beside them or without them, packages, and
\* names that a package and a file share.
MCCwd == <<"/", "a">>
MCExe == <<"/", "b", "/", "x">>
SA(n) == Append(n, ".") \o <<"s", "a">>
SBC(n) == Append(n, ".") \o <<"s", "b", "c">>
Dirs == LET a == <<"a">> b == <<"b">> IN {<<>>, <<a>>, <<a, b>>, <<a, b, b>>, <<a, SA(b)>>}
Files ==
  LET a == <<"a">> b == <<"b">> i == <<"_", "i">>
  IN {<<SA(b)>>, <<a, SA(a)>>, <<a, SBC(a)>>, <<a, SBC(b)>>, <<a, b, SA(i)>>, <<a, b, SA(a)>>, <<a, b, a>>,
      <<a, b, b, SBC(i)>>, <<a, b, b, SA(i)>>, <<a, SA(b), a \o <<".", "s", "o">>>>, <<a, b, <<".", "x">>>>}
MCFileSystem == [f \in Dirs |-> "dir"] @@ [f \in Files |-> "file"]
MCSharedObject == <<".", "s", "o">>
MCPath == Texts_({"/", ".", "a"}, 6)
MCJoinable == Texts_({"/", "."}, 2) \cup {<<"a">>, <<"a", "/">>, <<"/", "a">>, <<"a", "/", "b">>, <<".", ".", "/", "a">>, <<"b", "/", ".", ".">>}
MCAbsolute == {<<"/">> \o p : p \in Texts_({"/", "a", "A", "b"}, 3)} \cup {<<"a">>, <<".", ".">>}
MCImport == Texts_({"/", ".", "a", "b"}, 3) \cup {TextOf(f) : f \in DOMAIN MCFileSystem}
            \cup {p \o <<"/">> \o n : p \in {<<"b">>, <<"b", "/", "b">>, <<".", ".">>, <<"a">>, <<"/", "a">>}, n \in {<<"b">>, <<"a">>, <<".", ".">>}}
\* Values that nest, with keys that come twice when they are cut, and texts
\* of brackets, quotes and escapes.
MCHexValue == [c \in {"0", "1", "a", "b"} |-> CASE c = "0" -> 0 [] c = "1" -> 1 [] c = "a" -> 2 [] OTHER -> 3]
MCAscii == [n \in 0..127 |-> IF n = 0 THEN "NUL" ELSE "ctl"]
MCUpTo32 == {" ", "\t", "\n", "\r", "ctl"}
MCEscapeOf == [c \in {"b", "n"} |-> IF c = "n" THEN "\n" ELSE "bs"]
JsonText(n) == {<<"string", t>> : t \in Texts_({"a", "\"", "\\", "\n", "\t"}, n)}
JsonPlain == {<<"null">>, <<"true">>, <<"number", -5>>, <<"number", 9>>, <<"function">>} \cup JsonText(1)
JsonLists(values, n) == {<<"list", s>> : s \in UNION {[1..k -> values] : k \in 0..n}}
JsonMaps(keys, values) ==
  {<<"map", <<>>>>} \cup {<<"map", <<<<k, v>>>>>> : k \in keys, v \in values}
  \cup {<<"map", <<<<k, v>>, <<<<"string", <<"\"">>>>, v>>>>>> : k \in keys, v \in values}
Keys_ == {<<"string", <<"a">>>>, <<"string", <<"\\", "a">>>>, <<"number", 1>>}
Shallow == JsonLists(JsonPlain, 2) \cup JsonMaps(Keys_, JsonPlain)
MCJson == {<<"number", n>> : n \in -20..20} \cup JsonText(3) \cup JsonPlain \cup Shallow \cup JsonLists(Shallow, 1)
          \cup JsonMaps(Keys_, Shallow) \cup {<<"list", <<v, w>>>> : v \in JsonMaps(Keys_, {<<"true">>}), w \in JsonMaps(Keys_, {<<"null">>})}
MCRaw == Texts_({"[", "]", ",", "1", "-", " ", "e"}, 5)
         \cup {<<"{", "\"", "a", "\"">> \o t \o u : t \in {<<":", "1">>, <<":", "[", "]">>, <<" ">>},
                 u \in Texts_({"}", "\"", ",", ":", "a", "1"}, 5)}
         \cup Texts_({"\"", "\\", "u", "n", "0", "1"}, 5)
         \cup {<<"\"", "\\", "u">> \o h \o t : h \in [1..4 -> {"0", "1", "u"}], t \in Texts_({"\"", "1"}, 2)}
\* Numbers of every form, and code points around the borders of UTF-8.
MCNumber == Texts_({"0", "1", ".", "e", "-", "+"}, 5)
            \cup {g \o <<"0">> \o b \o d : g \in {<<>>, <<"-">>}, b \in {<<"b">>, <<"x">>}, d \in Texts_({"0", "1", "a", "e"}, 4)}
            \cup {<<"0", "b">> \o d : d \in Texts_({"0", "1"}, 7)}
MCInteger == (-Largest)..Largest
MCChar == {-5, 1114112, 2000000} \cup 0..300 \cup {c + d : c \in {2048, 65536, 1000000, 1114000}, d \in -100..100}
=============================================================================
