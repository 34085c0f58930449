--------------------------------- MODULE Json ---------------------------------
(***************************************************************************)
(* The module json (saynaa_json.c, saynaa_opt_json.c): a text to a tree of *)
(* items, items to values and back, and items to a text through a buffer   *)
(* that grows.  An item and a value are both <<kind, what it holds>>; the  *)
(* members of an object are pairs in the order of its list, those of a map *)
(* in the order of its table.  Numbers are integers written in base 2.     *)
(***************************************************************************)
EXTENDS Strings

CONSTANTS
  HexValue, HexBits,   \* of a hexadecimal digit, and the bits it stands for
  Ascii,               \* the bytes of the codes below 128
  EscapeOf,             \* the byte that a letter stands for after a backslash
  UpTo32,               \* the bytes up to 32
  Precision,           \* digits %g writes
  Slack,               \* the 256 bytes a buffer starts with
  Json_, Raw_          \* values to print, texts to parse

Quote == "\""
Backslash == "\\"
HexDigit == DOMAIN HexValue
Numeral == {"0", "1"}

-----------------------------------------------------------------------------
(* Parsing.  A parser gives <<>> for NULL, or <<item, the text after it>>.  *)
(* Where the code has released the key of a member that the tree still      *)
(* holds, and so releases it again with the tree, it gives Twice.           *)

Twice == <<"twice">>
Ok(r) == Len(r) = 2
Span(t, set) == Min({i \in 0..Len(t) : i = Len(t) \/ t[i + 1] \notin set})
Skip(t) == Drop(t, Span(t, UpTo32))
Starts(t, c) == t # <<>> /\ t[1] = c
Base2(d) == FoldLeft(LAMBDA n, c : 2 * n + IF c = "1" THEN 1 ELSE 0, 0, d)

\* strtod, of a sign, digits and an exponent.
ParseNumber(t) ==
  LET sign == IF Starts(t, "-") THEN 1 ELSE 0
      k == Span(Drop(t, sign), Numeral)
      rest == Drop(t, sign + k)
      e == IF Starts(rest, "e") THEN Span(Tail(rest), Numeral) ELSE 0
      m == Base2(SubSeq(t, sign + 1, sign + k)) * 2^(IF e = 0 THEN 0 ELSE Base2(SubSeq(rest, 2, e + 1)))
  IN IF k = 0 THEN <<>> ELSE <<<<"number", IF sign = 1 THEN -m ELSE m>>, Drop(rest, IF e = 0 THEN 0 ELSE e + 1)>>

\* Mutant: a quote after a backslash ends the string.
MeasureUnescaped(t, i, length) ==
  LET q == First({k \in i..(Len(t) - 1) : t[k + 1] = Quote}) IN IF q = None THEN <<>> ELSE <<q, q - i>>

\* The first pass: where the string ends and how many bytes to allocate.
RECURSIVE Measure(_, _, _)
Measure(t, i, length) ==
  IF i >= Len(t) \/ (t[i + 1] = Backslash /\ i + 1 >= Len(t)) THEN <<>>
  ELSE IF t[i + 1] = Quote THEN <<i, length>>
  ELSE Measure(t, IF t[i + 1] = Backslash THEN i + 2 ELSE i + 1, length + 1)

ParseHex4(t, i) ==
  LET d == SubSeq(t, i + 1, Min({i + 4, Len(t)}))
  IN IF Len(d) < 4 \/ Range(d) \ HexDigit # {} THEN 0 ELSE FoldLeft(LAMBDA n, c : n * 2^HexBits + HexValue[c], 0, d)
RECURSIVE Decode(_, _, _)
Decode(t, i, end) ==
  IF i >= end THEN <<>>
  ELSE IF t[i + 1] # Backslash THEN <<t[i + 1]>> \o Decode(t, i + 1, end)
  ELSE LET c == t[i + 2] code == ParseHex4(t, i + 2) IN
       IF c = "u" THEN <<IF code \in DOMAIN Ascii THEN Ascii[code] ELSE "?">> \o Decode(t, i + 6, end)
       ELSE <<IF c \in DOMAIN EscapeOf THEN EscapeOf[c] ELSE c>> \o Decode(t, i + 2, end)
ParseString(t) ==
  LET m == Measure(t, 1, 0) IN IF m = <<>> THEN <<>> ELSE <<<<"string", Decode(t, 1, m[1])>>, Drop(t, m[1] + 1)>>

Word == [null |-> <<"n", "u", "l", "l">>, false |-> <<"f", "a", "l", "s", "e">>, true |-> <<"t", "r", "u", "e">>]
RECURSIVE ParseValue(_), ParseArray(_, _), AfterItem(_, _), ParseObject(_, _), AfterKey(_, _), AfterMember(_, _, _)
ParseValue(text) ==
  LET t == Skip(text)
      word == {w \in DOMAIN Word : At(t, Word[w], 0)}
      inside == Skip(Tail(t))
  IN IF t = <<>> THEN <<>>
     ELSE IF word # {} THEN LET w == CHOOSE w \in word : TRUE IN <<<<w>>, Drop(t, Len(Word[w]))>>
     ELSE IF t[1] = Quote THEN ParseString(t)
     ELSE IF t[1] \in {"-"} \cup Numeral THEN ParseNumber(t)
     ELSE IF t[1] = "[" THEN IF Starts(inside, "]") THEN <<<<"array", <<>>>>, Tail(inside)>> ELSE ParseArray(inside, <<>>)
     ELSE IF t[1] = "{" THEN IF Starts(inside, "}") THEN <<<<"object", <<>>>>, Tail(inside)>> ELSE ParseObject(inside, <<>>)
     ELSE <<>>
ParseArray(t, items) == AfterItem(ParseValue(t), items)
AfterItem(v, items) ==
  LET rest == Skip(v[2])
      all == Append(items, v[1])
  IN IF ~Ok(v) THEN v
     ELSE IF Starts(rest, ",") THEN ParseArray(Tail(rest), all)
     ELSE IF Starts(rest, "]") THEN <<<<"array", all>>, Tail(rest)>> ELSE <<>>
ParseObject(text, members) ==
  LET t == Skip(text) IN IF Starts(t, Quote) THEN AfterKey(ParseString(t), members) ELSE <<>>
AfterKey(key, members) ==
  LET colon == Skip(key[2])
  IN IF key = <<>> THEN <<>>
     ELSE IF Starts(colon, ":") THEN AfterMember(key[1][2], ParseValue(Tail(colon)), members)
     ELSE IF members = <<>> THEN <<>> ELSE Twice
AfterMember(name, v, members) ==
  LET rest == Skip(v[2])
      all == Append(members, <<name, v[1]>>)
  IN IF ~Ok(v) THEN v
     ELSE IF Starts(rest, ",") THEN ParseObject(Tail(rest), all)
     ELSE IF Starts(rest, "}") THEN <<<<"object", all>>, Tail(rest)>> ELSE <<>>

-----------------------------------------------------------------------------
(* Items to values and back.  A C string ends at a NUL; a key that comes    *)
(* again changes its entry.                                                 *)

SetMember(pairs, k, v) ==
  LET at == {i \in DOMAIN pairs : pairs[i][1] = k}
  IN IF at = {} THEN Append(pairs, <<k, v>>) ELSE [i \in DOMAIN pairs |-> IF i \in at THEN <<k, v>> ELSE pairs[i]]
RECURSIVE JsonToValue(_), ValueToJson(_)
JsonToValue(item) ==
  CASE item[1] = "string" -> <<"string", CText(item[2])>>
    [] item[1] = "array" -> <<"list", [i \in DOMAIN item[2] |-> JsonToValue(item[2][i])]>>
    [] item[1] = "object" ->
         <<"map", FoldLeft(LAMBDA m, e : SetMember(m, <<"string", CText(e[1])>>, JsonToValue(e[2])), <<>>, item[2])>>
    [] OTHER -> item

\* <<>> is an error: a value or a key that JSON has no text for.
ValueToJson(v) ==
  LET items == IF v[1] = "list" THEN [i \in DOMAIN v[2] |-> ValueToJson(v[2][i])]
               ELSE IF v[1] = "map" THEN [i \in DOMAIN v[2] |-> ValueToJson(v[2][i][2])] ELSE <<>>
      failed == <<>> \in Range(items)
  IN CASE v[1] = "string" -> <<"string", CText(v[2])>>
       [] v[1] = "list" -> IF failed THEN <<>> ELSE <<"array", items>>
       [] v[1] = "map" ->
            IF failed \/ \E i \in DOMAIN v[2] : v[2][i][1][1] # "string" THEN <<>>
            ELSE <<"object", [i \in DOMAIN items |-> <<CText(v[2][i][1][2]), items[i]>>]>>
       [] v[1] \in DOMAIN Word \cup {"number"} -> v
       [] OTHER -> <<>>

-----------------------------------------------------------------------------
(* Printing, into a buffer that has room for [length] bytes; [fits] tells   *)
(* whether every byte, with the NUL at the end, was written inside it.      *)

NoBuffer == [length |-> 0, text |-> <<>>, fits |-> TRUE]
\* Mutant: the bytes written before do not count.
EnsureAlone(p, n) ==
  IF p.length = 0 THEN [p EXCEPT !.length = n + Slack] ELSE IF n >= p.length THEN [p EXCEPT !.length = @ * 2 + n] ELSE p
Ensure(p, n) ==
  IF p.length = 0 THEN [p EXCEPT !.length = n + Slack]
  ELSE IF Len(p.text) + n >= p.length THEN [p EXCEPT !.length = @ * 2 + n] ELSE p
Put(p, t) == [p EXCEPT !.text = @ \o t, !.fits = @ /\ Len(p.text) + Len(t) <= p.length]
Ended(p) == [p EXCEPT !.fits = @ /\ Len(p.text) < p.length]

\* %g
NumberText(n) ==
  LET digits[k \in Nat] == IF k < 2 THEN <<IF k = 0 THEN "0" ELSE "1">> ELSE Append(digits[k \div 2], IF k % 2 = 0 THEN "0" ELSE "1")
      a == IF n < 0 THEN -n ELSE n
      e == Len(digits[a]) - Precision
  IN (IF n < 0 THEN <<"-">> ELSE <<>>)
     \o IF e <= 0 THEN digits[a] ELSE digits[(a + 2^(e - 1)) \div 2^e] \o <<"e">> \o digits[e]
PrintWord(p, t) == Ended(Put(Ensure(p, Len(t) + 1), t))
PrintString(p, s) ==
  LET Letter_(q, c) ==
        IF c \in {Quote, Backslash} THEN Put(Ensure(q, 2), <<Backslash, c>>)
        ELSE IF c = "\n" THEN Put(Ensure(q, 2), <<Backslash, "n">>)
        ELSE Put(Ensure(q, 1), <<c>>)
      open == Put(Ensure(p, 2 * Len(s) + 3), <<Quote>>)
  IN Ended(Put(Ensure(FoldLeft(Letter_, open, s), 2), <<Quote>>))
Tabs(n) == [i \in 1..n |-> "\t"]

RECURSIVE PrintItem(_, _, _, _)
PrintItem(p, item, depth, pretty) ==
  LET Line(q) == IF pretty THEN Put(q, <<"\n">>) ELSE q
      Indented(q) == IF pretty THEN FoldLeft(LAMBDA r, c : Put(Ensure(r, 1), <<c>>), q, Tabs(depth + 1)) ELSE q
      Key(q, k) == LET r == Put(Ensure(PrintString(q, k), 2), <<":">>) IN IF pretty THEN Put(r, <<" ">>) ELSE r
      object == item[1] = "object"
      Child(q, i) ==
        LET r == IF object THEN PrintItem(Key(Indented(q), item[2][i][1]), item[2][i][2], depth + 1, pretty)
                 ELSE PrintItem(Indented(q), item[2][i], depth + 1, pretty)
        IN IF i < Len(item[2]) THEN Line(Put(Ensure(r, 2), <<",">>)) ELSE r
      open == Line(Put(Ensure(p, 2), <<IF object THEN "{" ELSE "[">>))
      all == FoldLeft(Child, open, [i \in DOMAIN item[2] |-> i])
      under == IF pretty THEN Put(Ensure(all, 2 + depth), <<"\n">> \o Tabs(depth)) ELSE all
  IN CASE item[1] \in DOMAIN Word -> PrintWord(p, Word[item[1]])
       [] item[1] = "number" -> PrintWord(p, NumberText(item[2]))
       [] item[1] = "string" -> PrintString(p, item[2])
       [] OTHER -> Ended(Put(Ensure(under, 2), <<IF object THEN "}" ELSE "]">>))

-----------------------------------------------------------------------------
JsonParse(text) ==
  LET r == ParseValue(CText(text)) IN IF Ok(r) THEN <<"ok", JsonToValue(r[1])>> ELSE IF r = Twice THEN Twice ELSE <<"invalid">>
JsonPrint(v, pretty) ==
  LET item == ValueToJson(v) IN IF item = <<>> THEN <<"error">> ELSE <<"ok", PrintItem(NoBuffer, item, 0, pretty)>>

CallJson == call = Idle /\
  \/ \E v \in Json_, pretty \in BOOLEAN : Do("print", <<v, pretty>>, JsonPrint(v, pretty))
  \/ \E t \in Raw_ : Do("parse", <<t>>, JsonParse(t))
  \/ \E t \in Raw_ : Do("quoted", <<t>>, <<Measure(<<Quote>> \o t, 1, 0), ParseString(<<Quote>> \o t)>>)

\* A value without the order of its maps, and whether it can be written
\* without loss: no number has more than Precision digits but zeros at the end.
RECURSIVE Shape(_), Exact(_), Writable(_)
Shape(v) ==
  CASE v[1] = "list" -> <<"list", [i \in DOMAIN v[2] |-> Shape(v[2][i])]>>
    [] v[1] = "map" -> <<"map", {<<e[1], Shape(e[2])>> : e \in Range(v[2])}>>
    [] OTHER -> v
Parts(v) == IF v[1] = "list" THEN Range(v[2]) ELSE IF v[1] = "map" THEN {e[2] : e \in Range(v[2])} ELSE {}
Exact(v) ==
  /\ v[1] = "number" => LET a == IF v[2] < 0 THEN -v[2] ELSE v[2] IN a % 2^Min({k \in 0..30 : a \div 2^k < 2^Precision}) = 0
  /\ \A w \in Parts(v) : Exact(w)
Writable(v) ==
  /\ v[1] \in DOMAIN Word \cup {"number", "string", "list", "map"}
  /\ v[1] = "map" => \A e \in Range(v[2]) : e[1][1] = "string"
  /\ \A w \in Parts(v) : Writable(w)

\* A printed value parses to itself, whatever its spacing, and nothing is
\* written outside the buffer; cut short, the text of anything but a number
\* is refused, and what follows it is not looked at.
PrintLaws ==
  call.op = "print" => LET v == call.args[1] r == call.result IN
    /\ r[1] = "ok" <=> Writable(v)
    /\ r[1] = "ok" => LET text == r[2].text IN
         /\ r[2].fits
         /\ Exact(v) => LET w == JsonParse(text) IN w[1] = "ok" /\ Shape(w[2]) = Shape(v)
         /\ ~Exact(v) => LET w == JsonParse(text) IN w[1] = "ok" /\ Shape(w[2]) # Shape(v)
         /\ v[1] # "number" => /\ \A k \in 0..(Len(text) - 1) : Len(JsonParse(SubSeq(text, 1, k))) = 1
                               /\ JsonParse(text \o <<"1", "]">>) = JsonParse(text)

\* What is parsed can be printed and parsed again to the same value; a string
\* fits in what was measured for it and ends at the first quote that no
\* backslash escapes.
ParseLaws ==
  /\ call.op = "parse" /\ call.result[1] = "ok" => LET v == call.result[2] IN
       Writable(v) /\ (Exact(v) => Shape(JsonParse(JsonPrint(v, TRUE)[2].text)[2]) = Shape(v))
  /\ call.op = "quoted" => LET t == call.args[1] m == call.result[1] r == call.result[2] IN
       /\ r = <<>> <=> m = <<>>
       /\ m # <<>> => /\ Len(r[1][2]) <= m[2] /\ t[m[1]] = Quote
                      /\ \E n \in 0..m[1] : n % 2 = 0 /\ \A i \in 1..n : t[m[1] - i] = Backslash
                                            /\ (m[1] - n > 1 => t[m[1] - n - 1] # Backslash)

JsonLaws == PrintLaws /\ ParseLaws
=============================================================================
