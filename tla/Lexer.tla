-------------------------------- MODULE Lexer --------------------------------
(***************************************************************************)
(* The lexer: from a source, a sequence of characters, to its tokens.      *)
(* Places count from 1.  A string with interpolations is lexed in parts:   *)
(* the lexer keeps, for each "${" that is open, how many braces are open   *)
(* in it, and for "$name" the place where the name ends.                   *)
(*                                                                         *)
(* Left out: the messages of errors; the values of decimal literals, which *)
(* the C library reads from the place the token begins.                    *)
(***************************************************************************)
EXTENDS Texts

CONSTANTS
  Letter, Digit,        \* the characters of names and numbers
  Keyword,              \* the names with a token of their own
  MaxDepth,             \* interpolations within one another
  MaxBits, MaxHexits,   \* the longest literals 0b... and 0x...
  Source, Node          \* the sources, and what is written out and lexed

Eof == "eof"
Blank == {" ", "\t", "\r"}
NameChar == Letter \cup Digit
Hexit == Letter \cup Digit

Peek(src, p) == IF p \in DOMAIN src THEN src[p] ELSE Eof
Past(src, p, C) == CHOOSE e \in p..(Len(src) + 1) : Peek(src, e) \notin C /\ \A i \in p..(e - 1) : src[i] \in C
Text(src, from, to) == SubSeq(src, from, to - 1)
Line(src, p) == 1 + Cardinality({i \in 1..(p - 1) : Peek(src, i) = "\n"})

\* What lexing one token gives: its type, its value, the place after it, and
\* the interpolations that are open.
Token(type, to) == [type |-> type, value |-> <<>>, to |-> to, error |-> "none"]
Fails(to) == [Token("error", to) EXCEPT !.error = "syntax"]

-----------------------------------------------------------------------------
(* Names, numbers, operators *)

EatName(src, p) ==
  LET to == Past(src, p, NameChar) name == Text(src, p, to)
  IN [Token(IF name \in Keyword THEN "keyword" ELSE "name", to) EXCEPT !.value = name]

\* 0b and 0x: the digit that makes the literal too long is still eaten.
EatBased(src, p, C, limit) ==
  LET to == Past(src, p + 2, C) cut == p + limit
  IN IF to = p + 2 THEN Fails(to)
     ELSE IF to > cut THEN [Token("number", cut + 1) EXCEPT !.value = Text(src, p, cut), !.error = "semantic"]
     ELSE [Token("number", to) EXCEPT !.value = Text(src, p, to)]

\* atof reads on from the beginning of the token, past a point without digits.
Atof(src, p) ==
  LET whole == Past(src, p, Digit)
      part == IF Peek(src, whole) = "." THEN Past(src, whole + 1, Digit) ELSE whole
      sign == IF Peek(src, part + 1) \in {"+", "-"} THEN part + 2 ELSE part + 1
  IN IF Peek(src, part) = "e" /\ Peek(src, sign) \in Digit THEN Past(src, sign, Digit)
     ELSE IF part = whole + 1 THEN whole ELSE part

EatNumber(src, p) ==
  IF src[p] = "0" /\ Peek(src, p + 1) = "b" THEN EatBased(src, p, {"0", "1"}, MaxBits)
  ELSE IF src[p] = "0" /\ Peek(src, p + 1) = "x" THEN EatBased(src, p, Hexit, MaxHexits)
  ELSE LET whole == Past(src, p + 1, Digit)
           part == IF src[p] # "." /\ Peek(src, whole) = "." /\ Peek(src, whole + 1) \in Digit
                   THEN Past(src, whole + 1, Digit) ELSE whole
           sign == IF Peek(src, part + 1) \in {"+", "-"} THEN part + 2 ELSE part + 1
       IN IF Peek(src, part) # "e" THEN [Token("number", part) EXCEPT !.value = Text(src, p, Atof(src, p))]
          ELSE IF Peek(src, sign) \notin Digit THEN Fails(sign)
          ELSE [Token("number", Past(src, sign, Digit)) EXCEPT !.value = Text(src, p, Atof(src, p))]

Doubled == {"<", ">", "*"}
Assigning == {"=", "!", "<", ">", "+", "-", "*", "/", "%", "&", "|", "^"}
Single == Assigning \cup {".", ",", ":", ";", "(", ")", "[", "]", "{", "}", "~", "?"}

OperatorEnd(src, p) ==
  LET c == src[p]
      last == IF c \in Doubled \cup {"."} /\ Peek(src, p + 1) = c THEN p + 1 ELSE p
  IN CASE c = "-" /\ Peek(src, p + 1) = ">" -> p + 2
       [] c \in Assigning /\ Peek(src, last + 1) = "=" -> last + 2
       [] OTHER -> last + 1
EatOperator(src, p) == [Token("op", OperatorEnd(src, p)) EXCEPT !.value = Text(src, p, OperatorEnd(src, p))]

-----------------------------------------------------------------------------
(* Comments *)

LineEnd(src, p) == CHOOSE e \in p..(Len(src) + 1) : Peek(src, e) \in {"\n", Eof} /\ \A i \in p..(e - 1) : src[i] # "\n"

\* Block comments nest; p is the place of the star that opens one.  The place
\* behind the comment, or None.
RECURSIVE BlockEnd(_, _, _)
BlockEnd(src, p, nesting) ==
  LET pair == <<Peek(src, p), Peek(src, p + 1)>> IN
  IF nesting = 0 THEN p
  ELSE IF pair[1] = Eof THEN None
  ELSE IF pair = <<"/", "*">> THEN BlockEnd(src, p + 2, nesting + 1)
  ELSE IF pair = <<"*", "/">> THEN BlockEnd(src, p + 2, nesting - 1)
  ELSE BlockEnd(src, p + 1, nesting)

-----------------------------------------------------------------------------
(* Strings *)

Simple == [c \in {"\"", "'", "\\", "$", "n", "r", "t"} |->
             CASE c = "n" -> "\n" [] c = "r" -> "\r" [] c = "t" -> "\t" [] OTHER -> c]

\* An escape, at the place behind its backslash: what it writes, and where the
\* string goes on.  At the end of the source the NUL is eaten, and what lies
\* behind it is read.
Escape(src, p, quote) ==
  LET c == Peek(src, p) IN
  CASE c \in DOMAIN Simple -> [writes |-> <<Simple[c]>>, to |-> p + 1, error |-> "none"]
    [] c = "\n" -> [writes |-> <<>>, to |-> p + 1, error |-> "none"]
    [] c = "\r" /\ Peek(src, p + 1) = "\n" -> [writes |-> <<>>, to |-> p + 2, error |-> "none"]
    [] c = "x" /\ Peek(src, p + 1) \notin Hexit -> [writes |-> <<>>, to |-> p + 2, error |-> "semantic"]
    [] c = "x" /\ Peek(src, p + 1) \in Hexit /\ Peek(src, p + 2) \notin Hexit -> [writes |-> <<>>, to |-> p + 3, error |-> "semantic"]
    [] c = "x" /\ Peek(src, p + 1) \in Hexit /\ Peek(src, p + 2) \in Hexit ->
         [writes |-> <<<<Peek(src, p + 1), Peek(src, p + 2)>>>>, to |-> p + 3, error |-> "none"]
    [] OTHER -> IF quote = "'" THEN [writes |-> <<"\\">>, to |-> p, error |-> "none"]
                ELSE [writes |-> <<>>, to |-> p + 1, error |-> "semantic"]

Worse(a, b) == IF a = "none" THEN b ELSE a

\* A string from p on, with the text it has so far.  open is the stack of
\* interpolations, the innermost last; after is what it is behind this part.
RECURSIVE EatString(_, _, _, _, _, _)
EatString(src, p, quote, open, text, error) ==
  LET c == Peek(src, p)
      done(type, to, after, names) ==
        [type |-> type, value |-> text, to |-> to, error |-> error, open |-> after, names |-> names]
      more(to, writes, err) == EatString(src, to, quote, open, text \o writes, Worse(error, err))
  IN CASE p > Len(src) + 1 -> [done("error", p, open, None) EXCEPT !.error = "overrun"]
       [] c = quote -> done("string", p + 1, open, None)
       [] c = Eof /\ p <= Len(src) + 1 -> [done("error", p, open, None) EXCEPT !.error = "syntax"]
       [] c = "$" /\ quote = "\"" ->
            IF Len(open) >= MaxDepth THEN [done("string", p + 1, open, None) EXCEPT !.error = Worse(error, "semantic")]
            ELSE IF Peek(src, p + 1) = "{" THEN done("interp", p + 2, Append(open, 0), None)
            ELSE IF Peek(src, p + 1) \in Letter THEN done("interp", p + 1, open, Past(src, p + 1, NameChar))
            ELSE [done("error", p + 1, open, None) EXCEPT !.error = "syntax"]
       [] c = "\r" -> more(IF Peek(src, p + 1) = "\n" THEN p + 2 ELSE p + 1, <<"\n">>, "none")
       [] c = "\\" -> LET e == Escape(src, p + 1, quote) IN more(e.to, e.writes, e.error)
       [] OTHER -> more(p + 1, <<c>>, "none")

-----------------------------------------------------------------------------
(* The next token: the state is the place, the open interpolations, and the
   place where the name of a "$name" ends, or None *)

State(p, open, names) == [p |-> p, open |-> open, names |-> names]
Lexed(src, from, t, open, names) ==
  [token |-> [type |-> t.type, value |-> t.value, from |-> from, to |-> t.to, line |-> Line(src, from)],
   error |-> t.error, state |-> State(t.to, open, names)]
LexedString(src, from, p, open) ==
  LET t == EatString(src, p, "\"", open, <<>>, "none") IN Lexed(src, from, t, t.open, t.names)

\* Mutant: a brace that closes one within the interpolation ends it.
WithBraceFlat(open, c) == open

WithBrace(open, c) ==
  IF open = <<>> THEN open ELSE [open EXCEPT ![Len(open)] = IF c = "{" THEN @ + 1 ELSE @ - 1]

RECURSIVE LexToken(_, _)
LexToken(src, s) ==
  LET p == s.p  c == Peek(src, p)
      is(t) == Lexed(src, p, t, s.open, s.names)
      on(to) == LexToken(src, State(to, s.open, s.names))
  IN CASE c = Eof -> is(Token(Eof, p))
       [] c # Eof /\ s.names # None /\ p = s.names -> LexedString(src, p, p, s.open)
       [] c = "}" /\ s.open # <<>> /\ Last(s.open) = 0 /\ p # s.names -> LexedString(src, p, p + 1, Front(s.open))
       [] c \in {"{", "}"} /\ (c = "}" /\ s.open # <<>> => Last(s.open) > 0) /\ p # s.names ->
            Lexed(src, p, EatOperator(src, p), WithBrace(s.open, c), s.names)
       [] OTHER ->
          CASE c = "#" \/ (c = "/" /\ Peek(src, p + 1) = "/") -> on(LineEnd(src, p))
            [] c = "/" /\ Peek(src, p + 1) = "*" ->
                 LET e == BlockEnd(src, p + 1, 1) IN IF e = None THEN is(Fails(Len(src) + 1)) ELSE on(e)
            [] c \in Blank -> on(Past(src, p, Blank))
            [] c = "\n" -> is(Token("line", p + 1))
            [] c = "\"" -> LexedString(src, p, p + 1, s.open)
            [] c = "'" -> LET t == EatString(src, p + 1, "'", s.open, <<>>, "none") IN is(t)
            [] c \in Digit \/ (c = "." /\ Peek(src, p + 1) \in Digit) ->
                 is(EatNumber(src, p))
            [] c \in Letter -> is(EatName(src, p))
            [] c \in Single /\ ~(c = "." /\ Peek(src, p + 1) \in Digit) /\ ~(c = "/" /\ Peek(src, p + 1) \in {"/", "*"}) ->
                 is(EatOperator(src, p))
            [] OTHER -> is(Fails(p + 1))

\* All tokens up to the end of the source or a syntax error.
RECURSIVE Rest(_, _, _, _)
Rest(src, s, tokens, error) ==
  LET l == LexToken(src, s) IN
  IF l.error \in {"syntax", "overrun"} THEN [tokens |-> tokens, error |-> l.error]
  ELSE IF l.token.type = Eof THEN [tokens |-> tokens, error |-> error]
  ELSE Rest(src, l.state, Append(tokens, l.token), Worse(error, l.error))
Lex(src) == Rest(src, State(1, <<>>, None), <<>>, "none")

-----------------------------------------------------------------------------
(* Writing out: names, braces, and strings with their interpolations *)

Escaped(c, quote) ==
  IF c \in {"\\", quote} \/ (c = "$" /\ quote = "\"") THEN <<"\\", c>> ELSE <<c>>

RECURSIVE Render(_), Tokens(_), Depth(_)
RenderPart(part, quote) ==
  CASE part.k = "text" -> FlattenSeq([i \in DOMAIN part.text |-> Escaped(part.text[i], quote)])
    [] part.k = "var" -> <<"$", "a">>
    [] OTHER -> <<"$", "{">> \o part.blank \o Render(part.of) \o part.blank \o <<"}">>
Render(n) ==
  CASE n.k = "name" -> <<"a">>
    [] n.k = "braces" -> <<"{">> \o Render(n.of) \o <<"}">>
    [] OTHER -> <<n.quote>> \o FlattenSeq([i \in DOMAIN n.parts |-> RenderPart(n.parts[i], n.quote)]) \o <<n.quote>>

\* A string of texts and interpolations by turns, a text first and last.
Tokens(n) ==
  CASE n.k = "name" -> <<<<"name", <<"a">>>>>>
    [] n.k = "braces" -> <<<<"op", <<"{">>>>>> \o Tokens(n.of) \o <<<<"op", <<"}">>>>>>
    [] OTHER -> FlattenSeq([i \in DOMAIN n.parts |->
         CASE n.parts[i].k = "text" -> <<<<IF i = Len(n.parts) THEN "string" ELSE "interp", n.parts[i].text>>>>
           [] n.parts[i].k = "var" -> <<<<"name", <<"a">>>>>>
           [] OTHER -> Tokens(n.parts[i].of)])
Depth(n) ==
  CASE n.k = "name" -> 0
    [] n.k = "braces" -> Depth(n.of)
    [] OTHER -> Max({0} \cup {IF n.parts[i].k = "expr" THEN 1 + Depth(n.parts[i].of) ELSE 1 :
                                i \in {j \in DOMAIN n.parts : n.parts[j].k # "text"}})

CallLexer == call = Idle /\
  \/ \E n \in Node : Do("written", <<n>>, Lex(Render(n)))
  \/ \E src \in Source : Do("lex", <<src>>, Lex(src))

\* What is written out is lexed back, with every text as it was: quotes,
\* braces, comments and strings within an interpolation do not end it, and
\* strings nest up to the limit.
LexesWritten ==
  call.op = "written" => LET n == call.args[1] r == call.result IN
    IF Depth(n) > MaxDepth THEN r.error # "none"
    ELSE r.error = "none" /\ [i \in DOMAIN r.tokens |-> <<r.tokens[i].type, r.tokens[i].value>>] = Tokens(n)

\* Nothing of a source is lexed twice or lost: between tokens are only blanks
\* and comments.  A token has the line it begins on, an operator is as long as
\* there is one, a number has the value of its own text (but for "1.e5", which
\* has the value 1e5), and only an escape cut off by the end of the source
\* makes the lexer read past it.
Between(src, from, to) == from = to \/ (from < to /\ src[from] \in Blank \cup {"#", "/"})
Operators_ == {<<c>> : c \in Single} \cup {<<c, "=">> : c \in Assigning} \cup {<<c, c>> : c \in Doubled \cup {"."}}
              \cup {<<c, c, "=">> : c \in Doubled} \cup {<<"-", ">">>}
LexesAll ==
  call.op = "lex" => LET src == call.args[1] t == call.result.tokens IN
    /\ \A i \in DOMAIN t :
         /\ Between(src, IF i = 1 THEN 1 ELSE t[i - 1].to, t[i].from)
         /\ t[i].line = 1 + Len(SelectSeq(SubSeq(src, 1, t[i].from - 1), LAMBDA c : c = "\n"))
         /\ t[i].type = "op" =>
              /\ t[i].value \in Operators_
              /\ \A to \in (t[i].to + 1)..(Len(src) + 1) : Text(src, t[i].from, to) \notin Operators_
         /\ t[i].type = "number" /\ ~(Peek(src, t[i].to) = "." /\ Peek(src, t[i].to + 1) = "e") /\ call.result.error = "none" =>
              t[i].value = Text(src, t[i].from, t[i].to)
    /\ call.result.error = "none" => Between(src, IF t = <<>> THEN 1 ELSE Last(t).to, Len(src) + 1)
    /\ call.result.error = "overrun" => \E i \in DOMAIN src : src[i] = "\\" /\ i >= Len(src) - 2

LexerLaws == LexesWritten /\ LexesAll
=============================================================================
