------------------------------- MODULE Strings -------------------------------
(***************************************************************************)
(* The String methods.  A text is a sequence of bytes; a string carries    *)
(* its text, the hash computed when it was made, and the bytes allocated   *)
(* for it.  Offsets count from 0, as in the code.                          *)
(*                                                                         *)
(* The two hash functions of the code are kept apart by what they hash:    *)
(* one takes the given length as unsigned bytes, the other stops at a NUL  *)
(* and takes plain chars, which are signed.                                *)
(***************************************************************************)
EXTENDS Texts

CONSTANTS
  Space, Percent, Nul,   \* bytes with a meaning of their own
  Folding,       \* the pairs <<upper, lower>> of letters
  HighByte,      \* the bytes from 0x80 on
  Literal, Argument   \* the strings the methods are called on and with

\* What a C string function sees of a text.
CText(d) ==
  LET end == First({i \in DOMAIN d : d[i] = Nul}) IN IF end = None THEN d ELSE SubSeq(d, 1, end - 1)

HashStringLength(d) == [i \in DOMAIN d |-> <<d[i], "unsigned">>]
HashString(d) ==
  LET seen == CText(d)
  IN [i \in DOMAIN seen |-> <<seen[i], IF seen[i] \in HighByte THEN "signed" ELSE "unsigned">>]

NewString(d) == [data |-> d, hash |-> HashStringLength(d), capacity |-> Len(d) + 1]
\* A string filled in after it was allocated with room for n bytes.
Filled(d, n) == [data |-> d, hash |-> HashString(d), capacity |-> n + 1]

IsEqual(s, t) == s.hash = t.hash /\ s.data = t.data

-----------------------------------------------------------------------------
(* Searching *)

MemFind(d, n) == First({i \in 0..Len(d) : At(d, n, i)})
MemMem(d, n) == IF n = <<>> THEN None ELSE MemFind(d, n)

Find(s, sub, start) ==
  IF Len(s.data) <= start THEN None
  ELSE LET i == MemMem(Drop(s.data, start), sub.data) IN IF i = None THEN None ELSE start + i

RFind(s, sub, start) ==
  LET from == IF start < 0 THEN 0 ELSE start
      places == {i \in from..Len(s.data) : At(s.data, sub.data, i)}
  IN IF Len(s.data) <= start \/ places = {} THEN None ELSE Max(places)

Match(s, sub, start) ==
  LET from == IF start < 0 THEN 0 ELSE start
      i == MemMem(Drop(s.data, from), sub.data)
  IN IF from >= Len(s.data) \/ i = None THEN <<>> ELSE <<NewString(SubSeq(s.data, from + i + 1, from + i + Len(sub.data)))>>

RECURSIVE GMatch(_, _)
GMatch(d, sub) ==
  LET i == MemMem(d, sub) IN
  IF i = None THEN <<>> ELSE <<NewString(sub)>> \o GMatch(Drop(d, i + Len(sub)), sub)

\* strncmp of an affix with as many bytes of the string.
Same(piece, affix) == IsPrefix(CText(affix), piece) /\ (CText(affix) = affix \/ CText(piece) = CText(affix))

\* Mutant: an affix that is longer than the string is passed over.
\* The first of the given affixes that decides: one that fits, or one that
\* is longer than the string.
Affixed(s, affixes, Piece(_)) ==
  LET long == {i \in DOMAIN affixes : Len(affixes[i].data) > Len(s.data)}
      fits == {i \in DOMAIN affixes \ long : Same(Piece(Len(affixes[i].data)), affixes[i].data)}
  IN fits # {} /\ \A i \in long : Min(fits) < i

Startswith(s, affixes) == Affixed(s, affixes, LAMBDA n : SubSeq(s.data, 1, n))
Endswith(s, affixes) == Affixed(s, affixes, LAMBDA n : Drop(s.data, Len(s.data) - n))

-----------------------------------------------------------------------------
(* Making strings *)

Recased(c, from, to) == IF \E p \in Folding : p[from] = c THEN (CHOOSE p \in Folding : p[from] = c)[to] ELSE c

\* The case of every letter up to a NUL is changed; a string without such
\* letters is returned as it is.
Folded(s, from, to) ==
  LET seen == CText(s.data)
      d == [i \in DOMAIN seen |-> Recased(seen[i], from, to)] \o Drop(s.data, Len(seen))
  IN IF d = s.data THEN s ELSE Filled(d, Len(d))

Lower(s) == Folded(s, 1, 2)
Upper(s) == Folded(s, 2, 1)

Strip(s) ==
  LET kept == {i \in DOMAIN s.data : s.data[i] # Space}
      d == IF kept = {} \/ s.data[Min(kept)] = Nul THEN <<>> ELSE SubSeq(s.data, Min(kept), Max(kept))
  IN IF d = s.data /\ d # <<>> THEN s ELSE NewString(d)

Sub(s, start, end) ==
  LET n == Len(s.data)
      from == Max({0, IF start < 0 THEN n + start ELSE start})
      to == Min({n, IF end < 0 THEN n + end ELSE end})
  IN NewString(IF from >= to THEN <<>> ELSE SubSeq(s.data, from + 1, to))

Backwards(s) == IF s.data = <<>> THEN s ELSE NewString(Reverse(s.data))

Rep(s, count) == NewString(FlattenSeq([i \in 1..count |-> s.data]))

Byte(s, index) ==
  LET i == IF index < 0 THEN Len(s.data) + index ELSE index
  IN IF i < 0 \/ i >= Len(s.data) THEN None ELSE s.data[i + 1]

StringJoin(s, t) ==
  IF s.data = <<>> THEN t ELSE IF t.data = <<>> THEN s ELSE Filled(s.data \o t.data, Len(s.data \o t.data))

\* Mutant: the search for the next match starts one byte late.
ReplacedLate(d, old, new, count) ==
  LET i == MemFind(d, old) IN
  IF count = 0 \/ i = None THEN d
  ELSE SubSeq(d, 1, i) \o new \o Drop(d, i + Len(old) + 1)

\* The bytes copied while matches of old and the count last.
RECURSIVE Replaced(_, _, _, _)
Replaced(d, old, new, count) ==
  LET i == MemFind(d, old) IN
  IF count = 0 \/ i = None THEN d
  ELSE SubSeq(d, 1, i) \o new \o Replaced(Drop(d, i + Len(old)), old, new, count - 1)

StringReplace(s, old, new, count) ==
  LET most == Len(s.data) \div Len(old.data)
      n == IF count = None THEN most ELSE Min({count, most})
      estimate == Len(s.data) + (Len(new.data) - Len(old.data)) * n
  IN IF s.data = <<>> \/ old.data = <<>> \/ count = 0 \/ IsEqual(old, new) \/ MemFind(s.data, old.data) = None
     THEN s ELSE Filled(Replaced(s.data, old.data, new.data, n), Max({Len(s.data), estimate}))

RECURSIVE Pieces(_, _)
Pieces(d, sep) ==
  LET i == MemMem(d, sep) IN
  IF i = None THEN <<NewString(d)>> ELSE <<NewString(SubSeq(d, 1, i))>> \o Pieces(Drop(d, i + Len(sep)), sep)

StringSplit(s, sep) ==
  IF sep.data = <<>> THEN [i \in DOMAIN s.data |-> NewString(<<s.data[i]>>)] ELSE Pieces(s.data, sep.data)

ListJoin(list, sep) ==
  NewString(FlattenSeq([i \in DOMAIN list |-> IF i = 1 THEN list[i].data ELSE sep.data \o list[i].data]))

-----------------------------------------------------------------------------
(* String.format: a conversion ends at the first letter that names one     *)

Format(st, c, args) ==
  IF ~st.percent THEN (IF c = Percent THEN [st EXCEPT !.percent = TRUE] ELSE [st EXCEPT !.out = Append(@, c)])
  ELSE IF c = Percent THEN [st EXCEPT !.percent = FALSE, !.out = Append(@, Percent)]
  ELSE IF c = "s" THEN [percent |-> FALSE, used |-> st.used + 1,
      out |-> st.out \o (IF st.used < Len(args) THEN CText(args[st.used + 1].data) ELSE <<>>)]
  ELSE st

VarSprintf(s, args) ==
  NewString(FoldLeft(LAMBDA st, c : Format(st, c, args), [percent |-> FALSE, used |-> 0, out |-> <<>>], s.data).out)

-----------------------------------------------------------------------------
(* The calls and what they promise *)

PercentDoubled(d) == FlattenSeq([i \in DOMAIN d |-> IF d[i] = Percent THEN <<Percent, Percent>> ELSE <<d[i]>>])
Template(parts) == FlattenSeq([i \in DOMAIN parts |-> PercentDoubled(parts[i]) \o <<Percent, "s">>])

CallString == call = Idle /\
  \E s \in Literal :
    \/ Do("text", <<s>>, <<Lower(s), Upper(s), Strip(s), Backwards(s), Rep(s, 2)>>)
    \/ \E t \in Argument : Do("text", <<s, t>>, <<StringJoin(s, t), ListJoin(<<s, t, s>>, t)>>)
    \/ \E start, end \in -3..4 : Do("sub", <<s, start, end>>, <<Sub(s, start, end)>>)
    \/ \E index \in -4..4 : Do("byte", <<s, index>>, Byte(s, index))
    \/ \E sub \in Argument, start \in 0..3 :
         Do("search", <<s, sub, start>>, [find |-> Find(s, sub, start), rfind |-> RFind(s, sub, start),
                                          match |-> Match(s, sub, start), gmatch |-> GMatch(s.data, sub.data)])
    \/ \E a, b \in Argument : Do("affix", <<s, <<a, b>>>>, <<Startswith(s, <<a, b>>), Endswith(s, <<a, b>>)>>)
    \/ \E sep \in Argument : Do("split", <<s, sep>>, StringSplit(s, sep))
    \/ \E old, new \in Argument, count \in {None, 0, 1, 2} :
         Do("replace", <<s, old, new, count>>, <<StringReplace(s, old, new, count)>>)
    \/ \E t \in Argument : \E args \in {<<>>, <<s>>, <<s, t>>, <<s, t, s>>} :
         Do("format", <<<<s.data, t.data>>, args>>, <<VarSprintf(NewString(Template(<<s.data, t.data>>)), args)>>)

Made == IF call.op \in {"text", "sub", "replace", "format", "split"} THEN call.result ELSE <<>>

\* A string made by any method equals the literal with the same text: its
\* hash is the one newStringLength gives that text (IS_STR_EQ compares
\* hashes first).
EqualText == \A i \in DOMAIN Made : IsEqual(Made[i], NewString(Made[i].data))

\* Splitting cuts at every separator and joining puts them back; replacing
\* is splitting and joining with the other text, at most count times, in
\* the space stringReplace estimated.
SplitJoinReplace ==
  /\ call.op = "split" /\ call.args[2].data # <<>> =>
       /\ ListJoin(call.result, call.args[2]).data = call.args[1].data
       /\ \A i \in DOMAIN call.result : MemMem(call.result[i].data, call.args[2].data) = None
       /\ Len(call.result) = Len(GMatch(call.args[1].data, call.args[2].data)) + 1
  /\ call.op = "replace" => LET made == call.result[1] old == call.args[2] IN
       /\ Len(made.data) < made.capacity
       /\ old.data # <<>> /\ call.args[4] = None =>
            made.data = ListJoin(StringSplit(call.args[1], old), call.args[3]).data
       /\ old.data # <<>> /\ call.args[4] >= 0 =>
            \E n \in 0..call.args[4] : Len(made.data) = Len(call.args[1].data) + n * (Len(call.args[3].data) - Len(old.data))

\* find, rfind, match and gmatch agree on whether and where the text occurs;
\* affixes no longer than the string are all tried.
SearchesAgree ==
  /\ call.op = "search" /\ call.args[2].data # <<>> =>
       LET s == call.args[1] sub == call.args[2] r == call.result IN
       /\ (r.find = None) = (r.rfind = None) /\ (r.find = None) = (r.match = <<>>)
       /\ r.find # None => /\ call.args[3] <= r.find /\ r.find <= r.rfind
                           /\ \A i \in {r.find, r.rfind} : IsEqual(Sub(s, i, i + Len(sub.data)), sub)
                           /\ Find(s, sub, r.rfind + 1) = None
                           /\ r.rfind - r.find >= Len(sub.data) => Len(r.gmatch) >= 2
  /\ call.op = "affix" =>
       LET s == call.args[1] affixes == call.args[2] IN
       (\A i \in DOMAIN affixes : Len(affixes[i].data) <= Len(s.data)) =>
         /\ call.result[1] = \E i \in DOMAIN affixes : IsPrefix(affixes[i].data, s.data)
         /\ call.result[2] = \E i \in DOMAIN affixes : IsSuffix(affixes[i].data, s.data)

\* format gives each %s the next argument, or nothing when there is none,
\* and leaves the rest of the text, with its doubled percent signs, alone.
FormatExact ==
  call.op = "format" =>
    LET parts == call.args[1]
        given(i) == IF i > Len(call.args[2]) THEN <<>> ELSE call.args[2][i].data
    IN call.result[1].data = FlattenSeq([i \in DOMAIN parts |-> parts[i] \o given(i)])

\* The methods of String together: every string made is the interned one of
\* its text, and what one method cuts, finds or writes another agrees with.
StringLaws == EqualText /\ SplitJoinReplace /\ SearchesAgree /\ FormatExact
=============================================================================
