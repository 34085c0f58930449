------------------------------- MODULE Numbers -------------------------------
(***************************************************************************)
(* Numbers and texts of them: Number(text) of saynaa_core.c and what it    *)
(* takes (utilToNumber), against what the lexer takes; bin and hex; and    *)
(* UTF-8 (saynaa_utils.c), which "%c" writes.                              *)
(*                                                                         *)
(* Integers have Width bits, 64 in the code.  The values of decimal texts  *)
(* are left to the C library: their value is their text.                   *)
(***************************************************************************)
EXTENDS Lexer, Json

CONSTANTS Number_, Integer_, Char_   \* texts, integers and code points to convert

Width == MaxBits - 2
Largest == 2^(Width - 1) - 1
MaxHalf == 2^(Width \div 2) - 1

Given(value) == [error |-> "none", value |-> value]
Refused(why) == [error |-> why, value |-> None]

\* The digits of 0b and 0x: a place is compared with the limit before it is
\* passed, so one digit more than Width has room for is taken.
\* Mutant: every digit more is taken.
BasedUnlimited(s, Digits, bits, limit, sign) ==
  LET d == Drop(s, 2)
      n == Span(d, Digits)
      value == FoldLeft(LAMBDA v, c : (v * 2^bits + HexValue[c]) % 2^Width, 0, d)
  IN IF n < Len(d) THEN Refused("invalid") ELSE Given(sign * value)
Based(s, Digits, bits, limit, sign) ==
  LET d == Drop(s, 2)
      n == Span(d, Digits)
      value == FoldLeft(LAMBDA v, c : (v * 2^bits + HexValue[c]) % 2^Width, 0, d)
  IN IF d = <<>> THEN Refused("invalid")
     ELSE IF n + 1 > limit THEN Refused("long")
     ELSE IF n < Len(d) THEN Refused("invalid") ELSE Given(sign * value)

ToNumber(t) ==
  LET signed == t # <<>> /\ t[1] \in {"-", "+"}
      s == IF signed THEN Tail(t) ELSE t
      sign == IF signed /\ t[1] = "-" THEN -1 ELSE 1
      whole == Span(s, Digit)
      part == IF Peek(s, whole + 1) = "." THEN whole + 1 + Span(Drop(s, whole + 1), Digit) ELSE whole
      exponent == IF Peek(s, part + 2) \in {"+", "-"} THEN part + 2 ELSE part + 1
      last == exponent + Span(Drop(s, exponent), Digit)
  IN IF Len(t) >= 3 /\ At(s, <<"0", "b">>, 0) THEN Based(s, {"0", "1"}, 1, MaxBits, sign)
     ELSE IF Len(t) >= 3 /\ At(s, <<"0", "x">>, 0) THEN Based(s, HexDigit, HexBits, MaxHexits, sign)
     ELSE IF Range(SubSeq(s, 1, part)) \cap Digit = {} THEN Refused("invalid")
     ELSE IF part = Len(s) \/ (s[part + 1] = "e" /\ last > exponent /\ last = Len(s)) THEN Given(<<sign, s>>)
     ELSE Refused("invalid")

\* In base 2^bits.  bin takes any integer but the least, whose negation is
\* undefined; hex takes those of half the width.
RECURSIVE DigitsOf(_, _)
DigitsOf(n, bits) ==
  (IF n < 2^bits THEN <<>> ELSE DigitsOf(n \div 2^bits, bits)) \o <<CHOOSE c \in HexDigit : HexValue[c] = n % 2^bits>>
Signed(n, text) == IF n < 0 THEN <<"-">> \o text ELSE text
Magnitude(n) == IF n < 0 THEN -n ELSE n
Bin(n) == Signed(n, <<"0", "b">> \o DigitsOf(Magnitude(n), 1))
Hex(n) == IF Magnitude(n) > MaxHalf THEN <<>> ELSE Signed(n, <<"0", "x">> \o DigitsOf(Magnitude(n), HexBits))

-----------------------------------------------------------------------------
(* UTF-8.  Bits(v, low, n) are the n bits of v from bit low on.             *)

BitsOf(v, low, n) == (v \div 2^low) % 2^n
EncodeBytesCount(v) == CASE v <= 127 -> 1 [] v \in 128..2047 -> 2 [] v \in 2048..65535 -> 3 [] v \in 65536..1114111 -> 4 [] OTHER -> 0
DecodeBytesCount(b) == CASE b < 192 -> 1 [] b \in 192..223 -> 2 [] b \in 224..239 -> 3 [] b \in 240..247 -> 4 [] OTHER -> 1
\* In two bytes the code masks the second with 111111, written in decimal: of
\* the bits that fit in the byte it keeps three.
EncodeValue(v) ==
  CASE EncodeBytesCount(v) = 1 -> <<v % 128>>
    [] EncodeBytesCount(v) = 2 -> <<192 + BitsOf(v, 6, 5), 128 + BitsOf(v, 0, 3)>>
    [] EncodeBytesCount(v) = 3 -> <<224 + BitsOf(v, 12, 4), 128 + BitsOf(v, 6, 6), 128 + BitsOf(v, 0, 6)>>
    [] EncodeBytesCount(v) = 4 -> <<240 + BitsOf(v, 18, 3), 128 + BitsOf(v, 12, 6), 128 + BitsOf(v, 6, 6), 128 + BitsOf(v, 0, 6)>>
    [] OTHER -> <<>>
\* How many bytes were read, and their value; a byte of the middle is itself.
DecodeBytes(d) ==
  LET Continues(b) == b \in 128..191
      Rest_(n, lead) ==
        IF \A i \in 2..n : i \in DOMAIN d /\ Continues(d[i])
        THEN <<n, FoldLeft(LAMBDA v, b : 64 * v + (b % 64), lead, SubSeq(d, 2, n))>> ELSE <<-1, 0>>
  IN CASE Continues(d[1]) -> <<1, d[1]>>
       [] d[1] \in 192..223 -> Rest_(2, d[1] % 32)
       [] d[1] \in 224..239 -> Rest_(3, d[1] % 16)
       [] d[1] \in 240..247 -> Rest_(4, d[1] % 8)
       [] OTHER -> <<-1, 0>>

-----------------------------------------------------------------------------
CallNumber == call = Idle /\
  \/ \E t \in Number_ : Do("number", <<t>>, <<ToNumber(t), Lex(t)>>)
  \/ \E n \in Integer_ : Do("write", <<n>>, <<Bin(n), Hex(n)>>)
  \/ \E v \in Char_ : Do("utf8", <<v>>, EncodeValue(v))

\* Number takes the unsigned texts that the lexer takes as one number, and
\* gives the value; but a letter past the last digit of its base it refuses,
\* a point with no digit after it and one digit too many it takes.
NumberAgrees ==
  call.op = "number" =>
    LET t == call.args[1] r == call.result[1] lexed == call.result[2]
        one == lexed.error = "none" /\ Len(lexed.tokens) = 1 /\ lexed.tokens[1].type = "number"
        based == Len(t) >= 3 /\ (At(t, <<"0", "b">>, 0) \/ At(t, <<"0", "x">>, 0))
        bits == IF t[2] = "b" THEN 1 ELSE HexBits
        value == FoldLeft(LAMBDA v, c : v * 2^bits + HexValue[c], 0, Drop(t, 2))
        pointed == \E i \in DOMAIN t : t[i] = "." /\ Peek(t, i + 1) \notin Digit
    IN /\ one /\ (based => Range(Drop(t, 2)) \subseteq HexDigit) =>
            r = Given(IF based THEN value ELSE <<1, lexed.tokens[1].value>>)
       /\ r.error = "none" /\ t[1] \notin {"-", "+"} =>
            one \/ pointed \/ (based /\ bits * (Len(t) - 2) = Width + bits)

\* What bin and hex write is read back.
WrittenIsRead ==
  call.op = "write" => LET n == call.args[1] IN
    /\ ToNumber(call.result[1]) = Given(n)
    /\ call.result[2] # <<>> => ToNumber(call.result[2]) = Given(n)
    /\ call.result[2] = <<>> <=> n \notin -MaxHalf..MaxHalf

\* A code point is decoded from its bytes, as many as were counted for it; but
\* three bits are lost from one that takes two bytes.
CharIsRead ==
  call.op = "utf8" => LET v == call.args[1] d == call.result IN
    /\ Len(d) = EncodeBytesCount(v)
    /\ d # <<>> => DecodeBytesCount(d[1]) = Len(d)
    /\ Len(d) > 1 => DecodeBytes(d) = <<Len(d), IF Len(d) = 2 THEN v - 8 * BitsOf(v, 3, 3) ELSE v>>

NumberLaws == NumberAgrees /\ WrittenIsRead /\ CharIsRead

\* What a literal of a program and the text given to Number mean: the lexer
\* ends, covers its source and agrees with utilToNumber.
LiteralLaws == LexerLaws /\ NumberLaws
=============================================================================
