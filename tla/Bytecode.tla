------------------------------- MODULE Bytecode -------------------------------
(***************************************************************************)
(* Compiled modules as files (saynaa_bytecode.c, and loadScript of         *)
(* saynaa_public.c): the constants of a module written one after another   *)
(* with the index of its body, a header before them, and both read back,   *)
(* into a module that may have constants already.  Then every index in the *)
(* code just read is changed to where its constant went.                   *)
(*                                                                         *)
(* A byte is a number below 2 * Base: 7 bits and the flag of a varint in   *)
(* the code, fewer here, so that small numbers take several bytes.         *)
(***************************************************************************)
EXTENDS Texts

CONSTANTS Base,          \* of the digits of a varint
          Wide,          \* bytes of a u32, a u64 and a double
          Magic, Padding, \* bytes of the magic, and of the zeros that fill its field
          Version, PayloadVersion,
          Crc, CrcBits,  \* the polynomial, reflected: the set of its bits
          MaxConstants, MaxUpvalues, MaxStack, MaxU32,
          Compiled, Saved, \* modules to save and load, and those whose bytes are cut and changed
          Target,        \* modules to load into
          Name_,         \* paths
          Ext, BytecodeExt

Byte_s == 0..(2 * Base - 1)
Flagged(b) == b >= Base

----------------------------------------------------------------------------
(* Instructions, one of each layout: the bytes of their operands as the     *)
(* table has them (ITER with the 2 it is mended to before the table is      *)
(* used), and where among them the index of a constant is.                  *)
Opcodes == <<"POP", "ADD", "ITER", "PUSH_CONSTANT", "METHOD_CALL", "PUSH_CLOSURE">>
Params == [op \in Range(Opcodes) |->
             CASE op = "POP" -> 0 [] op = "ADD" -> 1 [] op = "METHOD_CALL" -> 3 [] OTHER -> 2]
IndexAtStart == [op \in {"PUSH_CONSTANT", "METHOD_CALL", "PUSH_CLOSURE"} |-> 0]
IndexAt == [op \in {"PUSH_CONSTANT", "METHOD_CALL", "PUSH_CLOSURE"} |-> IF op = "METHOD_CALL" THEN 1 ELSE 0]
Index(args, n) == args[n + 1] * 2 * Base + args[n + 2]
PutIndex(code, n, i) == [code EXCEPT ![n + 1] = i \div (2 * Base), ![n + 2] = i % (2 * Base)]

----------------------------------------------------------------------------
(* Numbers and texts in bytes *)
WriteVaru(n) ==
  LET high[k \in Nat] == IF k = 0 THEN <<>> ELSE Append(high[k \div Base], Base + (k % Base))
  IN Append(high[n \div Base], n % Base)
Zigzag(n) == IF n >= 0 THEN 2 * n ELSE -2 * n - 1
Unzigzag(u) == IF u % 2 = 0 THEN u \div 2 ELSE -(u + 1) \div 2
WriteLE(n) == [k \in 1..Wide |-> (n \div (2 * Base)^(k - 1)) % (2 * Base)]
ReadLE(d) == LET sum[k \in 0..Wide] == IF k = 0 THEN 0 ELSE sum[k - 1] + d[k] * (2 * Base)^(k - 1) IN sum[Wide]
\* A text that may be NULL is <<>> or <<text>>.
WriteString(t) == IF t = <<>> THEN WriteVaru(0) ELSE WriteVaru(Len(t[1]) + 1) \o t[1]

----------------------------------------------------------------------------
(* Writing a module *)
Constant_(c) ==
  CASE c.tag = "null" -> <<0>>
    [] c.tag = "bool" -> <<1, IF c.value THEN 1 ELSE 0>>
    [] c.tag = "number" -> <<2>> \o WriteLE(c.value)
    [] c.tag = "string" -> <<3>> \o WriteVaru(Len(c.text)) \o c.text
    [] c.tag = "function" ->
         <<4>> \o WriteString(c.name) \o WriteString(c.doc) \o WriteVaru(Zigzag(c.arity)) \o <<IF c.method THEN 1 ELSE 0>>
         \o WriteVaru(c.upvalues) \o WriteVaru(Zigzag(c.stack)) \o WriteVaru(Len(c.code)) \o c.code
         \o WriteVaru(Len(c.lines)) \o FlattenSeq([j \in DOMAIN c.lines |-> WriteVaru(c.lines[j])])
    [] c.tag = "class" -> <<5>> \o WriteString(c.name) \o WriteString(c.doc) \o WriteVaru(c.of)
Serialize(m) ==
  <<PayloadVersion>> \o WriteVaru(Len(m.constants)) \o FlattenSeq([i \in DOMAIN m.constants |-> Constant_(m.constants[i])])
  \o WriteVaru(m.body)

----------------------------------------------------------------------------
(* Reading: a reader is where it is, what it got so far, and its status.    *)
(* After a failure it reads nothing more.                                   *)
Reader(d) == [data |-> d, at |-> 0, got |-> <<>>, status |-> "ok"]
Bad(r, why) == [r EXCEPT !.status = why]
Give(r, n, value) == [r EXCEPT !.at = @ + n, !.got = Append(@, value)]
Remaining(r) == Len(r.data) - r.at
Got(r) == Last(r.got)
Check(r, allowed, why) == IF r.status = "ok" /\ Got(r) \notin allowed THEN Bad(r, why) ELSE r
ReadBytes(r, n) ==
  IF r.status # "ok" THEN r
  ELSE IF n > Remaining(r) THEN Bad(r, "truncated") ELSE Give(r, n, SubSeq(r.data, r.at + 1, r.at + n))
ReadU8(r) == LET s == ReadBytes(r, 1) IN IF s.status = "ok" THEN [s EXCEPT !.got[Len(s.got)] = @[1]] ELSE s

RECURSIVE Varu(_, _, _)
Varu(r, limit, value) ==
  IF Remaining(r) = 0 THEN Bad(r, "truncated")
  ELSE IF value > limit \div Base THEN Bad(r, "format")
  ELSE LET b == r.data[r.at + 1] next == (value * Base) + (b % Base) s == [r EXCEPT !.at = @ + 1] IN
       IF Flagged(b) THEN Varu(s, limit, next)
       ELSE IF next > limit THEN Bad(s, "format") ELSE Give(s, 0, next)
ReadVaru(r, limit) == IF r.status # "ok" THEN r ELSE Varu(r, limit, 0)
ReadVari32(r) ==
  LET s == ReadVaru(r, MaxU32) IN IF s.status = "ok" THEN [s EXCEPT !.got[Len(s.got)] = Unzigzag(@)] ELSE s
ReadCounted(r, limit) ==
  LET s == ReadVaru(r, limit) IN
  IF s.status # "ok" THEN s ELSE ReadBytes([s EXCEPT !.got = Front(@)], Got(s))
ReadString(r, nullable) ==
  LET s == ReadVaru(r, MaxU32 + 1) front == [s EXCEPT !.got = IF @ = <<>> THEN @ ELSE Front(@)] IN
  IF s.status # "ok" THEN s
  ELSE IF Got(s) = 0 THEN IF nullable THEN Give(front, 0, <<>>) ELSE Bad(s, "format")
  ELSE LET t == ReadBytes(front, Got(s) - 1) IN IF t.status = "ok" THEN [t EXCEPT !.got[Len(t.got)] = <<@>>] ELSE t

RECURSIVE ReadLines(_, _)
ReadLines(r, n) == IF r.status # "ok" \/ n = 0 THEN r ELSE ReadLines(ReadVaru(r, MaxU32), n - 1)
\* As many lines as the code has bytes and one more, at most.
LineTable(r, code) == IF r.status # "ok" THEN r ELSE ReadLines(Check(r, 0..(Len(r.got[code]) + 1), "format"), Got(r))

ReadFunction(r) ==
  LET method == ReadU8(ReadVari32(ReadString(ReadString(r, FALSE), TRUE)))
      stack == ReadVari32(ReadVaru(Check(method, {0, 1}, "format"), MaxUpvalues))
      code == ReadCounted(Check(stack, 0..(MaxStack - 1), "format"), MaxU32)
      Made(f) == LET v == f.got IN
        [tag |-> "function", name |-> v[1], doc |-> v[2], arity |-> v[3], method |-> v[4] = 1,
         upvalues |-> v[5], stack |-> v[6], code |-> v[7], lines |-> Drop(v, 8)]
      As(f) == IF f.status = "ok" THEN [f EXCEPT !.got = <<Made(f)>>] ELSE f
  IN As(LineTable(ReadVaru(code, MaxU32), 7))
ReadConstant(r) ==
  LET t == ReadU8(r)
      rest == [t EXCEPT !.got = <<>>]
      As(s, value(_)) == IF s.status = "ok" THEN [s EXCEPT !.got = <<value(s.got)>>] ELSE s
  IN IF t.status # "ok" THEN t
     ELSE CASE Got(t) = 0 -> Give(rest, 0, [tag |-> "null"])
            [] Got(t) = 1 -> As(ReadU8(rest), LAMBDA v : [tag |-> "bool", value |-> v[1] # 0])
            [] Got(t) = 2 -> As(ReadBytes(rest, Wide), LAMBDA v : [tag |-> "number", value |-> ReadLE(v[1])])
            [] Got(t) = 3 -> As(ReadCounted(rest, MaxU32), LAMBDA v : [tag |-> "string", text |-> v[1]])
            [] Got(t) = 4 -> ReadFunction(rest)
            [] Got(t) = 5 -> As(ReadVaru(ReadString(ReadString(rest, FALSE), TRUE), 2 * Base - 1),
                                LAMBDA v : [tag |-> "class", name |-> v[1], doc |-> v[2], of |-> v[3]])
            [] OTHER -> Bad(t, "unsupported")

----------------------------------------------------------------------------
(* Where a constant goes: into an empty module as it comes; else a value    *)
(* the module has already is shared, but a function or a class never is.    *)
Moved(constants, c, remaps) ==
  LET same == {i \in DOMAIN constants : constants[i] = c}
  IN IF remaps /\ c.tag \notin {"function", "class"} /\ same # {}
     THEN [constants |-> constants, at |-> Min(same) - 1]
     ELSE [constants |-> Append(constants, c), at |-> Len(constants)]

\* remapFunctionConstants: walks the instructions as the VM reads them.
RECURSIVE RemapCode(_, _, _, _)
RemapCode(code, ip, remap, constants) ==
  IF ip >= Len(code) THEN [status |-> "ok", code |-> code]
  ELSE IF code[ip + 1] >= Len(Opcodes) THEN [status |-> "format", code |-> code]
  ELSE LET op == Opcodes[code[ip + 1] + 1]
           args == ip + 1
           end == args + Params[op]
           at == args + IndexAt[op]
           i == Index(code, at)
           mended == PutIndex(code, at, remap[i + 1])
           fn == constants[remap[i + 1] + 1]
           extra == IF op = "PUSH_CLOSURE" THEN 3 * fn.upvalues ELSE 0
       IN IF end > Len(code) THEN [status |-> "truncated", code |-> code]
          ELSE IF op \notin DOMAIN IndexAt THEN RemapCode(code, end, remap, constants)
          ELSE IF i >= Len(remap) THEN [status |-> "format", code |-> code]
          ELSE IF op = "PUSH_CLOSURE" /\ fn.tag # "function" THEN [status |-> "format", code |-> mended]
          ELSE IF end + extra > Len(code) THEN [status |-> "truncated", code |-> mended]
          ELSE RemapCode(mended, end + extra, remap, constants)

\* The functions that were read, in their order, until one fails.
RECURSIVE RemapAll(_, _, _)
RemapAll(m, functions, remap) ==
  IF functions = <<>> THEN [status |-> "ok", module |-> m]
  ELSE LET i == Head(functions) + 1
           done == RemapCode(m.constants[i].code, 0, remap, m.constants)
           n == [m EXCEPT !.constants[i].code = done.code]
       IN IF done.status # "ok" THEN [status |-> done.status, module |-> n] ELSE RemapAll(n, Tail(functions), remap)

RECURSIVE ReadConstants(_, _, _, _, _), PutConstant(_, _, _, _, _)
ReadConstants(r, constants, remap, count, remaps) ==
  IF r.status # "ok" \/ Len(remap) = count THEN [reader |-> r, constants |-> constants, remap |-> remap]
  ELSE PutConstant(ReadConstant([r EXCEPT !.got = <<>>]), constants, remap, count, remaps)
PutConstant(r, constants, remap, count, remaps) ==
  IF r.status # "ok" THEN [reader |-> r, constants |-> constants, remap |-> remap]
  ELSE LET placed == Moved(constants, Got(r), remaps)
       IN ReadConstants(r, placed.constants, Append(remap, placed.at), count, remaps)

\* The name of the global that holds the body is taken to be a constant
\* already, as compile leaves it.  What a failure has added to the module stays
\* there; bytes left over are seen only when the body has been set.
SetBody(m, at, complete) ==
  IF m.constants[at + 1].tag # "function" THEN [status |-> "format", module |-> m]
  ELSE [status |-> IF complete THEN "ok" ELSE "format", module |-> [m EXCEPT !.body = at]]
Remapped(m, all) ==
  LET read == [m EXCEPT !.constants = all.constants]
      functions == SelectSeq(all.remap, LAMBDA i : i >= Len(m.constants) /\ all.constants[i + 1].tag = "function")
  IN IF m.constants = <<>> THEN [status |-> "ok", module |-> read] ELSE RemapAll(read, functions, all.remap)
ReadBody(m, all, body) ==
  LET remapped == Remapped(m, all)
  IN IF body.status # "ok" THEN [status |-> body.status, module |-> [m EXCEPT !.constants = all.constants]]
     ELSE IF remapped.status # "ok" THEN remapped
     ELSE SetBody(remapped.module, all.remap[Got(body) + 1], Remaining(body) = 0)
ReadModule(m, all, count) == ReadBody(m, all, Check(ReadVaru(all.reader, MaxU32), 0..(count - 1), "format"))
Deserialize(m, d) ==
  LET head == ReadVaru(Check(ReadU8(Reader(d)), {PayloadVersion}, "version"), MaxConstants)
      checked == Check(head, 1..(MaxConstants - Len(m.constants)), "format")
  IN IF checked.status # "ok" THEN [status |-> checked.status, module |-> m]
     ELSE ReadModule(m, ReadConstants(checked, m.constants, <<>>, Got(head), m.constants # <<>>), Got(head))

----------------------------------------------------------------------------
(* The file: a header of the magic, the versions, flags, size, checksum and *)
(* time, then the payload.                                                  *)
Bits(n) == {i \in 0..(CrcBits - 1) : (n \div 2^i) % 2 = 1}
Xor(a, b) == (a \ b) \cup (b \ a)
Shift(c, n) == {i - n : i \in {j \in c : j >= n}}
ByteBits == CHOOSE n \in 1..8 : 2^n = 2 * Base
Low == 0..(ByteBits - 1)
Table ==
  LET bits[k \in 0..ByteBits, c \in SUBSET (0..(CrcBits - 1))] ==
        IF k = 0 THEN c ELSE bits[k - 1, IF 0 \in c THEN Xor(Crc, Shift(c, 1)) ELSE Shift(c, 1)]
  IN [c \in SUBSET Low |-> bits[ByteBits, c]]
Crc32(d) ==
  LET ones == 0..(CrcBits - 1)
      after == FoldLeft(LAMBDA c, b : Xor(Table[Xor(c, Bits(b)) \cap Low], Shift(c, ByteBits)), ones, d)
  IN SumSet({2^i : i \in Xor(after, ones)})

MagicField == Magic \o [i \in 1..Padding |-> 0]
HeaderSize == Len(MagicField) + 4 + 3 * Wide
EncodeHeader(size, checksum, flags, time) ==
  MagicField \o Version \o <<flags>> \o WriteLE(size) \o WriteLE(checksum) \o WriteLE(time)
DecodeHeader(d) ==
  LET m == Len(MagicField) Field(k) == ReadLE(SubSeq(d, m + 5 + k * Wide, m + 4 + (k + 1) * Wide)) IN
  [magic |-> SubSeq(d, 1, m), major |-> d[m + 1], flags |-> d[m + 4], size |-> Field(0), checksum |-> Field(1), time |-> Field(2)]
ValidateHeader(h, total) ==
  IF h.magic # MagicField THEN "magic"
  ELSE IF h.major # Version[1] THEN "version"
  ELSE IF h.size > total - HeaderSize THEN "size" ELSE "ok"
ValidateChecksum(h, payload) == IF Crc32(payload) = h.checksum THEN "ok" ELSE "checksum"
ValidatePayload(d) ==
  LET at == IF At(d, Magic, 0) THEN Len(Magic) ELSE 0 IN
  IF Len(d) < at + 1 THEN "truncated" ELSE IF d[at + 1] # PayloadVersion THEN "version" ELSE "ok"
SaveFile(payload, flags, time) == EncodeHeader(Len(payload), Crc32(payload), flags, time) \o payload

Script(status, content, bytecode) == [status |-> status, content |-> content, is_bytecode |-> bytecode]
LoadScript(f) ==
  LET h == DecodeHeader(f)
      payload == SubSeq(f, HeaderSize + 1, HeaderSize + h.size)
      header == ValidateHeader(h, Len(f))
      sum == ValidateChecksum(h, payload)
      content == ValidatePayload(payload)
  IN IF Len(f) < HeaderSize \/ header = "magic" THEN Script("ok", f, FALSE)
     ELSE IF header # "ok" THEN Script(header, <<>>, FALSE)
     ELSE IF sum # "ok" THEN Script(sum, <<>>, FALSE)
     ELSE IF content # "ok" THEN Script(content, <<>>, FALSE)
     ELSE Script("ok", payload, TRUE)

BuildPath(p) ==
  IF Len(p) > Len(Ext) /\ At(p, Ext, Len(p) - Len(Ext)) THEN SubSeq(p, 1, Len(p) - Len(Ext)) \o BytecodeExt
  ELSE p \o BytecodeExt

----------------------------------------------------------------------------
Fresh == [constants |-> <<>>, body |-> None]
File(m) == SaveFile(Serialize(m), 0, 9)

CallBytecode == call = Idle /\
  \/ \E m \in Compiled, n \in Target : Do("load", <<m, n>>, Deserialize(n, Serialize(m)))
  \/ \E m \in Saved : \E k \in 0..(Len(Serialize(m)) - 1), n \in Target :
       Do("cut", <<n, k>>, Deserialize(n, SubSeq(Serialize(m), 1, k)))
  \/ \E m \in Saved, n \in Target : Do("longer", <<n>>, Deserialize(n, Append(Serialize(m), 0)))
  \/ \E m \in Saved : \E i \in 1..Len(File(m)), b \in {0, 1, 2 * Base - 1} : b # File(m)[i] /\
       Do("changed", <<File(m), i>>, LoadScript([File(m) EXCEPT ![i] = b]))
  \/ \E m \in Saved : \E k \in 0..Len(File(m)) : Do("cutfile", <<File(m), k>>, LoadScript(SubSeq(File(m), 1, k)))
  \/ \E p \in Name_ : Do("path", <<p>>, BuildPath(p))

\* A function with every index in its code replaced by what it stands for,
\* the instructions taken apart as runFiber reads them.
RECURSIVE Meaning(_, _), Instructions(_, _, _)
Meaning(m, i) ==
  LET c == m.constants[i + 1] IN IF c.tag # "function" THEN c ELSE [c EXCEPT !.code = Instructions(m, c.code, 0)]
Instructions(m, code, ip) ==
  IF ip >= Len(code) THEN <<>>
  ELSE LET Byte(k) == code[ip + 1 + k]
           Short(k) == Meaning(m, Index(code, ip + k))
       IN CASE Byte(0) = 0 -> <<<<"POP">>>> \o Instructions(m, code, ip + 1)
            [] Byte(0) = 1 -> <<<<"ADD", Byte(1)>>>> \o Instructions(m, code, ip + 2)
            [] Byte(0) = 2 -> <<<<"ITER", Byte(1), Byte(2)>>>> \o Instructions(m, code, ip + 3)
            [] Byte(0) = 3 -> <<<<"PUSH_CONSTANT", Short(1)>>>> \o Instructions(m, code, ip + 3)
            [] Byte(0) = 4 -> <<<<"METHOD_CALL", Byte(1), Short(2)>>>> \o Instructions(m, code, ip + 4)
            [] Byte(0) = 5 -> LET fn == Short(1) end == ip + 3 + 3 * fn.upvalues IN
                 <<<<"PUSH_CLOSURE", fn, SubSeq(code, ip + 4, end)>>>> \o Instructions(m, code, end)

\* A module that is loaded means what the saved one does, wherever its
\* constants went, and what the module had before is as it was.
LoadsSaved ==
  call.op = "load" => LET m == call.args[1] n == call.args[2] r == call.result IN
    IF Len(m.constants) + Len(n.constants) > MaxConstants THEN r = [status |-> "format", module |-> n]
    ELSE /\ r.status = "ok" /\ Meaning(r.module, r.module.body) = Meaning(m, m.body)
         /\ SubSeq(r.module.constants, 1, Len(n.constants)) = n.constants
         /\ n = Fresh => r.module = m

\* A payload cut anywhere is refused and leaves the body of the module alone,
\* and one with bytes left over is refused as well, though its body has been
\* set by then.
RefusesPart ==
  /\ call.op = "cut" => call.result.status # "ok" /\ call.result.module.body = call.args[1].body
  /\ call.op = "longer" => call.result.status # "ok"

\* A file with one byte changed never gives another payload (its size apart),
\* and one cut short is refused, or is taken for source text when not even the
\* header is left.
RefusesChanged ==
  /\ call.op = "changed" => LET f == call.args[1] i == call.args[2] r == call.result IN
       /\ r.is_bytecode /\ i \notin (Len(MagicField) + 5)..(Len(MagicField) + 4 + Wide) => r.content = Drop(f, HeaderSize)
       /\ i > HeaderSize => r.status = "checksum"
       /\ i <= Len(MagicField) <=> (r.status = "ok" /\ ~r.is_bytecode)
  /\ call.op = "cutfile" => LET f == call.args[1] k == call.args[2] r == call.result IN
       /\ r.is_bytecode <=> k = Len(f)
       /\ r.status # "ok" <=> k \in HeaderSize..(Len(f) - 1)

\* The path of the bytecode is never the path of the source.
OtherPath == call.op = "path" => call.result # call.args[1] /\ IsSuffix(BytecodeExt, call.result)

BytecodeLaws == LoadsSaved /\ RefusesPart /\ RefusesChanged /\ OtherPath
=============================================================================
