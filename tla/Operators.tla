------------------------------ MODULE Operators ------------------------------
(***************************************************************************)
(* The operators on values: equality, order, membership, slices and        *)
(* subscripts, the text of nested values, and the choice between what is   *)
(* built in and the methods of an instance.                                *)
(*                                                                         *)
(* A value is a record with its kind; lists and maps are named, and a heap *)
(* gives the elements of each, so that they may hold one another.  A map   *)
(* is the sequence of its <<key, value>> pairs.                            *)
(***************************************************************************)
EXTENDS Texts

CONSTANTS
  Value,         \* the values operators are applied to
  Heaps,         \* the heaps: the contents of every list and map
  Cyclic,        \* heaps in which lists and maps hold one another
  Order          \* the order of bytes

Num(n) == [kind |-> "num", is |-> n]
Bool(b) == [kind |-> "bool", is |-> b]
Str(d) == [kind |-> "str", is |-> d]
ListOf(id) == [kind |-> "list", is |-> id]
MapOf(id) == [kind |-> "map", is |-> id]
RangeOf(from, to) == [kind |-> "range", is |-> <<from, to>>]
Null == [kind |-> "null", is |-> 0]

Container(v) == v.kind \in {"list", "map"}

-----------------------------------------------------------------------------
(* Equality and order *)

\* The value of a key of a map, and none for a key it does not have.
Lookup(pairs, key, Eq(_, _)) ==
  LET at == {i \in DOMAIN pairs : Eq(pairs[i][1], key)} IN IF at = {} THEN <<>> ELSE <<pairs[Min(at)][2]>>

\* Mutant: lists are compared up to the shorter one.
\* isValuesEqual: a map equals one that has its keys with equal values.
RECURSIVE Equal(_, _, _)
Equal(h, v, w) ==
  \/ v = w
  \/ v.kind = "list" /\ w.kind = "list" /\ Len(h[v.is]) = Len(h[w.is])
     /\ \A i \in DOMAIN h[v.is] : Equal(h, h[v.is][i], h[w.is][i])
  \/ v.kind = "map" /\ w.kind = "map"
     /\ \A i \in DOMAIN h[v.is] :
          LET found == Lookup(h[w.is], h[v.is][i][1], LAMBDA k, l : Equal(h, k, l))
          IN found # <<>> /\ Equal(h, h[v.is][i][2], found[1])

\* CHECK_STRING_OP_AS: memcmp of the shorter length, then the lengths.
Compared(s, t) ==
  LET n == Min({Len(s), Len(t)})
      differ == {i \in 1..n : s[i] # t[i]}
  IN IF differ = {} THEN Len(s) - Len(t) ELSE Order[s[Min(differ)]] - Order[t[Min(differ)]]

NumberOf(v) == IF v.kind = "bool" THEN (IF v.is THEN 1 ELSE 0) ELSE v.is
Numeric(v) == v.kind \in {"num", "bool"}

Lesser(v, w) ==
  IF Numeric(v) THEN (IF Numeric(w) THEN <<NumberOf(v) < NumberOf(w)>> ELSE <<>>)
  ELSE IF v.kind = "str" /\ w.kind = "str" THEN <<Compared(v.is, w.is) < 0>> ELSE <<>>
Greater(v, w) ==
  IF Numeric(v) THEN (IF Numeric(w) THEN <<NumberOf(v) > NumberOf(w)>> ELSE <<>>)
  ELSE IF v.kind = "str" /\ w.kind = "str" THEN <<Compared(v.is, w.is) > 0>> ELSE <<>>

\* varContains
Contains_(h, elem, c) ==
  CASE c.kind = "list" -> \E i \in DOMAIN h[c.is] : Equal(h, elem, h[c.is][i])
    [] c.kind = "map" -> Lookup(h[c.is], elem, LAMBDA k, l : Equal(h, k, l)) # <<>>
    [] c.kind = "str" /\ elem.kind = "str" -> elem.is # <<>> /\ \E i \in 0..Len(c.is) : At(c.is, elem.is, i)
    [] OTHER -> FALSE

ToBool(h, v) ==
  CASE v.kind = "bool" -> v.is
    [] v.kind = "null" -> FALSE
    [] v.kind = "num" -> v.is # 0
    [] v.kind = "str" -> v.is # <<>>
    [] Container(v) -> h[v.is] # <<>>
    [] OTHER -> TRUE

-----------------------------------------------------------------------------
(* Subscripts and slices of a sequence of n places, counted from 0 *)

\* _normalizeSliceRange, with the places _sliceList copies.
Slice(n, from, to) ==
  LET a == IF from < 0 THEN n + from ELSE from
      b == IF to < 0 THEN n + to ELSE to
      low == Max({0, Min({a, b})})
      high == Min({n - 1, Max({a, b})})
  IN IF low > high THEN <<>> ELSE [i \in 1..(high - low + 1) |-> IF b < a THEN high + 1 - i ELSE low - 1 + i]

\* _sliceString swaps the bytes of a copy around its middle.
SliceString(d, from, to) ==
  LET a == IF from < 0 THEN Len(d) + from ELSE from
      b == IF to < 0 THEN Len(d) + to ELSE to
      places == Slice(Len(d), IF b < a THEN to ELSE from, IF b < a THEN from ELSE to)
      copy == [i \in DOMAIN places |-> d[places[i] + 1]]
  IN IF ~(b < a) \/ places = <<>> THEN copy
     ELSE [i \in DOMAIN copy |-> LET j == Len(copy) + 1 - i IN
            IF i <= Len(copy) \div 2 \/ j <= Len(copy) \div 2 THEN copy[j] ELSE copy[i]]

\* The place of a subscript, none when it is out of bounds.
Place(n, index) ==
  LET i == IF index < 0 THEN n + index ELSE index IN IF i >= n \/ i < 0 THEN None ELSE i

\* varGetSubscript: the value, or nothing and an error.
Subscript(h, on, key) ==
  CASE on.kind \in {"str", "list"} /\ Numeric(key) ->
         LET s == IF on.kind = "str" THEN on.is ELSE h[on.is]
             i == Place(Len(s), NumberOf(key))
         IN IF i = None THEN <<>> ELSE <<IF on.kind = "str" THEN Str(<<s[i + 1]>>) ELSE s[i + 1]>>
    [] on.kind = "map" -> Lookup(h[on.is], key, LAMBDA k, l : Equal(h, k, l))
    [] OTHER -> <<>>

-----------------------------------------------------------------------------
(* The text of a value: the tree of what is written *)

Leaf(what) == [text |-> what, of |-> <<>>]

\* Mutant: only the innermost of the open lists and maps is looked at.
RECURSIVE ReprInnermost(_, _, _)
ReprInnermost(h, v, outer) ==
  IF ~Container(v) THEN Leaf("value")
  ELSE IF h[v.is] = <<>> THEN Leaf("empty")
  ELSE IF outer # <<>> /\ Last(outer) = v.is THEN Leaf("...")
  ELSE IF Len(outer) > Cardinality(DOMAIN h) THEN Leaf("endless")
  ELSE [text |-> "all", of |-> [i \in DOMAIN h[v.is] |-> ReprInnermost(h, IF v.kind = "map" THEN h[v.is][i][2] ELSE h[v.is][i], Append(outer, v.is))]]

\* _toStringInternal with the lists and maps that are open around v.  More
\* of them open than there are would be a text without end.
RECURSIVE Repr(_, _, _)
Repr(h, v, outer) ==
  IF ~Container(v) THEN Leaf("value")
  ELSE IF h[v.is] = <<>> THEN Leaf("empty")
  ELSE IF v.is \in Range(outer) THEN Leaf("...")
  ELSE IF Len(outer) > Cardinality(DOMAIN h) THEN Leaf("endless")
  ELSE [text |-> "all", of |-> [i \in DOMAIN h[v.is] |-> Repr(h, IF v.kind = "map" THEN h[v.is][i][2] ELSE h[v.is][i], Append(outer, v.is))]]

RECURSIVE Written(_, _)
Written(tree, what) == tree.text = what \/ \E i \in DOMAIN tree.of : Written(tree.of[i], what)

-----------------------------------------------------------------------------
(* Which operation a binary operator performs *)

Kinds == {"num", "bool", "str", "list", "inst", "null"}
Binaries == {"+", "-", "*", "/", "%", "**", "&", "|", "^", "<<", ">>", "<", ">", "==", ".."}

\* CHECK_INST_BINARY_OP: the in-place method first.
ByMethod(op, inplace, methods) ==
  IF inplace /\ <<op, "=">> \in methods THEN <<op, "=">> ELSE IF <<op, "">> \in methods THEN <<op, "">> ELSE <<"error">>

BuiltIn(op, v, w) ==
  CASE op = "==" -> IF v = "inst" THEN <<>> ELSE <<"bool">>
    [] op = ".." -> IF v = "num" /\ w = "num" THEN <<"range">> ELSE IF v = "str" THEN <<"str">> ELSE <<>>
    [] v \in {"num", "bool"} -> <<IF w \notin {"num", "bool"} THEN "error" ELSE IF op \in {"<", ">"} THEN "bool" ELSE "num">>
    [] op = "+" /\ v = w /\ v \in {"str", "list"} -> <<v>>
    [] op = "%" /\ v = "str" -> <<"str">>
    [] op = "*" /\ v = "str" -> <<IF w \in {"num", "bool"} THEN "str" ELSE "error">>
    [] op \in {"<", ">"} /\ v = "str" /\ w = "str" -> <<"bool">>
    [] OTHER -> <<>>

Binary(op, v, w, inplace, methods) ==
  IF BuiltIn(op, v, w) # <<>> THEN BuiltIn(op, v, w)
  ELSE LET r == IF v = "inst" THEN ByMethod(op, inplace, methods) ELSE <<"error">>
       IN IF r = <<"error">> /\ op = "==" THEN <<"bool">> ELSE r

-----------------------------------------------------------------------------
(* The calls and what they promise *)

CallOperator == call = Idle /\
  \/ \E h \in Heaps, v, w \in Value :
       \/ Do("compare", <<h, v, w>>, [equal |-> Equal(h, v, w), same |-> Equal(h, w, v), lesser |-> Lesser(v, w),
                                      greater |-> Greater(v, w), in |-> Contains_(h, v, w), get |-> Subscript(h, v, w)])
  \/ \E h \in Heaps \cup Cyclic, v \in Value : Do("repr", <<h, v>>, <<Repr(h, v, <<>>), ToBool(h, v)>>)
  \/ \E n \in 0..4, from, to \in -6..6 :
       Do("slice", <<n, from, to>>, [list |-> Slice(n, from, to), string |-> SliceString([i \in 1..n |-> i - 1], from, to),
                                     from |-> Place(n, from)])
  \/ \E op \in Binaries, v, w \in Kinds : \E methods \in SUBSET ({op} \X {"", "="}) :
       Do("binary", <<op, v, w, methods>>, <<Binary(op, v, w, FALSE, methods), Binary(op, v, w, TRUE, methods)>>)

\* Equality is symmetric, between maps when they have as many keys; numbers
\* and strings of which neither is smaller are the same; a list contains its elements and
\* what equals them; a key that is in a map has a subscript.
EqualLaws ==
  call.op = "compare" =>
    LET h == call.args[1] v == call.args[2] w == call.args[3] r == call.result IN
    /\ (v.kind = "map" /\ w.kind = "map" => Len(h[v.is]) = Len(h[w.is])) => r.equal = r.same
    /\ r.lesser # <<>> => (r.lesser[1] \/ r.greater[1]) = (NumberOf(v) # NumberOf(w))
    /\ r.lesser # <<>> => ~(r.lesser[1] /\ r.greater[1])
    /\ w.kind = "list" /\ v.kind # "map" => r.in = \E i \in DOMAIN h[w.is] : Equal(h, h[w.is][i], v)
    /\ v.kind = "map" => (r.get # <<>>) = Contains_(h, w, v)
    /\ v.kind = "list" /\ w.kind = "list" /\ r.equal => Len(h[v.is]) = Len(h[w.is]) /\ Contains_(h, v, v) = Contains_(h, w, w)

\* The text of lists and maps that hold one another ends; one that is not
\* open already is written in full.
ReprEnds ==
  call.op = "repr" => ~Written(call.result[1], "endless")
    /\ (Container(call.args[2]) => (call.result[1].text = "empty") = ~call.result[2] /\ call.result[1].text # "...")

\* A slice is the walk from one end of the range to the other, both
\* included, without the places that do not exist; strings and lists are
\* sliced alike.
SliceIsWalk ==
  call.op = "slice" =>
    LET n == call.args[1]
        a == IF call.args[2] < 0 THEN n + call.args[2] ELSE call.args[2]
        b == IF call.args[3] < 0 THEN n + call.args[3] ELSE call.args[3]
        walk == IF a <= b THEN [i \in 1..(b - a + 1) |-> a + i - 1] ELSE [i \in 1..(a - b + 1) |-> a + 1 - i]
    IN /\ call.result.list = SelectSeq(walk, LAMBDA i : i \in 0..(n - 1))
       /\ call.result.string = call.result.list
       /\ call.args[2] = call.args[3] => call.result.list = IF call.result.from = None THEN <<>> ELSE <<call.result.from>>

\* x op= y does what x = x op y does, except in a class that has a method
\* for op=; no other operand is ever given to a method.
CompoundAgrees ==
  call.op = "binary" =>
    LET op == call.args[1] methods == call.args[4] r == call.result IN
    /\ r[1] # r[2] => call.args[2] = "inst" /\ r[2] = <<op, "=">> /\ r[2] \in methods
    /\ r[1] \in methods => call.args[2] = "inst"
    /\ call.args[2] = "inst" /\ <<op, "">> \in methods => r[1] = <<op, "">>

\* The operators together, on values that may contain themselves.
OperatorLaws == EqualLaws /\ ReprEnds /\ SliceIsWalk /\ CompoundAgrees
=============================================================================
