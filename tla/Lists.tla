-------------------------------- MODULE Lists --------------------------------
(***************************************************************************)
(* Lists, maps and ranges under a for loop whose body changes them.        *)
(*                                                                         *)
(* A list is a buffer of elements with a capacity; a map is here the       *)
(* sequence of its keys in insertion order, order_keys (the table is in    *)
(* HashMap); variables hold references, so that two of them may share a    *)
(* list.  Every operation changes its sequence by a splice or by           *)
(* assigning places, and the loop's record of how often it has visited     *)
(* each place follows the splices.                                         *)
(***************************************************************************)
EXTENDS Integers, Sequences, FiniteSets, SequencesExt

CONSTANTS
  Element,       \* values put in lists
  Key,           \* keys of the map
  Range_,        \* the ranges looped over: [from, to]
  Null,
  MinCapacity,   \* MIN_CAPACITY
  Longest,       \* bound of the model: elements of the first list literal
  MaxLength,     \* bound of the model: elements of a list
  MaxChanges     \* bound of the model: changes made in one run

VARIABLES
  list,      \* list objects: elems and capacity
  var,       \* the lists that the variables a and b hold
  order,     \* order_keys of the map
  loop,      \* the for loop that runs
  changes    \* changes made so far

lvars == <<list, var, order, loop, changes>>

Variable == {"a", "b"}
Sequence_ == Seq(Element \cup {Null})
Power[e \in Nat] == IF e = 0 THEN 1 ELSE 2 * Power[e - 1]
IsPower(n) == \E e \in 0..n : n = Power[e]
NoLoop == [on |-> "nothing"]

ASSUME ListsAssumption ==
  /\ Range_ \subseteq [from : Int, to : Int]
  /\ MinCapacity \in Nat /\ IsPower(MinCapacity)    \* 8
  /\ {Longest, MaxLength, MaxChanges} \subseteq Nat

TypeOK ==
  /\ \A l \in DOMAIN list : list[l].elems \in Sequence_
  /\ var \in [Variable -> DOMAIN list]
  /\ IsInjective(order) /\ Range(order) \subseteq Key
  /\ changes \in 0..MaxChanges
  /\ loop = NoLoop \/ loop.on \in {"list", "map", "range"}

-----------------------------------------------------------------------------
(* Buffers *)

\* del places from offset i on are replaced by those of ins.
Splice(s, i, del, ins) == SubSeq(s, 1, i) \o ins \o SubSeq(s, i + del + 1, Len(s))
Nulls(n) == [i \in 1..n |-> Null]

\* utilPowerOf2Ceil
Ceil(n) == Power[CHOOSE e \in 0..n : Power[e] >= n /\ \A d \in 0..(e - 1) : Power[d] < n]

\* BufferReserve
Reserved(capacity, n) == IF capacity >= n THEN capacity ELSE IF Ceil(n) < MinCapacity THEN MinCapacity ELSE Ceil(n)

\* listShrink
Shrunk(capacity, n) ==
  IF capacity <= MinCapacity \/ n * 4 > capacity THEN capacity
  ELSE IF capacity \div 2 < MinCapacity THEN MinCapacity ELSE capacity \div 2

LInit ==
  /\ \E n \in 0..Longest, x \in Element :
       list = <<[elems |-> [i \in 1..n |-> x], capacity |-> Reserved(0, n)], [elems |-> <<>>, capacity |-> 0]>>
  /\ var = [v \in Variable |-> IF v = "a" THEN 1 ELSE 2]
  /\ \E n \in 0..Longest : order \in [1..n -> Key] /\ IsInjective(order)
  /\ loop = NoLoop
  /\ changes = 0

Looping(on, id) == loop # NoLoop /\ loop.on = on /\ (on = "list" => loop.id = id)

\* The loop's record after a splice of the sequence it walks: a splice
\* before the cursor that changes the length moves unvisited places over it.
Followed(on, id, i, del, n) ==
  loop' = IF Looping(on, id)
          THEN [loop EXCEPT !.visited = Splice(@, i, del, [k \in 1..n |-> 0]),
                            !.shifted = @ \/ (i < loop.iter /\ del # n)]
          ELSE loop

Counted == changes < MaxChanges /\ changes' = changes + 1

Changed(l, i, del, ins, capacity) ==
  /\ Len(list[l].elems) - del + Len(ins) <= MaxLength
  /\ list' = [list EXCEPT ![l] = [elems |-> Splice(@.elems, i, del, ins), capacity |-> capacity]]
  /\ Followed("list", l, i, del, Len(ins))
  /\ UNCHANGED <<var, order>>
  /\ Counted

-----------------------------------------------------------------------------
(* The methods and operators of lists *)

Count(l) == Len(list[l].elems)

ListAppend(v, x) ==
  LET l == var[v] IN Changed(l, Count(l), 0, <<x>>, Reserved(list[l].capacity, Count(l) + 1))

\* Mutant: the rest of the list is not shifted.
ListInsertOver(v, i, x) ==
  LET l == var[v] IN
  i \in 0..Count(l) /\ Changed(l, i, IF i < Count(l) THEN 1 ELSE 0, <<x>>, Reserved(list[l].capacity, Count(l) + 1))

ListInsert(v, i, x) ==
  LET l == var[v] IN i \in 0..Count(l) /\ Changed(l, i, 0, <<x>>, Reserved(list[l].capacity, Count(l) + 1))

ListPop(v, index) ==
  LET l == var[v]
      i == IF index < 0 THEN Count(l) + index ELSE index
  IN i \in 0..(Count(l) - 1) /\ Changed(l, i, 1, <<>>, Shrunk(list[l].capacity, Count(l) - 1))

ListClear(v) == Changed(var[v], 0, Count(var[v]), <<>>, 0)

ListResize(v, length) ==
  LET l == var[v]
      n == IF length < 0 THEN Count(l) + length ELSE length
  IN \/ n = 0 /\ Changed(l, 0, Count(l), <<>>, 0)
     \/ n > Count(l) /\ Changed(l, Count(l), 0, Nulls(n - Count(l)), Reserved(list[l].capacity, n))
     \/ n > 0 /\ n < Count(l) /\ Changed(l, n, Count(l) - n, <<>>, Shrunk(list[l].capacity, n))

\* v[index] = x fills the list with nulls up to the index.
SetSubscript(v, index, x) ==
  LET l == var[v]
      i == IF index < 0 THEN Count(l) + index ELSE index
  IN \/ i >= Count(l) /\ Changed(l, Count(l), 0, Append(Nulls(i - Count(l)), x), Reserved(list[l].capacity, i + 1))
     \/ /\ i \in 0..(Count(l) - 1)
        /\ list' = [list EXCEPT ![l].elems[i + 1] = x]
        /\ UNCHANGED <<var, order, loop>>
        /\ Counted

\* Mutant: room is made for the elements of the other list only.
AddInPlaceShort(v, w) ==
  LET l == var[v]
      other == list[var[w]].elems
  IN other # <<>> /\ Changed(l, Count(l), 0, other, Reserved(list[l].capacity, Len(other)))

\* v += w
AddInPlace(v, w) ==
  LET l == var[v]
      other == list[var[w]].elems
  IN other # <<>> /\ Changed(l, Count(l), 0, other, Reserved(list[l].capacity, Count(l) + Len(other)))

\* v = v + w: one of the operands itself when the other one is empty.
Add(v, w) ==
  LET s == list[var[v]].elems
      t == list[var[w]].elems
  IN /\ Len(s) + Len(t) <= MaxLength
     /\ IF s # <<>> /\ t # <<>>
        THEN LET l == Min({k \in 1..4 : k \notin Range(var) /\ ~Looping("list", k)}) IN
               /\ list' = [k \in 1..Max({l, Len(list)}) |->
                    IF k = l THEN [elems |-> s \o t, capacity |-> Reserved(0, Len(s) + Len(t))] ELSE list[k]]
               /\ var' = [var EXCEPT ![v] = l]
        ELSE list' = list /\ var' = [var EXCEPT ![v] = IF s = <<>> THEN var[w] ELSE @]
     /\ UNCHANGED <<order, loop>>
     /\ Counted

MapSet(k) ==
  /\ order' = IF k \in Range(order) THEN order ELSE Append(order, k)
  /\ IF k \in Range(order) THEN loop' = loop ELSE Followed("map", 0, Len(order), 0, 1)
  /\ UNCHANGED <<list, var>>
  /\ Counted

MapPop(k) ==
  /\ k \in Range(order)
  /\ LET i == CHOOSE j \in DOMAIN order : order[j] = k IN
     order' = Splice(order, i - 1, 1, <<>>) /\ Followed("map", 0, i - 1, 1, 0)
  /\ UNCHANGED <<list, var>>
  /\ Counted

MapClear ==
  /\ order # <<>>
  /\ order' = <<>> /\ Followed("map", 0, 0, Len(order), 0)
  /\ UNCHANGED <<list, var>>
  /\ Counted

-----------------------------------------------------------------------------
(* The for loop: varIterate *)

Started(on, id, n) ==
  [on |-> on, id |-> id, iter |-> 0, visited |-> [i \in 1..n |-> 0], shifted |-> FALSE, ended |-> FALSE]

Begin ==
  /\ loop = NoLoop
  /\ \/ \E v \in Variable : loop' = Started("list", var[v], Count(var[v]))
     \/ loop' = Started("map", 0, Len(order))
     \/ \E r \in Range_ : loop' = Started("range", r, 0)
  /\ UNCHANGED <<list, var, order, changes>>

\* The places that are left, or the number the range is at.
Left == loop.iter < Len(IF loop.on = "list" THEN list[loop.id].elems ELSE order)
Current(r, iter) == IF r.from <= r.to THEN r.from + iter ELSE r.from - iter
More == IF loop.on = "range" THEN loop.id.from # loop.id.to /\ Current(loop.id, loop.iter) # loop.id.to ELSE Left

\* Mutant: the iterator of a range is not written back.
VisitInPlace ==
  /\ loop # NoLoop /\ ~loop.ended /\ More
  /\ loop' = [loop EXCEPT !.iter = IF loop.on = "range" THEN @ ELSE @ + 1,
                !.visited = IF loop.on = "range" THEN @ ELSE [loop.visited EXCEPT ![loop.iter + 1] = @ + 1]]
  /\ UNCHANGED <<list, var, order, changes>>

Visit ==
  /\ loop # NoLoop /\ ~loop.ended /\ More
  /\ loop' = [loop EXCEPT !.iter = @ + 1,
                !.visited = IF loop.on = "range" THEN Append(@, 1) ELSE [loop.visited EXCEPT ![loop.iter + 1] = @ + 1]]
  /\ UNCHANGED <<list, var, order, changes>>

\* JUMP_ITER_EXIT, and the statement after the loop.
Exit ==
  /\ loop # NoLoop
  /\ \/ ~loop.ended /\ ~More /\ loop' = [loop EXCEPT !.ended = TRUE]
     \/ loop.ended /\ loop' = NoLoop
  /\ UNCHANGED <<list, var, order, changes>>

Iterate == Visit \/ Exit

Change ==
  /\ loop # NoLoop => ~loop.ended
  /\ \/ \E v \in Variable :
          \/ \E x \in Element : ListAppend(v, x) \/ (\E i \in 0..MaxLength : ListInsert(v, i, x) \/ SetSubscript(v, i - 2, x))
          \/ \E i \in -1..MaxLength : ListPop(v, i)
          \/ \E n \in -1..MaxLength : ListResize(v, n)
          \/ ListClear(v)
          \/ \E w \in Variable : AddInPlace(v, w) \/ Add(v, w)
     \/ \E k \in Key : MapSet(k) \/ MapPop(k)
     \/ MapClear

LNext == Change \/ Begin \/ Iterate

\* A body that always comes back to the loop's ITER instruction.
LSpec == LInit /\ [][LNext]_lvars /\ WF_lvars(Iterate)

-----------------------------------------------------------------------------
(* Properties *)

\* A buffer never holds more than its capacity, a power of two, through
\* appends in place, splices of a list into itself, resizes and shrinking
\* (listAdd, listInsert, listRemoveAt, listShrink).
BufferFits ==
  /\ TypeOK
  /\ \A l \in DOMAIN list : LET b == list[l] IN
       Len(b.elems) <= b.capacity /\ (b.capacity = 0 \/ (IsPower(b.capacity) /\ b.capacity >= MinCapacity))

\* While the body changes only places at or after the cursor, the loop
\* visits no place twice, and when it ends it has visited all there are.  A
\* range is visited at each of its numbers.
SeenOnce ==
  loop # NoLoop /\ ~loop.shifted =>
    /\ \A i \in DOMAIN loop.visited : loop.visited[i] <= 1 /\ (loop.ended => loop.visited[i] = 1)
    /\ loop.ended /\ loop.on = "range" =>
         Len(loop.visited) = IF loop.id.from <= loop.id.to THEN loop.id.to - loop.id.from ELSE loop.id.from - loop.id.to

\* A loop whose body makes finitely many changes ends, over ranges of whole
\* length too (varIterate compares the number it is at with the end).
LoopEnds == (loop # NoLoop) ~> (loop = NoLoop)
=============================================================================
