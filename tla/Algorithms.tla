------------------------------ MODULE Algorithms ------------------------------
(***************************************************************************)
(* The algorithms over containers and tuples, as the loops and expansions  *)
(* of the code compute them, each next to what it has to agree with: the   *)
(* one for tuples with the one for ranges, a search with a count, an       *)
(* expansion over indices with the indices.  The containers are chosen     *)
(* once; nothing steps.                                                    *)
(***************************************************************************)
EXTENDS Integers, SequencesExt, FiniteSetsExt

CONSTANTS
  Items,      (* What containers hold: integers other than 0.              *)
  MaxLength,  (* The length of the longest container.                      *)
  IndexMax    (* EMLABCPP_INDEX_MAX.                                       *)

VARIABLES lh, rh   (* Two containers.                                      *)

algorithmVars == <<lh, rh>>

AlgorithmsInit == lh \in BoundedSeq(Items, MaxLength) /\ rh \in BoundedSeq(Items, MaxLength)

(* Predicates are given as the set of what they hold for, callables as     *)
(* functions.                                                              *)
Identity(s) == [x \in Range(s) |-> x]
Numbers(n) == [i \in 1 .. n |-> i - 1]

-----------------------------------------------------------------------------
(* Searches.  Positions are counted from 1; Len + 1 is the end.            *)

FindIf(s, pred) ==
  LET From[i \in 1 .. Len(s) + 1] == IF i > Len(s) \/ s[i] \in pred THEN i ELSE From[i + 1]
  IN  From[1]

(* A fold over || calls the predicate until it holds.                      *)
TupleFindIf(s, pred) ==
  FoldLeft(LAMBDA res, i : IF res # Len(s) + 1 \/ s[i] \notin pred THEN res ELSE i,
           Len(s) + 1, [i \in DOMAIN s |-> i])

Find(s, item) == FindIf(s, {item})
ContainsItem(s, item) == Find(s, item) # Len(s) + 1
AnyOf(s, pred) == FindIf(s, pred) # Len(s) + 1
NoneOf(s, pred) == ~AnyOf(s, pred)
AllOf(s, pred) == ~AnyOf(s, Range(s) \ pred)

-----------------------------------------------------------------------------
(* Folds; all of them are calls of for_each.                               *)

Lowest == Min(Items) - 1
Highest == Max(Items) + 1

Count(s, pred) == FoldLeft(LAMBDA res, x : IF x \in pred THEN res + 1 ELSE res, 0, s)
Accumulate(s, init, f) == FoldLeft(LAMBDA res, x : f[res, x], init, s)
SumOf(s, f, init) == FoldLeft(LAMBDA res, x : res + f[x], init, s)
MaxElem(s) == FoldLeft(LAMBDA res, x : Max({x, res}), Lowest, s)
MinElem(s) == FoldLeft(LAMBDA res, x : Min({x, res}), Highest, s)
MinMaxElem(s) ==
  FoldLeft(LAMBDA res, x : [min |-> Min({res.min, x}), max |-> Max({res.max, x})],
           [min |-> Highest, max |-> Lowest], s)

(* Integer division truncates.                                             *)
Quotient(a, b) == IF a >= 0 THEN a \div b ELSE -((-a) \div b)
Avg(s) == Quotient(SumOf(s, Identity(s), 0), Len(s))
Variance(s) == Quotient(SumOf(s, [x \in Range(s) |-> (x - Avg(s)) * (x - Avg(s))], 0), Len(s))

Sign(x) == IF 0 > x THEN -1 ELSE IF 0 < x THEN 1 ELSE 0
CeilTo(x, base) == IF x % base = 0 THEN x ELSE (x + base) - (x % base)
MapRange(x, from, to) == to[1] + Quotient((to[2] - to[1]) * (x - from[1]), from[2] - from[1])

-----------------------------------------------------------------------------
(* min_max as an interval.                                                 *)

Intersection(head, others) ==
  FoldLeft(LAMBDA res, mm : <<Max({res[1], mm[1]}), Min({res[2], mm[2]})>>, head, others)
Expand(mm, x) == IF x < mm[1] THEN <<x, mm[2]>> ELSE IF x > mm[2] THEN <<mm[1], x>> ELSE mm
Within(mm, x) == mm[1] <= x /\ x <= mm[2]

-----------------------------------------------------------------------------
(* Containers made of containers.                                          *)

Tail1(s, step) == SubSeq(s, 1 + step, Len(s))
Init1(s, step) == SubSeq(s, 1, Len(s) - step)
ViewN(s, begin, n) == SubSeq(s, begin, begin + n - 1)
Reversed(s) == [i \in DOMAIN s |-> s[Len(s) + 1 - i]]

(* r is given in halves; the middle r * size items are left.               *)
TrimView(s, halves) ==
  LET step == (Len(s) * (2 - halves)) \div 4 IN SubSeq(s, 1 + step, Len(s) - step)

(* The loop of the comparison with == and of equal().                      *)
Equal(s, t) ==
  /\ Len(s) = Len(t)
  /\ FoldLeft(LAMBDA res, i : res /\ s[i] = t[i], TRUE, [i \in DOMAIN s |-> i])

(* The three collectors: push_back, insert and the array with its index.   *)
MapF(s, f) == FoldLeft(LAMBDA res, x : Append(res, f[x]), <<>>, s)
MapFToSet(s, f) == FoldLeft(LAMBDA res, x : res \cup {f[x]}, {}, s)
MapFToArray(s, f) ==
  FoldLeft(LAMBDA c, x : [i |-> c.i + 1, res |-> [c.res EXCEPT ![c.i] = f[x]]],
           [i |-> 1, res |-> [i \in DOMAIN s |-> 0]], s).res

(* *iter++ for each of N indices.                                          *)
MapFToA(n, s, f) == [i \in 1 .. n |-> f[s[i]]]
Filled(n, x) == MapFToA(n, Numbers(n), [i \in 0 .. n - 1 |-> x])

Joined(s, val) ==
  IF s = <<>> THEN <<>> ELSE FoldLeft(LAMBDA res, x : res \o val \o <<x>>, <<s[1]>>, Tail1(s, 1))
SerializeView(s) ==
  FoldLeft(LAMBDA out, x : [first |-> FALSE, w |-> IF out.first THEN <<x>> ELSE out.w \o <<",", x>>],
           [first |-> TRUE, w |-> <<>>], s).w
CopyTo(s, dest) ==
  FoldLeft(LAMBDA c, x : [iter |-> c.iter + 1, dest |-> [c.dest EXCEPT ![c.iter] = x]],
           [iter |-> 1, dest |-> dest], s).dest
CrossJoint(s, t) ==
  FoldLeft(LAMBDA out, x : FoldLeft(LAMBDA res, y : Append(res, <<x, y>>), out, t), <<>>, s)

GetIth(i, arrays) ==
  LET Get[a \in 1 .. Len(arrays), j \in 1 .. i] ==
        IF j > Len(arrays[a]) THEN Get[a + 1, j - Len(arrays[a])] ELSE arrays[a][j]
  IN  Get[1, i]
MergeArrays(arrays) ==
  [i \in 1 .. FoldLeft(LAMBDA n, a : n + Len(a), 0, arrays) |-> GetIth(i, arrays)]

(* A string_buffer of n characters; 0 fills it and ends the text.          *)
StringBuffer(n, text) == [i \in 1 .. n |-> IF i <= Min({Len(text), n - 1}) THEN text[i] ELSE 0]
TextSize(buf) == Find(buf, 0) - 1
Extend(buf, text) ==
  LET size == TextSize(buf)
      room == Min({Len(text), Len(buf) - 1 - size})
  IN  [i \in DOMAIN buf |-> IF i \in size + 1 .. size + room THEN text[i - size] ELSE buf[i]]

-----------------------------------------------------------------------------
(* Expansions over indices: IndexMax of them at a time, with an offset in  *)
(* the recursion that is IndexMax whatever it was.                         *)

(* Wrong variant: every block starts over.                                 *)
IndexSeqFromZero(n) == [x \in 1 .. n |-> (x - 1) % IndexMax]

IndexSeq(n) ==
  LET Block[off \in {0, IndexMax}, m \in 0 .. n] ==
        [x \in 1 .. Min({m, IndexMax}) |-> off + x - 1]
          \o (IF m > IndexMax THEN Block[IndexMax, m - IndexMax] ELSE <<>>)
  IN  Block[0, n]

(* What f is called with for the index i; -1 stands for abort().           *)
IndexSwitch(n, i) ==
  LET Switch[off \in {0, IndexMax}, m \in 0 .. n, j \in 0 .. i] ==
        IF j < m /\ j < IndexMax THEN off + j
        ELSE IF m > IndexMax THEN Switch[IndexMax, m - IndexMax, j - IndexMax] ELSE -1
  IN  Switch[0, n, i]

(* Calls f with each index until it returns TRUE.                          *)
UntilIndex(n, pred) == AnyOf(IndexSeq(n), pred)
(* A miss leaves the last index.                                           *)
FindIfIndex(n, pred) ==
  IF UntilIndex(n, pred) THEN IndexSeq(n)[FindIf(IndexSeq(n), pred)] ELSE Max({n - 1, 0})
SelectIndex(i, f) == f[IndexSwitch(Len(f), i) + 1]

-----------------------------------------------------------------------------
(* Iterators.  A numeric_iterator holds a number of a width.               *)

NumericMoved(v, offset, modulus) == (v + offset) % modulus
NumericDistance(v, from) == v - from
RangeView(from, to, modulus) ==
  LET Walk[n \in 0 .. modulus] ==
        LET v == NumericMoved(from, n, modulus) IN IF v = to THEN <<>> ELSE <<v>> \o Walk[n + 1]
  IN  Walk[0]
ConvertView(s, f) == [i \in DOMAIN s |-> f[s[i]]]

(* Zip iterators are taken for equal when any of theirs are: a loop over   *)
(* containers of different sizes ends with the shortest.                   *)
ZipEquals(at, end) == \E c \in DOMAIN at : at[c] = end[c]
ZipView(conts) ==
  LET end == [c \in DOMAIN conts |-> Len(conts[c]) + 1]
      Walk[i \in 1 .. Len(conts[1]) + 1] ==
        IF ZipEquals([c \in DOMAIN conts |-> i], end) THEN <<>>
        ELSE <<[c \in DOMAIN conts |-> conts[c][i]]>> \o Walk[i + 1]
  IN  Walk[1]
TupleZip(tpls) == [i \in 1 .. Len(tpls[1]) |-> [t \in DOMAIN tpls |-> tpls[t][i]]]
Enumerate(s) == ZipView(<<RangeView(0, Len(s), MaxLength + 1), s>>)

-----------------------------------------------------------------------------
(* A search stops at the first item it is for, in a tuple as in a range,   *)
(* and says the same as a count.                                           *)
SearchesAgree ==
  \A item \in Items :
    LET at == Find(lh, item)
    IN  /\ TupleFindIf(lh, {item}) = at
        /\ ContainsItem(lh, item) => lh[at] = item /\ NoneOf(ViewN(lh, 1, at - 1), {item})
        /\ ContainsItem(lh, item) <=> item \in MapFToSet(lh, Identity(lh))
        /\ AnyOf(lh, {item}) <=> Count(lh, {item}) > 0
        /\ AllOf(lh, {item}) <=> Count(lh, {item}) = Len(lh)

(* The extremes of a container that is not empty are attained and bound    *)
(* the average, also in types whose division truncates, and the variance;  *)
(* folds of two containers add up.                                         *)
FoldsAgree ==
  LET mm == MinMaxElem(lh)
      Add == [x, y \in Int |-> x + y]
      both == MergeArrays(<<rh, lh>>)
  IN  /\ lh # <<>> =>
           /\ mm = [min |-> MinElem(lh), max |-> MaxElem(lh)]
           /\ ContainsItem(lh, mm.min) /\ ContainsItem(lh, mm.max)
           /\ AllOf(lh, {x \in Items : Within(<<mm.min, mm.max>>, x)})
           /\ Avg(lh) \in mm.min .. mm.max
           /\ Variance(lh) \in 0 .. (mm.max - mm.min) * (mm.max - mm.min)
           /\ <<mm.min, mm.max>> = FoldLeft(Expand, <<lh[1], lh[1]>>, lh)
      /\ SumOf(rh, Identity(rh), SumOf(lh, Identity(lh), 0)) = Accumulate(both, 0, Add)
      /\ SumOf(lh, [x \in Items |-> Sign(x)], 0)
           = Count(lh, {x \in Items : x > 0}) - Count(lh, {x \in Items : x < 0})
      /\ (lh # <<>> /\ rh # <<>>) =>
           LET a == <<MinElem(lh), MaxElem(lh)>>
               b == <<MinElem(rh), MaxElem(rh)>>
           IN  /\ \A x \in Items : Within(Intersection(a, <<b>>), x) <=> Within(a, x) /\ Within(b, x)
               /\ a[1] < a[2] => MapRange(a[1], a, b) = b[1] /\ MapRange(a[2], a, b) = b[2]
      /\ \A x \in 0 .. MaxLength, base \in 1 .. 3 : CeilTo(x, base) \in {y \in x .. x + base - 1 : y % base = 0}

(* Every way to map, join, merge, copy, reverse, cross or compare gives    *)
(* the items of its containers, each once and in their order; what is left *)
(* of a container without a half of it is the same from both ends.         *)
ShapesAgree ==
  LET Twice == [x \in Items |-> 2 * x] IN
  /\ ConvertView(lh, Twice) = MapF(lh, Twice)
  /\ MergeArrays(<<lh, rh, lh>>) = lh \o rh \o lh
  /\ MapF(lh, Twice) = MapFToA(Len(lh), lh, Twice) /\ MapFToArray(lh, Twice) = MapF(lh, Twice)
  /\ Reversed(MergeArrays(<<Reversed(lh), Reversed(rh)>>)) = rh \o lh
  /\ Equal(lh, rh) <=> lh = rh
  /\ lh # <<>> => MergeArrays(<<Init1(lh, 1), <<lh[Len(lh)]>>>>) = MergeArrays(<<<<lh[1]>>, Tail1(lh, 1)>>)
  /\ Reversed(TrimView(lh, 1)) = TrimView(Reversed(lh), 1)
  /\ SerializeView(lh) = Joined(lh, <<",">>)
  /\ CopyTo(lh, Filled(Len(lh) + 1, 0)) = Append(lh, 0)
  /\ CrossJoint(lh, rh) = [i \in 1 .. Len(lh) * Len(rh) |-> <<lh[(i - 1) \div Len(rh) + 1], rh[((i - 1) % Len(rh)) + 1]>>]
  /\ \A n \in 1 .. 2 * MaxLength :
       LET text == lh \o rh
           buf == Extend(StringBuffer(n, lh), rh)
       IN  ViewN(buf, 1, TextSize(buf)) = ViewN(text, 1, Min({Len(text), n - 1}))

(* Up to two times IndexMax - beyond that the second block is repeated -   *)
(* expansions see every index below the given one, once and in order, and  *)
(* a value that is selected by is not changed.                             *)
IndexesAgree ==
  LET n == Len(lh) IN
  n <= 2 * IndexMax =>
  /\ IndexSeq(n) = Numbers(n)
  /\ \A i \in 0 .. n - 1 :
       /\ IndexSwitch(n, i) = i /\ SelectIndex(i, lh) = lh[i + 1]
       /\ FindIfIndex(n, {j \in 0 .. n - 1 : lh[j + 1] = lh[i + 1]}) = Find(lh, lh[i + 1]) - 1
  /\ IndexSwitch(n, n) = -1
  /\ \A item \in Items : UntilIndex(n, {i \in 0 .. n - 1 : lh[i + 1] = item}) <=> ContainsItem(lh, item)

(* A loop over a view visits what it promises and ends: numbers up to the  *)
(* end, over the wrap of their type if need be; containers of one length,  *)
(* as zip_iterator expects them, in step.                                  *)
ViewsAgree ==
  /\ \A from, to \in 0 .. 2 * MaxLength :
       LET view == RangeView(from, to, 2 * MaxLength + 1) IN
       /\ from <= to => Len(view) = NumericDistance(to, from)
       /\ ContainsItem(view, from) <=> from # to
       /\ ~ContainsItem(view, to) /\ Len(view) = Cardinality(MapFToSet(view, Identity(view)))
  /\ Len(lh) = Len(rh) => ZipView(<<lh, rh>>) = TupleZip(<<lh, rh>>)
  /\ lh # <<>> => TupleZip(ZipView(<<lh, lh>>)) = <<lh, lh>>
  /\ TupleZip(<<Numbers(Len(lh)), lh>>) = Enumerate(lh)

(* All of that, for the two containers of the state.                       *)
AlgorithmsAgree == SearchesAgree /\ FoldsAgree /\ ShapesAgree /\ IndexesAgree /\ ViewsAgree

=============================================================================
