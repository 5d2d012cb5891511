---------------------- MODULE StaticCircularBufferProofs ----------------------
(***************************************************************************)
(* The circular buffer as one thread of control sees it, for every         *)
(* capacity, index width, strategy and number of buffers, with elements    *)
(* that are copied and destroyed one by one: no element outlives its place *)
(* in the buffer, and the buffers are the queues of BoundedFifo.           *)
(***************************************************************************)
EXTENDS StaticCircularBuffer, CircularIndexProofs, SequenceTheorems

Buffer == [from : Indices, to : Indices, slots : [Slots -> Values \union {Raw, Moved}]]

(* x elements were removed from o and y inserted into it: the indices are  *)
(* these counts reduced to their range, and the slots of the elements that *)
(* were inserted and not removed are those with a value.                   *)
Counted(o, x, y) ==
  /\ x \in Nat /\ y \in Nat /\ x <= y /\ y - x <= N
  /\ o \in Buffer
  /\ o.from = x % IndexSpan /\ o.to = y % IndexSpan
  /\ \A k \in Slots : o.slots[k] \in Values <=> \E i \in x .. y - 1 : k = i % MaxSize

Sound(o) == \E x, y \in Nat : Counted(o, x, y)

(* The inductive invariant.                                                *)
BuffersSound ==
  /\ buf \in [Objects -> Buffer]
  /\ out \in Seq(Values \union {Raw, Moved})
  /\ \A b \in Objects : Sound(buf[b])

-----------------------------------------------------------------------------
(* Slots and runs of them.                                                 *)

(* The slot of a count is a slot.                                          *)
LEMMA SlotOf == ASSUME NEW x \in Nat PROVE x % MaxSize \in Slots
  BY DivMod, Spans DEF Slots

(* Counts less than the storage apart have slots of their own.             *)
LEMMA SlotsApart ==
  ASSUME NEW x \in Nat, NEW y \in Nat, NEW i \in x .. y, NEW j \in x .. y,
         y - x < MaxSize, i % MaxSize = j % MaxSize
  PROVE  i = j
<1>1. i \in Nat /\ j \in Nat /\ MaxSize \in Nat \ {0}
  BY Spans
<1>2. CASE i <= j
  <2>1. j - i < MaxSize
    BY <1>1
  <2> QED
    BY <1>1, <1>2, <2>1, ModInjective, Zenon
<1>3. CASE j <= i
  <2>1. i - j < MaxSize
    BY <1>1
  <2>2. j = i
    BY <1>1, <1>3, <2>1, ModInjective, Zenon
  <2> QED
    BY <2>2
<1> QED
  BY <1>1, <1>2, <1>3

(* The n slots from that of a count on are those of the next n counts.     *)
LEMMA RunOfCounts ==
  ASSUME NEW x \in Nat, NEW n \in 0 .. MaxSize, NEW k \in Slots
  PROVE  k \in Run(x % MaxSize, n) <=> \E i \in x .. x + n - 1 : k = i % MaxSize
<1>0. MaxSize \in Nat \ {0} /\ n \in Nat
  BY Spans
<1>1. \A j \in 0 .. n - 1 : ((x % MaxSize) + j) % MaxSize = (x + j) % MaxSize
  BY <1>0, ModAdd
<1>2. ASSUME k \in Run(x % MaxSize, n)
      PROVE  \E i \in x .. x + n - 1 : k = i % MaxSize
  <2>1. PICK j \in 0 .. n - 1 : k = ((x % MaxSize) + j) % MaxSize
    BY <1>2 DEF Run
  <2>2. x + j \in x .. x + n - 1 /\ k = (x + j) % MaxSize
    BY <1>0, <1>1, <2>1
  <2> QED
    BY <2>2
<1>3. ASSUME NEW i \in x .. x + n - 1, k = i % MaxSize
      PROVE  k \in Run(x % MaxSize, n)
  <2>1. i - x \in 0 .. n - 1 /\ x + (i - x) = i
    BY <1>0
  <2>2. ((x % MaxSize) + (i - x)) % MaxSize = k
    BY <1>1, <1>3, <2>1
  <2> QED
    BY <2>1, <2>2 DEF Run
<1> QED
  BY <1>2, <1>3

(* How far a slot is behind the slot of a count.                           *)
LEMMA Distance ==
  ASSUME NEW y \in Nat, NEW d \in 0 .. MaxSize - 1
  PROVE  (((y + d) % MaxSize) - (y % MaxSize)) % MaxSize = d
<1> DEFINE r == y % MaxSize
           k == (y + d) % MaxSize
<1>0. MaxSize \in Nat \ {0} /\ d \in 0 .. MaxSize
  BY Spans
<1>1. r \in 0 .. MaxSize - 1
  BY <1>0, DivMod
<1>2. k = IF r + d < MaxSize THEN r + d ELSE r + d - MaxSize
  BY <1>0, ModStep
<1> HIDE DEF r, k
<1>3. k - r = d \/ k - r = d - MaxSize
  BY <1>0, <1>1, <1>2
<1>4. d % MaxSize = d /\ (d - MaxSize) % MaxSize = d
  BY <1>0
<1>5. (k - r) % MaxSize = d
  BY <1>3, <1>4
<1> QED
  BY <1>5 DEF k, r

(* Every slot is some way behind that of a count.                          *)
LEMMA SomeDistance ==
  ASSUME NEW y \in Nat, NEW k \in Slots
  PROVE  \E d \in 0 .. MaxSize - 1 : k = (y + d) % MaxSize
<1> DEFINE r == y % MaxSize
           d == IF k >= r THEN k - r ELSE k - r + MaxSize
<1>0. MaxSize \in Nat \ {0} /\ k \in 0 .. MaxSize - 1
  BY Spans DEF Slots
<1>1. r \in 0 .. MaxSize - 1
  BY <1>0, DivMod
<1> HIDE DEF r
<1>2. d \in 0 .. MaxSize - 1 /\ d \in 0 .. MaxSize
  BY <1>0, <1>1
<1>3. k = IF r + d < MaxSize THEN r + d ELSE r + d - MaxSize
  BY <1>0, <1>1
<1> HIDE DEF d
<1>4. (y + d) % MaxSize = k
  BY <1>0, <1>2, <1>3, ModStep DEF r
<1> QED
  BY <1>2, <1>4

-----------------------------------------------------------------------------
(* The elements of a buffer.                                               *)

LEMMA CountsOf ==
  ASSUME NEW o, NEW x, NEW y, Counted(o, x, y)
  PROVE  /\ x \in Nat /\ y \in Nat /\ y - x \in 0 .. N /\ N \in Nat /\ MaxSize \in Nat \ {0}
         /\ N <= MaxSize
         /\ SizeOf(o) = y - x
         /\ Slot(o.from) = x % MaxSize /\ Slot(o.to) = y % MaxSize
         /\ o \in Buffer
<1>1. x \in Nat /\ y \in Nat /\ x <= y /\ y - x <= N /\ N \in Nat
  BY Spans DEF Counted
<1>2. o.from = x % IndexSpan /\ o.to = y % IndexSpan /\ o \in Buffer
  BY DEF Counted
<1>3. Size(x % IndexSpan, y % IndexSpan) = y - x
  BY <1>1, SizeCounts
<1>4. Slot(x % IndexSpan) = x % MaxSize /\ Slot(y % IndexSpan) = y % MaxSize
  BY <1>1, SlotOfCount
<1> QED
  BY <1>1, <1>2, <1>3, <1>4, Spans DEF SizeOf

(* Element i of a buffer is in the slot of the i-th count after those that *)
(* were removed.                                                           *)
LEMMA ContentsOf ==
  ASSUME NEW o, NEW x, NEW y, Counted(o, x, y)
  PROVE  /\ Contents(o) \in Seq(Values)
         /\ Len(Contents(o)) = y - x
         /\ \A i \in 1 .. y - x : Contents(o)[i] = o.slots[(x + i - 1) % MaxSize]
<1>0. o.from = x % IndexSpan
  BY DEF Counted
<1>1. /\ x \in Nat /\ y \in Nat /\ y - x \in 0 .. N /\ N \in Nat
      /\ SizeOf(o) = y - x /\ o.from = x % IndexSpan /\ o \in Buffer
  BY <1>0, CountsOf, Zenon
<1>2. ASSUME NEW i \in 1 .. y - x
      PROVE  /\ Slot(Advance(o.from, i - 1)) = (x + i - 1) % MaxSize
             /\ o.slots[(x + i - 1) % MaxSize] \in Values
  <2>1. i - 1 \in 0 .. N /\ x + (i - 1) \in Nat /\ x + (i - 1) = x + i - 1
    BY <1>1
  <2>2. Advance(o.from, i - 1) = (x + (i - 1)) % IndexSpan
    BY <1>1, <2>1, AdvanceCounts
  <2>3. Slot((x + (i - 1)) % IndexSpan) = (x + (i - 1)) % MaxSize
    BY <2>1, SlotOfCount
  <2>4. (x + i - 1) % MaxSize \in Slots /\ x + i - 1 \in x .. y - 1
    BY <1>1, <2>1, SlotOf
  <2> QED
    BY <2>1, <2>2, <2>3, <2>4 DEF Counted
<1>3. Contents(o) = [i \in 1 .. y - x |-> o.slots[(x + i - 1) % MaxSize]]
  BY <1>1, <1>2 DEF Contents
<1>4. y - x \in Nat
  BY <1>1
<1>5. Contents(o) \in [1 .. y - x -> Values]
  BY <1>2, <1>3
<1> QED
  BY <1>3, <1>4, <1>5

-----------------------------------------------------------------------------
(* Removal: pop_front, take_front and all that is built of them.           *)

(* The buffer without its first n elements, z left in their slots.         *)
Without(o, n, z) ==
  [o EXCEPT !.slots = Fill(@, Slot(o.from), n, z), !.from = Advance(@, n)]

LEMMA Removal ==
  ASSUME NEW o, NEW x, NEW y, Counted(o, x, y), NEW n \in 0 .. y - x, NEW z \in {Raw, Moved}
  PROVE  /\ Counted(Without(o, n, z), x + n, y)
         /\ Contents(Without(o, n, z)) = SubSeq(Contents(o), n + 1, Len(Contents(o)))
<1> DEFINE p == Without(o, n, z)
<1>1. /\ x \in Nat /\ y \in Nat /\ y - x \in 0 .. N /\ N \in Nat
      /\ MaxSize \in Nat \ {0} /\ N <= MaxSize
      /\ Slot(o.from) = x % MaxSize /\ o \in Buffer
  BY CountsOf, Zenon
<1>2. o.from = x % IndexSpan /\ o.to = y % IndexSpan
  BY DEF Counted
<1>3. n \in 0 .. N /\ n \in 0 .. MaxSize /\ x + n \in Nat /\ x + n <= y /\ y - (x + n) <= N
  BY <1>1
<1>4. Advance(o.from, n) = (x + n) % IndexSpan /\ (x + n) % IndexSpan \in Indices
  BY <1>1, <1>2, <1>3, AdvanceCounts, SlotOfCount
<1>5. /\ p.slots = [k \in Slots |-> IF k \in Run(x % MaxSize, n) THEN z ELSE o.slots[k]]
      /\ p.from = (x + n) % IndexSpan /\ p.to = y % IndexSpan
      /\ p \in Buffer
  BY <1>1, <1>2, <1>4 DEF Buffer, Fill, Without
<1> HIDE DEF p
<1>6. ASSUME NEW k \in Slots
      PROVE  p.slots[k] \in Values <=> \E i \in x + n .. y - 1 : k = i % MaxSize
  <2>1. k \in Run(x % MaxSize, n) <=> \E i \in x .. x + n - 1 : k = i % MaxSize
    BY <1>1, <1>3, RunOfCounts
  <2>2. o.slots[k] \in Values <=> \E i \in x .. y - 1 : k = i % MaxSize
    BY DEF Counted
  <2>3. CASE k \in Run(x % MaxSize, n)
    <3>1. p.slots[k] \notin Values
      BY <1>5, <2>3, ElementAssumption
    <3>2. PICK i \in x .. x + n - 1 : k = i % MaxSize
      BY <2>1, <2>3
    <3>3. ASSUME NEW j \in x + n .. y - 1, k = j % MaxSize
          PROVE  FALSE
      <4>1. i \in x .. y - 1 /\ j \in x .. y - 1 /\ y - 1 \in Nat /\ (y - 1) - x < MaxSize
        BY <1>1, <1>3, <3>2
      <4>2. i = j
        BY <1>1, <3>2, <3>3, <4>1, SlotsApart, Zenon
      <4> QED
        BY <1>1, <1>3, <4>2
    <3> QED
      BY <3>1, <3>3
  <2>4. CASE k \notin Run(x % MaxSize, n)
    <3>1. p.slots[k] = o.slots[k]
      BY <1>5, <2>4
    <3>2. x .. y - 1 = (x .. x + n - 1) \union (x + n .. y - 1)
      BY <1>1, <1>3
    <3> QED
      BY <2>1, <2>2, <2>4, <3>1, <3>2
  <2> QED
    BY <2>3, <2>4
<1>7. Counted(p, x + n, y)
  BY <1>1, <1>3, <1>5, <1>6 DEF Counted
<1>8. Contents(p) = SubSeq(Contents(o), n + 1, Len(Contents(o)))
  <2> DEFINE c == Contents(o)
             d == Contents(p)
  <2>1. c \in Seq(Values) /\ Len(c) = y - x /\ \A i \in 1 .. y - x : c[i] = o.slots[(x + i - 1) % MaxSize]
    BY ContentsOf
  <2>2. /\ d \in Seq(Values) /\ Len(d) = y - (x + n)
        /\ \A i \in 1 .. y - (x + n) : d[i] = p.slots[(x + n + i - 1) % MaxSize]
    BY <1>7, ContentsOf
  <2> HIDE DEF c, d
  <2> DEFINE t == SubSeq(c, n + 1, Len(c))
  <2>3. /\ t \in Seq(Values) /\ Len(t) = y - (x + n)
        /\ \A i \in 1 .. y - (x + n) : t[i] = c[n + i]
    <3>1. \A i \in n + 1 .. Len(c) : c[i] \in Values
      BY <1>1, <1>3, <2>1
    <3> DEFINE m == n + 1
               l == Len(c)
    <3>2. m \in Int /\ l \in Int /\ \A i \in m .. l : c[i] \in Values
      BY <1>1, <1>3, <2>1, <3>1
    <3> HIDE DEF m, l
    <3>3. /\ SubSeq(c, m, l) \in Seq(Values)
          /\ Len(SubSeq(c, m, l)) = IF m <= l THEN l - m + 1 ELSE 0
          /\ \A i \in 1 .. l - m + 1 : SubSeq(c, m, l)[i] = c[m + i - 1]
      BY <3>2, SubSeqProperties
    <3> USE DEF m, l
    <3>4. /\ t \in Seq(Values)
          /\ Len(t) = IF n + 1 <= Len(c) THEN Len(c) - (n + 1) + 1 ELSE 0
          /\ \A i \in 1 .. Len(c) - (n + 1) + 1 : t[i] = c[(n + 1) + i - 1]
      BY <3>3
    <3> HIDE DEF t
    <3>5. Len(t) = y - (x + n)
      BY <1>1, <1>3, <2>1, <3>4
    <3>6. ASSUME NEW i \in 1 .. y - (x + n)
          PROVE  t[i] = c[n + i]
      <4>1. i \in 1 .. Len(c) - (n + 1) + 1 /\ (n + 1) + i - 1 = n + i
        BY <1>1, <1>3, <2>1
      <4> QED
        BY <3>4, <4>1
    <3> QED
      BY <3>4, <3>5, <3>6
  <2> HIDE DEF t
  <2>4. ASSUME NEW i \in 1 .. y - (x + n)
        PROVE  d[i] = t[i]
    <3>1. n + i \in 1 .. y - x /\ x + (n + i) - 1 = x + n + i - 1 /\ x + n + i - 1 \in x + n .. y - 1
          /\ x + n + i - 1 \in Nat
      BY <1>1, <1>3
    <3>2. c[n + i] = o.slots[(x + n + i - 1) % MaxSize]
      BY <2>1, <3>1
    <3> DEFINE k == (x + n + i - 1) % MaxSize
    <3>3. k \in Slots
      BY <3>1, SlotOf
    <3>4. p.slots[k] \in Values
      BY <1>6, <3>1, <3>3
    <3>5. p.slots[k] = o.slots[k]
      BY <1>5, <3>3, <3>4, ElementAssumption
    <3> QED
      BY <2>2, <2>3, <3>2, <3>5
  <2>5. d = t
    <3>1. Len(d) = Len(t) /\ \A i \in 1 .. Len(d) : d[i] = t[i]
      BY <2>2, <2>3, <2>4
    <3> QED
      BY <2>2, <2>3, <3>1, SeqEqual, Zenon
  <2> QED
    BY <2>5 DEF c, d, t
<1> QED
  BY <1>7, <1>8 DEF p

-----------------------------------------------------------------------------
(* Insertion: push_back, copy_range_back and all that is built of them.    *)

LEMMA Insertion ==
  ASSUME NEW o, NEW x, NEW y, Counted(o, x, y), NEW seq \in Seq(Values), y - x + Len(seq) <= N
  PROVE  /\ Counted(PlaceBack(o, seq), x, y + Len(seq))
         /\ Contents(PlaceBack(o, seq)) = Contents(o) \o seq
<1> DEFINE p == PlaceBack(o, seq)
           n == Len(seq)
           Offset(k) == ((k - (y % MaxSize)) % MaxSize) + 1
<1>1. /\ x \in Nat /\ y \in Nat /\ y - x \in 0 .. N /\ N \in Nat
      /\ MaxSize \in Nat \ {0} /\ N <= MaxSize
      /\ Slot(o.to) = y % MaxSize /\ o \in Buffer
  BY CountsOf, Zenon
<1>2. o.from = x % IndexSpan /\ o.to = y % IndexSpan
  BY DEF Counted
<1>3. /\ n \in Nat /\ DOMAIN seq = 1 .. n /\ \A i \in 1 .. n : seq[i] \in Values
  BY LenProperties, ElementOfSeq
<1>4. /\ n \in 0 .. N /\ y + n \in Nat /\ x <= y + n /\ (y + n) - x <= N
  BY <1>1, <1>3
<1>5. Advance(o.to, n) = (y + n) % IndexSpan /\ (y + n) % IndexSpan \in Indices
  BY <1>1, <1>2, <1>4, AdvanceCounts, SlotOfCount
<1>6. /\ p.slots = [k \in Slots |-> IF Offset(k) \in 1 .. n THEN seq[Offset(k)] ELSE o.slots[k]]
      /\ p.from = x % IndexSpan /\ p.to = (y + n) % IndexSpan
      /\ p \in Buffer
  <2>1. p = [o EXCEPT !.slots = [k \in Slots |-> IF Offset(k) \in 1 .. n THEN seq[Offset(k)] ELSE o.slots[k]],
                      !.to = (y + n) % IndexSpan]
    BY <1>1, <1>3, <1>5 DEF PlaceBack, Buffer
  <2> HIDE DEF p
  <2>2. [k \in Slots |-> IF Offset(k) \in 1 .. n THEN seq[Offset(k)] ELSE o.slots[k]]
          \in [Slots -> Values \union {Raw, Moved}]
    BY <1>1, <1>3 DEF Buffer
  <2> QED
    BY <1>1, <1>2, <1>5, <2>1, <2>2 DEF Buffer
<1> HIDE DEF p, n
<1>7. ASSUME NEW d \in 0 .. MaxSize - 1
      PROVE  Offset((y + d) % MaxSize) = d + 1
  BY <1>1, Distance
<1> HIDE DEF Offset
<1>8. ASSUME NEW d \in 0 .. n - 1
      PROVE  p.slots[(y + d) % MaxSize] = seq[d + 1]
  <2>1. d \in 0 .. MaxSize - 1 /\ d + 1 \in 1 .. n /\ y + d \in Nat
    BY <1>1, <1>4
  <2> QED
    BY <1>6, <1>7, <2>1, SlotOf
<1>9. ASSUME NEW i \in x .. y - 1
      PROVE  p.slots[i % MaxSize] = o.slots[i % MaxSize]
  <2>0. i \in Nat
    BY <1>1
  <2>1. i \in Nat /\ i % MaxSize \in Slots
    BY <2>0, SlotOf
  <2>2. PICK d \in 0 .. MaxSize - 1 : i % MaxSize = (y + d) % MaxSize
    BY <1>1, <2>1, SomeDistance
  <2>3. ~(d < n)
    <3> SUFFICES ASSUME d < n PROVE FALSE
      OBVIOUS
    <3>1. i \in x .. y + n - 1 /\ y + d \in x .. y + n - 1 /\ y + n - 1 \in Nat
          /\ (y + n - 1) - x < MaxSize
      BY <1>1, <1>4
    <3>2. i = y + d
      BY <1>1, <2>2, <3>1, SlotsApart, Zenon
    <3> QED
      BY <1>1, <3>2
  <2>4. Offset(i % MaxSize) = d + 1
    BY <1>7, <2>2
  <2> QED
    BY <1>4, <1>6, <2>1, <2>3, <2>4
<1>10. ASSUME NEW k \in Slots
       PROVE  p.slots[k] \in Values <=> \E i \in x .. (y + n) - 1 : k = i % MaxSize
  <2>1. ASSUME NEW i \in x .. (y + n) - 1, k = i % MaxSize
        PROVE  p.slots[k] \in Values
    <3>1. CASE i < y
      <4>1. i \in x .. y - 1
        BY <1>1, <1>4, <3>1
      <4>2. o.slots[k] \in Values
        BY <2>1, <4>1 DEF Counted
      <4> QED
        BY <1>9, <2>1, <4>1, <4>2
    <3>2. CASE ~(i < y)
      <4>1. i - y \in 0 .. n - 1 /\ y + (i - y) = i /\ (i - y) + 1 \in 1 .. n
        BY <1>1, <1>4, <3>2
      <4>2. p.slots[k] = seq[(i - y) + 1]
        BY <1>8, <2>1, <4>1
      <4> QED
        BY <1>3, <4>1, <4>2
    <3> QED
      BY <3>1, <3>2
  <2>2. ASSUME p.slots[k] \in Values
        PROVE  \E i \in x .. (y + n) - 1 : k = i % MaxSize
    <3>1. PICK d \in 0 .. MaxSize - 1 : k = (y + d) % MaxSize
      BY <1>1, SomeDistance
    <3>2. CASE d < n
      <4>1. y + d \in x .. (y + n) - 1
        BY <1>1, <1>4, <3>2
      <4> QED
        BY <3>1, <4>1
    <3>3. CASE ~(d < n)
      <4>1. Offset(k) \notin 1 .. n
        BY <1>4, <1>7, <3>1, <3>3
      <4>2. o.slots[k] \in Values
        BY <1>6, <2>2, <4>1
      <4>3. PICK i \in x .. y - 1 : k = i % MaxSize
        BY <4>2 DEF Counted
      <4>4. i \in x .. (y + n) - 1
        BY <1>1, <1>4
      <4> QED
        BY <4>3, <4>4
    <3> QED
      BY <3>2, <3>3
  <2> QED
    BY <2>1, <2>2
<1>11. Counted(p, x, y + n)
  BY <1>1, <1>4, <1>6, <1>10 DEF Counted
<1>12. Contents(p) = Contents(o) \o seq
  <2> DEFINE c == Contents(o)
             d == Contents(p)
             t == c \o seq
  <2>1. c \in Seq(Values) /\ Len(c) = y - x /\ \A i \in 1 .. y - x : c[i] = o.slots[(x + i - 1) % MaxSize]
    BY ContentsOf
  <2>2. /\ d \in Seq(Values) /\ Len(d) = (y + n) - x
        /\ \A i \in 1 .. (y + n) - x : d[i] = p.slots[(x + i - 1) % MaxSize]
    BY <1>11, ContentsOf
  <2> HIDE DEF c, d
  <2>3. /\ t \in Seq(Values) /\ Len(t) = Len(c) + Len(seq)
        /\ \A i \in 1 .. Len(c) + Len(seq) : t[i] = IF i <= Len(c) THEN c[i] ELSE seq[i - Len(c)]
    BY <2>1, ConcatProperties
  <2> HIDE DEF t
  <2>4. Len(t) = Len(d)
    BY <1>1, <1>4, <2>1, <2>2, <2>3 DEF n
  <2>5. ASSUME NEW i \in 1 .. Len(d)
        PROVE  d[i] = t[i]
    <3>1. i \in 1 .. (y + n) - x /\ i \in 1 .. Len(c) + Len(seq)
      BY <2>2, <2>3, <2>4
    <3>2. d[i] = p.slots[(x + i - 1) % MaxSize]
      BY <2>2, <3>1
    <3>3. CASE i <= y - x
      <4>1. x + i - 1 \in x .. y - 1 /\ i \in 1 .. y - x
        BY <1>1, <3>1, <3>3
      <4>2. d[i] = c[i]
        BY <1>9, <2>1, <3>2, <4>1
      <4> QED
        BY <2>1, <2>3, <3>1, <3>3, <4>2
    <3>4. CASE ~(i <= y - x)
      <4> DEFINE e == i - (y - x) - 1
      <4>1. e \in 0 .. n - 1 /\ y + e = x + i - 1 /\ e + 1 = i - Len(c)
        BY <1>1, <1>4, <2>1, <3>1, <3>4
      <4>2. d[i] = seq[e + 1]
        BY <1>8, <3>2, <4>1
      <4> QED
        BY <2>1, <2>3, <3>1, <3>4, <4>1, <4>2
    <3> QED
      BY <3>3, <3>4
  <2>6. d = t
    BY <2>2, <2>3, <2>4, <2>5, SeqEqual, Zenon
  <2> QED
    BY <2>6 DEF c, d, t
<1> QED
  BY <1>11, <1>12 DEF p, n

-----------------------------------------------------------------------------
(* What the operations do to sound buffers.                                *)

LEMMA SoundBuffer ==
  ASSUME NEW o, Sound(o)
  PROVE  /\ o \in Buffer /\ SizeOf(o) \in 0 .. N /\ N \in Nat
         /\ Contents(o) \in Seq(Values) /\ Len(Contents(o)) = SizeOf(o)
<1>1. PICK x, y \in Nat : Counted(o, x, y)
  BY DEF Sound
<1> QED
  BY <1>1, CountsOf, ContentsOf, Zenon

LEMMA SoundRemoval ==
  ASSUME NEW o, Sound(o), NEW n \in 0 .. SizeOf(o), NEW z \in {Raw, Moved}
  PROVE  /\ Sound(Without(o, n, z))
         /\ Contents(Without(o, n, z)) = SubSeq(Contents(o), n + 1, Len(Contents(o)))
<1>1. PICK x, y \in Nat : Counted(o, x, y)
  BY DEF Sound
<1>2. n \in 0 .. y - x /\ x + n \in Nat
  BY <1>1, CountsOf
<1>3. /\ Counted(Without(o, n, z), x + n, y)
      /\ Contents(Without(o, n, z)) = SubSeq(Contents(o), n + 1, Len(Contents(o)))
  BY <1>1, <1>2, Removal
<1> QED
  BY <1>2, <1>3 DEF Sound

LEMMA SoundInsertion ==
  ASSUME NEW o, Sound(o), NEW seq \in Seq(Values), SizeOf(o) + Len(seq) <= N
  PROVE  /\ Sound(PlaceBack(o, seq))
         /\ Contents(PlaceBack(o, seq)) = Contents(o) \o seq
<1>1. PICK x, y \in Nat : Counted(o, x, y)
  BY DEF Sound
<1>2. y - x + Len(seq) <= N /\ y + Len(seq) \in Nat
  BY <1>1, CountsOf, LenProperties
<1>3. /\ Counted(PlaceBack(o, seq), x, y + Len(seq))
      /\ Contents(PlaceBack(o, seq)) = Contents(o) \o seq
  BY <1>1, <1>2, Insertion
<1> QED
  BY <1>2, <1>3 DEF Sound

(* A buffer that was just constructed.                                     *)
LEMMA FreshIsSound == Sound(Fresh) /\ SizeOf(Fresh) = 0 /\ Contents(Fresh) = <<>>
<1>1. 0 % IndexSpan = 0 /\ 0 \in Indices /\ 0 \in Nat /\ 0 <= N
  BY Spans DEF Indices
<1>2. Fresh \in Buffer /\ Fresh.from = 0 /\ Fresh.to = 0
  BY <1>1 DEF Fresh, Buffer
<1>3. \A k \in Slots : Fresh.slots[k] \notin Values
  BY ElementAssumption DEF Fresh
<1>4. Counted(Fresh, 0, 0)
  BY <1>1, <1>2, <1>3 DEF Counted
<1>5. SizeOf(Fresh) = 0 /\ Contents(Fresh) \in Seq(Values) /\ Len(Contents(Fresh)) = 0
  BY <1>1, <1>4, CountsOf, ContentsOf
<1> QED
  BY <1>1, <1>4, <1>5, EmptySeq DEF Sound

(* clear().                                                                *)
LEMMA ClearIsSound ==
  ASSUME NEW o, Sound(o)
  PROVE  Sound(Clear(o)) /\ SizeOf(Clear(o)) = 0 /\ Contents(Clear(o)) = <<>>
<1> DEFINE n == SizeOf(o)
<1>1. n \in 0 .. N /\ N \in Nat /\ Contents(o) \in Seq(Values) /\ Len(Contents(o)) = n
  BY SoundBuffer
<1>2. n \in 0 .. n
  BY <1>1
<1>3. Clear(o) = Without(o, n, Raw)
  BY DEF Clear, DropFront, Without
<1>4. Sound(Clear(o)) /\ Contents(Clear(o)) = SubSeq(Contents(o), n + 1, n)
  BY <1>1, <1>2, <1>3, SoundRemoval
<1>5. SubSeq(Contents(o), n + 1, n) = <<>>
  BY <1>1, SubSeqEmpty
<1>6. Len(Contents(Clear(o))) = SizeOf(Clear(o))
  BY <1>4, SoundBuffer
<1> QED
  BY <1>4, <1>5, <1>6, EmptySeq

(* The elements of one buffer copied into another that is empty.           *)
LEMMA RefillIsSound ==
  ASSUME NEW o, Sound(o), SizeOf(o) = 0, Contents(o) = <<>>, NEW c, Sound(c), ~Trivial
  PROVE  /\ Sound(PlaceBack(o, ReadFrom(c, o)))
         /\ Contents(PlaceBack(o, ReadFrom(c, o))) = Contents(c)
<1>1. ReadFrom(c, o) = Contents(c)
  BY DEF ReadFrom
<1>2. Contents(c) \in Seq(Values) /\ Len(Contents(c)) \in 0 .. N /\ N \in Nat
  BY SoundBuffer
<1>3. SizeOf(o) + Len(Contents(c)) <= N
  BY <1>2
<1>4. Sound(PlaceBack(o, Contents(c))) /\ Contents(PlaceBack(o, Contents(c))) = <<>> \o Contents(c)
  BY <1>2, <1>3, SoundInsertion
<1>5. <<>> \o Contents(c) = Contents(c)
  BY <1>2, ConcatEmptySeq
<1> QED
  BY <1>1, <1>4, <1>5

-----------------------------------------------------------------------------
(* Steps.                                                                  *)

(* The queues the buffers are.                                             *)
Queues == [b \in Objects |-> Contents(buf[b])]

Shown == Seq(Values \union {Raw, Moved})

(* One buffer becomes another sound one.                                   *)
LEMMA OneChanges ==
  ASSUME BuffersSound, NEW b \in Objects, NEW p, Sound(p),
         buf' = [buf EXCEPT ![b] = p], out' \in Shown
  PROVE  BuffersSound' /\ Queues' = [Queues EXCEPT ![b] = Contents(p)]
<1>1. p \in Buffer
  BY SoundBuffer
<1>2. buf' \in [Objects -> Buffer] /\ \A c \in Objects : buf'[c] = IF c = b THEN p ELSE buf[c]
  BY <1>1 DEF BuffersSound
<1>3. \A c \in Objects : Sound(buf'[c])
  BY <1>2 DEF BuffersSound
<1>4. Queues' = [Queues EXCEPT ![b] = Contents(p)]
  BY <1>2 DEF Queues
<1> QED
  BY <1>2, <1>3, <1>4 DEF BuffersSound, Shown, Sound, Counted

LEMMA Quiet == ASSUME out' = <<>> PROVE out' \in Shown
  BY EmptySeq DEF Shown

(* Insertion is an insertion into the queue.                               *)
LEMMA InsertStep ==
  ASSUME BuffersSound, NEW b \in Objects, NEW n \in Nat \ {0}, NEW seq \in [1 .. n -> Values],
         CopyRangeBack(b, seq)
  PROVE  BuffersSound' /\ Fifo!Insert(b)
<1>1. Sound(buf[b]) /\ Queues[b] = Contents(buf[b])
  BY DEF BuffersSound, Queues
<1>2. seq \in Seq(Values) /\ Len(seq) = n
  OBVIOUS
<1>3. /\ SizeOf(buf[b]) + Len(seq) <= N /\ out' = <<>>
      /\ buf' = [buf EXCEPT ![b] = PlaceBack(buf[b], seq)]
  BY DEF CopyRangeBack, MayInsert
<1>4. Sound(PlaceBack(buf[b], seq)) /\ Contents(PlaceBack(buf[b], seq)) = Contents(buf[b]) \o seq
  BY <1>1, <1>2, <1>3, SoundInsertion
<1>5. BuffersSound' /\ Queues' = [Queues EXCEPT ![b] = Contents(buf[b]) \o seq]
  BY <1>3, <1>4, Quiet, OneChanges
<1>6. n \in 1 .. N - Len(Queues[b])
  BY <1>1, <1>2, <1>3, SoundBuffer
<1>7. Queues' = [Queues EXCEPT ![b] = @ \o seq]
  BY <1>1, <1>5
<1> QED
  BY <1>3, <1>5, <1>6, <1>7 DEF Fifo!Insert, Queues

(* Removal is a removal from the queue.                                    *)
LEMMA DropStep ==
  ASSUME BuffersSound, NEW b \in Objects, NEW n \in 0 .. SizeOf(buf[b]), PopFront(b, n)
  PROVE  BuffersSound' /\ Fifo!Drop(b)
<1>1. Sound(buf[b]) /\ Queues[b] = Contents(buf[b]) /\ Len(Queues[b]) = SizeOf(buf[b])
  BY SoundBuffer DEF BuffersSound, Queues
<1>2. buf' = [buf EXCEPT ![b] = Without(buf[b], n, Raw)] /\ out' = <<>>
  BY DEF PopFront, DropFront, Without
<1>3. /\ Sound(Without(buf[b], n, Raw))
      /\ Contents(Without(buf[b], n, Raw)) = SubSeq(Queues[b], n + 1, Len(Queues[b]))
  BY <1>1, SoundRemoval
<1>4. BuffersSound' /\ Queues' = [Queues EXCEPT ![b] = SubSeq(@, n + 1, Len(@))]
  BY <1>2, <1>3, Quiet, OneChanges
<1> QED
  BY <1>1, <1>2, <1>4 DEF Fifo!Drop, Fifo!Suffix, Queues

(* What take_front and loops read: slot after slot from the first on.      *)
FirstRead(o, n) == [i \in 1 .. n |-> o.slots[(Slot(o.from) + i - 1) % MaxSize]]

(* They are the first elements.                                            *)
LEMMA FrontRead ==
  ASSUME NEW o, NEW x, NEW y, Counted(o, x, y), NEW n \in 0 .. y - x
  PROVE  /\ FirstRead(o, n) = SubSeq(Contents(o), 1, n)
         /\ SubSeq(Contents(o), 1, n) \in Seq(Values)
<1> DEFINE c == Contents(o)
<1>1. /\ x \in Nat /\ y \in Nat /\ Slot(o.from) = x % MaxSize /\ y - x \in 0 .. N
      /\ MaxSize \in Nat \ {0} /\ N <= MaxSize /\ N \in Nat
  BY CountsOf, Zenon
<1>2. /\ c \in Seq(Values) /\ Len(c) = y - x
      /\ \A i \in 1 .. y - x : c[i] = o.slots[(x + i - 1) % MaxSize]
  BY ContentsOf
<1> HIDE DEF c
<1>3. ASSUME NEW i \in 1 .. n
      PROVE  o.slots[(Slot(o.from) + i - 1) % MaxSize] = c[i]
  <2>1. i \in 1 .. y - x /\ i - 1 \in 0 .. MaxSize /\ x % MaxSize \in Nat
    BY <1>1
  <2>2. ((x % MaxSize) + (i - 1)) % MaxSize = (x + (i - 1)) % MaxSize
    BY <1>1, <2>1, ModAdd
  <2>3. (x % MaxSize) + (i - 1) = (x % MaxSize) + i - 1 /\ x + (i - 1) = x + i - 1
    BY <2>1
  <2> QED
    BY <1>1, <1>2, <2>1, <2>2, <2>3
<1>4. FirstRead(o, n) = [i \in 1 .. n |-> c[i]]
  BY <1>3 DEF FirstRead
<1>5. [i \in 1 .. n |-> c[i]] = SubSeq(c, 1, n) /\ SubSeq(c, 1, n) \in Seq(Values)
  BY <1>1, <1>2
<1> QED
  BY <1>4, <1>5 DEF c

(* Taking hands out what it removes.                                       *)
LEMMA TakeStep ==
  ASSUME BuffersSound, NEW b \in Objects, NEW n \in 1 .. SizeOf(buf[b]), NEW z \in {Raw, Moved},
         buf' = [buf EXCEPT ![b] = Without(buf[b], n, z)],
         out' = FirstRead(buf[b], n)
  PROVE  BuffersSound' /\ Fifo!Take(b)
<1>1. /\ Sound(buf[b]) /\ Queues[b] = Contents(buf[b]) /\ Len(Queues[b]) = SizeOf(buf[b])
      /\ SizeOf(buf[b]) \in Nat
  BY SoundBuffer DEF BuffersSound, Queues
<1>2. n \in 0 .. SizeOf(buf[b])
  BY <1>1
<1>3. /\ Sound(Without(buf[b], n, z))
      /\ Contents(Without(buf[b], n, z)) = SubSeq(Queues[b], n + 1, Len(Queues[b]))
  BY <1>1, <1>2, SoundRemoval
<1>4. out' = SubSeq(Queues[b], 1, n) /\ out' \in Seq(Values)
  <2>1. PICK x, y \in Nat : Counted(buf[b], x, y)
    BY <1>1 DEF Sound
  <2>2. n \in 0 .. y - x
    BY <1>2, <2>1, CountsOf
  <2> QED
    BY <1>1, <2>1, <2>2, FrontRead
<1>5. out' \in Shown
  BY <1>4, SeqMonotonic DEF Shown
<1>6. BuffersSound' /\ Queues' = [Queues EXCEPT ![b] = SubSeq(@, n + 1, Len(@))]
  BY <1>3, <1>5, OneChanges
<1> QED
  BY <1>1, <1>4, <1>6 DEF Fifo!Take, Fifo!Suffix, Fifo!Prefix, Queues

(* A buffer is emptied: an end of its life or clear().                     *)
LEMMA EmptyStep ==
  ASSUME BuffersSound, NEW b \in Objects, NEW p, Sound(p), Contents(p) = <<>>,
         buf' = [buf EXCEPT ![b] = p], out' = <<>>
  PROVE  BuffersSound' /\ Fifo!Drop(b)
<1>1. Queues[b] \in Seq(Values) /\ Len(Queues[b]) \in Nat
  BY SoundBuffer DEF BuffersSound, Queues
<1>2. BuffersSound' /\ Queues' = [Queues EXCEPT ![b] = <<>>]
  BY Quiet, OneChanges
<1>3. SubSeq(Queues[b], Len(Queues[b]) + 1, Len(Queues[b])) = <<>>
  BY <1>1, SubSeqEmpty
<1>4. Len(Queues[b]) \in 0 .. Len(Queues[b])
  BY <1>1
<1>5. Queues' = [Queues EXCEPT ![b] = SubSeq(@, Len(Queues[b]) + 1, Len(@))]
  BY <1>2, <1>3
<1> QED
  BY <1>2, <1>4, <1>5 DEF Fifo!Drop, Fifo!Suffix, Queues

(* Copies and moves, into a target that was emptied or constructed.        *)
LEMMA CopyStep ==
  ASSUME BuffersSound, ~Trivial, NEW b \in Objects, NEW c \in Objects,
         NEW o, Sound(o), SizeOf(o) = 0, Contents(o) = <<>>,
         buf' = [buf EXCEPT ![b] = PlaceBack(o, ReadFrom(buf[c], o))], out' = <<>>
  PROVE  BuffersSound' /\ Fifo!Copy(b, c)
<1> DEFINE p == PlaceBack(o, ReadFrom(buf[c], o))
<1>1. Sound(buf[c]) /\ Queues[c] = Contents(buf[c])
  BY DEF BuffersSound, Queues
<1>2. Sound(p) /\ Contents(p) = Queues[c]
  BY <1>1, RefillIsSound
<1> HIDE DEF p
<1>3. BuffersSound' /\ Queues' = [Queues EXCEPT ![b] = Queues[c]]
  BY <1>2, Quiet, OneChanges DEF p
<1> QED
  BY <1>3 DEF Fifo!Copy, Queues

LEMMA MoveStep ==
  ASSUME BuffersSound, ~Trivial, NEW b \in Objects, NEW c \in Objects, b # c,
         NEW o, Sound(o), SizeOf(o) = 0, Contents(o) = <<>>,
         buf' = [buf EXCEPT ![b] = PlaceBack(o, ReadFrom(buf[c], o)), ![c] = Clear(@)], out' = <<>>
  PROVE  BuffersSound' /\ Fifo!Move(b, c)
<1> DEFINE p == PlaceBack(o, ReadFrom(buf[c], o))
           q == Clear(buf[c])
<1>1. Sound(buf[c]) /\ Queues[c] = Contents(buf[c])
  BY DEF BuffersSound, Queues
<1>2. Sound(p) /\ Contents(p) = Queues[c]
  BY <1>1, RefillIsSound
<1>3. Sound(q) /\ Contents(q) = <<>>
  BY <1>1, ClearIsSound
<1>4. buf' = [buf EXCEPT ![b] = p, ![c] = q]
  BY DEF BuffersSound
<1> HIDE DEF p, q
<1>5. BuffersSound' /\ Queues' = [Queues EXCEPT ![b] = Queues[c], ![c] = <<>>]
  <2>1. p \in Buffer /\ q \in Buffer /\ out' \in Shown
    BY <1>2, <1>3, Quiet, SoundBuffer
  <2>2. /\ buf' \in [Objects -> Buffer]
        /\ \A d \in Objects : buf'[d] = IF d = c THEN q ELSE IF d = b THEN p ELSE buf[d]
    BY <1>4, <2>1 DEF BuffersSound
  <2>3. \A d \in Objects : Sound(buf'[d])
    BY <1>2, <1>3, <2>2 DEF BuffersSound
  <2>4. Queues' = [Queues EXCEPT ![b] = Contents(p), ![c] = Contents(q)]
    BY <2>2 DEF Queues
  <2> QED
    BY <1>2, <1>3, <2>1, <2>2, <2>3, <2>4 DEF BuffersSound, Shown, Sound, Counted
<1> QED
  BY <1>5 DEF Fifo!Move, Queues

-----------------------------------------------------------------------------
(* Every step keeps the invariant and is a step of the queues.             *)
LEMMA NextStep ==
  ASSUME BuffersSound, ~Trivial, Next
  PROVE  BuffersSound' /\ Fifo!Next
<1>1. ASSUME NEW b \in Objects, NEW v \in Values, PushBack(b, v)
      PROVE  BuffersSound' /\ Fifo!Insert(b)
  <2>1. <<v>> \in [1 .. 1 -> Values] /\ Len(<<v>>) = 1 /\ 1 \in Nat \ {0}
    OBVIOUS
  <2>2. CopyRangeBack(b, <<v>>)
    BY <1>1, <2>1 DEF PushBack, CopyRangeBack
  <2> QED
    BY <2>1, <2>2, InsertStep, Zenon
<1>2. ASSUME NEW b \in Objects, NEW seq \in Ranges, CopyRangeBack(b, seq)
      PROVE  BuffersSound' /\ Fifo!Insert(b)
  <2>1. PICK n \in 1 .. MaxBatch : seq \in [1 .. n -> Values]
    BY DEF Ranges
  <2>2. n \in Nat \ {0}
    BY ElementAssumption
  <2> QED
    BY <1>2, <2>1, <2>2, InsertStep
<1>3. ASSUME NEW b \in Objects, NEW n \in 1 .. N, PopFront(b, n)
      PROVE  BuffersSound' /\ Fifo!Drop(b)
  <2>1. SizeOf(buf[b]) \in 0 .. N
    BY SoundBuffer DEF BuffersSound
  <2>2. n \in 0 .. SizeOf(buf[b])
    BY <1>3, <2>1, Spans DEF PopFront
  <2> QED
    BY <1>3, <2>2, DropStep
<1>4. ASSUME NEW b \in Objects, NEW n \in 1 .. N, TakeFrontInto(b, n)
      PROVE  BuffersSound' /\ Fifo!Take(b)
  <2>1. SizeOf(buf[b]) \in 0 .. N /\ buf[b] \in Buffer /\ buf \in [Objects -> Buffer]
    BY SoundBuffer DEF BuffersSound
  <2>2. n \in 1 .. SizeOf(buf[b])
    BY <1>4, <2>1, Spans DEF TakeFrontInto
  <2>3. /\ buf' = [buf EXCEPT ![b] = Without(buf[b], n, Moved)]
        /\ out' = FirstRead(buf[b], n)
    BY <1>4, <2>1 DEF TakeFrontInto, Without, Buffer, FirstRead
  <2> QED
    BY <2>2, <2>3, TakeStep
<1>5. ASSUME NEW b \in Objects, TakeFront(b)
      PROVE  BuffersSound' /\ Fifo!Take(b)
  <2>1. PICK x, y \in Nat : Counted(buf[b], x, y)
    BY DEF BuffersSound, Sound
  <2>2. /\ SizeOf(buf[b]) = y - x /\ Slot(buf[b].from) = x % MaxSize /\ y - x \in 0 .. N
    BY <2>1, CountsOf, Zenon
  <2>3. x # y
    <3>1. buf[b].from = x % IndexSpan /\ buf[b].to = y % IndexSpan
      BY <2>1 DEF Counted
    <3> QED
      BY <1>5, <3>1 DEF TakeFront, IsEmpty
  <2>4. 1 \in 1 .. SizeOf(buf[b])
    BY <2>2, <2>3, Spans
  <2>5. (Slot(buf[b].from) + 1 - 1) % MaxSize = Slot(buf[b].from)
    BY <2>2, Spans
  <2>6. /\ buf' = [buf EXCEPT ![b] = Without(buf[b], 1, Raw)]
        /\ out' = FirstRead(buf[b], 1)
    BY <1>5, <2>5 DEF TakeFront, DropFront, Without, FirstRead
  <2> QED
    BY <2>4, <2>6, TakeStep
<1>6. ASSUME NEW b \in Objects, ClearAll(b) \/ Reconstruct(b)
      PROVE  BuffersSound' /\ Fifo!Drop(b)
  <2>1. Sound(buf[b])
    BY DEF BuffersSound
  <2>2. Sound(Clear(buf[b])) /\ Contents(Clear(buf[b])) = <<>>
    BY <2>1, ClearIsSound
  <2>3. CASE ClearAll(b)
    BY <2>2, <2>3, EmptyStep DEF ClearAll
  <2>4. CASE Reconstruct(b)
    BY <2>4, FreshIsSound, EmptyStep DEF Reconstruct
  <2> QED
    BY <1>6, <2>3, <2>4
<1>7. ASSUME NEW b \in Objects, NEW c \in Objects, CopyAssign(b, c) \/ CopyConstruct(b, c)
      PROVE  BuffersSound' /\ Fifo!Copy(b, c)
  <2>1. Sound(buf[b])
    BY DEF BuffersSound
  <2> DEFINE o == Clear(buf[b])
  <2>2. Sound(o) /\ SizeOf(o) = 0 /\ Contents(o) = <<>>
    BY <2>1, ClearIsSound
  <2>3. CASE CopyAssign(b, c)
    <3>1. buf' = [buf EXCEPT ![b] = PlaceBack(o, ReadFrom(buf[c], o))] /\ out' = <<>>
      BY <2>3 DEF CopyAssign
    <3> HIDE DEF o
    <3> QED
      BY <2>2, <3>1, CopyStep
  <2>4. CASE CopyConstruct(b, c)
    BY <2>4, FreshIsSound, CopyStep DEF CopyConstruct
  <2> QED
    BY <1>7, <2>3, <2>4
<1>8. ASSUME NEW b \in Objects, NEW c \in Objects, MoveAssign(b, c) \/ MoveConstruct(b, c)
      PROVE  BuffersSound' /\ Fifo!Move(b, c)
  <2>1. Sound(buf[b])
    BY DEF BuffersSound
  <2> DEFINE o == Clear(buf[b])
  <2>2. Sound(o) /\ SizeOf(o) = 0 /\ Contents(o) = <<>>
    BY <2>1, ClearIsSound
  <2>3. CASE MoveAssign(b, c)
    <3>1. b # c /\ out' = <<>>
          /\ buf' = [buf EXCEPT ![b] = PlaceBack(o, ReadFrom(buf[c], o)), ![c] = Clear(@)]
      BY <2>3 DEF MoveAssign
    <3> HIDE DEF o
    <3> QED
      BY <2>2, <3>1, MoveStep
  <2>4. CASE MoveConstruct(b, c)
    BY <2>4, FreshIsSound, MoveStep DEF MoveConstruct
  <2> QED
    BY <1>8, <2>3, <2>4
<1> QED
  BY <1>1, <1>2, <1>3, <1>4, <1>5, <1>6, <1>7, <1>8 DEF Next, Fifo!Next

LEMMA InitSound == Init => BuffersSound /\ Fifo!Init
<1> SUFFICES ASSUME Init
             PROVE  BuffersSound /\ Fifo!Init
  OBVIOUS
<1>1. Fresh \in Buffer /\ out \in Seq(Values \union {Raw, Moved})
  BY FreshIsSound, SoundBuffer, EmptySeq DEF Init
<1> QED
  BY <1>1, FreshIsSound DEF Init, BuffersSound, Fifo!Init

LEMMA StepKeepsSound ==
  ASSUME BuffersSound, ~Trivial, [Next]_vars
  PROVE  BuffersSound' /\ [Fifo!Next]_<<Queues, out>>
<1>1. CASE UNCHANGED vars
  BY <1>1 DEF vars, BuffersSound, Sound, Counted, Queues
<1>2. CASE Next
  BY <1>2, NextStep
<1> QED
  BY <1>1, <1>2

(* The slots of a sound buffer that hold values are its window.            *)
LEMMA SoundWindow ==
  ASSUME NEW o, Sound(o)
  PROVE  {k \in Slots : o.slots[k] \in Values} = Window(o)
<1>1. PICK x, y \in Nat : Counted(o, x, y)
  BY DEF Sound
<1>2. /\ SizeOf(o) = y - x /\ Slot(o.from) = x % MaxSize /\ y - x \in 0 .. N
      /\ N \in Nat /\ N <= MaxSize /\ MaxSize \in Nat \ {0}
  BY <1>1, CountsOf, Zenon
<1>3. y - x \in 0 .. MaxSize /\ x + (y - x) - 1 = y - 1
  BY <1>2
<1>4. ASSUME NEW k \in Slots
      PROVE  o.slots[k] \in Values <=> k \in Window(o)
  <2>1. k \in Run(x % MaxSize, y - x) <=> \E i \in x .. x + (y - x) - 1 : k = i % MaxSize
    BY <1>3, RunOfCounts
  <2>2. o.slots[k] \in Values <=> \E i \in x .. y - 1 : k = i % MaxSize
    BY <1>1 DEF Counted
  <2> QED
    BY <1>2, <1>3, <2>1, <2>2 DEF Window
<1>5. Window(o) \subseteq Slots
  BY <1>2, DivMod DEF Window, Run, Slots
<1> QED
  BY <1>4, <1>5

(* Observers of a sound buffer tell its elements, if one slot of the       *)
(* storage is left free.                                                   *)
LEMMA SoundObservers ==
  ASSUME NEW o, NEW x, NEW y, Counted(o, x, y), ~Overflow
  PROVE  /\ IsEmpty(o.from, o.to) <=> Contents(o) = <<>>
         /\ IsFull(o.from, o.to) <=> Len(Contents(o)) = N
         /\ Contents(o) # <<>> =>
              /\ Front(o) = Contents(o)[1]
              /\ Back(o) = Contents(o)[Len(Contents(o))]
         /\ Traversal(o) = Contents(o)
<1> DEFINE c == Contents(o)
<1>1. /\ x \in Nat /\ y \in Nat /\ y - x \in 0 .. N /\ N \in Nat /\ MaxSize \in Nat \ {0}
      /\ N <= MaxSize /\ SizeOf(o) = y - x
      /\ Slot(o.from) = x % MaxSize /\ Slot(o.to) = y % MaxSize
  BY CountsOf, Zenon
<1>2. o.from = x % MaxSize /\ o.to = y % MaxSize /\ N < MaxSize
  BY Spans DEF Counted, IndexSpan
<1>3. /\ c \in Seq(Values) /\ Len(c) = y - x
      /\ \A i \in 1 .. y - x : c[i] = o.slots[(x + i - 1) % MaxSize]
  BY ContentsOf
<1>4. c = <<>> <=> x = y
  BY <1>1, <1>3, EmptySeq
<1>5. FirstRead(o, y - x) = SubSeq(c, 1, y - x)
  BY <1>1, FrontRead
<1> HIDE DEF c
<1>6. IsEmpty(o.from, o.to) <=> c = <<>>
  <2>1. x % MaxSize = y % MaxSize => x = y
    <3>1. x <= y /\ y - x < MaxSize
      BY <1>1, <1>2
    <3> QED
      BY <1>1, <3>1, ModInjective
  <2> QED
    BY <1>2, <1>4, <2>1 DEF IsEmpty
<1>7. IsFull(o.from, o.to) <=> Len(c) = N
  BY <1>1, <1>3 DEF IsFull, SizeOf
<1>8. ASSUME c # <<>>
      PROVE  Front(o) = c[1] /\ Back(o) = c[Len(c)]
  <2>1. 1 \in 1 .. y - x /\ y - x \in 1 .. y - x /\ x + 1 - 1 = x /\ x + (y - x) - 1 = y - 1
        /\ y - 1 \in Nat
    BY <1>1, <1>4, <1>8
  <2>2. Front(o) = c[1]
    BY <1>1, <1>3, <2>1 DEF Front
  <2>3. LastSlot(o.to) = (y - 1) % MaxSize
    <3>1. MaxSize - 1 \in 0 .. MaxSize /\ MaxSize \in 0 .. MaxSize /\ y % MaxSize \in Nat
      BY <1>1
    <3>2. ((y % MaxSize) + (MaxSize - 1)) % MaxSize = (y + (MaxSize - 1)) % MaxSize
      BY <1>1, <3>1, ModAdd
    <3>3. ((y - 1) + MaxSize) % MaxSize = (y - 1) % MaxSize
      <4>1. (y - 1) % MaxSize \in 0 .. MaxSize - 1
        BY <1>1, <2>1, DivMod
      <4>2. ((y - 1) + MaxSize) % MaxSize
              = IF ((y - 1) % MaxSize) + MaxSize < MaxSize
                THEN ((y - 1) % MaxSize) + MaxSize ELSE ((y - 1) % MaxSize) + MaxSize - MaxSize
        BY <1>1, <2>1, <3>1, ModStep
      <4> QED
        BY <1>1, <4>1, <4>2
    <3>4. /\ (y % MaxSize) + MaxSize - 1 = (y % MaxSize) + (MaxSize - 1)
          /\ y + (MaxSize - 1) = (y - 1) + MaxSize
      BY <1>1, <3>1
    <3> QED
      BY <1>2, <3>2, <3>3, <3>4 DEF LastSlot
  <2>4. Back(o) = c[Len(c)]
    BY <1>3, <2>1, <2>3 DEF Back
  <2> QED
    BY <2>2, <2>4
<1>9. Traversal(o) = c
  <2>1. ((y % MaxSize) - (x % MaxSize)) % MaxSize = y - x
    <3>1. y - x \in 0 .. MaxSize - 1 /\ x + (y - x) = y
      BY <1>1, <1>2
    <3>2. (((x + (y - x)) % MaxSize) - (x % MaxSize)) % MaxSize = y - x
      BY <1>1, <3>1, Distance
    <3> QED
      BY <3>1, <3>2
  <2>2. Traversal(o) = FirstRead(o, y - x)
    BY <1>1, <2>1 DEF Traversal, FirstRead
  <2>3. SubSeq(c, 1, y - x) = c
    BY <1>3, SubSeqFull
  <2> QED
    BY <1>5, <2>2, <2>3
<1> QED
  BY <1>6, <1>7, <1>8, <1>9 DEF c

(* The indices of static_circular_buffer stay in the range of its strategy *)
(* and its storage has only values, moved-from objects and empty slots.    *)
THEOREM BufferTyping == ~Trivial => (Spec => []TypeOK)
<1> SUFFICES ASSUME ~Trivial
             PROVE  Spec => []TypeOK
  OBVIOUS
<1>1. Init => BuffersSound
  BY InitSound
<1>2. BuffersSound /\ [Next]_vars => BuffersSound'
  BY StepKeepsSound
<1>3. BuffersSound => TypeOK
  BY DEF BuffersSound, Buffer, TypeOK
<1> QED
  BY <1>1, <1>2, <1>3, PTL DEF Spec

(* No operation of static_circular_buffer leaves a value behind outside of *)
(* the elements it holds, or an element without a value, whatever was      *)
(* copied, moved, taken or cleared.                                        *)
THEOREM Lifetime == ~Trivial => (Spec => []ValuesFillWindow)
<1> SUFFICES ASSUME ~Trivial
             PROVE  Spec => []ValuesFillWindow
  OBVIOUS
<1>1. Init => BuffersSound
  BY InitSound
<1>2. BuffersSound /\ [Next]_vars => BuffersSound'
  BY StepKeepsSound
<1>3. BuffersSound => ValuesFillWindow
  <2> SUFFICES ASSUME BuffersSound, NEW b \in Objects
               PROVE  SizeOf(buf[b]) <= N /\ {k \in Slots : buf[b].slots[k] \in Values} = Window(buf[b])
    BY DEF ValuesFillWindow
  <2>1. Sound(buf[b])
    BY DEF BuffersSound
  <2>2. SizeOf(buf[b]) \in 0 .. N /\ N \in Nat
    BY <2>1, SoundBuffer
  <2> QED
    BY <2>1, <2>2, SoundWindow
<1> QED
  BY <1>1, <1>2, <1>3, PTL DEF Spec

(* Circular buffers, with their wrapping indices, are bounded queues.      *)
THEOREM Implementation == ~Trivial => (Spec => FifoSpec)
<1> SUFFICES ASSUME ~Trivial
             PROVE  Spec => FifoSpec
  OBVIOUS
<1>1. Init => BuffersSound /\ Fifo!Init
  BY InitSound
<1>2. BuffersSound /\ [Next]_vars => BuffersSound'
  BY StepKeepsSound
<1>3. BuffersSound /\ [Next]_vars => [Fifo!Next]_(Fifo!vars)
  BY StepKeepsSound DEF Fifo!vars, Queues
<1> QED
  BY <1>1, <1>2, <1>3, PTL DEF Spec, FifoSpec, Fifo!Spec

(* Observers and loops of static_circular_buffer agree with the elements   *)
(* held, with the strategy that leaves one slot free.  With the other one  *)
(* a loop over a full buffer visits nothing.                               *)
THEOREM Observing == ~Trivial /\ ~Overflow => (Spec => []ObserversAgree)
<1> SUFFICES ASSUME ~Trivial, ~Overflow
             PROVE  Spec => []ObserversAgree
  OBVIOUS
<1>1. Init => BuffersSound
  BY InitSound
<1>2. BuffersSound /\ [Next]_vars => BuffersSound'
  BY StepKeepsSound
<1>3. BuffersSound => ObserversAgree
  BY SoundObservers DEF BuffersSound, Sound, ObserversAgree
<1> QED
  BY <1>1, <1>2, <1>3, PTL DEF Spec

=============================================================================
