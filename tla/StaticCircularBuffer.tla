------------------------ MODULE StaticCircularBuffer ------------------------
(***************************************************************************)
(* static_circular_buffer as one thread of control sees it: every public   *)
(* operation is one step.  A slot of the storage holds a value, a          *)
(* moved-from object, or no object at all; indices, storage and the two    *)
(* index strategies are those of the code.  SpscBuffer takes the same      *)
(* operations apart for the case of an interrupt between their steps.      *)
(***************************************************************************)
EXTENDS CircularIndex, Sequences

CONSTANTS
  Objects,       (* The buffers of the program.                            *)
  Values,        (* The values stored in them.                             *)
  Raw,           (* Marks a slot without an object (or stale bytes).       *)
  Moved,         (* Marks a slot with a moved-from object.                 *)
  Trivial,       (* TRUE if T is trivially copyable and destructible.      *)
  MaxBatch       (* Bound on the length of an inserted range.              *)

ASSUME ElementAssumption ==
  /\ Raw \notin Values /\ Moved \notin Values /\ Raw # Moved
  /\ Trivial \in BOOLEAN /\ MaxBatch \in Nat

VARIABLES
  buf,   (* The indices and the storage of each object.                    *)
  out    (* The values the latest operation handed to its caller.          *)

vars == <<buf, out>>

Fresh == [from |-> 0, to |-> 0, slots |-> [k \in Slots |-> Raw]]

Init ==
  /\ buf = [b \in Objects |-> Fresh]
  /\ out = <<>>

SizeOf(o) == Size(o.from, o.to)

(* The elements from the oldest to the newest.                             *)
Contents(o) ==
  [i \in 1 .. SizeOf(o) |-> o.slots[Slot(Advance(o.from, i - 1))]]

-----------------------------------------------------------------------------
(* Storage.                                                                *)

(* The n slots that start at s, wrapping to the start of the storage.      *)
Run(s, n) == {(s + j) % MaxSize : j \in 0 .. n - 1}

Fill(slots, s, n, x) == [k \in Slots |-> IF k \in Run(s, n) THEN x ELSE slots[k]]

(* Wrong variant: forgets the part of the run that wrapped.                *)
DropFrontUnwrapped(o, n) ==
  LET room == MaxSize - Slot(o.from)
  IN [o EXCEPT !.slots = Fill(@, Slot(o.from), IF room >= n THEN n ELSE room, Raw),
               !.from = Advance(@, n)]

(* pop_front(n): destroys n elements, then advances from_.                 *)
DropFront(o, n) ==
  [o EXCEPT !.slots = Fill(@, Slot(o.from), n, Raw), !.from = Advance(@, n)]

(* Wrong variant: the part that wraps starts over with the range's first.  *)
PlaceBackRewound(o, seq) ==
  LET s == Slot(o.to)
      Offset(k) == IF k >= s THEN k - s + 1 ELSE k + 1
  IN [o EXCEPT
       !.slots = [k \in Slots |->
                    IF ((k - s) % MaxSize) + 1 \in DOMAIN seq THEN seq[Offset(k)] ELSE @[k]],
       !.to = Advance(@, Len(seq))]

(* copy_range_back and move_range_back of a range that reads as seq.       *)
PlaceBack(o, seq) ==
  LET s == Slot(o.to)
      Offset(k) == ((k - s) % MaxSize) + 1
  IN [o EXCEPT
       !.slots = [k \in Slots |->
                    IF Offset(k) \in DOMAIN seq THEN seq[Offset(k)] ELSE @[k]],
       !.to = Advance(@, Len(seq))]

(* What copy_n reads of another buffer.  Trivial types are copied with one *)
(* memcpy for each run of the target, from the address of the first        *)
(* element on; past the end of the storage there is nothing to read.       *)
Flat(o, p, n) ==
  [i \in 1 .. n |-> IF p + i - 1 < MaxSize THEN o.slots[p + i - 1] ELSE Raw]

ReadFrom(o, target) ==
  LET n == SizeOf(o)
      p == Slot(o.from)
      room == MaxSize - Slot(target.to)
      first == IF room >= n THEN n ELSE room
  IN IF Trivial
     THEN Flat(o, p, first) \o Flat(o, (p + first) % MaxSize, n - first)
     ELSE Contents(o)

Clear(o) == DropFront(o, SizeOf(o))

-----------------------------------------------------------------------------
(* Operations.  The code checks nothing; MayInsert is the caller's check,  *)
(* without which insertion would run over the oldest elements.             *)

MayInsert(b, n) == SizeOf(buf[b]) + n <= N

PushBack(b, v) ==
  /\ MayInsert(b, 1)
  /\ buf' = [buf EXCEPT ![b] = PlaceBack(@, <<v>>)]
  /\ out' = <<>>

CopyRangeBack(b, seq) ==
  /\ MayInsert(b, Len(seq))
  /\ buf' = [buf EXCEPT ![b] = PlaceBack(@, seq)]
  /\ out' = <<>>

PopFront(b, n) ==
  /\ n <= SizeOf(buf[b])
  /\ buf' = [buf EXCEPT ![b] = DropFront(@, n)]
  /\ out' = <<>>

ClearAll(b) ==
  /\ buf' = [buf EXCEPT ![b] = Clear(@)]
  /\ out' = <<>>

TakeFront(b) ==
  /\ ~IsEmpty(buf[b].from, buf[b].to)
  /\ out' = <<buf[b].slots[Slot(buf[b].from)]>>
  /\ buf' = [buf EXCEPT ![b] = DropFront(@, 1)]

(* take_front(buffer): moves the elements out and never destroys them.     *)
TakeFrontInto(b, n) ==
  LET o == buf[b] IN
  /\ n <= SizeOf(o)
  /\ out' = [i \in 1 .. n |-> o.slots[(Slot(o.from) + i - 1) % MaxSize]]
  /\ buf' = [buf EXCEPT
       ![b].slots = Fill(@, Slot(o.from), n, IF Trivial THEN Raw ELSE Moved),
       ![b].from = Advance(@, n)]

CopyAssign(b, c) ==
  /\ b # c
  /\ LET target == Clear(buf[b])
     IN buf' = [buf EXCEPT ![b] = PlaceBack(target, ReadFrom(buf[c], target))]
  /\ out' = <<>>

MoveAssign(b, c) ==
  /\ b # c
  /\ LET target == Clear(buf[b])
     IN buf' = [buf EXCEPT ![b] = PlaceBack(target, ReadFrom(buf[c], target)),
                           ![c] = Clear(@)]
  /\ out' = <<>>

(* The end of an object's life and the constructors of the next one.       *)
Reconstruct(b) ==
  /\ buf' = [buf EXCEPT ![b] = Fresh]
  /\ out' = <<>>

CopyConstruct(b, c) ==
  /\ b # c
  /\ buf' = [buf EXCEPT ![b] = PlaceBack(Fresh, ReadFrom(buf[c], Fresh))]
  /\ out' = <<>>

MoveConstruct(b, c) ==
  /\ b # c
  /\ buf' = [buf EXCEPT ![b] = PlaceBack(Fresh, ReadFrom(buf[c], Fresh)),
                        ![c] = Clear(@)]
  /\ out' = <<>>

Ranges == UNION {[1 .. n -> Values] : n \in 1 .. MaxBatch}

Next ==
  \/ \E b \in Objects :
       \/ \E v \in Values : PushBack(b, v)
       \/ \E seq \in Ranges : CopyRangeBack(b, seq)
       \/ \E n \in 1 .. N : PopFront(b, n) \/ TakeFrontInto(b, n)
       \/ ClearAll(b) \/ TakeFront(b) \/ Reconstruct(b)
  \/ \E b, c \in Objects :
       CopyAssign(b, c) \/ MoveAssign(b, c) \/ CopyConstruct(b, c) \/ MoveConstruct(b, c)

Spec == Init /\ [][Next]_vars

-----------------------------------------------------------------------------
(* Observers.                                                              *)

(* Wrong variant: the iterator wraps one slot early.                       *)
TraversalOfCapacity(o) ==
  LET p == Slot(o.from)
      steps == (Slot(o.to) - p) % N
  IN [i \in 1 .. steps |-> o.slots[(p + i - 1) % N]]

(* What a loop from begin() to end() visits: ++ from the first slot until  *)
(* the iterator compares equal to end().                                   *)
Traversal(o) ==
  LET p == Slot(o.from)
      steps == (Slot(o.to) - p) % MaxSize
  IN [i \in 1 .. steps |-> o.slots[(p + i - 1) % MaxSize]]

Front(o) == o.slots[Slot(o.from)]

Back(o) == o.slots[LastSlot(o.to)]

-----------------------------------------------------------------------------
(* Properties.                                                             *)

(* Indices stay in the range of their strategy and every slot is in one of *)
(* its three conditions.                                                   *)
TypeOK ==
  /\ buf \in [Objects -> [from : Indices, to : Indices,
                          slots : [Slots -> Values \union {Raw, Moved}]]]
  /\ out \in Seq(Values \union {Raw, Moved})

Window(o) == Run(Slot(o.from), SizeOf(o))

(* The slots between from_ and to_ are exactly those that hold a value: no *)
(* element is forgotten in the storage without having been destroyed, and  *)
(* no operation reads, moves or destroys a slot that has no element.       *)
ValuesFillWindow ==
  \A b \in Objects :
    /\ SizeOf(buf[b]) <= N
    /\ {k \in Slots : buf[b].slots[k] \in Values} = Window(buf[b])

(* front(), back(), empty() and full() agree with the elements held, and a *)
(* loop from begin() to end(), on which operator== and the comparisons are *)
(* built, visits every element once and in order.                          *)
ObserversAgree ==
  \A b \in Objects :
    LET o == buf[b]
        c == Contents(o)
    IN /\ IsEmpty(o.from, o.to) <=> c = <<>>
       /\ IsFull(o.from, o.to) <=> Len(c) = N
       /\ c # <<>> => Front(o) = c[1] /\ Back(o) = c[Len(c)]
       /\ Traversal(o) = c

(* Assigning a buffer makes the target equal to the source (:239).         *)
CopyIsEqual ==
  [][\A b, c \in Objects : CopyAssign(b, c) => Contents(buf[b])' = Contents(buf[c])]_vars

(* The buffers are the queues of BoundedFifo.                              *)
Fifo == INSTANCE BoundedFifo
  WITH Capacity <- N, queue <- [b \in Objects |-> Contents(buf[b])]

FifoSpec == Fifo!Spec

=============================================================================
