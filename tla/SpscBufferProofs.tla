-------------------------- MODULE SpscBufferProofs --------------------------
(***************************************************************************)
(* Safety of the buffer shared by a producer and a consumer, for every     *)
(* capacity, index width, strategy and number of items.                    *)
(***************************************************************************)
EXTENDS SpscBuffer, CircularIndexProofs

USE DEF Raw, Left, InBatch

(* What the other lemmas use of the invariant's counts.                    *)
LEMMA Counts ==
  ASSUME TypeOK, IndicesCount
  PROVE  /\ Len(removed) \in Nat /\ Gone \in Nat /\ Gone + moved = Len(removed)
         /\ pushed \in Nat /\ Gone <= pushed /\ pushed - Gone <= N
         /\ from = Gone % IndexSpan /\ to = pushed % IndexSpan
         /\ Slot(from) = Gone % MaxSize /\ Slot(to) = pushed % MaxSize
         /\ Slot(from) \in Slots /\ Slot(to) \in Slots
         /\ Size(from, to) = pushed - Gone
<1>1. Len(removed) \in Nat /\ Gone \in Nat /\ Gone + moved = Len(removed)
  BY DEF TypeOK, IndicesCount, Gone
<1>2. pushed \in Nat /\ Gone <= pushed /\ pushed - Gone <= N
  BY DEF TypeOK, IndicesCount
<1>3. from = Gone % IndexSpan /\ to = pushed % IndexSpan
  BY DEF IndicesCount
<1>4. QED
  BY <1>1, <1>2, <1>3, SlotOfCount, SizeCounts

(* The items held at a time fit into the storage.                          *)
LEMMA HeldSpan ==
  ASSUME Inv
  PROVE  /\ LastHeld - FirstHeld < MaxSize /\ FirstHeld - 1 \in Nat /\ LastHeld \in Nat
         /\ Gone + 1 <= FirstHeld /\ FirstHeld \in Nat
         /\ FirstHeld <= Len(removed) + 1 /\ pushed <= LastHeld
         /\ Len(removed) <= pushed
<1>1. /\ Len(removed) \in Nat /\ Gone \in Nat /\ moved \in Nat
      /\ Gone + moved = Len(removed)
      /\ pushed \in Nat /\ Gone <= pushed /\ pushed - Gone <= N
      /\ N \in Nat /\ MaxSize \in Nat /\ N <= MaxSize
  BY Counts, Spans DEF Inv, TypeOK
<1>2. cpc = "destroy" => moved = 1
  BY DEF Inv, ConsumerKnows
<1>3. ppc = "advance" => pushed - Gone < N
  BY DEF Inv, ProducerKnows
<1>4. FirstHeld = IF cpc = "destroy" THEN Len(removed) ELSE Len(removed) + 1
  BY DEF FirstHeld
<1>5. LastHeld = IF ppc = "advance" THEN pushed + 1 ELSE pushed
  BY DEF LastHeld
<1>6. FirstHeld \in Nat /\ Gone + 1 <= FirstHeld /\ FirstHeld <= Len(removed) + 1
  BY <1>1, <1>2, <1>4
<1>7. LastHeld \in Nat /\ LastHeld <= Gone + N /\ pushed <= LastHeld
  BY <1>1, <1>3, <1>5
<1>8. moved <= batch /\ batch \in Nat /\ batch <= pushed - Gone
  BY DEF Inv, TypeOK, ConsumerKnows
<1>9. QED
  BY <1>1, <1>6, <1>7, <1>8

(* No two items that are held at the same time share a slot.               *)
LEMMA HeldApart ==
  ASSUME Inv,
         NEW i \in FirstHeld .. LastHeld, NEW j \in FirstHeld .. LastHeld,
         (i - 1) % MaxSize = (j - 1) % MaxSize
  PROVE  i = j
<1>1. /\ LastHeld - FirstHeld < MaxSize
      /\ FirstHeld \in Nat /\ FirstHeld - 1 \in Nat /\ LastHeld \in Nat
  BY HeldSpan
<1>2. i - 1 \in Nat /\ j - 1 \in Nat
  BY <1>1
<1>3. CASE i <= j
  <2>1. i - 1 <= j - 1 /\ (j - 1) - (i - 1) < MaxSize
    BY <1>1, <1>3, Spans
  <2>2. i - 1 = j - 1
    BY <1>2, <2>1, ModInjective, Spans
  <2>3. QED
    BY <1>2, <2>2
<1>4. CASE j <= i
  <2>1. j - 1 <= i - 1 /\ (i - 1) - (j - 1) < MaxSize
    BY <1>1, <1>2, <1>4, Spans
  <2>2. j - 1 = i - 1
    BY <1>2, <2>1, ModInjective, Spans
  <2>3. QED
    BY <1>2, <2>2
<1>5. QED
  BY <1>1, <1>2, <1>3, <1>4

LEMMA InitInv == Init => Inv
<1> SUFFICES ASSUME Init PROVE Inv
  OBVIOUS
<1>1. 0 % IndexSpan = 0 /\ 0 \in Indices /\ 0 <= N
  BY Spans DEF Indices
<1>2. Len(removed) = 0 /\ Gone = 0
  BY DEF Init, Gone
<1>3. TypeOK
  BY <1>1 DEF Init, TypeOK
<1>4. FifoOrder
  BY DEF Init, FifoOrder
<1>5. IndicesCount
  BY <1>1, <1>2 DEF Init, IndicesCount
<1>6. ProducerKnows /\ ConsumerKnows
  BY <1>2 DEF Init, ProducerKnows, ConsumerKnows
<1>7. SlotsHold
  BY <1>2 DEF Init, SlotsHold, FirstHeld, LastHeld
<1>8. QED
  BY <1>3, <1>4, <1>5, <1>6, <1>7 DEF Inv

LEMMA StartPushInv == ASSUME Inv, StartPush PROVE Inv'
  BY DEF Inv, StartPush, TypeOK, FifoOrder, IndicesCount, ProducerKnows,
         ConsumerKnows, SlotsHold, FirstHeld, LastHeld, Gone, consumerVars

LEMMA LoadFullInv == ASSUME Inv, LoadFull PROVE Inv'
<1>1. /\ Gone \in Nat /\ pushed \in Nat /\ Gone <= pushed /\ pushed - Gone <= N
      /\ from = Gone % IndexSpan /\ Size(from, to) = pushed - Gone
      /\ N \in Nat
  BY Counts, Spans DEF Inv
<1>2. ppc' = "construct" => pushed - Gone < N
  BY <1>1 DEF LoadFull, IsFull
<1>3. ppc' = "full2" => ~Overflow /\ pseen' = Gone % IndexSpan
  BY <1>1 DEF LoadFull
<1>4. ppc = "full" /\ ppc' \in {"full2", "idle", "construct"}
  BY DEF LoadFull
<1>5. Gone' = Gone /\ FirstHeld' = FirstHeld /\ LastHeld' = LastHeld
  BY <1>4 DEF LoadFull, Gone, FirstHeld, LastHeld, consumerVars
<1>6. ProducerKnows'
  <2>1. ppc' = "full2" => Gone \in 0 .. Gone
    BY <1>1
  <2>2. QED
    BY <1>1, <1>2, <1>3, <1>4, <1>5, <2>1 DEF ProducerKnows, LoadFull
<1>7. QED
  BY <1>4, <1>5, <1>6 DEF Inv, LoadFull, TypeOK, FifoOrder, IndicesCount,
     ConsumerKnows, SlotsHold, consumerVars

LEMMA LoadFullAgainInv == ASSUME Inv, LoadFullAgain PROVE Inv'
<1>1. /\ Gone \in Nat /\ pushed \in Nat /\ Gone <= pushed /\ pushed - Gone <= N
      /\ from = Gone % IndexSpan /\ Size(from, to) = pushed - Gone
      /\ N \in Nat
  BY Counts, Spans DEF Inv
<1>2. ppc = "full2" /\ ppc' \in {"idle", "construct"}
  BY DEF LoadFullAgain
<1>3. ~Overflow
  BY <1>2 DEF Inv, ProducerKnows
<1>4. PICK b \in 0 .. Gone : pseen = b % IndexSpan /\ pushed - b <= N
  BY <1>2 DEF Inv, ProducerKnows
<1>5. ASSUME pushed - Gone = N PROVE ppc' = "idle"
  <2>1. b = Gone
    BY <1>1, <1>4, <1>5
  <2>2. pseen = from
    BY <1>1, <1>4, <2>1
  <2>3. TornSize(pseen, to, from, to) = Size(from, to)
    BY <1>3, <2>2 DEF TornSize, Size
  <2>4. QED
    BY <1>1, <1>5, <2>3 DEF LoadFullAgain
<1>6. Gone' = Gone /\ FirstHeld' = FirstHeld /\ LastHeld' = LastHeld
  BY <1>2 DEF LoadFullAgain, Gone, FirstHeld, LastHeld, consumerVars
<1>7. ProducerKnows'
  BY <1>1, <1>2, <1>5, <1>6 DEF ProducerKnows, LoadFullAgain
<1>8. QED
  BY <1>2, <1>6, <1>7 DEF Inv, LoadFullAgain, TypeOK, FifoOrder, IndicesCount,
     ConsumerKnows, SlotsHold, consumerVars

LEMMA ConstructInv == ASSUME Inv, Construct PROVE Inv'
<1>1. /\ Gone \in Nat /\ pushed \in Nat /\ Gone <= pushed
      /\ Slot(to) = pushed % MaxSize /\ Slot(to) \in Slots
      /\ N \in Nat
  BY Counts, Spans DEF Inv
<1>2. ppc = "construct" /\ ppc' = "advance" /\ pushed - Gone < N
  BY DEF Inv, ProducerKnows, Construct
<1>3. Gone' = Gone /\ FirstHeld' = FirstHeld /\ LastHeld = pushed /\ LastHeld' = pushed + 1
  BY <1>2 DEF Construct, Gone, FirstHeld, LastHeld, consumerVars
<1>4. slots' = [slots EXCEPT ![Slot(to)] = pushed + 1]
  BY DEF Construct
<1>5. FirstHeld \in Nat /\ FirstHeld - 1 \in Nat /\ Gone + 1 <= FirstHeld
  BY HeldSpan
<1>6. slots \in [Slots -> Nat \union {Left}]
  BY DEF Inv, TypeOK
<1>7. ASSUME NEW i \in FirstHeld .. pushed
      PROVE  (i - 1) % MaxSize # Slot(to) /\ (i - 1) % MaxSize \in Slots
  <2>1. i - 1 \in Nat /\ i - 1 <= pushed /\ pushed - (i - 1) < MaxSize /\ i - 1 # pushed
    BY <1>1, <1>2, <1>5, Spans
  <2>2. MaxSize \in Nat \ {0} /\ pushed \in Nat
    BY <1>1, Spans
  <2>3. (i - 1) % MaxSize # pushed % MaxSize
    BY <2>1, <2>2, ModInjective
  <2>4. (i - 1) % MaxSize \in Slots
    BY <2>1, <2>2, DivMod DEF Slots
  <2>5. QED
    BY <1>1, <2>3, <2>4
<1>8. SlotsHold'
  <2>1. \A i \in FirstHeld .. pushed + 1 : slots'[(i - 1) % MaxSize] = i
    <3> TAKE i \in FirstHeld .. pushed + 1
    <3>1. CASE i = pushed + 1
      BY <1>1, <1>4, <1>6, <3>1
    <3>2. CASE i # pushed + 1
      <4>1. i \in FirstHeld .. pushed
        BY <1>1, <1>5, <3>2
      <4>2. slots[(i - 1) % MaxSize] = i
        BY <1>3, <4>1 DEF Inv, SlotsHold
      <4>3. QED
        BY <1>4, <1>6, <1>7, <4>1, <4>2
    <3>3. QED
      BY <3>1, <3>2
  <2>2. ASSUME NEW k \in Slots, slots'[k] \notin {Raw, Left}
        PROVE  \E i \in FirstHeld .. pushed + 1 : k = (i - 1) % MaxSize
    <3>1. CASE k = Slot(to)
      <4>1. pushed + 1 \in FirstHeld .. pushed + 1 /\ (pushed + 1) - 1 = pushed
        BY <1>1, <1>5, HeldSpan
      <4>2. QED
        BY <1>1, <3>1, <4>1
    <3>2. CASE k # Slot(to)
      <4>1. slots[k] \notin {Raw, Left}
        BY <1>4, <1>6, <2>2, <3>2
      <4>2. PICK i \in FirstHeld .. pushed : k = (i - 1) % MaxSize
        BY <1>3, <4>1 DEF Inv, SlotsHold
      <4>3. i \in FirstHeld .. pushed + 1
        BY <1>1, <1>5
      <4>4. QED
        BY <4>2, <4>3
    <3>3. QED
      BY <3>1, <3>2
  <2>3. "take_n" \notin Batches => \A k \in Slots : slots'[k] # Left
    BY <1>1, <1>4, <1>6 DEF Inv, SlotsHold
  <2>4. QED
    BY <1>3, <2>1, <2>2, <2>3 DEF SlotsHold, Slots, MaxSize
<1>9. TypeOK'
  BY <1>1, <1>2, <1>4, <1>6 DEF Inv, TypeOK, Construct, consumerVars
<1>10. QED
  BY <1>2, <1>3, <1>8, <1>9 DEF Inv, Construct, FifoOrder, IndicesCount,
     ProducerKnows, ConsumerKnows, consumerVars

(* The item the producer constructed enters the window.  A consumer that   *)
(* is between the two loads of the spacer's size() is an interrupt, and    *)
(* the producer does not move.                                             *)
LEMMA AdvanceBackInv ==
  ASSUME Inv, SizeIsWhole, AdvanceBack, Interrupt = "consumer" => cpc = "idle"
  PROVE  Inv'
<1>1. /\ Gone \in Nat /\ pushed \in Nat /\ Gone <= pushed
      /\ to = pushed % IndexSpan /\ N \in Nat /\ 1 \in 0 .. N
  BY Counts, Spans DEF Inv
<1>2. ppc = "advance" /\ ppc' = "idle" /\ pushed - Gone < N /\ pushed' = pushed + 1
  BY DEF Inv, ProducerKnows, AdvanceBack
<1>3. Gone' = Gone /\ FirstHeld' = FirstHeld /\ LastHeld' = LastHeld
  BY <1>2 DEF AdvanceBack, Gone, FirstHeld, LastHeld, consumerVars
<1>4. to' = pushed' % IndexSpan /\ to' \in Indices
  BY <1>1, <1>2, AdvanceCounts, SlotOfCount DEF AdvanceBack
<1>5. TypeOK'
  BY <1>1, <1>2, <1>4 DEF Inv, TypeOK, AdvanceBack, consumerVars
<1>6. IndicesCount'
  BY <1>1, <1>2, <1>3, <1>4 DEF Inv, IndicesCount, AdvanceBack, consumerVars
<1>7. cpc # "size2"
  BY DEF Inv, ConsumerKnows, SizeIsWhole
<1>8. batch \in Nat /\ batch <= pushed - Gone /\ batch <= pushed' - Gone
  BY <1>1, <1>2 DEF Inv, TypeOK, ConsumerKnows
<1>9. ConsumerKnows'
  BY <1>3, <1>7, <1>8 DEF Inv, ConsumerKnows, AdvanceBack, consumerVars
<1>10. QED
  BY <1>2, <1>3, <1>5, <1>6, <1>9 DEF Inv, AdvanceBack, FifoOrder, ProducerKnows,
     SlotsHold, consumerVars

-----------------------------------------------------------------------------
(* Consumer.                                                               *)

LEMMA PollEmptyInv == ASSUME Inv, PollEmpty PROVE Inv'
<1>1. /\ Gone \in Nat /\ pushed \in Nat /\ Gone <= pushed
      /\ from = Gone % IndexSpan /\ to = pushed % IndexSpan
  BY Counts DEF Inv
<1>2. from # to => 1 <= pushed - Gone
  BY <1>1
<1>3. cpc = "idle" /\ cpc' \in {"idle", "take"} /\ moved = 0 /\ batch = 0
  BY DEF PollEmpty, Inv, ConsumerKnows
<1>4. Gone' = Gone /\ FirstHeld' = FirstHeld /\ LastHeld' = LastHeld
  BY <1>3 DEF PollEmpty, Gone, FirstHeld, LastHeld, producerVars
<1>5. ConsumerKnows'
  BY <1>2, <1>3, <1>4 DEF Inv, ConsumerKnows, PollEmpty, IsEmpty
<1>6. QED
  BY <1>3, <1>4, <1>5 DEF Inv, PollEmpty, TypeOK, FifoOrder, IndicesCount,
     ProducerKnows, SlotsHold, producerVars

(* What the consumer finds in the slot of the oldest item.                 *)
LEMMA NextItem ==
  ASSUME Inv, cpc \in {"take", "take_n", "pop_n"}
  PROVE  /\ Len(removed) + 1 \in FirstHeld .. LastHeld
         /\ (Slot(from) + moved) % MaxSize = Len(removed) % MaxSize
         /\ Len(removed) % MaxSize \in Slots
         /\ slots[Len(removed) % MaxSize] = Len(removed) + 1
<1>1. /\ Len(removed) \in Nat /\ Gone \in Nat /\ moved \in Nat
      /\ Gone + moved = Len(removed) /\ pushed \in Nat /\ pushed - Gone <= N
      /\ Slot(from) = Gone % MaxSize /\ N \in Nat /\ N <= MaxSize
      /\ MaxSize \in Nat \ {0}
  BY Counts, Spans DEF Inv, TypeOK
<1>2. moved < batch /\ batch \in Nat /\ batch <= pushed - Gone
  BY DEF Inv, TypeOK, ConsumerKnows
<1>3. FirstHeld = Len(removed) + 1 /\ LastHeld \in Nat /\ pushed <= LastHeld
  BY HeldSpan DEF FirstHeld
<1>4. Len(removed) + 1 \in FirstHeld .. LastHeld
  BY <1>1, <1>2, <1>3
<1>5. moved \in 0 .. MaxSize
  BY <1>1, <1>2
<1>6. (Slot(from) + moved) % MaxSize = Len(removed) % MaxSize
  BY <1>1, <1>5, ModAdd
<1>7. slots[((Len(removed) + 1) - 1) % MaxSize] = Len(removed) + 1
  BY <1>4 DEF Inv, SlotsHold
<1>8. (Len(removed) + 1) - 1 = Len(removed)
  BY <1>1
<1>9. Len(removed) % MaxSize \in Slots
  BY <1>1, DivMod DEF Slots
<1>10. QED
  BY <1>4, <1>6, <1>7, <1>8, <1>9

(* Appending the next item keeps the order.                                *)
LEMMA AppendNext ==
  ASSUME removed \in Seq(Nat), FifoOrder
  PROVE  LET r == Append(removed, Len(removed) + 1)
         IN r \in Seq(Nat) /\ Len(r) = Len(removed) + 1 /\ \A i \in DOMAIN r : r[i] = i
<1> DEFINE r == Append(removed, Len(removed) + 1)
<1>1. r \in Seq(Nat) /\ Len(r) = Len(removed) + 1 /\ DOMAIN r = 1 .. Len(removed) + 1
  OBVIOUS
<1>2. ASSUME NEW i \in 1 .. Len(removed) + 1 PROVE r[i] = i
  <2>1. CASE i = Len(removed) + 1
    BY <2>1
  <2>2. CASE i # Len(removed) + 1
    BY <2>2 DEF FifoOrder
  <2>3. QED
    BY <2>1, <2>2
<1>3. QED
  BY <1>1, <1>2

LEMMA TakeInv == ASSUME Inv, Take PROVE Inv'
<1>1. cpc = "take" /\ cpc' = "destroy" /\ moved = 0 /\ moved' = 1 /\ batch = 1
  BY DEF Inv, ConsumerKnows, Take
<1>2. /\ Len(removed) \in Nat /\ Gone \in Nat /\ Gone = Len(removed)
      /\ Slot(from) = Gone % MaxSize
  BY <1>1, Counts DEF Inv
<1>3. removed' = Append(removed, Len(removed) + 1)
  BY <1>1, <1>2, NextItem DEF Take
<1>4. /\ removed' \in Seq(Nat) /\ Len(removed') = Len(removed) + 1 /\ FifoOrder'
  BY <1>3, AppendNext DEF Inv, TypeOK, FifoOrder
<1>5. Gone' = Gone /\ FirstHeld' = FirstHeld /\ LastHeld' = LastHeld
  BY <1>1, <1>2, <1>4 DEF Take, Gone, FirstHeld, LastHeld, producerVars
<1>6. TypeOK'
  BY <1>1, <1>4 DEF Inv, TypeOK, Take, producerVars
<1>7. IndicesCount'
  BY <1>1, <1>2, <1>4, <1>5 DEF Inv, IndicesCount, Take
<1>8. ConsumerKnows'
  BY <1>1, <1>5 DEF Inv, ConsumerKnows, Take
<1>9. QED
  BY <1>4, <1>5, <1>6, <1>7, <1>8 DEF Inv, Take, ProducerKnows, SlotsHold, producerVars

(* Emptying the slot of the oldest held item leaves the others.            *)
LEMMA EmptyFirst ==
  ASSUME Inv, FirstHeld <= LastHeld,
         NEW content \in {Raw, Left}, "take_n" \notin Batches => content = Raw,
         slots' = [slots EXCEPT ![(FirstHeld - 1) % MaxSize] = content],
         FirstHeld' = FirstHeld + 1, LastHeld' = LastHeld
  PROVE  SlotsHold'
<1>1. FirstHeld \in Nat /\ LastHeld \in Nat /\ FirstHeld - 1 \in Nat
  BY HeldSpan
<1>2. FirstHeld \in FirstHeld .. LastHeld /\ slots \in [Slots -> Nat \union {Left}]
  BY <1>1 DEF Inv, TypeOK
<1>3. ASSUME NEW i \in FirstHeld + 1 .. LastHeld
      PROVE  slots'[(i - 1) % MaxSize] = i
  <2>1. i \in FirstHeld .. LastHeld /\ i # FirstHeld /\ i - 1 \in Nat
    BY <1>1
  <2>2. (i - 1) % MaxSize # (FirstHeld - 1) % MaxSize
    BY <1>2, <2>1, HeldApart
  <2>3. (i - 1) % MaxSize \in Slots
    BY <2>1, DivMod, Spans DEF Slots
  <2>4. slots[(i - 1) % MaxSize] = i
    BY <2>1 DEF Inv, SlotsHold
  <2>5. QED
    BY <1>2, <2>2, <2>3, <2>4
<1>4. ASSUME NEW k \in Slots, slots'[k] \notin {Raw, Left}
      PROVE  \E i \in FirstHeld + 1 .. LastHeld : k = (i - 1) % MaxSize
  <2>1. k # (FirstHeld - 1) % MaxSize /\ slots[k] \notin {Raw, Left}
    BY <1>2, <1>4
  <2>2. PICK i \in FirstHeld .. LastHeld : k = (i - 1) % MaxSize
    BY <2>1 DEF Inv, SlotsHold
  <2>3. i \in FirstHeld + 1 .. LastHeld
    BY <1>1, <2>1, <2>2
  <2>4. QED
    BY <2>2, <2>3
<1>5. "take_n" \notin Batches => \A k \in Slots : slots'[k] # Left
  BY <1>2 DEF Inv, SlotsHold
<1>6. QED
  BY <1>3, <1>4, <1>5 DEF SlotsHold, Slots, MaxSize

LEMMA DestroyInv == ASSUME Inv, Destroy PROVE Inv'
<1>1. cpc = "destroy" /\ cpc' = "advance" /\ moved = 1 /\ batch = 1
  BY DEF Inv, ConsumerKnows, Destroy
<1>2. /\ Len(removed) \in Nat /\ Gone \in Nat /\ Gone + 1 = Len(removed)
      /\ Slot(from) = Gone % MaxSize /\ Slot(from) \in Slots
  BY <1>1, Counts DEF Inv
<1>3. FirstHeld = Len(removed) /\ FirstHeld - 1 = Gone
  BY <1>1, <1>2 DEF FirstHeld
<1>4. Gone' = Gone /\ FirstHeld' = FirstHeld + 1 /\ LastHeld' = LastHeld
  BY <1>1, <1>3 DEF Destroy, Gone, FirstHeld, LastHeld, producerVars
<1>5. slots' = [slots EXCEPT ![(FirstHeld - 1) % MaxSize] = Raw]
  BY <1>2, <1>3 DEF Destroy
<1>6. FirstHeld <= LastHeld
  BY <1>2, <1>3, HeldSpan, Counts DEF Inv
<1>7. SlotsHold'
  BY <1>4, <1>5, <1>6, EmptyFirst
<1>8. TypeOK'
  BY <1>1, <1>2 DEF Inv, TypeOK, Destroy, producerVars
<1>9. QED
  BY <1>1, <1>4, <1>7, <1>8 DEF Inv, Destroy, FifoOrder, IndicesCount,
     ProducerKnows, ConsumerKnows, producerVars

(* Whichever way size() was computed, the batch that starts with it has    *)
(* that many items in front of it.                                         *)
LEMMA StartBatchInv ==
  ASSUME Inv, cpc \in {"idle", "size2"}, StartBatch(pushed - Gone), cseen' \in Indices,
         UNCHANGED <<slots, from, to, producerVars, moved, pushed, removed>>
  PROVE  Inv'
<1>1. /\ Gone \in Nat /\ pushed \in Nat /\ Gone <= pushed /\ moved = 0
      /\ pushed - Gone \in Nat
  BY Counts DEF Inv, ConsumerKnows
<1>2. /\ batch' = pushed - Gone
      /\ \/ cpc' = "idle" /\ pushed - Gone = 0
         \/ cpc' \in Batches /\ pushed - Gone # 0
      /\ cpc' \in {"idle", "take_n", "pop_n"}
  BY SpscAssumption DEF StartBatch
<1>3. Gone' = Gone /\ FirstHeld' = FirstHeld /\ LastHeld' = LastHeld
  BY <1>2 DEF Gone, FirstHeld, LastHeld, producerVars
<1>4. ConsumerKnows'
  BY <1>1, <1>2, <1>3, SpscAssumption DEF ConsumerKnows
<1>5. TypeOK'
  BY <1>1, <1>2 DEF Inv, TypeOK, producerVars
<1>6. QED
  BY <1>3, <1>4, <1>5 DEF Inv, FifoOrder, IndicesCount, ProducerKnows, SlotsHold,
     producerVars

LEMMA LoadSizeInv == ASSUME Inv, LoadSize PROVE Inv'
<1>1. cpc = "idle" /\ Batches # {} /\ cseen' = to /\ to \in Indices
  BY DEF LoadSize, Inv, TypeOK
<1>2. CASE Overflow
  <2>1. StartBatch(pushed - Gone)
    BY <1>2, Counts DEF LoadSize, Inv
  <2>2. QED
    BY <1>1, <2>1, StartBatchInv DEF LoadSize
<1>3. CASE ~Overflow
  <2>1. cpc' = "size2" /\ UNCHANGED batch
    BY <1>3 DEF LoadSize
  <2>2. Gone' = Gone /\ FirstHeld' = FirstHeld /\ LastHeld' = LastHeld
    BY <1>1, <2>1 DEF LoadSize, Gone, FirstHeld, LastHeld, producerVars
  <2>3. ConsumerKnows'
    BY <1>1, <1>3, <2>1, <2>2 DEF Inv, ConsumerKnows, LoadSize
  <2>4. QED
    BY <1>1, <2>1, <2>2, <2>3 DEF Inv, LoadSize, TypeOK, FifoOrder, IndicesCount,
       ProducerKnows, SlotsHold, producerVars
<1>4. QED
  BY <1>2, <1>3

LEMMA LoadSizeAgainInv == ASSUME Inv, LoadSizeAgain PROVE Inv'
<1>1. cpc = "size2" /\ ~Overflow /\ cseen = to
  BY DEF LoadSizeAgain, Inv, ConsumerKnows
<1>2. TornSize(from, cseen, from, to) = pushed - Gone
  BY <1>1, Counts DEF TornSize, Size, Inv
<1>3. StartBatch(pushed - Gone)
  BY <1>2 DEF LoadSizeAgain
<1>4. cseen' \in Indices
  BY DEF LoadSizeAgain, Inv, TypeOK
<1>5. QED
  BY <1>1, <1>3, <1>4, StartBatchInv DEF LoadSizeAgain

(* One more item of a batch is gone, destroyed or left behind moved from.  *)
LEMMA RemoveInv ==
  ASSUME Inv, InBatch, NEW content \in {Raw, Left}, Remove(content),
         "take_n" \notin Batches => content = Raw
  PROVE  Inv'
<1>1. cpc \in {"take_n", "pop_n"} /\ cpc' \in {cpc, "advance"} /\ moved < batch /\ moved' = moved + 1
  BY DEF Inv, ConsumerKnows, Remove
<1>2. /\ Len(removed) \in Nat /\ Gone \in Nat /\ Gone + moved = Len(removed)
      /\ moved \in Nat /\ batch \in Nat
  BY Counts DEF Inv, TypeOK
<1>3. removed' = Append(removed, Len(removed) + 1)
  BY <1>1, NextItem DEF Remove
<1>4. /\ removed' \in Seq(Nat) /\ Len(removed') = Len(removed) + 1 /\ FifoOrder'
  BY <1>3, AppendNext DEF Inv, TypeOK, FifoOrder
<1>5. FirstHeld = Len(removed) + 1 /\ FirstHeld - 1 = Len(removed)
  BY <1>1, <1>2 DEF FirstHeld
<1>6. Gone' = Gone /\ FirstHeld' = FirstHeld + 1 /\ LastHeld' = LastHeld
  BY <1>1, <1>2, <1>4, <1>5 DEF Remove, Gone, FirstHeld, LastHeld, producerVars
<1>7. slots' = [slots EXCEPT ![(FirstHeld - 1) % MaxSize] = content]
  BY <1>1, <1>5, NextItem DEF Remove
<1>8. FirstHeld <= LastHeld
  BY <1>1, <1>2, <1>5, NextItem, HeldSpan
<1>9. SlotsHold'
  BY <1>6, <1>7, <1>8, EmptyFirst
<1>10. TypeOK'
  <2>1. Len(removed) % MaxSize \in Slots
    BY <1>1, NextItem
  <2>2. slots' \in [Slots -> Nat \union {Left}]
    BY <1>5, <1>7, <2>1 DEF Inv, TypeOK
  <2>3. QED
    BY <1>1, <1>2, <1>4, <2>2 DEF Inv, TypeOK, Remove, producerVars
<1>11. IndicesCount'
  BY <1>1, <1>2, <1>4, <1>6 DEF Inv, IndicesCount, Remove
<1>12. ConsumerKnows'
  BY <1>1, <1>2, <1>6 DEF Inv, ConsumerKnows, Remove
<1>13. QED
  BY <1>4, <1>6, <1>9, <1>10, <1>11, <1>12 DEF Inv, Remove, ProducerKnows, producerVars

LEMMA TakeBatchInv == ASSUME Inv, TakeBatch PROVE Inv'
<1>1. "take_n" \in Batches
  BY DEF Inv, ConsumerKnows, TakeBatch
<1>2. QED
  BY <1>1, RemoveInv DEF TakeBatch

LEMMA PopBatchInv == ASSUME Inv, PopBatch PROVE Inv'
  BY RemoveInv DEF PopBatch

LEMMA AdvanceFrontInv == ASSUME Inv, AdvanceFront PROVE Inv'
<1>1. cpc = "advance" /\ cpc' = "idle" /\ moved = batch /\ moved' = 0 /\ batch' = 0
  BY DEF Inv, ConsumerKnows, AdvanceFront
<1>2. /\ Len(removed) \in Nat /\ Gone \in Nat /\ Gone + moved = Len(removed)
      /\ pushed \in Nat /\ Gone <= pushed /\ pushed - Gone <= N /\ N \in Nat
      /\ from = Gone % IndexSpan /\ moved \in Nat /\ batch <= pushed - Gone
  BY Counts, Spans DEF Inv, TypeOK, ConsumerKnows
<1>3. batch \in 0 .. N
  BY <1>1, <1>2
<1>4. from' = Len(removed) % IndexSpan /\ from' \in Indices
  <2>1. Advance(Gone % IndexSpan, batch) = (Gone + batch) % IndexSpan
    BY <1>2, <1>3, AdvanceCounts
  <2>2. Gone + batch = Len(removed)
    BY <1>1, <1>2
  <2>3. QED
    BY <1>2, <2>1, <2>2, SlotOfCount DEF AdvanceFront
<1>5. Gone' = Len(removed) /\ FirstHeld' = FirstHeld /\ LastHeld' = LastHeld
  BY <1>1, <1>2 DEF AdvanceFront, Gone, FirstHeld, LastHeld, producerVars
<1>6. Len(removed) <= pushed /\ Gone <= Len(removed)
  BY <1>1, <1>2
<1>7. TypeOK'
  BY <1>1, <1>4 DEF Inv, TypeOK, AdvanceFront, producerVars
<1>8. IndicesCount'
  BY <1>1, <1>2, <1>4, <1>5, <1>6 DEF Inv, IndicesCount, AdvanceFront
<1>9. ProducerKnows'
  <2>1. \A b \in 0 .. Gone : b \in 0 .. Len(removed)
    BY <1>2, <1>6
  <2>2. pushed - Gone < N => pushed - Len(removed) < N
    BY <1>2, <1>6
  <2>3. QED
    BY <1>5, <2>1, <2>2 DEF Inv, ProducerKnows, AdvanceFront, producerVars
<1>10. ConsumerKnows'
  BY <1>1, <1>2, <1>5, <1>6 DEF ConsumerKnows, AdvanceFront
<1>11. QED
  BY <1>5, <1>7, <1>8, <1>9, <1>10 DEF Inv, AdvanceFront, FifoOrder, SlotsHold

-----------------------------------------------------------------------------
LEMMA StutterInv == ASSUME Inv, UNCHANGED vars PROVE Inv'
<1>1. Gone' = Gone /\ FirstHeld' = FirstHeld /\ LastHeld' = LastHeld
  BY DEF vars, Gone, FirstHeld, LastHeld, consumerVars, producerVars
<1>2. QED
  BY <1>1 DEF Inv, vars, producerVars, consumerVars, TypeOK, FifoOrder, IndicesCount,
     ProducerKnows, ConsumerKnows, SlotsHold

LEMMA NextInv == ASSUME Inv, SizeIsWhole, [Next]_vars PROVE Inv'
<1>1. CASE ProducerStep
  BY <1>1, StartPushInv, LoadFullInv, LoadFullAgainInv, ConstructInv, AdvanceBackInv
     DEF ProducerStep, Produce
<1>2. CASE ConsumerStep
  BY <1>2, PollEmptyInv, TakeInv, DestroyInv, LoadSizeInv, LoadSizeAgainInv, TakeBatchInv,
     PopBatchInv, AdvanceFrontInv DEF ConsumerStep, Consume
<1>3. CASE UNCHANGED vars
  BY <1>3, StutterInv
<1>4. QED
  BY <1>1, <1>2, <1>3 DEF Next

(* The counts behind the indices are right in every reachable state, if    *)
(* size() is only called where nothing can come between its loads.         *)
THEOREM Invariance == SizeIsWhole => (Spec => []Inv)
<1> SUFFICES ASSUME SizeIsWhole PROVE Spec => []Inv
  OBVIOUS
<1>1. Init => Inv
  BY InitInv
<1>2. Inv /\ [Next]_vars => Inv'
  BY NextInv
<1>3. QED
  BY <1>1, <1>2, PTL DEF Spec

(* Indices stay in their range and no program counter leaves its set.      *)
THEOREM Typing == SizeIsWhole => (Spec => []TypeOK)
<1>1. Inv => TypeOK
  BY DEF Inv
<1>2. QED
  BY <1>1, Invariance, PTL

(* Nothing is lost, duplicated, reordered or read before it was written,   *)
(* however the two sides interleave.                                       *)
THEOREM RemovesInOrder == SizeIsWhole => (Spec => []FifoOrder)
<1>1. Inv => FifoOrder
  BY DEF Inv
<1>2. QED
  BY <1>1, Invariance, PTL

(* The buffer never holds more than N items, although full() was answered  *)
(* from indices that have moved since.                                     *)
THEOREM WithinCapacity == SizeIsWhole => (Spec => []NeverOverfull)
<1>1. Inv => NeverOverfull
  <2> SUFFICES ASSUME Inv PROVE NeverOverfull
    OBVIOUS
  <2>1. Size(from, to) = pushed - Gone /\ pushed - Gone <= N
    BY Counts DEF Inv
  <2>2. ppc = "construct" => pushed - Gone < N
    BY DEF Inv, ProducerKnows
  <2>3. QED
    BY <2>1, <2>2 DEF NeverOverfull
<1>2. QED
  BY <1>1, Invariance, PTL

(* The slot an item is about to be constructed in is not one of those that *)
(* hold an item.                                                           *)
LEMMA FreeSlot ==
  ASSUME Inv, ppc = "construct"
  PROVE  /\ slots[Slot(to)] \in {Raw, Left}
         /\ "take_n" \notin Batches => slots[Slot(to)] = Raw
<1>1. /\ pushed \in Nat /\ Gone \in Nat /\ Gone <= pushed /\ N \in Nat /\ N <= MaxSize
      /\ Slot(to) = pushed % MaxSize /\ Slot(to) \in Slots
  BY Counts, Spans DEF Inv
<1>2. pushed - Gone < N /\ LastHeld = pushed
  BY DEF Inv, ProducerKnows, LastHeld
<1>3. FirstHeld \in Nat /\ Gone + 1 <= FirstHeld
  BY HeldSpan
<1>4. ASSUME NEW i \in FirstHeld .. LastHeld PROVE Slot(to) # (i - 1) % MaxSize
  <2>0. i \in Nat /\ Gone + 1 <= i /\ i <= pushed /\ MaxSize \in Nat
    BY <1>1, <1>2, <1>3, Spans
  <2>1. i - 1 \in Nat /\ i - 1 <= pushed /\ pushed - (i - 1) < MaxSize /\ i - 1 # pushed
    BY <1>1, <1>2, <2>0
  <2>2. QED
    BY <1>1, <2>1, ModInjective, Spans
<1>5. QED
  BY <1>1, <1>4 DEF Inv, SlotsHold

(* An item is never constructed over one that is still to be removed or    *)
(* destroyed; only over what take_front( buffer ) leaves behind, and never *)
(* over anything in a buffer that is not drained by it.                    *)
THEOREM ConstructsInRaw == SizeIsWhole => (Spec => []ConstructInRaw)
<1>1. Inv => ConstructInRaw
  BY FreeSlot DEF ConstructInRaw
<1>2. QED
  BY <1>1, Invariance, PTL

(* Producer and consumer are never inside one slot.                        *)
THEOREM RaceFree == SizeIsWhole => (Spec => []NoSlotRace)
<1>1. Inv => NoSlotRace
  <2> SUFFICES ASSUME Inv, ppc = "construct", cpc \in {"take", "destroy", "take_n", "pop_n"}
               PROVE  Slot(to) # ConsumerSlot
    BY DEF NoSlotRace
  <2> DEFINE k == IF InBatch THEN moved ELSE 0
  <2>1. /\ pushed \in Nat /\ Gone \in Nat /\ Gone <= pushed /\ N \in Nat /\ N <= MaxSize
        /\ Slot(to) = pushed % MaxSize /\ Slot(from) = Gone % MaxSize
        /\ moved \in Nat /\ batch \in Nat /\ MaxSize \in Nat \ {0}
    BY Counts, Spans DEF Inv, TypeOK
  <2>2. pushed - Gone < N
    BY DEF Inv, ProducerKnows
  <2>3. batch <= pushed - Gone /\ k < batch /\ k \in Nat
    BY <2>1 DEF Inv, ConsumerKnows
  <2> HIDE DEF k
  <2>4. k \in 0 .. MaxSize /\ Gone + k \in Nat
    BY <2>1, <2>2, <2>3
  <2>5. ConsumerSlot = (Gone + k) % MaxSize
    BY <2>1, <2>4, ModAdd DEF ConsumerSlot, k
  <2>6. Gone + k <= pushed /\ pushed - (Gone + k) < MaxSize /\ Gone + k # pushed
    BY <2>1, <2>2, <2>3
  <2>7. QED
    BY <2>1, <2>4, <2>5, <2>6, ModInjective
<1>2. QED
  BY <1>1, Invariance, PTL

(* A batch never covers more items than the buffer holds.                  *)
THEOREM HonestSize == SizeIsWhole => (Spec => []SizeIsHonest)
<1>1. Inv => SizeIsHonest
  BY Counts DEF Inv, ConsumerKnows, SizeIsHonest
<1>2. QED
  BY <1>1, Invariance, PTL

=============================================================================
