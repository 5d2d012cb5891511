----------------------------- MODULE SpscBuffer -----------------------------
(***************************************************************************)
(* One static_circular_buffer shared by a producer and a consumer, one of  *)
(* which may be an interrupt handler.  Every load and store of an index    *)
(* and every access to a slot is a step of its own: full() and size() load *)
(* an index of the other side once or twice, insertion constructs the item *)
(* and then advances to_, removal moves out or destroys items and then     *)
(* advances from_.  An interrupt handler runs to completion before the     *)
(* main loop goes on.                                                      *)
(*                                                                         *)
(* Items are numbered in the order of their insertion; what a slot holds   *)
(* is the number of its item, until the item is destroyed or left behind   *)
(* moved from.  pushed and removed are the history of the buffer and no    *)
(* part of its state.                                                      *)
(***************************************************************************)
EXTENDS CircularIndex, Sequences

CONSTANTS
  Interrupt,   (* The side that is an interrupt: producer, consumer, none. *)
  Batches,     (* How the consumer removes size() items at a time, if it   *)
               (* does: take_n: take_front( buffer ), pop_n: pop_front( n ) *)
  MaxItems     (* Bound on the number of items inserted.                   *)

ASSUME SpscAssumption ==
  /\ Interrupt \in {"producer", "consumer", "none"}
  /\ Batches \subseteq {"take_n", "pop_n"}
  /\ MaxItems \in Nat

(* Content of a slot without an object, and of one whose object was moved  *)
(* from and is never going to be destroyed.                                *)
Raw == 0
Left == -1

VARIABLES
  slots,     (* storage_                                                   *)
  from,      (* from_                                                      *)
  to,        (* to_                                                        *)
  ppc,       (* Where the producer is.                                     *)
  pseen,     (* from_ as its first load in size() saw it.                  *)
  cpc,       (* Where the consumer is.                                     *)
  cseen,     (* to_ as its first load in size() saw it.                    *)
  batch,     (* The number of items of the consumer's operation,           *)
  moved,     (* and how many of them it has moved out.                     *)
  pushed,    (* The number of items inserted so far.                       *)
  removed    (* The items removed so far.                                  *)

producerVars == <<ppc, pseen>>
consumerVars == <<cpc, cseen, batch, moved>>
vars == <<slots, from, to, producerVars, consumerVars, pushed, removed>>

Init ==
  /\ slots = [k \in Slots |-> Raw]
  /\ from = 0 /\ to = 0
  /\ ppc = "idle" /\ pseen = 0
  /\ cpc = "idle" /\ cseen = 0 /\ batch = 0 /\ moved = 0
  /\ pushed = 0
  /\ removed = <<>>

(* The result of size() when the branch was taken on the pair f1, t1 and   *)
(* the difference computed from the pair f2, t2.                           *)
TornSize(f1, t1, f2, t2) ==
  IF t1 >= f1 THEN Narrow(t2 - f2) ELSE Narrow(t2 + (MaxSize - f2))

-----------------------------------------------------------------------------
(* Producer: if ( !full() ) push_back( item ).                             *)

StartPush ==
  /\ ppc = "idle" /\ pushed < MaxItems
  /\ ppc' = "full"
  /\ UNCHANGED <<pseen, slots, from, to, consumerVars, pushed, removed>>

(* Wrong variant: inserts whatever full() says.                            *)
LoadFullUnchecked ==
  /\ ppc = "full"
  /\ pseen' = from
  /\ ppc' = "construct"
  /\ UNCHANGED <<slots, from, to, consumerVars, pushed, removed>>

(* The overflow strategy loads each index once, the spacer twice.          *)
LoadFull ==
  /\ ppc = "full"
  /\ pseen' = from
  /\ ppc' = IF ~Overflow THEN "full2" ELSE IF IsFull(from, to) THEN "idle" ELSE "construct"
  /\ UNCHANGED <<slots, from, to, consumerVars, pushed, removed>>

(* Wrong variant: off by one.                                              *)
LoadFullAgainLate ==
  /\ ppc = "full2"
  /\ ppc' = IF TornSize(pseen, to, from, to) > N THEN "idle" ELSE "construct"
  /\ UNCHANGED <<pseen, slots, from, to, consumerVars, pushed, removed>>

LoadFullAgain ==
  /\ ppc = "full2"
  /\ ppc' = IF TornSize(pseen, to, from, to) = N THEN "idle" ELSE "construct"
  /\ UNCHANGED <<pseen, slots, from, to, consumerVars, pushed, removed>>

Construct ==
  /\ ppc = "construct"
  /\ slots' = [slots EXCEPT ![Slot(to)] = pushed + 1]
  /\ ppc' = "advance"
  /\ UNCHANGED <<pseen, from, to, consumerVars, pushed, removed>>

AdvanceBack ==
  /\ ppc = "advance"
  /\ to' = Advance(to, 1)
  /\ pushed' = pushed + 1
  /\ ppc' = "idle"
  /\ UNCHANGED <<pseen, slots, from, consumerVars, removed>>

Produce == StartPush \/ LoadFull \/ LoadFullAgain \/ Construct \/ AdvanceBack

-----------------------------------------------------------------------------
(* Consumer: if ( !empty() ) take_front(), or a batch of size() items by   *)
(* take_front( buffer ) or pop_front( n ).                                 *)

PollEmpty ==
  /\ cpc = "idle"
  /\ IF IsEmpty(from, to) THEN UNCHANGED <<cpc, batch>> ELSE cpc' = "take" /\ batch' = 1
  /\ UNCHANGED <<slots, from, to, producerVars, cseen, moved, pushed, removed>>

Take ==
  /\ cpc = "take"
  /\ removed' = Append(removed, slots[Slot(from)])
  /\ moved' = 1
  /\ cpc' = "destroy"
  /\ UNCHANGED <<slots, from, to, producerVars, cseen, batch, pushed>>

(* Wrong variant: leaves the moved-from item in its slot.                  *)
DestroyNothing ==
  /\ cpc = "destroy"
  /\ cpc' = "advance"
  /\ UNCHANGED <<slots, from, to, producerVars, cseen, batch, moved, pushed, removed>>

Destroy ==
  /\ cpc = "destroy"
  /\ slots' = [slots EXCEPT ![Slot(from)] = Raw]
  /\ cpc' = "advance"
  /\ UNCHANGED <<from, to, producerVars, cseen, batch, moved, pushed, removed>>

(* Wrong variant: removes the capacity rather than the size.               *)
StartBatchOfAll(n) ==
  /\ batch' = N
  /\ IF n = 0 THEN cpc' = "idle" ELSE cpc' \in Batches

(* Wrong variant: waits for a second item.                                 *)
StartBatchOfMany(n) ==
  /\ batch' = IF n > 1 THEN n ELSE 0
  /\ IF n > 1 THEN cpc' \in Batches ELSE cpc' = "idle"

StartBatch(n) ==
  /\ batch' = n
  /\ IF n = 0 THEN cpc' = "idle" ELSE cpc' \in Batches

LoadSize ==
  /\ Batches # {} /\ cpc = "idle"
  /\ cseen' = to
  /\ IF Overflow THEN StartBatch(Size(from, to)) ELSE cpc' = "size2" /\ UNCHANGED batch
  /\ UNCHANGED <<slots, from, to, producerVars, moved, pushed, removed>>

LoadSizeAgain ==
  /\ cpc = "size2"
  /\ StartBatch(TornSize(from, cseen, from, to))
  /\ UNCHANGED <<slots, from, to, producerVars, cseen, moved, pushed, removed>>

(* The next item of the batch is removed, content is what stays behind.    *)
Remove(content) ==
  /\ LET k == (Slot(from) + moved) % MaxSize
     IN /\ removed' = Append(removed, slots[k])
        /\ slots' = [slots EXCEPT ![k] = content]
  /\ moved' = moved + 1
  /\ cpc' = IF moved + 1 = batch THEN "advance" ELSE cpc
  /\ UNCHANGED <<from, to, producerVars, cseen, batch, pushed>>

(* take_front( buffer ) moves the items out and destroys none of them.     *)
TakeBatch == cpc = "take_n" /\ Remove(Left)

PopBatch == cpc = "pop_n" /\ Remove(Raw)

AdvanceFront ==
  /\ cpc = "advance"
  /\ from' = Advance(from, batch)
  /\ cpc' = "idle" /\ batch' = 0 /\ moved' = 0
  /\ UNCHANGED <<slots, to, producerVars, cseen, pushed, removed>>

Consume ==
  \/ PollEmpty \/ Take \/ Destroy
  \/ LoadSize \/ LoadSizeAgain \/ TakeBatch \/ PopBatch
  \/ AdvanceFront

-----------------------------------------------------------------------------
ProducerStep == (Interrupt = "consumer" => cpc = "idle") /\ Produce

ConsumerStep == (Interrupt = "producer" => ppc = "idle") /\ Consume

Next == ProducerStep \/ ConsumerStep

Spec == Init /\ [][Next]_vars

(* The consumer keeps polling: however often the producer interrupts it,   *)
(* it gets to its next step in the end, hence strong fairness.  An         *)
(* insertion that has started comes to an end; nothing makes one start.    *)
Fairness == SF_vars(ConsumerStep) /\ WF_vars(ProducerStep /\ ppc # "idle")

FairSpec == Spec /\ Fairness

-----------------------------------------------------------------------------
(* Properties.                                                             *)

(* Indices stay in the range of their strategy, slots hold items inserted  *)
(* so far, program counters are those above.                               *)
TypeOK ==
  /\ slots \in [Slots -> Nat \union {Left}]
  /\ from \in Indices /\ to \in Indices
  /\ ppc \in {"idle", "full", "full2", "construct", "advance"}
  /\ pseen \in Indices
  /\ cpc \in {"idle", "take", "destroy", "size2", "take_n", "pop_n", "advance"}
  /\ cseen \in Indices
  /\ batch \in Nat /\ moved \in Nat /\ pushed \in Nat
  /\ removed \in Seq(Nat)

(* Items are removed in the order of their insertion, none is lost, taken  *)
(* twice, or read before it was written.                                   *)
FifoOrder == \A i \in DOMAIN removed : removed[i] = i

InBatch == cpc \in {"take_n", "pop_n"}

(* The slot the consumer is working on.                                    *)
ConsumerSlot == (Slot(from) + (IF InBatch THEN moved ELSE 0)) % MaxSize

(* Producer and consumer are never inside the same slot: the answer of     *)
(* full() and empty() is out of date when it is used and still good.       *)
NoSlotRace ==
  ~ /\ ppc = "construct"
    /\ cpc \in {"take", "destroy", "take_n", "pop_n"}
    /\ Slot(to) = ConsumerSlot

(* An item is never constructed over one that is still to be removed or    *)
(* destroyed: "on removal, item is removed and than index is advanced"     *)
(* (:207).  What take_front( buffer ) left moved from in its slot is the   *)
(* one exception, and only where that is used.                             *)
ConstructInRaw ==
  ppc = "construct" =>
    \/ slots[Slot(to)] = Raw
    \/ "take_n" \in Batches /\ slots[Slot(to)] = Left

(* Insertion never passes the capacity, and a full buffer that was drained *)
(* in the meantime is reported full at worst.                              *)
NeverOverfull == Size(from, to) <= N /\ (ppc = "construct" => Size(from, to) < N)

(* size() promises the consumer no more items than there are, "is safe in  *)
(* SPSC scenario" (:204, :316, :340).                                      *)
SizeIsHonest == InBatch => batch <= Size(from, to)

(* Every item inserted is removed in the end.                              *)
EveryItemArrives ==
  \A i \in 1 .. MaxItems : (pushed >= i) ~> (Len(removed) >= i)

-----------------------------------------------------------------------------
(* The inductive invariant behind these properties, in its parts: the      *)
(* indices are counts of insertions and removals reduced to their range,   *)
(* and the window between them holds the items not yet removed.            *)

(* What the consumer's calls of size() need of their surroundings.         *)
SizeIsWhole == Batches # {} => Overflow \/ Interrupt = "consumer"

(* Items whose removal is complete: those before from_.                    *)
Gone == Len(removed) - moved

IndicesCount ==
  /\ moved <= Len(removed)
  /\ Gone <= pushed /\ pushed - Gone <= N
  /\ from = Gone % IndexSpan
  /\ to = pushed % IndexSpan

(* The producer's first load is out of date, and errs on the safe side.    *)
ProducerKnows ==
  /\ ppc = "full2" =>
       ~Overflow /\ \E b \in 0 .. Gone : pseen = b % IndexSpan /\ pushed - b <= N
  /\ ppc \in {"construct", "advance"} => pushed - Gone < N

ConsumerKnows ==
  /\ cpc \in {"idle", "size2"} => moved = 0 /\ batch = 0
  /\ cpc = "size2" => Batches # {} /\ ~Overflow /\ cseen = to
  /\ cpc = "take" => batch = 1 /\ moved = 0
  /\ cpc = "destroy" => batch = 1 /\ moved = 1
  /\ InBatch => cpc \in Batches /\ moved < batch
  /\ cpc = "advance" => moved = batch
  /\ batch <= pushed - Gone

(* The items that are in the storage, and no others: from the first one    *)
(* not destroyed to the last one constructed.  Only take_front( buffer )   *)
(* leaves moved-from objects between them.                                 *)
FirstHeld == IF cpc = "destroy" THEN Len(removed) ELSE Len(removed) + 1
LastHeld == IF ppc = "advance" THEN pushed + 1 ELSE pushed

SlotsHold ==
  /\ \A i \in FirstHeld .. LastHeld : slots[(i - 1) % MaxSize] = i
  /\ \A k \in Slots :
       slots[k] \in {Raw, Left} \/ \E i \in FirstHeld .. LastHeld : k = (i - 1) % MaxSize
  /\ "take_n" \notin Batches => \A k \in Slots : slots[k] # Left

Inv ==
  /\ TypeOK /\ FifoOrder
  /\ IndicesCount /\ ProducerKnows /\ ConsumerKnows /\ SlotsHold

=============================================================================
