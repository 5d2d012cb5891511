--------------------------- MODULE CircularIndex ---------------------------
(***************************************************************************)
(* The two index strategies of static_circular_buffer.  The spacer         *)
(* strategy keeps one slot of the storage unused, so that equal indices    *)
(* mean an empty buffer; the overflow strategy uses every slot and lets    *)
(* its unsigned indices run freely, which works because the capacity is a  *)
(* power of two.                                                           *)
(***************************************************************************)
EXTENDS Integers

CONSTANTS
  N,             (* The capacity of the buffer.                            *)
  Overflow,      (* TRUE for _overflow_strategy, FALSE for the spacer.     *)
  IndexModulus   (* 2^w, for the index type of w bits.                     *)

ASSUME CapacityAssumption == N \in Nat \ {0}

(* static_assert: N is less than the largest value of the index type.      *)
ASSUME WidthAssumption == IndexModulus \in Nat /\ N + 1 < IndexModulus

(* The overflow strategy is chosen for powers of two, of which the proofs  *)
(* need that the capacity divides the range of the indices.                *)
ASSUME StrategyAssumption ==
  /\ Overflow \in BOOLEAN
  /\ Overflow => \E k \in 1 .. IndexModulus : IndexModulus = k * N

(* Slots of the storage.                                                   *)
MaxSize == IF Overflow THEN N ELSE N + 1

Slots == 0 .. MaxSize - 1

(* Values the indices from_ and to_ range over.                            *)
IndexSpan == IF Overflow THEN IndexModulus ELSE MaxSize

Indices == 0 .. IndexSpan - 1

(* Wrong variant: an index that is not brought back into its range.        *)
AdvanceUnwrapped(index, n) == index + n

(* incr_front and incr_back.                                               *)
Advance(index, n) == (index + n) % IndexSpan

(* front_idx and back_idx.                                                 *)
Slot(index) == IF Overflow THEN index % MaxSize ELSE index

(* size(), of one consistent pair of indices.  Narrowing to the index type *)
(* is what makes the subtraction of the overflow strategy right.           *)
Narrow(x) == x % IndexModulus

Size(from, to) ==
  IF Overflow \/ to >= from THEN Narrow(to - from)
                            ELSE Narrow(to + (MaxSize - from))

IsEmpty(from, to) == from = to

IsFull(from, to) == Size(from, to) = N

(* Wrong variant: reduced by the capacity instead of the storage's size.   *)
LastSlotOfCapacity(to) == (to + N - 1) % N

(* last_idx.                                                               *)
LastSlot(to) == (to + MaxSize - 1) % MaxSize

=============================================================================
