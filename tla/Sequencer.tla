----------------------------- MODULE Sequencer -----------------------------
(***************************************************************************)
(* protocol/sequencer.hpp for the definition that protocol/packet.hpp      *)
(* gives it: messages of a prefix, one byte with the size of the payload,  *)
(* the payload and one byte of checksum.  The buffer of received bytes is  *)
(* a sequence; StaticCircularBuffer says why a static_circular_buffer may  *)
(* be taken for one, except that a full buffer of a power-of-two capacity  *)
(* iterates as an empty one (IteratesAsEmpty).                             *)
(***************************************************************************)
EXTENDS Integers, Sequences, SequencesExt

CONSTANTS
  Byte,       (* Bytes, as far as the properties tell them apart.          *)
  Prefix,     (* Def::prefix, a sequence of bytes.                         *)
  MaxPayload  (* The largest size of a payload.                            *)

(* A byte that is no size of a payload may arrive in the place of one.     *)
ASSUME ByteAssumption == MaxPayload \in Nat /\ 0 .. MaxPayload \subseteq Byte /\ Byte \subseteq Nat
ASSUME PrefixAssumption == Prefix \in Seq(Byte) /\ Prefix # <<>>

FixedSize == Len(Prefix) + 1
ChecksumSize == 1
MessageCapacity == FixedSize + MaxPayload + ChecksumSize
BufferCapacity == 2 * MessageCapacity

(* Wrong variant: the size is taken for that of what follows the checksum. *)
MessageSizeTwice(bytes) == bytes[FixedSize] + FixedSize + FixedSize + ChecksumSize

(* get_size: the size of the message whose first bytes are these.          *)
MessageSize(bytes) == bytes[FixedSize] + FixedSize + ChecksumSize

(* The message these bytes begin is longer than any the definition allows, *)
(* which get_message does not look at.                                     *)
Oversized(bytes) == Len(bytes) >= FixedSize /\ bytes[FixedSize] > MaxPayload

PowerOfTwo(n) == \E k \in 0 .. n : 2^k = n

(* begin() and end() of the buffer are equal.                              *)
IteratesAsEmpty(buffer) ==
  \/ buffer = <<>>
  \/ PowerOfTwo(BufferCapacity) /\ Len(buffer) = BufferCapacity

After(bytes, k) == SubSeq(bytes, k + 1, Len(bytes))

(* Wrong variant: does not keep an incomplete prefix.                      *)
MayStartComplete(buffer, k) ==
  /\ k = 0 => buffer = <<>> \/ ~IteratesAsEmpty(buffer)
  /\ k = Len(buffer) \/ IsPrefix(Prefix, After(buffer, k))

(* The bytes from the k-th on begin with the prefix or are the beginning   *)
(* of it, as std::mismatch sees it; a full buffer that iterates as an      *)
(* empty one has no beginning at all.                                      *)
MayStart(buffer, k) ==
  /\ k = 0 => buffer = <<>> \/ ~IteratesAsEmpty(buffer)
  /\ \/ IsPrefix(Prefix, After(buffer, k))
     \/ IsPrefix(After(buffer, k), Prefix)

(* The loop of get_message, which drops one byte at a time.                *)
Aligned(buffer) ==
  After(buffer, CHOOSE k \in 0 .. Len(buffer) :
                  MayStart(buffer, k) /\ \A j \in 0 .. k - 1 : ~MayStart(buffer, j))

(* Wrong variant: takes the bytes that are there for missing.              *)
RequestWhole(bytes) ==
  CASE Len(bytes) < FixedSize -> FixedSize
    [] Len(bytes) >= FixedSize /\ Len(bytes) < MessageSize(bytes) -> MessageSize(bytes)
    [] OTHER -> 0

(* The sequencer_read_request for aligned bytes; 0 if a message is there.  *)
Request(bytes) ==
  CASE Len(bytes) < FixedSize -> FixedSize - Len(bytes)
    [] Len(bytes) >= FixedSize /\ Len(bytes) < MessageSize(bytes) ->
         MessageSize(bytes) - Len(bytes)
    [] OTHER -> 0

-----------------------------------------------------------------------------
Complete(bytes) == Len(bytes) >= FixedSize /\ Len(bytes) >= MessageSize(bytes)

(* What a stream of bytes is meant to hold, without reference to a buffer: *)
(* the first prefix begins a message, what follows the message is again    *)
(* such a stream.  from[n] is what the last n bytes hold.                  *)
Frames(stream) ==
  LET from[n \in 0 .. Len(stream)] ==
        LET rest == After(stream, Len(stream) - n)
        IN  IF n = 0 THEN <<>>
            ELSE IF ~IsPrefix(Prefix, rest) THEN from[n - 1]
            ELSE IF ~Complete(rest) THEN <<>>
            ELSE <<SubSeq(rest, 1, MessageSize(rest))>> \o from[n - MessageSize(rest)]
  IN  from[Len(stream)]
=============================================================================
