----------------------------- MODULE MCEndpoint -----------------------------
(* Small instances of Endpoint for TLC.                                    *)
EXTENDS Endpoint

(* A sum of the places of the bytes among all of them, which detects the   *)
(* change of one byte.                                                     *)
Place(b) == Cardinality({a \in Byte : a < b})
SumOfBytes(bytes) ==
  LET sum == FoldLeft(LAMBDA a, b : a + Place(b), 0, bytes)
  IN CHOOSE b \in Byte : Place(b) = sum % Cardinality(Byte)

(* A prefix that may begin again in the middle of a failed match.          *)
TwoBytePrefix == <<1, 0>>

SingleBytePrefix == <<1>>

(* Bound on streams: a byte that is no size of a payload arrives up to     *)
(* where it is the size behind an empty message, and only zeros behind it. *)
MaxPlace == FixedSize + ChecksumSize + FixedSize

BoundedOversize ==
  \A i \in DOMAIN stream :
    stream[i] > MaxPayload => i <= MaxPlace /\ \A j \in i + 1 .. Len(stream) : stream[j] = 0

MCNext == Next /\ BoundedOversize'

MCSpec ==
  /\ Init /\ [][MCNext]_vars
  /\ ClientReads

=============================================================================
