------------------------------ MODULE Endpoint ------------------------------
(***************************************************************************)
(* protocol/endpoint.hpp: bytes are inserted as they arrive, in pieces the *)
(* client chooses, get_value() gives the next value, an error or the       *)
(* number of bytes to read before it can give one.  A payload is a         *)
(* sizeless_message, its value the bytes.                                  *)
(*                                                                         *)
(* The other end of the line sends packets, packets damaged behind their   *)
(* size, and single bytes of anything.  clean says that none of these      *)
(* bytes may be the begin of a prefix; sent has what should then come out, *)
(* held what should come out in any case.                                  *)
(*                                                                         *)
(* Nothing in the code compares the size in a message with the capacity of *)
(* a message or of the buffer.  Writing behind one of them is an overrun:  *)
(* what the program does from then on is undefined, the behaviour ends.    *)
(***************************************************************************)
EXTENDS Sequencer

CONSTANTS
  Checksum(_),  (* Def::get_checksum.                                      *)
  MaxStream     (* Bound on the number of bytes sent.                      *)

VARIABLES
  stream,   (* All bytes sent.                                             *)
  received, (* How many of them were inserted.                             *)
  buffer,   (* buffer_ of the sequencer.                                   *)
  request,  (* The number of bytes last asked for, 0 after an insertion.   *)
  results,  (* What get_value() returned other than numbers of bytes.      *)
  held,
  sent,
  clean,
  overrun   (* Something was written behind its storage.                   *)

vars == <<stream, received, buffer, request, results, held, sent, clean, overrun>>

Init ==
  /\ stream = <<>> /\ received = 0
  /\ held = <<>> /\ sent = <<>> /\ clean = TRUE
  /\ buffer = <<>> /\ request = 0 /\ results = <<>>
  /\ overrun = FALSE

Payload == BoundedSeq(Byte, MaxPayload)

Value(bytes) == [ok |-> TRUE, bytes |-> bytes]
ChecksumError == [ok |-> FALSE, bytes |-> <<>>]

-----------------------------------------------------------------------------
(* packet_handler.                                                         *)

(* sized_buffer: the payload behind the number of its bytes.               *)
SizedBuffer(payload) == <<Len(payload)>> \o payload

(* What a checksum is computed of.                                         *)
Area(payload) == Prefix \o SizedBuffer(payload)

(* A checksum is a byte and detects that one byte behind the size changed. *)
ASSUME ChecksumAssumption ==
  /\ MaxStream \in Nat
  /\ \A p \in Payload :
       /\ Checksum(Area(p)) \in Byte
       /\ \A i \in FixedSize + 1 .. Len(Area(p)), b \in Byte :
            Area(p)[i] # b => Checksum([Area(p) EXCEPT ![i] = b]) # Checksum(Area(p))

PayloadOf(message) == SubSeq(message, FixedSize + 1, FixedSize + message[FixedSize])

Serialized(payload) ==
  LET area == Area(payload)
  IN Append(area, Checksum(area))

(* Wrong variant: returns the value whatever the checksum.                 *)
ExtractUnchecked(message) == Value(PayloadOf(message))

Extract(message) ==
  IF Last(message) = Checksum(Front(message)) THEN Value(PayloadOf(message))
  ELSE ChecksumError

Extracted(messages) == [i \in DOMAIN messages |-> Extract(messages[i])]

-----------------------------------------------------------------------------
(* The other end of the line.                                              *)

Send(bytes) ==
  /\ Len(stream) + Len(bytes) <= MaxStream
  /\ stream' = stream \o bytes
  /\ held' = Extracted(Frames(stream'))
  /\ UNCHANGED <<received, buffer, request, results, overrun>>

SendPacket ==
  /\ clean
  /\ \E p \in Payload : Send(Serialized(p)) /\ sent' = Append(sent, Value(p))
  /\ UNCHANGED clean

SendDamaged ==
  /\ clean
  /\ \E p \in Payload, b \in Byte :
       LET packet == Serialized(p)
       IN \E i \in FixedSize + 1 .. Len(packet) :
            /\ packet[i] # b
            /\ Send([packet EXCEPT ![i] = b])
  /\ sent' = Append(sent, ChecksumError)
  /\ UNCHANGED clean

SendNoise ==
  \E b \in Byte :
    /\ Send(<<b>>)
    /\ clean' = (clean /\ b # Head(Prefix))
    /\ sent' = IF clean' THEN sent ELSE <<>>

-----------------------------------------------------------------------------
(* The client of the endpoint.                                             *)

(* insert(), which trusts the client to leave room.                        *)
Insert(n) ==
  /\ received + n <= Len(stream)
  /\ Len(buffer) + n <= BufferCapacity
  /\ buffer' = buffer \o SubSeq(stream, received + 1, received + n)
  /\ received' = received + n
  /\ request' = 0
  /\ UNCHANGED <<stream, results, held, sent, clean, overrun>>

(* A client that waits for as many bytes as it was told to read.           *)
ReadRequested == request > 0 /\ Insert(request)

(* It inserts them also when the buffer has no room for them.              *)
ReadTooMuch ==
  /\ received + request <= Len(stream)
  /\ Len(buffer) + request > BufferCapacity
  /\ overrun' = TRUE
  /\ UNCHANGED <<stream, received, buffer, request, results, held, sent, clean>>

(* A client that inserts what has arrived.                                 *)
ReceiveSome == \E n \in 1 .. MaxStream : Insert(n)

(* get_value(), with the get_message() it calls: the message that is there *)
(* is copied into a message object, whatever its size.                     *)
GetValue ==
  \E bytes \in {Aligned(buffer)} :
    /\ request' = Request(bytes)
    /\ \/ /\ Request(bytes) > 0
          /\ buffer' = bytes
          /\ UNCHANGED <<results, overrun>>
       \/ /\ Request(bytes) = 0 /\ MessageSize(bytes) <= MessageCapacity
          /\ results' = Append(results, Extract(SubSeq(bytes, 1, MessageSize(bytes))))
          /\ buffer' = After(bytes, MessageSize(bytes))
          /\ UNCHANGED overrun
       \/ /\ Request(bytes) = 0 /\ MessageSize(bytes) > MessageCapacity
          /\ buffer' = bytes
          /\ overrun' = TRUE
          /\ UNCHANGED results
    /\ UNCHANGED <<stream, received, held, sent, clean>>

(* The program; what it does after an overrun is not defined.              *)
Next ==
  /\ ~overrun
  /\ \/ SendPacket \/ SendDamaged \/ SendNoise
     \/ ReadRequested \/ ReadTooMuch \/ ReceiveSome \/ GetValue

Spec == Init /\ [][Next]_vars

(* A client that was asked for bytes reads them once they are there, and   *)
(* calls get_value() after it inserted something or got something.         *)
ClientReads ==
  /\ WF_vars(~overrun /\ (ReadRequested \/ ReadTooMuch))
  /\ WF_vars(~overrun /\ GetValue)

FairSpec == Spec /\ ClientReads

-----------------------------------------------------------------------------
(* Properties.                                                             *)

(* The buffer holds bytes, no more than fit it.  A request asks for no     *)
(* more bytes than complete the longest message, as long as the size that  *)
(* arrived is one of a payload; no payload that is returned is too long.   *)
TypeOK ==
  /\ stream \in Seq(Byte) /\ received \in 0 .. Len(stream)
  /\ buffer \in Seq(Byte) /\ Len(buffer) <= BufferCapacity
  /\ request \in Nat
  /\ request > 0 /\ ~Oversized(buffer) => Len(buffer) + request <= MessageCapacity
  /\ results \in Seq([ok : BOOLEAN, bytes : Payload])
  /\ sent \in Seq([ok : BOOLEAN, bytes : Payload])
  /\ clean \in BOOLEAN /\ overrun \in BOOLEAN

(* The sequencer checks neither the room in its buffer nor the size of the *)
(* message it copies.  It takes a prefix followed by a size above that of  *)
(* the longest payload to make it, or a client that inserts what it was    *)
(* asked for, write behind its storage, whatever was received before and   *)
(* in whatever pieces.                                                     *)
OnlyOversizeOverruns == overrun => IsPrefix(Prefix, buffer) /\ Oversized(buffer)

(* Whatever arrives and however it is inserted, the sequencer stays within *)
(* its storage and its requests within a message, as long as the size that *)
(* arrived is one of a payload.                                            *)
StorageHolds == TypeOK /\ OnlyOversizeOverruns

(* What was returned, and what the buffer and the bytes not yet inserted   *)
(* hold, is what the stream holds, in whatever pieces it was inserted and  *)
(* whenever get_value() was called: bytes are dropped only if no message   *)
(* begins with them.                                                       *)
StreamIsFramed ==
  results \o Extracted(Frames(buffer \o After(stream, received))) = held

(* With noise that does not begin a prefix, the values sent come out in    *)
(* order, none is lost or made up, and a packet with damaged payload or    *)
(* checksum is reported and takes no other with it.                        *)
ValuesArriveInOrder == clean => IsPrefix(results, sent)

(* No fewer bytes than asked for could complete a message: who waits for   *)
(* so many never waits longer than the message takes to arrive.            *)
NeverAsksTooMuch ==
  \A n \in 0 .. request - 1 : \A more \in [1 .. n -> Byte] :
    Frames(buffer \o more) = <<>>

(* Once nothing more is sent, every message of the stream is returned,     *)
(* also to a client that reads only what it was asked to read: nothing but *)
(* an overrun keeps one back.                                              *)
EveryMessageArrives == <>[](results = held \/ overrun)

=============================================================================
