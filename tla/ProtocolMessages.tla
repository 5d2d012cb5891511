--------------------------- MODULE ProtocolMessages ---------------------------
(***************************************************************************)
(* The messages of register maps and of the RPC library, as definitions    *)
(* of the protocol library: what Registers and Rpc leave to converters.    *)
(***************************************************************************)
EXTENDS Converters, Registers, Rpc

CONSTANT MapOrder    (* The endianess of the map.                          *)

RegisterBytes(k, v) == Encode(Entries[k], v, MapOrder)
RegisterIn(k, b, old) == Decode(Entries[k], b, old, MapOrder)

-----------------------------------------------------------------------------
IdTag(i) == Tag(Base(1), Procedures[i].id)
Tags == [i \in CallIds |-> IdTag(i)]

RequestGroup == TagGroup(Tags, [i \in CallIds |-> Wrapper(Procedures[i].request)])
ReplyGroup == TagGroup(Tags, [i \in CallIds |-> Wrapper(Procedures[i].reply)])

(* A reactor_error has an error_record as its only member.                 *)
ReactorError == Decomposed(Tuple(<<ErrorRecord(StringBuffer(2), Base(1))>>))
OuterReply == Variant(<<ReplyGroup, ReactorError>>)

RequestBytes(request) == Encode(RequestGroup, request, "big")
RequestIn(b) == Decode(RequestGroup, b, RequestGroup.init, "big")
ReplyBytes(reply) == Encode(OuterReply, reply, "big")
ReplyIn(b) == Decode(OuterReply, b, OuterReply.init, "big")

(* Every message fits its message type.                                    *)
MessagesFit ==
  /\ \A b \in requests : Len(b) <= RequestGroup.max_size
  /\ \A b \in replies : Len(b) \in OuterReply.min_size .. OuterReply.max_size

=============================================================================
