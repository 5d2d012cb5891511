---------------------------------- MODULE Rpc ----------------------------------
(***************************************************************************)
(* The RPC library: a controller serializes the request of a call and      *)
(* hands it to a callback, which brings it to the reactor and comes back   *)
(* with a reply; the reactor runs the handler of the call.  The transport  *)
(* behind the callback loses, cuts and repeats requests and comes back     *)
(* with no reply, with a late one, or with that to another call.           *)
(***************************************************************************)
EXTENDS ConversionResult, Naturals, Sequences, Functions

CONSTANTS
  Calls,             (* The calls: id, request, reply and arguments.       *)
  Result(_, _),      (* What the handler of a call returns for arguments.  *)
  EncodeRequest(_),  (* request_handler: the bytes of a request,           *)
  DecodeRequest(_),  (* and what bytes are taken for.                      *)
  EncodeReply(_),    (* reply_handler: the same for replies.               *)
  DecodeReply(_),
  CutsTags,          (* May a request be cut in front of its arguments?    *)
  MaxCalls,          (* Bound: calls made.                                 *)
  Nothing

VARIABLES
  pending,   (* The call the controller waits in, its arguments,           *)
  requests,  (* the requests and                                           *)
  replies,   (* replies on the way,                                        *)
  outcome,   (* what the latest call returned to the program,              *)
  asked,     (* every call and its arguments so far,                       *)
  ran,       (* those the reactor has run,                                 *)
  quiet      (* and if nothing was on the way when it started.             *)

rpcVars == <<pending, requests, replies, outcome, asked, ran, quiet>>

(* Evaluated once.                                                         *)
Procedures == Calls
CallIds == DOMAIN Procedures

(* The marks are strings; what they say is of no interest here.            *)
MarkOf(err) == CASE err = "size" -> <<1, 0>> [] err = "bounds" -> <<2, 0>> [] OTHER -> <<3, 0>>

GetCallIndex(id) == CHOOSE i \in CallIds : Procedures[i].id = id

(* controller: make_call_msg() and on_reply_msg().                         *)
CallMessage(i, args) == EncodeRequest(<<i - 1, args>>)

(* Wrong variant: takes the reply for that to the call it waits in.        *)
OnReplyOfAnyCall(i, b) ==
  LET r == DecodeReply(b)
  IN  IF HasError(r) THEN [kind |-> "error_record", is |-> r.err]
      ELSE IF r.val[1] = 1 THEN [kind |-> "reactor_error", is |-> r.val[2][1]]
      ELSE [kind |-> "value", is |-> r.val[2][2]]

OnReply(i, b) ==
  LET r == DecodeReply(b)
  IN  IF HasError(r) THEN [kind |-> "error_record", is |-> r.err]
      ELSE IF r.val[1] = 1 THEN [kind |-> "reactor_error", is |-> r.val[2][1]]
      ELSE IF r.val[2][1] # i - 1 THEN [kind |-> "reply_error", is |-> r.val[2][1]]
      ELSE [kind |-> "value", is |-> r.val[2][2]]

(* reactor: on_message() runs the handler of class_wrapper or bind_wrapper *)
(* with the arguments of the request.                                      *)
Handle(i, args) == Result(i, args)

ReplyTo(r) ==
  IF HasError(r)
  THEN EncodeReply(<<1, <<[error_mark |-> MarkOf(r.err), offset |-> r.used]>>>>)
  ELSE EncodeReply(<<0, <<r.val[1], Handle(r.val[1] + 1, r.val[2])>>>>)

(* Ids are those of one call, requests are returned as they were given,    *)
(* and one that is cut behind its tag is seen to be.                       *)
ASSUME RequestAssumption ==
  /\ CallIds \subseteq Nat
  /\ \A i, j \in CallIds : Procedures[i].id = Procedures[j].id => i = j
  /\ \A i \in CallIds : \A args \in Procedures[i].args :
       LET b == CallMessage(i, args)
       IN  /\ b \in Seq(Nat) /\ b # <<>>
           /\ DecodeRequest(b) = Good(Len(b), <<i - 1, args>>)
           /\ \A n \in 1 .. Len(b) - 1 : HasError(DecodeRequest(SubSeq(b, 1, n)))

(* Replies are returned as they were given; the record of an error may be  *)
(* none that can be read, but is no value, and neither is an empty reply.  *)
ASSUME ReplyAssumption ==
  /\ HasError(DecodeReply(<<>>))
  /\ \A i \in CallIds : \A args \in Procedures[i].args :
       LET b     == CallMessage(i, args)
           reply == EncodeReply(<<0, <<i - 1, Result(i, args)>>>>)
       IN  /\ DecodeReply(reply) = Good(Len(reply), <<0, <<i - 1, Result(i, args)>>>>)
           /\ \A n \in 1 .. Len(b) - 1 :
                LET r == DecodeReply(ReplyTo(DecodeRequest(SubSeq(b, 1, n))))
                IN  HasError(r) \/ r.val[1] = 1

-----------------------------------------------------------------------------
RpcInit ==
  /\ pending = Nothing
  /\ requests = {} /\ replies = {}
  /\ outcome = Nothing
  /\ asked = <<>>
  /\ ran = {}
  /\ quiet = FALSE

(* call() up to the callback.                                              *)
Call(id, args) ==
  LET i == GetCallIndex(id)
  IN  /\ pending = Nothing /\ Len(asked) < MaxCalls
      /\ pending' = <<i, args>>
      /\ outcome' = Nothing
      /\ asked' = Append(asked, <<i, args>>)
      /\ quiet' = (requests = {} /\ replies = {})
      /\ requests' = requests \cup {CallMessage(i, args)}
      /\ UNCHANGED <<replies, ran>>

LoseRequest(b) ==
  /\ requests' = requests \ {b}
  /\ UNCHANGED <<pending, replies, outcome, asked, ran, quiet>>

CutRequest(b, n) ==
  /\ n < Len(b) /\ (CutsTags \/ n > 0)
  /\ requests' = (requests \ {b}) \cup {SubSeq(b, 1, n)}
  /\ UNCHANGED <<pending, replies, outcome, asked, ran, quiet>>

(* on_message(); a request that stays on the way arrives again.            *)
OnMessage(b, stays) ==
  LET r == DecodeRequest(b)
  IN  /\ replies' = replies \cup {ReplyTo(r)}
      /\ ran' = IF HasError(r) THEN ran ELSE ran \cup {<<r.val[1] + 1, r.val[2]>>}
      /\ requests' = IF stays THEN requests ELSE requests \ {b}
      /\ UNCHANGED <<pending, outcome, asked, quiet>>

(* call() from the callback on, which returns any reply that has come, or  *)
(* an empty message when it has waited long enough.                        *)
Return(b) ==
  /\ pending # Nothing
  /\ outcome' = [to |-> pending, result |-> OnReply(pending[1], b)]
  /\ pending' = Nothing
  /\ replies' = replies \ {b}
  /\ UNCHANGED <<requests, asked, ran, quiet>>

RpcNext ==
  \/ \E i \in CallIds : \E args \in Procedures[i].args : Call(Procedures[i].id, args)
  \/ \E b \in requests :
       \/ LoseRequest(b)
       \/ \E n \in 0 .. Len(b) : CutRequest(b, n)
       \/ \E stays \in BOOLEAN : OnMessage(b, stays)
  \/ \E b \in replies \cup {<<>>} : Return(b)

RpcSpec == RpcInit /\ [][RpcNext]_rpcVars

-----------------------------------------------------------------------------
(* Calls are those of the reactor, and end in one of four ways.            *)
RpcTypeOK ==
  /\ Range(asked) \subseteq {<<i, a>> : i \in CallIds, a \in UNION {Procedures[i].args : i \in CallIds}}
  /\ outcome # Nothing => outcome.result.kind \in {"value", "error_record", "reactor_error", "reply_error"}
  /\ quiet \in BOOLEAN

(* The reactor runs only what the controller has asked for: a request that *)
(* cannot be deserialized runs nothing.                                    *)
OnlyAskedRuns == ran \subseteq Range(asked)

(* A value a call returns was computed by the handler of that call, from   *)
(* arguments the call was made with.  When no message was on the way as    *)
(* the call started, they are its own, and no reply to another call comes. *)
AnswersMatch ==
  outcome # Nothing =>
    LET result == outcome.result
        own    == outcome.to
    IN  /\ result.kind = "value" =>
             \E c \in ran \cap Range(asked) : c[1] = own[1] /\ result.is = Result(c[1], c[2])
        /\ quiet => result.kind # "reply_error"
        /\ quiet /\ result.kind = "value" => result.is = Result(own[1], own[2])

(* Both ends of a call: nothing runs and nothing is returned that was not  *)
(* asked for.                                                              *)
AnswersAreOfTheCall == OnlyAskedRuns /\ AnswersMatch

=============================================================================
