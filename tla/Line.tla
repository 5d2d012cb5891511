--------------------------------- MODULE Line ---------------------------------
(***************************************************************************)
(* A sender and a receiver of one definition and a line between them that  *)
(* cuts, extends or damages a message.  The receiver deserializes every    *)
(* message into the same object.                                           *)
(***************************************************************************)
EXTENDS Converters

CONSTANTS
  Definitions,   (* The definitions by name,                               *)
  Loose,         (* those a cut message of which may still be one,         *)
  Unchecked,     (* and those that read before they look at the size.      *)
  NoMessage

VARIABLES
  name, order,   (* The definition and the endianess of the two,           *)
  sent,          (* the value of the message on the line,                  *)
  wire,          (* its bytes,                                             *)
  intact,        (* FALSE once the line has changed them,                  *)
  object         (* the receiver's object.                                 *)

lineVars == <<name, order, sent, wire, intact, object>>

(* Evaluated once.                                                         *)
Table == Definitions
Definition == Table[name]

(* handler: serialize(), and extract() to a fresh value.                   *)
Serialize(d, v, e) == Encode(d, v, e)
Extract(d, b, e) == Decode(d, b, d.init, e)

LineInit ==
  /\ name \in DOMAIN Definitions
  /\ order \in {"big", "little"}
  /\ sent = Definition.init
  /\ wire = NoMessage
  /\ intact = FALSE
  /\ object = Definition.init

Send(v) ==
  /\ wire = NoMessage
  /\ sent' = v
  /\ wire' = Serialize(Definition, v, order)
  /\ intact' = TRUE
  /\ UNCHANGED <<name, order, object>>

(* The value of a message that is gone or damaged is of no interest.       *)
Change(b, v) ==
  /\ wire' = b
  /\ sent' = v
  /\ intact' = FALSE
  /\ UNCHANGED <<name, order, object>>

Lose == wire # NoMessage /\ Change(NoMessage, Definition.init)

Cut(n) == intact /\ n < Len(wire) /\ Change(SubSeq(wire, 1, n), sent)

Extend(x) == intact /\ Change(Append(wire, x), sent)

Damage(i, x) ==
  /\ intact /\ i \in DOMAIN wire /\ wire[i] # x
  /\ Change([wire EXCEPT ![i] = x], Definition.init)

(* What is undefined is not received.                                      *)
Receive ==
  /\ wire # NoMessage
  /\ LET r == Decode(Definition, wire, object, order)
     IN  r.err # "undefined" /\ object' = r.val
  /\ wire' = NoMessage
  /\ intact' = FALSE
  /\ sent' = Definition.init
  /\ UNCHANGED <<name, order>>

LineNext ==
  \/ \E v \in Definition.type : Send(v)
  \/ Lose
  \/ \E n \in 0 .. Definition.max_size : Cut(n)
  \/ \E x \in Byte : Extend(x) \/ \E i \in 1 .. Definition.max_size : Damage(i, x)
  \/ Receive

-----------------------------------------------------------------------------
OnLine == wire # NoMessage

(* Whatever arrives, the object keeps a value of its type: no number out   *)
(* of its bounds, no container over its capacity.                          *)
LineTypeOK ==
  /\ name \in DOMAIN Definitions /\ order \in {"big", "little"}
  /\ wire \in Seq(Byte) \cup {NoMessage}
  /\ intact \in BOOLEAN
  /\ sent \in Definition.type
  /\ object \in Definition.type

(* The traits bound every message: the assertions of serialize_at that     *)
(* its size_type was made.                                                 *)
SizesAreHonest ==
  intact => Len(wire) \in Definition.min_size .. Definition.max_size

(* What a program sees of a value: of a string, its text.                  *)
Visible(v) ==
  CASE Definition.kind = "string" -> TextOf(v)
    [] Definition.kind = "error_record" -> [v EXCEPT !.error_mark = TextOf(@)]
    [] OTHER -> v

(* An intact message is extracted as what was sent and used up, but for    *)
(* the mark of an error_record, which is not counted; what follows it on   *)
(* the line does not matter to a definition that is not Loose.             *)
RoundTrip ==
  OnLine =>
    LET m == Serialize(Definition, sent, order)
        r == Extract(Definition, wire, order)
    IN  (wire = m \/ (IsPrefix(m, wire) /\ name \notin Loose)) =>
          /\ ~HasError(r) /\ Visible(r.val) = Visible(sent)
          /\ r.used = Len(m) \/ Definition.kind = "error_record"

(* Deserializing an intact message into the object in use gives what was   *)
(* sent, unless a vector or an optional of it had more in it, or the array *)
(* of a string anything but zeros behind the text: those parts are not     *)
(* reset, and what a damaged message left there behind a zero shows again. *)
Longer(chars, text) == \E i \in DOMAIN chars : i > Len(text) /\ chars[i] # 0

HeldMore ==
  CASE Definition.kind \in {"vector", "optional"} -> Len(object) > Len(sent)
    [] Definition.kind = "string" -> Longer(object, TextOf(sent))
    [] Definition.kind = "error_record" -> Longer(object.error_mark, TextOf(sent.error_mark))
    [] OTHER -> FALSE

ReuseIsHarmless ==
  intact /\ ~HeldMore => Visible(Decode(Definition, wire, object, order).val) = Visible(sent)

(* No bytes on the line make a converter read or use more of them than     *)
(* there are.                                                              *)
ReadsWithin ==
  OnLine =>
    LET r == Extract(Definition, wire, order)
    IN  r.used <= Len(wire) /\ (name \notin Unchecked => r.err # "undefined")

(* A cut message is not taken for another one.                             *)
CutIsNoticed ==
  OnLine /\ name \notin Loose =>
    (IsStrictPrefix(wire, Serialize(Definition, sent, order)) => HasError(Extract(Definition, wire, order)))

(* What is extracted from any bytes is extracted again when it is sent on. *)
ExtractedCanBeSent ==
  OnLine =>
    LET r == Extract(Definition, wire, order)
    IN  ~HasError(r) => Visible(Extract(Definition, Serialize(Definition, r.val, order), order).val) = Visible(r.val)

(* What is sent is what is received: within its traits, also into an       *)
(* object in use, and again when it is sent on.                            *)
ConvertersAgree == SizesAreHonest /\ RoundTrip /\ ReuseIsHarmless /\ ExtractedCanBeSent

(* Whatever the line leaves of a message, a converter stays inside of it   *)
(* and knows that it is not whole.                                         *)
CutsAreNoticed == ReadsWithin /\ CutIsNoticed

=============================================================================
