------------------------------ MODULE Registers -------------------------------
(***************************************************************************)
(* A register map of a device and the mirror of it that another program    *)
(* keeps: the device selects registers by key to messages, the other one   *)
(* inserts them.  Between them messages are lost, cut, duplicated and      *)
(* reordered; their contents are protected by the packets they travel in.  *)
(***************************************************************************)
EXTENDS ConversionResult, Naturals, Sequences, FiniteSetsExt

CONSTANTS
  Regs,                  (* The registers, by key: their definitions,      *)
  EncodeValue(_, _),     (* the bytes of a value of a register, and what   *)
  DecodeValue(_, _, _),  (* they are taken for, into an object in use.     *)
  UnknownKey,            (* A key that is not in the map.                  *)
  MaxSets,               (* Bound: changes of registers by the device,     *)
  MaxFlight              (* and messages on the way.                       *)

VARIABLES
  device, mirror,  (* The values of the registers of the two maps,         *)
  flight,          (* the messages on the way with their keys,             *)
  answer,          (* what the latest insert returned,                     *)
  held             (* what each register of the device has held so far.    *)

registerVars == <<device, mirror, flight, answer, held>>

(* Evaluated once.                                                         *)
Entries == Regs
Keys == DOMAIN Entries
ContainsKey(k) == k \in Keys
MaxValueSize == Max({Entries[k].max_size : k \in Keys})

(* Converters agree with the traits of their definitions, return what was  *)
(* given to them, and see when a message is cut.                           *)
ASSUME RegisterAssumption ==
  /\ UnknownKey \notin Keys
  /\ \A k \in Keys :
       /\ Entries[k].min_size \in Nat /\ Entries[k].max_size \in Nat
       /\ Entries[k].init \in Entries[k].type
       /\ \A v \in Entries[k].type :
            LET b == EncodeValue(k, v)
            IN  /\ b \in Seq(Nat) /\ Len(b) \in Entries[k].min_size .. Entries[k].max_size
                /\ DecodeValue(k, b, Entries[k].init) = Good(Len(b), v)
                /\ \A n \in Entries[k].min_size .. Len(b) - 1 :
                     HasError(DecodeValue(k, SubSeq(b, 1, n), Entries[k].init))

Initial == [k \in Keys |-> Entries[k].init]

(* register_handler: serialize(), and select() of any key.                 *)
SerializeRegister(k, v) == EncodeValue(k, v)
Selected(k) == IF ContainsKey(k) THEN SerializeRegister(k, device[k]) ELSE <<>>

(* At most max_size bytes are looked at, and no fewer than min_size.       *)
ExtractRegister(k, b) ==
  LET seen == SubSeq(b, 1, Min({Len(b), Entries[k].max_size}))
  IN  IF Len(seen) < Entries[k].min_size THEN Bad(0, "size", Entries[k].init)
      ELSE DecodeValue(k, seen, Entries[k].init)

(* Wrong variant: deserializes into the register itself.                   *)
InsertedInPlace(k, b) ==
  LET r == DecodeValue(k, b, mirror[k])
  IN  [answer |-> r.err, map |-> [mirror EXCEPT ![k] = r.val]]

(* The register is changed only without an error.                          *)
Inserted(k, b) ==
  LET r == ExtractRegister(k, b)
  IN  IF HasError(r) THEN [answer |-> r.err, map |-> mirror]
      ELSE [answer |-> "none", map |-> [mirror EXCEPT ![k] = r.val]]

-----------------------------------------------------------------------------
RegisterInit ==
  /\ device = Initial
  /\ mirror = Initial
  /\ flight = {}
  /\ answer = "none"
  /\ held = [k \in Keys |-> {Entries[k].init}]

(* setup_register() and set_val().                                         *)
SetVal(k, v) ==
  /\ FoldSet(LAMBDA j, n : n + Cardinality(held[j]) - 1, 0, Keys) < MaxSets
  /\ device' = [device EXCEPT ![k] = v]
  /\ held' = [held EXCEPT ![k] = @ \cup {v}]
  /\ UNCHANGED <<mirror, flight, answer>>

Select(k) ==
  /\ Cardinality(flight) < MaxFlight
  /\ flight' = flight \cup {[key |-> k, bytes |-> Selected(k)]}
  /\ UNCHANGED <<device, mirror, answer, held>>

LoseMessage(m) ==
  /\ flight' = flight \ {m}
  /\ UNCHANGED <<device, mirror, answer, held>>

CutMessage(m, n) ==
  /\ n < Len(m.bytes)
  /\ flight' = (flight \ {m}) \cup {[m EXCEPT !.bytes = SubSeq(@, 1, n)]}
  /\ UNCHANGED <<device, mirror, answer, held>>

(* A message that stays on the way arrives again.                          *)
Insert(m, stays) ==
  /\ IF ContainsKey(m.key)
     THEN /\ mirror' = Inserted(m.key, m.bytes).map
          /\ answer' = Inserted(m.key, m.bytes).answer
     ELSE /\ mirror' = mirror
          /\ answer' = "none"
  /\ flight' = IF stays THEN flight ELSE flight \ {m}
  /\ UNCHANGED <<device, held>>

RegisterNext ==
  \/ \E k \in Keys : \E v \in Entries[k].type : SetVal(k, v)
  \/ \E k \in Keys \cup {UnknownKey} : Select(k)
  \/ \E m \in flight :
       \/ LoseMessage(m)
       \/ \E n \in 0 .. MaxValueSize : CutMessage(m, n)
       \/ \E stays \in BOOLEAN : Insert(m, stays)

RegisterSpec == RegisterInit /\ [][RegisterNext]_registerVars

-----------------------------------------------------------------------------
(* Both maps hold values of the types of their registers, and every        *)
(* message fits the message_type of the map.                               *)
RegisterTypeOK ==
  /\ \A k \in Keys : device[k] \in Entries[k].type /\ mirror[k] \in Entries[k].type
  /\ \A m \in flight : m.key \in Keys \cup {UnknownKey} /\ Len(m.bytes) <= MaxValueSize
  /\ answer \in Marks \cup {"none"}
  /\ \A k \in Keys : device[k] \in held[k]

(* Whatever is lost, cut, duplicated or reordered, a register of the       *)
(* mirror has a value that register of the device has had, not a part of   *)
(* one and not one of another register.                                    *)
MirrorFollows == \A k \in Keys : mirror[k] \in held[k]

(* An insert that returns an error has changed no register.                *)
ErrorsChangeNothing == answer' # "none" => mirror' = mirror

(* An insert of a message into the mirror that returns an error changes no *)
(* register, and what the others leave in it the device has had.           *)
RegistersFollow == [][MirrorFollows' /\ ErrorsChangeNothing]_registerVars

=============================================================================
