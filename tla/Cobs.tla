--------------------------------- MODULE Cobs ---------------------------------
(***************************************************************************)
(* COBS: an encoder that is given one byte after the other and writes      *)
(* blocks of no zero into its target, each behind a code that says how     *)
(* long it is; and the two decoders of what it committed so far.  A block  *)
(* with the code Full (255 in the code) is followed by no zero.            *)
(* Positions of the target are counted from 0, those of a frame from 1.    *)
(***************************************************************************)
EXTENDS Naturals, Sequences

CONSTANTS
  Full,   (* The largest code.                                             *)
  Data,   (* The bytes to encode,                                          *)
  Room    (* and the size of the target.                                   *)

ASSUME CobsAssumption ==
  Full \in Nat /\ Full > 1 /\ Room \in Nat /\ Room > 1 /\ Data \subseteq 0 .. Full

VARIABLES
  fed,       (* The bytes inserted so far.                                 *)
  encoder,   (* target_, last_p_, p_ and count_,                           *)
  accepted   (* and what the latest insert() returned.                     *)

cobsVars == <<fed, encoder, accepted>>

Target == 0 .. Room - 1

(* insert(): the byte or a code for the zero, then the code of a full      *)
(* block unless there is no place for the next one.                        *)
WithByte(e, b) ==
  LET put  == [e EXCEPT !.target[e.p] = b, !.p = @ + 1, !.count = @ + 1]
      code == [e EXCEPT !.target[e.last] = e.count, !.p = @ + 1, !.count = 1, !.last = e.p]
      next == IF b # 0 THEN put ELSE code
  IN  IF next.p # Room /\ next.count = Full
      THEN [next EXCEPT !.target[next.last] = Full, !.count = 1, !.last = next.p, !.p = @ + 1]
      ELSE next

CobsInit ==
  /\ fed = <<>>
  /\ encoder = [target |-> [i \in Target |-> 0], last |-> 0, p |-> 1, count |-> 1]
  /\ accepted = TRUE

InsertByte(b) ==
  /\ accepted
  /\ fed' = Append(fed, b)
  /\ encoder' = WithByte(encoder, b)
  /\ accepted' = (encoder'.p # Room)

(* commit(): what encode_cobs returns for `fed`.                           *)
Committed ==
  LET target == [encoder.target EXCEPT ![encoder.last] = encoder.count]
  IN  [i \in 1 .. encoder.p |-> target[i - 1]]

CobsNext == \E b \in Data : InsertByte(b)

CobsSpec == CobsInit /\ [][CobsNext]_cobsVars

-----------------------------------------------------------------------------
(* cobs_decoder.                                                           *)

Decoder(b) == [offset |-> b, nonzero |-> b = Full]

NonValueByte(d) == d.offset = 1 /\ d.nonzero
ValueOf(d, b) == IF d.offset = 1 THEN 0 ELSE b

(* Wrong variant: takes every code for one that stands for a zero.         *)
AdvancedPlain(d, b) ==
  IF d.offset = 1 THEN [offset |-> b, nonzero |-> FALSE] ELSE [d EXCEPT !.offset = @ - 1]

Advanced(d, b) == IF d.offset = 1 THEN Decoder(b) ELSE [d EXCEPT !.offset = @ - 1]

Iterated(s, b, n) ==
  [dec |-> Advanced(s.dec, b),
   out |-> IF NonValueByte(s.dec) \/ Len(s.out) = n THEN s.out
           ELSE Append(s.out, ValueOf(s.dec, b))]

(* decode_cobs() into a target of n bytes: it fails when that is full.     *)
DecodeCobs(frame, n) ==
  LET after[k \in 1 .. Len(frame)] ==
        IF k = 1 THEN [dec |-> Decoder(frame[1]), out |-> <<>>]
        ELSE Iterated(after[k - 1], frame[k], n)
      end == after[Len(frame)]
  IN  [ok |-> Len(end.out) < n, out |-> end.out]

(* cobs_decode_view(): an iterator that skips the codes without a value.   *)
(* It stands past the end if it had to skip one that is not there.         *)
Stepped(it, frame) ==
  LET a == [dec |-> Advanced(it.dec, frame[it.at]), at |-> it.at + 1]
  IN  IF NonValueByte(a.dec)
      THEN [dec |-> IF a.at \in DOMAIN frame THEN Advanced(a.dec, frame[a.at]) ELSE a.dec,
            at  |-> a.at + 1]
      ELSE a

ViewBegin(frame) == Stepped([dec |-> [offset |-> 1, nonzero |-> FALSE], at |-> 1], frame)

Shown(s, frame) ==
  IF s.it.at \notin DOMAIN frame THEN s
  ELSE [it |-> Stepped(s.it, frame), out |-> Append(s.out, ValueOf(s.it.dec, frame[s.it.at]))]

(* The bytes it shows and where it ends; no frame has more than its length.*)
DecodeView(frame) ==
  LET after[k \in 0 .. Len(frame)] ==
        IF k = 0 THEN [it |-> ViewBegin(frame), out |-> <<>>] ELSE Shown(after[k - 1], frame)
      end == after[Len(frame)]
  IN  [at |-> end.it.at, out |-> end.out]

-----------------------------------------------------------------------------
(* The encoder stays inside of its target, and insert() says so in time:   *)
(* as long as it returned true there is a place for the next byte.         *)
CobsTypeOK ==
  /\ fed \in Seq(Data)
  /\ encoder.target \in [Target -> 0 .. Full]
  /\ encoder.last \in Target /\ encoder.last < encoder.p /\ encoder.p <= Room
  /\ encoder.count \in 1 .. Full
  /\ accepted => encoder.p < Room

(* What is committed has no zero, which is left to separate frames, and no *)
(* more codes than one, and one for each full block.                       *)
FramesAreDelimited ==
  /\ 0 \notin {Committed[i] : i \in DOMAIN Committed}
  /\ Len(Committed) <= Len(fed) + 1 + Len(fed) \div (Full - 1)

(* At any time, also across full blocks and at their ends, both decoders   *)
(* make of what is committed what was inserted, and the view ends at the   *)
(* end of the frame.                                                       *)
DecodersAgree ==
  accepted =>
    /\ DecodeCobs(Committed, Room) = [ok |-> TRUE, out |-> fed]
    /\ DecodeView(Committed) = [at |-> Len(Committed) + 1, out |-> fed]

(* What the decoders and the channel need of every frame.                  *)
FramesDecode == FramesAreDelimited /\ DecodersAgree

=============================================================================
