----------------------------- MODULE MCCfgStore -----------------------------
(* Small instances of CfgStore for TLC.                                    *)
EXTENDS CfgStore

(* Narrow values only: every value is written as one cell.                 *)
NarrowValues == [k \in Keys |-> {Narrow(x) : x \in 1 .. (IF k = 1 THEN 2 ELSE 1)}]

(* Wide values whose data would parse as a cell of the other key, as       *)
(* nothing at all, as free and as the header of a sequence, next to a      *)
(* narrow value that looks like a page header.                             *)
MixedValues == [k \in Keys |->
  IF k = 1
  THEN {Wide(<<[seq |-> FALSE, key |-> 2, val |-> 9], [seq |-> TRUE, key |-> 1, val |-> 0]>>),
        Wide(<<Free, [seq |-> TRUE, key |-> 2, val |-> 1]>>)}
  ELSE {Narrow(48960)}]

(* What is assumed where a page is filled.                                 *)
ASSUME InstanceFits == ConfigurationFits

(* What is assumed where values are read back, and where they may be       *)
(* written in part.                                                        *)
ASSUME InstanceReads ==
  /\ ValuesReadBack /\ DataIsContained
  /\ "write" \in FailAt => DataIsSilent
=============================================================================
