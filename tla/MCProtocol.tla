------------------------------ MODULE MCProtocol ------------------------------
(***************************************************************************)
(* Instance of Line, Registers, Rpc and Cobs for TLC.  They share no       *)
(* state: a behaviour is one of one of them.                               *)
(***************************************************************************)
EXTENDS Line, ProtocolMessages, Cobs

VARIABLE subject

Small == Base(1)
Wide == Bounded(Base(2), 3, 6)

AllDefinitions ==
  [tuple      |-> Tuple(<<Wide, Bounded(Small, 1, 2)>>),
   array      |-> Array(Quantity(Small), 2),
   variant    |-> Variant(<<Small, Monostate, Tuple(<<Monostate, Message(1)>>)>>),
   bitset     |-> Bitset(3),
   sized      |-> Tuple(<<SizedBuffer(Small, SizelessMessage(1)), Bounded(Small, 0, 1)>>),
   offset     |-> ValueOffset(Small, 3),
   tags       |-> TagGroup(<<Tag(Small, 1), Tag(Small, 2)>>, <<Small, Optional(Small)>>),
   commands   |-> CommandGroup("little", <<Command(0, <<Wide>>), Command(3, <<Message(1)>>)>>),
   string     |-> StringBuffer(3),
   vector     |-> StaticVector(Variant(<<Monostate, Bounded(Small, 2, 3)>>), 2),
   duration   |-> Duration(Small),
   aggregate  |-> Decomposed(Tuple(<<Bounded(Small, 1, 2), Bitset(2)>>)),
   record     |-> ErrorRecord(StringBuffer(2), Small),
   optional   |-> Optional(Wide),
   sizeless   |-> SizelessMessage(2),
   with_order |-> Tuple(<<ProtocolTuple("little", <<Wide>>), Tag(Small, 3)>>)]

MapRegs ==
  [limits |-> Bounded(Base(2), 3, 4),
   label  |-> StringBuffer(2),
   gains  |-> Tuple(<<Tag(Small, 1), Bounded(Small, 1, 2), Bounded(Small, 1, 2)>>)]

RpcCalls ==
  <<[id |-> 2, request |-> Tuple(<<Wide>>), reply |-> Wide, args |-> {<<v>> : v \in 4 .. 5}],
    [id |-> 0, request |-> Tuple(<<Small, Small>>), reply |-> Tuple(<<Small, Small>>), args |-> {<<1, 2>>}],
    [id |-> 1, request |-> Tuple(<<>>), reply |-> Tuple(<<>>), args |-> {<<>>}]>>

(* Mirrors a number, swaps two, returns nothing.                           *)
HandlerResult(i, args) ==
  CASE i = 1 -> 9 - args[1]
    [] i = 2 -> <<args[2], args[1]>>
    [] OTHER -> <<>>

vars == <<subject, lineVars, registerVars, rpcVars, cobsVars>>

MCInit ==
  /\ LineInit /\ RegisterInit /\ RpcInit /\ CobsInit
  /\ subject \in {"line", "registers", "rpc", "cobs"}
  /\ subject # "line" => name = "tuple" /\ order = "big"

MCNext ==
  \/ subject = "line" /\ LineNext /\ UNCHANGED <<subject, registerVars, rpcVars, cobsVars>>
  \/ subject = "registers" /\ RegisterNext /\ UNCHANGED <<subject, lineVars, rpcVars, cobsVars>>
  \/ subject = "rpc" /\ RpcNext /\ UNCHANGED <<subject, lineVars, registerVars, cobsVars>>
  \/ subject = "cobs" /\ CobsNext /\ UNCHANGED <<subject, lineVars, registerVars, rpcVars>>

MCSpec == MCInit /\ [][MCNext]_vars

(* What the types of the code promise: see Line, Registers, Rpc, Cobs.     *)
TypesOK == LineTypeOK /\ RegisterTypeOK /\ RpcTypeOK /\ MessagesFit /\ CobsTypeOK

=============================================================================
