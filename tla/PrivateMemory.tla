---------------------------- MODULE PrivateMemory -----------------------------
(***************************************************************************)
(* What a memory resource promises its clients, without any address: every *)
(* client has at most one block, the block is the client's own and keeps   *)
(* what the client wrote to it, here its name, whatever the other clients  *)
(* allocate, write or return in between.                                   *)
(***************************************************************************)
CONSTANTS Clients, NoBlock

VARIABLE block

Init == block = [c \in Clients |-> NoBlock]

OthersKeep(c) == \A d \in Clients \ {c} : block'[d] = block[d]

Allocate(c) ==
  /\ block[c] = NoBlock
  /\ block'[c] # NoBlock
  /\ block'[c] = [i \in DOMAIN block'[c] |-> c]
  /\ OthersKeep(c)

Deallocate(c) ==
  /\ block[c] # NoBlock
  /\ block'[c] = NoBlock
  /\ OthersKeep(c)

Next == \E c \in Clients : Allocate(c) \/ Deallocate(c)

Spec == Init /\ [][Next]_block

=============================================================================
