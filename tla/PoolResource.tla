----------------------------- MODULE PoolResource -----------------------------
(***************************************************************************)
(* pool_resource: PoolCount pools of PoolSize cells in a row and a list of *)
(* the free ones.  A block is the aligned part of the pool taken from the  *)
(* back of the list; returning a block finds the pool from the address.    *)
(***************************************************************************)
EXTENDS Alignment, Sequences, SequencesExt

CONSTANTS
  Clients,     (* Who allocates, at most one block each.                   *)
  PoolsBase,   (* The address of pools_.                                   *)
  PoolSize,
  PoolCount,
  NoBlock      (* Stands for the block of a client that has none.          *)

ASSUME PoolAssumption ==
  /\ PoolsBase \in Nat
  /\ PoolSize \in Nat \ {0}
  /\ PoolCount \in Nat
  /\ NoBlock \notin [ptr : Nat, bytes : Nat]

VARIABLES
  free,   (* free_                                                         *)
  live    (* The block of each client as its owner knows it.               *)

poolVars == <<free, live>>

Pools == 0 .. PoolCount - 1
Start(i) == PoolsBase + i * PoolSize
Blocks == [ptr : PoolsBase .. PoolsBase + PoolCount * PoolSize, bytes : 0 .. PoolSize]
Holders == {c \in Clients : live[c] # NoBlock}

PoolInit ==
  /\ free = [i \in 1 .. PoolCount |-> i - 1]
  /\ live = [c \in Clients |-> NoBlock]

IsFull == free = <<>>

(* The block allocate() would give, for a list that is not empty.          *)
Candidate(alignment) == AlignAddr(Start(Last(free)), alignment)

Fits(bytes, alignment) ==
  /\ ~IsFull
  /\ bytes + (Candidate(alignment) - Start(Last(free))) <= PoolSize

(* Wrong variant: leaves the pool in the list.                             *)
PoolAllocateKeeping(c, bytes, alignment) ==
  /\ live[c] = NoBlock
  /\ Fits(bytes, alignment)
  /\ live' = [live EXCEPT ![c] = [ptr |-> Candidate(alignment), bytes |-> bytes]]
  /\ UNCHANGED free

PoolAllocate(c, bytes, alignment) ==
  /\ live[c] = NoBlock
  /\ Fits(bytes, alignment)
  /\ free' = Front(free)
  /\ live' = [live EXCEPT ![c] = [ptr |-> Candidate(alignment), bytes |-> bytes]]

(* The pool an address belongs to; deallocate() refuses one that is not    *)
(* below PoolCount.                                                        *)
Spot(ptr) == (ptr - PoolsBase) \div PoolSize

(* The clients return their blocks one after the other.                    *)
PoolDeallocate(clients) ==
  LET Returned == Range(clients)
  IN  /\ \A c \in Returned : live[c] # NoBlock /\ Spot(live[c].ptr) < PoolCount
      /\ free' = free \o [k \in DOMAIN clients |-> Spot(live[clients[k]].ptr)]
      /\ live' = [c \in Clients |-> IF c \in Returned THEN NoBlock ELSE live[c]]

-----------------------------------------------------------------------------
PoolTypeOK ==
  /\ free \in BoundedSeq(Pools, PoolCount)
  /\ live \in [Clients -> Blocks \cup {NoBlock}]

(* Every pool is either in the free list, once, or holds the block of one  *)
(* client, which does not reach beyond it.                                 *)
PoolsArePartitioned ==
  /\ IsInjective(free)
  /\ \A c \in Holders :
       LET i == Spot(live[c].ptr)
       IN  /\ i \in Pools \ Range(free)
           /\ live[c].ptr + live[c].bytes <= Start(i + 1)
           /\ \A d \in Holders \ {c} : Spot(live[d].ptr) # i
  /\ \A i \in Pools \ Range(free) : \E c \in Holders : Spot(live[c].ptr) = i

=============================================================================
