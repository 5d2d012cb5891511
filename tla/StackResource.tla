---------------------------- MODULE StackResource -----------------------------
(***************************************************************************)
(* stack_resource: blocks of a buffer, one above the other, each followed  *)
(* by a node that links it into a doubly linked list.  The pointer of a    *)
(* node is the address just above it.  Blocks are returned in any order;   *)
(* the stack falls when the topmost is returned.                           *)
(*                                                                         *)
(* Memory is counted in cells of the size of a pointer, a node is two of   *)
(* them, and sizes and alignments are multiples of a cell.  Blocks and     *)
(* nodes share the buffer: a client writes its own name into its block and *)
(* would destroy a node that lay in it.                                    *)
(***************************************************************************)
EXTENDS Alignment

CONSTANTS
  Clients,     (* Who allocates, at most one block each.                   *)
  Base,        (* The address of buff_.                                    *)
  Capacity,    (* Its size.                                                *)
  Sizes,       (* The sizes asked for,                                     *)
  Alignments,  (* and the alignments, powers of two.                       *)
  NoBlock      (* Stands for the block of a client that has none.          *)

NodeSize == 2
Null == 0

StackAssumption ==
  /\ Base \in Nat \ {0}
  /\ Capacity \in Nat /\ Capacity >= NodeSize
  /\ Sizes \subseteq Nat
  /\ Alignments \subseteq Nat \ {0}
  /\ \A n \in Sizes : NoBlock \notin [ptr : Nat, bytes : {n}] \cup [1 .. n -> Clients]

VARIABLES
  buff,   (* The cells of the buffer, by address.                          *)
  top,    (* top_                                                          *)
  live    (* The block of each client as its owner knows it.               *)

vars == <<buff, top, live>>

Addresses == Base .. Base + Capacity - 1
Limit == Base + Capacity
Block == [ptr : Addresses \cup {Limit}, bytes : Sizes]
Holders == {c \in Clients : live[c] # NoBlock}

(* The nodes of the list: the root, and the node above each live block.    *)
Root == Base + NodeSize
NodeOf(c) == live[c].ptr + live[c].bytes + NodeSize
Nodes == {Root} \cup {NodeOf(c) : c \in Holders}
Consecutive(n, m) ==
  n \in Nodes /\ m \in Nodes /\ n < m /\ \A other \in Nodes : other <= n \/ m <= other

-----------------------------------------------------------------------------
(* Helpers of the resource.                                                *)

FreeSpace == Limit - top
IsFull == FreeSpace <= NodeSize

GetNode(ptr) == [prev |-> buff[ptr - 1], next |-> buff[ptr - 2]]
SetNode(mem, ptr, prev, next) == [mem EXCEPT ![ptr - 1] = prev, ![ptr - 2] = next]

(* The negation of the condition under which allocate() gives no block.    *)
Fits(bytes, padding) == ~(bytes > FreeSpace \/ padding + NodeSize > FreeSpace - bytes)

(* What deallocate() checks of a pointer before it touches a node.         *)
Accepts(ptr, bytes) ==
  /\ ptr >= Base /\ ptr - Base <= Capacity
  /\ LET rest == Capacity - (ptr - Base)
     IN  bytes <= rest /\ NodeSize <= rest - bytes

-----------------------------------------------------------------------------
Init ==
  /\ buff = [a \in Addresses |-> Null]
  /\ top = Root
  /\ live = [c \in Clients |-> NoBlock]

(* The client fills its block with its name.  It would write the same      *)
(* later, so once, as soon as it has the block, is enough.                 *)
Written(mem, c, ptr, bytes) ==
  [a \in Addresses |-> IF a \in ptr .. ptr + bytes - 1 THEN c ELSE mem[a]]

Allocate(c, bytes, alignment) ==
  LET padding == AlignAddr(top, alignment) - top
      p       == top + padding
      newTop  == p + bytes + NodeSize
  IN  /\ live[c] = NoBlock
      /\ Fits(bytes, padding)
      /\ buff' = Written(SetNode(SetNode(buff, newTop, top, Null), top, GetNode(top).prev, newTop),
                         c, p, bytes)
      /\ top' = newTop
      /\ live' = [live EXCEPT ![c] = [ptr |-> p, bytes |-> bytes]]

(* Wrong variant: does not tell the node above that its neighbour left.    *)
DeallocateOneWay(c) ==
  /\ live[c] # NoBlock
  /\ LET node == GetNode(NodeOf(c))
     IN  /\ buff' = SetNode(buff, node.prev, GetNode(node.prev).prev, node.next)
         /\ top' = IF node.next = Null THEN node.prev ELSE top
  /\ live' = [live EXCEPT ![c] = NoBlock]

(* Wrong variant: the stack falls to the start of every returned block.    *)
DeallocateAsStack(c) ==
  /\ live[c] # NoBlock
  /\ LET node == GetNode(NodeOf(c))
     IN  /\ buff' = SetNode(buff, node.prev, GetNode(node.prev).prev, Null)
         /\ top' = node.prev
  /\ live' = [live EXCEPT ![c] = NoBlock]

Deallocate(c) ==
  /\ live[c] # NoBlock
  /\ Accepts(live[c].ptr, live[c].bytes)
  /\ LET node   == GetNode(NodeOf(c))
         below  == SetNode(buff, node.prev, GetNode(node.prev).prev, node.next)
     IN  IF node.next = Null
         THEN buff' = below /\ top' = node.prev
         ELSE /\ buff' = SetNode(below, node.next, node.prev, GetNode(node.next).next)
              /\ UNCHANGED top
  /\ live' = [live EXCEPT ![c] = NoBlock]

Next == \E c \in Clients :
  \/ \E bytes \in Sizes, alignment \in Alignments : Allocate(c, bytes, alignment)
  \/ Deallocate(c)

Spec == Init /\ [][Next]_vars

-----------------------------------------------------------------------------
(* Every variable keeps its type: top_ stays in the buffer and a cell      *)
(* holds a pointer into it or a client's data.                             *)
TypeOK ==
  /\ buff \in [Addresses -> {Null} \cup Addresses \cup {Limit} \cup Clients]
  /\ top \in Root .. Limit
  /\ live \in [Clients -> Block \cup {NoBlock}]

(* The nodes in the buffer are a doubly linked list of exactly the live    *)
(* blocks in the order of their addresses that ends at top_: returning     *)
(* blocks in any order loses no node and leaves none behind, and when all  *)
(* are returned the whole buffer is free again.                            *)
ListIsLiveBlocks ==
  /\ top \in Nodes /\ \A n \in Nodes : n <= top
  /\ \A n \in Nodes :
       /\ IF n = Root THEN GetNode(n).prev = Null ELSE Consecutive(GetNode(n).prev, n)
       /\ IF n = top THEN GetNode(n).next = Null ELSE Consecutive(n, GetNode(n).next)

(* is_full() says that nothing can be had: a request of at least one cell  *)
(* is refused when it holds, and one that needs no padding is granted when *)
(* it does not.                                                            *)
FullIsHonest ==
  IF IsFull
  THEN \A bytes \in Sizes \ {0}, padding \in {AlignAddr(top, a) - top : a \in Alignments} :
         ~Fits(bytes, padding)
  ELSE Fits(1, 0)

(* The resource takes back every block it gave out, and refuses a pointer  *)
(* below its buffer or at and above its end.                               *)
AcceptsOwnBlocks ==
  /\ \A c \in Holders : Accepts(live[c].ptr, live[c].bytes)
  /\ \A bytes \in Sizes, distance \in 0 .. Capacity :
       /\ ~Accepts(Limit + distance, bytes)
       /\ distance \in 1 .. Base => ~Accepts(Base - distance, bytes)

BlocksAreAccounted == ListIsLiveBlocks /\ FullIsHonest /\ AcceptsOwnBlocks

(* The resource behaves as if each client had its memory to itself: what a *)
(* client wrote to its block stays, whatever the others do.                *)
blockOf == [c \in Clients |->
  IF live[c] = NoBlock THEN NoBlock
  ELSE [i \in 1 .. live[c].bytes |-> buff[live[c].ptr + i - 1]]]

Private == INSTANCE PrivateMemory WITH block <- blockOf

BlocksArePrivate == Private!Spec

=============================================================================
