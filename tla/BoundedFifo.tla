----------------------------- MODULE BoundedFifo -----------------------------
(***************************************************************************)
(* What a family of circular buffers promises its clients: each object is  *)
(* a queue of at most Capacity values, insertion appends, removal takes    *)
(* from the front in order, assignment copies or transfers whole queues.   *)
(* `out` is what the latest operation handed to its caller.                *)
(***************************************************************************)
EXTENDS Naturals, Sequences

CONSTANTS Objects, Values, Capacity

VARIABLES queue, out

vars == <<queue, out>>

Init ==
  /\ queue = [b \in Objects |-> <<>>]
  /\ out = <<>>

Prefix(s, n) == SubSeq(s, 1, n)
Suffix(s, n) == SubSeq(s, n + 1, Len(s))

Insert(b) ==
  /\ \E n \in 1 .. Capacity - Len(queue[b]) :
       \E batch \in [1 .. n -> Values] : queue' = [queue EXCEPT ![b] = @ \o batch]
  /\ out' = <<>>

Drop(b) ==
  /\ \E n \in 0 .. Len(queue[b]) :
       queue' = [queue EXCEPT ![b] = Suffix(@, n)]
  /\ out' = <<>>

Take(b) ==
  \E n \in 1 .. Len(queue[b]) :
    /\ queue' = [queue EXCEPT ![b] = Suffix(@, n)]
    /\ out' = Prefix(queue[b], n)

Copy(b, c) ==
  /\ queue' = [queue EXCEPT ![b] = queue[c]]
  /\ out' = <<>>

Move(b, c) ==
  /\ b # c
  /\ queue' = [queue EXCEPT ![b] = queue[c], ![c] = <<>>]
  /\ out' = <<>>

Next ==
  \/ \E b \in Objects : Insert(b) \/ Drop(b) \/ Take(b)
  \/ \E b, c \in Objects : Copy(b, c) \/ Move(b, c)

Spec == Init /\ [][Next]_vars

=============================================================================
