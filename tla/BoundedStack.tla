----------------------------- MODULE BoundedStack -----------------------------
(***************************************************************************)
(* What a family of vectors promises: each object is a stack of at most    *)
(* Capacity values; a new content is a sequence that fits, assignment      *)
(* copies or transfers whole stacks and swap exchanges them.  `out` is     *)
(* what the latest operation handed to its caller.                         *)
(***************************************************************************)
EXTENDS Naturals, Sequences

CONSTANTS Objects, Values, Capacity

VARIABLES stack, out

vars == <<stack, out>>

Init == stack = [b \in Objects |-> <<>>] /\ out = <<>>

Push(b) ==
  /\ Len(stack[b]) < Capacity
  /\ \E x \in Values : stack' = [stack EXCEPT ![b] = Append(@, x)]
  /\ out' = <<>>

Pop(b) ==
  /\ stack[b] # <<>>
  /\ stack' = [stack EXCEPT ![b] = SubSeq(@, 1, Len(@) - 1)]
  /\ out' \in {<<>>, <<stack[b][Len(stack[b])]>>}

Assign(b) ==
  /\ \E n \in 0 .. Capacity : stack'[b] \in [1 .. n -> Values]
  /\ stack' = [stack EXCEPT ![b] = stack'[b]]
  /\ out' = <<>>

Copy(b, c) ==
  /\ stack' = [stack EXCEPT ![b] = stack[c]]
  /\ out' = <<>>

Move(b, c) ==
  /\ b # c
  /\ stack' = [stack EXCEPT ![b] = stack[c], ![c] = <<>>]
  /\ out' = <<>>

Swap(b, c) ==
  /\ stack' = [stack EXCEPT ![b] = stack[c], ![c] = stack[b]]
  /\ out' = <<>>

Next ==
  \/ \E b \in Objects : Push(b) \/ Pop(b) \/ Assign(b)
  \/ \E b, c \in Objects : Copy(b, c) \/ Move(b, c) \/ Swap(b, c)

Spec == Init /\ [][Next]_vars

=============================================================================
