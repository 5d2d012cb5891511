----------------------------- MODULE StaticVector -----------------------------
(***************************************************************************)
(* static_vector over static_storage: N slots of which the first size_     *)
(* hold constructed items.  A slot is Raw, or holds a value, or a value    *)
(* that was moved from.  Constructing over an item and destroying, moving  *)
(* or copying a raw slot is undefined: `misused` records it.  The items    *)
(* are copied and moved without throwing.                                  *)
(***************************************************************************)
EXTENDS Naturals, SequencesExt

CONSTANTS
  N,          (* The capacity.                                             *)
  Objects,    (* The vectors of the client.                                *)
  Values,     (* The items, numbers so that they are ordered.              *)
  Raw, Moved

VectorAssumption ==
  N \in Nat \ {0} /\ Values \subseteq Nat /\ Raw \notin Values \cup {Moved}

VARIABLES
  slots,    (* storage_ of each vector,                                    *)
  size,     (* and size_.                                                  *)
  misused,  (* TRUE after an operation on a slot in the wrong state.       *)
  taken     (* What the latest operation returned to the client.           *)

vectorVars == <<slots, size, misused, taken>>

Slots == 0 .. N - 1
Items == Values \cup {Moved}
Empty == [slots |-> [i \in Slots |-> Raw], size |-> 0, bad |-> FALSE]
Vector(b) == [slots |-> slots[b], size |-> size[b], bad |-> FALSE]
Contents(v) == [i \in 1 .. v.size |-> v.slots[i - 1]]

-----------------------------------------------------------------------------
(* static_storage.                                                         *)

EmplaceItem(v, i, x) ==
  [v EXCEPT !.slots[i] = x, !.bad = @ \/ v.slots[i] # Raw \/ x = Raw]

DeleteItem(v, i) ==
  [v EXCEPT !.slots[i] = Raw, !.bad = @ \/ v.slots[i] = Raw]

(* uninitialized_copy, _move and _fill of a sequence to slot 0 and on.     *)
Uninitialized(v, s) ==
  [v EXCEPT !.slots = [i \in Slots |-> IF i < Len(s) THEN s[i + 1] ELSE @[i]],
            !.bad = @ \/ \E i \in 1 .. Len(s) : v.slots[i - 1] # Raw \/ s[i] = Raw]

DestroyFrom(v, first) ==
  [v EXCEPT !.slots = [i \in Slots |-> IF i \in first .. v.size - 1 THEN Raw ELSE @[i]],
            !.bad = @ \/ \E i \in first .. v.size - 1 : v.slots[i] = Raw]

(* The slots whose items were moved out of.                                *)
MovedOut(v, first) ==
  [v EXCEPT !.slots = [i \in Slots |-> IF i \in first .. v.size - 1 THEN Moved ELSE @[i]]]

-----------------------------------------------------------------------------
(* static_vector.                                                          *)

EmplaceBack(v, x) == [EmplaceItem(v, v.size, x) EXCEPT !.size = @ + 1]
PopBack(v) == [DeleteItem(v, v.size - 1) EXCEPT !.size = @ - 1]
Purge(v) == [DestroyFrom(v, 0) EXCEPT !.size = 0]

(* copy_from() and move_from(), which set size_ first.                     *)
Filled(v, s) == Uninitialized([v EXCEPT !.size = Len(s)], s)

(* emplace_back() of the items of w from the size of v on.                 *)
EmplaceRest(v, w) ==
  LET Rest == v.size .. w.size - 1
  IN  [v EXCEPT !.slots = [i \in Slots |-> IF i \in Rest THEN w.slots[i] ELSE @[i]],
                !.size = w.size,
                !.bad = @ \/ \E i \in Rest : v.slots[i] # Raw \/ w.slots[i] = Raw]

Shorter(v, w) == IF v.size < w.size THEN v.size ELSE w.size
WithPrefix(v, w, n) == [v EXCEPT !.slots = [i \in Slots |-> IF i < n THEN w.slots[i] ELSE @[i]]]

(* Wrong variant: forgets to pop what it moved.                            *)
SwappedKeepingMoved(v, w) ==
  LET n == Shorter(v, w)
      Drained(x, y) == MovedOut(WithPrefix(x, y, n), n)
      Grown(x, y)   == EmplaceRest(WithPrefix(x, y, n), y)
  IN  IF v.size > w.size THEN <<Drained(v, w), Grown(w, v)>>
                         ELSE <<Grown(v, w), Drained(w, v)>>

(* swap(): swaps the common prefix, moves the rest of the longer one to    *)
(* the shorter and pops the moved items.                                   *)
Swapped(v, w) ==
  LET n == Shorter(v, w)
      Drained(x, y) == [DestroyFrom(MovedOut(WithPrefix(x, y, n), n), n) EXCEPT !.size = n]
      Grown(x, y)   == EmplaceRest(WithPrefix(x, y, n), y)
  IN  IF v.size > w.size THEN <<Drained(v, w), Grown(w, v)>>
                         ELSE <<Grown(v, w), Drained(w, v)>>

(* operator== compares the sizes and then the items one by one.            *)
EqualVectors(v, w) ==
  v.size = w.size /\ \A i \in 0 .. v.size - 1 : v.slots[i] = w.slots[i]

(* operator<=> finds the first: lexicographical_compare_three_way.         *)
Less(v, w) ==
  LET Differs == {i \in 0 .. Shorter(v, w) - 1 : v.slots[i] # w.slots[i]}
  IN  IF Differs = {} THEN v.size < w.size
      ELSE LET i == CHOOSE i \in Differs : \A j \in Differs : i <= j
           IN  v.slots[i] < w.slots[i]

-----------------------------------------------------------------------------
VectorInit ==
  /\ slots = [b \in Objects |-> Empty.slots]
  /\ size = [b \in Objects |-> 0]
  /\ misused = FALSE
  /\ taken = <<>>

Becomes(b, v) ==
  /\ slots' = [slots EXCEPT ![b] = v.slots]
  /\ size' = [size EXCEPT ![b] = v.size]
  /\ misused' = (misused \/ v.bad)

Become(b, v, c, w) ==
  /\ slots' = [slots EXCEPT ![b] = v.slots, ![c] = w.slots]
  /\ size' = [size EXCEPT ![b] = v.size, ![c] = w.size]
  /\ misused' = (misused \/ v.bad \/ w.bad)

(* The client looks at full() first.                                       *)
PushBack(b, x) ==
  /\ size[b] # N
  /\ Becomes(b, EmplaceBack(Vector(b), x))
  /\ taken' = <<>>

(* pop_back() and take_back(); the client looks at empty() first.          *)
Pop(b) ==
  /\ size[b] # 0
  /\ Becomes(b, PopBack(Vector(b)))
  /\ taken' = <<>>

TakeBack(b) ==
  /\ size[b] # 0
  /\ LET v == Vector(b)
     IN  /\ Becomes(b, PopBack([v EXCEPT !.slots[size[b] - 1] = Moved]))
         /\ taken' = <<slots[b][size[b] - 1]>>

Clear(b) ==
  /\ Becomes(b, Purge(Vector(b)))
  /\ taken' = <<>>

(* A new vector with n copies of an item takes the place of b.             *)
Fill(b, n, x) ==
  LET count == IF n < N THEN n ELSE N
  IN  /\ Becomes(b, Filled(Purge(Vector(b)), [i \in 1 .. count |-> x]))
      /\ taken' = <<>>

(* Assignment of another vector or of an array of at most N items;         *)
(* assigning a vector to itself changes nothing.                           *)
CopyAssign(b, c) ==
  /\ b # c
  /\ Becomes(b, Filled(Purge(Vector(b)), Contents(Vector(c))))
  /\ taken' = <<>>

MoveAssign(b, c) ==
  /\ b # c
  /\ Become(b, Filled(Purge(Vector(b)), Contents(Vector(c))), c, Purge(MovedOut(Vector(c), 0)))
  /\ taken' = <<>>

AssignArray(b, s) ==
  /\ Becomes(b, Filled(Purge(Vector(b)), s))
  /\ taken' = <<>>

Swap(b, c) ==
  /\ b # c
  /\ LET r == Swapped(Vector(b), Vector(c)) IN Become(b, r[1], c, r[2])
  /\ taken' = <<>>

VectorNext ==
  \/ \E b \in Objects :
       \/ \E x \in Values : PushBack(b, x) \/ \E n \in 0 .. N + 1 : Fill(b, n, x)
       \/ Pop(b) \/ TakeBack(b) \/ Clear(b)
       \/ \E s \in BoundedSeq(Values, N) : AssignArray(b, s)
  \/ \E b, c \in Objects :
       CopyAssign(b, c) \/ MoveAssign(b, c) \/ Swap(b, c)

-----------------------------------------------------------------------------
(* Every variable keeps its type.                                          *)
VectorTypeOK ==
  /\ slots \in [Objects -> [Slots -> Items \cup {Raw}]]
  /\ size \in [Objects -> 0 .. N]
  /\ misused \in BOOLEAN
  /\ taken \in BoundedSeq(Items, 1)

(* size_ is the count of the items: the slots below it hold items the      *)
(* client put there, none of them moved from, and those from it on are     *)
(* raw, so that no operation constructs over an item or destroys one       *)
(* twice.                                                                  *)
SizeCountsItems ==
  /\ ~misused
  /\ \A b \in Objects, i \in Slots : IF i < size[b] THEN slots[b][i] \in Values ELSE slots[b][i] = Raw

(* == and < are those of sequences: equal vectors have equal contents,     *)
(* and of two that differ exactly one is less, a proper prefix before      *)
(* what it is a prefix of.                                                 *)
OrderIsTotal ==
  \A b, c \in Objects :
    LET v == Vector(b)  w == Vector(c)
    IN  /\ EqualVectors(v, w) <=> Contents(v) = Contents(w)
        /\ EqualVectors(v, w) <=> ~Less(v, w) /\ ~Less(w, v)
        /\ ~(Less(v, w) /\ Less(w, v))
        /\ IsStrictPrefix(Contents(v), Contents(w)) => Less(v, w)

(* The vectors are bounded stacks of values: BoundedStack is refined.      *)
stacks == [b \in Objects |-> Contents(Vector(b))]

Stacks == INSTANCE BoundedStack WITH Capacity <- N, stack <- stacks, out <- taken

=============================================================================
