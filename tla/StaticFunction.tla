---------------------------- MODULE StaticFunction ----------------------------
(***************************************************************************)
(* static_function: a callable of any type kept in a buffer inside the     *)
(* object.  obj_ points to the callable, vtable_ knows its type; both are  *)
(* null when there is none.  The buffer is aligned to Align, the callable  *)
(* to what its own type needs, so it may start inside the buffer.          *)
(*                                                                         *)
(* A callable type is a pair of its size and its alignment, and a callable *)
(* is its type and what it captures.  Copying a callable may throw.        *)
(***************************************************************************)
EXTENDS Alignment

CONSTANTS
  Functions,  (* The objects of type static_function,                      *)
  Address,    (* and the address of the buffer of each, a multiple of      *)
  Align,      (* this alignment.                                           *)
  Capacity,   (* The size of the buffer.                                   *)
  Types,      (* The types of the callables of the client.                 *)
  Captures,   (* What they capture,                                        *)
  Fragile,    (* and what a copy of throws.                                *)
  Null, Moved

(* Objects take up at least a byte and do not overlap, alignments are      *)
(* powers of two.                                                          *)
FunctionAssumption ==
  /\ Align \in Nat \ {0} /\ Capacity \in Nat
  /\ \A f \in Functions : Address[f] \in Nat /\ Address[f] % Align = 0
  /\ \A f, g \in Functions :
       f # g => Address[f] + Capacity <= Address[g] \/ Address[g] + Capacity <= Address[f]
  /\ Types \subseteq (Nat \ {0}) \X (Nat \ {0})
  /\ \A type \in Types : Align % type[2] = 0 \/ type[2] % Align = 0
  /\ Null \notin Nat \cup Types

VARIABLES
  obj,      (* obj_                                                        *)
  vtable,   (* vtable_, the type of the callable.                          *)
  objects,  (* The callables that exist in the buffers.                    *)
  answer    (* What the latest call returned.                              *)

functionVars == <<obj, vtable, objects, answer>>

Size(type) == type[1]
Alignment(type) == type[2]

RequiredSpace(type) ==
  Size(type) + (IF Alignment(type) > Align THEN Alignment(type) - Align ELSE 0)

(* What a static_assert lets through.                                      *)
Storable == {type \in Types : RequiredSpace(type) <= Capacity}

(* An object of the type constructed in the buffer of f.                   *)
Placed(f, type, captured) ==
  [at |-> AlignAddr(Address[f], Alignment(type)), type |-> type, captured |-> captured]

(* The callable obj_ points to, as the type in vtable_ sees it.            *)
Seen(f) == CHOOSE o \in objects : o.at = obj[f] /\ o.type = vtable[f]

FunctionInit ==
  /\ obj = [f \in Functions |-> Null]
  /\ vtable = [f \in Functions |-> Null]
  /\ objects = {}
  /\ answer = Null

(* Wrong variant: only forgets it.                                         *)
AfterForget(f) == objects

(* clear() destroys the callable; the objects that remain.                 *)
AfterClear(f) == IF obj[f] = Null THEN objects ELSE objects \ {Seen(f)}

Holds(f, o, rest) ==
  /\ obj' = [obj EXCEPT ![f] = o.at]
  /\ vtable' = [vtable EXCEPT ![f] = o.type]
  /\ objects' = rest \cup {o}
  /\ answer' = Null

HoldsNothing(f) ==
  /\ obj' = [obj EXCEPT ![f] = Null]
  /\ vtable' = [vtable EXCEPT ![f] = Null]
  /\ objects' = AfterClear(f)
  /\ answer' = Null

AssignCallable(f, type, captured) ==
  /\ type \in Storable
  /\ Holds(f, Placed(f, type, captured), AfterClear(f))

(* Assigning nullptr.                                                      *)
Reset(f) == HoldsNothing(f)

(* The copy throws after clear(): f is left empty.                         *)
Copy(f, g) ==
  /\ f # g
  /\ IF obj[g] = Null \/ Seen(g).captured \in Fragile
     THEN HoldsNothing(f)
     ELSE Holds(f, Placed(f, vtable[g], Seen(g).captured), AfterClear(f))

(* The callable that was moved from stays in g.                            *)
Move(f, g) ==
  /\ f # g
  /\ IF obj[g] = Null
     THEN HoldsNothing(f)
     ELSE Holds(f, Placed(f, vtable[g], Seen(g).captured),
                (AfterClear(f) \ {Seen(g)}) \cup {[Seen(g) EXCEPT !.captured = Moved]})

(* The client looks at operator bool first.                                *)
Call(f) ==
  /\ obj[f] # Null
  /\ answer' = Seen(f).captured
  /\ UNCHANGED <<obj, vtable, objects>>

FunctionNext ==
  \/ \E f \in Functions :
       \/ \E type \in Types, captured \in Captures : AssignCallable(f, type, captured)
       \/ Reset(f)
       \/ Call(f)
  \/ \E f, g \in Functions : Copy(f, g) \/ Move(f, g)

-----------------------------------------------------------------------------
(* Every variable keeps its type; the addresses are those of the buffers.  *)
FunctionTypeOK ==
  /\ vtable \in [Functions -> Types \cup {Null}]
  /\ \A f \in Functions : obj[f] = Null <=> vtable[f] = Null
  /\ \A o \in objects : o.type \in Types /\ o.captured \in Captures \cup {Moved}
  /\ answer \in Captures \cup {Moved, Null}

(* Every callable that exists is the one of exactly one function, aligned  *)
(* and wholly inside its buffer; a function without one has an empty       *)
(* buffer.  None leaks, none is destroyed twice, none reaches into what    *)
(* lies behind the buffer.                                                 *)
CallablesAreOwned ==
  /\ \A o \in objects : \E f \in Functions :
       /\ obj[f] = o.at /\ vtable[f] = o.type
       /\ o.at % Alignment(o.type) = 0
       /\ o.at >= Address[f] /\ o.at + Size(o.type) <= Address[f] + Capacity
  /\ \A f \in Functions : obj[f] # Null =>
       \E o \in objects : o.at = obj[f] /\ o.type = vtable[f]
  /\ \A o, p \in objects : o # p => o.at # p.at

=============================================================================
