-------------------------- MODULE RecursiveCoroutine --------------------------
(***************************************************************************)
(* recursive_coroutine: a coroutine waits for another, that for a third,   *)
(* and tick() of the outermost resumes the innermost that does not wait.   *)
(* A coroutine finds what it waits for through the pointer iface in its    *)
(* promise, which await_suspend of what it waits for sets and nothing      *)
(* resets.  Coroutine l + 1 is the one that l created in a co_await        *)
(* expression, a temporary that dies when l goes on.                       *)
(*                                                                         *)
(* The bodies are arbitrary: each time it is resumed a coroutine awaits a  *)
(* new coroutine, a device (any wait_interface whose await_suspend stores  *)
(* itself in iface), or an awaiter that stores nothing (noop_awaiter and   *)
(* error_awaiter), or returns.  Coroutines return void.                    *)
(***************************************************************************)
EXTENDS Naturals

CONSTANTS
  Depth,      (* The level of the innermost coroutine.                     *)
  MaxAwaits   (* Bound on the awaits of one coroutine.                     *)

DepthAssumption == Depth \in Nat /\ MaxAwaits \in Nat

Levels == 0 .. Depth

VARIABLES
  body,      (* The coroutine of each level: none, suspended, done, and    *)
             (* empty when tick() took its handle after an error.          *)
  iface,     (* What iface of its promise points to.                       *)
  device,    (* The state of the device somebody waits for.                *)
  awaits,    (* The number of awaits of each coroutine.                    *)
  silent,    (* TRUE if the latest await stored nothing in iface.          *)
  ran,       (* History: the coroutine the latest tick resumed, if any.    *)
  lost       (* TRUE after a tick that read a pointer to a dead object.    *)

recursiveVars == <<body, iface, device, awaits, silent, ran, lost>>

RecursiveInit ==
  /\ body = [l \in Levels |-> IF l = 0 THEN "suspended" ELSE "none"]
  /\ iface = [l \in Levels |-> "null"]
  /\ device = "ready"
  /\ awaits = [l \in Levels |-> 0]
  /\ silent = [l \in Levels |-> FALSE]
  /\ ran = {}
  /\ lost = FALSE

(* done(), which also holds of an empty handle.                            *)
Done(l) == body[l] \in {"done", "empty"}

(* get_state() of what iface of coroutine l points to.                     *)
StateOf(l) ==
  IF iface[l] = "child" THEN (IF Done(l + 1) THEN "ready" ELSE "waiting")
  ELSE IF iface[l] = "device" THEN device ELSE "ready"

(* The coroutine tick() of the outermost gets to: each one on the way      *)
(* waits for the next.                                                     *)
Innermost == CHOOSE l \in Levels :
  /\ \A k \in 0 .. l - 1 : iface[k] = "child" /\ StateOf(k) = "waiting"
  /\ ~(iface[l] = "child" /\ StateOf(l) = "waiting")

(* tick() may be called at any time, also of a coroutine that has ended.   *)
CanTick == ~lost

-----------------------------------------------------------------------------
(* Resuming coroutine l ends the expression it waited in, which destroys   *)
(* what it waited for; iface goes on pointing there.                       *)
Left(l) == IF iface[l] \in {"child", "device"} THEN "dangling" ELSE iface[l]
WithoutChild(l) == [k \in Levels |-> IF k > l THEN "none" ELSE body[k]]

Resume(l) ==
  /\ CanTick /\ l = Innermost
  /\ iface[l] # "dangling" /\ StateOf(l) = "ready" /\ ~Done(l)
  /\ ran' = {l}
  /\ UNCHANGED lost

(* Wrong variant: tells nobody that it is waited for.                      *)
AwaitChildSilently(l) ==
  /\ Resume(l) /\ l < Depth /\ awaits[l] < MaxAwaits
  /\ body' = [WithoutChild(l) EXCEPT ![l + 1] = "suspended"]
  /\ iface' = [iface EXCEPT ![l] = Left(l), ![l + 1] = "null"]
  /\ awaits' = [awaits EXCEPT ![l] = @ + 1, ![l + 1] = 0]
  /\ silent' = [silent EXCEPT ![l] = FALSE, ![l + 1] = FALSE]
  /\ UNCHANGED device

(* The new coroutine is suspended at its start.                            *)
AwaitChild(l) ==
  /\ Resume(l) /\ l < Depth /\ awaits[l] < MaxAwaits
  /\ body' = [WithoutChild(l) EXCEPT ![l + 1] = "suspended"]
  /\ iface' = [iface EXCEPT ![l] = "child", ![l + 1] = "null"]
  /\ awaits' = [awaits EXCEPT ![l] = @ + 1, ![l + 1] = 0]
  /\ silent' = [silent EXCEPT ![l] = FALSE, ![l + 1] = FALSE]
  /\ UNCHANGED device

AwaitDevice(l) ==
  /\ Resume(l) /\ awaits[l] < MaxAwaits
  /\ body' = WithoutChild(l)
  /\ iface' = [iface EXCEPT ![l] = "device"]
  /\ device' = "waiting"
  /\ awaits' = [awaits EXCEPT ![l] = @ + 1]
  /\ silent' = [silent EXCEPT ![l] = FALSE]

AwaitSilently(l) ==
  /\ Resume(l) /\ awaits[l] < MaxAwaits
  /\ body' = WithoutChild(l)
  /\ iface' = [iface EXCEPT ![l] = Left(l)]
  /\ awaits' = [awaits EXCEPT ![l] = @ + 1]
  /\ silent' = [silent EXCEPT ![l] = TRUE]
  /\ UNCHANGED device

Return(l) ==
  /\ Resume(l)
  /\ body' = [WithoutChild(l) EXCEPT ![l] = "done"]
  /\ iface' = [iface EXCEPT ![l] = Left(l)]
  /\ UNCHANGED <<device, awaits, silent>>

(* Wrong variant: only ends the tick.                                      *)
AbandonNothing(l) ==
  /\ CanTick /\ l = Innermost /\ StateOf(l) = "errored"
  /\ ran' = {}
  /\ UNCHANGED <<body, iface, device, awaits, silent, lost>>

(* The device failed: the coroutine that waits for it is destroyed where   *)
(* it is, its owner finds an empty handle.                                 *)
Abandon(l) ==
  /\ CanTick /\ l = Innermost /\ StateOf(l) = "errored"
  /\ body' = [body EXCEPT ![l] = "empty"]
  /\ iface' = [iface EXCEPT ![l] = "null"]
  /\ ran' = {}
  /\ UNCHANGED <<device, awaits, silent, lost>>

(* The outermost coroutine has ended: nothing is left to resume.           *)
TickFinished(l) ==
  /\ CanTick /\ l = Innermost /\ Done(l)
  /\ body[l] = "empty" \/ iface[l] # "dangling"
  /\ ran' = {}
  /\ UNCHANGED <<body, iface, device, awaits, silent, lost>>

(* iface still points to what the coroutine waited for before; it is read  *)
(* in front of done(), but not through an empty handle.                    *)
ReadDangling(l) ==
  /\ CanTick /\ l = Innermost
  /\ body[l] # "empty" /\ iface[l] = "dangling"
  /\ lost' = TRUE
  /\ ran' = {}
  /\ UNCHANGED <<body, iface, device, awaits, silent>>

(* The device, some time after it was started.                             *)
DeviceAnswers(outcome) ==
  /\ device = "waiting" /\ ~lost
  /\ device' = outcome
  /\ UNCHANGED <<body, iface, awaits, silent, ran, lost>>

TickRecursive == \E l \in Levels :
  \/ AwaitChild(l) \/ AwaitDevice(l) \/ AwaitSilently(l) \/ Return(l)
  \/ Abandon(l) \/ TickFinished(l) \/ ReadDangling(l)

AnswerDevice == \E outcome \in {"ready", "errored"} : DeviceAnswers(outcome)

RecursiveNext == TickRecursive \/ AnswerDevice

RecursiveSpec == RecursiveInit /\ [][RecursiveNext]_recursiveVars

-----------------------------------------------------------------------------
(* Every variable keeps its type.                                          *)
RecursiveTypeOK ==
  /\ body \in [Levels -> {"none", "suspended", "done", "empty"}]
  /\ iface \in [Levels -> {"null", "child", "device", "dangling"}]
  /\ device \in {"waiting", "ready", "errored"}
  /\ awaits \in [Levels -> 0 .. MaxAwaits]
  /\ silent \in [Levels -> BOOLEAN]
  /\ ran \subseteq Levels /\ lost \in BOOLEAN

(* A coroutine goes on only when the one it waits for has ended, by        *)
(* returning or by an error: no tick runs two coroutines, and none runs    *)
(* while something it created is half way.                                 *)
ChildEndsFirstStep ==
  \A l \in Levels \ {Depth} :
    ran' = {l} /\ <<body, awaits>>' # <<body, awaits>> => body[l + 1] # "suspended"

(* A tick reads a pointer to a destroyed object only in a coroutine whose  *)
(* latest await stored nothing in iface, after a noop_awaiter that follows *)
(* the await of another coroutine, or in the outermost one when it has     *)
(* returned: a program that goes on ticking it.                            *)
DanglingOnlyAfterSilentAwait ==
  /\ \A l \in Levels : body[l] = "suspended" /\ iface[l] = "dangling" => silent[l]
  /\ lost => \E l \in Levels : iface[l] = "dangling" /\ (silent[l] \/ (l = 0 /\ body[l] = "done"))

(* A coroutine that is suspended was created by the one above it and is    *)
(* what that one waits for.                                                *)
SuspendedIsAwaited ==
  \A l \in 1 .. Depth : body[l] = "suspended" => iface[l - 1] = "child"

(* Where there is no coroutine, no chain of pointers leads there: one of   *)
(* the coroutines above does not wait for a coroutine any more.            *)
ChainEndsAbove ==
  /\ iface[Depth] # "child"
  /\ \A l \in Levels : body[l] = "none" =>
       \E k \in Levels : k < l /\ (iface[k] # "child" \/ Done(k + 1))

(* The inductive invariant: what follows holds because of it.              *)
RecursiveInv ==
  RecursiveTypeOK /\ SuspendedIsAwaited /\ ChainEndsAbove /\ DanglingOnlyAfterSilentAwait

(* What recursive coroutines promise their bodies: a coroutine goes on     *)
(* only when the one it waits for has ended, and no tick reads a pointer   *)
(* to a dead object except after an awaiter that stores nothing, or when   *)
(* the outermost one is ticked after its end.                              *)
RecursionIsNested == [][DanglingOnlyAfterSilentAwait' /\ ChildEndsFirstStep]_recursiveVars

RunEnded == Done(0) \/ lost

=============================================================================
