------------------------------ MODULE RoundRobin ------------------------------
(***************************************************************************)
(* request_reply coroutines and round_robin_run.  A request_reply asks its *)
(* owner by co_yield and goes on when the owner has stored a reply and     *)
(* calls tick().  round_robin_run is itself such a coroutine: it owns an   *)
(* array of others, asks its owner what they ask, in turn, and hands them  *)
(* the answers.  The frames of all of them are blocks of a pool_resource.  *)
(*                                                                         *)
(* A session starts `size` coroutines and the executor that takes them,    *)
(* and ends when the owner destroys the handle of the executor.  A request *)
(* is named by the coroutine that made it and its number; a reply by the   *)
(* request the owner meant it for.                                         *)
(***************************************************************************)
EXTENDS PoolResource, FiniteSets

CONSTANTS
  N,           (* The largest number of coroutines of a session.           *)
  MaxYields,   (* Bound on the requests a coroutine makes.                 *)
  FrameBytes,  (* The size of a frame with the pointer to its resource,    *)
  FrameAlign,  (* and the alignment of a promise.                          *)
  Handles,     (* The owner's variables of type request_reply.             *)
  None         (* An empty optional, a null pointer.                       *)

Inner == 0 .. N - 1
Executor == N

ASSUME SessionAssumption ==
  /\ N \in Nat \ {0}
  /\ Clients = 0 .. N
  /\ MaxYields \in Nat
  /\ FrameBytes \in Nat \ {0} /\ FrameAlign \in Nat \ {0}
  /\ None \notin Handles /\ None \notin Inner \X Nat

VARIABLES
  size,      (* The number of coroutines of the session, 0 before it.      *)
  script,    (* How many requests each coroutine makes in its life.        *)
  asked,     (* How many it has made.                                      *)
  request,   (* The promise of each coroutine: request,                    *)
  reply,     (* reply                                                      *)
  done,      (* and whether it is at its final suspension.                 *)
  cor,       (* The coroutine round_robin_run waits for.                   *)
  holder,    (* The variable that holds the handle of the executor.        *)
  got,       (* History: the replies each coroutine received.              *)
  undefined  (* TRUE after a write through a null pointer.                 *)

sessionVars == <<size, script, asked, request, reply, done, cor, holder, got, undefined>>
vars == <<poolVars, sessionVars>>

Coroutines == Inner \cup {Executor}
Started == Holders
InSession == 0 .. size - 1

Init ==
  /\ PoolInit
  /\ size = 0
  /\ script = [c \in Inner |-> 0] /\ asked = [c \in Inner |-> 0]
  /\ request = [c \in Coroutines |-> None] /\ reply = [c \in Coroutines |-> None]
  /\ done = [c \in Coroutines |-> FALSE]
  /\ cor = 0 /\ holder = None
  /\ got = [c \in Inner |-> <<>>]
  /\ undefined = FALSE

-----------------------------------------------------------------------------
(* Starting a session.                                                     *)

Begin(n) ==
  /\ size = 0 /\ ~undefined
  /\ size' = n
  /\ UNCHANGED <<poolVars, script, asked, request, reply, done, cor, holder, got, undefined>>

(* The next coroutine to start: those of the array, then the executor.     *)
Starting == IF Cardinality(Started) = size THEN Executor ELSE Cardinality(Started)
CanStart(c) == size > 0 /\ holder = None /\ c = Starting /\ ~undefined

(* The first coroutine at or after c, in turns, that is not done, and size *)
(* if there is none: the loop of round_robin_run up to its next co_yield.  *)
NextLive(c, finished) ==
  LET turn == [k \in 1 .. size |-> (c + k - 1) % size]
      k    == SelectInSeq(turn, LAMBDA d : ~finished[d])
  IN  IF k = 0 THEN size ELSE turn[k]

(* The executor goes on to coroutine d: it forwards its request, or is     *)
(* done when d is size or when it finds no request to forward.             *)
ExecutorGoesTo(d, requests, finished) ==
  LET forwards == d < size /\ requests[d] # None
  IN  /\ cor' = IF d < size THEN d ELSE cor
      /\ request' = [requests EXCEPT ![Executor] = IF forwards THEN requests[d] ELSE None]
      /\ done' = [finished EXCEPT ![Executor] = ~forwards]

(* A coroutine of the array runs to its first co_yield at once.            *)
StartInner(c, yields) ==
  /\ CanStart(c) /\ c \in Inner
  /\ PoolAllocate(c, FrameBytes, FrameAlign)
  /\ script' = [script EXCEPT ![c] = yields]
  /\ asked' = [asked EXCEPT ![c] = IF yields > 0 THEN 1 ELSE 0]
  /\ request' = [request EXCEPT ![c] = IF yields > 0 THEN <<c, 1>> ELSE None]
  /\ done' = [done EXCEPT ![c] = yields = 0]
  /\ UNCHANGED <<size, reply, cor, holder, got, undefined>>

StartExecutor(h) ==
  /\ CanStart(Executor)
  /\ PoolAllocate(Executor, FrameBytes, FrameAlign)
  /\ ExecutorGoesTo(NextLive(0, done), request, done)
  /\ holder' = h
  /\ UNCHANGED <<size, script, asked, reply, got, undefined>>

(* The frame has no place: the null pointer is written through.            *)
StartWithoutMemory ==
  /\ \E c \in Coroutines : CanStart(c)
  /\ ~Fits(FrameBytes, FrameAlign)
  /\ undefined' = TRUE
  /\ UNCHANGED <<poolVars, size, script, asked, request, reply, done, cor, holder, got>>

-----------------------------------------------------------------------------
(* What the owner of the executor does.                                    *)

(* get_request() and store_reply().                                        *)
Answer ==
  /\ holder # None /\ request[Executor] # None
  /\ reply' = [reply EXCEPT ![Executor] = request[Executor]]
  /\ UNCHANGED <<poolVars, size, script, asked, request, done, cor, holder, got, undefined>>

(* tick() of coroutine c of the array, called by the executor right after  *)
(* it stored r: c receives r and runs to its next co_yield or its end.     *)
Resumed(c, r) ==
  [request |-> [request EXCEPT ![c] = IF asked[c] < script[c] THEN <<c, asked[c] + 1>> ELSE None],
   done    |-> [done EXCEPT ![c] = asked[c] = script[c]],
   asked   |-> [asked EXCEPT ![c] = IF asked[c] < script[c] THEN @ + 1 ELSE @],
   got     |-> [got EXCEPT ![c] = Append(@, r)]]

(* Wrong variant: keeps the reply.                                         *)
TickKeepingReply ==
  /\ holder # None /\ reply[Executor] # None /\ ~done[Executor]
  /\ LET after == Resumed(cor, reply[Executor])
     IN  /\ asked' = after.asked
         /\ got' = after.got
         /\ ExecutorGoesTo(NextLive((cor + 1) % size, after.done), after.request, after.done)
  /\ UNCHANGED <<poolVars, size, script, holder, reply, undefined>>

(* tick() of the executor; without a reply, or when done, it returns false *)
(* and changes nothing.                                                    *)
Tick ==
  /\ holder # None /\ reply[Executor] # None /\ ~done[Executor]
  /\ LET after == Resumed(cor, reply[Executor])
     IN  /\ asked' = after.asked
         /\ got' = after.got
         /\ ExecutorGoesTo(NextLive((cor + 1) % size, after.done), after.request, after.done)
  /\ reply' = [reply EXCEPT ![Executor] = None]
  /\ UNCHANGED <<poolVars, size, script, holder, undefined>>

(* Assigning one variable to another swaps their handles.                  *)
Move(h) ==
  /\ holder \notin {None, h}
  /\ holder' = h
  /\ UNCHANGED <<poolVars, size, script, asked, request, reply, done, cor, got, undefined>>

(* The variable with the handle dies, at whatever point the coroutines     *)
(* are: the frame of the executor is destroyed and with it the array, last *)
(* element first, so that every frame goes back to the pool.               *)
Destroy ==
  /\ holder # None
  /\ PoolDeallocate(Append(Reverse([k \in 1 .. size |-> k - 1]), Executor))
  /\ size' = 0
  /\ script' = [c \in Inner |-> 0] /\ asked' = [c \in Inner |-> 0]
  /\ request' = [c \in Coroutines |-> None] /\ reply' = [c \in Coroutines |-> None]
  /\ done' = [c \in Coroutines |-> FALSE]
  /\ cor' = 0 /\ holder' = None
  /\ got' = [c \in Inner |-> <<>>]
  /\ UNCHANGED undefined

Next ==
  \/ \E n \in 1 .. N : Begin(n)
  \/ \E c \in Inner, yields \in 0 .. MaxYields : StartInner(c, yields)
  \/ \E h \in Handles : StartExecutor(h) \/ Move(h)
  \/ StartWithoutMemory
  \/ Answer
  \/ Tick
  \/ Destroy

Spec == Init /\ [][Next]_vars

(* The owner keeps answering the request it is shown and calling tick().   *)
OwnerAnswers == reply[Executor] = None /\ Answer
FairSpec == Spec /\ WF_vars(OwnerAnswers) /\ WF_vars(Tick)

-----------------------------------------------------------------------------
Requests == Inner \X (1 .. MaxYields)

(* Every variable keeps its type.                                          *)
TypeOK ==
  /\ PoolTypeOK
  /\ size \in 0 .. N
  /\ script \in [Inner -> 0 .. MaxYields] /\ asked \in [Inner -> 0 .. MaxYields]
  /\ request \in [Coroutines -> Requests \cup {None}]
  /\ reply \in [Coroutines -> Requests \cup {None}]
  /\ done \in [Coroutines -> BOOLEAN]
  /\ cor \in Inner /\ holder \in Handles \cup {None}
  /\ \A c \in Inner : got[c] \in BoundedSeq(Requests, MaxYields)
  /\ undefined \in BOOLEAN

(* A coroutine receives, in order, the owner's replies to its own requests *)
(* and to each of them once, although the owner only talks to the          *)
(* executor.                                                               *)
RepliesAreOwn ==
  \A c \in Inner : \A k \in 1 .. Len(got[c]) : got[c][k] = <<c, k>>

(* The coroutines take turns: of two that are not done, the one that comes *)
(* first in the array has received as many replies as the other or one     *)
(* more.                                                                   *)
TurnsAreFair ==
  \A c, d \in InSession :
    holder # None /\ c < d /\ ~done[c] /\ ~done[d] => Len(got[c]) - Len(got[d]) \in {0, 1}

(* The executor ends when all coroutines of its array have ended, and not  *)
(* before.                                                                 *)
ExecutorEndsLast ==
  holder # None => (done[Executor] <=> \A c \in InSession : done[c])

SessionsAreSound == RepliesAreOwn /\ TurnsAreFair /\ ExecutorEndsLast

(* What these rest on.  A coroutine that has a frame is done or waits for  *)
(* the reply to the request in its promise, the first it has no reply to.  *)
CoroutineState(c) ==
  IF c \notin Holders
  THEN asked[c] = 0 /\ script[c] = 0 /\ got[c] = <<>> /\ ~done[c] /\ request[c] = None
  ELSE IF done[c]
  THEN asked[c] = script[c] /\ Len(got[c]) = script[c] /\ request[c] = None
  ELSE asked[c] <= script[c] /\ asked[c] = Len(got[c]) + 1 /\ request[c] = <<c, asked[c]>>

(* The executor shows the request of coroutine cor and may have a reply to *)
(* it; those before cor that are not done are a turn ahead.                *)
ExecutorState ==
  IF holder = None
  THEN /\ ~done[Executor] /\ request[Executor] = None /\ reply[Executor] = None
       /\ \A c \in Inner : got[c] = <<>>
  ELSE IF done[Executor]
  THEN /\ request[Executor] = None /\ reply[Executor] = None
       /\ \A c \in InSession : done[c]
  ELSE /\ cor \in InSession /\ ~done[cor]
       /\ request[Executor] = request[cor]
       /\ reply[Executor] \in {None, request[cor]}
       /\ \A c \in InSession :
            ~done[c] => Len(got[c]) = Len(got[cor]) + (IF c < cor THEN 1 ELSE 0)

SessionInv ==
  RepliesAreOwn /\ (\A c \in Inner : CoroutineState(c)) /\ ExecutorState

(* Wherever the owner destroys a session, exactly the frames of coroutines *)
(* that exist are out of the pool: none leaks, none is returned twice.     *)
FramesAreOwned ==
  /\ PoolsArePartitioned
  /\ holder # None => Started = InSession \cup {Executor}
  /\ size = 0 => Len(free) = PoolCount

(* A session whose owner answers and ticks runs to its end, unless it is   *)
(* destroyed.                                                              *)
SessionsEnd == (holder # None) ~> (holder = None \/ done[Executor])

=============================================================================
