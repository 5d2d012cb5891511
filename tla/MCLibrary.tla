------------------------------- MODULE MCLibrary -------------------------------
(***************************************************************************)
(* Instance for TLC of the parts of the library that stand alone: the      *)
(* memory resources, the coroutines, the containers, the numbers and the   *)
(* algorithms.  They share no state, except that the frames of RoundRobin  *)
(* are blocks of PoolResource: a behaviour is one of one of them.          *)
(***************************************************************************)
EXTENDS RoundRobin, RecursiveCoroutine, Numbers, TLC

CONSTANTS
  Users, Base, StackSize, Sizes, Alignments,
  Objects, VectorSize, Values, Raw, Moved,
  Functions, FirstBuffer, Align, BufferSize, Types, Captures, Fragile, NullPointer,
  Elements, MaxLength, IndexMax

VARIABLES
  subject,
  buff, top, given,
  slots, sizes, misused, taken,
  obj, vtable, objects, answer,
  lh, rh

(* Buffers of functions with another member between them.                  *)
BufferOf == CHOOSE s \in [Functions -> {FirstBuffer, FirstBuffer + BufferSize + 2}] : IsInjective(s)

Stack == INSTANCE StackResource WITH Clients <- Users, Capacity <- StackSize, live <- given
Vector == INSTANCE StaticVector WITH N <- VectorSize, size <- sizes
Function == INSTANCE StaticFunction
              WITH Address <- BufferOf, Capacity <- BufferSize, Null <- NullPointer
Algorithm == INSTANCE Algorithms WITH Items <- Elements

ASSUME PartsAssumption ==
  /\ Stack!StackAssumption /\ DepthAssumption /\ NumbersAssumption
  /\ Vector!VectorAssumption /\ Function!FunctionAssumption

Frames == 0 .. N
CallableTypes == {<<1, 1>>, <<2, 1>>, <<2, 4>>, <<3, 4>>, <<4, 2>>, <<5, 1>>}

(* Types of four bits: a narrow one, a signed one, and unsigned ones with  *)
(* ranges that divide 16, that do not, of more than 8 and of all values.   *)
NumberTypes ==
  {[min |-> 3, max |-> 7, low |-> 0, size |-> 16, arith |-> "promoted", steps |-> 0 .. 15],
   [min |-> -2, max |-> 2, low |-> -8, size |-> 16, arith |-> "signed", steps |-> -8 .. 7]}
  \cup
  {[min |-> lim[1], max |-> lim[2], low |-> 0, size |-> 16, arith |-> "unsigned", steps |-> 0 .. 15] :
     lim \in {<<3, 6>>, <<3, 7>>, <<0, 9>>, <<0, 15>>}}

OutputLimits == {<<-1, 1>>, <<-2, 1>>, <<1, 2>>}
PidCoefficients ==
  {[p |-> 1, i |-> 0, d |-> 0], [p |-> 0, i |-> 1, d |-> 0], [p |-> 1, i |-> 1, d |-> 2]}
MeasuredValues == -2 .. 2
Integers3 == {-2, 1, 3}

-----------------------------------------------------------------------------
stackVars == <<buff, top, given>>
vectorVars == <<slots, sizes, misused, taken>>
functionVars == <<obj, vtable, objects, answer>>
numberVars == <<type, val, turned, exact, pid, coeff>>
containerVars == <<lh, rh>>

roundRobinRest == <<stackVars, recursiveVars, vectorVars, functionVars, numberVars, containerVars>>
allVars == <<subject, vars, roundRobinRest>>

Subjects == {"stack", "round robin", "recursive", "vector", "function", "bounded", "pid", "algorithms"}

(* Parts that are not the subject stay in one of their initial states.     *)
MCInit ==
  /\ Init /\ Stack!Init /\ RecursiveInit
  /\ Vector!VectorInit /\ Function!FunctionInit
  /\ BoundedInit /\ PidInit /\ Algorithm!AlgorithmsInit
  /\ subject \in Subjects
  /\ subject # "bounded" => type = CHOOSE t \in BoundedTypes : TRUE
  /\ subject # "pid" => pid.lim = (CHOOSE l \in Limits : TRUE) /\ coeff = (CHOOSE c \in Coefficients : TRUE)
  /\ subject # "algorithms" => lh = <<>> /\ rh = <<>>

StackStep ==
  /\ subject = "stack" /\ Stack!Next
  /\ UNCHANGED <<subject, vars, recursiveVars, vectorVars, functionVars, numberVars, containerVars>>

RoundRobinStep == subject = "round robin" /\ Next /\ UNCHANGED <<subject, roundRobinRest>>

RecursiveRest == UNCHANGED <<subject, vars, stackVars, vectorVars, functionVars, numberVars, containerVars>>
RecursiveStep == subject = "recursive" /\ RecursiveNext /\ RecursiveRest

VectorStep ==
  /\ subject = "vector" /\ Vector!VectorNext
  /\ UNCHANGED <<subject, vars, stackVars, recursiveVars, functionVars, numberVars, containerVars>>

FunctionStep ==
  /\ subject = "function" /\ Function!FunctionNext
  /\ UNCHANGED <<subject, vars, stackVars, recursiveVars, vectorVars, numberVars, containerVars>>

NumbersStep ==
  /\ \/ subject = "bounded" /\ BoundedNext /\ UNCHANGED pidVars
     \/ subject = "pid" /\ PidNext /\ UNCHANGED boundedVars
  /\ UNCHANGED <<subject, vars, stackVars, recursiveVars, vectorVars, functionVars, containerVars>>

MCNext == StackStep \/ RoundRobinStep \/ RecursiveStep \/ VectorStep \/ FunctionStep \/ NumbersStep

(* The owner of a session answers and ticks; whoever runs a recursive      *)
(* coroutine ticks it, and a device answers.                               *)
MCSpec ==
  /\ MCInit /\ [][MCNext]_allVars
  /\ WF_allVars(subject = "round robin" /\ OwnerAnswers /\ UNCHANGED <<subject, roundRobinRest>>)
  /\ WF_allVars(subject = "round robin" /\ Tick /\ UNCHANGED <<subject, roundRobinRest>>)
  /\ WF_allVars(subject = "recursive" /\ TickRecursive /\ RecursiveRest)
  /\ WF_allVars(subject = "recursive" /\ AnswerDevice /\ RecursiveRest)

-----------------------------------------------------------------------------
(* Every variable of every part keeps its type; coroutines keep the        *)
(* invariants that the proofs about them rest on.                          *)
LibraryTypeOK ==
  /\ TypeOK /\ SessionInv /\ Stack!TypeOK /\ RecursiveInv
  /\ Vector!VectorTypeOK /\ Function!FunctionTypeOK /\ NumbersTypeOK

(* stack_resource: see BlocksArePrivate and BlocksAreAccounted there.      *)
BlocksArePrivate == Stack!BlocksArePrivate
BlocksAreAccounted == Stack!BlocksAreAccounted

(* Coroutines end.  A session of round_robin_run whose owner answers and   *)
(* ticks runs to its end unless it is destroyed; run() of a recursive      *)
(* coroutine ends whatever the bodies do, if they make finitely many       *)
(* awaits and every device answers.                                        *)
EveryoneEnds == SessionsEnd /\ (subject = "recursive" ~> RunEnded)

(* static_vector implements bounded stacks: see BoundedStack.              *)
VectorsAreStacks == Vector!Stacks!Spec

(* No item of a static_vector and no callable of a static_function is      *)
(* leaked, destroyed twice or outside its storage, and vectors compare as  *)
(* sequences.  See SizeCountsItems, OrderIsTotal and CallablesAreOwned.    *)
ContainersOwnTheirItems ==
  Vector!SizeCountsItems /\ Vector!OrderIsTotal /\ Function!CallablesAreOwned

(* Algorithms, views, zip, index functions: see AlgorithmsAgree there.     *)
AlgorithmsAgree == Algorithm!AlgorithmsAgree

=============================================================================
