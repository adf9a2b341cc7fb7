----------------------------- MODULE TaskClasses -----------------------------
(***************************************************************************)
(* The classes of tasks: CountableTask, Polling and Callout, each over     *)
(* task queues of its own.  They share no state, so a behaviour takes      *)
(* steps of one of them only, chosen in the initial state: the states of   *)
(* an instance are the sum of theirs and not the product, and the others   *)
(* rest in their initial state, where all that is claimed holds.           *)
(***************************************************************************)
EXTENDS CountableTask

CONSTANTS
  PollCpus, Pollings, PollCpuOf, Callers,            \* Polling
  CallCpus, Callouts, CallCpuOf, Lcks, Clients,      \* Callout
  Delays, Interval, NullReads,
  PastCrossing       \* is what follows a Cancel() that crosses HandleSub() looked at?

VARIABLES
  what,                                            \* the class that is looked at
  pFifo, pRunning, pstate, pHpc, pCall, pArg,      \* Polling
  cFifo, cRunning,                                 \* Callout
  next, left, cstate, lock, userLock, pending, due, pc,
  call, arg, armed, crossed, fault

PO == INSTANCE Polling WITH
       Cpus <- PollCpus, CpuOf <- PollCpuOf,
       fifo <- pFifo, running <- pRunning, hpc <- pHpc, call <- pCall, arg <- pArg

C == INSTANCE Callout WITH
       Cpus <- CallCpus, CpuOf <- CallCpuOf, fifo <- cFifo, running <- cRunning

ASSUME TaskClassesAssumption ==
  PO!PollingAssumption /\ C!CalloutAssumption /\ PastCrossing \in BOOLEAN

pollingVars == <<pFifo, pRunning, pstate, pHpc, pCall, pArg>>
calloutVars == <<cFifo, cRunning, next, left, cstate, lock, userLock, pending,
                 due, pc, call, arg, armed, crossed, fault>>
allVars == <<what, vars, pollingVars, calloutVars>>

InitAny ==
  /\ what \in {"countable", "polling", "callout"}
  /\ Init /\ PO!Init /\ C!Init

NextAny ==
  /\ UNCHANGED what
  /\ \/ what = "countable" /\ Next /\ UNCHANGED <<pollingVars, calloutVars>>
     \/ what = "polling" /\ PO!Next /\ UNCHANGED <<vars, calloutVars>>
     \/ /\ what = "callout" /\ (crossed => PastCrossing)
        /\ C!Next
        /\ UNCHANGED <<vars, pollingVars>>
     \/ what = "callout" /\ crossed /\ UNCHANGED allVars   \* nothing is claimed any more

SpecAny == InitAny /\ [][NextAny]_allVars

\* The fairness of each class; only the class that is looked at takes steps.
FairSpecAny ==
  /\ SpecAny
  /\ \A c \in Cpus : WF_vars(what = "countable" /\ Handle(c))
  /\ \A x \in Callers : WF_pollingVars(what = "polling" /\ PO!CallStep(x))
  /\ \A c \in PollCpus : SF_pollingVars(what = "polling" /\ PO!Handle(c))
  /\ WF_calloutVars(what = "callout" /\ ~fault /\ C!Tick)
  /\ \A x \in C!Threads :
       SF_calloutVars(what = "callout" /\ ~fault /\ C!CallStep(x))
  /\ \A c \in CallCpus : SF_calloutVars(what = "callout" /\ ~fault /\ C!CpuStep(c))

-----------------------------------------------------------------------------
\* A polling that stays on is handled again and again, and one that stays off
\* leaves the queue: RegisterPolling() and RemovePolling(), which only change
\* _state where they can, rely on the other and on HandleSub() for it.
PollingFollowsItsState == PO!PollsAsLongAsItIsOn /\ PO!LeavesTheQueueWhenOff

\* A polling that is on is looked at again, which RegisterPolling() relies on
\* when it returns at once; a callout that is registered is in one place of the
\* list, the task queue and the calls, never in two.
NothingIsForgotten ==
  PO!TypeOK /\ PO!OnMeansQueued /\ (~crossed => C!TypeOK) /\ C!RegisteredIsInOnePlace

\* The function of a callout is called once for every SetHandler(), not after a
\* Cancel() and never before its time, whoever calls them, its own function
\* included, until a Cancel() crosses HandleSub() (see crossed).
ExecutedWhenAsked == [][C!OnTime /\ C!OnlyRegistered]_calloutVars

\* SetHandler(), Cancel() and Run() do not wait for each other's locks for ever.
EveryCallReturns == C!EveryCallReturns

\* A callout is executed or cancelled, once the others stop being set.
ExecutedOnceOthersAreQuiet == C!ExecutedOnceOthersAreQuiet
=============================================================================
