----------------------------- MODULE MCProgress -----------------------------
(***************************************************************************)
(* What must go on in the end, for TLC: the threads at a SpinLock; Run()   *)
(* of TaskCtrl on one CPU, where three tasks register themselves again and *)
(* again; and KernelSleep, where the CPU halts.  Only one of the three,    *)
(* chosen in the initial state, takes steps.                               *)
(***************************************************************************)
EXTENDS MCSpinLock

CONSTANTS c1, a, b, d, Null

VARIABLES
  what,                                               \* what is looked at
  lNext, lPrev, lStatus, lCpuid, lTop, lBottom, lTopSub, lBottomSub,
  lState, lPc, lCur, lRmTask, lRmCpu, lPanic,         \* TaskCtrl
  kState, kTasks, kCallout, kTimer, kIpi, kPc         \* KernelSleep

HomeOfOneCpu == (a :> {c1}) @@ (b :> {c1}) @@ (d :> {c1})

L == INSTANCE TaskCtrl WITH
       Cpus <- {c1}, Tasks <- {a, b, d}, Clients <- {}, Home <- HomeOfOneCpu,
       next <- lNext, prev <- lPrev, status <- lStatus, cpuid <-
       lCpuid, top <- lTop, bottom <- lBottom, topSub <- lTopSub,
       bottomSub <- lBottomSub, state <- lState, pc <- lPc, cur <-
       lCur, rmTask <- lRmTask, rmCpu <- lRmCpu, panic <- lPanic

K == INSTANCE KernelSleep WITH
       MaxTasks <- 2, state <- kState, tasks <- kTasks, callout <- kCallout,
       timer <- kTimer, ipi <- kIpi, pc <- kPc

ASSUME L!TaskCtrlAssumption /\ K!KernelSleepAssumption

listVars == <<lNext, lPrev, lStatus, lCpuid, lTop, lBottom, lTopSub, lBottomSub,
              lState, lPc, lCur, lRmTask, lRmCpu, lPanic>>
kernelVars == <<kState, kTasks, kCallout, kTimer, kIpi, kPc>>

InitAny == what \in {"lock", "lists", "kernel"} /\ Init /\ L!Init /\ K!Init

NextAny ==
  /\ UNCHANGED what
  /\ \/ what = "lock" /\ Next /\ UNCHANGED <<listVars, kernelVars>>
     \/ what = "lists" /\ L!Next /\ UNCHANGED <<vars, kernelVars>>
     \/ what = "kernel" /\ K!Next /\ UNCHANGED <<vars, listVars>>

\* The fairness of all three; only the one that is looked at takes steps.
FairSpecAny ==
  /\ InitAny /\ [][NextAny]_<<what, vars, listVars, kernelVars>>
  /\ \A t \in Threads : WF_vars(what = "lock" /\ Step(t))
  /\ WF_listVars(what = "lists" /\ ~lPanic /\ L!Run(c1))
  /\ WF_kernelVars(what = "kernel" /\ K!Run)
  /\ WF_kernelVars(what = "kernel" /\ K!TimerInterrupt)
  /\ WF_kernelVars(what = "kernel" /\ K!TakeIpi)

-----------------------------------------------------------------------------
\* TaskCtrl implements TaskFifo with the fairness that TaskFifo promises: the
\* task that waits longest is executed and its handler's return is noticed,
\* although the others register themselves for ever.
ImplementsFairTaskFifo == L!Fifo!FairSpec

\* Neither a task nor a callout is left to a CPU that halts, although what was
\* registered after its last look at the lists sends no interrupt, or one that
\* comes before hlt.
NothingIsOverslept ==
  []K!TypeOK /\ K!RegisteredTaskIsExecuted /\ K!CalloutsAreLookedAt
=============================================================================
