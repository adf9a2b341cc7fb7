---------------------------- MODULE KernelSleep ----------------------------
(***************************************************************************)
(* The loop Run() of TaskCtrl in the kernel build, seen as a CPU that      *)
(* halts when it has nothing to do: between the last look at the lists and *)
(* hlt, tasks and callouts are registered by other CPUs, which send an     *)
(* interrupt only if the CPU's state says kSlept, and by the handlers of   *)
(* the CPU itself, which send none.  An interrupt before hlt does not end  *)
(* it.  What the lists look like is in TaskCtrl, the callouts in Callout.  *)
(***************************************************************************)
EXTENDS Naturals

CONSTANT MaxTasks  \* bound of the model: the tasks in the lists

KernelSleepAssumption == MaxTasks \in Nat \ {0}

VARIABLES
  state,    \* TaskQueueState of the CPU
  tasks,    \* how many tasks are in its two lists
  callout,  \* is its list of callouts not empty?
  timer,    \* does its timer send interrupts?
  ipi,      \* was an interrupt sent to it that it has not taken?
  pc        \* where its Run() is

vars == <<state, tasks, callout, timer, ipi, pc>>

Init ==
  /\ state = "kNotStarted" /\ tasks = 0 /\ callout = FALSE
  /\ timer = FALSE /\ ipi = FALSE /\ pc = "notStarted"

Goto(from, to) == pc = from /\ pc' = to

-----------------------------------------------------------------------------
Start ==
  /\ Goto("notStarted", "wake")
  /\ state' = "kNotRunning" /\ timer' = TRUE
  /\ UNCHANGED <<tasks, callout, ipi>>

\* The first section under the lock: the timer is stopped only after a sleep
\* in which callouts were waiting.
Wake ==
  /\ Goto("wake", IF state = "kNotRunning" THEN "callout" ELSE "pop")
  /\ timer' = (timer /\ state # "kNotRunning")
  /\ state' = "kRunning"
  /\ UNCHANGED <<tasks, callout, ipi>>

\* The first callout is due and becomes a task, or is left in its list; it
\* may have been the last.
LookAtCallouts ==
  /\ Goto("callout", "pop")
  /\ \/ UNCHANGED <<tasks, callout>>
     \/ callout /\ tasks < MaxTasks /\ tasks' = tasks + 1 /\ callout' \in BOOLEAN
  /\ UNCHANGED <<state, timer, ipi>>

Pop ==
  /\ pc = "pop"
  /\ IF tasks > 0 THEN tasks' = tasks - 1 /\ pc' = "execute"
                  ELSE pc' = "check" /\ UNCHANGED tasks
  /\ UNCHANGED <<state, callout, timer, ipi>>

\* The handler of the task returns; meanwhile it may register tasks.
Execute == Goto("execute", "pop") /\ UNCHANGED <<state, tasks, callout, timer, ipi>>

Check ==
  /\ IF tasks = 0 THEN Goto("check", "sleep") /\ state' = "kSlept"
                  ELSE Goto("check", "pop") /\ UNCHANGED state
  /\ UNCHANGED <<tasks, callout, timer, ipi>>

StateWithCallouts == IF callout THEN "kNotRunning" ELSE state

\* The section under dlock.
Sleep ==
  /\ Goto("sleep", "timer")
  /\ state' = StateWithCallouts
  /\ UNCHANGED <<tasks, callout, timer, ipi>>

\* Mutant: the timer is left as it is.
TimerBeforeHlt_Same == timer

TimerBeforeHlt == TRUE

StartTimer ==
  /\ Goto("timer", "hlt") /\ timer' = TimerBeforeHlt
  /\ UNCHANGED <<state, tasks, callout, ipi>>

Hlt == Goto("hlt", "halted") /\ UNCHANGED <<state, tasks, callout, timer, ipi>>

Run == \/ Start \/ Wake \/ LookAtCallouts \/ Pop \/ Execute \/ Check
       \/ Sleep \/ StartTimer \/ Hlt

-----------------------------------------------------------------------------
\* An interrupt ends hlt, and nothing else.
EndsHlt == pc' = IF pc = "halted" THEN "wake" ELSE pc

TimerInterrupt ==
  /\ timer /\ EndsHlt
  /\ UNCHANGED <<state, tasks, callout, timer, ipi>>

TakeIpi ==
  /\ ipi /\ ipi' = FALSE /\ EndsHlt
  /\ UNCHANGED <<state, tasks, callout, timer>>

\* ForceWakeup() on another CPU; not on the CPU itself.
ForceWakeup == ipi' = (ipi \/ state = "kSlept")

RegisterElsewhere ==
  /\ tasks < MaxTasks /\ tasks' = tasks + 1
  /\ ForceWakeup
  /\ UNCHANGED <<state, callout, timer, pc>>

\* A handler of the CPU, or the task that it executes.
RegisterHere ==
  /\ pc # "notStarted" /\ tasks < MaxTasks /\ tasks' = tasks + 1
  /\ EndsHlt
  /\ UNCHANGED <<state, callout, timer, ipi>>

\* RegisterCallout() on another CPU.
RegisterCallout ==
  /\ callout' = TRUE
  /\ ForceWakeup
  /\ UNCHANGED <<state, tasks, timer, pc>>

\* CancelCallout() of the last one.
CancelCallout ==
  /\ callout /\ callout' = FALSE
  /\ UNCHANGED <<state, tasks, timer, ipi, pc>>

Next == \/ Run \/ TimerInterrupt \/ TakeIpi
        \/ RegisterElsewhere \/ RegisterHere \/ RegisterCallout \/ CancelCallout

\* The CPU goes on, its handlers return, and a timer that was started sends
\* interrupts again and again.
Spec == /\ Init /\ [][Next]_vars
        /\ WF_vars(Run) /\ WF_vars(TimerInterrupt) /\ WF_vars(TakeIpi)

-----------------------------------------------------------------------------
\* The type invariant, and the kasserts of Run() about the state.
TypeOK ==
  /\ state \in {"kNotStarted", "kNotRunning", "kRunning", "kSlept"}
  /\ tasks \in 0 .. MaxTasks /\ callout \in BOOLEAN
  /\ timer \in BOOLEAN /\ ipi \in BOOLEAN
  /\ pc \in {"notStarted", "wake", "callout", "pop", "execute", "check",
             "sleep", "timer", "hlt", "halted"}
  /\ pc = "wake" => state \in {"kNotRunning", "kSlept"}
  /\ pc = "sleep" => state = "kSlept"

\* No wakeup is lost for good: a task is executed although it was registered
\* when the CPU had looked at the lists for the last time, and no interrupt was
\* sent or it came before hlt.
RegisteredTaskIsExecuted == tasks > 0 ~> pc = "execute"

\* A CPU that goes on sleeping comes back to its callouts, also to one that was
\* registered while it slept as a CPU without callouts.
CalloutsAreLookedAt == []<>(pc = "halted") => [](callout => <>(~callout \/ pc = "callout"))
=============================================================================
