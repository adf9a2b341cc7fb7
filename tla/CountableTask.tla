--------------------------- MODULE CountableTask ---------------------------
(***************************************************************************)
(* CountableTask of rlib/task.{h,cc}: a task that may be incremented while *)
(* it waits in the queue and while it is executed, also from an interrupt  *)
(* handler.  It is registered when its counter leaves 0, and its handler   *)
(* registers it again until the counter is back at 0.  A section under     *)
(* _lock is one step; the task queue is the one of TaskFifo.               *)
(***************************************************************************)
EXTENDS Integers, Sequences

CONSTANTS
  Cpus,    \* the CPUs that execute tasks
  Tasks,   \* the CountableTask objects
  CpuOf,   \* the CPU that SetFunc() gets, a valid one
  MaxCnt,  \* bound of the model on _cnt, an int
  Null     \* the -1 of a _cpuid that is not set, and no task

ASSUME CountableTaskAssumption ==
  /\ CpuOf \in [Tasks -> Cpus]
  /\ MaxCnt \in Nat
  /\ Null \notin Tasks \cup Cpus

VARIABLES
  fifo, running,  \* the task queues of TaskFifo
  cpuid,          \* _cpuid
  cnt,            \* _cnt
  hpc             \* where each CPU is in HandleSub()

vars == <<fifo, running, cpuid, cnt, hpc>>

Q == INSTANCE TaskFifo WITH Home <- [t \in Tasks |-> {CpuOf[t]}]

HandleLabels == {"idle", "func", "count", "return"}

Init ==
  /\ Q!Init
  /\ cpuid = [t \in Tasks |-> Null]
  /\ cnt = [t \in Tasks |-> 0]
  /\ hpc = [c \in Cpus |-> "idle"]

\* The assigned CPU cannot be changed: SetFunc() is called once.
SetFunc(t) ==
  /\ cpuid[t] = Null
  /\ cpuid' = [cpuid EXCEPT ![t] = CpuOf[t]]
  /\ UNCHANGED <<fifo, running, cnt, hpc>>

\* Mutant: every increment registers the task.
Inc_AlwaysRegisters(t) ==
  /\ cpuid[t] # Null
  /\ cnt[t] < MaxCnt
  /\ cnt' = [cnt EXCEPT ![t] = @ + 1]
  /\ Q!Register(cpuid[t], t)
  /\ UNCHANGED <<cpuid, hpc>>

\* Inc() before SetFunc() does nothing.
Inc(t) ==
  /\ cpuid[t] # Null
  /\ cnt[t] < MaxCnt
  /\ cnt' = [cnt EXCEPT ![t] = @ + 1]
  /\ IF cnt[t] + 1 = 1
     THEN Q!Register(cpuid[t], t)
     ELSE UNCHANGED <<fifo, running>>
  /\ UNCHANGED <<cpuid, hpc>>

(***************************************************************************)
(* HandleSub(), the handler of the task.                                   *)
(***************************************************************************)
Goto(c, from, to) == hpc[c] = from /\ hpc' = [hpc EXCEPT ![c] = to]

Dispatch(c) ==
  /\ Q!Dispatch(c)
  /\ Goto(c, "idle", "func")
  /\ UNCHANGED <<cpuid, cnt>>

\* _func.Execute()
HandleFunc(c) ==
  /\ Goto(c, "func", "count")
  /\ UNCHANGED <<fifo, running, cpuid, cnt>>

\* Mutant: the handler registers its task again whatever the counter says.
HandleCount_AlwaysAgain(c) ==
  LET t == running[c]
  IN  /\ Goto(c, "count", "return")
      /\ cnt' = [cnt EXCEPT ![t] = @ - 1]
      /\ Q!Register(cpuid[t], t)
      /\ UNCHANGED cpuid

HandleCount(c) ==
  LET t == running[c]
  IN  /\ Goto(c, "count", "return")
      /\ cnt' = [cnt EXCEPT ![t] = @ - 1]
      /\ IF cnt[t] - 1 # 0
         THEN Q!Register(cpuid[t], t)
         ELSE UNCHANGED <<fifo, running>>
      /\ UNCHANGED cpuid

HandleReturn(c) ==
  /\ Q!Finish(c)
  /\ Goto(c, "return", "idle")
  /\ UNCHANGED <<cpuid, cnt>>

Handle(c) ==
  Dispatch(c) \/ HandleFunc(c) \/ HandleCount(c) \/ HandleReturn(c)

Next ==
  \/ \E t \in Tasks : SetFunc(t) \/ Inc(t)
  \/ \E c \in Cpus : Handle(c)

Spec == Init /\ [][Next]_vars

\* Every CPU executes its tasks, and every function returns.
FairSpec == Spec /\ \A c \in Cpus : WF_vars(Handle(c))

-----------------------------------------------------------------------------
\* The type invariant; the counter never becomes negative.
TypeOK ==
  /\ fifo \in [Cpus -> Seq(Tasks)]
  /\ running \in [Cpus -> Tasks \cup {Null}]
  /\ cpuid \in [Tasks -> Cpus \cup {Null}]
  /\ cnt \in [Tasks -> 0 .. MaxCnt]
  /\ hpc \in [Cpus -> HandleLabels]

\* CPU c executes the part of HandleSub() before the counter is decremented.
Handling(c, t) == running[c] = t /\ hpc[c] \in {"func", "count"}

\* The counter is positive exactly while the task waits in the queue or its
\* handler is going to decrement it, never both: an Inc() that does not
\* register the task relies on it, and so does one that does.
CountIsTheTask ==
  \A t \in Tasks :
    LET waits == Q!Waiting(t)
        handled == \E c \in Cpus : Handling(c, t)
    IN  /\ cnt[t] > 0 <=> waits \/ handled
        /\ ~(waits /\ handled)

\* The executions a task owes: its counter counts the one that has just taken
\* place until it is decremented.
Executed(t) == \E c \in Cpus : running[c] = t /\ hpc[c] = "count"

owed == [t \in Tasks |-> IF Executed(t) THEN cnt[t] - 1 ELSE cnt[t]]

P == INSTANCE Pending WITH pending <- owed

\* The function of a task is executed once for every Inc(): never more often,
ImplementsPending == P!Spec

\* and always as often.
ImplementsFairPending == P!FairSpec
=============================================================================
