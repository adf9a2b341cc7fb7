------------------------------- MODULE Polling -------------------------------
(***************************************************************************)
(* Polling and PollingFunc of rlib/polling.h: a task that registers itself *)
(* again each time it is executed, until RemovePolling() has set its state *)
(* to kStopped.  No lock protects _state, so every access to it is a step. *)
(* Every polling is registered on one CPU; the task queue is the one of    *)
(* TaskFifo.                                                               *)
(***************************************************************************)
EXTENDS Naturals, Sequences

CONSTANTS
  Cpus,      \* the CPUs that execute tasks
  Pollings,  \* the Polling objects
  CpuOf,     \* the CPU that RegisterPolling() gets, a valid one
  Callers,   \* who calls RegisterPolling() and RemovePolling(): other threads,
             \* and CPUs, from Handle() and from the handlers of other tasks
  Null       \* nobody

PollingAssumption ==
  CpuOf \in [Pollings -> Cpus] /\ Null \notin Pollings \cup Cpus \cup Callers

VARIABLES
  fifo, running,  \* the task queues of TaskFifo
  pstate,         \* _state
  hpc,            \* where each CPU is in HandleSub()
  call, arg       \* where each caller is, in a call for which polling

queue == <<fifo, running>>
vars == <<queue, pstate, hpc, call, arg>>

Q == INSTANCE TaskFifo WITH Tasks <- Pollings,
                            Home <- [p \in Pollings |-> {CpuOf[p]}]

PollingState == {"kPolling", "kStopped"}
HandleLabels == {"idle", "test", "handle", "again", "check", "remove", "return"}
CallLabels == {"no", "set", "register", "clear"}

Init ==
  /\ Q!Init
  /\ pstate = [p \in Pollings |-> "kStopped"]
  /\ hpc = [c \in Cpus |-> "idle"]
  /\ call = [x \in Callers |-> "no"]
  /\ arg = [x \in Callers |-> Null]

(***************************************************************************)
(* RegisterPolling() and RemovePolling()                                   *)
(***************************************************************************)
MayCall(x) == call[x] = "no" /\ (x \in Cpus => hpc[x] \in {"idle", "handle"})

Enter(x, p, label) ==
  call' = [call EXCEPT ![x] = label] /\ arg' = [arg EXCEPT ![x] = p]

RegisterPolling(x, p) ==
  /\ MayCall(x) /\ pstate[p] # "kPolling"
  /\ Enter(x, p, "set")
  /\ UNCHANGED <<queue, pstate, hpc>>

RegisterSet(x) ==
  /\ call[x] = "set"
  /\ pstate' = [pstate EXCEPT ![arg[x]] = "kPolling"]
  /\ Enter(x, arg[x], "register")
  /\ UNCHANGED <<queue, hpc>>

RegisterTask(x) ==
  /\ call[x] = "register"
  /\ Q!Register(CpuOf[arg[x]], arg[x])
  /\ Enter(x, Null, "no")
  /\ UNCHANGED <<pstate, hpc>>

RemovePolling(x, p) ==
  /\ MayCall(x) /\ pstate[p] # "kStopped"
  /\ Enter(x, p, "clear")
  /\ UNCHANGED <<queue, pstate, hpc>>

RemoveSet(x) ==
  /\ call[x] = "clear"
  /\ pstate' = [pstate EXCEPT ![arg[x]] = "kStopped"]
  /\ Enter(x, Null, "no")
  /\ UNCHANGED <<queue, hpc>>

CallStep(x) == RegisterSet(x) \/ RegisterTask(x) \/ RemoveSet(x)

(***************************************************************************)
(* HandleSub(); a CPU goes on when Handle() is not inside a call.          *)
(***************************************************************************)
Ready(c) == c \in Callers => call[c] = "no"

Goto(c, from, to) == /\ Ready(c) /\ hpc[c] = from
                     /\ hpc' = [hpc EXCEPT ![c] = to]

Dispatch(c) ==
  /\ Q!Dispatch(c)
  /\ Goto(c, "idle", "test")
  /\ UNCHANGED <<pstate, call, arg>>

IsOn(p) == pstate[p] = "kPolling"

HandleTest(c) ==
  /\ Goto(c, "test", IF IsOn(running[c]) THEN "handle" ELSE "check")
  /\ UNCHANGED <<queue, pstate, call, arg>>

\* Handle() returns.
HandleEnd(c) ==
  /\ Goto(c, "handle", "again")
  /\ UNCHANGED <<queue, pstate, call, arg>>

\* Mutant: the task is not registered again.
Again_Never(c, p) == UNCHANGED queue

Again(c, p) == Q!Register(c, p)

HandleAgain(c) ==
  /\ Goto(c, "again", "return")
  /\ Again(c, running[c])
  /\ UNCHANGED <<pstate, call, arg>>

\* RemovePolling() from HandleSub(): it tests the state that was kStopped.
HandleCheck(c) ==
  /\ Goto(c, "check", IF pstate[running[c]] = "kStopped" THEN "return" ELSE "remove")
  /\ UNCHANGED <<queue, pstate, call, arg>>

HandleRemove(c) ==
  /\ Goto(c, "remove", "return")
  /\ pstate' = [pstate EXCEPT ![running[c]] = "kStopped"]
  /\ UNCHANGED <<queue, call, arg>>

HandleReturn(c) ==
  /\ Q!Finish(c)
  /\ Goto(c, "return", "idle")
  /\ UNCHANGED <<pstate, call, arg>>

Handle(c) ==
  \/ Dispatch(c) \/ HandleTest(c) \/ HandleEnd(c) \/ HandleAgain(c)
  \/ HandleCheck(c) \/ HandleRemove(c) \/ HandleReturn(c)

Next ==
  \/ \E x \in Callers : \/ \E p \in Pollings : \/ RegisterPolling(x, p)
                                               \/ RemovePolling(x, p)
                        \/ CallStep(x)
  \/ \E c \in Cpus : Handle(c)

Spec == Init /\ [][Next]_vars

\* Every call and every Handle() returns, and a CPU gets to its tasks again and
\* again, whatever it calls in between.
FairSpec == /\ Spec
            /\ \A x \in Callers : WF_vars(CallStep(x))
            /\ \A c \in Cpus : SF_vars(Handle(c))

-----------------------------------------------------------------------------
\* The type invariant; a CPU is in HandleSub() with a task, a caller in a call
\* with a polling.
TypeOK ==
  /\ fifo \in [Cpus -> Seq(Pollings)]
  /\ running \in [Cpus -> Pollings \cup {Null}]
  /\ pstate \in [Pollings -> PollingState]
  /\ hpc \in [Cpus -> HandleLabels]
  /\ call \in [Callers -> CallLabels]
  /\ arg \in [Callers -> Pollings \cup {Null}]
  /\ \A c \in Cpus : hpc[c] = "idle" <=> running[c] = Null
  /\ \A x \in Callers : call[x] = "no" <=> arg[x] = Null

\* A polling that is on is looked at again: its task waits, or HandleSub() has
\* still to look at its state or to register it, or the call that switched it
\* on has.  RegisterPolling() relies on it when it returns at once because the
\* state is kPolling already.
OnMeansQueued ==
  \A p \in Pollings : pstate[p] = "kPolling" =>
    \/ Q!Waiting(p)
    \/ \E c \in Cpus : /\ running[c] = p
                       /\ hpc[c] \in {"test", "handle", "again", "remove"}
    \/ \E x \in Callers : arg[x] = p /\ call[x] = "register"

\* A polling that stays on is handled again and again,
PollsAsLongAsItIsOn ==
  \A p \in Pollings :
    <>[](pstate[p] = "kPolling") =>
      []<>(\E c \in Cpus : running[c] = p /\ hpc[c] = "handle")

\* and one that stays off does not come back to the queue for ever.
LeavesTheQueueWhenOff ==
  \A p \in Pollings : <>[](pstate[p] = "kStopped") => <>[](~Q!Waiting(p))
=============================================================================
