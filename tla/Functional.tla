----------------------------- MODULE Functional -----------------------------
(***************************************************************************)
(* Functional of rlib/functional.{h,cc} with the buffer of its subclasses: *)
(* FunctionalQueue (rlib/queue.h) and FunctionalRingBuffer (rlib/buf.h).   *)
(* Threads push items; the first push of a burst registers a task whose    *)
(* handler calls the user's function and registers itself again while      *)
(* there is something left.                                                *)
(*                                                                         *)
(* Push() and WakeupFunction(), and the parts of Handle(), are separate    *)
(* steps; each section under _lock is one step.  The buffer is a sequence: *)
(* its own operations are sections of its own lock.  The task queue is the *)
(* one of TaskFifo.                                                        *)
(***************************************************************************)
EXTENDS Naturals, Sequences

CONSTANTS
  Cpus,         \* the CPUs that execute tasks
  Functionals,  \* the Functional objects; each has one task
  CpuOf,        \* the CPU that SetFunction() gets
  Clients,      \* the threads that push, and the item each of them pushes
  Capacity,     \* how many items a buffer takes
  Null          \* nothing

ASSUME FunctionalAssumption ==
  /\ CpuOf \in [Functionals -> Cpus]
  /\ Capacity \in Nat \ {0}
  /\ Null \notin Functionals

VARIABLES
  fifo, running,  \* the task queues of TaskFifo
  func,           \* has SetFunction() been called?
  buf,            \* the content of the buffer
  fstate,         \* _state
  target,         \* the object each client is pushing to, or Null
  ppc,            \* where each client is in Push()
  hpc             \* where each CPU is in Handle()

vars == <<fifo, running, func, buf, fstate, target, ppc, hpc>>

Q == INSTANCE TaskFifo WITH
       Tasks <- Functionals,
       Home  <- [f \in Functionals |-> {CpuOf[f]}]

FunctionState == {"kFunctioning", "kNotFunctioning"}
PushLabels == {"idle", "check", "wakeup"}
HandleLabels == {"idle", "should", "func", "recheck", "register", "return"}

Init ==
  /\ Q!Init
  /\ func = [f \in Functionals |-> FALSE]
  /\ buf = [f \in Functionals |-> <<>>]
  /\ fstate = [f \in Functionals |-> "kNotFunctioning"]
  /\ target = [k \in Clients |-> Null]
  /\ ppc = [k \in Clients |-> "idle"]
  /\ hpc = [c \in Cpus |-> "idle"]

\* kassert(!_func.CanExecute()): SetFunction() is called once.
SetFunction(f) ==
  /\ ~func[f]
  /\ func' = [func EXCEPT ![f] = TRUE]
  /\ UNCHANGED <<fifo, running, buf, fstate, target, ppc, hpc>>

(***************************************************************************)
(* Push(): the buffer's Push(), then WakeupFunction().                     *)
(***************************************************************************)

Put(q, i) == IF Len(q) < Capacity THEN Append(q, i) ELSE q

\* A full ring buffer drops the item; the function is woken up all the same.
Push(k, f) ==
  /\ ppc[k] = "idle"
  /\ k \notin Q!Elements(buf[f])
  /\ buf' = [buf EXCEPT ![f] = Put(@, k)]
  /\ target' = [target EXCEPT ![k] = f]
  /\ ppc' = [ppc EXCEPT ![k] = "check"]
  /\ UNCHANGED <<fifo, running, func, fstate, hpc>>

PushReturns(k) == /\ ppc' = [ppc EXCEPT ![k] = "idle"]
                  /\ target' = [target EXCEPT ![k] = Null]

\* _func.CanExecute(), read without the lock.
WakeupCheck(k) ==
  /\ ppc[k] = "check"
  /\ IF func[target[k]]
     THEN /\ ppc' = [ppc EXCEPT ![k] = "wakeup"]
          /\ UNCHANGED target
     ELSE PushReturns(k)
  /\ UNCHANGED <<fifo, running, func, buf, fstate, hpc>>

\* Mutant: the task is registered whatever _state says.
WakeupFunction_NoState(k) ==
  LET f == target[k]
  IN  /\ ppc[k] = "wakeup"
      /\ fstate' = [fstate EXCEPT ![f] = "kFunctioning"]
      /\ Q!Register(CpuOf[f], f)
      /\ PushReturns(k)
      /\ UNCHANGED <<func, buf, hpc>>

WakeupFunction(k) ==
  LET f == target[k]
  IN  /\ ppc[k] = "wakeup"
      /\ \/ /\ fstate[f] = "kFunctioning"
            /\ UNCHANGED <<fstate, fifo, running>>
         \/ /\ fstate[f] # "kFunctioning"
            /\ fstate' = [fstate EXCEPT ![f] = "kFunctioning"]
            /\ Q!Register(CpuOf[f], f)
      /\ PushReturns(k)
      /\ UNCHANGED <<func, buf, hpc>>

(***************************************************************************)
(* Handle(), the handler of the task.                                      *)
(***************************************************************************)
Goto(c, from, to) == hpc[c] = from /\ hpc' = [hpc EXCEPT ![c] = to]

Dispatch(c) ==
  /\ Q!Dispatch(c)
  /\ Goto(c, "idle", "should")
  /\ UNCHANGED <<func, buf, fstate, target, ppc>>

HandleShould(c) ==
  /\ hpc[c] = "should"
  /\ hpc' = [hpc EXCEPT ![c] = IF buf[running[c]] # <<>> THEN "func" ELSE "recheck"]
  /\ UNCHANGED <<fifo, running, func, buf, fstate, target, ppc>>

TakeOne(f) == buf' = [buf EXCEPT ![f] = IF @ = <<>> THEN @ ELSE Tail(@)]

\* The user's function pops one item or several, and returns.
HandleFuncPops(c) ==
  /\ hpc[c] = "func"
  /\ buf[running[c]] # <<>>
  /\ TakeOne(running[c])
  /\ UNCHANGED <<fifo, running, func, fstate, target, ppc, hpc>>

HandleFuncReturns(c) ==
  /\ Goto(c, "func", "recheck")
  /\ TakeOne(running[c])
  /\ UNCHANGED <<fifo, running, func, fstate, target, ppc>>

\* Mutant: the state is reset without looking at the buffer again.
HandleRecheck_NoTest(c) ==
  /\ Goto(c, "recheck", "return")
  /\ fstate' = [fstate EXCEPT ![running[c]] = "kNotFunctioning"]
  /\ UNCHANGED <<fifo, running, func, buf, target, ppc>>

\* ShouldFunc() again, now under _lock.
HandleRecheck(c) ==
  LET f == running[c]
  IN  /\ hpc[c] = "recheck"
      /\ \/ /\ buf[f] = <<>>
            /\ hpc' = [hpc EXCEPT ![c] = "return"]
            /\ fstate' = [fstate EXCEPT ![f] = "kNotFunctioning"]
         \/ /\ buf[f] # <<>>
            /\ hpc' = [hpc EXCEPT ![c] = "register"]
            /\ UNCHANGED fstate
      /\ UNCHANGED <<fifo, running, func, buf, target, ppc>>

HandleRegister(c) ==
  /\ Goto(c, "register", "return")
  /\ Q!Register(CpuOf[running[c]], running[c])
  /\ UNCHANGED <<func, buf, fstate, target, ppc>>

HandleReturn(c) ==
  /\ Q!Finish(c)
  /\ Goto(c, "return", "idle")
  /\ UNCHANGED <<func, buf, fstate, target, ppc>>

Handle(c) ==
  \/ Dispatch(c) \/ HandleShould(c) \/ HandleFuncReturns(c)
  \/ HandleRecheck(c) \/ HandleRegister(c) \/ HandleReturn(c)

\* Some other thread takes an item itself, with Pop().
Pop(f) ==
  /\ buf[f] # <<>>
  /\ TakeOne(f)
  /\ UNCHANGED <<fifo, running, func, fstate, target, ppc, hpc>>

Next ==
  \/ \E f \in Functionals : SetFunction(f) \/ Pop(f)
  \/ \E k \in Clients : \/ \E f \in Functionals : Push(k, f)
                        \/ WakeupCheck(k) \/ WakeupFunction(k)
  \/ \E c \in Cpus : Handle(c) \/ HandleFuncPops(c)

Spec == Init /\ [][Next]_vars

\* A Push() that has begun ends, every CPU executes its tasks, and the user's
\* function returns however many items it finds.
FairSpec ==
  /\ Spec
  /\ \A k \in Clients : WF_vars(WakeupCheck(k) \/ WakeupFunction(k))
  /\ \A c \in Cpus : WF_vars(Handle(c))

-----------------------------------------------------------------------------
\* The type invariant.
TypeOK ==
  /\ fifo \in [Cpus -> Seq(Functionals)]
  /\ running \in [Cpus -> Functionals \cup {Null}]
  /\ func \in [Functionals -> BOOLEAN]
  /\ buf \in [Functionals -> Seq(Clients)]
  /\ \A f \in Functionals : Len(buf[f]) <= Capacity
  /\ fstate \in [Functionals -> FunctionState]
  /\ target \in [Clients -> Functionals \cup {Null}]
  /\ ppc \in [Clients -> PushLabels]
  /\ hpc \in [Cpus -> HandleLabels]

\* CPU c executes the part of Handle() for f that is still going to look at
\* the buffer or to register the task.
Handling(c, f) == running[c] = f /\ hpc[c] # "return"

\* _state is kFunctioning exactly while the task waits in the queue or its
\* handler is going to look at the buffer again, never both: a wakeup that is
\* skipped because of _state is never lost, and one burst of pushes never
\* queues the task twice.
StateIsTheTask ==
  \A f \in Functionals :
    LET waits == Q!Waiting(f)
        handled == \E c \in Cpus : Handling(c, f)
    IN  /\ fstate[f] = "kFunctioning" <=> waits \/ handled
        /\ ~(waits /\ handled)

\* An item whose Push() finds the function set is taken out again, although
\* the handler may be about to reset _state at that very moment.  (Items that
\* were pushed before SetFunction() wait for the next push: the run says
\* nothing about them.)
EveryPushIsServed ==
  \A k \in Clients, f \in Functionals :
    (ppc[k] = "check" /\ target[k] = f /\ func[f])
      ~> k \notin Q!Elements(buf[f])
=============================================================================
