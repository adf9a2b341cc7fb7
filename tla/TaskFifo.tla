------------------------------ MODULE TaskFifo ------------------------------
(***************************************************************************)
(* What TaskCtrl (rlib/task.h) promises: every CPU executes the tasks      *)
(* registered on it one at a time and in the order of registration; a task *)
(* that already waits is not registered twice; a task may be registered    *)
(* again while it executes; Remove takes a waiting task out.  TaskCtrl     *)
(* implements this specification with two linked lists per CPU, and the    *)
(* modules built on tasks (CountableTask, Functional) use this one.        *)
(***************************************************************************)
EXTENDS Sequences, Naturals

CONSTANTS
  Cpus,   \* the CPUs: threads that execute TaskCtrl::Run()
  Tasks,  \* the Task objects
  Home,   \* the CPUs on which the users of a task register it
  Null    \* no task: not an element of Tasks

VARIABLES
  fifo,    \* the waiting tasks of each CPU, the next one first
  running  \* the task whose handler each CPU executes, or Null

fifoVars == <<fifo, running>>

\* A sequence without its i-th element.
Without(q, i) == SubSeq(q, 1, i - 1) \o SubSeq(q, i + 1, Len(q))

Elements(q) == {q[i] : i \in DOMAIN q}

Waiting(t) == \E c \in Cpus : t \in Elements(fifo[c])

Init ==
  /\ fifo = [c \in Cpus |-> <<>>]
  /\ running = [c \in Cpus |-> Null]

\* Register(c, t) of a task that does not wait yet.
Enqueue(c, t) ==
  /\ ~Waiting(t)
  /\ fifo' = [fifo EXCEPT ![c] = Append(@, t)]
  /\ UNCHANGED running

\* Register(c, t): nothing happens when the task waits already.
Register(c, t) ==
  Enqueue(c, t) \/ (Waiting(t) /\ UNCHANGED fifoVars)

Remove(t) ==
  /\ \E c \in Cpus : \E i \in DOMAIN fifo[c] :
       /\ fifo[c][i] = t
       /\ fifo' = [fifo EXCEPT ![c] = Without(@, i)]
  /\ UNCHANGED running

\* The CPU takes the task that waits longest and calls its handler.
Dispatch(c) ==
  /\ running[c] = Null
  /\ fifo[c] # <<>>
  /\ fifo' = [fifo EXCEPT ![c] = Tail(@)]
  /\ running' = [running EXCEPT ![c] = Head(fifo[c])]

\* The handler has returned.
Finish(c) ==
  /\ running[c] # Null
  /\ running' = [running EXCEPT ![c] = Null]
  /\ UNCHANGED fifo

Next ==
  \/ \E t \in Tasks : \/ \E c \in Home[t] : Enqueue(c, t)
                      \/ Remove(t)
  \/ \E c \in Cpus : Dispatch(c) \/ Finish(c)

Spec == Init /\ [][Next]_fifoVars

FairSpec ==
  Spec /\ \A c \in Cpus : WF_fifoVars(Dispatch(c)) /\ WF_fifoVars(Finish(c))
=============================================================================
