-------------------------- MODULE TaskClassProofs --------------------------
(***************************************************************************)
(* Theorems about the classes of tasks, for any number of CPUs, threads    *)
(* and tasks.  CountableTask: the counter tells whether the task is        *)
(* queued, and the function is never executed more often than Inc() was    *)
(* called.  Polling: one that is on is looked at again.  Callout: one that *)
(* is registered is in one place, and its function is called in time.      *)
(***************************************************************************)
EXTENDS TaskClasses, ListLemmas

\* A CPU is inside HandleSub() exactly while it has a task in hand, one of its
\* own, and only tasks with a CPU are queued.
HandlersAtHome ==
  /\ \A c \in Cpus : hpc[c] = "idle" <=> running[c] = Null
  /\ \A c \in Cpus : running[c] # Null => c = CpuOf[running[c]]
  /\ \A t \in Tasks : cpuid[t] \in {Null, CpuOf[t]}
  /\ \A t \in Tasks : cnt[t] > 0 => cpuid[t] = CpuOf[t]

\* Every task waits at most once, on its own CPU.
FifoInv ==
  /\ Queues(fifo, Cpus, Tasks, CpuOf)
  /\ running \in [Cpus -> Tasks \cup {Null}]

\* The inductive invariant: the counter can be decremented because it is
\* positive while the task is handled, and it can be trusted not to register
\* the task because a positive counter means that it is queued or handled.
Inv == TypeOK /\ FifoInv /\ HandlersAtHome /\ CountIsTheTask

LEMMA HomeIsCpuOf ==
  CpuOf \in [Tasks -> Cpus] /\ MaxCnt \in Nat /\ Null \notin Tasks
  BY CountableTaskAssumption

LEMMA WaitingIsQueued ==
  ASSUME FifoInv
  PROVE  \A t : Q!Waiting(t) <=> Queued(fifo, t)
  BY DEF FifoInv, Queues, Queued, Q!Waiting, Q!Elements, Members

LEMMA WaitingIsQueuedNext ==
  ASSUME FifoInv'
  PROVE  \A t : Q!Waiting(t)' <=> Queued(fifo', t)
  BY DEF FifoInv, Queues, Queued, Q!Waiting, Q!Elements, Members

LEMMA InvInit == Init => Inv
<1> SUFFICES ASSUME Init PROVE Inv
  OBVIOUS
<1>1. fifo = [c \in Cpus |-> <<>>] /\ running = [c \in Cpus |-> Null]
  BY DEF Init, Q!Init
<1>2. FifoInv /\ (\A t : ~Q!Waiting(t)) /\ \A c \in Cpus : running[c] = Null
  <2>1. Queues(fifo, Cpus, Tasks, CpuOf) /\ \A t : ~Queued(fifo, t)
    BY <1>1, QueuesStart
  <2>2. FifoInv
    BY <1>1, <2>1 DEF FifoInv
  <2> QED BY <1>1, <2>1, <2>2, WaitingIsQueued
<1>3. TypeOK
  BY <1>2, HomeIsCpuOf DEF Init, TypeOK, HandleLabels, FifoInv, Queues
<1>4. HandlersAtHome /\ CountIsTheTask
  BY <1>2, HomeIsCpuOf DEF Init, HandlersAtHome, CountIsTheTask, Handling
<1> QED
  BY <1>2, <1>3, <1>4 DEF Inv

\* What registering a task on its CPU does to the queues.
LEMMA Registered ==
  ASSUME Inv, NEW t \in Tasks, Q!Register(CpuOf[t], t)
  PROVE  /\ FifoInv'
         /\ \A u \in Tasks : Q!Waiting(u)' <=> Q!Waiting(u) \/ u = t
         /\ UNCHANGED running
<1>1. FifoInv /\ CpuOf[t] \in Cpus
  BY HomeIsCpuOf DEF Inv
<1>2. CASE Q!Waiting(t)
  BY <1>1, <1>2 DEF Q!Register, Q!Enqueue, Q!fifoVars, Q!Waiting, FifoInv
<1>3. CASE ~Q!Waiting(t)
  <2>1. fifo' = Appended(fifo, CpuOf[t], t) /\ UNCHANGED running
    BY <1>3 DEF Q!Register, Q!Enqueue, Appended
  <2>2. /\ Queues(fifo', Cpus, Tasks, CpuOf)
        /\ \A u : Queued(fifo', u) <=> Queued(fifo, u) \/ u = t
    <3>1. ~Queued(fifo, t) /\ Queues(fifo, Cpus, Tasks, CpuOf)
      BY <1>1, <1>3, WaitingIsQueued DEF FifoInv
    <3> QED BY <1>1, <2>1, <3>1, QueuesAppend
  <2>3. FifoInv'
    BY <1>1, <2>1, <2>2 DEF FifoInv
  <2> QED BY <1>1, <2>1, <2>2, <2>3, WaitingIsQueued, WaitingIsQueuedNext
<1> QED BY <1>2, <1>3

\* What the CPU does to them when it takes a task.
LEMMA Dispatched ==
  ASSUME Inv, NEW c \in Cpus, Q!Dispatch(c)
  PROVE  \E t \in Tasks :
           /\ FifoInv' /\ c = CpuOf[t] /\ Q!Waiting(t)
           /\ running' = [running EXCEPT ![c] = t]
           /\ \A u : Q!Waiting(u)' <=> Q!Waiting(u) /\ u # t
<1> DEFINE t == Head(fifo[c])
<1> HIDE DEF t
<1>1. FifoInv /\ Queues(fifo, Cpus, Tasks, CpuOf) /\ fifo[c] # <<>>
  BY DEF Inv, FifoInv, Q!Dispatch
<1>2. /\ fifo' = Taken(fifo, c) /\ running' = [running EXCEPT ![c] = t]
  BY DEF Q!Dispatch, Taken, t
<1>3. /\ Queues(fifo', Cpus, Tasks, CpuOf)
      /\ t \in Tasks /\ CpuOf[t] = c /\ Queued(fifo, t)
      /\ \A u : Queued(fifo', u) <=> Queued(fifo, u) /\ u # t
  <2>1. IsNext(fifo, c, t)
    BY <1>1 DEF t, IsNext
  <2> QED BY <1>1, <1>2, <2>1, QueuesTail
<1>4. FifoInv'
  BY <1>1, <1>2, <1>3 DEF FifoInv
<1> QED BY <1>1, <1>2, <1>3, <1>4, WaitingIsQueued, WaitingIsQueuedNext

\* What it does when the handler has returned.
LEMMA Finished ==
  ASSUME Inv, NEW c \in Cpus, Q!Finish(c)
  PROVE  /\ FifoInv' /\ running' = [running EXCEPT ![c] = Null]
         /\ \A u : Q!Waiting(u)' <=> Q!Waiting(u)
  BY DEF Inv, FifoInv, Q!Finish, Q!Waiting

LEMMA InvNext == Inv /\ [Next]_vars => Inv'
<1> SUFFICES ASSUME Inv, [Next]_vars PROVE Inv'
  OBVIOUS
<1> USE HomeIsCpuOf
<1>1. ASSUME UNCHANGED <<fifo, running>>
      PROVE  FifoInv' /\ \A t : Q!Waiting(t)' <=> Q!Waiting(t)
  BY <1>1 DEF Inv, FifoInv, Q!Waiting
<1>2. ASSUME FifoInv'
      PROVE  fifo' \in [Cpus -> Seq(Tasks)] /\ running' \in [Cpus -> Tasks \cup {Null}]
  BY <1>2 DEF FifoInv, Queues
<1>3. ASSUME NEW t \in Tasks, SetFunc(t) PROVE Inv'
  BY <1>1, <1>3 DEF SetFunc, Inv, TypeOK, HandlersAtHome, CountIsTheTask,
     Handling
<1>4. ASSUME NEW t \in Tasks, Inc(t) PROVE Inv'
  <2>1. /\ cpuid[t] = CpuOf[t] /\ cnt[t] < MaxCnt
        /\ cnt' = [cnt EXCEPT ![t] = @ + 1] /\ UNCHANGED <<cpuid, hpc>>
    BY <1>4 DEF Inc, Inv, HandlersAtHome
  <2>2. /\ FifoInv' /\ UNCHANGED running
        /\ \A u \in Tasks : Q!Waiting(u)' <=> Q!Waiting(u) \/ (u = t /\ cnt[t] = 0)
    <3>1. CASE cnt[t] = 0
      BY <1>4, <2>1, <3>1, Registered DEF Inc
    <3>2. CASE cnt[t] # 0
      BY <1>1, <1>4, <3>2 DEF Inc, Inv, TypeOK
    <3> QED
      BY <3>1, <3>2
  <2>3. TypeOK' /\ HandlersAtHome'
    BY <1>2, <2>1, <2>2 DEF Inv, TypeOK, HandlersAtHome
  <2>4. CountIsTheTask'
    BY <2>1, <2>2 DEF Inv, TypeOK, CountIsTheTask, Handling
  <2> QED
    BY <2>2, <2>3, <2>4 DEF Inv
<1>5. ASSUME NEW c \in Cpus, Dispatch(c) PROVE Inv'
  <2>1. Q!Dispatch(c)
    BY <1>5 DEF Dispatch
  <2>2. PICK t \in Tasks :
          /\ FifoInv' /\ c = CpuOf[t] /\ Q!Waiting(t)
          /\ running' = [running EXCEPT ![c] = t]
          /\ \A u : Q!Waiting(u)' <=> Q!Waiting(u) /\ u # t
    BY <2>1, Dispatched
  <2>3. c = CpuOf[t]
    BY <2>2
  <2>4. hpc' = [hpc EXCEPT ![c] = "func"] /\ UNCHANGED <<cpuid, cnt>>
    BY <1>5 DEF Dispatch, Goto
  <2>5. TypeOK' /\ HandlersAtHome'
    BY <1>2, <2>2, <2>3, <2>4 DEF Inv, TypeOK, HandlersAtHome, HandleLabels
  <2>6. \A u \in Tasks : (\E d \in Cpus : Handling(d, u)')
                          <=> (\E d \in Cpus : Handling(d, u)) \/ u = t
    BY <1>5, <2>2, <2>4 DEF Inv, TypeOK, Handling, Dispatch, Goto
  <2>7. CountIsTheTask'
    BY <2>2, <2>3, <2>4, <2>6 DEF Inv, CountIsTheTask
  <2> QED
    BY <2>2, <2>5, <2>7 DEF Inv
<1>6. ASSUME NEW c \in Cpus, HandleFunc(c) PROVE Inv'
  BY <1>1, <1>2, <1>6 DEF HandleFunc, Goto, Inv, TypeOK, HandlersAtHome,
     CountIsTheTask, Handling, HandleLabels
<1>7. ASSUME NEW c \in Cpus, HandleCount(c) PROVE Inv'
  <2> DEFINE t == running[c]
  <2>1. hpc[c] = "count" /\ t \in Tasks /\ c = CpuOf[t] /\ Handling(c, t)
    BY <1>7 DEF HandleCount, Goto, Inv, TypeOK, HandlersAtHome, Handling
  <2>2. cnt[t] > 0 /\ ~Q!Waiting(t) /\ cpuid[t] = CpuOf[t] /\ cnt[t] \in 0 .. MaxCnt
    BY <2>1 DEF Inv, CountIsTheTask, HandlersAtHome, TypeOK
  <2>3. /\ hpc' = [hpc EXCEPT ![c] = "return"] /\ UNCHANGED cpuid
        /\ cnt' = [cnt EXCEPT ![t] = @ - 1]
    BY <1>7 DEF HandleCount, Goto
  <2>4. /\ FifoInv' /\ UNCHANGED running
        /\ \A u \in Tasks : Q!Waiting(u)' <=> Q!Waiting(u) \/ (u = t /\ cnt[t] # 1)
    <3>1. CASE cnt[t] # 1
      <4>1. Q!Register(CpuOf[t], t)
        BY <1>7, <2>2, <3>1 DEF HandleCount
      <4> QED
        BY <2>1, <3>1, <4>1, Registered
    <3>2. CASE cnt[t] = 1
      BY <1>1, <1>7, <3>2 DEF HandleCount
    <3> QED
      BY <3>1, <3>2
  <2>5. TypeOK' /\ HandlersAtHome'
    BY <1>2, <2>1, <2>2, <2>3, <2>4 DEF Inv, TypeOK, HandlersAtHome, HandleLabels
  <2>6. CountIsTheTask'
    <3>1. \A d \in Cpus : ~Handling(d, t)'
      BY <2>1, <2>3, <2>4 DEF Inv, TypeOK, HandlersAtHome, Handling
    <3>2. cnt'[t] = cnt[t] - 1 /\ \A u \in Tasks : u # t => cnt'[u] = cnt[u]
      BY <2>1, <2>3 DEF Inv, TypeOK
    <3>3. cnt'[t] > 0 <=> cnt[t] # 1
      BY <2>2, <3>2
    <3>4. \A u \in Tasks, d \in Cpus : u # t => (Handling(d, u)' <=> Handling(d, u))
      BY <2>1, <2>3, <2>4 DEF Inv, TypeOK, Handling
    <3>5. ASSUME NEW u \in Tasks
          PROVE  LET waits == Q!Waiting(u)'
                     handled == \E d \in Cpus : Handling(d, u)'
                 IN  /\ cnt'[u] > 0 <=> waits \/ handled
                     /\ ~(waits /\ handled)
      BY <2>2, <2>4, <3>1, <3>2, <3>3, <3>4 DEF Inv, CountIsTheTask
    <3> QED
      BY <3>5 DEF CountIsTheTask
  <2> QED
    BY <2>4, <2>5, <2>6 DEF Inv
<1>8. ASSUME NEW c \in Cpus, HandleReturn(c) PROVE Inv'
  <2>1. Q!Finish(c)
    BY <1>8 DEF HandleReturn
  <2>2. /\ FifoInv' /\ running' = [running EXCEPT ![c] = Null]
        /\ \A u : Q!Waiting(u)' <=> Q!Waiting(u)
    BY <2>1, Finished
  <2>3. hpc[c] = "return" /\ hpc' = [hpc EXCEPT ![c] = "idle"] /\ UNCHANGED <<cpuid, cnt>>
    BY <1>8 DEF HandleReturn, Goto
  <2>4. TypeOK' /\ HandlersAtHome'
    BY <1>2, <2>2, <2>3 DEF Inv, TypeOK, HandlersAtHome, HandleLabels
  <2>5. CountIsTheTask'
    BY <2>2, <2>3 DEF Inv, TypeOK, HandlersAtHome, CountIsTheTask, Handling
  <2> QED
    BY <2>2, <2>4, <2>5 DEF Inv
<1>9. CASE UNCHANGED vars
  BY <1>1, <1>2, <1>9 DEF vars, Inv, TypeOK, HandlersAtHome, CountIsTheTask,
     Handling
<1> QED
  BY <1>3, <1>4, <1>5, <1>6, <1>7, <1>8, <1>9 DEF Next, Handle

LEMMA InvCorrect == Spec => []Inv
  BY InvInit, InvNext, PTL DEF Spec

\* The type invariant holds; in particular the counter is never negative.
THEOREM TypeCorrect == Spec => []TypeOK
  BY InvCorrect, PTL DEF Inv

\* A positive counter means that the task is queued or handled, never both.
THEOREM CounterIsRight == Spec => []CountIsTheTask
  BY InvCorrect, PTL DEF Inv

-----------------------------------------------------------------------------
\* Every step of CountableTask is an Inc() or an execution in Pending, or
\* nothing: the function is never executed without an Inc() of its own.
THEOREM NeverTooOften == Spec => ImplementsPending
<1> USE HomeIsCpuOf
<1>1. Init => P!Init
  <2> SUFFICES ASSUME Init PROVE P!Init
    OBVIOUS
  <2>1. \A t \in Tasks : ~Executed(t) /\ cnt[t] = 0
    BY DEF Init, Executed
  <2> QED
    BY <2>1 DEF P!Init, owed
<1>2. Inv /\ [Next]_vars => [P!Next]_owed
  <2> SUFFICES ASSUME Inv, [Next]_vars PROVE [P!Next]_owed
    OBVIOUS
  <2>1. ASSUME \A t \in Tasks : (Executed(t)' <=> Executed(t)), UNCHANGED cnt
        PROVE  UNCHANGED owed
    BY <2>1 DEF owed
  <2>2. ASSUME NEW t \in Tasks, Inc(t) PROVE P!Post(t)
    <3>1. UNCHANGED <<running, hpc>> /\ cnt' = [cnt EXCEPT ![t] = @ + 1]
      <4>1. cnt[t] = 0 => UNCHANGED running
        BY <2>2, Registered DEF Inc, Inv, HandlersAtHome
      <4>2. cnt[t] # 0 => UNCHANGED running
        BY <2>2 DEF Inc, Inv, TypeOK
      <4> QED
        BY <2>2, <4>1, <4>2 DEF Inc
    <3>2. \A u \in Tasks : Executed(u)' <=> Executed(u)
      BY <3>1 DEF Executed
    <3>3. \A u \in Tasks : cnt[u] \in Int
      BY DEF Inv, TypeOK
    <3>4. \A u \in Tasks : cnt'[u] = IF u = t THEN cnt[u] + 1 ELSE cnt[u]
      BY <3>1 DEF Inv, TypeOK
    <3>5. \A u \in Tasks : (IF Executed(u)' THEN cnt'[u] - 1 ELSE cnt'[u])
                          = (IF u = t THEN owed[u] + 1 ELSE owed[u])
      BY <3>2, <3>3, <3>4 DEF owed
    <3> QED
      BY <3>5 DEF P!Post, owed
  <2>3. ASSUME NEW c \in Cpus, HandleFunc(c) PROVE P!Serve(running[c])
    <3> DEFINE t == running[c]
    <3>1. t \in Tasks /\ c = CpuOf[t] /\ Handling(c, t) /\ hpc[c] = "func"
      BY <2>3 DEF HandleFunc, Goto, Inv, TypeOK, HandlersAtHome, Handling
    <3>2. cnt[t] > 0 /\ cnt[t] \in Nat
      BY <3>1 DEF Inv, CountIsTheTask, TypeOK
    <3>3. ~Executed(t)
      BY <3>1 DEF Executed, Inv, HandlersAtHome
    <3>4. UNCHANGED <<running, cnt>> /\ hpc' = [hpc EXCEPT ![c] = "count"]
      BY <2>3 DEF HandleFunc, Goto
    <3>5. \A u \in Tasks : Executed(u)' <=> Executed(u) \/ u = t
      BY <3>1, <3>4 DEF Executed, Inv, TypeOK
    <3>6. owed' = [owed EXCEPT ![t] = @ - 1]
      BY <3>1, <3>3, <3>4, <3>5 DEF owed
    <3>7. owed[t] = cnt[t]
      BY <3>1, <3>3 DEF owed
    <3> QED
      BY <3>2, <3>6, <3>7 DEF P!Serve
  <2>4. ASSUME NEW c \in Cpus, HandleCount(c) PROVE UNCHANGED owed
    <3> DEFINE t == running[c]
    <3>1. t \in Tasks /\ c = CpuOf[t] /\ hpc[c] = "count" /\ cpuid[t] = CpuOf[t]
      BY <2>4 DEF HandleCount, Goto, Inv, TypeOK, HandlersAtHome, Handling,
         CountIsTheTask
    <3>2. UNCHANGED running
      <4>1. CASE cnt[t] - 1 = 0
        BY <2>4, <4>1 DEF HandleCount
      <4>2. CASE cnt[t] - 1 # 0
        BY <2>4, <3>1, <4>2, Registered DEF HandleCount
      <4> QED
        BY <4>1, <4>2
    <3>3. /\ hpc' = [hpc EXCEPT ![c] = "return"]
          /\ cnt' = [cnt EXCEPT ![t] = @ - 1]
      BY <2>4 DEF HandleCount, Goto
    <3>4. Executed(t) /\ ~Executed(t)'
      BY <3>1, <3>2, <3>3 DEF Executed, Inv, TypeOK, HandlersAtHome
    <3>5. \A u \in Tasks : u # t => (Executed(u)' <=> Executed(u))
      BY <3>1, <3>2, <3>3 DEF Executed, Inv, TypeOK
    <3>6. \A u \in Tasks : (IF Executed(u)' THEN cnt'[u] - 1 ELSE cnt'[u])
                          = (IF Executed(u) THEN cnt[u] - 1 ELSE cnt[u])
      BY <3>1, <3>2, <3>3, <3>4, <3>5 DEF Inv, TypeOK
    <3> QED
      BY <3>6 DEF owed
  <2>5. ASSUME NEW c \in Cpus, Dispatch(c) \/ HandleReturn(c)
        PROVE  UNCHANGED owed
    <3>1. \A t \in Tasks : Executed(t)' <=> Executed(t)
      BY <2>5 DEF Executed, Dispatch, HandleReturn, Q!Dispatch, Q!Finish, Goto,
         Inv, TypeOK
    <3> QED
      BY <2>1, <2>5, <3>1 DEF Dispatch, HandleReturn
  <2>6. ASSUME NEW t \in Tasks, SetFunc(t) PROVE UNCHANGED owed
    BY <2>1, <2>6 DEF SetFunc, Executed
  <2>7. CASE UNCHANGED vars
    BY <2>1, <2>7 DEF vars, Executed
  <2>8. ASSUME NEW c \in Cpus, HandleFunc(c) PROVE P!Next
    <3>1. running[c] \in Tasks
      BY <2>8 DEF HandleFunc, Goto, Inv, TypeOK, HandlersAtHome
    <3> QED
      BY <2>3, <2>8, <3>1 DEF P!Next
  <2> QED
    BY <2>2, <2>4, <2>5, <2>6, <2>7, <2>8 DEF Next, Handle, P!Next
<1> QED
  BY <1>1, <1>2, InvCorrect, PTL DEF Spec, ImplementsPending, P!Spec
-----------------------------------------------------------------------------
(***************************************************************************)
(* Polling.                                                                *)
(***************************************************************************)
PollQueues ==
  /\ Queues(pFifo, PollCpus, Pollings, PollCpuOf)
  /\ pRunning \in [PollCpus -> Pollings \cup {Null}]
  /\ \A c \in PollCpus : pRunning[c] # Null => c = PollCpuOf[pRunning[c]]

\* The inductive invariant.
PollInv == PO!TypeOK /\ PollQueues /\ PO!OnMeansQueued

LEMMA PollFacts ==
  /\ PollCpuOf \in [Pollings -> PollCpus]
  /\ Null \notin Pollings /\ Null \notin PollCpus /\ Null \notin Callers
  BY TaskClassesAssumption DEF PO!PollingAssumption

LEMMA PollWaiting ==
  ASSUME Queues(pFifo, PollCpus, Pollings, PollCpuOf)
  PROVE  \A p : PO!Q!Waiting(p) <=> Queued(pFifo, p)
  BY DEF Queues, Queued, PO!Q!Waiting, PO!Q!Elements, Members
LEMMA PollWaitingNext ==
  ASSUME Queues(pFifo', PollCpus, Pollings, PollCpuOf)
  PROVE  \A p : PO!Q!Waiting(p)' <=> Queued(pFifo', p)
  BY DEF Queues, Queued, PO!Q!Waiting, PO!Q!Elements, Members

LEMMA PollRegistered ==
  ASSUME PollQueues, NEW p \in Pollings, PO!Q!Register(PollCpuOf[p], p)
  PROVE  /\ PollQueues' /\ UNCHANGED pRunning
         /\ pFifo' \in [PollCpus -> Seq(Pollings)]
         /\ \A q : PO!Q!Waiting(q)' <=> PO!Q!Waiting(q) \/ q = p
<1>1. UNCHANGED pRunning /\ Joins(pFifo, pFifo', PollCpuOf[p], p)
  BY PollWaiting DEF PollQueues, PO!Q!Register, PO!Q!Enqueue, PO!Q!fifoVars,
     Joins, Appended
<1>2. /\ Queues(pFifo', PollCpus, Pollings, PollCpuOf)
      /\ \A q : Queued(pFifo', q) <=> Queued(pFifo, q) \/ q = p
  BY <1>1, PollFacts, QueuesJoin DEF PollQueues
<1>3. PollQueues' /\ pFifo' \in [PollCpus -> Seq(Pollings)]
  BY <1>1, <1>2 DEF PollQueues, Queues
<1> QED BY <1>1, <1>2, <1>3, PollWaiting, PollWaitingNext DEF PollQueues

LEMMA PollInvInit == PO!Init => PollInv
<1> SUFFICES ASSUME PO!Init PROVE PollInv
  OBVIOUS
<1>1. pFifo = [c \in PollCpus |-> << >>] /\ pRunning = [c \in PollCpus |-> Null]
  BY DEF PO!Init, PO!Q!Init
<1>2. PollQueues
  <2>1. Queues(pFifo, PollCpus, Pollings, PollCpuOf)
    BY <1>1, QueuesStart
  <2> QED BY <1>1, <2>1 DEF PollQueues
<1>3. PO!TypeOK
  BY <1>1, <1>2 DEF PO!Init, PO!TypeOK, PO!PollingState, PO!HandleLabels,
     PO!CallLabels, PollQueues, Queues
<1>4. PO!OnMeansQueued
  BY DEF PO!Init, PO!OnMeansQueued
<1> QED BY <1>2, <1>3, <1>4 DEF PollInv

\* Who sees to a polling that is on, if it does not wait.
LookedAt(p) ==
  \E c \in PollCpus : /\ pRunning[c] = p
                      /\ pHpc[c] \in {"test", "handle", "again", "remove"}

SwitchedOn(p) == \E x \in Callers : pArg[x] = p /\ pCall[x] = "register"

SeenTo(p) == PO!Q!Waiting(p) \/ LookedAt(p) \/ SwitchedOn(p)

LEMMA SeenToIs ==
  /\ PO!OnMeansQueued <=> \A p \in Pollings : pstate[p] = "kPolling" => SeenTo(p)
  /\ PO!OnMeansQueued' <=> \A p \in Pollings : pstate'[p] = "kPolling" => SeenTo(p)'
  BY DEF PO!OnMeansQueued, SeenTo, LookedAt, SwitchedOn

LEMMA PollInvNext ==
  ASSUME PollInv, [PO!Next]_(PO!vars)
  PROVE  PollInv'
<1> USE PollFacts
<1>1. /\ PO!TypeOK /\ PollQueues /\ PO!OnMeansQueued
      /\ Queues(pFifo, PollCpus, Pollings, PollCpuOf)
  BY DEF PollInv, PollQueues
<1>2. ASSUME UNCHANGED <<pFifo, pRunning>>
      PROVE  /\ PollQueues' /\ pFifo' \in [PollCpus -> Seq(Pollings)]
             /\ \A p : PO!Q!Waiting(p)' <=> PO!Q!Waiting(p)
  BY <1>1, <1>2 DEF PollQueues, PO!Q!Waiting, Queues
<1> USE DEF PO!PollingState, PO!HandleLabels, PO!CallLabels, PO!Enter, PO!queue
<1>3. ASSUME NEW x \in Callers, NEW p \in Pollings,
             PO!RegisterPolling(x, p) \/ PO!RemovePolling(x, p)
      PROVE  PollInv'
  <2>1. UNCHANGED <<pFifo, pRunning>>
    BY <1>3 DEF PO!RegisterPolling, PO!RemovePolling
  <2>2. PO!TypeOK'
    BY <1>1, <1>3 DEF PO!TypeOK, PO!RegisterPolling, PO!RemovePolling
  <2>3. PO!OnMeansQueued'
    <3>1. /\ pCall[x] = "no" /\ pCall' = [pCall EXCEPT ![x] = pCall'[x]]
          /\ pArg' = [pArg EXCEPT ![x] = p] /\ UNCHANGED <<pHpc, pstate>>
      BY <1>1, <1>3 DEF PO!TypeOK, PO!MayCall, PO!RegisterPolling, PO!RemovePolling
    <3>2. ASSUME NEW q \in Pollings PROVE SwitchedOn(q) => SwitchedOn(q)'
      BY <1>1, <3>1 DEF PO!TypeOK, SwitchedOn
    <3>3. ASSUME NEW q \in Pollings PROVE LookedAt(q)' <=> LookedAt(q)
      BY <2>1, <3>1 DEF LookedAt
    <3> QED BY <1>1, <1>2, <2>1, <3>1, <3>2, <3>3, SeenToIs DEF SeenTo
  <2> QED BY <1>2, <2>1, <2>2, <2>3 DEF PollInv
<1>4. ASSUME NEW x \in Callers, PO!RegisterSet(x) PROVE PollInv'
  <2>1. pArg[x] \in Pollings
    BY <1>1, <1>4 DEF PO!TypeOK, PO!RegisterSet
  <2>2. PO!TypeOK'
    BY <1>1, <1>4, <2>1 DEF PO!TypeOK, PO!RegisterSet
  <2>3. PO!OnMeansQueued'
    <3>1. /\ pCall[x] = "set" /\ pCall' = [pCall EXCEPT ![x] = "register"]
          /\ pArg' = [pArg EXCEPT ![x] = pArg[x]]
          /\ pstate' = [pstate EXCEPT ![pArg[x]] = "kPolling"]
          /\ UNCHANGED <<pFifo, pRunning, pHpc>>
      BY <1>4 DEF PO!RegisterSet
    <3>2. /\ SwitchedOn(pArg[x])'
          /\ \A q \in Pollings : SwitchedOn(q) => SwitchedOn(q)'
      BY <1>1, <2>1, <3>1 DEF PO!TypeOK, SwitchedOn
    <3>3. \A q \in Pollings : LookedAt(q)' <=> LookedAt(q)
      BY <3>1 DEF LookedAt
    <3>4. \A q \in Pollings : q # pArg[x] => pstate'[q] = pstate[q]
      BY <1>1, <3>1 DEF PO!TypeOK
    <3> QED BY <1>1, <1>2, <3>1, <3>2, <3>3, <3>4, SeenToIs DEF SeenTo
  <2> QED BY <1>2, <1>4, <2>2, <2>3 DEF PollInv, PO!RegisterSet
<1>5. ASSUME NEW x \in Callers, PO!RegisterTask(x) PROVE PollInv'
  <2>1. pArg[x] \in Pollings /\ PO!Q!Register(PollCpuOf[pArg[x]], pArg[x])
    BY <1>1, <1>5 DEF PO!TypeOK, PO!RegisterTask
  <2>2. /\ PollQueues' /\ UNCHANGED pRunning
        /\ pFifo' \in [PollCpus -> Seq(Pollings)]
        /\ \A q : PO!Q!Waiting(q)' <=> PO!Q!Waiting(q) \/ q = pArg[x]
    BY <1>1, <2>1, PollRegistered
  <2>3. PO!TypeOK'
    BY <1>1, <1>5, <2>2 DEF PO!TypeOK, PO!RegisterTask
  <2>4. PO!OnMeansQueued'
    <3>1. /\ pCall' = [pCall EXCEPT ![x] = "no"] /\ pArg' = [pArg EXCEPT ![x] = Null]
          /\ UNCHANGED <<pstate, pHpc>>
      BY <1>5 DEF PO!RegisterTask
    <3>2. \A q \in Pollings : SwitchedOn(q) => SwitchedOn(q)' \/ q = pArg[x]
      BY <1>1, <3>1 DEF PO!TypeOK, SwitchedOn
    <3>3. \A q \in Pollings : LookedAt(q)' <=> LookedAt(q)
      BY <2>2, <3>1 DEF LookedAt
    <3> QED BY <1>1, <2>2, <3>1, <3>2, <3>3, SeenToIs DEF SeenTo
  <2> QED BY <2>2, <2>3, <2>4 DEF PollInv
<1>6. ASSUME NEW x \in Callers, PO!RemoveSet(x) PROVE PollInv'
  <2>1. pArg[x] \in Pollings
    BY <1>1, <1>6 DEF PO!TypeOK, PO!RemoveSet
  <2>2. PO!TypeOK'
    BY <1>1, <1>6, <2>1 DEF PO!TypeOK, PO!RemoveSet
  <2>3. PO!OnMeansQueued'
    <3>1. /\ pCall[x] = "clear" /\ pCall' = [pCall EXCEPT ![x] = "no"]
          /\ pArg' = [pArg EXCEPT ![x] = Null]
          /\ pstate' = [pstate EXCEPT ![pArg[x]] = "kStopped"]
          /\ UNCHANGED <<pFifo, pRunning, pHpc>>
      BY <1>6 DEF PO!RemoveSet
    <3>2. \A q \in Pollings : SwitchedOn(q) => SwitchedOn(q)'
      BY <1>1, <3>1 DEF PO!TypeOK, SwitchedOn
    <3>3. \A q \in Pollings : LookedAt(q)' <=> LookedAt(q)
      BY <3>1 DEF LookedAt
    <3>4. \A q \in Pollings : pstate'[q] = "kPolling" => pstate[q] = "kPolling"
      BY <1>1, <3>1 DEF PO!TypeOK
    <3> QED BY <1>1, <1>2, <3>1, <3>2, <3>3, <3>4, SeenToIs DEF SeenTo
  <2> QED BY <1>2, <1>6, <2>2, <2>3 DEF PollInv, PO!RemoveSet
<1>7. ASSUME NEW c \in PollCpus, PO!Dispatch(c) PROVE PollInv'
  <2>1. PICK p : p = Head(pFifo[c])
    OBVIOUS
  <2>2. /\ pRunning[c] = Null /\ pFifo' = Taken(pFifo, c)
        /\ pRunning' = [pRunning EXCEPT ![c] = p] /\ IsNext(pFifo, c, p)
        /\ pHpc[c] = "idle" /\ pHpc' = [pHpc EXCEPT ![c] = "test"]
        /\ UNCHANGED <<pstate, pCall, pArg>>
    BY <1>7, <2>1 DEF PO!Dispatch, PO!Q!Dispatch, PO!Goto, Taken, IsNext
  <2>3. /\ Queues(pFifo', PollCpus, Pollings, PollCpuOf)
        /\ p \in Pollings /\ PollCpuOf[p] = c /\ Queued(pFifo, p)
        /\ \A q : Queued(pFifo', q) <=> Queued(pFifo, q) /\ q # p
    BY <1>1, <2>2, QueuesTail
  <2>4. PollQueues' /\ pFifo' \in [PollCpus -> Seq(Pollings)]
    BY <1>1, <2>2, <2>3 DEF PollQueues, Queues
  <2>5. \A q : PO!Q!Waiting(q)' <=> PO!Q!Waiting(q) /\ q # p
    BY <1>1, <2>3, PollWaiting, PollWaitingNext
  <2>6. PO!TypeOK'
    BY <1>1, <2>2, <2>3, <2>4 DEF PO!TypeOK
  <2>7. PO!OnMeansQueued'
    <3>1. LookedAt(p)' /\ \A q \in Pollings : LookedAt(q) => LookedAt(q)'
      BY <1>1, <2>2 DEF PO!TypeOK, LookedAt
    <3>2. \A q \in Pollings : SwitchedOn(q)' <=> SwitchedOn(q)
      BY <2>2 DEF SwitchedOn
    <3> QED BY <1>1, <2>2, <2>5, <3>1, <3>2, SeenToIs DEF SeenTo
  <2> QED BY <2>4, <2>6, <2>7 DEF PollInv
<1>8. ASSUME NEW c \in PollCpus,
             PO!HandleTest(c) \/ PO!HandleEnd(c) \/ PO!HandleCheck(c)
      PROVE  PollInv'
  <2>1. UNCHANGED <<pFifo, pRunning, pstate, pCall, pArg>>
    BY <1>8 DEF PO!HandleTest, PO!HandleEnd, PO!HandleCheck
  <2>2. pRunning[c] \in Pollings
    BY <1>1, <1>8 DEF PO!TypeOK, PO!HandleTest, PO!HandleEnd, PO!HandleCheck, PO!Goto
  <2>3. PO!TypeOK'
    BY <1>1, <1>2, <1>8, <2>1, <2>2
       DEF PO!TypeOK, PO!HandleTest, PO!HandleEnd, PO!HandleCheck, PO!Goto
  <2>4. PO!OnMeansQueued'
    <3>1. PICK l : pHpc' = [pHpc EXCEPT ![c] = l]
      BY <1>8 DEF PO!HandleTest, PO!HandleEnd, PO!HandleCheck, PO!Goto
    <3>2. /\ pHpc[c] \in {"test", "handle", "check"}
          /\ pHpc[c] # "check" /\ pstate[pRunning[c]] = "kPolling"
               => l \in {"handle", "again"}
      BY <1>1, <1>8, <3>1 DEF PO!TypeOK, PO!HandleTest, PO!HandleEnd,
         PO!HandleCheck, PO!Goto, PO!IsOn
    <3>3. ASSUME NEW q \in Pollings, pstate[q] = "kPolling", LookedAt(q)
          PROVE  LookedAt(q)'
      BY <1>1, <2>1, <3>1, <3>2, <3>3 DEF PO!TypeOK, LookedAt
    <3>4. \A q \in Pollings : SwitchedOn(q)' <=> SwitchedOn(q)
      BY <2>1 DEF SwitchedOn
    <3> QED BY <1>1, <1>2, <2>1, <3>3, <3>4, SeenToIs DEF SeenTo
  <2> QED BY <1>2, <2>1, <2>3, <2>4 DEF PollInv
<1>9. ASSUME NEW c \in PollCpus, PO!HandleAgain(c) PROVE PollInv'
  <2>1. /\ pHpc[c] = "again" /\ pHpc' = [pHpc EXCEPT ![c] = "return"]
        /\ UNCHANGED <<pstate, pCall, pArg>> /\ PO!Q!Register(c, pRunning[c])
    BY <1>9 DEF PO!HandleAgain, PO!Goto, PO!Again
  <2>2. pRunning[c] \in Pollings /\ PollCpuOf[pRunning[c]] = c
    BY <1>1, <2>1 DEF PO!TypeOK, PollQueues
  <2>3. /\ PollQueues' /\ UNCHANGED pRunning
        /\ pFifo' \in [PollCpus -> Seq(Pollings)]
        /\ \A q : PO!Q!Waiting(q)' <=> PO!Q!Waiting(q) \/ q = pRunning[c]
    BY <1>1, <2>1, <2>2, PollRegistered
  <2>4. PO!TypeOK'
    BY <1>1, <2>1, <2>2, <2>3 DEF PO!TypeOK
  <2>5. PO!OnMeansQueued'
    <3>1. \A q \in Pollings : LookedAt(q) => LookedAt(q)' \/ q = pRunning[c]
      BY <1>1, <2>1, <2>3 DEF PO!TypeOK, LookedAt
    <3>2. \A q \in Pollings : SwitchedOn(q)' <=> SwitchedOn(q)
      BY <2>1 DEF SwitchedOn
    <3> QED BY <1>1, <2>1, <2>3, <3>1, <3>2, SeenToIs DEF SeenTo
  <2> QED BY <2>3, <2>4, <2>5 DEF PollInv
<1>10. ASSUME NEW c \in PollCpus, PO!HandleRemove(c) PROVE PollInv'
  <2>1. /\ pHpc[c] = "remove" /\ pHpc' = [pHpc EXCEPT ![c] = "return"]
        /\ pstate' = [pstate EXCEPT ![pRunning[c]] = "kStopped"]
        /\ UNCHANGED <<pFifo, pRunning, pCall, pArg>>
    BY <1>10 DEF PO!HandleRemove, PO!Goto
  <2>2. pRunning[c] \in Pollings
    BY <1>1, <2>1 DEF PO!TypeOK
  <2>3. PO!TypeOK'
    BY <1>1, <2>1, <2>2 DEF PO!TypeOK
  <2>4. PO!OnMeansQueued'
    <3>1. \A q \in Pollings : LookedAt(q) => LookedAt(q)' \/ q = pRunning[c]
      BY <1>1, <2>1 DEF PO!TypeOK, LookedAt
    <3>2. \A q \in Pollings : SwitchedOn(q)' <=> SwitchedOn(q)
      BY <2>1 DEF SwitchedOn
    <3>3. \A q \in Pollings :
            pstate'[q] = "kPolling" => pstate[q] = "kPolling" /\ q # pRunning[c]
      BY <1>1, <2>1, <2>2 DEF PO!TypeOK
    <3> QED BY <1>1, <1>2, <2>1, <3>1, <3>2, <3>3, SeenToIs DEF SeenTo
  <2> QED BY <1>2, <2>1, <2>3, <2>4 DEF PollInv
<1>11. ASSUME NEW c \in PollCpus, PO!HandleReturn(c) PROVE PollInv'
  <2>1. /\ pHpc[c] = "return" /\ pHpc' = [pHpc EXCEPT ![c] = "idle"]
        /\ pRunning' = [pRunning EXCEPT ![c] = Null]
        /\ UNCHANGED <<pFifo, pstate, pCall, pArg>>
    BY <1>11 DEF PO!HandleReturn, PO!Q!Finish, PO!Goto
  <2>2. \A p : PO!Q!Waiting(p)' <=> PO!Q!Waiting(p)
    BY <2>1 DEF PO!Q!Waiting
  <2>3. PO!TypeOK'
    BY <1>1, <2>1 DEF PO!TypeOK
  <2>4. PollQueues'
    BY <1>1, <2>1 DEF PollQueues
  <2>5. PO!OnMeansQueued'
    <3>1. \A q \in Pollings : LookedAt(q) => LookedAt(q)'
      BY <1>1, <2>1 DEF PO!TypeOK, LookedAt
    <3>2. \A q \in Pollings : SwitchedOn(q)' <=> SwitchedOn(q)
      BY <2>1 DEF SwitchedOn
    <3> QED BY <1>1, <2>1, <2>2, <3>1, <3>2, SeenToIs DEF SeenTo
  <2> QED BY <2>3, <2>4, <2>5 DEF PollInv
<1>12. CASE UNCHANGED PO!vars
  <2>1. UNCHANGED <<pFifo, pRunning, pstate, pHpc, pCall, pArg>>
    BY <1>12 DEF PO!vars
  <2>2. PO!TypeOK' /\ PO!OnMeansQueued'
    BY <1>1, <1>2, <2>1 DEF PO!TypeOK, PO!OnMeansQueued
  <2> QED BY <1>2, <2>1, <2>2 DEF PollInv
<1> QED
  BY <1>3, <1>4, <1>5, <1>6, <1>7, <1>8, <1>9, <1>10, <1>11, <1>12
     DEF PO!Next, PO!CallStep, PO!Handle
-----------------------------------------------------------------------------
(***************************************************************************)
(* Callout.  Every callout is at one spot: nowhere, linked behind who[k],  *)
(* in the task queue, in the hands of Run() that moves it or of            *)
(* HandleSub(), or in the call of the thread who[k] that is to insert it.  *)
(* A node that is being moved still has its link; it does not count.       *)
(***************************************************************************)
CalloutNodes == Callouts \cup CallCpus
HomeOf(n) == IF n \in CallCpus THEN n ELSE CallCpuOf[n]
Spots == {"none", "list", "queue", "move", "hand", "call"}

BetweenTasks == {"wake", "look", "move", "pop"}
InHandle == {"test", "again", "begin"}
Entering == {"insert"}
WithLock == {"insert", "unlink", "remove", "stop", "unlock"}

LinksInv(spot, who) ==
  /\ \A n \in CalloutNodes, k \in Callouts :
       (spot[k] = "list" /\ who[k] = n)
         <=> (next[n] = k /\ ~(n \in Callouts /\ spot[n] = "move"))
  /\ \A n \in CalloutNodes : next[n] # Null => HomeOf(n) = CallCpuOf[next[n]]
  /\ \A k \in Callouts : /\ next[k] # Null => spot[k] \in {"list", "move"}
                         /\ spot[k] = "list" => who[k] \in CalloutNodes

QueuesInv(spot) ==
  /\ Queues(cFifo, CallCpus, Callouts, CallCpuOf)
  /\ \A k \in Callouts : Queued(cFifo, k) <=> spot[k] = "queue"

CpuInv(spot, c) ==
  /\ cRunning[c] = Null <=> pc[c] \in BetweenTasks
  /\ cRunning[c] # Null => cRunning[c] \in Callouts /\ CallCpuOf[cRunning[c]] = c
  /\ pc[c] \in InHandle => spot[cRunning[c]] = "hand"
  /\ pc[c] = "begin" => left[cRunning[c]] = 0
  /\ pc[c] = "move" => /\ arg[c] \in Callouts /\ CallCpuOf[arg[c]] = c
                       /\ spot[arg[c]] = "move" /\ lock[arg[c]] = c
  /\ call[c] # "no" => pc[c] \in {"func", "pop"}

AtCpuInv(spot, k, c) ==
  /\ spot[k] = "hand" => cRunning[c] = k /\ pc[c] \in InHandle
  /\ spot[k] = "move" => arg[c] = k /\ pc[c] = "move"

CpusInv(spot) == /\ \A c \in CallCpus : CpuInv(spot, c)
                 /\ \A k \in Callouts : AtCpuInv(spot, k, CallCpuOf[k])

CallInv(spot, who, x) ==
  /\ call[x] # "no" => arg[x] \in Callouts
  /\ call[x] = "no" => arg[x] = Null \/ (x \in CallCpus /\ pc[x] = "move")
  /\ call[x] \in WithLock => lock[arg[x]] = x
  /\ call[x] \in Entering => spot[arg[x]] = "call" /\ who[arg[x]] = x

AtCallInv(spot, who, k) ==
  spot[k] = "call" => /\ who[k] \in C!Threads /\ arg[who[k]] = k
                      /\ call[who[k]] \in Entering

CallsInv(spot, who) == /\ \A x \in C!Threads : CallInv(spot, who, x)
                       /\ \A k \in Callouts : AtCallInv(spot, who, k)

\* A callout is nowhere when SetHandler() begins, and is only forgotten on the
\* way to the end of Cancel().
IsStopped(k) == \E x \in C!Threads : arg[x] = k /\ call[x] = "stop"

RegisteredInv(spot) ==
  \A k \in Callouts :
    /\ armed[k] => spot[k] # "none" \/ IsStopped(k)
    /\ spot[k] # "none" => armed[k]

\* _state tells Cancel() where a callout is, but of one whose state HandleSub()
\* has overwritten; Cancel() leaves it nowhere or in the hands of HandleSub().
StateCallInv(spot, x) ==
  /\ call[x] = "set" => /\ ~armed[arg[x]]
                        /\ \A y \in C!Threads : call[y] = "set" /\ arg[y] = arg[x] => y = x
  /\ call[x] = "unlink" => spot[arg[x]] \in {"list", "none"}
  /\ call[x] = "remove" => spot[arg[x]] \in {"queue", "hand", "none"}
  /\ call[x] = "stop" => spot[arg[x]] \in {"hand", "none"}

StateSpotInv(spot, k) ==
  /\ spot[k] = "list" => cstate[k] \in {"kCalloutQueue", "kStopped"}
  /\ spot[k] \in {"queue", "hand"} => cstate[k] = "kTaskQueue"

StateCpuInv(spot, c) ==
  pc[c] \in {"func", "stop"} => spot[cRunning[c]] \notin {"queue", "hand", "move"}

StateInv(spot) == /\ \A x \in C!Threads : StateCallInv(spot, x)
                  /\ \A k \in Callouts : StateSpotInv(spot, k)
                  /\ \A c \in CallCpus : StateCpuInv(spot, c)

SpotInv(spot, who) ==
  /\ spot \in [Callouts -> Spots]
  /\ LinksInv(spot, who) /\ QueuesInv(spot) /\ CpusInv(spot) /\ CallsInv(spot, who)
  /\ RegisteredInv(spot) /\ StateInv(spot)

\* The inductive invariant, until a Cancel() crosses HandleSub().
CalloutInv == crossed \/ (C!TypeOK /\ \E spot, who : SpotInv(spot, who))

LEMMA CalloutFacts ==
  /\ CallCpuOf \in [Callouts -> CallCpus] /\ Lcks \subseteq Callouts
  /\ Delays \subseteq Int /\ Interval \in Nat
  /\ Null \notin Callouts /\ Null \notin C!Threads /\ Null \notin CallCpus
  /\ C!Threads = Clients \cup CallCpus /\ CallCpus \subseteq C!Threads
  /\ \A k \in Callouts : k \notin C!Threads /\ k \notin CallCpus
  /\ \A x \in Clients : x \notin CallCpus
  BY TaskClassesAssumption DEF C!CalloutAssumption, C!Threads

LEMMA CalloutWaiting ==
  ASSUME Queues(cFifo, CallCpus, Callouts, CallCpuOf)
  PROVE  \A k : C!Q!Waiting(k) <=> Queued(cFifo, k)
  BY DEF Queues, Queued, C!Q!Waiting, C!Q!Elements, Members

LEMMA CalloutInvInit == C!Init => CalloutInv
<1> SUFFICES ASSUME C!Init PROVE CalloutInv
  OBVIOUS
<1> USE CalloutFacts
<1>1. cFifo = [c \in CallCpus |-> << >>] /\ cRunning = [c \in CallCpus |-> Null]
  BY DEF C!Init, C!Q!Init
<1>2. /\ Queues(cFifo, CallCpus, Callouts, CallCpuOf) /\ \A k : ~Queued(cFifo, k)
  BY <1>1, QueuesStart
<1>3. C!TypeOK
  BY <1>1, <1>2 DEF C!Init, C!TypeOK, C!CalloutState, C!RunLabels, C!CallLabels,
     Queues
<1>4. PICK spot : spot = [k \in Callouts |-> "none"]
  OBVIOUS
<1>5. LinksInv(spot, spot) /\ QueuesInv(spot)
  BY <1>2, <1>4 DEF C!Init, LinksInv, QueuesInv, CalloutNodes
<1>6. CpusInv(spot) /\ CallsInv(spot, spot)
  BY <1>1, <1>4 DEF C!Init, CpusInv, CpuInv, AtCpuInv, CallsInv, CallInv, AtCallInv, BetweenTasks, InHandle, Entering, WithLock
<1>7. RegisteredInv(spot) /\ StateInv(spot)
  BY <1>4 DEF C!Init, RegisteredInv, StateInv, StateCallInv, StateSpotInv, StateCpuInv
<1>8. SpotInv(spot, spot)
  BY <1>4, <1>5, <1>6, <1>7 DEF SpotInv, Spots
<1> QED BY <1>3, <1>8 DEF CalloutInv

\* A step that leaves next alone, and which callouts are in the list.
LEMMA LinksStay ==
  ASSUME NEW spot, NEW who, NEW spot2, NEW who2,
         LinksInv(spot, who), UNCHANGED next,
         \A k \in Callouts : /\ spot2[k] = "list" <=> spot[k] = "list"
                             /\ spot2[k] = "move" <=> spot[k] = "move"
                             /\ spot[k] = "list" => who2[k] = who[k]
  PROVE  LinksInv(spot2, who2)'
BY DEF LinksInv, CalloutNodes, HomeOf

\* A step that leaves the task queues alone.
LEMMA QueuesStay ==
  ASSUME NEW spot, NEW spot2, QueuesInv(spot), UNCHANGED cFifo,
         \A k \in Callouts : spot2[k] = "queue" <=> spot[k] = "queue"
  PROVE  QueuesInv(spot2)'
BY DEF QueuesInv

\* What each of the steps below starts from.
AtSpots(spot, who) == C!TypeOK /\ SpotInv(spot, who) /\ ~crossed'

LEMMA SpotParts ==
  ASSUME NEW spot, NEW who, AtSpots(spot, who)
  PROVE  /\ C!TypeOK /\ ~crossed'
         /\ spot \in [Callouts -> Spots]
         /\ LinksInv(spot, who) /\ QueuesInv(spot) /\ CpusInv(spot)
         /\ CallsInv(spot, who) /\ RegisteredInv(spot)
         /\ StateInv(spot)
BY DEF AtSpots, SpotInv

\* SetHandler() or Cancel() is entered.
LEMMA EnterKeeps ==
  ASSUME NEW spot, NEW who, AtSpots(spot, who), NEW x \in C!Threads,
         NEW k \in Callouts, C!SetHandler(x, k) \/ C!Cancel(x, k)
  PROVE  CalloutInv'
<1> USE CalloutFacts DEF C!Enter, C!cpuVars, C!history, C!queue
<1>1. /\ call[x] = "no" /\ arg' = [arg EXCEPT ![x] = k]
      /\ x \in CallCpus => pc[x] \in {"func", "pop"}
      /\ UNCHANGED <<cFifo, cRunning, next, left, cstate, lock, pending, due, pc,
                     armed, crossed, fault>>
  BY DEF C!SetHandler, C!Cancel, C!MayArm, C!MayCall
<1>2. PICK l : /\ call' = [call EXCEPT ![x] = l] /\ l \in {"set", "cancel"}
               /\ l = "set" => /\ ~armed[k]
                               /\ \A y \in C!Threads : ~(call[y] = "set" /\ arg[y] = k)
  BY DEF C!SetHandler, C!Cancel, C!MayArm
<1>3. C!TypeOK'
  <2>1. userLock' \in [Callouts -> C!Threads \cup {Null}]
    <3>1. UNCHANGED userLock \/ userLock' = [userLock EXCEPT ![k] = x]
      BY DEF C!SetHandler, C!Cancel
    <3>2. userLock \in [Callouts -> C!Threads \cup {Null}]
      BY SpotParts DEF C!TypeOK
    <3> QED BY <3>1, <3>2
  <2> QED BY <1>1, <1>2, <2>1, SpotParts DEF C!TypeOK, C!CallLabels
<1>4. \A y \in C!Threads : /\ arg'[y] = IF y = x THEN k ELSE arg[y]
                           /\ call'[y] = IF y = x THEN l ELSE call[y]
  BY <1>1, <1>2, SpotParts DEF C!TypeOK
<1>5. LinksInv(spot, who)' /\ QueuesInv(spot)'
  BY <1>1, SpotParts, LinksStay, QueuesStay
<1>6. CpusInv(spot)'
  BY <1>1, <1>4, SpotParts DEF CpusInv, CpuInv, AtCpuInv, BetweenTasks, InHandle
<1>7. CallsInv(spot, who)'
  BY <1>1, <1>2, <1>4, SpotParts DEF CallsInv, CallInv, AtCallInv, WithLock, Entering
<1>8. RegisteredInv(spot)'
  BY <1>1, <1>4, SpotParts DEF RegisteredInv, IsStopped
<1>9. StateInv(spot)'
  <2>1. ASSUME NEW y \in C!Threads, StateCallInv(spot, y) PROVE StateCallInv(spot, y)'
    BY <1>1, <1>2, <1>4, <2>1 DEF StateCallInv
  <2>2. ASSUME NEW j \in Callouts, StateSpotInv(spot, j) PROVE StateSpotInv(spot, j)'
    BY <1>1, <2>2 DEF StateSpotInv
  <2>3. ASSUME NEW d \in CallCpus, StateCpuInv(spot, d) PROVE StateCpuInv(spot, d)'
    BY <1>1, <2>3 DEF StateCpuInv
  <2> QED BY <2>1, <2>2, <2>3, SpotParts DEF StateInv
<1> QED
  BY <1>3, <1>5, <1>6, <1>7, <1>8, <1>9, SpotParts DEF CalloutInv, SpotInv

\* SetHandler() takes the lock of the callout, which is nowhere, and sets its
\* time.
LEMMA SetTimeKeeps ==
  ASSUME NEW spot, NEW who, AtSpots(spot, who), NEW x \in C!Threads, C!SetTime(x)
  PROVE  CalloutInv'
<1> USE CalloutFacts DEF C!cpuVars, C!queue
<1>1. PICK k \in Callouts : k = arg[x]
  BY SpotParts DEF C!SetTime, C!CallGoto, CallsInv, CallInv, AtCallInv
<1>2. /\ call[x] = "set" /\ call' = [call EXCEPT ![x] = "insert"]
      /\ lock[k] = Null /\ lock' = [lock EXCEPT ![k] = x]
      /\ armed' = [armed EXCEPT ![k] = TRUE]
      /\ UNCHANGED <<cFifo, cRunning, next, cstate, userLock, pending, pc, arg,
                     crossed, fault>>
  BY <1>1 DEF C!SetTime, C!CallGoto, C!Take
<1>3. PICK us \in Delays : /\ left' = [left EXCEPT ![k] = C!TicksOf(us)]
                           /\ C!SetDue(k, us)
  BY <1>1 DEF C!SetTime
<1>4. C!TicksOf(us) \in Nat
  BY <1>3 DEF C!TicksOf
<1>5. due' \in [CallCpus -> SUBSET Callouts]
  BY <1>3, SpotParts DEF C!SetDue, C!TypeOK
<1>6. C!TypeOK'
  BY <1>2, <1>3, <1>4, <1>5, SpotParts DEF C!TypeOK, C!CallLabels
<1>7. /\ ~armed[k] /\ \A y \in C!Threads : call[y] = "set" /\ arg[y] = k => y = x
      /\ spot[k] = "none"
  BY <1>1, <1>2, SpotParts DEF StateInv, StateCallInv, RegisteredInv
<1>8. \A y \in C!Threads : arg[y] = k => call[y] \notin WithLock
  BY <1>2, SpotParts DEF CallsInv, CallInv
<1>9. PICK spot2 : spot2 = [spot EXCEPT ![k] = "call"]
  OBVIOUS
<1>10. PICK who2 : who2 = [j \in Callouts |-> IF j = k THEN x ELSE who[j]]
  OBVIOUS
<1>11. /\ spot2 \in [Callouts -> Spots] /\ spot2[k] = "call" /\ who2[k] = x
       /\ \A j \in Callouts : j # k => spot2[j] = spot[j] /\ who2[j] = who[j]
  BY <1>9, <1>10, SpotParts DEF Spots
<1>12. /\ \A y \in C!Threads : call'[y] = IF y = x THEN "insert" ELSE call[y]
       /\ \A j \in Callouts : /\ lock'[j] = IF j = k THEN x ELSE lock[j]
                              /\ armed'[j] <=> armed[j] \/ j = k
                              /\ j # k => left'[j] = left[j]
  BY <1>2, <1>3, SpotParts DEF C!TypeOK
<1>13. LinksInv(spot2, who2)' /\ QueuesInv(spot2)'
  BY <1>2, SpotParts, <1>7, <1>11, LinksStay, QueuesStay
<1>14. CpusInv(spot2)'
  <2>1. ASSUME NEW c \in CallCpus PROVE CpuInv(spot2, c)'
    <3>1. CpuInv(spot, c)
      BY SpotParts DEF CpusInv
    <3> QED BY <1>2, <1>7, <1>11, <1>12, <3>1 DEF CpuInv, BetweenTasks, InHandle
  <2>2. ASSUME NEW j \in Callouts PROVE AtCpuInv(spot2, j, CallCpuOf[j])'
    <3>1. AtCpuInv(spot, j, CallCpuOf[j])
      BY SpotParts DEF CpusInv
    <3> QED BY <1>2, <1>11, <3>1 DEF AtCpuInv
  <2> QED BY <2>1, <2>2 DEF CpusInv
<1>15. CallsInv(spot2, who2)'
  <2>1. ASSUME NEW y \in C!Threads, CallInv(spot, who, y) PROVE CallInv(spot2, who2, y)'
    BY <1>1, <1>2, <1>7, <1>8, <1>11, <1>12, <2>1 DEF CallInv, WithLock, Entering
  <2>2. ASSUME NEW j \in Callouts, AtCallInv(spot, who, j) PROVE AtCallInv(spot2, who2, j)'
    BY <1>1, <1>2, <1>11, <1>12, <2>2 DEF AtCallInv, Entering
  <2> QED BY <2>1, <2>2, SpotParts DEF CallsInv
<1>16. RegisteredInv(spot2)'
  <2>1. \A j \in Callouts : IsStopped(j) => IsStopped(j)'
    BY <1>2, <1>12 DEF IsStopped
  <2> QED BY <1>11, <1>12, <2>1, SpotParts DEF RegisteredInv
<1>17. StateInv(spot2)'
  <2>1. ASSUME NEW y \in C!Threads, StateCallInv(spot, y), CallInv(spot, who, y)
        PROVE  StateCallInv(spot2, y)'
    BY <1>1, <1>2, <1>7, <1>8, <1>11, <1>12, <2>1 DEF StateCallInv, CallInv, WithLock
  <2>2. ASSUME NEW j \in Callouts, StateSpotInv(spot, j) PROVE StateSpotInv(spot2, j)'
    BY <1>2, <1>11, <2>2 DEF StateSpotInv
  <2>3. ASSUME NEW d \in CallCpus, StateCpuInv(spot, d), CpuInv(spot, d)
        PROVE  StateCpuInv(spot2, d)'
    BY <1>2, <1>11, <2>3 DEF StateCpuInv, CpuInv, BetweenTasks
  <2> QED BY <2>1, <2>2, <2>3, SpotParts DEF StateInv, CallsInv, CpusInv
<1> QED
  BY <1>6, <1>11, <1>13, <1>14, <1>15, <1>16, <1>17, SpotParts DEF CalloutInv, SpotInv

\* It links the callout behind the guard, or ends the program.
LEMMA RegisterCalloutKeeps ==
  ASSUME NEW spot, NEW who, AtSpots(spot, who), NEW x \in C!Threads,
         C!RegisterCallout(x)
  PROVE  CalloutInv'
<1> USE CalloutFacts DEF C!cpuVars, C!history, C!queue
<1>1. PICK k \in Callouts : k = arg[x]
  BY SpotParts DEF C!RegisterCallout, CallsInv, CallInv, AtCallInv
<1>2. PICK c \in CallCpus : c = CallCpuOf[k]
  BY SpotParts
<1>3. /\ call[x] = "insert" /\ spot[k] = "call" /\ who[k] = x /\ lock[k] = x
      /\ UNCHANGED <<cFifo, cRunning, left, lock, userLock, pending, due, pc, arg,
                     armed, crossed>>
  BY <1>1, SpotParts DEF C!RegisterCallout, CallsInv, CallInv, AtCallInv, Entering, WithLock
<1>4. CASE fault' = TRUE /\ UNCHANGED <<next, cstate, call>>
  <2>1. C!TypeOK'
    BY <1>3, <1>4, SpotParts DEF C!TypeOK
  <2>2. LinksInv(spot, who)' /\ QueuesInv(spot)'
    BY <1>3, <1>4, SpotParts, LinksStay, QueuesStay
  <2>3. CpusInv(spot)' /\ CallsInv(spot, who)'
    BY <1>3, <1>4, SpotParts DEF CpusInv, CpuInv, AtCpuInv, CallsInv, CallInv, AtCallInv
  <2>4. RegisteredInv(spot)' /\ StateInv(spot)'
    BY <1>3, <1>4, SpotParts DEF RegisteredInv, IsStopped, StateInv, StateCallInv,
       StateSpotInv, StateCpuInv
  <2> QED BY <2>1, <2>2, <2>3, <2>4, SpotParts DEF CalloutInv, SpotInv
<1>5. CASE /\ C!InsertFirst(c, k) /\ C!CallGoto(x, "insert", "unlock")
           /\ cstate' = [cstate EXCEPT ![k] = "kCalloutQueue"] /\ UNCHANGED fault
  <2>1. /\ next' = [next EXCEPT ![c] = k, ![k] = next[c]]
        /\ call' = [call EXCEPT ![x] = "unlock"] /\ c # k
    BY <1>5 DEF C!InsertFirst, C!CallGoto
  <2>2. C!TypeOK'
    BY <1>2, <1>3, <1>5, <2>1, SpotParts DEF C!TypeOK, C!CallLabels, C!CalloutState
  <2>3. PICK spot2 : spot2 = [spot EXCEPT ![k] = "list"]
    OBVIOUS
  <2>4. PICK who2 : who2 = [j \in Callouts |-> IF j = k THEN c ELSE
                                               IF j = next[c] THEN k ELSE who[j]]
    OBVIOUS
  <2>5. /\ spot2 \in [Callouts -> Spots] /\ spot2[k] = "list"
        /\ \A j \in Callouts : j # k => spot2[j] = spot[j]
    BY <2>3, SpotParts DEF Spots
  <2>6. LinksInv(spot2, who2)'
    <3>1. /\ c \in CalloutNodes /\ k \in CalloutNodes /\ k \notin CallCpus
          /\ \A n \in CalloutNodes : next'[n] = IF n = c THEN k ELSE
                                       IF n = k THEN next[c] ELSE next[n]
      BY <2>1, SpotParts DEF C!TypeOK, CalloutNodes
    <3>2. next[k] = Null /\ next[c] # k
      BY <1>3, <3>1, SpotParts DEF LinksInv
    <3>3. next[c] # Null => /\ next[c] \in Callouts /\ CallCpuOf[next[c]] = c
                            /\ spot[next[c]] = "list" /\ who[next[c]] = c
      BY <3>1, SpotParts DEF LinksInv, C!TypeOK, HomeOf
    <3>4. ASSUME NEW n \in CalloutNodes, n # c, next[n] \in {k, next[c]}
          PROVE  next[n] = Null \/ (n \in Callouts /\ spot[n] = "move")
      BY <1>3, <3>1, <3>3, <3>4, SpotParts DEF LinksInv
    <3>5. ASSUME NEW n \in CalloutNodes, NEW j \in Callouts
          PROVE  (spot2[j] = "list" /\ who2[j] = n)
                   <=> (next'[n] = j /\ ~(n \in Callouts /\ spot2[n] = "move"))
      BY <1>3, <2>4, <2>5, <3>1, <3>2, <3>3, <3>4, SpotParts DEF LinksInv
    <3>6. \A n \in CalloutNodes : next'[n] # Null => HomeOf(n) = CallCpuOf[next'[n]]
      BY <1>2, <3>1, <3>3, SpotParts DEF LinksInv, HomeOf
    <3>7. \A j \in Callouts : next'[j] # Null => spot2[j] \in {"list", "move"}
      BY <2>5, <3>1, SpotParts DEF LinksInv, CalloutNodes
    <3>8. \A j \in Callouts : spot2[j] = "list" => who2[j] \in CalloutNodes
      BY <2>4, <2>5, <3>1, SpotParts DEF LinksInv
    <3> QED BY <3>5, <3>6, <3>7, <3>8 DEF LinksInv
  <2>7. QueuesInv(spot2)'
    BY <1>3, <2>5, SpotParts, QueuesStay
  <2>8. /\ \A y \in C!Threads : call'[y] = IF y = x THEN "unlock" ELSE call[y]
        /\ \A j \in Callouts : cstate'[j] = IF j = k THEN "kCalloutQueue" ELSE cstate[j]
    BY <1>5, <2>1, SpotParts DEF C!TypeOK
  <2>9. CpusInv(spot2)'
    <3>1. ASSUME NEW d \in CallCpus, CpuInv(spot, d) PROVE CpuInv(spot2, d)'
      BY <1>3, <2>5, <2>8, <3>1 DEF CpuInv, InHandle, BetweenTasks
    <3>2. ASSUME NEW j \in Callouts, AtCpuInv(spot, j, CallCpuOf[j])
          PROVE  AtCpuInv(spot2, j, CallCpuOf[j])'
      BY <1>3, <2>5, <3>2 DEF AtCpuInv, InHandle
    <3> QED BY <3>1, <3>2, SpotParts DEF CpusInv
  <2>10. CallsInv(spot2, who2)'
    <3>1. \A j \in Callouts : spot2[j] = "call" <=> spot[j] = "call" /\ j # k
      BY <2>5
    <3>2. \A j \in Callouts : spot[j] = "call" /\ j # k => who2[j] = who[j]
      BY <1>2, <2>4, SpotParts DEF LinksInv, CalloutNodes, C!TypeOK
    <3>3. ASSUME NEW y \in C!Threads, CallInv(spot, who, y)
          PROVE  CallInv(spot2, who2, y)'
      BY <1>1, <1>3, <2>8, <3>1, <3>2, <3>3 DEF CallInv, WithLock, Entering
    <3>4. ASSUME NEW j \in Callouts, AtCallInv(spot, who, j)
          PROVE  AtCallInv(spot2, who2, j)'
      BY <1>1, <1>3, <2>8, <3>1, <3>2, <3>4 DEF AtCallInv, Entering
    <3> QED BY <3>3, <3>4, SpotParts DEF CallsInv
  <2>11. RegisteredInv(spot2)'
    <3>1. \A j \in Callouts : IsStopped(j) => IsStopped(j)'
      BY <1>3, <2>8 DEF IsStopped
    <3> QED BY <1>3, <2>5, <3>1, SpotParts DEF RegisteredInv
  <2>12. StateInv(spot2)'
    <3>1. ASSUME NEW y \in C!Threads, StateCallInv(spot, y), CallInv(spot, who, y)
          PROVE  StateCallInv(spot2, y)'
      BY <1>1, <1>3, <2>5, <2>8, <3>1 DEF StateCallInv, CallInv, WithLock
    <3>2. ASSUME NEW j \in Callouts, StateSpotInv(spot, j) PROVE StateSpotInv(spot2, j)'
      BY <2>5, <2>8, <3>2 DEF StateSpotInv
    <3>3. ASSUME NEW d \in CallCpus, StateCpuInv(spot, d), CpuInv(spot, d)
          PROVE  StateCpuInv(spot2, d)'
      BY <1>2, <1>3, <2>5, <3>3 DEF StateCpuInv, CpuInv, BetweenTasks
    <3> QED BY <3>1, <3>2, <3>3, SpotParts DEF StateInv, CpusInv, CallsInv
  <2> QED
    BY <2>2, <2>5, <2>6, <2>7, <2>9, <2>10, <2>11, <2>12, SpotParts
       DEF CalloutInv, SpotInv
<1> QED BY <1>1, <1>2, <1>4, <1>5 DEF C!RegisterCallout

\* Cancel() takes the lock of the callout and looks at _state.
LEMMA CancelSwitchKeeps ==
  ASSUME NEW spot, NEW who, AtSpots(spot, who), NEW x \in C!Threads,
         C!CancelSwitch(x)
  PROVE  CalloutInv'
<1> USE CalloutFacts DEF C!cpuVars, C!history, C!queue
<1>1. PICK k \in Callouts : k = arg[x]
  BY SpotParts DEF C!CancelSwitch, C!CallGoto, CallsInv, CallInv, AtCallInv
<1>2. PICK l : l = CASE cstate[k] = "kCalloutQueue" -> "unlink"
                     [] cstate[k] = "kTaskQueue"    -> "remove"
                     [] OTHER                       -> "stop"
  OBVIOUS
<1>3. /\ l \in {"unlink", "remove", "stop"}
      /\ l = "unlink" => cstate[k] = "kCalloutQueue"
      /\ l = "remove" => cstate[k] = "kTaskQueue"
      /\ l = "stop" => cstate[k] \notin {"kCalloutQueue", "kTaskQueue"}
  BY <1>2
<1>4. /\ call[x] = "cancel" /\ call' = [call EXCEPT ![x] = l]
      /\ lock[k] = Null /\ lock' = [lock EXCEPT ![k] = x]
      /\ UNCHANGED <<cFifo, cRunning, next, left, cstate, userLock, pending, due,
                     pc, arg, armed, fault>>
      /\ crossed' = (crossed \/ (cstate[k] = "kStopped" /\ C!Linked(k)))
  BY <1>1, <1>2, SpotParts DEF C!CancelSwitch, C!CallGoto, C!Take
<1>5. C!TypeOK'
  BY <1>3, <1>4, SpotParts DEF C!TypeOK, C!CallLabels
<1>6. LinksInv(spot, who)' /\ QueuesInv(spot)'
  BY <1>4, SpotParts, LinksStay, QueuesStay
<1>7. CpusInv(spot)'
  BY <1>4, <1>5, SpotParts DEF CpusInv, CpuInv, AtCpuInv, C!TypeOK
<1>8. CallsInv(spot, who)'
  BY <1>1, <1>3, <1>4, <1>5, SpotParts DEF CallsInv, CallInv, AtCallInv, C!TypeOK, WithLock, Entering
<1>9. RegisteredInv(spot)'
  BY <1>4, SpotParts DEF RegisteredInv, IsStopped, C!TypeOK
<1>10. spot[k] \notin {"move", "call"}
  BY <1>4, SpotParts DEF CpusInv, CpuInv, AtCpuInv, CallsInv, CallInv, AtCallInv, Entering, WithLock
<1>11. spot[k] = "list" => cstate[k] = "kCalloutQueue"
  <2>1. spot[k] = "list" => C!Linked(k)
    <3>1. DOMAIN next = CalloutNodes
      BY SpotParts DEF C!TypeOK, CalloutNodes
    <3>2. spot[k] = "list" => who[k] \in CalloutNodes /\ next[who[k]] = k
      BY SpotParts DEF LinksInv
    <3> QED BY <3>1, <3>2 DEF C!Linked
  <2>2. spot[k] = "list" => cstate[k] \in {"kCalloutQueue", "kStopped"}
    BY SpotParts DEF StateInv, StateSpotInv
  <2>3. ~(cstate[k] = "kStopped" /\ C!Linked(k))
    <3>1. ~crossed' /\ crossed' = (crossed \/ (cstate[k] = "kStopped" /\ C!Linked(k)))
      BY <1>4, SpotParts
    <3> QED BY ONLY <3>1, Zenon
  <2> QED BY <2>1, <2>2, <2>3
<1>12. spot[k] \in {"queue", "hand"} => cstate[k] = "kTaskQueue"
  BY SpotParts DEF StateInv, StateSpotInv
<1>13. /\ l = "unlink" => spot[k] \in {"list", "none"}
       /\ l = "remove" => spot[k] \in {"queue", "hand", "none"}
       /\ l = "stop" => spot[k] = "none"
  BY <1>3, <1>10, <1>11, <1>12, SpotParts DEF Spots
<1>14. \A y \in C!Threads : call'[y] = IF y = x THEN l ELSE call[y]
  BY <1>4, SpotParts DEF C!TypeOK
<1>15. StateInv(spot)'
  <2>1. ASSUME NEW y \in C!Threads, StateCallInv(spot, y) PROVE StateCallInv(spot, y)'
    BY <1>1, <1>3, <1>4, <1>13, <1>14, <2>1 DEF StateCallInv
  <2>2. ASSUME NEW j \in Callouts, StateSpotInv(spot, j) PROVE StateSpotInv(spot, j)'
    BY <1>4, <2>2 DEF StateSpotInv
  <2>3. ASSUME NEW d \in CallCpus, StateCpuInv(spot, d) PROVE StateCpuInv(spot, d)'
    BY <1>4, <2>3 DEF StateCpuInv
  <2> QED BY <2>1, <2>2, <2>3, SpotParts DEF StateInv
<1> QED
  BY <1>5, <1>6, <1>7, <1>8, <1>9, <1>15, SpotParts DEF CalloutInv, SpotInv

\* It takes the callout out of the list, if it is still there.
LEMMA CancelUnlinkKeeps ==
  ASSUME NEW spot, NEW who, AtSpots(spot, who), NEW x \in C!Threads,
         C!CancelUnlink(x)
  PROVE  CalloutInv'
<1> USE CalloutFacts DEF C!cpuVars, C!history, C!queue
<1>1. PICK k \in Callouts : k = arg[x]
  BY SpotParts DEF C!CancelUnlink, C!CallGoto, CallsInv, CallInv, AtCallInv
<1>2. /\ call[x] = "unlink" /\ call' = [call EXCEPT ![x] = "stop"] /\ lock[k] = x
      /\ UNCHANGED <<cFifo, cRunning, left, cstate, lock, userLock, pending, due,
                     pc, arg, armed, crossed, fault>>
  BY <1>1, SpotParts DEF C!CancelUnlink, C!CallGoto, CallsInv, CallInv, AtCallInv, WithLock
<1>3. \A n \in CalloutNodes :
        next'[n] = IF n = k THEN Null ELSE IF next[n] = k THEN next[k] ELSE next[n]
  BY <1>1, SpotParts DEF C!CancelUnlink, C!Unlink, C!TypeOK, CalloutNodes
<1>4. k \in CalloutNodes /\ \A n \in CalloutNodes : next[n] \in Callouts \cup {Null}
  BY SpotParts DEF C!TypeOK, CalloutNodes
<1>5. C!TypeOK'
  <2>1. next' \in [Callouts \cup CallCpus -> Callouts \cup {Null}]
    BY <1>1, <1>3, <1>4, SpotParts
       DEF C!CancelUnlink, C!Unlink, C!TypeOK, CalloutNodes
  <2> QED BY <1>2, <2>1, SpotParts DEF C!TypeOK, C!CallLabels
<1>6. spot[k] # "move"
  BY <1>2, SpotParts DEF CpusInv, CpuInv, AtCpuInv
<1>7. PICK spot2 : spot2 = [spot EXCEPT ![k] = IF @ = "list" THEN "none" ELSE @]
  OBVIOUS
<1>8. PICK who2 : who2 = [j \in Callouts |-> IF spot[k] = "list" /\ j # k /\ j = next[k]
                                             THEN who[k] ELSE who[j]]
  OBVIOUS
<1>9. /\ spot2 \in [Callouts -> Spots]
      /\ spot2[k] = IF spot[k] = "list" THEN "none" ELSE spot[k]
      /\ \A j \in Callouts : j # k => spot2[j] = spot[j]
  BY <1>7, SpotParts DEF Spots
<1>10. LinksInv(spot2, who2)'
  <2>1. \A n \in CalloutNodes : next'[n] # Null => HomeOf(n) = CallCpuOf[next'[n]]
    BY <1>3, <1>4, SpotParts DEF LinksInv, HomeOf
  <2>2. \A j \in Callouts : next'[j] # Null => spot2[j] \in {"list", "move"}
    BY <1>3, <1>9, SpotParts DEF LinksInv, CalloutNodes
  <2>3. next[k] # Null /\ spot[k] = "list"
          => next[k] \in Callouts /\ spot[next[k]] = "list" /\ who[next[k]] = k
    BY <1>4, <1>6, SpotParts DEF LinksInv
  <2>4. ASSUME NEW n \in CalloutNodes, NEW j \in Callouts
        PROVE  (spot2[j] = "list" /\ who2[j] = n)
                 <=> (next'[n] = j /\ ~(n \in Callouts /\ spot2[n] = "move"))
    <3>1. CASE n \in Callouts /\ spot[n] = "move"
      BY <1>3, <1>4, <1>6, <1>8, <1>9, <2>3, <3>1, SpotParts DEF LinksInv
    <3>2. CASE ~(n \in Callouts /\ spot[n] = "move") /\ spot[k] # "list"
      BY <1>3, <1>4, <1>6, <1>8, <1>9, <3>2, SpotParts DEF LinksInv
    <3>3. CASE ~(n \in Callouts /\ spot[n] = "move") /\ spot[k] = "list"
      <4>1. next[n] = k <=> who[k] = n
        BY <3>3, SpotParts DEF LinksInv
      <4>2. ~(n \in Callouts /\ spot2[n] = "move")
        BY <1>9, <3>3
      <4>3. CASE j = k
        BY <1>3, <1>4, <1>9, <3>3, <2>3, <4>1, <4>3
      <4>4. CASE j # k /\ n = k
        BY <1>3, <1>4, <1>8, <1>9, <2>3, <3>3, <4>1, <4>4, SpotParts DEF LinksInv
      <4>5. CASE j # k /\ n # k
        BY <1>3, <1>4, <1>8, <1>9, <2>3, <3>3, <4>1, <4>2, <4>5, SpotParts DEF LinksInv
      <4> QED BY <4>3, <4>4, <4>5
    <3> QED BY <3>1, <3>2, <3>3
  <2>5. \A j \in Callouts : spot2[j] = "list" => who2[j] \in CalloutNodes
    BY <1>8, <1>9, SpotParts DEF LinksInv
  <2> QED BY <2>1, <2>2, <2>4, <2>5 DEF LinksInv
<1>11. QueuesInv(spot2)'
  BY <1>2, <1>9, SpotParts, QueuesStay
<1>12. \A y \in C!Threads : call'[y] = IF y = x THEN "stop" ELSE call[y]
  BY <1>2, SpotParts DEF C!TypeOK
<1>13. CpusInv(spot2)'
  <2>1. ASSUME NEW d \in CallCpus, CpuInv(spot, d) PROVE CpuInv(spot2, d)'
    BY <1>2, <1>9, <1>12, <2>1 DEF CpuInv, InHandle, BetweenTasks
  <2>2. ASSUME NEW j \in Callouts, AtCpuInv(spot, j, CallCpuOf[j])
        PROVE  AtCpuInv(spot2, j, CallCpuOf[j])'
    BY <1>2, <1>9, <2>2 DEF AtCpuInv, InHandle
  <2> QED BY <2>1, <2>2, SpotParts DEF CpusInv
<1>14. CallsInv(spot2, who2)'
  <2>1. \A j \in Callouts : spot2[j] = "call" <=> spot[j] = "call"
    BY <1>9
  <2>2. \A j \in Callouts : spot[j] = "call" => who2[j] = who[j]
    BY <1>4, <1>6, <1>8, SpotParts DEF LinksInv
  <2>3. ASSUME NEW y \in C!Threads, CallInv(spot, who, y)
        PROVE  CallInv(spot2, who2, y)'
    BY <1>1, <1>2, <1>12, <2>1, <2>2, <2>3 DEF CallInv, WithLock, Entering
  <2>4. ASSUME NEW j \in Callouts, AtCallInv(spot, who, j)
        PROVE  AtCallInv(spot2, who2, j)'
    BY <1>2, <1>12, <2>1, <2>2, <2>4 DEF AtCallInv, Entering
  <2> QED BY <2>3, <2>4, SpotParts DEF CallsInv
<1>15. RegisteredInv(spot2)'
  <2>1. IsStopped(k)' /\ \A j \in Callouts : IsStopped(j) => IsStopped(j)'
    BY <1>1, <1>2, <1>12 DEF IsStopped
  <2> QED BY <1>2, <1>9, <2>1, SpotParts DEF RegisteredInv
<1>16. StateInv(spot2)'
  <2>1. spot[k] \in {"list", "none"} /\ spot2[k] = "none"
    BY <1>1, <1>2, <1>9, SpotParts DEF StateInv, StateCallInv
  <2>2. ASSUME NEW y \in C!Threads, StateCallInv(spot, y), CallInv(spot, who, y)
        PROVE  StateCallInv(spot2, y)'
    BY <1>1, <1>2, <1>9, <1>12, <2>1, <2>2 DEF StateCallInv, CallInv, WithLock
  <2>3. ASSUME NEW j \in Callouts, StateSpotInv(spot, j) PROVE StateSpotInv(spot2, j)'
    BY <1>2, <1>9, <2>1, <2>3 DEF StateSpotInv
  <2>4. ASSUME NEW d \in CallCpus, StateCpuInv(spot, d), CpuInv(spot, d)
        PROVE  StateCpuInv(spot2, d)'
    BY <1>2, <1>9, <2>1, <2>4 DEF StateCpuInv, CpuInv, BetweenTasks
  <2> QED BY <2>2, <2>3, <2>4, SpotParts DEF StateInv, CpusInv, CallsInv
<1> QED
  BY <1>5, <1>9, <1>10, <1>11, <1>13, <1>14, <1>15, <1>16, SpotParts
     DEF CalloutInv, SpotInv

\* It takes the callout out of the task queue, if it is still there.
LEMMA CancelRemoveKeeps ==
  ASSUME NEW spot, NEW who, AtSpots(spot, who), NEW x \in C!Threads,
         C!CancelRemove(x)
  PROVE  CalloutInv'
<1> USE CalloutFacts DEF C!cpuVars, C!history
<1>1. PICK k \in Callouts : k = arg[x]
  BY SpotParts DEF C!CancelRemove, C!CallGoto, CallsInv, CallInv, AtCallInv
<1>2. /\ call[x] = "remove" /\ call' = [call EXCEPT ![x] = "stop"] /\ lock[k] = x
      /\ UNCHANGED <<next, left, cstate, lock, userLock, pending, due,
                     pc, arg, armed, crossed, fault>>
  BY <1>1, SpotParts DEF C!CancelRemove, C!CallGoto, CallsInv, CallInv, AtCallInv, WithLock
<1>3. Leaves(cFifo, cFifo', k) /\ UNCHANGED cRunning
  <2>1. C!Q!Waiting(k) <=> Queued(cFifo, k)
    BY SpotParts, CalloutWaiting DEF QueuesInv
  <2>2. C!TakeOut(k) /\ DOMAIN cFifo = CallCpus
    BY <1>1, SpotParts DEF C!CancelRemove, C!TypeOK
  <2> QED BY <2>1, <2>2
          DEF C!TakeOut, C!queue, C!Q!Remove, C!Q!Without, Leaves, Without
<1>4. /\ Queues(cFifo', CallCpus, Callouts, CallCpuOf)
      /\ \A u : Queued(cFifo', u) <=> Queued(cFifo, u) /\ u # k
  <2>1. Queues(cFifo, CallCpus, Callouts, CallCpuOf)
    BY SpotParts DEF QueuesInv
  <2>2. /\ Queues(cFifo', CallCpus, Callouts, CallCpuOf) /\ ~Queued(cFifo', k)
        /\ \A u : u = k \/ (Queued(cFifo', u) <=> Queued(cFifo, u))
    BY <1>3, <2>1, QueuesLeave
  <2> QED BY <2>2
<1>5. C!TypeOK'
  <2>1. cFifo' \in [CallCpus -> Seq(Callouts)]
    BY <1>4 DEF Queues
  <2> QED BY <1>2, <1>3, <2>1, SpotParts DEF C!TypeOK, C!CallLabels
<1>6. PICK spot2 : spot2 = [spot EXCEPT ![k] = IF @ = "queue" THEN "none" ELSE @]
  OBVIOUS
<1>7. /\ spot2 \in [Callouts -> Spots]
      /\ spot2[k] = IF spot[k] = "queue" THEN "none" ELSE spot[k]
      /\ \A j \in Callouts : j # k => spot2[j] = spot[j]
  BY <1>6, SpotParts DEF Spots
<1>8. LinksInv(spot2, who)'
  BY <1>2, <1>7, SpotParts, LinksStay
<1>9. QueuesInv(spot2)'
  BY <1>4, <1>7, SpotParts DEF QueuesInv
<1>10. \A y \in C!Threads : call'[y] = IF y = x THEN "stop" ELSE call[y]
  BY <1>2, SpotParts DEF C!TypeOK
<1>11. CpusInv(spot2)'
  <2>1. ASSUME NEW d \in CallCpus, CpuInv(spot, d) PROVE CpuInv(spot2, d)'
    BY <1>2, <1>3, <1>7, <1>10, <2>1 DEF CpuInv, InHandle, BetweenTasks
  <2>2. ASSUME NEW j \in Callouts, AtCpuInv(spot, j, CallCpuOf[j])
        PROVE  AtCpuInv(spot2, j, CallCpuOf[j])'
    BY <1>2, <1>3, <1>7, <2>2 DEF AtCpuInv, InHandle
  <2> QED BY <2>1, <2>2, SpotParts DEF CpusInv
<1>12. CallsInv(spot2, who)'
  <2>1. \A j \in Callouts : spot2[j] = "call" <=> spot[j] = "call"
    BY <1>7
  <2>2. ASSUME NEW y \in C!Threads, CallInv(spot, who, y)
        PROVE  CallInv(spot2, who, y)'
    BY <1>1, <1>2, <1>10, <2>1, <2>2 DEF CallInv, WithLock, Entering
  <2>3. ASSUME NEW j \in Callouts, AtCallInv(spot, who, j)
        PROVE  AtCallInv(spot2, who, j)'
    BY <1>2, <1>10, <2>1, <2>3 DEF AtCallInv, Entering
  <2> QED BY <2>2, <2>3, SpotParts DEF CallsInv
<1>13. RegisteredInv(spot2)'
  <2>1. IsStopped(k)' /\ \A j \in Callouts : IsStopped(j) => IsStopped(j)'
    BY <1>1, <1>2, <1>10 DEF IsStopped
  <2> QED BY <1>2, <1>7, <2>1, SpotParts DEF RegisteredInv
<1>14. StateInv(spot2)'
  <2>1. spot[k] \in {"queue", "hand", "none"} /\ spot2[k] \in {"hand", "none"}
    BY <1>1, <1>2, <1>7, SpotParts DEF StateInv, StateCallInv
  <2>2. ASSUME NEW y \in C!Threads, StateCallInv(spot, y), CallInv(spot, who, y)
        PROVE  StateCallInv(spot2, y)'
    BY <1>1, <1>2, <1>7, <1>10, <2>1, <2>2 DEF StateCallInv, CallInv, WithLock
  <2>3. ASSUME NEW j \in Callouts, StateSpotInv(spot, j) PROVE StateSpotInv(spot2, j)'
    BY <1>2, <1>7, <2>3 DEF StateSpotInv
  <2>4. ASSUME NEW d \in CallCpus, StateCpuInv(spot, d), CpuInv(spot, d)
        PROVE  StateCpuInv(spot2, d)'
    BY <1>2, <1>3, <1>7, <2>4 DEF StateCpuInv, CpuInv, BetweenTasks
  <2> QED BY <2>2, <2>3, <2>4, SpotParts DEF StateInv, CpusInv, CallsInv
<1> QED
  BY <1>5, <1>7, <1>8, <1>9, <1>11, <1>12, <1>13, <1>14, SpotParts
     DEF CalloutInv, SpotInv

\* The callout is no longer registered.
LEMMA CancelStopKeeps ==
  ASSUME NEW spot, NEW who, AtSpots(spot, who), NEW x \in C!Threads,
         C!CancelStop(x)
  PROVE  CalloutInv'
<1> USE CalloutFacts DEF C!cpuVars, C!history, C!queue
<1>1. PICK k \in Callouts : k = arg[x]
  BY SpotParts DEF C!CancelStop, C!CallGoto, CallsInv, CallInv, AtCallInv
<1>2. /\ call[x] = "stop" /\ call' = [call EXCEPT ![x] = "unlock"] /\ lock[k] = x
      /\ cstate' = [cstate EXCEPT ![k] = "kStopped"]
      /\ armed' = [armed EXCEPT ![k] = FALSE]
      /\ crossed' = (crossed \/ \E c \in CallCpus : C!InHandle(c, k))
      /\ UNCHANGED <<cFifo, cRunning, next, left, lock, userLock, pending, due,
                     pc, arg, fault>>
  BY <1>1, SpotParts DEF C!CancelStop, C!CallGoto, CallsInv, CallInv, AtCallInv, WithLock
<1>3. C!TypeOK'
  BY <1>2, SpotParts DEF C!TypeOK, C!CallLabels, C!CalloutState
<1>4. LinksInv(spot, who)' /\ QueuesInv(spot)'
  BY <1>2, SpotParts, LinksStay, QueuesStay
<1>5. CpusInv(spot)'
  BY <1>2, <1>3, SpotParts DEF CpusInv, CpuInv, AtCpuInv, C!TypeOK
<1>6. CallsInv(spot, who)'
  BY <1>1, <1>2, <1>3, SpotParts DEF CallsInv, CallInv, AtCallInv, C!TypeOK, WithLock, Entering
<1>7. spot[k] = "none"
  <2>1. spot[k] \in {"hand", "none"}
    BY <1>1, <1>2, SpotParts DEF StateInv, StateCallInv
  <2>2. spot[k] = "hand" => C!InHandle(CallCpuOf[k], k)
    BY SpotParts DEF CpusInv, AtCpuInv, C!InHandle, InHandle
  <2> QED BY <1>2, <2>1, <2>2, SpotParts
<1>8. RegisteredInv(spot)'
  BY <1>1, <1>2, <1>3, <1>7, SpotParts DEF RegisteredInv, IsStopped, C!TypeOK
<1>9. /\ \A y \in C!Threads : call'[y] = IF y = x THEN "unlock" ELSE call[y]
      /\ \A j \in Callouts : /\ cstate'[j] = IF j = k THEN "kStopped" ELSE cstate[j]
                             /\ armed'[j] <=> armed[j] /\ j # k
  BY <1>2, SpotParts DEF C!TypeOK
<1>10. StateInv(spot)'
  <2>1. ASSUME NEW y \in C!Threads, StateCallInv(spot, y), CallInv(spot, who, y)
        PROVE  StateCallInv(spot, y)'
    BY <1>1, <1>2, <1>9, <2>1 DEF StateCallInv, CallInv
  <2>2. ASSUME NEW j \in Callouts, StateSpotInv(spot, j) PROVE StateSpotInv(spot, j)'
    BY <1>7, <1>9, <2>2 DEF StateSpotInv
  <2>3. ASSUME NEW d \in CallCpus, StateCpuInv(spot, d) PROVE StateCpuInv(spot, d)'
    BY <1>2, <2>3 DEF StateCpuInv
  <2> QED BY <2>1, <2>2, <2>3, SpotParts DEF StateInv, CallsInv
<1> QED
  BY <1>3, <1>4, <1>5, <1>6, <1>8, <1>10, SpotParts DEF CalloutInv, SpotInv

\* SetHandler() and Cancel() return, without the locks.
LEMMA ReturnKeeps ==
  ASSUME NEW spot, NEW who, AtSpots(spot, who), NEW x \in C!Threads, C!Return(x)
  PROVE  CalloutInv'
<1> USE CalloutFacts DEF C!cpuVars, C!history, C!queue
<1>1. PICK k \in Callouts : k = arg[x]
  BY SpotParts DEF C!Return, C!CallGoto, CallsInv, CallInv, AtCallInv
<1>2. /\ call[x] = "unlock" /\ call' = [call EXCEPT ![x] = "no"]
      /\ lock[k] = x /\ lock' = [lock EXCEPT ![k] = Null]
      /\ arg' = [arg EXCEPT ![x] = Null]
      /\ UNCHANGED <<cFifo, cRunning, next, left, cstate, pending, due, pc,
                     armed, crossed, fault>>
  BY <1>1, SpotParts DEF C!Return, C!CallGoto, C!Release, CallsInv, CallInv, AtCallInv, WithLock
<1>3. C!TypeOK'
  <2>1. userLock' \in [Callouts -> C!Threads \cup {Null}]
    BY <1>1, SpotParts DEF C!TypeOK, C!Return
  <2> QED BY <1>1, <1>2, <2>1, SpotParts DEF C!TypeOK, C!CallLabels
<1>4. LinksInv(spot, who)' /\ QueuesInv(spot)'
  BY <1>2, SpotParts, LinksStay, QueuesStay
<1>5. CpusInv(spot)'
  <2>1. /\ x \in CallCpus => pc[x] \in {"func", "pop"}
        /\ \A y \in C!Threads : /\ call'[y] = IF y = x THEN "no" ELSE call[y]
                               /\ arg'[y] = IF y = x THEN Null ELSE arg[y]
        /\ \A j \in Callouts : lock'[j] = IF j = k THEN Null ELSE lock[j]
    BY <1>2, SpotParts DEF C!TypeOK, CpusInv, CpuInv
  <2>2. ASSUME NEW d \in CallCpus, CpuInv(spot, d) PROVE CpuInv(spot, d)'
    BY <1>2, <2>1, <2>2 DEF CpuInv, InHandle, BetweenTasks
  <2>3. ASSUME NEW j \in Callouts, AtCpuInv(spot, j, CallCpuOf[j])
        PROVE  AtCpuInv(spot, j, CallCpuOf[j])'
    BY <1>2, <2>1, <2>3 DEF AtCpuInv, InHandle
  <2> QED BY <2>2, <2>3, SpotParts DEF CpusInv
<1>6. CallsInv(spot, who)'
  BY <1>1, <1>2, <1>3, SpotParts DEF CallsInv, CallInv, AtCallInv, C!TypeOK, WithLock, Entering
<1>7. RegisteredInv(spot)'
  BY <1>2, <1>3, SpotParts DEF RegisteredInv, IsStopped, C!TypeOK
<1>8. StateInv(spot)'
  <2>1. \A y \in C!Threads : /\ call'[y] = IF y = x THEN "no" ELSE call[y]
                            /\ arg'[y] = IF y = x THEN Null ELSE arg[y]
    BY <1>2, SpotParts DEF C!TypeOK
  <2>2. ASSUME NEW y \in C!Threads, StateCallInv(spot, y) PROVE StateCallInv(spot, y)'
    BY <1>2, <2>1, <2>2 DEF StateCallInv
  <2> QED BY <1>2, <2>2, SpotParts DEF StateInv, StateSpotInv, StateCpuInv
<1> QED
  BY <1>3, <1>4, <1>5, <1>6, <1>7, <1>8, SpotParts DEF CalloutInv, SpotInv

\* Run() looks at the list, finds nothing to do, or sleeps.
LEMMA RunLooksKeeps ==
  ASSUME NEW spot, NEW who, AtSpots(spot, who), NEW c \in CallCpus, call[c] = "no",
         C!RunWake(c) \/ C!RunLook(c) \/ C!RunSleep(c)
  PROVE  CalloutInv'
<1> USE CalloutFacts DEF C!history, C!queue
<1>1. PICK l : /\ pc' = [pc EXCEPT ![c] = l]
               /\ l \in {"wake", "look", "pop"} /\ pc[c] \in {"wake", "look", "pop"}
  BY DEF C!RunWake, C!RunLook, C!RunSleep, C!Goto
<1>2. UNCHANGED <<cFifo, cRunning, next, left, cstate, lock, userLock, call, arg,
                  armed, crossed, fault>>
  BY DEF C!RunWake, C!RunLook, C!RunSleep
<1>3. pending' \in [CallCpus -> BOOLEAN] /\ due' \in [CallCpus -> SUBSET Callouts]
  <2>1. CASE C!RunWake(c)
    BY <2>1, SpotParts DEF C!TypeOK, C!RunWake
  <2>2. CASE C!RunLook(c)
    BY <2>2, SpotParts DEF C!TypeOK, C!RunLook
  <2>3. CASE C!RunSleep(c)
    BY <2>3, SpotParts DEF C!TypeOK, C!RunSleep, C!Pending
  <2> QED BY <2>1, <2>2, <2>3
<1>4. C!TypeOK'
  BY <1>1, <1>2, <1>3, SpotParts DEF C!TypeOK, C!RunLabels
<1>5. LinksInv(spot, who)' /\ QueuesInv(spot)'
  BY <1>2, SpotParts, LinksStay, QueuesStay
<1>6. CpusInv(spot)'
  BY <1>1, <1>2, SpotParts DEF CpusInv, CpuInv, AtCpuInv, C!TypeOK, BetweenTasks, InHandle
<1>7. CallsInv(spot, who)'
  BY <1>1, <1>2, SpotParts DEF CallsInv, CallInv, AtCallInv, C!TypeOK
<1>8. RegisteredInv(spot)' /\ StateInv(spot)'
  BY <1>1, <1>2, SpotParts DEF RegisteredInv, IsStopped, StateInv, StateCallInv,
     StateSpotInv, StateCpuInv, C!TypeOK
<1> QED
  BY <1>4, <1>5, <1>6, <1>7, <1>8, SpotParts DEF CalloutInv, SpotInv

\* It takes the first callout from the list.
LEMMA RunUnlinkKeeps ==
  ASSUME NEW spot, NEW who, AtSpots(spot, who), NEW c \in CallCpus, call[c] = "no",
         C!RunUnlink(c)
  PROVE  CalloutInv'
<1> USE CalloutFacts DEF C!history, C!queue
<1>1. PICK k \in Callouts : k = next[c]
  BY SpotParts DEF C!RunUnlink, C!TypeOK
<1>2. /\ pc[c] = "look" /\ pc' = [pc EXCEPT ![c] = "move"]
      /\ lock[k] = Null /\ lock' = [lock EXCEPT ![k] = c]
      /\ arg' = [arg EXCEPT ![c] = k] /\ next' = [next EXCEPT ![c] = next[k]]
      /\ UNCHANGED <<cFifo, cRunning, left, cstate, userLock, pending, due, call,
                     armed, crossed, fault>>
  BY <1>1 DEF C!RunUnlink, C!Goto
<1>3. C!TypeOK'
  BY <1>1, <1>2, SpotParts DEF C!TypeOK, C!RunLabels
<1>4. /\ c \in CalloutNodes /\ c \notin Callouts /\ k \in CalloutNodes
      /\ \A n \in CalloutNodes : next[n] \in Callouts \cup {Null}
      /\ \A n \in CalloutNodes : next'[n] = IF n = c THEN next[k] ELSE next[n]
  BY <1>1, <1>2, SpotParts DEF C!TypeOK, CalloutNodes
<1>5. spot[k] = "list" /\ who[k] = c /\ CallCpuOf[k] = c
  BY <1>1, <1>4, SpotParts DEF LinksInv, HomeOf
<1>6. next[k] # k /\ (next[k] # Null => /\ next[k] \in Callouts /\ spot[next[k]] = "list"
                                        /\ who[next[k]] = k)
  BY <1>1, <1>4, <1>5, SpotParts DEF LinksInv
<1>7. PICK spot2 : spot2 = [spot EXCEPT ![k] = "move"]
  OBVIOUS
<1>8. PICK who2 : who2 = [j \in Callouts |-> IF j = next[k] THEN c ELSE who[j]]
  OBVIOUS
<1>9. /\ spot2 \in [Callouts -> Spots] /\ spot2[k] = "move"
      /\ \A j \in Callouts : j # k => spot2[j] = spot[j]
  BY <1>7, SpotParts DEF Spots
<1>10. LinksInv(spot2, who2)'
  <2>1. \A n \in CalloutNodes : next'[n] # Null => HomeOf(n) = CallCpuOf[next'[n]]
    BY <1>4, <1>5, SpotParts DEF LinksInv, HomeOf
  <2>2. \A j \in Callouts : next'[j] # Null => spot2[j] \in {"list", "move"}
    BY <1>4, <1>9, SpotParts DEF LinksInv, CalloutNodes
  <2>3. ASSUME NEW n \in CalloutNodes, NEW j \in Callouts
        PROVE  (spot2[j] = "list" /\ who2[j] = n)
                 <=> (next'[n] = j /\ ~(n \in Callouts /\ spot2[n] = "move"))
    <3>1. CASE n = c
      BY <1>1, <1>4, <1>5, <1>6, <1>8, <1>9, <3>1, SpotParts DEF LinksInv
    <3>2. CASE n = k
      BY <1>4, <1>5, <1>6, <1>8, <1>9, <3>2, SpotParts DEF LinksInv
    <3>3. CASE n # c /\ n # k
      <4>1. next'[n] = next[n] /\ (n \in Callouts => spot2[n] = spot[n])
        BY <1>4, <1>9, <3>3
      <4>2. CASE j = k
        BY <1>1, <1>5, <1>9, <3>3, <4>1, <4>2, SpotParts DEF LinksInv
      <4>3. CASE j # k /\ j = next[k]
        BY <1>6, <1>8, <3>3, <4>1, <4>3, SpotParts DEF LinksInv
      <4>4. CASE j # k /\ j # next[k]
        BY <1>8, <1>9, <4>1, <4>4, SpotParts DEF LinksInv
      <4> QED BY <4>2, <4>3, <4>4
    <3> QED BY <3>1, <3>2, <3>3
  <2>4. \A j \in Callouts : spot2[j] = "list" => who2[j] \in CalloutNodes
    BY <1>4, <1>8, <1>9, SpotParts DEF LinksInv
  <2> QED BY <2>1, <2>2, <2>3, <2>4 DEF LinksInv
<1>11. QueuesInv(spot2)'
  BY <1>2, <1>5, <1>9, SpotParts, QueuesStay
<1>12. CpusInv(spot2)'
  BY <1>2, <1>3, <1>5, <1>9, SpotParts DEF CpusInv, CpuInv, AtCpuInv, C!TypeOK, InHandle, BetweenTasks
<1>13. CallsInv(spot2, who2)'
  <2>1. \A j \in Callouts : spot2[j] = "call" <=> spot[j] = "call"
    BY <1>5, <1>9
  <2>2. \A j \in Callouts : spot[j] = "call" => who2[j] = who[j]
    BY <1>6, <1>8
  <2>3. /\ \A y \in C!Threads : /\ arg'[y] = IF y = c THEN k ELSE arg[y]
                               /\ y \in CallCpus => pc'[y] = IF y = c THEN "move" ELSE pc[y]
        /\ \A j \in Callouts : lock'[j] = IF j = k THEN c ELSE lock[j]
    BY <1>2, SpotParts DEF C!TypeOK
  <2>4. ASSUME NEW y \in C!Threads, CallInv(spot, who, y)
        PROVE  CallInv(spot2, who2, y)'
    BY <1>2, <2>1, <2>2, <2>3, <2>4 DEF CallInv, WithLock, Entering
  <2>5. ASSUME NEW j \in Callouts, AtCallInv(spot, who, j)
        PROVE  AtCallInv(spot2, who2, j)'
    BY <1>2, <2>1, <2>2, <2>3, <2>5 DEF AtCallInv, Entering
  <2> QED BY <2>4, <2>5, SpotParts DEF CallsInv
<1>14. RegisteredInv(spot2)'
  BY <1>2, <1>5, <1>9, SpotParts DEF RegisteredInv, IsStopped, C!TypeOK
<1>15. StateInv(spot2)'
  <2>1. \A y \in C!Threads : /\ arg'[y] = IF y = c THEN k ELSE arg[y]
                            /\ y \in CallCpus => pc'[y] = IF y = c THEN "move" ELSE pc[y]
    BY <1>2, SpotParts DEF C!TypeOK
  <2>2. ASSUME NEW y \in C!Threads, StateCallInv(spot, y), CallInv(spot, who, y)
        PROVE  StateCallInv(spot2, y)'
    BY <1>2, <1>5, <1>9, <2>1, <2>2 DEF StateCallInv, CallInv, WithLock
  <2>3. ASSUME NEW j \in Callouts, StateSpotInv(spot, j) PROVE StateSpotInv(spot2, j)'
    BY <1>2, <1>9, <2>3 DEF StateSpotInv
  <2>4. ASSUME NEW d \in CallCpus, StateCpuInv(spot, d), CpuInv(spot, d)
        PROVE  StateCpuInv(spot2, d)'
    BY <1>2, <1>5, <1>9, <2>1, <2>4 DEF StateCpuInv, CpuInv, BetweenTasks
  <2> QED BY <2>2, <2>3, <2>4, SpotParts DEF StateInv, CpusInv, CallsInv
<1> QED
  BY <1>3, <1>9, <1>10, <1>11, <1>12, <1>13, <1>14, <1>15, SpotParts
     DEF CalloutInv, SpotInv

\* Registering callout k on its CPU.
LEMMA CalloutJoins ==
  ASSUME NEW k \in Callouts, Queues(cFifo, CallCpus, Callouts, CallCpuOf),
         C!Q!Register(CallCpuOf[k], k)
  PROVE  /\ Queues(cFifo', CallCpus, Callouts, CallCpuOf) /\ UNCHANGED cRunning
         /\ \A u : Queued(cFifo', u) <=> Queued(cFifo, u) \/ u = k
<1>1. (C!Q!Waiting(k) <=> Queued(cFifo, k)) /\ CallCpuOf[k] \in CallCpus
  BY CalloutWaiting, CalloutFacts
<1>2. Joins(cFifo, cFifo', CallCpuOf[k], k) /\ UNCHANGED cRunning
  BY <1>1 DEF C!Q!Register, C!Q!Enqueue, C!Q!fifoVars, Joins, Appended
<1> QED BY <1>1, <1>2, QueuesJoin

\* It puts the callout into the task queue.
LEMMA RunMoveKeeps ==
  ASSUME NEW spot, NEW who, AtSpots(spot, who), NEW c \in CallCpus, call[c] = "no",
         C!RunMove(c)
  PROVE  CalloutInv'
<1> USE CalloutFacts DEF C!history
<1>1. PICK k \in Callouts : /\ k = arg[c] /\ CallCpuOf[k] = c
                            /\ spot[k] = "move" /\ lock[k] = c
  BY SpotParts DEF C!RunMove, C!Goto, CpusInv, CpuInv, AtCpuInv
<1>2. /\ pc[c] = "move" /\ pc' = [pc EXCEPT ![c] = "pop"]
      /\ next' = [next EXCEPT ![k] = Null]
      /\ cstate' = [cstate EXCEPT ![k] = "kTaskQueue"]
      /\ lock' = [lock EXCEPT ![k] = Null] /\ arg' = [arg EXCEPT ![c] = Null]
      /\ UNCHANGED <<left, userLock, pending, due, call, armed, crossed, fault>>
  BY <1>1 DEF C!RunMove, C!Goto
<1>3. /\ Queues(cFifo', CallCpus, Callouts, CallCpuOf) /\ UNCHANGED cRunning
      /\ \A u : Queued(cFifo', u) <=> Queued(cFifo, u) \/ u = k
  <2>1. Queues(cFifo, CallCpus, Callouts, CallCpuOf)
    BY SpotParts DEF QueuesInv
  <2>2. C!Q!Register(CallCpuOf[k], k)
    BY <1>1 DEF C!RunMove
  <2> QED BY <2>1, <2>2, CalloutJoins
<1>4. C!TypeOK'
  <2>1. cFifo' \in [CallCpus -> Seq(Callouts)]
    BY <1>3 DEF Queues
  <2> QED BY <1>2, <1>3, <2>1, SpotParts DEF C!TypeOK, C!RunLabels, C!CalloutState
<1>5. PICK spot2 : spot2 = [spot EXCEPT ![k] = "queue"]
  OBVIOUS
<1>6. /\ spot2 \in [Callouts -> Spots] /\ spot2[k] = "queue"
      /\ \A j \in Callouts : j # k => spot2[j] = spot[j]
  BY <1>5, SpotParts DEF Spots
<1>7. LinksInv(spot2, who)'
  <2>1. /\ k \in CalloutNodes
        /\ \A n \in CalloutNodes : next'[n] = IF n = k THEN Null ELSE next[n]
    BY <1>2, SpotParts DEF C!TypeOK, CalloutNodes
  <2>2. \A n \in CalloutNodes : next'[n] # Null => HomeOf(n) = CallCpuOf[next'[n]]
    BY <2>1, SpotParts DEF LinksInv
  <2>3. \A j \in Callouts : next'[j] # Null => spot2[j] \in {"list", "move"}
    BY <1>6, <2>1, SpotParts DEF LinksInv, CalloutNodes
  <2>4. ASSUME NEW n \in CalloutNodes, NEW j \in Callouts
        PROVE  (spot2[j] = "list" /\ who[j] = n)
                 <=> (next'[n] = j /\ ~(n \in Callouts /\ spot2[n] = "move"))
    <3>1. CASE n = k
      BY <1>1, <1>6, <2>1, <3>1, SpotParts DEF LinksInv
    <3>2. CASE n # k
      BY <1>1, <1>6, <2>1, <3>2, SpotParts DEF LinksInv
    <3> QED BY <3>1, <3>2
  <2>5. \A j \in Callouts : spot2[j] = "list" => who[j] \in CalloutNodes
    BY <1>6, SpotParts DEF LinksInv
  <2> QED BY <2>2, <2>3, <2>4, <2>5 DEF LinksInv
<1>8. QueuesInv(spot2)'
  BY <1>1, <1>3, <1>6, SpotParts DEF QueuesInv
<1>9. CpusInv(spot2)'
  BY <1>1, <1>2, <1>3, <1>4, <1>6, SpotParts DEF CpusInv, CpuInv, AtCpuInv, C!TypeOK, InHandle, BetweenTasks
<1>10. CallsInv(spot2, who)'
  <2>1. \A j \in Callouts : spot2[j] = "call" <=> spot[j] = "call"
    BY <1>1, <1>6
  <2> QED BY <1>1, <1>2, <1>4, <2>1, SpotParts
          DEF CallsInv, CallInv, AtCallInv, C!TypeOK, WithLock, Entering
<1>11. RegisteredInv(spot2)'
  BY <1>1, <1>2, <1>6, SpotParts DEF RegisteredInv, IsStopped, C!TypeOK
<1>12. StateInv(spot2)'
  <2>1. /\ \A y \in C!Threads : /\ arg'[y] = IF y = c THEN Null ELSE arg[y]
                               /\ y \in CallCpus => pc'[y] = IF y = c THEN "pop" ELSE pc[y]
        /\ \A j \in Callouts : cstate'[j] = IF j = k THEN "kTaskQueue" ELSE cstate[j]
    BY <1>2, SpotParts DEF C!TypeOK
  <2>2. ASSUME NEW y \in C!Threads, StateCallInv(spot, y), CallInv(spot, who, y)
        PROVE  StateCallInv(spot2, y)'
    BY <1>1, <1>2, <1>6, <2>1, <2>2 DEF StateCallInv, CallInv, WithLock
  <2>3. ASSUME NEW j \in Callouts, StateSpotInv(spot, j) PROVE StateSpotInv(spot2, j)'
    BY <1>6, <2>1, <2>3 DEF StateSpotInv
  <2>4. ASSUME NEW d \in CallCpus, StateCpuInv(spot, d), CpuInv(spot, d)
        PROVE  StateCpuInv(spot2, d)'
    BY <1>1, <1>2, <1>3, <1>6, <2>1, <2>4 DEF StateCpuInv, CpuInv, BetweenTasks
  <2> QED BY <2>2, <2>3, <2>4, SpotParts DEF StateInv, CpusInv, CallsInv
<1> QED
  BY <1>4, <1>6, <1>7, <1>8, <1>9, <1>10, <1>11, <1>12, SpotParts
     DEF CalloutInv, SpotInv

\* Run() calls the handler of the task that waits longest.
LEMMA RunPopKeeps ==
  ASSUME NEW spot, NEW who, AtSpots(spot, who), NEW c \in CallCpus, call[c] = "no",
         C!RunPop(c)
  PROVE  CalloutInv'
<1> USE CalloutFacts DEF C!history
<1>1. PICK k : k = Head(cFifo[c])
  OBVIOUS
<1>2. /\ pc[c] = "pop" /\ pc' = [pc EXCEPT ![c] = "test"] /\ cRunning[c] = Null
      /\ cFifo' = Taken(cFifo, c) /\ IsNext(cFifo, c, k)
      /\ cRunning' = [cRunning EXCEPT ![c] = k]
      /\ UNCHANGED <<next, left, cstate, lock, userLock, pending, due, call, arg,
                     armed, crossed, fault>>
  BY <1>1 DEF C!RunPop, C!Q!Dispatch, C!Goto, Taken, IsNext
<1>3. /\ Queues(cFifo', CallCpus, Callouts, CallCpuOf)
      /\ k \in Callouts /\ CallCpuOf[k] = c /\ Queued(cFifo, k)
      /\ \A u : Queued(cFifo', u) <=> Queued(cFifo, u) /\ u # k
  <2>1. Queues(cFifo, CallCpus, Callouts, CallCpuOf)
    BY SpotParts DEF QueuesInv
  <2> QED BY <1>2, <2>1, QueuesTail
<1>4. C!TypeOK'
  <2>1. cFifo' \in [CallCpus -> Seq(Callouts)]
    BY <1>3 DEF Queues
  <2> QED BY <1>2, <1>3, <2>1, SpotParts DEF C!TypeOK, C!RunLabels
<1>5. spot[k] = "queue"
  BY <1>3, SpotParts DEF QueuesInv
<1>6. PICK spot2 : spot2 = [spot EXCEPT ![k] = "hand"]
  OBVIOUS
<1>7. /\ spot2 \in [Callouts -> Spots] /\ spot2[k] = "hand"
      /\ \A j \in Callouts : j # k => spot2[j] = spot[j]
  BY <1>3, <1>6, SpotParts DEF Spots
<1>8. \A d \in CallCpus : /\ pc'[d] = IF d = c THEN "test" ELSE pc[d]
                          /\ cRunning'[d] = IF d = c THEN k ELSE cRunning[d]
  BY <1>2, SpotParts DEF C!TypeOK
<1>9. LinksInv(spot2, who)'
  BY <1>2, <1>3, <1>5, <1>7, SpotParts, LinksStay
<1>10. QueuesInv(spot2)'
  BY <1>3, <1>5, <1>7, SpotParts DEF QueuesInv
<1>11. CpusInv(spot2)'
  <2>1. ASSUME NEW d \in CallCpus, CpuInv(spot, d) PROVE CpuInv(spot2, d)'
    BY <1>2, <1>3, <1>5, <1>7, <1>8, <2>1 DEF CpuInv, InHandle, BetweenTasks
  <2>2. ASSUME NEW j \in Callouts, AtCpuInv(spot, j, CallCpuOf[j])
        PROVE  AtCpuInv(spot2, j, CallCpuOf[j])'
    BY <1>2, <1>3, <1>5, <1>7, <1>8, <2>2 DEF AtCpuInv, InHandle
  <2> QED BY <2>1, <2>2, SpotParts DEF CpusInv
<1>12. CallsInv(spot2, who)'
  <2>1. ASSUME NEW y \in C!Threads, CallInv(spot, who, y)
        PROVE  CallInv(spot2, who, y)'
    BY <1>2, <1>3, <1>5, <1>7, <1>8, <2>1 DEF CallInv, WithLock, Entering
  <2>2. ASSUME NEW j \in Callouts, AtCallInv(spot, who, j)
        PROVE  AtCallInv(spot2, who, j)'
    BY <1>2, <1>3, <1>5, <1>7, <2>2 DEF AtCallInv, Entering
  <2> QED BY <2>1, <2>2, SpotParts DEF CallsInv
<1>13. RegisteredInv(spot2)'
  BY <1>2, <1>3, <1>5, <1>7, SpotParts DEF RegisteredInv, IsStopped
<1>14. StateInv(spot2)'
  <2>1. ASSUME NEW y \in C!Threads, StateCallInv(spot, y), CallInv(spot, who, y)
        PROVE  StateCallInv(spot2, y)'
    BY <1>2, <1>3, <1>5, <1>7, <2>1 DEF StateCallInv, CallInv
  <2>2. ASSUME NEW j \in Callouts, StateSpotInv(spot, j) PROVE StateSpotInv(spot2, j)'
    BY <1>2, <1>3, <1>5, <1>7, <2>2 DEF StateSpotInv
  <2>3. ASSUME NEW d \in CallCpus, StateCpuInv(spot, d), CpuInv(spot, d)
        PROVE  StateCpuInv(spot2, d)'
    BY <1>2, <1>3, <1>5, <1>7, <1>8, <2>3 DEF StateCpuInv, CpuInv, BetweenTasks
  <2> QED BY <2>1, <2>2, <2>3, SpotParts DEF StateInv, CpusInv, CallsInv
<1> QED
  BY <1>4, <1>7, <1>9, <1>10, <1>11, <1>12, <1>13, <1>14, SpotParts
     DEF CalloutInv, SpotInv

\* HandleSub() finds that the time has passed, or not yet.
LEMMA HandleTestKeeps ==
  ASSUME NEW spot, NEW who, AtSpots(spot, who), NEW c \in CallCpus, call[c] = "no",
         C!HandleTest(c)
  PROVE  CalloutInv'
<1> USE CalloutFacts DEF C!history, C!queue
<1>1. PICK l : l = IF left[cRunning[c]] = 0 THEN "begin" ELSE "again"
  OBVIOUS
<1>2. /\ pc[c] = "test" /\ pc' = [pc EXCEPT ![c] = l] /\ l \in {"begin", "again"}
      /\ UNCHANGED <<cFifo, cRunning, next, left, cstate, lock, userLock, pending,
                     due, call, arg, armed, crossed, fault>>
  BY <1>1 DEF C!HandleTest, C!Goto, C!IsTimePassed
<1>3. C!TypeOK'
  BY <1>2, SpotParts DEF C!TypeOK, C!RunLabels
<1>4. \A d \in CallCpus : pc'[d] = IF d = c THEN l ELSE pc[d]
  BY <1>2, SpotParts DEF C!TypeOK
<1>5. LinksInv(spot, who)' /\ QueuesInv(spot)'
  BY <1>2, SpotParts, LinksStay, QueuesStay
<1>6. CpusInv(spot)'
  <2>1. ASSUME NEW d \in CallCpus, CpuInv(spot, d) PROVE CpuInv(spot, d)'
    BY <1>1, <1>2, <1>4, <2>1 DEF CpuInv, InHandle, BetweenTasks
  <2>2. ASSUME NEW j \in Callouts, AtCpuInv(spot, j, CallCpuOf[j])
        PROVE  AtCpuInv(spot, j, CallCpuOf[j])'
    BY <1>2, <1>4, <2>2 DEF AtCpuInv, InHandle
  <2> QED BY <2>1, <2>2, SpotParts DEF CpusInv
<1>7. CallsInv(spot, who)'
  BY <1>2, <1>4, SpotParts DEF CallsInv, CallInv, AtCallInv
<1>8. RegisteredInv(spot)'
  BY <1>2, SpotParts DEF RegisteredInv, IsStopped
<1>9. StateInv(spot)'
  <2>1. ASSUME NEW d \in CallCpus, StateCpuInv(spot, d) PROVE StateCpuInv(spot, d)'
    BY <1>2, <1>4, <2>1 DEF StateCpuInv
  <2> QED BY <1>2, <2>1, SpotParts DEF StateInv, StateCallInv, StateSpotInv
<1> QED
  BY <1>3, <1>5, <1>6, <1>7, <1>8, <1>9, SpotParts DEF CalloutInv, SpotInv

\* A callout whose time has not passed is registered again.
LEMMA HandleAgainKeeps ==
  ASSUME NEW spot, NEW who, AtSpots(spot, who), NEW c \in CallCpus, call[c] = "no",
         C!HandleAgain(c)
  PROVE  CalloutInv'
<1> USE CalloutFacts DEF C!history
<1>1. PICK k \in Callouts : k = cRunning[c] /\ CallCpuOf[k] = c /\ spot[k] = "hand"
  BY SpotParts DEF C!HandleAgain, C!Goto, CpusInv, CpuInv, InHandle, BetweenTasks
<1>2. /\ pc[c] = "again" /\ pc' = [pc EXCEPT ![c] = "return"]
      /\ UNCHANGED <<next, left, cstate, lock, userLock, pending, due, call, arg,
                     armed, fault>>
      /\ crossed' = (crossed \/ \E x \in C!Threads : call[x] = "stop" /\ arg[x] = k)
  BY <1>1 DEF C!HandleAgain, C!Goto
<1>3. /\ Queues(cFifo', CallCpus, Callouts, CallCpuOf) /\ UNCHANGED cRunning
      /\ \A u : Queued(cFifo', u) <=> Queued(cFifo, u) \/ u = k
  <2>1. Queues(cFifo, CallCpus, Callouts, CallCpuOf)
    BY SpotParts DEF QueuesInv
  <2>2. C!Q!Register(CallCpuOf[k], k)
    BY <1>1 DEF C!HandleAgain
  <2> QED BY <2>1, <2>2, CalloutJoins
<1>4. C!TypeOK'
  <2>1. cFifo' \in [CallCpus -> Seq(Callouts)]
    BY <1>3 DEF Queues
  <2> QED BY <1>2, <1>3, <2>1, SpotParts DEF C!TypeOK, C!RunLabels
<1>5. PICK spot2 : spot2 = [spot EXCEPT ![k] = "queue"]
  OBVIOUS
<1>6. /\ spot2 \in [Callouts -> Spots] /\ spot2[k] = "queue"
      /\ \A j \in Callouts : j # k => spot2[j] = spot[j]
  BY <1>5, SpotParts DEF Spots
<1>7. \A d \in CallCpus : pc'[d] = IF d = c THEN "return" ELSE pc[d]
  BY <1>2, SpotParts DEF C!TypeOK
<1>8. LinksInv(spot2, who)'
  BY <1>1, <1>2, <1>6, SpotParts, LinksStay
<1>9. QueuesInv(spot2)'
  BY <1>1, <1>3, <1>6, SpotParts DEF QueuesInv
<1>10. CpusInv(spot2)'
  <2>1. ASSUME NEW d \in CallCpus, CpuInv(spot, d) PROVE CpuInv(spot2, d)'
    BY <1>1, <1>2, <1>3, <1>6, <1>7, <2>1 DEF CpuInv, InHandle, BetweenTasks
  <2>2. ASSUME NEW j \in Callouts, AtCpuInv(spot, j, CallCpuOf[j])
        PROVE  AtCpuInv(spot2, j, CallCpuOf[j])'
    BY <1>1, <1>2, <1>3, <1>6, <1>7, <2>2 DEF AtCpuInv, InHandle
  <2> QED BY <2>1, <2>2, SpotParts DEF CpusInv
<1>11. CallsInv(spot2, who)'
  <2>1. ASSUME NEW y \in C!Threads, CallInv(spot, who, y)
        PROVE  CallInv(spot2, who, y)'
    BY <1>1, <1>2, <1>6, <1>7, <2>1 DEF CallInv, WithLock, Entering
  <2>2. ASSUME NEW j \in Callouts, AtCallInv(spot, who, j)
        PROVE  AtCallInv(spot2, who, j)'
    BY <1>1, <1>2, <1>6, <2>2 DEF AtCallInv, Entering
  <2> QED BY <2>1, <2>2, SpotParts DEF CallsInv
<1>12. RegisteredInv(spot2)'
  BY <1>1, <1>2, <1>6, SpotParts DEF RegisteredInv, IsStopped
<1>13. StateInv(spot2)'
  <2>1. \A y \in C!Threads : ~(call[y] = "stop" /\ arg[y] = k)
    BY <1>2, SpotParts
  <2>2. ASSUME NEW y \in C!Threads, StateCallInv(spot, y), CallInv(spot, who, y)
        PROVE  StateCallInv(spot2, y)'
    BY <1>1, <1>2, <1>6, <2>1, <2>2 DEF StateCallInv, CallInv
  <2>3. ASSUME NEW j \in Callouts, StateSpotInv(spot, j) PROVE StateSpotInv(spot2, j)'
    BY <1>1, <1>2, <1>6, <2>3 DEF StateSpotInv
  <2>4. ASSUME NEW d \in CallCpus, StateCpuInv(spot, d), CpuInv(spot, d)
        PROVE  StateCpuInv(spot2, d)'
    BY <1>1, <1>2, <1>3, <1>6, <1>7, <2>4 DEF StateCpuInv, CpuInv, BetweenTasks
  <2> QED BY <2>2, <2>3, <2>4, SpotParts DEF StateInv, CpusInv, CallsInv
<1> QED
  BY <1>4, <1>6, <1>8, <1>9, <1>10, <1>11, <1>12, <1>13, SpotParts
     DEF CalloutInv, SpotInv

\* The function of the callout is called: it is not registered any more.
LEMMA HandleBeginKeeps ==
  ASSUME NEW spot, NEW who, AtSpots(spot, who), NEW c \in CallCpus, call[c] = "no",
         C!HandleBegin(c)
  PROVE  CalloutInv'
<1> USE CalloutFacts DEF C!queue
<1>1. PICK k \in Callouts : k = cRunning[c] /\ CallCpuOf[k] = c /\ spot[k] = "hand"
  BY SpotParts DEF C!HandleBegin, C!Goto, CpusInv, CpuInv, InHandle, BetweenTasks
<1>2. /\ pc[c] = "begin" /\ pc' = [pc EXCEPT ![c] = "func"]
      /\ cstate' = [cstate EXCEPT ![k] = "kHandling"]
      /\ armed' = [armed EXCEPT ![k] = FALSE]
      /\ UNCHANGED <<cFifo, cRunning, next, left, lock, pending, due, call, arg,
                     crossed, fault>>
  BY <1>1 DEF C!HandleBegin, C!Goto
<1>3. C!TypeOK'
  <2>1. userLock' \in [Callouts -> C!Threads \cup {Null}]
    <3>1. UNCHANGED userLock \/ userLock' = [userLock EXCEPT ![k] = c]
      BY <1>1 DEF C!HandleBegin
    <3> QED BY <3>1, SpotParts DEF C!TypeOK
  <2> QED BY <1>2, <2>1, SpotParts DEF C!TypeOK, C!RunLabels, C!CalloutState
<1>4. PICK spot2 : spot2 = [spot EXCEPT ![k] = "none"]
  OBVIOUS
<1>5. /\ spot2 \in [Callouts -> Spots] /\ spot2[k] = "none"
      /\ \A j \in Callouts : j # k => spot2[j] = spot[j]
  BY <1>4, SpotParts DEF Spots
<1>6. /\ \A d \in CallCpus : pc'[d] = IF d = c THEN "func" ELSE pc[d]
      /\ \A j \in Callouts : /\ cstate'[j] = IF j = k THEN "kHandling" ELSE cstate[j]
                             /\ armed'[j] <=> armed[j] /\ j # k
  BY <1>2, SpotParts DEF C!TypeOK
<1>7. LinksInv(spot2, who)' /\ QueuesInv(spot2)'
  BY <1>1, <1>2, <1>5, SpotParts, LinksStay, QueuesStay
<1>8. CpusInv(spot2)'
  <2>1. ASSUME NEW d \in CallCpus, CpuInv(spot, d) PROVE CpuInv(spot2, d)'
    BY <1>1, <1>2, <1>5, <1>6, <2>1 DEF CpuInv, InHandle, BetweenTasks
  <2>2. ASSUME NEW j \in Callouts, AtCpuInv(spot, j, CallCpuOf[j])
        PROVE  AtCpuInv(spot2, j, CallCpuOf[j])'
    BY <1>1, <1>2, <1>5, <1>6, <2>2 DEF AtCpuInv, InHandle
  <2> QED BY <2>1, <2>2, SpotParts DEF CpusInv
<1>9. CallsInv(spot2, who)'
  <2>1. ASSUME NEW y \in C!Threads, CallInv(spot, who, y)
        PROVE  CallInv(spot2, who, y)'
    BY <1>1, <1>2, <1>5, <1>6, <2>1 DEF CallInv, WithLock, Entering
  <2>2. ASSUME NEW j \in Callouts, AtCallInv(spot, who, j)
        PROVE  AtCallInv(spot2, who, j)'
    BY <1>1, <1>2, <1>5, <2>2 DEF AtCallInv, Entering
  <2> QED BY <2>1, <2>2, SpotParts DEF CallsInv
<1>10. RegisteredInv(spot2)'
  BY <1>2, <1>5, <1>6, SpotParts DEF RegisteredInv, IsStopped
<1>11. StateInv(spot2)'
  <2>1. ASSUME NEW y \in C!Threads, StateCallInv(spot, y), CallInv(spot, who, y)
        PROVE  StateCallInv(spot2, y)'
    BY <1>1, <1>2, <1>5, <1>6, <2>1 DEF StateCallInv, CallInv
  <2>2. ASSUME NEW j \in Callouts, StateSpotInv(spot, j) PROVE StateSpotInv(spot2, j)'
    BY <1>5, <1>6, <2>2 DEF StateSpotInv
  <2>3. ASSUME NEW d \in CallCpus, StateCpuInv(spot, d), CpuInv(spot, d)
        PROVE  StateCpuInv(spot2, d)'
    BY <1>1, <1>2, <1>5, <1>6, <2>3 DEF StateCpuInv, CpuInv, BetweenTasks
  <2> QED BY <2>1, <2>2, <2>3, SpotParts DEF StateInv, CpusInv, CallsInv
<1> QED
  BY <1>3, <1>5, <1>7, <1>8, <1>9, <1>10, <1>11, SpotParts DEF CalloutInv, SpotInv

\* The function returns, and HandleSub() does, which leaves everything where
\* it is.
LEMMA HandleEndKeeps ==
  ASSUME NEW spot, NEW who, AtSpots(spot, who), NEW c \in CallCpus, call[c] = "no",
         C!HandleEnd(c) \/ C!HandleStop(c) \/ C!HandleReturn(c)
  PROVE  CalloutInv'
<1> USE CalloutFacts DEF C!history, C!queue
<1>1. PICK l, m : /\ pc' = [pc EXCEPT ![c] = l] /\ cRunning' = [cRunning EXCEPT ![c] = m]
                  /\ \/ pc[c] = "func" /\ l = "stop" /\ m = cRunning[c]
                     \/ pc[c] = "stop" /\ l = "return" /\ m = cRunning[c]
                     \/ pc[c] = "return" /\ l = "pop" /\ m = Null
  <2>1. cRunning = [cRunning EXCEPT ![c] = cRunning[c]]
    BY SpotParts DEF C!TypeOK
  <2> QED BY <2>1 DEF C!HandleEnd, C!HandleStop, C!HandleReturn, C!Goto, C!Q!Finish
<1>2. UNCHANGED <<cFifo, next, left, lock, pending, due, call, arg, armed, crossed,
                  fault>>
  BY DEF C!HandleEnd, C!HandleStop, C!HandleReturn, C!Q!Finish
<1>3. cRunning[c] = Null => pc[c] = "return" /\ UNCHANGED <<cstate, userLock>>
  BY SpotParts DEF C!HandleEnd, C!HandleStop, C!HandleReturn, C!Goto, CpusInv, CpuInv,
     BetweenTasks
<1>4. cRunning[c] # Null => cRunning[c] \in Callouts /\ CallCpuOf[cRunning[c]] = c
  BY SpotParts DEF CpusInv, CpuInv
<1>5. \/ UNCHANGED cstate
      \/ pc[c] = "stop" /\ cstate' = [cstate EXCEPT ![cRunning[c]] = "kStopped"]
  BY DEF C!HandleEnd, C!HandleStop, C!HandleReturn, C!Goto
<1>6. C!TypeOK'
  <2>1. userLock' \in [Callouts -> C!Threads \cup {Null}]
    <3>1. CASE C!HandleEnd(c)
      <4>1. UNCHANGED userLock \/ userLock' = [userLock EXCEPT ![cRunning[c]] = Null]
            \/ userLock' = [userLock EXCEPT ![cRunning[c]] = userLock[cRunning[c]]]
        BY <3>1 DEF C!HandleEnd
      <4>2. userLock \in [Callouts -> C!Threads \cup {Null}]
        BY SpotParts DEF C!TypeOK
      <4> QED BY <4>1, <4>2
    <3>2. CASE UNCHANGED userLock
      BY <3>2, SpotParts DEF C!TypeOK
    <3> QED BY <3>1, <3>2 DEF C!HandleStop, C!HandleReturn
  <2>2. cstate' \in [Callouts -> C!CalloutState]
    BY <1>5, SpotParts DEF C!TypeOK, C!CalloutState
  <2>3. l \in C!RunLabels /\ m \in Callouts \cup {Null}
    BY <1>1, <1>4 DEF C!RunLabels
  <2>4. /\ pc' \in [CallCpus -> C!RunLabels]
        /\ cRunning' \in [CallCpus -> Callouts \cup {Null}]
    BY <1>1, <2>3, SpotParts DEF C!TypeOK
  <2> QED BY <1>2, <2>1, <2>2, <2>4, SpotParts DEF C!TypeOK
<1>7. \A d \in CallCpus : /\ pc'[d] = IF d = c THEN l ELSE pc[d]
                          /\ cRunning'[d] = IF d = c THEN m ELSE cRunning[d]
  BY <1>1, SpotParts DEF C!TypeOK
<1>8. LinksInv(spot, who)' /\ QueuesInv(spot)'
  BY <1>2, SpotParts, LinksStay, QueuesStay
<1>9. CpusInv(spot)'
  <2>1. ASSUME NEW d \in CallCpus, CpuInv(spot, d) PROVE CpuInv(spot, d)'
    BY <1>1, <1>2, <1>7, <2>1 DEF CpuInv, InHandle, BetweenTasks
  <2>2. ASSUME NEW j \in Callouts, AtCpuInv(spot, j, CallCpuOf[j])
        PROVE  AtCpuInv(spot, j, CallCpuOf[j])'
    BY <1>1, <1>2, <1>7, <2>2 DEF AtCpuInv, InHandle
  <2> QED BY <2>1, <2>2, SpotParts DEF CpusInv
<1>10. CallsInv(spot, who)'
  <2>1. ASSUME NEW y \in C!Threads, CallInv(spot, who, y)
        PROVE  CallInv(spot, who, y)'
    BY <1>1, <1>2, <1>7, <2>1 DEF CallInv, WithLock, Entering
  <2>2. ASSUME NEW j \in Callouts, AtCallInv(spot, who, j)
        PROVE  AtCallInv(spot, who, j)'
    BY <1>1, <1>2, <2>2 DEF AtCallInv, Entering
  <2> QED BY <2>1, <2>2, SpotParts DEF CallsInv
<1>11. RegisteredInv(spot)'
  BY <1>2, SpotParts DEF RegisteredInv, IsStopped
<1>12. StateInv(spot)'
  <2>1. \A j \in Callouts : cstate'[j] # cstate[j]
          => cstate'[j] = "kStopped" /\ spot[j] \notin {"queue", "hand"}
    BY <1>4, <1>5, SpotParts DEF C!TypeOK, StateInv, StateCpuInv
  <2>2. ASSUME NEW j \in Callouts, StateSpotInv(spot, j) PROVE StateSpotInv(spot, j)'
    BY <2>1, <2>2 DEF StateSpotInv
  <2>3. ASSUME NEW d \in CallCpus, StateCpuInv(spot, d) PROVE StateCpuInv(spot, d)'
    BY <1>1, <1>7, <2>3 DEF StateCpuInv
  <2> QED BY <1>2, <2>2, <2>3, SpotParts DEF StateInv, StateCallInv
<1> QED
  BY <1>6, <1>8, <1>9, <1>10, <1>11, <1>12, SpotParts DEF CalloutInv, SpotInv

LEMMA TickKeeps ==
  ASSUME NEW spot, NEW who, AtSpots(spot, who), C!Tick
  PROVE  CalloutInv'
<1> USE DEF C!history, C!queue, C!cpuVars
<1>1. /\ \A k \in Callouts : left[k] = 0 => left'[k] = 0
      /\ left' \in [Callouts -> Nat]
  BY SpotParts DEF C!Tick, C!Pred, C!TypeOK
<1>2. UNCHANGED <<cFifo, cRunning, next, cstate, lock, userLock, pending, due, pc,
                  call, arg, armed, crossed, fault>>
  BY DEF C!Tick
<1>3. C!TypeOK'
  BY <1>1, <1>2, SpotParts DEF C!TypeOK
<1>4. LinksInv(spot, who)' /\ QueuesInv(spot)'
  BY <1>2, SpotParts, LinksStay, QueuesStay
<1>5. CpusInv(spot)'
  BY <1>1, <1>2, SpotParts DEF CpusInv, CpuInv, AtCpuInv, BetweenTasks
<1>6. CallsInv(spot, who)' /\ RegisteredInv(spot)'
  BY <1>2, SpotParts
     DEF CallsInv, CallInv, AtCallInv, RegisteredInv, IsStopped
<1>7. StateInv(spot)'
  BY <1>2, SpotParts DEF StateInv, StateCallInv, StateSpotInv, StateCpuInv
<1> QED
  BY <1>3, <1>4, <1>5, <1>6, <1>7, SpotParts DEF CalloutInv, SpotInv

\* A Cancel() that has crossed HandleSub() is not forgotten.
LEMMA CrossedStays == ASSUME crossed, [C!Next]_(C!vars) PROVE crossed'
<1> USE DEF C!history
<1>1. ASSUME NEW x \in C!Threads, NEW k \in Callouts, C!SetHandler(x, k) \/ C!Cancel(x, k)
      PROVE  crossed'
  BY <1>1 DEF C!SetHandler, C!Cancel
<1>2. ASSUME NEW x \in C!Threads, C!CallStep(x) PROVE crossed'
  BY <1>2 DEF C!CallStep, C!SetTime, C!RegisterCallout, C!CancelSwitch, C!CancelUnlink,
     C!CancelRemove, C!CancelStop, C!Return
<1>3. ASSUME NEW c \in CallCpus, C!CpuStep(c) PROVE crossed'
  BY <1>3 DEF C!CpuStep, C!RunWake, C!RunLook, C!RunUnlink, C!RunMove, C!RunPop,
     C!RunSleep, C!HandleTest, C!HandleAgain, C!HandleBegin, C!HandleEnd, C!HandleStop,
     C!HandleReturn
<1>4. CASE C!Tick \/ UNCHANGED C!vars
  BY <1>4 DEF C!Tick, C!vars
<1> QED BY <1>1, <1>2, <1>3, <1>4 DEF C!Next

\* Every step keeps the invariant.
LEMMA CalloutInvNext ==
  ASSUME CalloutInv, [C!Next]_(C!vars)
  PROVE  CalloutInv'
<1>1. CASE crossed \/ crossed'
  BY <1>1, CrossedStays DEF CalloutInv
<1>2. CASE ~crossed /\ ~crossed'
  <2>1. PICK spot, who : AtSpots(spot, who)
    BY <1>2 DEF CalloutInv, AtSpots
  <2>2. ASSUME NEW x \in C!Threads, NEW k \in Callouts, C!SetHandler(x, k) \/ C!Cancel(x, k)
        PROVE  CalloutInv'
    BY <2>1, <2>2, EnterKeeps
  <2>3. ASSUME NEW x \in C!Threads, C!CallStep(x) PROVE CalloutInv'
    BY <2>1, <2>3, SetTimeKeeps, RegisterCalloutKeeps, CancelSwitchKeeps,
       CancelUnlinkKeeps, CancelRemoveKeeps, CancelStopKeeps, ReturnKeeps DEF C!CallStep
  <2>4. ASSUME NEW c \in CallCpus, C!CpuStep(c) PROVE CalloutInv'
    BY <2>1, <2>4, RunLooksKeeps, RunUnlinkKeeps, RunMoveKeeps, RunPopKeeps,
       HandleTestKeeps, HandleAgainKeeps, HandleBeginKeeps, HandleEndKeeps DEF C!CpuStep
  <2>5. CASE C!Tick
    BY <2>1, <2>5, TickKeeps
  <2>6. CASE UNCHANGED C!vars
    <3>1. UNCHANGED <<cFifo, cRunning, next, left, cstate, lock, userLock, pending, due,
                      pc, call, arg, armed, crossed, fault>>
      BY <2>6 DEF C!vars, C!queue, C!cpuVars, C!history
    <3>2. C!TypeOK'
      BY <2>1, <3>1, SpotParts DEF C!TypeOK
    <3>3. LinksInv(spot, who)' /\ QueuesInv(spot)'
      BY <2>1, <3>1, SpotParts, LinksStay, QueuesStay
    <3>4. CpusInv(spot)' /\ CallsInv(spot, who)'
      BY <2>1, <3>1, SpotParts DEF CpusInv, CpuInv, AtCpuInv, CallsInv, CallInv, AtCallInv
    <3>5. RegisteredInv(spot)' /\ StateInv(spot)'
      BY <2>1, <3>1, SpotParts
         DEF RegisteredInv, IsStopped, StateInv, StateCallInv, StateSpotInv, StateCpuInv
    <3> QED BY <2>1, <3>2, <3>3, <3>4, <3>5, SpotParts DEF CalloutInv, SpotInv
  <2> QED BY <2>2, <2>3, <2>4, <2>5, <2>6 DEF C!Next
<1> QED BY <1>1, <1>2

\* Each spot but "none" is one place.
PlaceOf(spot, who, k) ==
  CASE spot[k] = "list"  -> who[k]
    [] spot[k] = "queue" -> <<"queue", CallCpuOf[k]>>
    [] spot[k] = "move"  -> <<"moved", CallCpuOf[k]>>
    [] spot[k] = "hand"  -> <<"handled", CallCpuOf[k]>>
    [] spot[k] = "call"  -> <<"call", who[k]>>
    [] OTHER -> Null

LEMMA PlacesAre ==
  ASSUME NEW spot, NEW who, C!TypeOK, SpotInv(spot, who), NEW k \in Callouts
  PROVE  C!Places(k) = IF spot[k] = "none" THEN {} ELSE {PlaceOf(spot, who, k)}
<1> USE CalloutFacts
<1>1. /\ LinksInv(spot, who) /\ QueuesInv(spot) /\ CpusInv(spot) /\ CallsInv(spot, who)
      /\ spot[k] \in Spots
  BY DEF SpotInv
<1>2. {n \in CalloutNodes : next[n] = k /\ \A c \in CallCpus : pc[c] = "move" => arg[c] # n}
        = IF spot[k] = "list" THEN {who[k]} ELSE {}
  <2>1. ASSUME NEW n \in CalloutNodes
        PROVE  (\A c \in CallCpus : pc[c] = "move" => arg[c] # n)
                  <=> ~(n \in Callouts /\ spot[n] = "move")
    BY <1>1 DEF CpusInv, CpuInv, AtCpuInv
  <2> QED BY <1>1, <2>1 DEF LinksInv
<1>3. {c \in CallCpus : k \in C!Q!Elements(cFifo[c])}
        = IF spot[k] = "queue" THEN {CallCpuOf[k]} ELSE {}
  BY <1>1 DEF QueuesInv, Queues, Queued, C!Q!Elements, Members
<1>4. {c \in CallCpus : pc[c] = "move" /\ arg[c] = k}
        = IF spot[k] = "move" THEN {CallCpuOf[k]} ELSE {}
  BY <1>1 DEF CpusInv, CpuInv, AtCpuInv
<1>5. {c \in CallCpus : C!InHandle(c, k)}
        = IF spot[k] = "hand" THEN {CallCpuOf[k]} ELSE {}
  BY <1>1 DEF CpusInv, CpuInv, AtCpuInv, InHandle, C!InHandle
<1>6. {x \in C!Threads : arg[x] = k /\ call[x] = "insert"}
        = IF spot[k] = "call" THEN {who[k]} ELSE {}
  BY <1>1 DEF CallsInv, CallInv, AtCallInv, Entering
<1> QED
  BY <1>1, <1>2, <1>3, <1>4, <1>5, <1>6 DEF C!Places, PlaceOf, Spots, CalloutNodes

\* A registered callout is in exactly one place, one that is not is nowhere.
LEMMA CalloutIsInOnePlace == CalloutInv => C!RegisteredIsInOnePlace
<1> SUFFICES ASSUME CalloutInv, ~crossed, NEW k \in Callouts
             PROVE  /\ \A p, q \in C!Places(k) : p = q
                    /\ ~armed[k] => C!Places(k) = {}
                    /\ armed[k] => C!Places(k) # {} \/ IsStopped(k)
  BY DEF C!RegisteredIsInOnePlace, C!InOnePlaceAtMost, C!InPlaceIfRegistered, IsStopped
<1>1. PICK spot, who : C!TypeOK /\ SpotInv(spot, who)
  BY DEF CalloutInv
<1>2. C!Places(k) = IF spot[k] = "none" THEN {} ELSE {PlaceOf(spot, who, k)}
  BY <1>1, PlacesAre
<1>3. /\ armed[k] => spot[k] # "none" \/ IsStopped(k)
      /\ spot[k] # "none" => armed[k]
  BY <1>1 DEF SpotInv, RegisteredInv
<1> QED BY <1>2, <1>3

\* The function of a callout is called at its time, and for a SetHandler().
LEMMA CalloutExecutes ==
  ASSUME CalloutInv, [C!Next]_(C!vars)
  PROVE  C!OnTime /\ C!OnlyRegistered
<1>2. SUFFICES ASSUME NEW k \in Callouts, C!Executes(k), ~crossed
      PROVE  left[k] = 0 /\ armed[k]
  BY DEF C!OnTime, C!OnlyRegistered
<1>1. PICK spot, who : C!TypeOK /\ SpotInv(spot, who)
  BY <1>2 DEF CalloutInv
<1>3. cstate[k] # "kHandling" /\ cstate'[k] = "kHandling"
  BY <1>2 DEF C!Executes
<1>4. PICK c \in CallCpus : C!HandleBegin(c)
  <2>1. cstate' # cstate
    BY <1>3
  <2>2. /\ \A d : cstate' # [cstate EXCEPT ![d] = "kTaskQueue"]
        /\ \A d : cstate' # [cstate EXCEPT ![d] = "kCalloutQueue"]
        /\ \A d : cstate' # [cstate EXCEPT ![d] = "kStopped"]
    BY <1>1, <1>3 DEF C!TypeOK
  <2>3. ASSUME NEW x \in C!Threads, NEW j \in Callouts PROVE ~C!SetHandler(x, j) /\ ~C!Cancel(x, j)
    BY <2>1 DEF C!SetHandler, C!Cancel
  <2>4. ASSUME NEW x \in C!Threads PROVE ~C!CallStep(x)
    BY <2>1, <2>2 DEF C!CallStep, C!SetTime, C!RegisterCallout, C!CancelSwitch,
       C!CancelUnlink, C!CancelRemove, C!CancelStop, C!Return
  <2>5. ~C!Tick /\ ~UNCHANGED C!vars
    BY <2>1 DEF C!Tick, C!vars
  <2>6. PICK c \in CallCpus : C!CpuStep(c)
    BY <2>3, <2>4, <2>5 DEF C!Next
  <2>7. ~C!RunWake(c) /\ ~C!RunLook(c) /\ ~C!RunUnlink(c) /\ ~C!RunPop(c) /\ ~C!RunSleep(c)
    BY <2>1 DEF C!RunWake, C!RunLook, C!RunUnlink, C!RunPop, C!RunSleep
  <2>8. ~C!HandleTest(c) /\ ~C!HandleAgain(c) /\ ~C!HandleEnd(c) /\ ~C!HandleReturn(c)
    BY <2>1 DEF C!HandleTest, C!HandleAgain, C!HandleEnd, C!HandleReturn
  <2>9. ~C!RunMove(c) /\ ~C!HandleStop(c)
    BY <2>2 DEF C!RunMove, C!HandleStop
  <2> QED BY <2>6, <2>7, <2>8, <2>9 DEF C!CpuStep
<1>5. k = cRunning[c]
  <2>1. cstate' = [cstate EXCEPT ![cRunning[c]] = "kHandling"]
    BY <1>4 DEF C!HandleBegin
  <2> QED BY <1>1, <1>3, <2>1 DEF C!TypeOK
<1>6. pc[c] = "begin"
  BY <1>4 DEF C!HandleBegin, C!Goto
<1>7. left[k] = 0 /\ spot[k] = "hand"
  BY <1>1, <1>5, <1>6 DEF SpotInv, CpusInv, CpuInv, InHandle
<1>8. armed[k]
  BY <1>1, <1>7 DEF SpotInv, RegisteredInv
<1> QED BY <1>7, <1>8
-----------------------------------------------------------------------------
(***************************************************************************)
(* The three classes side by side.                                         *)
(***************************************************************************)

\* A behaviour of the whole is one of each class.
LEMMA EachOnItsOwn == SpecAny => Spec /\ PO!Spec /\ C!Spec
<1>1. InitAny => Init /\ PO!Init /\ C!Init
  BY DEF InitAny
<1>2. [NextAny]_allVars => [Next]_vars
  BY DEF NextAny, allVars
<1>3. [NextAny]_allVars => [PO!Next]_(PO!vars)
  BY DEF NextAny, allVars, pollingVars, PO!vars, PO!queue
<1>4. [NextAny]_allVars => [C!Next]_(C!vars)
  BY DEF NextAny, allVars, calloutVars, C!vars, C!queue, C!cpuVars, C!history
<1> QED BY <1>1, <1>2, <1>3, <1>4, PTL DEF SpecAny, Spec, PO!Spec, C!Spec

\* A polling that is on is looked at again, and a callout that is registered is
\* in one place, for any number of them: RegisterPolling(), RemovePolling(),
\* SetHandler(), Cancel() and Run() leave none behind and link none twice.
THEOREM NothingIsForgottenHolds == SpecAny => []NothingIsForgotten
<1>1. PO!Spec => []PollInv
  <2>1. PollInv /\ [PO!Next]_(PO!vars) => PollInv'
    BY PollInvNext
  <2> QED BY <2>1, PollInvInit, PTL DEF PO!Spec
<1>2. C!Spec => []CalloutInv
  <2>1. CalloutInv /\ [C!Next]_(C!vars) => CalloutInv'
    BY CalloutInvNext
  <2> QED BY <2>1, CalloutInvInit, PTL DEF C!Spec
<1>3. PollInv /\ CalloutInv => NothingIsForgotten
  BY CalloutIsInOnePlace DEF NothingIsForgotten, PollInv, CalloutInv
<1> QED BY <1>1, <1>2, <1>3, EachOnItsOwn, PTL

\* HandleSub() calls the function of a callout only while it is registered, and
\* never before its time, whoever calls SetHandler() and Cancel(), until a
\* Cancel() crosses HandleSub().
THEOREM ExecutedWhenAskedHolds == SpecAny => ExecutedWhenAsked
<1>1. CalloutInv /\ [C!Next]_(C!vars) => CalloutInv'
  BY CalloutInvNext
<1>2. CalloutInv /\ [C!Next]_(C!vars)
        => [C!OnTime /\ C!OnlyRegistered]_calloutVars
  BY CalloutExecutes
<1> QED
  BY <1>1, <1>2, CalloutInvInit, EachOnItsOwn, PTL DEF C!Spec, ExecutedWhenAsked
=============================================================================
