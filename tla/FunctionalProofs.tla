-------------------------- MODULE FunctionalProofs --------------------------
(***************************************************************************)
(* Theorems about Functional, for any number of CPUs, objects and pushing  *)
(* threads and any capacity: _state tells whether the task is queued or    *)
(* still going to look at the buffer, so no wakeup is lost or doubled.     *)
(* And about Tty, for any threads, strings and length of a string: what is *)
(* printed comes out whole, once and in order.                             *)
(***************************************************************************)
EXTENDS Output, ListLemmas

\* A CPU is inside Handle() exactly while it has a task in hand, one of its
\* own, and a client inside Push() knows its object.
HandlersAtHome ==
  /\ \A c \in Cpus : hpc[c] = "idle" <=> running[c] = Null
  /\ \A c \in Cpus : running[c] # Null => c = CpuOf[running[c]]
  /\ \A k \in Clients : ppc[k] # "idle" => target[k] # Null

\* Every task waits at most once, on its own CPU.
FifoInv ==
  /\ Queues(fifo, Cpus, Functionals, CpuOf)
  /\ running \in [Cpus -> Functionals \cup {Null}]

\* The inductive invariant.
Inv == TypeOK /\ FifoInv /\ HandlersAtHome /\ StateIsTheTask

LEMMA HomeIsCpuOf ==
  /\ CpuOf \in [Functionals -> Cpus] /\ Capacity \in Nat \ {0}
  /\ Null \notin Functionals
  BY FunctionalAssumption

LEMMA WaitingIsQueued ==
  ASSUME FifoInv
  PROVE  \A f : Q!Waiting(f) <=> Queued(fifo, f)
  BY DEF FifoInv, Queues, Queued, Q!Waiting, Q!Elements, Members

LEMMA WaitingIsQueuedNext ==
  ASSUME FifoInv'
  PROVE  \A f : Q!Waiting(f)' <=> Queued(fifo', f)
  BY DEF FifoInv, Queues, Queued, Q!Waiting, Q!Elements, Members

LEMMA InvInit == Init => Inv
<1> SUFFICES ASSUME Init PROVE Inv
  OBVIOUS
<1>1. fifo = [c \in Cpus |-> <<>>] /\ running = [c \in Cpus |-> Null]
  BY DEF Init, Q!Init
<1>2. FifoInv /\ (\A f : ~Q!Waiting(f)) /\ \A c \in Cpus : running[c] = Null
  <2>1. Queues(fifo, Cpus, Functionals, CpuOf) /\ \A f : ~Queued(fifo, f)
    BY <1>1, QueuesStart
  <2>2. FifoInv
    BY <1>1, <2>1 DEF FifoInv
  <2> QED BY <1>1, <2>1, <2>2, WaitingIsQueued
<1>3. buf \in [Functionals -> Seq(Clients)] /\ \A f \in Functionals : Len(buf[f]) <= Capacity
  BY HomeIsCpuOf DEF Init
<1>4. TypeOK
  BY <1>2, <1>3, HomeIsCpuOf DEF Init, TypeOK, HandleLabels, PushLabels,
     FunctionState, FifoInv, Queues
<1>5. HandlersAtHome /\ StateIsTheTask
  BY <1>2, HomeIsCpuOf DEF Init, HandlersAtHome, StateIsTheTask, Handling
<1> QED
  BY <1>2, <1>4, <1>5 DEF Inv

\* What registering the task of an object does to the queues.
LEMMA Registered ==
  ASSUME Inv, NEW f \in Functionals, Q!Register(CpuOf[f], f)
  PROVE  /\ FifoInv'
         /\ \A u \in Functionals : Q!Waiting(u)' <=> Q!Waiting(u) \/ u = f
         /\ UNCHANGED running
<1>1. FifoInv /\ CpuOf[f] \in Cpus
  BY HomeIsCpuOf DEF Inv
<1>2. CASE Q!Waiting(f)
  BY <1>1, <1>2 DEF Q!Register, Q!Enqueue, Q!fifoVars, Q!Waiting, FifoInv
<1>3. CASE ~Q!Waiting(f)
  <2>1. fifo' = Appended(fifo, CpuOf[f], f) /\ UNCHANGED running
    BY <1>3 DEF Q!Register, Q!Enqueue, Appended
  <2>2. /\ Queues(fifo', Cpus, Functionals, CpuOf)
        /\ \A u : Queued(fifo', u) <=> Queued(fifo, u) \/ u = f
    <3>1. ~Queued(fifo, f) /\ Queues(fifo, Cpus, Functionals, CpuOf)
      BY <1>1, <1>3, WaitingIsQueued DEF FifoInv
    <3> QED BY <1>1, <2>1, <3>1, QueuesAppend
  <2>3. FifoInv'
    BY <1>1, <2>1, <2>2 DEF FifoInv
  <2> QED BY <1>1, <2>1, <2>2, <2>3, WaitingIsQueued, WaitingIsQueuedNext
<1> QED BY <1>2, <1>3

\* What the CPU does to them when it takes a task.
LEMMA Dispatched ==
  ASSUME Inv, NEW c \in Cpus, Q!Dispatch(c)
  PROVE  \E f \in Functionals :
           /\ FifoInv' /\ c = CpuOf[f] /\ Q!Waiting(f)
           /\ running' = [running EXCEPT ![c] = f]
           /\ \A u : Q!Waiting(u)' <=> Q!Waiting(u) /\ u # f
<1> DEFINE h == Head(fifo[c])
<1> HIDE DEF h
<1>1. FifoInv /\ Queues(fifo, Cpus, Functionals, CpuOf) /\ fifo[c] # <<>>
  BY DEF Inv, FifoInv, Q!Dispatch
<1>2. /\ fifo' = Taken(fifo, c) /\ running' = [running EXCEPT ![c] = h]
  BY DEF Q!Dispatch, Taken, h
<1>3. /\ Queues(fifo', Cpus, Functionals, CpuOf)
      /\ h \in Functionals /\ CpuOf[h] = c /\ Queued(fifo, h)
      /\ \A u : Queued(fifo', u) <=> Queued(fifo, u) /\ u # h
  <2>1. IsNext(fifo, c, h)
    BY <1>1 DEF h, IsNext
  <2> QED BY <1>1, <1>2, <2>1, QueuesTail
<1>4. FifoInv'
  BY <1>1, <1>2, <1>3 DEF FifoInv
<1> QED BY <1>1, <1>2, <1>3, <1>4, WaitingIsQueued, WaitingIsQueuedNext

\* What it does when the handler has returned.
LEMMA Finished ==
  ASSUME Inv, NEW c \in Cpus, Q!Finish(c)
  PROVE  /\ FifoInv' /\ running' = [running EXCEPT ![c] = Null]
         /\ \A u : Q!Waiting(u)' <=> Q!Waiting(u)
  BY DEF Inv, FifoInv, Q!Finish, Q!Waiting

\* Push() and Pop() keep a buffer within its capacity.
LEMMA BufferOps ==
  ASSUME NEW q \in Seq(Clients), Len(q) <= Capacity, NEW k \in Clients
  PROVE  /\ Put(q, k) \in Seq(Clients) /\ Len(Put(q, k)) <= Capacity
         /\ q # <<>> => Tail(q) \in Seq(Clients) /\ Len(Tail(q)) <= Capacity
  BY HomeIsCpuOf DEF Put

LEMMA TakeOneIsTyped ==
  ASSUME TypeOK, NEW f \in Functionals, TakeOne(f)
  PROVE  /\ buf' \in [Functionals -> Seq(Clients)]
         /\ \A u \in Functionals : Len(buf'[u]) <= Capacity
<1>1. \A u \in Functionals : buf[u] \in Seq(Clients) /\ Len(buf[u]) <= Capacity
  BY DEF TypeOK
<1>2. buf[f] # <<>> => Tail(buf[f]) \in Seq(Clients) /\ Len(Tail(buf[f])) <= Capacity
  BY <1>1, HomeIsCpuOf
<1> QED
  BY <1>1, <1>2 DEF TypeOK, TakeOne

LEMMA InvNext == Inv /\ [Next]_vars => Inv'
<1> SUFFICES ASSUME Inv, [Next]_vars PROVE Inv'
  OBVIOUS
<1> USE HomeIsCpuOf
<1>1. ASSUME UNCHANGED <<fifo, running>>
      PROVE  FifoInv' /\ \A f : Q!Waiting(f)' <=> Q!Waiting(f)
  BY <1>1 DEF Inv, FifoInv, Q!Waiting
<1>2. ASSUME FifoInv'
      PROVE  /\ fifo' \in [Cpus -> Seq(Functionals)]
             /\ running' \in [Cpus -> Functionals \cup {Null}]
  BY <1>2 DEF FifoInv, Queues
<1>3. ASSUME NEW f \in Functionals, SetFunction(f) PROVE Inv'
  BY <1>1, <1>3 DEF SetFunction, Inv, TypeOK, HandlersAtHome, StateIsTheTask,
     Handling
<1>4. ASSUME NEW f \in Functionals, Pop(f) PROVE Inv'
  <2>1. TypeOK'
    BY <1>4, TakeOneIsTyped DEF Pop, Inv, TypeOK
  <2> QED
    BY <1>1, <1>4, <2>1 DEF Pop, Inv, HandlersAtHome, StateIsTheTask, Handling
<1>5. ASSUME NEW k \in Clients, NEW f \in Functionals, Push(k, f) PROVE Inv'
  <2>1. /\ buf' \in [Functionals -> Seq(Clients)]
        /\ \A u \in Functionals : Len(buf'[u]) <= Capacity
    <3>1. buf' = [buf EXCEPT ![f] = Put(buf[f], k)]
      BY <1>5 DEF Push
    <3>2. Put(buf[f], k) \in Seq(Clients) /\ Len(Put(buf[f], k)) <= Capacity
      BY BufferOps DEF Inv, TypeOK
    <3> QED
      BY <3>1, <3>2 DEF Inv, TypeOK
  <2>2. TypeOK' /\ HandlersAtHome'
    BY <1>5, <2>1 DEF Push, Inv, TypeOK, HandlersAtHome, PushLabels
  <2> QED
    BY <1>1, <1>5, <2>2 DEF Push, Inv, StateIsTheTask, Handling
<1>6. ASSUME NEW k \in Clients, WakeupCheck(k) PROVE Inv'
  <2>1. TypeOK' /\ HandlersAtHome'
    BY <1>6 DEF WakeupCheck, PushReturns, Inv, TypeOK, HandlersAtHome, PushLabels
  <2> QED
    BY <1>1, <1>6, <2>1 DEF WakeupCheck, Inv, StateIsTheTask, Handling
<1>7. ASSUME NEW k \in Clients, WakeupFunction(k) PROVE Inv'
  <2> DEFINE f == target[k]
  <2>1. f \in Functionals /\ PushReturns(k) /\ UNCHANGED <<func, buf, hpc>>
    BY <1>7 DEF WakeupFunction, Inv, TypeOK, HandlersAtHome
  <2>2. CASE fstate[f] = "kFunctioning"
    <3>1. UNCHANGED <<fstate, fifo, running>>
      BY <1>7, <2>2 DEF WakeupFunction
    <3> QED
      BY <1>1, <2>1, <3>1 DEF PushReturns, Inv, TypeOK, HandlersAtHome,
         PushLabels, StateIsTheTask, Handling
  <2>3. CASE fstate[f] # "kFunctioning"
    <3>1. fstate' = [fstate EXCEPT ![f] = "kFunctioning"] /\ Q!Register(CpuOf[f], f)
      BY <1>7, <2>3 DEF WakeupFunction
    <3>2. /\ FifoInv' /\ UNCHANGED running
          /\ \A u \in Functionals : Q!Waiting(u)' <=> Q!Waiting(u) \/ u = f
      BY <2>1, <3>1, Registered
    <3>3. TypeOK' /\ HandlersAtHome'
      BY <1>2, <2>1, <3>1, <3>2 DEF PushReturns, Inv, TypeOK, HandlersAtHome,
         PushLabels, FunctionState
    <3>4. StateIsTheTask'
      BY <2>1, <2>3, <3>1, <3>2 DEF Inv, TypeOK, StateIsTheTask, Handling
    <3> QED
      BY <3>2, <3>3, <3>4 DEF Inv
  <2> QED
    BY <2>2, <2>3
<1>8. ASSUME NEW c \in Cpus, Dispatch(c) PROVE Inv'
  <2>1. Q!Dispatch(c)
    BY <1>8 DEF Dispatch
  <2>2. PICK f \in Functionals :
          /\ FifoInv' /\ c = CpuOf[f] /\ Q!Waiting(f)
          /\ running' = [running EXCEPT ![c] = f]
          /\ \A u : Q!Waiting(u)' <=> Q!Waiting(u) /\ u # f
    BY <2>1, Dispatched
  <2>3. c = CpuOf[f]
    BY <2>2
  <2>4. /\ hpc[c] = "idle" /\ hpc' = [hpc EXCEPT ![c] = "should"]
        /\ UNCHANGED <<func, buf, fstate, target, ppc>>
    BY <1>8 DEF Dispatch, Goto
  <2>5. TypeOK' /\ HandlersAtHome'
    BY <1>2, <2>2, <2>3, <2>4 DEF Inv, TypeOK, HandlersAtHome, HandleLabels
  <2>6. \A u \in Functionals : (\E d \in Cpus : Handling(d, u)')
                                <=> (\E d \in Cpus : Handling(d, u)) \/ u = f
    BY <2>2, <2>4 DEF Inv, TypeOK, HandlersAtHome, Handling
  <2>7. StateIsTheTask'
    BY <2>2, <2>3, <2>4, <2>6 DEF Inv, StateIsTheTask
  <2> QED
    BY <2>2, <2>5, <2>7 DEF Inv
<1>9. ASSUME NEW c \in Cpus,
             HandleShould(c) \/ HandleFuncPops(c) \/ HandleFuncReturns(c)
      PROVE  Inv'
  <2>1. running[c] \in Functionals /\ hpc[c] \in {"should", "func"}
    BY <1>9 DEF HandleShould, HandleFuncPops, HandleFuncReturns, Goto, Inv,
       TypeOK, HandlersAtHome
  <2>2. /\ buf' \in [Functionals -> Seq(Clients)]
        /\ \A u \in Functionals : Len(buf'[u]) <= Capacity
    BY <1>9, <2>1, TakeOneIsTyped DEF HandleShould, HandleFuncPops,
       HandleFuncReturns, Inv, TypeOK
  <2>3. /\ UNCHANGED <<fifo, running, func, fstate, target, ppc>>
        /\ \E l \in {"func", "recheck"} : hpc' = [hpc EXCEPT ![c] = l]
    BY <1>9 DEF HandleShould, HandleFuncPops, HandleFuncReturns, Goto, Inv, TypeOK
  <2>4. TypeOK' /\ HandlersAtHome'
    BY <2>1, <2>2, <2>3 DEF Inv, TypeOK, HandlersAtHome, HandleLabels
  <2>5. \A u \in Functionals, d \in Cpus : Handling(d, u)' <=> Handling(d, u)
    BY <2>1, <2>3 DEF Inv, TypeOK, Handling
  <2> QED
    BY <1>1, <2>3, <2>4, <2>5 DEF Inv, StateIsTheTask
<1>10. ASSUME NEW c \in Cpus, HandleRecheck(c) PROVE Inv'
  <2> DEFINE f == running[c]
  <2>1. f \in Functionals /\ c = CpuOf[f] /\ Handling(c, f) /\ hpc[c] = "recheck"
    BY <1>10 DEF HandleRecheck, Inv, TypeOK, HandlersAtHome, Handling
  <2>2. UNCHANGED <<fifo, running, func, buf, target, ppc>>
    BY <1>10 DEF HandleRecheck
  <2>3. CASE buf[f] = <<>>
    <3>1. /\ hpc' = [hpc EXCEPT ![c] = "return"]
          /\ fstate' = [fstate EXCEPT ![f] = "kNotFunctioning"]
      BY <1>10, <2>3 DEF HandleRecheck
    <3>2. TypeOK' /\ HandlersAtHome'
      BY <2>1, <2>2, <3>1 DEF Inv, TypeOK, HandlersAtHome, HandleLabels,
         FunctionState
    <3>3. \A d \in Cpus : ~Handling(d, f)'
      BY <2>1, <2>2, <3>1 DEF Inv, TypeOK, HandlersAtHome, Handling
    <3>4. \A u \in Functionals, d \in Cpus : u # f => (Handling(d, u)' <=> Handling(d, u))
      BY <2>1, <2>2, <3>1 DEF Inv, TypeOK, Handling
    <3>5. StateIsTheTask'
      BY <1>1, <2>1, <2>2, <3>1, <3>3, <3>4 DEF Inv, TypeOK, StateIsTheTask
    <3> QED
      BY <1>1, <2>2, <3>2, <3>5 DEF Inv
  <2>4. CASE buf[f] # <<>>
    <3>1. hpc' = [hpc EXCEPT ![c] = "register"] /\ UNCHANGED fstate
      BY <1>10, <2>4 DEF HandleRecheck
    <3>2. TypeOK' /\ HandlersAtHome'
      BY <2>1, <2>2, <3>1 DEF Inv, TypeOK, HandlersAtHome, HandleLabels
    <3>3. \A u \in Functionals, d \in Cpus : Handling(d, u)' <=> Handling(d, u)
      BY <2>1, <2>2, <3>1 DEF Inv, TypeOK, Handling
    <3> QED
      BY <1>1, <2>2, <3>1, <3>2, <3>3 DEF Inv, StateIsTheTask
  <2> QED
    BY <2>3, <2>4
<1>11. ASSUME NEW c \in Cpus, HandleRegister(c) PROVE Inv'
  <2> DEFINE f == running[c]
  <2>1. f \in Functionals /\ c = CpuOf[f] /\ Handling(c, f) /\ hpc[c] = "register"
    BY <1>11 DEF HandleRegister, Goto, Inv, TypeOK, HandlersAtHome, Handling
  <2>2. /\ hpc' = [hpc EXCEPT ![c] = "return"]
        /\ UNCHANGED <<func, buf, fstate, target, ppc>>
    BY <1>11 DEF HandleRegister, Goto
  <2>3. /\ FifoInv' /\ UNCHANGED running
        /\ \A u \in Functionals : Q!Waiting(u)' <=> Q!Waiting(u) \/ u = f
    BY <1>11, <2>1, Registered DEF HandleRegister
  <2>4. TypeOK' /\ HandlersAtHome'
    BY <1>2, <2>1, <2>2, <2>3 DEF Inv, TypeOK, HandlersAtHome, HandleLabels
  <2>5. \A d \in Cpus : ~Handling(d, f)'
    BY <2>1, <2>2, <2>3 DEF Inv, TypeOK, HandlersAtHome, Handling
  <2>6. \A u \in Functionals, d \in Cpus : u # f => (Handling(d, u)' <=> Handling(d, u))
    BY <2>1, <2>2, <2>3 DEF Inv, TypeOK, Handling
  <2>7. StateIsTheTask'
    BY <2>1, <2>2, <2>3, <2>5, <2>6 DEF Inv, StateIsTheTask
  <2> QED
    BY <2>3, <2>4, <2>7 DEF Inv
<1>12. ASSUME NEW c \in Cpus, HandleReturn(c) PROVE Inv'
  <2>1. Q!Finish(c)
    BY <1>12 DEF HandleReturn
  <2>2. /\ FifoInv' /\ running' = [running EXCEPT ![c] = Null]
        /\ \A u : Q!Waiting(u)' <=> Q!Waiting(u)
    BY <2>1, Finished
  <2>3. /\ hpc[c] = "return" /\ hpc' = [hpc EXCEPT ![c] = "idle"]
        /\ UNCHANGED <<func, buf, fstate, target, ppc>>
    BY <1>12 DEF HandleReturn, Goto
  <2>4. TypeOK' /\ HandlersAtHome'
    BY <1>2, <2>2, <2>3 DEF Inv, TypeOK, HandlersAtHome, HandleLabels
  <2>5. \A u \in Functionals, d \in Cpus : Handling(d, u)' <=> Handling(d, u)
    BY <2>2, <2>3 DEF Inv, TypeOK, Handling
  <2>6. StateIsTheTask'
    BY <2>2, <2>3, <2>5 DEF Inv, StateIsTheTask
  <2> QED
    BY <2>2, <2>4, <2>6 DEF Inv
<1>13. CASE UNCHANGED vars
  BY <1>1, <1>13 DEF vars, Inv, TypeOK, HandlersAtHome, StateIsTheTask, Handling
<1> QED
  BY <1>3, <1>4, <1>5, <1>6, <1>7, <1>8, <1>9, <1>10, <1>11, <1>12, <1>13
     DEF Next, Handle

LEMMA InvCorrect == Spec => []Inv
  BY InvInit, InvNext, PTL DEF Spec

\* The type invariant holds; in particular no buffer exceeds its capacity.
THEOREM TypeCorrect == Spec => []TypeOK
  BY InvCorrect, PTL DEF Inv

\* _state is kFunctioning exactly while the task is queued or its handler is
\* going to look at the buffer again.
THEOREM StateIsRight == Spec => []StateIsTheTask
  BY InvCorrect, PTL DEF Inv

-----------------------------------------------------------------------------
(***************************************************************************)
(* Tty: the strings on their way.                                          *)
(***************************************************************************)
queue == qBuf[tty]

Labels == {"idle", "string", "push", "wakeup", "lock", "print"}
Printers == Threads \cup {cpu1}

LEMMA TtyFacts ==
  /\ cpu1 \notin Threads /\ Null \notin Threads /\ Null \notin Strings
  /\ Null # cpu1 /\ Null # tty /\ Null \notin 0 .. Length
  /\ Length \in Nat /\ Length > 0 /\ IsFiniteSet(Strings)
  /\ T!Printers = Printers
<1>1. IsFiniteSet(Strings)
  BY OutputAssumption DEF T!TtyAssumption, T!IsFiniteSet, IsFiniteSet
<1> QED BY <1>1, OutputAssumption DEF T!TtyAssumption, T!Printers, Printers

LEMMA TimesIs ==
  \A s : T!Times(s) = Cardinality({i \in DOMAIN out : out[i] = s})
  BY DEF T!Times, T!Cardinality, Cardinality

LEMMA RoomIs == T!Cardinality(Strings) = Cardinality(Strings)
  BY DEF T!Cardinality, Cardinality

\* The types of what Tty itself has.
OwnTypes ==
  /\ started \in BOOLEAN
  /\ tpc \in [Threads -> Labels]
  /\ str \in [Printers -> Strings \cup {Null}]
  /\ lock \in Printers \cup {Null} /\ printed \in [Printers -> 0 .. Length \cup {Null}]
  /\ made \in [Threads -> Seq(Strings)]
  /\ raw \subseteq Strings /\ deleted \subseteq Strings
  /\ out \in Seq(Strings)

\* There is one task, and who is in Push() or Handle() knows it.
TaskInv ==
  /\ qHpc[cpu1] # "idle" => qRunning[cpu1] = tty
  /\ \A s \in Strings : qPpc[s] # "idle" => qTarget[s] = tty

Below == T!F!TypeOK /\ TaskInv

LEMMA TypesAre == T!TypeOK <=> T!F!TypeOK /\ OwnTypes
  BY TtyFacts DEF T!TypeOK, OwnTypes, Labels, Printers

LEMMA QueueIs == ASSUME Below PROVE queue \in Seq(Strings)
  BY DEF Below, T!F!TypeOK, queue

(***************************************************************************)
(* The steps of Tty as the strings see them.                               *)
(***************************************************************************)
Rests ==
  UNCHANGED <<queue, started, tpc, str, lock, printed, made, raw, out, deleted>>

Starts ==
  /\ started' = TRUE
  /\ UNCHANGED <<queue, tpc, str, lock, printed, made, raw, out, deleted>>

Moves(t, from, to) == tpc[t] = from /\ tpc' = [tpc EXCEPT ![t] = to]

Makes(t, s) ==
  /\ s \notin T!Known
  /\ str' = [str EXCEPT ![t] = s]
  /\ made' = [made EXCEPT ![t] = Append(made[t], s)]
  /\ \/ Moves(t, "idle", "string") /\ raw' = raw
     \/ Moves(t, "idle", "lock") /\ raw' = raw \cup {s}
  /\ UNCHANGED <<queue, started, lock, printed, out, deleted>>

Chooses(t) ==
  /\ \/ started /\ Moves(t, "string", "push")
     \/ ~started /\ Moves(t, "string", "lock")
  /\ UNCHANGED <<queue, started, str, lock, printed, made, raw, out, deleted>>

Pushes(t) ==
  /\ Moves(t, "push", "wakeup")
  /\ queue' \in {queue, Append(queue, str[t])}
  /\ UNCHANGED <<started, str, lock, printed, made, raw, out, deleted>>

Returns(t) ==
  /\ Moves(t, "wakeup", "idle") /\ str' = [str EXCEPT ![t] = Null]
  /\ UNCHANGED <<queue, started, lock, printed, made, raw, out, deleted>>

Locks(x) ==
  /\ lock = Null /\ printed[x] = Null
  /\ lock' = x /\ printed' = [printed EXCEPT ![x] = 0]
  /\ \/ x \in Threads /\ Moves(x, "lock", "print")
     \/ x = cpu1 /\ str[cpu1] # Null /\ UNCHANGED tpc
  /\ UNCHANGED <<queue, started, str, made, raw, out, deleted>>

Writes(x) ==
  /\ printed[x] \in 0 .. Length - 1
  /\ printed' = [printed EXCEPT ![x] = printed[x] + 1]
  /\ out' = Append(out, str[x])
  /\ UNCHANGED <<queue, started, tpc, str, lock, made, raw, deleted>>

Unlocks(x) ==
  /\ printed[x] = Length
  /\ lock' = Null /\ printed' = [printed EXCEPT ![x] = Null]
  /\ str' = [str EXCEPT ![x] = Null]
  /\ \/ x \in Threads /\ Moves(x, "print", "idle") /\ UNCHANGED deleted
     \/ x = cpu1 /\ deleted' = deleted \cup {str[cpu1]} /\ UNCHANGED tpc
  /\ UNCHANGED <<queue, started, made, raw, out>>

Pops ==
  /\ str[cpu1] = Null /\ queue # << >>
  /\ str' = [str EXCEPT ![cpu1] = Head(queue)] /\ queue' = Tail(queue)
  /\ UNCHANGED <<started, tpc, lock, printed, made, raw, out, deleted>>

Step ==
  \/ Rests \/ Starts \/ Pops
  \/ \E t \in Threads : \/ \E s \in Strings : Makes(t, s)
                        \/ Chooses(t) \/ Pushes(t) \/ Returns(t)
  \/ \E x \in Printers : Locks(x) \/ Writes(x) \/ Unlocks(x)

LEMMA BelowInit == T!Init => Below
<1> SUFFICES ASSUME T!Init PROVE Below
  OBVIOUS
<1>1. T!Cardinality(Strings) \in Nat
  BY RoomIs, TtyFacts, FS_CardinalityType
<1> QED
  BY <1>1, TtyFacts DEF T!Init, T!F!Init, T!F!Q!Init, Below, T!F!TypeOK, TaskInv,
     T!F!FunctionState, T!F!PushLabels, T!F!HandleLabels

\* Functional has the one object and keeps its types.
LEMMA TaskIs ==
  ASSUME Below
  PROVE  /\ qFifo \in [{cpu1} -> Seq({tty})]
         /\ qRunning \in [{cpu1} -> {tty, Null}]
         /\ qFunc \in [{tty} -> BOOLEAN]
         /\ qBuf \in [{tty} -> Seq(Strings)] /\ Len(queue) <= T!Cardinality(Strings)
         /\ qState \in [{tty} -> T!F!FunctionState]
         /\ qTarget \in [Strings -> {tty, Null}]
         /\ qPpc \in [Strings -> T!F!PushLabels] /\ qHpc \in [{cpu1} -> T!F!HandleLabels]
         /\ qHpc[cpu1] # "idle" => qRunning[cpu1] = tty
         /\ \A s \in Strings : qPpc[s] # "idle" => qTarget[s] = tty
  BY DEF Below, T!F!TypeOK, TaskInv, queue

LEMMA RegisterIs ==
  ASSUME Below, T!F!Q!Register(cpu1, tty)
  PROVE  qFifo' \in [{cpu1} -> Seq({tty})] /\ UNCHANGED qRunning
<1>1. qFifo \in [{cpu1} -> Seq({tty})] /\ Append(qFifo[cpu1], tty) \in Seq({tty})
  BY TaskIs
<1> QED BY <1>1 DEF T!F!Q!Register, T!F!Q!Enqueue, T!F!Q!fifoVars

\* What Functional does on CPU 1 around the function.
LEMMA FunctionalSteps ==
  ASSUME Below, T!FunctionalStep
  PROVE  Below' /\ Rests
<1> USE TaskIs
<1>0. UNCHANGED <<started, tpc, str, lock, printed, made, raw, out, deleted>>
  BY DEF T!FunctionalStep, T!printing
<1>1. CASE T!F!Dispatch(cpu1)
  <2>1. qFifo[cpu1] # << >> /\ Head(qFifo[cpu1]) = tty
    <3>1. qFifo[cpu1] \in Seq({tty}) /\ qFifo[cpu1] # << >>
      BY <1>1 DEF T!F!Dispatch, T!F!Q!Dispatch
    <3> QED BY <3>1
  <2>2. /\ qFifo' = [qFifo EXCEPT ![cpu1] = Tail(qFifo[cpu1])]
        /\ qRunning' = [qRunning EXCEPT ![cpu1] = tty]
        /\ qHpc' = [qHpc EXCEPT ![cpu1] = "should"]
        /\ UNCHANGED <<qFunc, qBuf, qState, qTarget, qPpc>>
    BY <1>1, <2>1 DEF T!F!Dispatch, T!F!Q!Dispatch, T!F!Goto
  <2>3. Tail(qFifo[cpu1]) \in Seq({tty})
    BY <2>1
  <2> QED
    BY <1>0, <2>2, <2>3 DEF Below, T!F!TypeOK, TaskInv, Rests, queue, T!F!HandleLabels
<1>2. CASE T!F!HandleShould(cpu1) \/ T!F!HandleRecheck(cpu1)
  <2>1. /\ UNCHANGED <<qFifo, qRunning, qFunc, qBuf, qTarget, qPpc>>
        /\ qRunning[cpu1] = tty
        /\ qHpc' \in [{cpu1} -> T!F!HandleLabels] /\ qState' \in [{tty} -> T!F!FunctionState]
    BY <1>2 DEF T!F!HandleShould, T!F!HandleRecheck, T!F!HandleLabels, T!F!FunctionState
  <2> QED
    BY <1>0, <2>1 DEF Below, T!F!TypeOK, TaskInv, Rests, queue
<1>3. CASE T!F!HandleRegister(cpu1)
  <2>1. qRunning[cpu1] = tty
    BY <1>3 DEF T!F!HandleRegister, T!F!Goto
  <2>2. T!F!Q!Register(cpu1, tty)
    BY <1>3, <2>1 DEF T!F!HandleRegister
  <2>3. qFifo' \in [{cpu1} -> Seq({tty})] /\ UNCHANGED qRunning
    BY <2>2, RegisterIs
  <2>4. /\ UNCHANGED <<qFunc, qBuf, qState, qTarget, qPpc>>
        /\ qHpc' \in [{cpu1} -> T!F!HandleLabels]
    BY <1>3 DEF T!F!HandleRegister, T!F!Goto, T!F!HandleLabels
  <2> QED
    BY <1>0, <2>1, <2>3, <2>4 DEF Below, T!F!TypeOK, TaskInv, Rests, queue
<1>4. CASE T!F!HandleReturn(cpu1)
  <2>1. /\ UNCHANGED <<qFifo, qFunc, qBuf, qState, qTarget, qPpc>>
        /\ qHpc' = [qHpc EXCEPT ![cpu1] = "idle"]
        /\ qRunning' \in [{cpu1} -> {tty, Null}]
    BY <1>4 DEF T!F!HandleReturn, T!F!Q!Finish, T!F!Goto
  <2> QED
    BY <1>0, <2>1 DEF Below, T!F!TypeOK, TaskInv, Rests, queue, T!F!HandleLabels
<1> QED BY <1>1, <1>2, <1>3, <1>4 DEF T!FunctionalStep

\* What the string in the hands of a thread goes through.
LEMMA ThreadSteps ==
  ASSUME Below, OwnTypes, NEW t \in Threads, T!ThreadStep(t),
         tpc[t] # "idle" => str[t] \in Strings
  PROVE  Below' /\ (Rests \/ Chooses(t) \/ Pushes(t) \/ Returns(t) \/ Locks(t) \/ Unlocks(t))
<1> USE TaskIs, TtyFacts
<1>1. CASE T!DoString(t)
  <2>1. UNCHANGED <<qFifo, qRunning, qFunc, qBuf, qState, qTarget, qPpc, qHpc>>
    BY <1>1 DEF T!DoString, T!fvars
  <2>2. Chooses(t)
    BY <1>1, <2>1 DEF T!DoString, T!Goto, T!Queues, T!printing, Chooses, Moves, queue
  <2> QED BY <2>1, <2>2 DEF Below, T!F!TypeOK, TaskInv
<1>2. CASE T!Push(t)
  <2> DEFINE s == str[t]
  <2>1. /\ tpc[t] = "push" /\ tpc' = [tpc EXCEPT ![t] = "wakeup"]
        /\ UNCHANGED <<started, str, lock, printed, out, made, raw, deleted>>
        /\ UNCHANGED <<qFifo, qRunning, qFunc, qState, qHpc>>
        /\ qPpc[s] = "idle" /\ qPpc' = [qPpc EXCEPT ![s] = "check"]
        /\ qTarget' = [qTarget EXCEPT ![s] = tty]
        /\ qBuf' = [qBuf EXCEPT ![tty] = T!F!Put(queue, s)]
    BY <1>2 DEF T!Push, T!Goto, T!F!Push, T!printing, queue
  <2>2. s \in Strings /\ queue \in Seq(Strings) /\ T!Cardinality(Strings) \in Nat
    BY <2>1, QueueIs, RoomIs, FS_CardinalityType
  <2>3. CASE Len(queue) < T!Cardinality(Strings)
    <3>1. /\ queue' = Append(queue, s) /\ queue' \in Seq(Strings)
          /\ Len(queue') <= T!Cardinality(Strings)
      BY <2>1, <2>2, <2>3 DEF T!F!Put, queue
    <3>2. qBuf' \in [{tty} -> Seq(Strings)]
      BY <2>1, <3>1 DEF queue
    <3> QED
      BY <2>1, <2>2, <3>1, <3>2 DEF Below, T!F!TypeOK, TaskInv, T!F!PushLabels, Pushes,
         Moves, queue
  <2>4. CASE ~(Len(queue) < T!Cardinality(Strings))
    <3>1. qBuf' = qBuf
      BY <2>1, <2>4 DEF T!F!Put, queue
    <3> QED
      BY <2>1, <2>2, <3>1 DEF Below, T!F!TypeOK, TaskInv, T!F!PushLabels, Pushes,
         Moves, queue
  <2> QED BY <2>3, <2>4
<1>3. CASE T!Wakeup(t)
  <2> DEFINE s == str[t]
  <2>1. /\ tpc[t] = "wakeup" /\ s \in Strings
        /\ UNCHANGED <<started, lock, printed, out, made, raw, deleted>>
        /\ UNCHANGED <<qFunc, qBuf, qHpc>>
        /\ \/ T!F!WakeupCheck(s) \/ T!F!WakeupFunction(s)
        /\ IF qPpc'[s] = "idle"
           THEN tpc' = [tpc EXCEPT ![t] = "idle"] /\ str' = [str EXCEPT ![t] = Null]
           ELSE UNCHANGED <<tpc, str>>
    BY <1>3 DEF T!Wakeup, T!F!WakeupCheck, T!F!WakeupFunction, T!Goto, T!printing
  <2>2. /\ qFifo' \in [{cpu1} -> Seq({tty})] /\ UNCHANGED qRunning
        /\ qState' \in [{tty} -> T!F!FunctionState]
    <3>1. CASE T!F!WakeupCheck(s)
      BY <3>1 DEF T!F!WakeupCheck
    <3>2. CASE T!F!WakeupFunction(s)
      <4>1. qTarget[s] = tty
        BY <2>1, <3>2 DEF T!F!WakeupFunction
      <4>2. \/ UNCHANGED <<qState, qFifo, qRunning>>
            \/ /\ qState' = [qState EXCEPT ![tty] = "kFunctioning"]
               /\ T!F!Q!Register(cpu1, tty)
        BY <3>2, <4>1 DEF T!F!WakeupFunction
      <4> QED BY <4>2, RegisterIs DEF T!F!FunctionState
    <3> QED BY <2>1, <3>1, <3>2
  <2>3. CASE qPpc' = [qPpc EXCEPT ![s] = "wakeup"] /\ UNCHANGED qTarget
    <3>1. qPpc'[s] = "wakeup"
      BY <2>1, <2>3
    <3>2. Rests
      BY <2>1, <3>1 DEF Rests, queue
    <3>3. qTarget[s] = tty
      BY <2>1 DEF T!F!WakeupCheck, T!F!WakeupFunction
    <3> QED
      BY <2>1, <2>2, <2>3, <3>2, <3>3 DEF Below, T!F!TypeOK, TaskInv, T!F!PushLabels
  <2>4. CASE T!F!PushReturns(s)
    <3>1. /\ qPpc' = [qPpc EXCEPT ![s] = "idle"] /\ qTarget' = [qTarget EXCEPT ![s] = Null]
      BY <2>4 DEF T!F!PushReturns
    <3>2. qPpc'[s] = "idle"
      BY <2>1, <3>1
    <3>3. Returns(t)
      BY <2>1, <3>2 DEF Returns, Moves, queue
    <3> QED
      BY <2>1, <2>2, <3>1, <3>3 DEF Below, T!F!TypeOK, TaskInv, T!F!PushLabels
  <2> QED BY <2>1, <2>3, <2>4 DEF T!F!WakeupCheck, T!F!WakeupFunction
<1>4. CASE T!PrintDirectly(t)
  <2>1. UNCHANGED <<qFifo, qRunning, qFunc, qBuf, qState, qTarget, qPpc, qHpc>>
    BY <1>4 DEF T!PrintDirectly, T!fvars
  <2>2. Locks(t)
    BY <1>4, <2>1 DEF T!PrintDirectly, T!Lock, T!CanLock, T!Goto, Locks, Moves, queue
  <2> QED BY <2>1, <2>2 DEF Below, T!F!TypeOK, TaskInv
<1>5. CASE T!PrintedDirectly(t)
  <2>1. UNCHANGED <<qFifo, qRunning, qFunc, qBuf, qState, qTarget, qPpc, qHpc>>
    BY <1>5 DEF T!PrintedDirectly, T!fvars
  <2>2. Unlocks(t)
    BY <1>5, <2>1 DEF T!PrintedDirectly, T!Unlock, T!Goto, Unlocks, Moves, queue
  <2> QED BY <2>1, <2>2 DEF Below, T!F!TypeOK, TaskInv
<1> QED BY <1>1, <1>2, <1>3, <1>4, <1>5 DEF T!ThreadStep

\* Handle().
LEMMA CpuSteps ==
  ASSUME Below, OwnTypes, T!CpuStep
  PROVE  Below' /\ (Rests \/ Pops \/ Locks(cpu1) \/ Unlocks(cpu1))
<1> USE TaskIs, TtyFacts
<1>1. CASE T!HandlePop
  <2>1. /\ qHpc[cpu1] = "func" /\ qRunning[cpu1] = tty /\ queue # << >>
        /\ qBuf' = [qBuf EXCEPT ![tty] = Tail(queue)]
        /\ UNCHANGED <<qFifo, qRunning, qFunc, qState, qTarget, qPpc, qHpc>>
    BY <1>1 DEF T!HandlePop, T!F!HandleFuncPops, T!F!TakeOne, queue
  <2>2. /\ Tail(queue) \in Seq(Strings) /\ Len(Tail(queue)) <= T!Cardinality(Strings)
    <3>1. T!Cardinality(Strings) \in Nat /\ queue \in Seq(Strings)
      BY QueueIs, RoomIs, FS_CardinalityType
    <3> QED BY <2>1, <3>1
  <2>3. queue' = Tail(queue)
    BY <2>1 DEF queue
  <2>4. Below'
    BY <2>1, <2>2, <2>3 DEF Below, T!F!TypeOK, TaskInv, queue
  <2>5. Pops
    BY <1>1, <2>1, <2>3 DEF T!HandlePop, T!printing, Pops, queue
  <2> QED BY <2>4, <2>5
<1>2. CASE T!HandleLock
  <2>1. UNCHANGED <<qFifo, qRunning, qFunc, qBuf, qState, qTarget, qPpc, qHpc>>
    BY <1>2 DEF T!HandleLock, T!fvars
  <2>2. Locks(cpu1)
    BY <1>2, <2>1 DEF T!HandleLock, T!Lock, T!CanLock, Locks, queue
  <2> QED BY <2>1, <2>2 DEF Below, T!F!TypeOK, TaskInv
<1>3. CASE T!HandleUnlock
  <2>1. UNCHANGED <<qFifo, qRunning, qFunc, qBuf, qState, qTarget, qPpc, qHpc>>
    BY <1>3 DEF T!HandleUnlock, T!fvars
  <2>2. Unlocks(cpu1)
    BY <1>3, <2>1 DEF T!HandleUnlock, T!Unlock, T!Forget, Unlocks, queue
  <2> QED BY <2>1, <2>2 DEF Below, T!F!TypeOK, TaskInv
<1>4. CASE T!HandleReturns
  <2>1. /\ qRunning[cpu1] = tty /\ queue = << >>
        /\ UNCHANGED <<qFifo, qRunning, qFunc, qState, qTarget, qPpc>>
        /\ qHpc' = [qHpc EXCEPT ![cpu1] = "recheck"]
        /\ qBuf' = qBuf
    BY <1>4 DEF T!HandleReturns, T!F!HandleFuncReturns, T!F!Goto, T!F!TakeOne, queue
  <2> QED
    BY <1>4, <2>1 DEF T!HandleReturns, T!printing, Rests, Below, T!F!TypeOK, TaskInv,
       T!F!HandleLabels, queue
<1> QED BY <1>1, <1>2, <1>3, <1>4, FunctionalSteps DEF T!CpuStep

\* Each step of Tty is one of those, and keeps the types of Functional.
LEMMA StepIs ==
  ASSUME Below, OwnTypes, [T!Next]_(T!vars),
         \A t \in Threads : tpc[t] # "idle" => str[t] \in Strings
  PROVE  Below' /\ Step
<1> USE TaskIs, TtyFacts
<1>1. CASE T!TtyInit
  BY <1>1 DEF T!TtyInit, T!F!SetFunction, T!printing, Below, T!F!TypeOK, TaskInv, queue,
     Rests, Step
<1>2. CASE T!CpuStarts
  BY <1>2 DEF T!CpuStarts, T!fvars, T!printing, Below, T!F!TypeOK, TaskInv, queue,
     Starts, Step
<1>3. CASE T!CpuStep
  BY <1>3, CpuSteps DEF Step, Printers
<1>4. ASSUME NEW t \in Threads, NEW s \in Strings, T!Cvprintf(t, s) \/ T!CvprintfRaw(t, s)
      PROVE  Below' /\ Makes(t, s)
  BY <1>4 DEF T!Cvprintf, T!CvprintfRaw, T!Make, T!Goto, T!fvars, T!printing, Below,
     T!F!TypeOK, TaskInv, queue, Makes, Moves
<1>5. ASSUME NEW t \in Threads, T!ThreadStep(t)
      PROVE  /\ Below'
             /\ Rests \/ Chooses(t) \/ Pushes(t) \/ Returns(t) \/ Locks(t) \/ Unlocks(t)
  BY <1>5, ThreadSteps
<1>6. ASSUME NEW x \in Printers, T!Write(x)
      PROVE  Below' /\ Writes(x)
  BY <1>6 DEF T!Write, T!More, T!fvars, Below, T!F!TypeOK, TaskInv, queue, Writes
<1>7. CASE UNCHANGED T!vars \/ T!Done
  BY <1>7 DEF T!Done, T!vars, T!fvars, T!printing, Below, T!F!TypeOK, TaskInv, queue,
     Rests, Step
<1>8. CASE \E t \in Threads : T!ThreadStep(t)
  BY <1>5, <1>8 DEF Step, Printers
<1> QED BY <1>1, <1>2, <1>3, <1>4, <1>6, <1>7, <1>8 DEF T!Next, Step

(***************************************************************************)
(* Where a string is.                                                      *)
(***************************************************************************)
\* The string that a thread, or Handle(), has yet to print or to push.
Held(x) ==
  IF x = cpu1 \/ tpc[x] \in {"string", "push", "lock", "print"} THEN str[x] ELSE Null

Waits(s) == s \in Members(queue) \/ \E x \in Printers : Held(x) = s

IsKnown(s) == \E t \in Threads : s \in Members(made[t])

Prints(s) == \E x \in Printers : printed[x] # Null /\ Held(x) = s

Printed(s) == s \in Members(out)

\* Who prints has the lock and a string.
LockInv ==
  \A x \in Printers : printed[x] # Null =>
    lock = x /\ Held(x) # Null /\ (x \in Threads => tpc[x] = "print")

\* Each string is made once; what a thread has is the last one it made.
MadeInv ==
  /\ \A t, u \in Threads : \A i \in DOMAIN made[t], j \in DOMAIN made[u] :
       made[t][i] = made[u][j] => t = u /\ i = j
  /\ \A t \in Threads : tpc[t] # "idle" =>
       made[t] # << >> /\ str[t] = made[t][Len(made[t])]
  /\ \A s : Printed(s) \/ (s # Null /\ Waits(s)) => IsKnown(s)

\* A string waits in one place; the queue is used once CPU 1 has started.
PlaceInv ==
  /\ \A i, j \in DOMAIN queue : queue[i] = queue[j] => i = j
  /\ \A x \in Printers : Held(x) \notin Members(queue)
  /\ \A x, y \in Printers : Held(x) = Held(y) /\ Held(x) # Null => x = y
  /\ (queue # << >> \/ str[cpu1] # Null \/ \E t \in Threads : tpc[t] = "push") => started

\* What waits has not been printed, except for what is being printed.
CountInv ==
  /\ \A s \in Strings : T!Times(s) <= Length
  /\ \A x \in Printers : printed[x] # Null => T!Times(Held(x)) = printed[x]
  /\ \A s \in Strings : Waits(s) /\ Printed(s) => Prints(s)
  /\ \A s \in deleted : T!Times(s) = Length /\ ~Waits(s)

MixInv ==
  /\ T!StringsAreNotMixed
  /\ \A x \in Printers : printed[x] # Null =>
       \A i \in DOMAIN out : out[i] = Held(x) =>
         \A n \in DOMAIN out : i <= n => out[n] = Held(x)

\* a was printed by Cprintf() before b, by the same thread.
Earlier(a, b) ==
  \E t \in Threads : \E i, j \in DOMAIN made[t] :
    i < j /\ a = made[t][i] /\ b = made[t][j] /\ a \notin raw /\ b \notin raw

Ordered(a, b) ==
  /\ \A m, n \in DOMAIN out : out[m] = a /\ out[n] = b => m < n
  /\ Waits(a) => ~Printed(b)
  /\ \A m, n \in DOMAIN queue : queue[m] = a /\ queue[n] = b => m < n
  /\ a \in Members(queue) => str[cpu1] # b
  /\ a \in Members(queue) \/ a = str[cpu1] =>
       \A t \in Threads : tpc[t] \in {"lock", "print"} => str[t] # b

OrderInv == \A a, b \in Strings : Earlier(a, b) => Ordered(a, b)

TtyInv ==
  /\ Below /\ OwnTypes /\ LockInv /\ MadeInv /\ PlaceInv /\ CountInv /\ MixInv /\ OrderInv

LEMMA HeldIs ==
  ASSUME OwnTypes
  PROVE  /\ Held(cpu1) = str[cpu1] /\ cpu1 \in Printers
         /\ \A x \in Printers : x # cpu1 => x \in Threads
         /\ \A x \in Printers : Held(x) \in Strings \cup {Null}
         /\ \A t \in Threads :
              Held(t) = IF tpc[t] \in {"string", "push", "lock", "print"}
                        THEN str[t] ELSE Null
  BY TtyFacts DEF OwnTypes, Held, Printers

LEMMA OwnTypesNext ==
  ASSUME OwnTypes, Below, Step,
         \A x \in Printers : printed[x] # Null => Held(x) # Null
  PROVE  OwnTypes'
<1> USE TtyFacts, HeldIs
<1>1. queue \in Seq(Strings)
  BY QueueIs
<1>2. CASE Rests \/ Starts
  BY <1>2 DEF Rests, Starts, OwnTypes
<1>3. CASE Pops
  <2>1. Head(queue) \in Strings
    BY <1>1, <1>3 DEF Pops
  <2> QED BY <1>3, <2>1 DEF Pops, OwnTypes
<1>4. ASSUME NEW t \in Threads, NEW s \in Strings, Makes(t, s) PROVE OwnTypes'
  <2>1. t \in Printers /\ Append(made[t], s) \in Seq(Strings)
    BY DEF OwnTypes, Printers
  <2> QED BY <1>4, <2>1 DEF Makes, Moves, OwnTypes, Labels
<1>5. ASSUME NEW t \in Threads, Chooses(t) \/ Pushes(t) \/ Returns(t) PROVE OwnTypes'
  BY <1>5 DEF Chooses, Pushes, Returns, Moves, OwnTypes, Labels, Printers
<1>6. ASSUME NEW x \in Printers, Locks(x) PROVE OwnTypes'
  <2>1. 0 \in 0 .. Length
    BY TtyFacts
  <2> QED BY <1>6, <2>1 DEF Locks, Moves, OwnTypes, Labels
<1>7. ASSUME NEW x \in Printers, Writes(x) PROVE OwnTypes'
  <2>1. printed[x] \in 0 .. Length - 1
    BY <1>7 DEF Writes
  <2>2. printed[x] + 1 \in 0 .. Length /\ printed[x] # Null
    BY <2>1
  <2>3. str[x] \in Strings
    BY <2>2 DEF Held, OwnTypes
  <2>4. Append(out, str[x]) \in Seq(Strings)
    BY <2>3 DEF OwnTypes
  <2> QED BY <1>7, <2>2, <2>4 DEF Writes, OwnTypes
<1>8. ASSUME NEW x \in Printers, Unlocks(x) PROVE OwnTypes'
  <2>1. printed[x] # Null
    BY <1>8 DEF Unlocks
  <2>2. str[x] \in Strings
    BY <2>1 DEF Held, OwnTypes
  <2>3. CASE x \in Threads /\ Moves(x, "print", "idle") /\ UNCHANGED deleted
    BY <1>8, <2>3 DEF Unlocks, Moves, OwnTypes, Labels
  <2>4. CASE x = cpu1 /\ deleted' = deleted \cup {str[cpu1]} /\ UNCHANGED tpc
    BY <1>8, <2>2, <2>4 DEF Unlocks, OwnTypes
  <2> QED BY <1>8, <2>3, <2>4 DEF Unlocks
<1> QED BY <1>2, <1>3, <1>4, <1>5, <1>6, <1>7, <1>8 DEF Step

\* Steps that neither print nor change who has which string.
Still ==
  /\ \A x \in Printers : Held(x)' = Held(x)
  /\ UNCHANGED <<queue, made, raw, out, deleted>>

LEMMA StillIs ==
  ASSUME Still
  PROVE  /\ \A s : Waits(s)' <=> Waits(s)
         /\ \A s : Printed(s)' <=> Printed(s)
         /\ \A s : IsKnown(s)' <=> IsKnown(s)
         /\ \A s : T!Times(s)' = T!Times(s)
         /\ \A a, b : Earlier(a, b)' <=> Earlier(a, b)
<1>1. \A s : Waits(s)' <=> Waits(s)
  BY DEF Still, Waits
<1>2. \A s : Printed(s)' <=> Printed(s)
  BY DEF Still, Printed
<1>3. \A s : IsKnown(s)' <=> IsKnown(s)
  BY DEF Still, IsKnown
<1>4. \A s : T!Times(s)' = T!Times(s)
  BY DEF Still, T!Times
<1>5. \A a, b : Earlier(a, b)' <=> Earlier(a, b)
  BY DEF Still, Earlier
<1> QED BY <1>1, <1>2, <1>3, <1>4, <1>5

LEMMA IdleSteps ==
  ASSUME TtyInv, OwnTypes',
         \/ Rests \/ Starts
         \/ \E t \in Threads : Chooses(t) \/ Returns(t)
         \/ \E x \in Printers : Locks(x)
  PROVE  Still
<1>1. OwnTypes /\ LockInv
  BY DEF TtyInv
<1> USE TtyFacts DEF Printers
<1>2. CASE Rests \/ Starts
  BY <1>2 DEF Rests, Starts, Still, Held
<1>3. ASSUME NEW t \in Threads, Chooses(t) PROVE Still
  BY <1>1, <1>3 DEF Chooses, Moves, Still, Held, OwnTypes
<1>4. ASSUME NEW t \in Threads, Returns(t) PROVE Still
  BY <1>1, <1>4 DEF Returns, Moves, Still, Held, OwnTypes
<1>5. ASSUME NEW x \in Printers, Locks(x) PROVE Still
  BY <1>1, <1>5 DEF Locks, Moves, Still, Held, OwnTypes
<1> QED BY <1>2, <1>3, <1>4, <1>5

\* They keep what does not depend on how far the printers are.
LEMMA StillKeeps ==
  ASSUME TtyInv, OwnTypes', Still
  PROVE  /\ T!StringsAreNotMixed'
         /\ \A s \in Strings : T!Times(s)' <= Length
         /\ \A s \in deleted' : T!Times(s)' = Length /\ ~Waits(s)'
         /\ \A s : Printed(s)' \/ (s # Null /\ Waits(s)') => IsKnown(s)'
         /\ \A x \in Printers : Held(x)' \notin Members(queue')
         /\ \A x, y \in Printers : Held(x)' = Held(y)' /\ Held(x)' # Null => x = y
<1>1. UNCHANGED <<queue, made, raw, out, deleted>> /\ \A x \in Printers : Held(x)' = Held(x)
  BY DEF Still
<1>2. T!StringsAreNotMixed'
  BY <1>1 DEF TtyInv, MixInv, T!StringsAreNotMixed
<1>3. /\ \A s \in Strings : T!Times(s)' <= Length
      /\ \A s \in deleted' : T!Times(s)' = Length /\ ~Waits(s)'
  BY <1>1, StillIs DEF TtyInv, CountInv
<1>4. \A s : Printed(s)' \/ (s # Null /\ Waits(s)') => IsKnown(s)'
  BY StillIs DEF TtyInv, MadeInv
<1>5. /\ \A x \in Printers : Held(x)' \notin Members(queue')
      /\ \A x, y \in Printers : Held(x)' = Held(y)' /\ Held(x)' # Null => x = y
  BY <1>1 DEF TtyInv, PlaceInv
<1> QED BY <1>2, <1>3, <1>4, <1>5

\* The order is kept by steps that put no string behind a choice already made.
NoneGoesPast ==
  \A t \in Threads : tpc'[t] \in {"lock", "print"} =>
    str'[t] = str[t] /\ (tpc[t] \in {"lock", "print"} \/ (queue = << >> /\ str[cpu1] = Null))

LEMMA OrderStays ==
  ASSUME TtyInv, OwnTypes', Still, NoneGoesPast
  PROVE  OrderInv'
<1>1. /\ UNCHANGED <<queue, out>> /\ str'[cpu1] = str[cpu1]
  BY HeldIs, TtyFacts DEF Still, Held, TtyInv
<1> SUFFICES ASSUME NEW a \in Strings, NEW b \in Strings, Earlier(a, b)'
             PROVE  Ordered(a, b)'
  BY DEF OrderInv
<1>2. Earlier(a, b)
  BY StillIs
<1>3. Ordered(a, b)
  BY <1>2 DEF TtyInv, OrderInv
<1>4. a \in Members(queue') \/ a = str'[cpu1] => ~(queue = << >> /\ str[cpu1] = Null)
  BY <1>1, TtyFacts DEF Members
<1>5. Waits(a)' => ~Printed(b)'
  BY <1>3, StillIs DEF Ordered
<1> QED BY <1>1, <1>3, <1>4, <1>5 DEF NoneGoesPast, Ordered

LEMMA RestsKeeps ==
  ASSUME TtyInv, OwnTypes', Below', Rests \/ Starts
  PROVE  TtyInv'
<1>1. Still
  BY IdleSteps
<1>2. /\ UNCHANGED <<queue, tpc, str, lock, printed, made, raw, out, deleted>>
      /\ started' \in {started, TRUE}
  BY DEF Rests, Starts
<1>3. LockInv'
  BY <1>1, <1>2 DEF TtyInv, LockInv, Still
<1>4. MadeInv'
  BY <1>1, <1>2, StillKeeps DEF TtyInv, MadeInv
<1>5. PlaceInv'
  BY <1>1, <1>2, StillKeeps DEF TtyInv, PlaceInv
<1>6. CountInv'
  <2>1. \A s : Prints(s)' <=> Prints(s)
    BY <1>1, <1>2 DEF Prints, Still
  <2> QED BY <1>1, <1>2, <2>1, StillKeeps, StillIs DEF TtyInv, CountInv, Still
<1>7. MixInv'
  BY <1>1, <1>2, StillKeeps DEF TtyInv, MixInv, Still
<1>8. OrderInv'
  <2>1. NoneGoesPast
    BY <1>2 DEF NoneGoesPast
  <2> QED BY <1>1, <2>1, OrderStays
<1> QED BY <1>3, <1>4, <1>5, <1>6, <1>7, <1>8 DEF TtyInv

LEMMA ChoosesKeeps ==
  ASSUME TtyInv, OwnTypes', Below', NEW t \in Threads, Chooses(t) \/ Returns(t)
  PROVE  TtyInv'
<1>1. Still
  BY IdleSteps
<1> USE TtyFacts
<1>2. /\ UNCHANGED <<queue, started, lock, printed, made, raw, out, deleted>>
      /\ tpc[t] \in {"string", "wakeup"}
      /\ \A u \in Threads : u # t => tpc'[u] = tpc[u] /\ str'[u] = str[u]
      /\ \/ tpc'[t] = "idle"
         \/ tpc'[t] = "push" /\ started /\ str'[t] = str[t]
         \/ tpc'[t] = "lock" /\ ~started /\ str'[t] = str[t]
      /\ str'[cpu1] = str[cpu1]
  BY DEF Chooses, Returns, Moves, TtyInv, OwnTypes, Printers
<1>3. LockInv'
  BY <1>1, <1>2 DEF TtyInv, LockInv, Still
<1>4. MadeInv'
  BY <1>1, <1>2, StillKeeps DEF TtyInv, MadeInv
<1>5. PlaceInv'
  BY <1>1, <1>2, StillKeeps DEF TtyInv, PlaceInv
<1>6. CountInv'
  <2>1. \A s : Prints(s)' <=> Prints(s)
    BY <1>1, <1>2 DEF Prints, Still
  <2> QED BY <1>1, <1>2, <2>1, StillKeeps, StillIs DEF TtyInv, CountInv, Still
<1>7. MixInv'
  BY <1>1, <1>2, StillKeeps DEF TtyInv, MixInv, Still
<1>8. OrderInv'
  <2>1. ~started => queue = << >> /\ str[cpu1] = Null
    BY DEF TtyInv, PlaceInv
  <2>2. NoneGoesPast
    BY <1>2, <2>1 DEF NoneGoesPast
  <2> QED BY <1>1, <2>2, OrderStays
<1> QED BY <1>3, <1>4, <1>5, <1>6, <1>7, <1>8 DEF TtyInv

\* What was not printed has no characters in the output.
LEMMA NotPrintedTimes ==
  ASSUME NEW s, ~Printed(s) PROVE T!Times(s) = 0
<1>1. {i \in DOMAIN out : out[i] = s} = {}
  BY DEF Printed, Members
<1> QED BY <1>1, TimesIs, FS_EmptySet

LEMMA LocksKeeps ==
  ASSUME TtyInv, OwnTypes', Below', NEW x \in Printers, Locks(x)
  PROVE  TtyInv'
<1>1. Still
  BY IdleSteps
<1> USE TtyFacts
<1>2. /\ UNCHANGED <<queue, started, str, made, raw, out, deleted>>
      /\ lock = Null /\ lock' = x
      /\ \A y \in Printers : printed'[y] = IF y = x THEN 0 ELSE printed[y]
      /\ \A u \in Threads : IF u = x THEN tpc[u] = "lock" /\ tpc'[u] = "print"
                            ELSE tpc'[u] = tpc[u]
      /\ x \notin Threads => x = cpu1 /\ str[cpu1] # Null
  BY DEF Locks, Moves, TtyInv, OwnTypes, Printers
<1>3. \A y \in Printers : printed[y] = Null
  BY <1>2 DEF TtyInv, LockInv, Printers
<1>4. Held(x) # Null /\ Held(x) \in Strings
  BY <1>2, HeldIs DEF TtyInv, OwnTypes, MadeInv
<1>5. LockInv'
  BY <1>1, <1>2, <1>3, <1>4 DEF LockInv, Still
<1>6. MadeInv'
  BY <1>1, <1>2, StillKeeps DEF TtyInv, MadeInv
<1>7. PlaceInv'
  BY <1>1, <1>2, StillKeeps DEF TtyInv, PlaceInv
<1>8. /\ ~Printed(Held(x)) /\ T!Times(Held(x)) = 0
  <2>1. Waits(Held(x)) /\ ~Prints(Held(x))
    BY <1>3 DEF Waits, Prints
  <2>2. ~Printed(Held(x))
    BY <1>4, <2>1 DEF TtyInv, CountInv
  <2> QED BY <2>2, NotPrintedTimes
<1>9. CountInv'
  <2>1. \A s : Prints(s) => Prints(s)'
    BY <1>3 DEF Prints
  <2>2. \A s \in Strings : Waits(s)' /\ Printed(s)' => Prints(s)'
    BY <2>1, <1>1, StillIs DEF TtyInv, CountInv
  <2>3. \A y \in Printers : printed'[y] # Null => T!Times(Held(y))' = printed'[y]
    <3> SUFFICES ASSUME NEW y \in Printers, printed'[y] # Null
                 PROVE  T!Times(Held(y))' = printed'[y]
      OBVIOUS
    <3>1. y = x /\ printed'[y] = 0 /\ Held(y)' = Held(y)
      BY <1>1, <1>2, <1>3 DEF Still
    <3>2. T!Times(Held(y))' = T!Times(Held(y))
      BY <1>1, <3>1 DEF T!Times, Still
    <3> QED BY <1>8, <3>1, <3>2
  <2> QED BY <1>1, <2>2, <2>3, StillKeeps DEF CountInv
<1>10. MixInv'
  <2>1. \A i \in DOMAIN out : out[i] # Held(x)
    BY <1>8 DEF Printed, Members
  <2>2. \A y \in Printers : printed'[y] # Null => y = x
    BY <1>2, <1>3
  <2> QED BY <1>1, <1>2, <2>1, <2>2, StillKeeps DEF MixInv, Still
<1>11. OrderInv'
  <2>1. NoneGoesPast
    BY <1>2 DEF NoneGoesPast
  <2> QED BY <1>1, <2>1, OrderStays
<1> QED BY <1>5, <1>6, <1>7, <1>9, <1>10, <1>11 DEF TtyInv

LEMMA QueueIsNext == ASSUME Below' PROVE queue' \in Seq(Strings)
  BY DEF Below, T!F!TypeOK, queue

\* What a thread has in its hands is the last string it made.
LEMMA HandsAreLast ==
  ASSUME TtyInv
  PROVE  /\ \A t \in Threads : tpc[t] # "idle" =>
              str[t] \in Strings /\ \A b : ~Earlier(str[t], b)
         /\ \A a, b : Earlier(a, b) => a # b
<1>1. \A t \in Threads : made[t] \in Seq(Strings)
  BY DEF TtyInv, OwnTypes
<1>2. ASSUME NEW t \in Threads, tpc[t] # "idle"
      PROVE  str[t] \in Strings /\ \A b : ~Earlier(str[t], b)
  <2>1. made[t] # << >> /\ str[t] = made[t][Len(made[t])]
    BY <1>2 DEF TtyInv, MadeInv
  <2>2. Len(made[t]) \in DOMAIN made[t] /\ str[t] \in Strings
    BY <1>1, <2>1
  <2>3. ASSUME NEW u \in Threads, NEW i \in DOMAIN made[u], NEW j \in DOMAIN made[u],
               i < j, str[t] = made[u][i]
        PROVE  FALSE
    <3>1. \A k \in DOMAIN made[t] : made[t][k] = made[u][i] => t = u /\ k = i
      BY DEF TtyInv, MadeInv
    <3>2. t = u /\ i = Len(made[t])
      BY <2>1, <2>2, <2>3, <3>1
    <3> QED BY <1>1, <2>3, <3>2
  <2> QED BY <2>2, <2>3 DEF Earlier
<1>3. ASSUME NEW u \in Threads, NEW i \in DOMAIN made[u], NEW j \in DOMAIN made[u],
             i < j, made[u][i] = made[u][j]
      PROVE  FALSE
  <2>1. i = j
    BY <1>3 DEF TtyInv, MadeInv
  <2> QED BY <1>1, <1>3, <2>1
<1> QED BY <1>2, <1>3 DEF Earlier

LEMMA PushesKeeps ==
  ASSUME TtyInv, OwnTypes', Below', NEW t \in Threads, Pushes(t)
  PROVE  TtyInv'
<1> USE TtyFacts
<1> DEFINE s == str[t]
<1>1. /\ UNCHANGED <<started, str, lock, printed, made, raw, out, deleted>>
      /\ tpc[t] = "push" /\ tpc'[t] = "wakeup"
      /\ \A u \in Threads : u # t => tpc'[u] = tpc[u]
      /\ queue' = queue \/ queue' = Append(queue, s)
  BY DEF Pushes, Moves, TtyInv, OwnTypes
<1>2. s \in Strings /\ queue \in Seq(Strings) /\ queue' \in Seq(Strings)
  <2>1. Below
    BY DEF TtyInv
  <2>2. s \in Strings
    BY <1>1, HandsAreLast
  <2>3. queue \in Seq(Strings)
    BY <2>1, QueueIs
  <2> QED BY <2>2, <2>3, QueueIsNext
<1>3. /\ Held(t) = s /\ Held(t)' = Null
      /\ \A y \in Printers : y # t => Held(y)' = Held(y)
      /\ t \in Printers
  BY <1>1 DEF Held, Printers
<1>4. \A k : k \in Members(queue') => k \in Members(queue) \/ k = s
  <2>1. Members(Append(queue, s)) = Members(queue) \cup {s}
    BY <1>2, MembersOfAppend
  <2> QED BY <1>1, <2>1
<1>5. /\ \A x \in Printers : Held(x) \notin Members(queue)
      /\ \A x, y \in Printers : Held(x) = Held(y) /\ Held(x) # Null => x = y
      /\ started
  BY <1>1 DEF TtyInv, PlaceInv
<1>6. \A k : Waits(k)' /\ k # Null => Waits(k)
  BY <1>3, <1>4 DEF Waits
<1>7. \A x \in Printers : printed[x] # Null => x # t
  BY <1>1 DEF TtyInv, LockInv
<1>8. LockInv'
  BY <1>1, <1>3, <1>7 DEF TtyInv, LockInv
<1>9. MadeInv'
  <2>1. \A k : (IsKnown(k)' <=> IsKnown(k)) /\ (Printed(k)' <=> Printed(k))
    BY <1>1 DEF IsKnown, Printed
  <2>2. \A k : Printed(k)' \/ (k # Null /\ Waits(k)') => IsKnown(k)'
    BY <1>6, <2>1 DEF TtyInv, MadeInv
  <2> QED BY <1>1, <2>2 DEF TtyInv, MadeInv
<1>10. PlaceInv'
  <2>1. \A i, j \in DOMAIN queue' : queue'[i] = queue'[j] => i = j
    <3>1. s \notin Members(queue)
      BY <1>3, <1>5
    <3> QED BY <1>1, <1>2, <3>1 DEF TtyInv, PlaceInv, Members
  <2>2. Null \notin Members(queue')
    BY <1>2 DEF Members
  <2>3. \A x \in Printers : Held(x)' \notin Members(queue')
    BY <1>3, <1>4, <1>5, <2>2
  <2>4. \A x, y \in Printers : Held(x)' = Held(y)' /\ Held(x)' # Null => x = y
    BY <1>3, <1>5
  <2> QED BY <1>1, <1>5, <2>1, <2>3, <2>4 DEF PlaceInv
<1>11. CountInv'
  <2>1. \A k : Prints(k)' <=> Prints(k)
    BY <1>1, <1>3, <1>7 DEF Prints
  <2>2. \A k : (T!Times(k)' = T!Times(k)) /\ (Printed(k)' <=> Printed(k))
    BY <1>1 DEF T!Times, Printed
  <2>3. \A x \in Printers : printed'[x] # Null => T!Times(Held(x))' = printed'[x]
    <3> SUFFICES ASSUME NEW x \in Printers, printed[x] # Null
                 PROVE  T!Times(Held(x))' = printed[x]
      BY <1>1
    <3>1. Held(x)' = Held(x)
      BY <1>3, <1>7
    <3>2. T!Times(Held(x))' = T!Times(Held(x))
      BY <1>1, <3>1 DEF T!Times
    <3> QED BY <3>2 DEF TtyInv, CountInv
  <2>4. deleted \subseteq Strings
    BY DEF TtyInv, OwnTypes
  <2> QED BY <1>1, <1>6, <2>1, <2>2, <2>3, <2>4 DEF TtyInv, CountInv
<1>12. MixInv'
  BY <1>1, <1>3, <1>7 DEF TtyInv, MixInv, T!StringsAreNotMixed
<1>13. OrderInv'
  <2> SUFFICES ASSUME NEW a \in Strings, NEW b \in Strings, Earlier(a, b)'
               PROVE  Ordered(a, b)'
    BY DEF OrderInv
  <2>1. Earlier(a, b)
    BY <1>1 DEF Earlier
  <2>2. Ordered(a, b)
    BY <2>1 DEF TtyInv, OrderInv
  <2>3. a # s
    BY <1>1, <2>1, HandsAreLast
  <2>4. a \in Members(queue') => a \in Members(queue)
    BY <1>4, <2>3
  <2>5. \A m, n \in DOMAIN queue' : queue'[m] = a /\ queue'[n] = b => m < n
    BY <1>1, <1>2, <2>2, <2>3 DEF Ordered
  <2>6. Waits(a)' => ~Printed(b)'
    BY <1>1, <1>6, <2>2 DEF Printed, Ordered
  <2>7. \A u \in Threads : tpc'[u] \in {"lock", "print"} => tpc[u] \in {"lock", "print"}
    BY <1>1
  <2> QED BY <1>1, <2>2, <2>4, <2>5, <2>6, <2>7 DEF Ordered
<1> QED BY <1>8, <1>9, <1>10, <1>11, <1>12, <1>13 DEF TtyInv

LEMMA PopsKeeps ==
  ASSUME TtyInv, OwnTypes', Below', Pops
  PROVE  TtyInv'
<1> USE TtyFacts, HeldIs
<1> DEFINE h == Head(queue)
<1> HIDE DEF h
<1>1. /\ UNCHANGED <<started, tpc, lock, printed, made, raw, out, deleted>>
      /\ str[cpu1] = Null /\ queue # << >> /\ queue' = Tail(queue)
      /\ str'[cpu1] = h
      /\ \A t \in Threads : str'[t] = str[t]
      /\ OwnTypes
  BY DEF Pops, TtyInv, OwnTypes, h, Printers
<1>2. /\ queue \in Seq(Strings) /\ queue' \in Seq(Strings) /\ h \in Strings
      /\ Members(queue) = Members(queue') \cup {h}
      /\ \A i, j \in DOMAIN queue : queue[i] = queue[j] => i = j
  <2>1. queue \in Seq(Strings)
    BY QueueIs DEF TtyInv
  <2>2. \A i, j \in DOMAIN queue : queue[i] = queue[j] => i = j
    BY DEF TtyInv, PlaceInv
  <2> QED BY <1>1, <2>1, <2>2, MembersOfTail DEF h
<1>3. h \notin Members(queue') /\ \A i, j \in DOMAIN queue' : queue'[i] = queue'[j] => i = j
  <2>1. /\ h = queue[1] /\ \A i \in DOMAIN queue' : i + 1 \in DOMAIN queue /\ queue'[i] = queue[i + 1]
    BY <1>1, <1>2 DEF h
  <2>2. 1 \in DOMAIN queue /\ \A i \in DOMAIN queue' : i \in Nat /\ i > 0
    BY <1>1, <1>2
  <2> QED BY <1>2, <2>1, <2>2 DEF Members
<1>4. /\ Held(cpu1) = Null /\ Held(cpu1)' = h
      /\ \A y \in Printers : y # cpu1 => Held(y)' = Held(y)
  BY <1>1 DEF Held
<1>5. /\ \A x \in Printers : Held(x) \notin Members(queue)
      /\ \A x, y \in Printers : Held(x) = Held(y) /\ Held(x) # Null => x = y
      /\ started
  BY <1>1 DEF TtyInv, PlaceInv
<1>6. \A k : Waits(k)' /\ k # Null => Waits(k)
  BY <1>2, <1>4 DEF Waits
<1>7. \A x \in Printers : printed[x] # Null => x # cpu1
  BY <1>4 DEF TtyInv, LockInv
<1>8. LockInv'
  BY <1>1, <1>4, <1>7 DEF TtyInv, LockInv
<1>9. MadeInv'
  <2>1. \A k : (IsKnown(k)' <=> IsKnown(k)) /\ (Printed(k)' <=> Printed(k))
    BY <1>1 DEF IsKnown, Printed
  <2>2. \A k : Printed(k)' \/ (k # Null /\ Waits(k)') => IsKnown(k)'
    BY <1>6, <2>1 DEF TtyInv, MadeInv
  <2> QED BY <1>1, <2>2 DEF TtyInv, MadeInv
<1>10. PlaceInv'
  <2>3. \A x \in Printers : Held(x)' \notin Members(queue')
    BY <1>2, <1>3, <1>4, <1>5
  <2>4. \A x, y \in Printers : Held(x)' = Held(y)' /\ Held(x)' # Null => x = y
    BY <1>2, <1>4, <1>5
  <2> QED BY <1>1, <1>3, <1>5, <2>3, <2>4 DEF PlaceInv
<1>11. CountInv'
  <2>1. \A k : Prints(k)' <=> Prints(k)
    BY <1>1, <1>4, <1>7 DEF Prints
  <2>2. \A k : (T!Times(k)' = T!Times(k)) /\ (Printed(k)' <=> Printed(k))
    BY <1>1 DEF T!Times, Printed
  <2>3. \A x \in Printers : printed'[x] # Null => T!Times(Held(x))' = printed'[x]
    <3> SUFFICES ASSUME NEW x \in Printers, printed[x] # Null
                 PROVE  T!Times(Held(x))' = printed[x]
      BY <1>1
    <3>1. Held(x)' = Held(x)
      BY <1>4, <1>7
    <3>2. T!Times(Held(x))' = T!Times(Held(x))
      BY <1>1, <3>1 DEF T!Times
    <3> QED BY <3>2 DEF TtyInv, CountInv
  <2>4. deleted \subseteq Strings
    BY DEF TtyInv, OwnTypes
  <2> QED BY <1>1, <1>6, <2>1, <2>2, <2>3, <2>4 DEF TtyInv, CountInv
<1>12. MixInv'
  BY <1>1, <1>4, <1>7 DEF TtyInv, MixInv, T!StringsAreNotMixed
<1>13. OrderInv'
  <2> SUFFICES ASSUME NEW a \in Strings, NEW b \in Strings, Earlier(a, b)'
               PROVE  Ordered(a, b)'
    BY DEF OrderInv
  <2>1. Earlier(a, b)
    BY <1>1 DEF Earlier
  <2>2. Ordered(a, b)
    BY <2>1 DEF TtyInv, OrderInv
  <2>3. /\ h = queue[1] /\ 1 \in DOMAIN queue
        /\ \A i \in DOMAIN queue' : i \in Nat /\ i + 1 \in DOMAIN queue /\ queue'[i] = queue[i + 1]
    BY <1>1, <1>2 DEF h
  <2>4. a \in Members(queue') => h # b
    <3> SUFFICES ASSUME NEW i \in DOMAIN queue', queue'[i] = a, h = b PROVE FALSE
      BY DEF Members
    <3>1. queue[i + 1] = a /\ queue[1] = b /\ i + 1 \in DOMAIN queue
      BY <2>3
    <3>2. i + 1 < 1
      BY <2>2, <2>3, <3>1 DEF Ordered
    <3> QED BY <2>3, <3>2
  <2>5. \A m, n \in DOMAIN queue' : queue'[m] = a /\ queue'[n] = b => m < n
    <3> SUFFICES ASSUME NEW m \in DOMAIN queue', NEW n \in DOMAIN queue',
                        queue'[m] = a, queue'[n] = b
                 PROVE  m < n
      OBVIOUS
    <3>1. m + 1 < n + 1
      BY <2>2, <2>3 DEF Ordered
    <3> QED BY <2>3, <3>1
  <2>6. Waits(a)' => ~Printed(b)'
    BY <1>1, <1>6, <2>2 DEF Printed, Ordered
  <2>7. a \in Members(queue') \/ a = str'[cpu1] => a \in Members(queue)
    BY <1>1, <1>2
  <2> QED BY <1>1, <2>2, <2>4, <2>5, <2>6, <2>7 DEF Ordered
<1> QED BY <1>8, <1>9, <1>10, <1>11, <1>12, <1>13 DEF TtyInv

LEMMA MakesKeeps ==
  ASSUME TtyInv, OwnTypes', Below', NEW t \in Threads, NEW s \in Strings, Makes(t, s)
  PROVE  TtyInv'
<1> USE TtyFacts, HeldIs
<1>1. /\ UNCHANGED <<queue, started, lock, printed, out, deleted>>
      /\ tpc[t] = "idle" /\ str'[t] = s /\ made'[t] = Append(made[t], s)
      /\ \/ tpc'[t] = "string" /\ raw' = raw
         \/ tpc'[t] = "lock" /\ raw' = raw \cup {s}
      /\ \A u \in Threads : u # t => /\ tpc'[u] = tpc[u] /\ str'[u] = str[u]
                                     /\ made'[u] = made[u]
      /\ str'[cpu1] = str[cpu1]
      /\ made[t] \in Seq(Strings) /\ t \in Printers
  BY DEF Makes, Moves, TtyInv, OwnTypes, Printers
<1>2. ~IsKnown(s)
  BY DEF Makes, T!Known, T!F!Q!Elements, IsKnown, Members
<1>3. /\ Held(t) = Null /\ Held(t)' = s
      /\ \A y \in Printers : y # t => Held(y)' = Held(y)
  BY <1>1 DEF Held, Printers
<1>4. /\ ~Printed(s) /\ ~Waits(s) /\ s \notin deleted
  <2>1. ~Printed(s) /\ ~Waits(s)
    BY <1>2 DEF TtyInv, MadeInv
  <2>2. T!Times(s) # Length
    BY <2>1, NotPrintedTimes
  <2> QED BY <2>1, <2>2 DEF TtyInv, CountInv
<1>5. \A u \in Threads : \A i \in DOMAIN made'[u] :
        \/ i \in DOMAIN made[u] /\ made'[u][i] = made[u][i] /\ made[u][i] # s
        \/ u = t /\ i = Len(made[t]) + 1 /\ made'[u][i] = s
  <2>1. \A u \in Threads : \A i \in DOMAIN made[u] : made[u][i] # s
    BY <1>2 DEF IsKnown, Members
  <2>2. \A i \in DOMAIN made'[t] : \/ i \in DOMAIN made[t] /\ made'[t][i] = made[t][i]
                                   \/ i = Len(made[t]) + 1 /\ made'[t][i] = s
    BY <1>1
  <2> QED BY <1>1, <2>1, <2>2
<1>6. \A k : IsKnown(k)' <=> IsKnown(k) \/ k = s
  <2>1. \A i \in DOMAIN made[t] : i \in DOMAIN made'[t] /\ made'[t][i] = made[t][i]
    BY <1>1
  <2>2. Len(made[t]) + 1 \in DOMAIN made'[t] /\ made'[t][Len(made[t]) + 1] = s
    BY <1>1
  <2>3. \A k : IsKnown(k)' => IsKnown(k) \/ k = s
    BY <1>5 DEF IsKnown, Members
  <2>4. ASSUME NEW k, IsKnown(k) PROVE IsKnown(k)'
    <3>1. PICK u \in Threads : k \in Members(made[u])
      BY <2>4 DEF IsKnown
    <3>2. k \in Members(made'[u])
      BY <1>1, <2>1, <3>1 DEF Members
    <3> QED BY <3>2 DEF IsKnown
  <2>5. IsKnown(s)'
    BY <2>2 DEF IsKnown, Members
  <2> QED BY <2>3, <2>4, <2>5
<1>7. \A k : Waits(k)' /\ k # Null => Waits(k) \/ k = s
  BY <1>1, <1>3 DEF Waits
<1>8. \A x \in Printers : printed[x] # Null => x # t
  BY <1>1 DEF TtyInv, LockInv
<1>9. LockInv'
  BY <1>1, <1>3, <1>8 DEF TtyInv, LockInv
<1>10. MadeInv'
  <2>1. \A k : Printed(k)' <=> Printed(k)
    BY <1>1 DEF Printed
  <2>2. \A k : Printed(k)' \/ (k # Null /\ Waits(k)') => IsKnown(k)'
    BY <1>6, <1>7, <2>1 DEF TtyInv, MadeInv
  <2>3. \A u \in Threads : tpc'[u] # "idle" =>
          made'[u] # << >> /\ str'[u] = made'[u][Len(made'[u])]
    <3>1. made'[t] # << >> /\ made'[t][Len(made'[t])] = s
      BY <1>1
    <3> QED BY <1>1, <3>1 DEF TtyInv, MadeInv
  <2>4. \A u, v \in Threads : \A i \in DOMAIN made'[u], j \in DOMAIN made'[v] :
          made'[u][i] = made'[v][j] => u = v /\ i = j
    BY <1>5 DEF TtyInv, MadeInv
  <2> QED BY <2>2, <2>3, <2>4 DEF MadeInv
<1>11. PlaceInv'
  <2>1. s \notin Members(queue) /\ \A x \in Printers : Held(x) # s
    BY <1>4 DEF Waits
  <2>2. \A x \in Printers : Held(x)' \notin Members(queue')
    BY <1>1, <1>3, <2>1 DEF TtyInv, PlaceInv
  <2>3. \A x, y \in Printers : Held(x)' = Held(y)' /\ Held(x)' # Null => x = y
    BY <1>3, <2>1 DEF TtyInv, PlaceInv
  <2> QED BY <1>1, <2>2, <2>3 DEF TtyInv, PlaceInv
<1>12. CountInv'
  <2>1. \A k : Prints(k)' <=> Prints(k)
    BY <1>1, <1>3, <1>8 DEF Prints
  <2>2. \A k : (T!Times(k)' = T!Times(k)) /\ (Printed(k)' <=> Printed(k))
    BY <1>1 DEF T!Times, Printed
  <2>3. \A x \in Printers : printed'[x] # Null => T!Times(Held(x))' = printed'[x]
    <3> SUFFICES ASSUME NEW x \in Printers, printed[x] # Null
                 PROVE  T!Times(Held(x))' = printed[x]
      BY <1>1
    <3>1. Held(x)' = Held(x)
      BY <1>3, <1>8
    <3>2. T!Times(Held(x))' = T!Times(Held(x))
      BY <1>1, <3>1 DEF T!Times
    <3> QED BY <3>2 DEF TtyInv, CountInv
  <2>4. deleted \subseteq Strings
    BY DEF TtyInv, OwnTypes
  <2> QED BY <1>1, <1>4, <1>7, <2>1, <2>2, <2>3, <2>4 DEF TtyInv, CountInv
<1>13. MixInv'
  BY <1>1, <1>3, <1>8 DEF TtyInv, MixInv, T!StringsAreNotMixed
<1>14. OrderInv'
  <2> SUFFICES ASSUME NEW a \in Strings, NEW b \in Strings, Earlier(a, b)'
               PROVE  Ordered(a, b)'
    BY DEF OrderInv
  <2>1. PICK u \in Threads : \E i, j \in DOMAIN made'[u] :
          /\ i < j /\ a = made'[u][i] /\ b = made'[u][j] /\ a \notin raw' /\ b \notin raw'
    BY DEF Earlier
  <2>2. PICK i \in DOMAIN made'[u], j \in DOMAIN made'[u] :
          /\ i < j /\ a = made'[u][i] /\ b = made'[u][j] /\ a \notin raw' /\ b \notin raw'
    BY <2>1
  <2>3. \A v \in Threads : v # t => tpc'[v] = tpc[v] /\ str'[v] = str[v]
    BY <1>1
  <2>4. a # s /\ IsKnown(a) /\ a \notin raw /\ b \notin raw
    <3>1. ~(u = t /\ i = Len(made[t]) + 1)
      <4>1. u = t => j \in 1 .. Len(made[t]) + 1 /\ i \in 1 .. Len(made[t]) + 1
        BY <1>1
      <4> QED BY <1>1, <2>2, <4>1
    <3>2. i \in DOMAIN made[u] /\ a = made[u][i] /\ a # s
      BY <1>5, <2>2, <3>1
    <3> QED BY <1>1, <2>2, <3>2 DEF IsKnown, Members
  <2>5. CASE b = s
    <3>1. tpc'[t] = "string"
      BY <1>1, <2>2, <2>5
    <3>2. \A v \in Threads : tpc'[v] \in {"lock", "print"} => str'[v] # s
      <4> SUFFICES ASSUME NEW v \in Threads, tpc'[v] \in {"lock", "print"} PROVE str'[v] # s
        OBVIOUS
      <4>1. v # t /\ tpc[v] \in {"lock", "print"} /\ str'[v] = str[v]
        BY <2>3, <3>1
      <4>2. Held(v) = str[v] /\ v \in Printers
        BY <4>1 DEF Held, Printers
      <4> QED BY <1>4, <4>1, <4>2 DEF Waits
    <3>3. str'[cpu1] # s /\ s \notin Members(queue')
      <4>1. Held(cpu1) = str[cpu1] /\ cpu1 \in Printers
        BY DEF Held, Printers
      <4> QED BY <1>1, <1>4, <4>1 DEF Waits
    <3>4. ~Printed(b)'
      BY <1>1, <1>4, <2>5 DEF Printed
    <3> QED BY <2>5, <3>2, <3>3, <3>4 DEF Ordered, Printed, Members
  <2>6. CASE b # s
    <3>1. i \in DOMAIN made[u] /\ a = made[u][i] /\ j \in DOMAIN made[u] /\ b = made[u][j]
      BY <1>5, <2>2, <2>4, <2>6
    <3>2. Earlier(a, b)
      BY <2>2, <2>4, <3>1 DEF Earlier
    <3>3. Ordered(a, b)
      BY <3>2 DEF TtyInv, OrderInv
    <3>4. Waits(a)' => ~Printed(b)'
      BY <1>1, <1>7, <2>4, <3>3 DEF Ordered, Printed
    <3> QED BY <1>1, <2>6, <3>3, <3>4 DEF Ordered
  <2> QED BY <2>5, <2>6
<1> QED BY <1>9, <1>10, <1>11, <1>12, <1>13, <1>14 DEF TtyInv

LEMMA UnlocksKeeps ==
  ASSUME TtyInv, OwnTypes', Below', NEW x \in Printers, Unlocks(x)
  PROVE  TtyInv'
<1> USE TtyFacts, HeldIs
<1>1. /\ UNCHANGED <<queue, started, made, raw, out>>
      /\ printed[x] = Length /\ printed[x] # Null /\ lock' = Null
      /\ \A y \in Printers : printed'[y] = IF y = x THEN Null ELSE printed[y]
      /\ \A y \in Printers : str'[y] = IF y = x THEN Null ELSE str[y]
      /\ \A u \in Threads : tpc'[u] = IF u = x THEN "idle" ELSE tpc[u]
      /\ deleted' = deleted \/ (x = cpu1 /\ deleted' = deleted \cup {str[cpu1]})
  BY DEF Unlocks, Moves, TtyInv, OwnTypes, Printers
<1>2. /\ Held(x) # Null /\ \A y \in Printers : y # x => printed[y] = Null
  BY <1>1 DEF TtyInv, LockInv
<1>0. PICK s \in Strings : s = Held(x)
  BY <1>2 DEF TtyInv
<1>3. /\ Held(x)' = Null
      /\ \A y \in Printers : y # x => Held(y)' = Held(y)
  BY <1>1 DEF Held, Printers
<1>4. /\ \A y \in Printers : Held(y) \notin Members(queue)
      /\ \A y, z \in Printers : Held(y) = Held(z) /\ Held(y) # Null => y = z
  BY DEF TtyInv, PlaceInv
<1>5. ~Waits(s)'
  BY <1>0, <1>1, <1>2, <1>3, <1>4 DEF Waits
<1>6. \A k : Waits(k)' /\ k # Null => Waits(k)
  BY <1>1, <1>3 DEF Waits
<1>7. \A y \in Printers : printed'[y] = Null
  BY <1>1, <1>2
<1>8. LockInv'
  BY <1>7 DEF LockInv
<1>9. MadeInv'
  <2>1. \A k : (IsKnown(k)' <=> IsKnown(k)) /\ (Printed(k)' <=> Printed(k))
    BY <1>1 DEF IsKnown, Printed
  <2>2. \A k : Printed(k)' \/ (k # Null /\ Waits(k)') => IsKnown(k)'
    BY <1>6, <2>1 DEF TtyInv, MadeInv
  <2>3. \A u \in Threads : tpc'[u] # "idle" => tpc'[u] = tpc[u] /\ str'[u] = str[u]
    BY <1>1 DEF Printers
  <2> QED BY <1>1, <2>2, <2>3 DEF TtyInv, MadeInv
<1>10. PlaceInv'
  <2>1. \A y \in Printers : Held(y)' \notin Members(queue')
    <3>1. Null \notin Members(queue)
      BY QueueIs DEF Members, TtyInv
    <3> QED BY <1>1, <1>3, <1>4, <3>1
  <2>2. \A y, z \in Printers : Held(y)' = Held(z)' /\ Held(y)' # Null => y = z
    BY <1>3, <1>4
  <2>3. str'[cpu1] # Null => str[cpu1] # Null
    BY <1>1 DEF Printers
  <2>4. \A u \in Threads : tpc'[u] = "push" => tpc[u] = "push"
    BY <1>1
  <2> QED BY <1>1, <2>1, <2>2, <2>3, <2>4 DEF TtyInv, PlaceInv
<1>11. CountInv'
  <2>1. \A k : Prints(k) => k = s
    BY <1>0, <1>2 DEF Prints
  <2>2. \A k : (T!Times(k)' = T!Times(k)) /\ (Printed(k)' <=> Printed(k))
    BY <1>1 DEF T!Times, Printed
  <2>3. \A k \in Strings : Waits(k)' /\ Printed(k)' => Prints(k)'
    <3> SUFFICES ASSUME NEW k \in Strings, Waits(k)', Printed(k) PROVE FALSE
      BY <2>2
    <3>1. Prints(k)
      BY <1>6 DEF TtyInv, CountInv
    <3> QED BY <1>5, <2>1, <3>1
  <2>4. \A k \in deleted' : T!Times(k)' = Length /\ ~Waits(k)'
    <3>1. deleted' = deleted \/ deleted' = deleted \cup {s}
      BY <1>0, <1>1 DEF Held
    <3>2. T!Times(s) = Length
      BY <1>0, <1>1 DEF TtyInv, CountInv
    <3>3. deleted \subseteq Strings
      BY DEF TtyInv, OwnTypes
    <3>4. \A k \in deleted : T!Times(k) = Length /\ ~Waits(k)
      BY DEF TtyInv, CountInv
    <3> QED BY <1>5, <1>6, <2>2, <3>1, <3>2, <3>3, <3>4
  <2> QED BY <1>7, <2>2, <2>3, <2>4 DEF TtyInv, CountInv
<1>12. MixInv'
  BY <1>1, <1>7 DEF TtyInv, MixInv, T!StringsAreNotMixed
<1>13. OrderInv'
  <2> SUFFICES ASSUME NEW a \in Strings, NEW b \in Strings, Earlier(a, b)'
               PROVE  Ordered(a, b)'
    BY DEF OrderInv
  <2>1. Earlier(a, b)
    BY <1>1 DEF Earlier
  <2>2. Ordered(a, b)
    BY <2>1 DEF TtyInv, OrderInv
  <2>3. Waits(a)' => ~Printed(b)'
    BY <1>1, <1>6, <2>2 DEF Printed, Ordered
  <2>4. str'[cpu1] \in {str[cpu1], Null}
    BY <1>1 DEF Printers
  <2>5. \A u \in Threads : tpc'[u] \in {"lock", "print"} => tpc'[u] = tpc[u] /\ str'[u] = str[u]
    BY <1>1 DEF Printers
  <2> QED BY <1>1, <2>2, <2>3, <2>4, <2>5 DEF Ordered
<1> QED BY <1>8, <1>9, <1>10, <1>11, <1>12, <1>13 DEF TtyInv

\* A character more in the output.
LEMMA TimesOfAppend ==
  ASSUME NEW s \in Strings, out \in Seq(Strings), out' = Append(out, s)
  PROVE  /\ T!Times(s) \in Nat /\ T!Times(s)' = T!Times(s) + 1
         /\ \A k : k # s => T!Times(k)' = T!Times(k)
         /\ \A k : Printed(k)' <=> Printed(k) \/ k = s
<1> DEFINE Here(k) == {i \in DOMAIN out : out[i] = k}
           There(k) == {i \in DOMAIN out' : out'[i] = k}
<1>1. /\ DOMAIN out = 1 .. Len(out) /\ Len(out) \in Nat
      /\ DOMAIN out' = 1 .. Len(out) + 1
      /\ \A i \in 1 .. Len(out) : out'[i] = out[i]
      /\ out'[Len(out) + 1] = s
  OBVIOUS
<1>2. \A k : k # s => There(k) = Here(k)
  BY <1>1
<1>3. There(s) = Here(s) \cup {Len(out) + 1} /\ Len(out) + 1 \notin Here(s)
  BY <1>1
<1>4. IsFiniteSet(Here(s)) /\ Cardinality(Here(s)) \in Nat
  <2>1. IsFiniteSet(1 .. Len(out))
    BY <1>1, FS_Interval
  <2>2. Here(s) \subseteq 1 .. Len(out)
    BY <1>1
  <2>3. IsFiniteSet(Here(s))
    BY <2>1, <2>2, FS_Subset
  <2> QED BY <2>3, FS_CardinalityType
<1>5. Cardinality(There(s)) = Cardinality(Here(s)) + 1
  BY <1>3, <1>4, FS_AddElement
<1>6. \A k : T!Times(k) = Cardinality(Here(k)) /\ T!Times(k)' = Cardinality(There(k))
  BY DEF T!Times, T!Cardinality, Cardinality
<1>7. \A k : Printed(k)' <=> Printed(k) \/ k = s
  <2>1. \A k : Printed(k) <=> \E i \in 1 .. Len(out) : out[i] = k
    BY <1>1 DEF Printed, Members
  <2>2. \A k : Printed(k)' <=> \E i \in 1 .. Len(out) + 1 : out'[i] = k
    BY <1>1 DEF Printed, Members
  <2>3. \A i \in 1 .. Len(out) + 1 : i \in 1 .. Len(out) \/ i = Len(out) + 1
    BY <1>1
  <2>4. \A i \in 1 .. Len(out) : i \in 1 .. Len(out) + 1
    BY <1>1
  <2>5. Len(out) + 1 \in 1 .. Len(out) + 1
    BY <1>1
  <2> QED BY <1>1, <2>1, <2>2, <2>3, <2>4, <2>5
<1>8. T!Times(s) \in Nat /\ T!Times(s)' = T!Times(s) + 1
  BY <1>4, <1>5, <1>6
<1>9. \A k : k # s => T!Times(k)' = T!Times(k)
  BY <1>2, <1>6
<1> QED BY <1>7, <1>8, <1>9

LEMMA WritesKeeps ==
  ASSUME TtyInv, OwnTypes', Below', NEW x \in Printers, Writes(x)
  PROVE  TtyInv'
<1> USE TtyFacts, HeldIs
<1>1. /\ UNCHANGED <<queue, started, tpc, str, lock, made, raw, deleted>>
      /\ printed[x] \in 0 .. Length - 1 /\ printed[x] # Null
      /\ \A y \in Printers : printed'[y] = IF y = x THEN printed[x] + 1 ELSE printed[y]
      /\ out' = Append(out, str[x]) /\ out \in Seq(Strings)
  BY DEF Writes, TtyInv, OwnTypes
<1>2. /\ Held(x) # Null /\ lock = x /\ (x \in Threads => tpc[x] = "print")
      /\ \A y \in Printers : y # x => printed[y] = Null
  BY <1>1 DEF TtyInv, LockInv
<1>3. PICK s \in Strings : s = Held(x) /\ s = str[x]
  BY <1>2 DEF TtyInv, Held
<1>4. \A y \in Printers : Held(y)' = Held(y)
  BY <1>1 DEF Held
<1>5. /\ T!Times(s) \in Nat /\ T!Times(s)' = T!Times(s) + 1
      /\ \A k : k # s => T!Times(k)' = T!Times(k)
      /\ \A k : Printed(k)' <=> Printed(k) \/ k = s
  BY <1>1, <1>3, TimesOfAppend
<1>6. T!Times(s) = printed[x]
  BY <1>1, <1>3 DEF TtyInv, CountInv
<1>7. \A k : Waits(k)' <=> Waits(k)
  BY <1>1, <1>4 DEF Waits
<1>8. Waits(s)
  BY <1>3 DEF Waits
<1>9. LockInv'
  BY <1>1, <1>2, <1>4 DEF LockInv
<1>10. MadeInv'
  <2>1. \A k : IsKnown(k)' <=> IsKnown(k)
    BY <1>1 DEF IsKnown
  <2>2. IsKnown(s)
    BY <1>8 DEF TtyInv, MadeInv
  <2>3. \A k : Printed(k)' \/ (k # Null /\ Waits(k)') => IsKnown(k)'
    BY <1>5, <1>7, <2>1, <2>2 DEF TtyInv, MadeInv
  <2> QED BY <1>1, <2>3 DEF TtyInv, MadeInv
<1>11. PlaceInv'
  BY <1>1, <1>4 DEF TtyInv, PlaceInv
<1>12. CountInv'
  <2>1. \A k \in Strings : T!Times(k)' <= Length
    <3>1. printed[x] + 1 <= Length
      BY <1>1
    <3> QED BY <1>5, <1>6, <3>1 DEF TtyInv, CountInv
  <2>2. \A y \in Printers : printed'[y] # Null => T!Times(Held(y))' = printed'[y]
    <3> SUFFICES ASSUME NEW y \in Printers, printed'[y] # Null
                 PROVE  T!Times(Held(y))' = printed'[y]
      OBVIOUS
    <3>1. y = x /\ printed'[y] = printed[x] + 1
      BY <1>1, <1>2
    <3>2. Held(y)' = s
      BY <1>3, <1>4, <3>1
    <3>3. T!Times(Held(y))' = T!Times(s)'
      BY <3>2 DEF T!Times
    <3> QED BY <1>5, <1>6, <3>1, <3>3
  <2>3. \A k \in Strings : Waits(k)' /\ Printed(k)' => Prints(k)'
    <3>1. printed'[x] # Null
      <4>1. printed[x] + 1 \in 0 .. Length
        BY <1>1
      <4> QED BY <1>1, <4>1
    <3>2. Prints(s)'
      BY <1>3, <1>4, <3>1 DEF Prints
    <3>3. \A k : Prints(k) => k = s
      BY <1>2, <1>3 DEF Prints
    <3> QED BY <1>5, <1>7, <3>2, <3>3 DEF TtyInv, CountInv
  <2>4. \A k \in deleted' : T!Times(k)' = Length /\ ~Waits(k)'
    BY <1>1, <1>5, <1>7, <1>8 DEF TtyInv, CountInv
  <2> QED BY <2>1, <2>2, <2>3, <2>4 DEF CountInv
<1>13. MixInv'
  <2>1. /\ DOMAIN out = 1 .. Len(out) /\ Len(out) \in Nat
        /\ DOMAIN out' = 1 .. Len(out) + 1
        /\ \A i \in 1 .. Len(out) : out'[i] = out[i]
        /\ out'[Len(out) + 1] = s
    BY <1>1, <1>3
  <2>2. \A i, j \in DOMAIN out : out[i] = out[j] => \A n \in i .. j : out[n] = out[i]
    BY DEF TtyInv, MixInv, T!StringsAreNotMixed
  <2>3. \A i \in DOMAIN out : out[i] = s => \A n \in DOMAIN out : i <= n => out[n] = s
    BY <1>1, <1>3 DEF TtyInv, MixInv
  <2>4. \A i \in DOMAIN out' : out'[i] = s => \A n \in DOMAIN out' : i <= n => out'[n] = s
    <3> SUFFICES ASSUME NEW i \in DOMAIN out', out'[i] = s, NEW n \in DOMAIN out', i <= n,
                        n # Len(out) + 1
                 PROVE  out'[n] = s
      BY <2>1
    <3>1. n \in 1 .. Len(out) /\ i \in 1 .. Len(out)
      BY <2>1
    <3> QED BY <2>1, <2>3, <3>1
  <2>5. \A i, j \in DOMAIN out' : out'[i] = out'[j] => \A n \in i .. j : out'[n] = out'[i]
    <3> SUFFICES ASSUME NEW i \in DOMAIN out', NEW j \in DOMAIN out', out'[i] = out'[j],
                        NEW n \in i .. j
                 PROVE  out'[n] = out'[i]
      OBVIOUS
    <3>1. n \in DOMAIN out' /\ i <= n
      BY <2>1
    <3>2. CASE j = Len(out) + 1
      BY <2>1, <2>4, <3>1, <3>2
    <3>3. CASE j # Len(out) + 1
      <4>1. i \in DOMAIN out /\ j \in DOMAIN out /\ n \in DOMAIN out
        BY <2>1, <3>3
      <4> QED BY <2>1, <2>2, <4>1
    <3> QED BY <3>2, <3>3
  <2>6. T!StringsAreNotMixed'
    BY <2>5 DEF T!StringsAreNotMixed
  <2>7. \A y \in Printers : printed'[y] # Null => y = x /\ Held(y)' = s
    BY <1>1, <1>2, <1>3, <1>4
  <2> QED BY <2>4, <2>6, <2>7 DEF MixInv
<1>14. OrderInv'
  <2> SUFFICES ASSUME NEW a \in Strings, NEW b \in Strings, Earlier(a, b)'
               PROVE  Ordered(a, b)'
    BY DEF OrderInv
  <2>1. Earlier(a, b)
    BY <1>1 DEF Earlier
  <2>2. Ordered(a, b) /\ a # b
    BY <2>1, HandsAreLast DEF TtyInv, OrderInv
  <2>3. ASSUME b = s, Waits(a) PROVE FALSE
    <3>1. ASSUME NEW u \in Threads, Held(u) = a PROVE FALSE
      <4>1. tpc[u] # "idle" /\ str[u] = a
        BY <3>1 DEF Held
      <4> QED BY <2>1, <4>1, HandsAreLast
    <3>2. a \in Members(queue) \/ a = str[cpu1]
      BY <2>3, <3>1 DEF Waits, Printers, Held
    <3>3. CASE x = cpu1
      BY <1>3, <2>2, <2>3, <3>2, <3>3 DEF Ordered
    <3>4. CASE x \in Threads
      BY <1>2, <1>3, <2>2, <2>3, <3>2, <3>4 DEF Ordered
    <3> QED BY <3>3, <3>4 DEF Printers
  <2>4. Waits(a)' => ~Printed(b)'
    BY <1>5, <1>7, <2>2, <2>3 DEF Ordered
  <2>5. \A m, n \in DOMAIN out' : out'[m] = a /\ out'[n] = b => m < n
    <3> SUFFICES ASSUME NEW m \in DOMAIN out', NEW n \in DOMAIN out',
                        out'[m] = a, out'[n] = b
                 PROVE  m < n
      OBVIOUS
    <3>1. /\ DOMAIN out = 1 .. Len(out) /\ Len(out) \in Nat
          /\ DOMAIN out' = 1 .. Len(out) + 1
          /\ \A i \in 1 .. Len(out) : out'[i] = out[i]
          /\ out'[Len(out) + 1] = s
      BY <1>1, <1>3
    <3>2. CASE m = Len(out) + 1
      <4>1. n \in DOMAIN out /\ out[n] = b /\ a = s
        BY <2>2, <3>1, <3>2
      <4>2. Printed(b)
        BY <4>1 DEF Printed, Members
      <4> QED BY <1>8, <2>2, <4>1, <4>2 DEF Ordered
    <3>3. CASE m # Len(out) + 1
      <4>1. m \in DOMAIN out /\ out[m] = a
        BY <3>1, <3>3
      <4>2. CASE n = Len(out) + 1
        BY <3>1, <4>1, <4>2
      <4>3. CASE n # Len(out) + 1
        <5>1. n \in DOMAIN out /\ out[n] = b
          BY <3>1, <4>3
        <5> QED BY <2>2, <4>1, <5>1 DEF Ordered
      <4> QED BY <4>2, <4>3
    <3> QED BY <3>2, <3>3
  <2> QED BY <1>1, <2>2, <2>4, <2>5 DEF Ordered
<1> QED BY <1>9, <1>10, <1>11, <1>12, <1>13, <1>14 DEF TtyInv

LEMMA TtyInvInit == T!Init => TtyInv
<1> SUFFICES ASSUME T!Init PROVE TtyInv
  OBVIOUS
<1> USE TtyFacts
<1>1. /\ started = FALSE /\ tpc = [t \in Threads |-> "idle"]
      /\ str = [x \in Printers |-> Null]
      /\ lock = Null /\ printed = [x \in Printers |-> Null]
      /\ made = [t \in Threads |-> << >>]
      /\ raw = {} /\ out = << >> /\ deleted = {} /\ queue = << >>
  BY DEF T!Init, T!F!Init, queue
<1>2. OwnTypes /\ Below
  <2>1. << >> \in Seq(Strings)
    OBVIOUS
  <2>2. OwnTypes
    BY <1>1, <2>1 DEF OwnTypes, Labels
  <2> QED BY <2>2, BelowInit
<1>3. (\A x \in Printers : Held(x) = Null) /\ Members(queue) = {} /\ Members(out) = {}
  BY <1>1 DEF Held, Members, Printers
<1>4. \A s : ~Printed(s) /\ (Waits(s) => s = Null)
  BY <1>3 DEF Printed, Waits
<1>5. LockInv
  BY <1>1 DEF LockInv
<1>6. MadeInv
  BY <1>1, <1>4 DEF MadeInv
<1>7. PlaceInv
  BY <1>1, <1>3 DEF PlaceInv, Printers
<1>8. CountInv
  <2>1. \A s : T!Times(s) = 0
    BY <1>4, NotPrintedTimes
  <2> QED BY <1>1, <1>4, <2>1 DEF CountInv
<1>9. MixInv
  BY <1>1 DEF MixInv, T!StringsAreNotMixed
<1>10. OrderInv
  BY <1>1 DEF OrderInv, Earlier
<1> QED BY <1>2, <1>5, <1>6, <1>7, <1>8, <1>9, <1>10 DEF TtyInv

LEMMA TtyInvNext == TtyInv /\ [T!Next]_(T!vars) => TtyInv'
<1> SUFFICES ASSUME TtyInv, [T!Next]_(T!vars) PROVE TtyInv'
  OBVIOUS
<1>1. Below /\ OwnTypes /\ \A t \in Threads : tpc[t] # "idle" => str[t] \in Strings
  BY HandsAreLast DEF TtyInv
<1>2. Below' /\ Step
  BY <1>1, StepIs
<1>3. \A x \in Printers : printed[x] # Null => Held(x) # Null
  BY DEF TtyInv, LockInv
<1>4. OwnTypes'
  BY <1>1, <1>2, <1>3, OwnTypesNext
<1> QED
  BY <1>2, <1>4, RestsKeeps, PopsKeeps, MakesKeeps, ChoosesKeeps, PushesKeeps, LocksKeeps,
     WritesKeeps, UnlocksKeeps DEF Step

LEMMA InOrderIs == TtyInv => OutputIsInOrder
<1> SUFFICES ASSUME TtyInv PROVE OutputIsInOrder
  OBVIOUS
<1> USE TtyFacts
<1>1. T!TypeOK /\ T!StringsAreNotMixed
  BY TypesAre DEF TtyInv, Below, MixInv
<1>2. T!DeletedAfterPrinted
  <2>1. \A s \in Strings : T!Times(s) <= Length
    BY DEF TtyInv, CountInv
  <2>2. ASSUME NEW s \in Strings, s \in deleted
        PROVE  /\ T!Times(s) = Length /\ s \notin T!F!Q!Elements(queue)
               /\ \A t \in Threads : tpc[t] \in {"push", "print"} => str[t] # s
               /\ str[cpu1] # s
    <3>1. T!Times(s) = Length /\ ~Waits(s)
      BY <2>2 DEF TtyInv, CountInv
    <3> QED BY <3>1 DEF Waits, Held, Members, Printers, T!F!Q!Elements
  <2> QED BY <2>1, <2>2 DEF T!DeletedAfterPrinted, queue
<1>3. T!InProgramOrder
  <2> SUFFICES ASSUME NEW t \in Threads, NEW i \in DOMAIN made[t], NEW j \in DOMAIN made[t],
                      i < j, made[t][i] \notin raw, made[t][j] \notin raw,
                      NEW m \in DOMAIN out, NEW n \in DOMAIN out,
                      out[m] = made[t][i], out[n] = made[t][j]
               PROVE  m < n
    BY DEF T!InProgramOrder
  <2>1. made[t][i] \in Strings /\ made[t][j] \in Strings
    BY DEF TtyInv, OwnTypes
  <2>2. Earlier(made[t][i], made[t][j])
    BY DEF Earlier
  <2>3. Ordered(made[t][i], made[t][j])
    BY <2>1, <2>2 DEF TtyInv, OrderInv
  <2> QED BY <2>3 DEF Ordered
<1> QED BY <1>1, <1>2, <1>3 DEF OutputIsInOrder

\* What is looked at together goes its own way each.
LEMMA EachOnItsOwn == SpecAny => Spec /\ T!Spec
<1>1. InitAny => Init /\ T!Init
  BY DEF InitAny
<1>2. [NextAny]_<<what, vars, ttyVars>> => [Next]_vars /\ [T!Next]_(T!vars)
  BY DEF NextAny, vars, ttyVars, T!vars, T!fvars, T!printing
<1> QED BY <1>1, <1>2, PTL DEF SpecAny, Spec, T!Spec

\* The output consists of whole strings in the order of each thread's calls,
\* also while CPU 1 starts and the way of the strings changes; nothing is
\* printed twice, and what is deleted was printed and is in nobody's hands.
THEOREM OutputIsInOrderHolds == SpecAny => []OutputIsInOrder
  BY TtyInvInit, TtyInvNext, InOrderIs, EachOnItsOwn, PTL DEF T!Spec
=============================================================================
