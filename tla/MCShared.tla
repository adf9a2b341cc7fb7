------------------------------ MODULE MCShared ------------------------------
(***************************************************************************)
(* What CPUs, threads and interrupt handlers share, for TLC: RingBuffer,   *)
(* Queue, ObjectList, the thread ids of PthreadCtrl and IntSpinLock.  They *)
(* share no state with each other, so a behaviour takes steps of one of    *)
(* them only, chosen in the initial state; the others rest in theirs.      *)
(***************************************************************************)
EXTENDS RingBuffer, LinkedList

CONSTANTS
  QueueThreads,                  \* Queue: its threads,
  Containers, First, Null,       \* the memory, the guard and nullptr
  Writers, Readers,              \* ObjectList: its threads
  cpu_nums, Outsiders, Garbage,  \* PthreadCtrl
  Cpus, Locks, Handled, MaxDepth, FlagMod, Trying  \* IntSpinLock

VARIABLES
  what,                                                   \* what is looked at
  qData, qNext, qLast, qFree, qPc, qHeld, qAnswer,        \* Queue
  lNext, lLast, lMade, lLock, lPc, lC, at, seen, owed,    \* ObjectList
  ids, pPc, pMade, pI, pRet,                              \* PthreadCtrl
  flag, id, did, intr, level, iPc, iArg, iReg, iHow,      \* IntSpinLock
  by, misled

Q == INSTANCE Queue WITH
       Threads <- QueueThreads, Items <- T,
       data <- qData, next <- qNext, last <- qLast, free <- qFree, pc <- qPc,
       held <- qHeld, answer <- qAnswer

L == INSTANCE ObjectList WITH
       Nullptr <- Null, Nobody <- Null,
       next <- lNext, last <- lLast, made <- lMade, lock <- lLock, pc <- lPc,
       c <- lC

P == INSTANCE PthreadCtrl WITH
       pc <- pPc, made <- pMade, i <- pI, ret <- pRet

I == INSTANCE IntSpinLock WITH pc <- iPc, arg <- iArg, reg <- iReg, how <- iHow

ASSUME SharedAssumption ==
  /\ Q!QueueAssumption /\ L!ObjectListAssumption
  /\ P!PthreadCtrlAssumption /\ I!IntSpinLockAssumption

queueVars == <<qData, qNext, qLast, qFree, qPc, qHeld, qAnswer>>
listVars == <<lNext, lLast, lMade, lLock, lPc, lC, at, seen, owed>>
threadVars == <<ids, pPc, pMade, pI, pRet>>
lockVars == <<flag, id, did, intr, level, iPc, iArg, iReg, iHow, by, misled>>

InitAny ==
  /\ what \in {"ring", "queue", "list", "threads", "lock"}
  /\ Init /\ Q!Init /\ L!Init /\ P!Init /\ I!Init

NextAny ==
  /\ UNCHANGED what
  /\ \/ /\ what = "ring" /\ Next
        /\ UNCHANGED <<queueVars, listVars, threadVars, lockVars>>
     \/ /\ what = "queue" /\ Q!Next
        /\ UNCHANGED <<vars, listVars, threadVars, lockVars>>
     \/ /\ what = "list" /\ L!Next
        /\ UNCHANGED <<vars, queueVars, threadVars, lockVars>>
     \/ /\ what = "threads" /\ P!Next
        /\ UNCHANGED <<vars, queueVars, listVars, lockVars>>
     \/ /\ what = "lock" /\ I!Next
        /\ UNCHANGED <<vars, queueVars, listVars, threadVars>>

SpecAny ==
  InitAny /\ [][NextAny]_<<what, vars, queueVars, listVars, threadVars, lockVars>>

-----------------------------------------------------------------------------
\* The containers of the Queue, in their order, and what they hold.
chain == Chain(qNext, Null, First, Cardinality(Containers))
queued == [k \in DOMAIN chain |-> qData[chain[k]]]

\* A Pop() that has taken its container out has decided on its answer.
decided ==
  [t \in QueueThreads |->
     IF qPc[t] = "read" THEN qData[qHeld[t]] ELSE qAnswer[t]]

QueueFifo == INSTANCE BoundedFifo WITH
               Threads <- QueueThreads, Items <- T,
               Capacity <- Cardinality(Containers),
               content <- queued, answer <- decided

\* Queue is a first-in first-out queue: although Push() fills and Pop() reads
\* and frees containers without the lock, and IsEmpty() never takes it, no
\* item is lost, repeated, reordered or changed, and every answer is true of
\* the queue at some moment of the call.
QueueImplementsBoundedFifo == QueueFifo!Spec

\* A container of the Queue is allocated to one thread, in the list or free;
\* the assertions of Push() and Pop() on the list hold.
EachContainerHasOneOwner ==
  Q!TypeOK /\ Q!NoKassertFails /\ Q!EachContainerHasOneOwner

\* A reader of an ObjectList, which takes no lock, sees the containers in
\* their order and everything that was in the list when it began.
ReadersSeeTheList ==
  /\ L!TypeOK /\ L!NoKassertFails
  /\ L!ReaderSeesTheBeginning /\ L!ReaderMissesNothing

\* GetId() gives each CPU its own number while the threads start.
EachCpuHasItsNumber == P!TypeOK /\ P!EachCpuHasItsNumber

\* Of nested IntSpinLocks each is held once, with handlers among those that
\* want it; an assertion fails only where a context of the CPU was misled.
MutualExclusion == I!TypeOK /\ I!MutualExclusion /\ I!NoSpuriousAssert

\* While a lock is held by Lock(), no interrupt comes on the CPU that holds it,
\* unless another CPU has written into _did_stop_interrupt of a lock inside of
\* it: a handler does not spin for what it itself keeps from being released.
InterruptsOffUnlessMisled == I!InterruptsOffUnlessMisled
=============================================================================
