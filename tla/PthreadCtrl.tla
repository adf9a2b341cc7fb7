---------------------------- MODULE PthreadCtrl ----------------------------
(***************************************************************************)
(* PthreadCtrl of rlib/thread.{h,cc}: the threads that stand for CPUs.     *)
(* Setup() makes them; each writes its own thread id into _thread_ids,     *)
(* which GetId() of every thread reads meanwhile, without a lock, to find  *)
(* the number of the CPU that runs.                                        *)
(***************************************************************************)
EXTENDS Naturals

CONSTANTS
  cpu_nums,   \* the CPUs; the program's main thread is the first
  Outsiders,  \* threads that the program made itself
  Garbage     \* what _thread_ids, which nobody initializes, may hold

\* The threads: those of the CPUs are called by their number.
Members == 0 .. cpu_nums - 1
AllThreads == Members \cup Outsiders

PthreadCtrlAssumption ==
  /\ cpu_nums \in 1 .. 128  \* kMaxThreadsNumber
  /\ Outsiders \cap Members = {} /\ Garbage \cap AllThreads = {}

VARIABLES
  ids,   \* _thread_ids
  pc,    \* of each thread: "none" (not made yet), "start", "run", "scan"
  made,  \* how many threads Setup() has made
  i,     \* the loop variable of GetId() in each thread
  ret    \* what it returned last, cpu_nums if it was not called

vars == <<ids, pc, made, i, ret>>

Init ==
  /\ ids \in [Members -> Garbage]
  /\ pc = [t \in AllThreads |-> IF t \in Members \ {0} THEN "none" ELSE "run"]
  /\ made = 0
  /\ i = [t \in AllThreads |-> 0]
  /\ ret = [t \in AllThreads |-> cpu_nums]

\* Setup() of the main thread writes its own id first ...
SetupMain ==
  /\ made = 0 /\ pc[0] = "run"
  /\ ids' = [ids EXCEPT ![0] = 0]
  /\ made' = 1
  /\ UNCHANGED <<pc, i, ret>>

\* The size of _thread_pool.
PoolSize == cpu_nums - 1

\* ... and then makes the threads one by one.
MakeThread ==
  /\ made \in 1 .. PoolSize /\ pc[0] = "run"
  /\ pc' = [pc EXCEPT ![made] = "start"]
  /\ made' = made + 1
  /\ UNCHANGED <<ids, i, ret>>

\* Mutant: the thread runs before it has written its id.
ThreadStarts_Unwritten(t) ==
  /\ pc[t] = "start" /\ pc' = [pc EXCEPT ![t] = "run"]
  /\ UNCHANGED <<ids, made, i, ret>>

\* The new thread writes its id, and goes on with TaskCtrl::Run().
ThreadStarts(t) ==
  /\ pc[t] = "start" /\ pc' = [pc EXCEPT ![t] = "run"]
  /\ ids' = [ids EXCEPT ![t] = t]
  /\ UNCHANGED <<made, i, ret>>

\* GetId() is called.
GetId(t) ==
  /\ pc[t] = "run"
  /\ pc' = [pc EXCEPT ![t] = "scan"] /\ i' = [i EXCEPT ![t] = 0]
  /\ UNCHANGED <<ids, made, ret>>

Returns(t, n) ==
  /\ pc' = [pc EXCEPT ![t] = "run"] /\ ret' = [ret EXCEPT ![t] = n]

\* One element is compared; after the last one, GetId() returns 0.
Scan(t) ==
  /\ pc[t] = "scan"
  /\ IF i[t] = cpu_nums THEN Returns(t, 0) /\ UNCHANGED i
     ELSE IF ids[i[t]] = t THEN Returns(t, i[t]) /\ UNCHANGED i
     ELSE i' = [i EXCEPT ![t] = @ + 1] /\ UNCHANGED <<pc, ret>>
  /\ UNCHANGED <<ids, made>>

Next == SetupMain \/ MakeThread \/ \E t \in AllThreads : ThreadStarts(t) \/ GetId(t) \/ Scan(t)

Spec == Init /\ [][Next]_vars

-----------------------------------------------------------------------------
\* The type invariant.
TypeOK ==
  /\ ids \in [Members -> Garbage \cup Members]
  /\ pc \in [AllThreads -> {"none", "start", "run", "scan"}]
  /\ made \in 0 .. cpu_nums
  /\ i \in [AllThreads -> 0 .. cpu_nums] /\ ret \in [AllThreads -> 0 .. cpu_nums]

\* The thread of a CPU always gets its own number, the main thread also before
\* Setup(), whatever the other threads are writing meanwhile: no two CPUs have
\* the same number, which the locks and the task lists of the CPUs rely on.
\* Every other thread is taken for the first CPU.
EachCpuHasItsNumber ==
  \A t \in AllThreads :
    ret[t] # cpu_nums => ret[t] = (IF t \in Members THEN t ELSE 0)
=============================================================================
