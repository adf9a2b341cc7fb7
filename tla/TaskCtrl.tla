------------------------------ MODULE TaskCtrl ------------------------------
(***************************************************************************)
(* TaskCtrl of rlib/task.{h,cc}: per CPU two doubly linked lists of tasks, *)
(* the loop Run() that executes them, and Register()/Remove(), which other *)
(* threads, interrupt handlers and the tasks' own handlers call at any     *)
(* moment.                                                                 *)
(*                                                                         *)
(* A section under _task_struct[cpuid].lock is one action: the lock is     *)
(* mutually exclusive (module SpinLock).  What the code reads or writes    *)
(* outside of the lock is an action of its own.                            *)
(*                                                                         *)
(* The callout list of a CPU is seen from here only by what Run() does     *)
(* with it: it may move one due callout's task to the queue and it decides *)
(* whether the CPU's state becomes kNotRunning or stays kSlept.            *)
(***************************************************************************)
EXTENDS Naturals, LinkedList

CONSTANTS
  Cpus,     \* the CPUs (threads) that execute Run()
  Tasks,    \* the Task objects of the clients
  Clients,  \* threads that call Remove()
  Home,     \* the CPUs on which the users of a task register it
  Null      \* nullptr, and an unset field

\* Setup() creates two guard tasks per CPU, one for each list.
Guards == Cpus \X {1, 2}
Nodes == Tasks \cup Guards

ASSUME TaskCtrlAssumption ==
  /\ Home \in [Tasks -> SUBSET Cpus]
  /\ Null \notin Nodes \cup Cpus
  /\ Tasks \cap Guards = {}
  /\ IsFiniteSet(Tasks)

VARIABLES
  next, prev,           \* _next and _prev of every task and guard
  status,               \* _status of every client task (a guard's is kGuard)
  cpuid,                \* _cpuid of every client task
  top, bottom,          \* the list Run() is working on
  topSub, bottomSub,    \* top_sub, bottom_sub: the list Register() appends to
  state,                \* TaskQueueState of every CPU
  pc,                   \* where Run() is on every CPU
  cur,                  \* the task Run() has taken out of the list
  rmTask, rmCpu,        \* Remove(): its argument and its copy of _cpuid
  panic                 \* a kassert has failed: the program has ended

links == <<next, prev>>
queues == <<links, status, cpuid, top, bottom, topSub, bottomSub>>
removers == <<rmTask, rmCpu>>
vars == <<queues, state, pc, cur, removers, panic>>

TaskQueueState == {"kNotStarted", "kNotRunning", "kRunning", "kSlept"}
Status == {"kRunning", "kWaitingInQueue", "kOutOfQueue"}
RunLabels == {"notStarted", "wake", "callout", "pop", "execute", "finish",
              "check", "sleep"}

\* The state Setup() leaves: two empty lists per CPU.
Setup ==
  /\ next = [n \in Nodes |-> Null]
  /\ prev = [n \in Nodes |-> Null]
  /\ top = [c \in Cpus |-> <<c, 1>>]
  /\ bottom = [c \in Cpus |-> <<c, 1>>]
  /\ topSub = [c \in Cpus |-> <<c, 2>>]
  /\ bottomSub = [c \in Cpus |-> <<c, 2>>]
  /\ state = [c \in Cpus |-> "kNotStarted"]

Init ==
  /\ Setup
  /\ status = [t \in Tasks |-> "kOutOfQueue"]
  /\ cpuid = [t \in Tasks |-> Null]
  /\ pc = [c \in Cpus |-> "notStarted"]
  /\ cur = [c \in Cpus |-> Null]
  /\ rmTask = [k \in Clients |-> Null]
  /\ rmCpu = [k \in Clients |-> Null]
  /\ panic = FALSE

Goto(c, from, to) == /\ pc[c] = from
                     /\ pc' = [pc EXCEPT ![c] = to]

\* A kassert that does not hold: throw in the user build, halt in the kernel.
Panic == /\ panic' = TRUE
         /\ UNCHANGED <<queues, state, pc, cur, removers>>

(***************************************************************************)
(* Register(cpuid, task).                                                  *)
(***************************************************************************)

\* Mutant: the task is put at the front of the list.
AppendToSub_AtFront(c, t) ==
  /\ cpuid' = [cpuid EXCEPT ![t] = c]
  /\ status' = [status EXCEPT ![t] = "kWaitingInQueue"]
  /\ next' = [next EXCEPT ![t] = next[topSub[c]], ![topSub[c]] = t]
  /\ prev' = [n \in Nodes |-> IF n = t THEN topSub[c]
                              ELSE IF n = next[topSub[c]] THEN t ELSE prev[n]]
  /\ bottomSub' = [bottomSub EXCEPT ![c] = IF @ = topSub[c] THEN t ELSE @]
  /\ UNCHANGED <<top, bottom, topSub>>

\* The task is appended to the list that Run() is not working on.
AppendToSub(c, t) ==
  /\ cpuid' = [cpuid EXCEPT ![t] = c]
  /\ status' = [status EXCEPT ![t] = "kWaitingInQueue"]
  /\ next' = [next EXCEPT ![t] = Null, ![bottomSub[c]] = t]
  /\ prev' = [prev EXCEPT ![t] = bottomSub[c]]
  /\ bottomSub' = [bottomSub EXCEPT ![c] = t]
  /\ UNCHANGED <<top, bottom, topSub>>

RegisterBody(c, t) ==
  IF status[t] = "kWaitingInQueue" THEN UNCHANGED queues ELSE AppendToSub(c, t)

\* Any thread, interrupt handler or task handler registers a task on one of
\* the CPUs its users register it on.
Register(c, t) ==
  /\ c \in Home[t]
  /\ RegisterBody(c, t)
  /\ UNCHANGED <<state, pc, cur, removers, panic>>

(***************************************************************************)
(* Remove(task): _cpuid is read before the lock of that CPU is taken.      *)
(***************************************************************************)

\* Callers remove a task that has been registered: only then is _cpuid set.
RemoveEnter(k, t) ==
  /\ rmTask[k] = Null
  /\ cpuid[t] # Null
  /\ rmTask' = [rmTask EXCEPT ![k] = t]
  /\ rmCpu' = [rmCpu EXCEPT ![k] = cpuid[t]]
  /\ UNCHANGED <<queues, state, pc, cur, panic>>

RemoveReturn(k) ==
  /\ rmTask' = [rmTask EXCEPT ![k] = Null]
  /\ rmCpu' = [rmCpu EXCEPT ![k] = Null]

\* The assertions on the way of unlinking t from the lists of CPU c.
CanUnlink(c, t) ==
  /\ prev[t] # Null
  /\ next[t] = Null => t \in {bottom[c], bottomSub[c]}

\* Mutant: the end of the second list is not moved back.
Unlink_KeepsBottomSub(c, t) ==
  /\ next' = [next EXCEPT ![prev[t]] = next[t], ![t] = Null]
  /\ prev' = [n \in Nodes |-> IF n = t THEN Null
                              ELSE IF n = next[t] THEN prev[t] ELSE prev[n]]
  /\ bottom' = [bottom EXCEPT ![c] = IF @ = t THEN prev[t] ELSE @]
  /\ UNCHANGED bottomSub

Unlink(c, t) ==
  /\ next' = [next EXCEPT ![prev[t]] = next[t], ![t] = Null]
  /\ prev' = [n \in Nodes |-> IF n = t THEN Null
                              ELSE IF n = next[t] THEN prev[t] ELSE prev[n]]
  /\ bottom' = [bottom EXCEPT ![c] = IF @ = t THEN prev[t] ELSE @]
  /\ bottomSub' = [bottomSub EXCEPT ![c] = IF @ = t THEN prev[t] ELSE @]

RemoveLocked(k) ==
  LET t == rmTask[k]
      c == rmCpu[k]
  IN  /\ t # Null
      /\ \/ /\ status[t] = "kWaitingInQueue"
            /\ ~CanUnlink(c, t)
            /\ Panic
         \/ /\ status[t] = "kWaitingInQueue" => CanUnlink(c, t)
            /\ IF status[t] = "kWaitingInQueue"
               THEN Unlink(c, t)
               ELSE UNCHANGED <<links, bottom, bottomSub>>
            /\ status' = [status EXCEPT ![t] = "kOutOfQueue"]
            /\ RemoveReturn(k)
            /\ UNCHANGED <<cpuid, top, topSub, state, pc, cur, panic>>

(***************************************************************************)
(* Run().                                                                  *)
(***************************************************************************)

RunEnter(c) ==
  /\ Goto(c, "notStarted", "wake")
  /\ state' = [state EXCEPT ![c] = "kNotRunning"]
  /\ UNCHANGED <<queues, cur, removers, panic>>

\* The head of the outer loop: the callouts are looked at only by a CPU that
\* went to sleep with callouts pending (or that has just started).
RunWake(c) ==
  \/ /\ pc[c] = "wake"
     /\ state[c] \notin {"kNotRunning", "kSlept"}
     /\ Panic
  \/ /\ state[c] \in {"kNotRunning", "kSlept"}
     /\ Goto(c, "wake", IF state[c] = "kNotRunning" THEN "callout" ELSE "pop")
     /\ state' = [state EXCEPT ![c] = "kRunning"]
     /\ UNCHANGED <<queues, cur, removers, panic>>

\* No callout is due, or the first one is and its task is registered.
RunCallout(c) ==
  /\ Goto(c, "callout", "pop")
  /\ \/ UNCHANGED queues
     \/ \E t \in Tasks : c \in Home[t] /\ RegisterBody(c, t)
  /\ UNCHANGED <<state, cur, removers, panic>>

\* The assertions on the way of taking the first task out of the list.
CanPop(c) ==
  LET t == next[top[c]]
  IN  IF t = Null
      THEN top[c] = bottom[c]
      ELSE /\ next[t] = Null => bottom[c] = t
           /\ status[t] = "kWaitingInQueue"

PopFirst(c) ==
  LET t == next[top[c]]
  IN  /\ next' = [next EXCEPT ![top[c]] = next[t], ![t] = Null]
      /\ prev' = [n \in Nodes |-> IF n = t THEN Null
                                  ELSE IF n = next[t] THEN top[c] ELSE prev[n]]
      /\ bottom' = [bottom EXCEPT ![c] = IF next[t] = Null THEN top[c] ELSE @]
      /\ status' = [status EXCEPT ![t] = "kRunning"]
      /\ cur' = [cur EXCEPT ![c] = t]

RunPop(c) ==
  \/ /\ pc[c] = "pop"
     /\ ~CanPop(c)
     /\ Panic
  \/ /\ CanPop(c)
     /\ next[top[c]] = Null
     /\ Goto(c, "pop", "check")
     /\ UNCHANGED <<queues, state, cur, removers, panic>>
  \/ /\ CanPop(c)
     /\ next[top[c]] # Null
     /\ Goto(c, "pop", "execute")
     /\ PopFirst(c)
     /\ UNCHANGED <<cpuid, top, topSub, bottomSub, state, removers, panic>>

\* The handler returns; while pc is "execute" it may do what any client does.
RunExecute(c) ==
  /\ Goto(c, "execute", "finish")
  /\ UNCHANGED <<queues, state, cur, removers, panic>>

\* Mutant: the status is overwritten without looking whether the task was
\* registered again.
RunFinish_NoTest(c) ==
  /\ Goto(c, "finish", "pop")
  /\ status' = [status EXCEPT ![cur[c]] = "kOutOfQueue"]
  /\ cur' = [cur EXCEPT ![c] = Null]
  /\ UNCHANGED <<links, cpuid, top, bottom, topSub, bottomSub, state,
                 removers, panic>>

\* A task that was registered again while its handler ran stays registered.
RunFinish(c) ==
  /\ Goto(c, "finish", "pop")
  /\ status' = IF status[cur[c]] = "kRunning"
               THEN [status EXCEPT ![cur[c]] = "kOutOfQueue"]
               ELSE status
  /\ cur' = [cur EXCEPT ![c] = Null]
  /\ UNCHANGED <<links, cpuid, top, bottom, topSub, bottomSub, state,
                 removers, panic>>

\* Mutant: the CPU sleeps without looking at the second list.
RunCheck_TopOnly(c) ==
  /\ IF next[top[c]] = Null
     THEN /\ Goto(c, "check", "sleep")
          /\ state' = [state EXCEPT ![c] = "kSlept"]
          /\ UNCHANGED queues
     ELSE /\ Goto(c, "check", "pop")
          /\ top' = [top EXCEPT ![c] = topSub[c]]
          /\ topSub' = [topSub EXCEPT ![c] = top[c]]
          /\ bottom' = [bottom EXCEPT ![c] = bottomSub[c]]
          /\ bottomSub' = [bottomSub EXCEPT ![c] = bottom[c]]
          /\ UNCHANGED <<links, status, cpuid, state>>
  /\ UNCHANGED <<cur, removers, panic>>

\* The working list is empty: sleep, or swap the two lists.
RunCheck(c) ==
  /\ IF next[top[c]] = Null /\ next[topSub[c]] = Null
     THEN /\ Goto(c, "check", "sleep")
          /\ state' = [state EXCEPT ![c] = "kSlept"]
          /\ UNCHANGED queues
     ELSE /\ Goto(c, "check", "pop")
          /\ top' = [top EXCEPT ![c] = topSub[c]]
          /\ topSub' = [topSub EXCEPT ![c] = top[c]]
          /\ bottom' = [bottom EXCEPT ![c] = bottomSub[c]]
          /\ bottomSub' = [bottomSub EXCEPT ![c] = bottom[c]]
          /\ UNCHANGED <<links, status, cpuid, state>>
  /\ UNCHANGED <<cur, removers, panic>>

\* The state a sleeping CPU shows depends on whether callouts are pending;
\* the user build then sleeps 10us and goes on by itself.
RunSleep(c) ==
  \/ /\ pc[c] = "sleep"
     /\ state[c] # "kSlept"
     /\ Panic
  \/ /\ state[c] = "kSlept"
     /\ Goto(c, "sleep", "wake")
     /\ \E s \in {"kSlept", "kNotRunning"} : state' = [state EXCEPT ![c] = s]
     /\ UNCHANGED <<queues, cur, removers, panic>>

Run(c) ==
  \/ RunEnter(c) \/ RunWake(c) \/ RunCallout(c) \/ RunPop(c)
  \/ RunExecute(c) \/ RunFinish(c) \/ RunCheck(c) \/ RunSleep(c)

Next ==
  /\ ~panic
  /\ \/ \E c \in Cpus : Run(c)
     \/ \E t \in Tasks : \E c \in Home[t] : Register(c, t)
     \/ \E k \in Clients : \/ \E t \in Tasks : RemoveEnter(k, t)
                           \/ RemoveLocked(k)

Spec == Init /\ [][Next]_vars

\* Every CPU keeps executing Run() and every handler returns.
FairSpec == Spec /\ \A c \in Cpus : WF_vars(~panic /\ Run(c))

-----------------------------------------------------------------------------
\* The type invariant of the lists, of the CPUs and of Remove().
TypeOK ==
  /\ next \in [Nodes -> Tasks \cup {Null}]
  /\ prev \in [Nodes -> Nodes \cup {Null}]
  /\ status \in [Tasks -> Status]
  /\ cpuid \in [Tasks -> Cpus \cup {Null}]
  /\ top \in [Cpus -> Guards] /\ topSub \in [Cpus -> Guards]
  /\ bottom \in [Cpus -> Nodes] /\ bottomSub \in [Cpus -> Nodes]
  /\ state \in [Cpus -> TaskQueueState]
  /\ pc \in [Cpus -> RunLabels]
  /\ cur \in [Cpus -> Tasks \cup {Null}]
  /\ rmTask \in [Clients -> Tasks \cup {Null}]
  /\ rmCpu \in [Clients -> Cpus \cup {Null}]
  /\ panic \in BOOLEAN

\* No kassert of Run(), Register() and Remove() ever fails: the lists end
\* where bottom and bottom_sub say, a task found in a list is waiting, and
\* Run() finds the state it left.
NoKassertFails == ~panic

\* Every guard is the head of one list.
ListHeads ==
  \A c, d \in Cpus :
    /\ top[c] # topSub[d]
    /\ top[c] = top[d] => c = d
    /\ topSub[c] = topSub[d] => c = d

\* in[t] is the guard of the list that task t is in, or Null.
Membership == [Tasks -> Guards \cup {Null}]

ListOf(in, n) == IF n \in Tasks THEN in[n] ELSE n

\* A task is in a list exactly when it is kWaitingInQueue, in one of its CPU.
MembersAreWaiting(in) ==
  \A t \in Tasks :
    /\ in[t] # Null <=> status[t] = "kWaitingInQueue"
    /\ in[t] # Null => /\ cpuid[t] \in Cpus
                       /\ in[t] \in {top[cpuid[t]], topSub[cpuid[t]]}

\* Both directions of the links agree and stay inside one list.
LinksAgree(in) ==
  /\ \A t \in Tasks : in[t] # Null =>
       /\ prev[t] # Null
       /\ ListOf(in, prev[t]) = in[t]
       /\ next[prev[t]] = t
  /\ \A n \in Nodes : ListOf(in, n) # Null /\ next[n] # Null =>
       /\ in[next[n]] = ListOf(in, n)
       /\ prev[next[n]] = n

\* bottom and bottom_sub are the only ends of their lists.
BottomsAreLast(in) ==
  \A c \in Cpus :
    /\ ListOf(in, bottom[c]) = top[c]
    /\ ListOf(in, bottomSub[c]) = topSub[c]
    /\ \A n \in Nodes :
         /\ ListOf(in, n) = top[c] => (next[n] = Null <=> n = bottom[c])
         /\ ListOf(in, n) = topSub[c] => (next[n] = Null <=> n = bottomSub[c])

\* Every task is in at most one list of its own CPU, is in one exactly when
\* its status says so, and the lists are properly doubly linked: what every
\* interleaving of Register(), Remove() and Run() must preserve.
WellFormed(in) ==
  MembersAreWaiting(in) /\ LinksAgree(in) /\ BottomsAreLast(in)

QueuesWellFormed == ListHeads /\ \E in \in Membership : WellFormed(in)

\* A CPU has a task in hand exactly while it executes it, and a task with
\* status kRunning is in the hands of exactly one CPU, the one it was
\* registered on: the handler of a task never runs twice at the same time.
RunningIsInHand ==
  /\ \A c \in Cpus : /\ cur[c] # Null <=> pc[c] \in {"execute", "finish"}
                     /\ cur[c] # Null => cpuid[cur[c]] = c
  /\ \A t \in Tasks : status[t] = "kRunning" => \E c \in Cpus : cur[c] = t

\* The state of a CPU follows Run(): what the two assertions on it rely on.
StateFollowsRun ==
  \A c \in Cpus :
    state[c] \in CASE pc[c] = "notStarted" -> {"kNotStarted"}
                   [] pc[c] = "wake" -> {"kNotRunning", "kSlept"}
                   [] pc[c] = "sleep" -> {"kSlept"}
                   [] OTHER -> {"kRunning"}

\* The tasks that wait on each CPU, in the order of its two lists.
fifo ==
  [c \in Cpus |-> Chain(next, Null, top[c], Cardinality(Tasks))
                    \o Chain(next, Null, topSub[c], Cardinality(Tasks))]

Fifo == INSTANCE TaskFifo WITH running <- cur

\* The two lists of a CPU, one after the other, are one queue in the order of
\* registration: Run() drains the first before it swaps them, and Remove()
\* takes out its task and nothing else.
ImplementsTaskFifo == Fifo!Spec
=============================================================================
