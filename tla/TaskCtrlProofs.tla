--------------------------- MODULE TaskCtrlProofs ---------------------------
(***************************************************************************)
(* Theorems about TaskCtrl, for any number of CPUs, tasks and threads that *)
(* call Remove(): the lists are always well formed, no assertion of        *)
(* TaskCtrl ever fails and no task is executed by two CPUs at once -       *)
(* provided that every task is registered on one CPU only.                 *)
(***************************************************************************)
EXTENDS TaskCtrl, ListLemmas

\* The guards are no tasks, and nothing is confused with nullptr.
LEMMA NodeFacts ==
  /\ Tasks \cap Guards = {}
  /\ Nodes = Tasks \cup Guards
  /\ Null \notin Tasks /\ Null \notin Guards /\ Null \notin Cpus
  /\ \A t \in Tasks : Home[t] \subseteq Cpus
  BY TaskCtrlAssumption DEF Nodes

LEMMA GuardFacts ==
  \A c \in Cpus : /\ <<c, 1>> \in Guards /\ <<c, 2>> \in Guards
                  /\ \A d \in Cpus : <<c, 1>> # <<d, 2>>
                  /\ \A d \in Cpus : <<c, 1>> = <<d, 1>> => c = d
                  /\ \A d \in Cpus : <<c, 2>> = <<d, 2>> => c = d
  BY DEF Guards

\* The type invariant holds in every reachable state.
THEOREM TypeCorrect == Spec => []TypeOK
<1> USE NodeFacts
<1>1. Init => TypeOK
  <2>1. ASSUME Init
        PROVE  /\ top \in [Cpus -> Guards] /\ topSub \in [Cpus -> Guards]
               /\ bottom \in [Cpus -> Guards] /\ bottomSub \in [Cpus -> Guards]
    BY <2>1, GuardFacts DEF Init, Setup
  <2>2. ASSUME Init
        PROVE  /\ next \in [Nodes -> Tasks \cup {Null}]
               /\ prev \in [Nodes -> Nodes \cup {Null}]
    BY <2>2 DEF Init, Setup
  <2>3. ASSUME Init PROVE state \in [Cpus -> TaskQueueState]
    BY <2>3 DEF Init, Setup, TaskQueueState
  <2>4. ASSUME Init
        PROVE  /\ status \in [Tasks -> Status]
               /\ pc \in [Cpus -> RunLabels]
               /\ cpuid \in [Tasks -> Cpus \cup {Null}]
               /\ cur \in [Cpus -> Tasks \cup {Null}]
               /\ rmTask \in [Clients -> Tasks \cup {Null}]
               /\ rmCpu \in [Clients -> Cpus \cup {Null}]
    BY <2>4 DEF Init, Status, RunLabels
  <2>5. ASSUME Init PROVE panic \in BOOLEAN
    BY <2>5 DEF Init
  <2> QED
    BY <2>1, <2>2, <2>3, <2>4, <2>5 DEF TypeOK
<1>2. TypeOK /\ [Next]_vars => TypeOK'
  <2> SUFFICES ASSUME TypeOK, [Next]_vars PROVE TypeOK'
    OBVIOUS
  <2> USE DEF TypeOK, Goto, queues, links, removers, TaskQueueState, Status,
              RunLabels
  <2>1. ASSUME Panic PROVE TypeOK'
    BY <2>1 DEF Panic
  <2>2. ASSUME NEW c \in Cpus, NEW t \in Tasks, AppendToSub(c, t)
        PROVE  /\ next' \in [Nodes -> Tasks \cup {Null}]
               /\ prev' \in [Nodes -> Nodes \cup {Null}]
               /\ status' \in [Tasks -> Status]
               /\ cpuid' \in [Tasks -> Cpus \cup {Null}]
               /\ bottomSub' \in [Cpus -> Nodes]
               /\ UNCHANGED <<top, bottom, topSub>>
    BY <2>2 DEF AppendToSub
  <2>3. ASSUME NEW t \in Tasks, NEW c \in Home[t], Register(c, t)
        PROVE  TypeOK'
    BY <2>2, <2>3 DEF Register, RegisterBody
  <2>4. ASSUME NEW k \in Clients, NEW t \in Tasks, RemoveEnter(k, t)
        PROVE  TypeOK'
    BY <2>4 DEF RemoveEnter
  <2>5. ASSUME NEW c, NEW t \in Tasks, prev[t] # Null, Unlink(c, t)
        PROVE  /\ next' \in [Nodes -> Tasks \cup {Null}]
               /\ prev' \in [Nodes -> Nodes \cup {Null}]
               /\ bottom' \in [Cpus -> Nodes]
               /\ bottomSub' \in [Cpus -> Nodes]
    BY <2>5 DEF Unlink
  <2>6. ASSUME NEW k \in Clients, RemoveLocked(k) PROVE TypeOK'
    BY <2>1, <2>5, <2>6 DEF RemoveLocked, RemoveReturn, CanUnlink
  <2>7. ASSUME NEW c \in Cpus, RunEnter(c) PROVE TypeOK'
    BY <2>7 DEF RunEnter
  <2>8. ASSUME NEW c \in Cpus, RunWake(c) PROVE TypeOK'
    BY <2>1, <2>8 DEF RunWake
  <2>9. ASSUME NEW c \in Cpus, RunCallout(c) PROVE TypeOK'
    BY <2>2, <2>9 DEF RunCallout, RegisterBody
  <2>10. ASSUME NEW c \in Cpus, RunPop(c) PROVE TypeOK'
    <3>1. CASE Panic
      BY <2>1, <3>1
    <3>2. CASE /\ Goto(c, "pop", "check")
               /\ UNCHANGED <<queues, state, cur, removers, panic>>
      BY <3>2
    <3>3. CASE /\ next[top[c]] # Null
               /\ Goto(c, "pop", "execute")
               /\ PopFirst(c)
               /\ UNCHANGED <<cpuid, top, topSub, bottomSub, state, removers,
                              panic>>
      <4>1. next[top[c]] \in Tasks /\ next[next[top[c]]] \in Tasks \cup {Null}
        BY <3>3
      <4>2. /\ next' \in [Nodes -> Tasks \cup {Null}]
            /\ prev' \in [Nodes -> Nodes \cup {Null}]
        BY <4>1, <3>3 DEF PopFirst
      <4>3. /\ bottom' \in [Cpus -> Nodes]
            /\ status' \in [Tasks -> Status]
            /\ cur' \in [Cpus -> Tasks \cup {Null}]
        BY <4>1, <3>3 DEF PopFirst
      <4> QED
        BY <3>3, <4>2, <4>3
    <3> QED
      BY <2>10, <3>1, <3>2, <3>3 DEF RunPop
  <2>11. ASSUME NEW c \in Cpus, RunExecute(c) PROVE TypeOK'
    BY <2>11 DEF RunExecute
  <2>12. ASSUME NEW c \in Cpus, RunFinish(c) PROVE TypeOK'
    BY <2>12 DEF RunFinish
  <2>13. ASSUME NEW c \in Cpus, RunCheck(c) PROVE TypeOK'
    BY <2>13 DEF RunCheck
  <2>14. ASSUME NEW c \in Cpus, RunSleep(c) PROVE TypeOK'
    BY <2>1, <2>14 DEF RunSleep
  <2>15. CASE UNCHANGED vars
    BY <2>15 DEF vars
  <2> QED
    BY <2>3, <2>4, <2>6, <2>7, <2>8, <2>9, <2>10, <2>11, <2>12, <2>13, <2>14,
       <2>15 DEF Next, Run
<1> QED
  BY <1>1, <1>2, PTL DEF Spec

-----------------------------------------------------------------------------
(***************************************************************************)
(* The lists.  in is the witness of QueuesWellFormed: the list of each     *)
(* task.                                                                   *)
(***************************************************************************)

Listed(in) == in \in Membership /\ WellFormed(in)

\* Register() of a task that is in no list.
LEMMA AppendKeepsLists ==
  ASSUME TypeOK, ListHeads, NEW in, Listed(in),
         NEW c \in Cpus, NEW t \in Tasks,
         status[t] # "kWaitingInQueue", AppendToSub(c, t)
  PROVE  \E in2 : Listed(in2)'
<1> USE NodeFacts
<1> PICK g : g = topSub[c]
  OBVIOUS
<1> DEFINE in2 == [in EXCEPT ![t] = g]
<1>1. in2 \in Membership /\ in2[t] = g /\ in[t] = Null
  BY DEF TypeOK, Membership, Listed, WellFormed, MembersAreWaiting
<1>2. \A u \in Tasks \ {t} : in2[u] = in[u]
  BY DEF Membership, Listed
<1> HIDE DEF in2
<1> USE <1>1, <1>2
<1>3. MembersAreWaiting(in2)'
  BY DEF AppendToSub, MembersAreWaiting, Listed, WellFormed, TypeOK, Membership
<1>4. LinksAgree(in2)'
  <2> USE DEF AppendToSub, LinksAgree, Listed, WellFormed, TypeOK, Membership,
              ListOf
  <2>1. /\ bottomSub[c] \in Nodes /\ bottomSub[c] # t
        /\ ListOf(in, bottomSub[c]) = g /\ next[bottomSub[c]] = Null
    BY DEF BottomsAreLast
  <2>2. ASSUME NEW u \in Tasks, in2[u] # Null
        PROVE  /\ prev'[u] # Null
               /\ ListOf(in2, prev'[u]) = in2[u]
               /\ next'[prev'[u]] = u
    BY <2>1, <2>2
  <2>3. ASSUME NEW n \in Nodes, ListOf(in2, n) # Null, next'[n] # Null
        PROVE  /\ in2[next'[n]] = ListOf(in2, n)
               /\ prev'[next'[n]] = n
    <3>1. n # t
      BY <2>1, <2>3
    <3>2. CASE n = bottomSub[c]
      BY <2>1, <2>3, <3>1, <3>2
    <3>3. CASE n # bottomSub[c]
      <4>1. next'[n] = next[n] /\ ListOf(in2, n) = ListOf(in, n)
        BY <2>3, <3>1, <3>3
      <4>2. next[n] \in Tasks /\ in[next[n]] = ListOf(in, n) /\ prev[next[n]] = n
        BY <2>3, <4>1
      <4>3. next[n] # t
        BY <2>3, <4>1, <4>2
      <4> QED BY <2>3, <3>1, <4>1, <4>2, <4>3
    <3> QED BY <3>2, <3>3
  <2> QED
    BY <2>2, <2>3
<1>5. BottomsAreLast(in2)'
  BY DEF AppendToSub, LinksAgree, BottomsAreLast, MembersAreWaiting, Listed,
     WellFormed, TypeOK, Membership, ListOf, ListHeads
<1> QED
  BY <1>3, <1>4, <1>5 DEF Listed, WellFormed

\* Taking a task out of its list, wherever in the list it is.
LEMMA UnlinkKeepsLists ==
  ASSUME TypeOK, ListHeads, NEW in, Listed(in),
         NEW c \in Cpus, NEW t \in Tasks, in[t] # Null, cpuid[t] = c,
         Unlink(c, t), UNCHANGED <<cpuid, top, topSub>>,
         NEW s, s # "kWaitingInQueue", status' = [status EXCEPT ![t] = s]
  PROVE  \E in2 : Listed(in2)'
<1> USE NodeFacts
<1> DEFINE in2 == [in EXCEPT ![t] = Null]
<1>1. in2 \in Membership /\ in2[t] = Null
  BY DEF Membership, Listed
<1>2. \A u \in Tasks \ {t} : in2[u] = in[u]
  BY DEF Membership, Listed
<1>3. in[t] \in {top[c], topSub[c]} /\ in[t] \in Guards
  BY DEF Listed, WellFormed, MembersAreWaiting, TypeOK
<1> HIDE DEF in2
<1> USE <1>1, <1>2, <1>3
<1>4. MembersAreWaiting(in2)'
  BY DEF Unlink, MembersAreWaiting, Listed, WellFormed, TypeOK, Membership
<1>5. LinksAgree(in2)'
  <2> USE DEF Unlink, LinksAgree, Listed, WellFormed, TypeOK, Membership, ListOf
  <2>1. prev[t] # Null /\ prev[t] \in Nodes /\ prev[t] # t /\ next[t] # t
    BY DEF MembersAreWaiting
  <2>2. ASSUME NEW u \in Tasks, in2[u] # Null
        PROVE  /\ prev'[u] # Null
               /\ ListOf(in2, prev'[u]) = in2[u]
               /\ next'[prev'[u]] = u
    BY <2>1, <2>2
  <2>3. ASSUME NEW n \in Nodes, ListOf(in2, n) # Null, next'[n] # Null
        PROVE  /\ in2[next'[n]] = ListOf(in2, n)
               /\ prev'[next'[n]] = n
    BY <2>1, <2>3
  <2> QED
    BY <2>2, <2>3
<1>6. BottomsAreLast(in2)'
  BY DEF Unlink, LinksAgree, BottomsAreLast, MembersAreWaiting, Listed,
     WellFormed, TypeOK, Membership, ListOf, ListHeads
<1> QED
  BY <1>4, <1>5, <1>6 DEF Listed, WellFormed

\* What leaves the links, the heads and the set of waiting tasks alone leaves
\* the lists well formed.
LEMMA SameLists ==
  ASSUME NEW in, Listed(in),
         UNCHANGED <<next, prev, cpuid, top, bottom, topSub, bottomSub>>,
         \A t \in Tasks : status'[t] = "kWaitingInQueue"
                           <=> status[t] = "kWaitingInQueue"
  PROVE  \E in2 : Listed(in2)'
<1>1. Listed(in)'
  BY DEF Listed, WellFormed, MembersAreWaiting, LinksAgree, BottomsAreLast,
     ListOf, Membership
<1> QED
  BY <1>1

\* Swapping the two lists of a CPU.
LEMMA SwapKeepsLists ==
  ASSUME TypeOK, ListHeads, NEW in, Listed(in), NEW c \in Cpus,
         top' = [top EXCEPT ![c] = topSub[c]],
         topSub' = [topSub EXCEPT ![c] = top[c]],
         bottom' = [bottom EXCEPT ![c] = bottomSub[c]],
         bottomSub' = [bottomSub EXCEPT ![c] = bottom[c]],
         UNCHANGED <<next, prev, status, cpuid>>
  PROVE  ListHeads' /\ \E in2 : Listed(in2)'
<1>1. ListHeads'
  BY DEF ListHeads, TypeOK
<1>2. MembersAreWaiting(in)'
  BY DEF Listed, WellFormed, MembersAreWaiting, TypeOK
<1>3. LinksAgree(in)'
  BY DEF Listed, WellFormed, LinksAgree, ListOf
<1>4. BottomsAreLast(in)'
  BY DEF Listed, WellFormed, BottomsAreLast, ListOf, TypeOK
<1> QED
  BY <1>1, <1>2, <1>3, <1>4 DEF Listed, WellFormed, Membership

-----------------------------------------------------------------------------
(***************************************************************************)
(* The invariant.                                                          *)
(***************************************************************************)

\* The users of a task register it on one CPU.
Affinity == \A t \in Tasks : \A c, d \in Home[t] : c = d

\* The _cpuid that Remove() read before it took the lock is still the CPU of
\* the task, whatever happened to the task in between.
CpuIsHome ==
  /\ \A t \in Tasks : cpuid[t] # Null => cpuid[t] \in Home[t]
  /\ \A k \in Clients : rmTask[k] # Null =>
       rmCpu[k] # Null /\ rmCpu[k] = cpuid[rmTask[k]]

\* NoKassertFails is not inductive: an assertion holds because the lists are
\* well formed, because Run() left the state it expects, and because Remove()
\* works on the lists of the CPU that the task is in.
TaskCtrlInv ==
  /\ NoKassertFails
  /\ ListHeads
  /\ \E in : Listed(in)
  /\ RunningIsInHand
  /\ StateFollowsRun
  /\ CpuIsHome

LEMMA InvInit == Init => TaskCtrlInv
<1> SUFFICES ASSUME Init PROVE TaskCtrlInv
  OBVIOUS
<1> USE NodeFacts
<1>1. ListHeads
  BY GuardFacts DEF Init, Setup, ListHeads
<1>2. \E in : Listed(in)
  <2> DEFINE in == [t \in Tasks |-> Null]
  <2>1. MembersAreWaiting(in) /\ LinksAgree(in)
    BY DEF Init, Setup, MembersAreWaiting, LinksAgree, ListOf
  <2>2. BottomsAreLast(in)
    BY GuardFacts DEF Init, Setup, BottomsAreLast, ListOf
  <2> QED
    BY <2>1, <2>2 DEF Listed, Membership, WellFormed
<1>3. RunningIsInHand
  BY DEF Init, Setup, RunningIsInHand
<1>4. StateFollowsRun
  BY DEF Init, Setup, StateFollowsRun
<1>5. CpuIsHome
  BY DEF Init, CpuIsHome
<1> QED
  BY <1>1, <1>2, <1>3, <1>4, <1>5 DEF TaskCtrlInv, NoKassertFails, Init

\* What the body of Register() preserves, whoever calls it.
LEMMA RegisterBodyKeepsInv ==
  ASSUME Affinity, TypeOK, TaskCtrlInv, NEW t \in Tasks, NEW c \in Home[t],
         RegisterBody(c, t), UNCHANGED <<cur, removers>>
  PROVE  /\ ListHeads'
         /\ (\E in : Listed(in))'
         /\ CpuIsHome'
         /\ \A d \in Cpus : cur[d] # Null => cpuid'[cur[d]] = d
         /\ \A u \in Tasks : status'[u] = "kRunning" =>
              \E d \in Cpus : cur[d] = u
<1> USE NodeFacts
<1>1. c \in Cpus
  OBVIOUS
<1>2. PICK in : Listed(in)
  BY DEF TaskCtrlInv
<1>3. CASE status[t] = "kWaitingInQueue"
  <2>1. UNCHANGED queues
    BY <1>3 DEF RegisterBody
  <2>2. (\E in2 : Listed(in2))'
    BY <1>2, <2>1, SameLists DEF queues, links
  <2> QED
    BY <2>1, <2>2 DEF TaskCtrlInv, RunningIsInHand, ListHeads, CpuIsHome,
       queues, links, removers
<1>4. CASE status[t] # "kWaitingInQueue"
  <2>1. AppendToSub(c, t)
    BY <1>4 DEF RegisterBody
  <2>2. (\E in2 : Listed(in2))'
    BY <1>1, <1>2, <1>4, <2>1, AppendKeepsLists DEF TaskCtrlInv
  <2>3. ListHeads'
    BY <2>1 DEF TaskCtrlInv, ListHeads, AppendToSub
  <2>4. \A d \in Cpus : cur[d] = t => d = c
    BY DEF Affinity, TaskCtrlInv, RunningIsInHand, CpuIsHome, TypeOK
  <2>5. \A d \in Cpus : cur[d] # Null => cpuid'[cur[d]] = d
    BY <2>1, <2>4 DEF AppendToSub, TaskCtrlInv, RunningIsInHand, TypeOK
  <2>6. \A u \in Tasks : status'[u] = "kRunning" => \E d \in Cpus : cur[d] = u
    BY <2>1 DEF AppendToSub, TaskCtrlInv, RunningIsInHand, TypeOK
  <2>7. CpuIsHome'
    BY <1>1, <2>1 DEF AppendToSub, TaskCtrlInv, CpuIsHome, TypeOK, Affinity,
       removers
  <2> QED
    BY <2>2, <2>3, <2>5, <2>6, <2>7
<1> QED
  BY <1>3, <1>4

\* The assertions of Remove() hold for a task that waits.
LEMMA WaitingCanBeUnlinked ==
  ASSUME TypeOK, TaskCtrlInv, NEW t \in Tasks, status[t] = "kWaitingInQueue"
  PROVE  CanUnlink(cpuid[t], t)
<1> PICK in : Listed(in)
  BY DEF TaskCtrlInv
<1> QED
  BY NodeFacts DEF Listed, WellFormed, MembersAreWaiting, LinksAgree,
     BottomsAreLast, CanUnlink, ListOf, TypeOK, TaskCtrlInv, ListHeads

\* The assertions of Run() hold when it takes the first task, and taking it
\* is unlinking it.
LEMMA FirstCanBeTaken ==
  ASSUME TypeOK, TaskCtrlInv, NEW c \in Cpus
  PROVE  /\ CanPop(c)
         /\ LET t == next[top[c]]
            IN  t # Null => /\ t \in Tasks
                            /\ cpuid[t] = c
                            /\ status[t] = "kWaitingInQueue"
                            /\ prev[t] = top[c]
                            /\ bottomSub[c] # t
                            /\ bottom[c] = t <=> next[t] = Null
<1> USE NodeFacts
<1> PICK in : Listed(in)
  BY DEF TaskCtrlInv
<1> DEFINE t == next[top[c]]
<1>1. top[c] \in Guards /\ top[c] \in Nodes /\ ListOf(in, top[c]) = top[c]
  BY DEF TypeOK, ListOf
<1>2. CASE t = Null
  BY <1>1, <1>2 DEF Listed, WellFormed, BottomsAreLast, CanPop, TypeOK
<1>3. CASE t # Null
  <2>1. t \in Tasks /\ in[t] = top[c] /\ prev[t] = top[c]
    BY <1>1, <1>3 DEF TypeOK, Listed, WellFormed, LinksAgree
  <2>2. status[t] = "kWaitingInQueue" /\ cpuid[t] = c
    BY <1>1, <2>1 DEF Listed, WellFormed, MembersAreWaiting, TypeOK,
       TaskCtrlInv, ListHeads
  <2>3. bottom[c] = t <=> next[t] = Null
    BY <2>1 DEF Listed, WellFormed, BottomsAreLast, ListOf
  <2>4. bottomSub[c] # t
    BY <2>1 DEF Listed, WellFormed, BottomsAreLast, ListOf, TaskCtrlInv,
       ListHeads
  <2> QED
    BY <1>3, <2>1, <2>2, <2>3, <2>4 DEF CanPop
<1> QED
  BY <1>2, <1>3

\* The steps that touch neither the lists nor Remove()'s variables.
LEMMA QuietSteps ==
  ASSUME TypeOK, TaskCtrlInv, UNCHANGED <<queues, removers>>
  PROVE  ListHeads' /\ (\E in : Listed(in))' /\ CpuIsHome'
<1> PICK in : Listed(in)
  BY DEF TaskCtrlInv
<1> QED
  BY SameLists DEF TaskCtrlInv, ListHeads, CpuIsHome, queues, links, removers

LEMMA InvNext ==
  ASSUME Affinity
  PROVE  TypeOK /\ TaskCtrlInv /\ [Next]_vars => TaskCtrlInv'
<1> SUFFICES ASSUME TypeOK, TaskCtrlInv, [Next]_vars PROVE TaskCtrlInv'
  OBVIOUS
<1> USE NodeFacts
<1> PICK in : Listed(in)
  BY DEF TaskCtrlInv
<1>1. ASSUME NEW t \in Tasks, NEW c \in Home[t], Register(c, t), ~panic
      PROVE  TaskCtrlInv'
  <2>1. RegisterBody(c, t) /\ UNCHANGED <<cur, removers>>
    BY <1>1 DEF Register
  <2>2. UNCHANGED <<state, pc, cur, panic>>
    BY <1>1 DEF Register
  <2>3. RunningIsInHand'
    BY <2>1, <2>2, RegisterBodyKeepsInv DEF TaskCtrlInv, RunningIsInHand
  <2>4. StateFollowsRun' /\ NoKassertFails'
    BY <2>2 DEF TaskCtrlInv, StateFollowsRun, NoKassertFails
  <2> QED
    BY <2>1, <2>3, <2>4, RegisterBodyKeepsInv DEF TaskCtrlInv
<1>2. ASSUME NEW k \in Clients, NEW t \in Tasks, RemoveEnter(k, t)
      PROVE  TaskCtrlInv'
  <2>1. CpuIsHome'
    BY <1>2 DEF TaskCtrlInv, CpuIsHome, RemoveEnter, TypeOK, queues
  <2>2. (\E in2 : Listed(in2))'
    BY <1>2, SameLists DEF RemoveEnter, queues, links
  <2> QED
    BY <1>2, <2>1, <2>2 DEF TaskCtrlInv, RemoveEnter, queues, NoKassertFails,
       ListHeads, RunningIsInHand, StateFollowsRun
<1>3. ASSUME NEW k \in Clients, RemoveLocked(k) PROVE TaskCtrlInv'
  <2> DEFINE t == rmTask[k]
             c == rmCpu[k]
  <2>1. t \in Tasks /\ c \in Cpus /\ cpuid[t] = c
    BY <1>3 DEF RemoveLocked, TaskCtrlInv, CpuIsHome, TypeOK
  <2>2. status[t] = "kWaitingInQueue" => CanUnlink(c, t)
    BY <2>1, WaitingCanBeUnlinked
  <2>3. /\ status' = [status EXCEPT ![t] = "kOutOfQueue"]
        /\ RemoveReturn(k)
        /\ UNCHANGED <<cpuid, top, topSub, state, pc, cur, panic>>
    BY <1>3, <2>2 DEF RemoveLocked
  <2>4. (\E in2 : Listed(in2))'
    <3>1. CASE status[t] = "kWaitingInQueue"
      <4>1. Unlink(c, t)
        BY <1>3, <2>2, <3>1 DEF RemoveLocked
      <4>2. in[t] # Null
        BY <2>1, <3>1 DEF Listed, WellFormed, MembersAreWaiting
      <4> QED
        BY <2>1, <2>3, <4>1, <4>2, UnlinkKeepsLists DEF TaskCtrlInv
    <3>2. CASE status[t] # "kWaitingInQueue"
      <4>1. UNCHANGED <<next, prev, bottom, bottomSub>>
        BY <1>3, <3>2 DEF RemoveLocked, links
      <4> QED
        BY <2>1, <2>3, <3>2, <4>1, SameLists DEF TypeOK
    <3> QED
      BY <3>1, <3>2
  <2>5. CpuIsHome'
    BY <2>1, <2>3 DEF TaskCtrlInv, CpuIsHome, RemoveReturn, TypeOK
  <2>6. RunningIsInHand'
    BY <2>1, <2>3 DEF TaskCtrlInv, RunningIsInHand, TypeOK
  <2>7. ListHeads' /\ StateFollowsRun' /\ NoKassertFails'
    BY <2>3 DEF TaskCtrlInv, ListHeads, StateFollowsRun, NoKassertFails
  <2> QED
    BY <2>4, <2>5, <2>6, <2>7 DEF TaskCtrlInv
<1>4. ASSUME NEW c \in Cpus, RunEnter(c), ~panic PROVE TaskCtrlInv'
  <2>1. UNCHANGED <<queues, cur, removers, panic>>
    BY <1>4 DEF RunEnter
  <2>2. RunningIsInHand' /\ StateFollowsRun'
    BY <1>4, <2>1 DEF RunEnter, Goto, TaskCtrlInv, RunningIsInHand, TypeOK,
       StateFollowsRun, queues
  <2> QED
    BY <2>1, <2>2, QuietSteps DEF TaskCtrlInv, NoKassertFails
<1>5. ASSUME NEW c \in Cpus, RunWake(c), ~panic PROVE TaskCtrlInv'
  <2>1. pc[c] = "wake" /\ state[c] \in {"kNotRunning", "kSlept"}
    BY <1>5 DEF RunWake, Goto, TaskCtrlInv, StateFollowsRun
  <2>2. UNCHANGED <<queues, cur, removers, panic>>
    BY <1>5, <2>1 DEF RunWake
  <2>3. RunningIsInHand' /\ StateFollowsRun'
    BY <1>5, <2>1, <2>2 DEF RunWake, Goto, TaskCtrlInv, RunningIsInHand, TypeOK,
       StateFollowsRun, queues
  <2> QED
    BY <2>2, <2>3, QuietSteps DEF TaskCtrlInv, NoKassertFails
<1>6. ASSUME NEW c \in Cpus, RunCallout(c), ~panic PROVE TaskCtrlInv'
  <2>1. UNCHANGED <<state, cur, removers, panic>>
    BY <1>6 DEF RunCallout
  <2>2. StateFollowsRun'
    BY <1>6, <2>1 DEF RunCallout, Goto, TaskCtrlInv, TypeOK, StateFollowsRun
  <2>3. \A d \in Cpus : pc'[d] \in {"execute", "finish"}
                         <=> pc[d] \in {"execute", "finish"}
    BY <1>6 DEF RunCallout, Goto, TypeOK
  <2>4. CASE UNCHANGED queues
    <3>1. RunningIsInHand'
      BY <2>1, <2>3, <2>4 DEF TaskCtrlInv, RunningIsInHand, queues
    <3> QED
      BY <2>1, <2>2, <2>4, <3>1, QuietSteps DEF TaskCtrlInv, NoKassertFails
  <2>5. CASE \E t \in Tasks : c \in Home[t] /\ RegisterBody(c, t)
    <3>1. PICK t \in Tasks : c \in Home[t] /\ RegisterBody(c, t)
      BY <2>5
    <3>2. RunningIsInHand'
      BY <2>1, <2>3, <3>1, RegisterBodyKeepsInv DEF TaskCtrlInv, RunningIsInHand
    <3> QED
      BY <2>1, <2>2, <3>1, <3>2, RegisterBodyKeepsInv
         DEF TaskCtrlInv, NoKassertFails
  <2> QED
    BY <1>6, <2>4, <2>5 DEF RunCallout
<1>7. ASSUME NEW c \in Cpus, RunPop(c), ~panic PROVE TaskCtrlInv'
  <2> DEFINE t == next[top[c]]
  <2>1. CanPop(c)
    BY FirstCanBeTaken
  <2>2. CASE t = Null
    <3>1. Goto(c, "pop", "check") /\ UNCHANGED <<queues, state, cur, removers, panic>>
      BY <1>7, <2>1, <2>2 DEF RunPop
    <3>2. RunningIsInHand' /\ StateFollowsRun'
      BY <3>1 DEF Goto, TaskCtrlInv, RunningIsInHand, TypeOK, StateFollowsRun,
         queues
    <3> QED
      BY <3>1, <3>2, QuietSteps DEF TaskCtrlInv, NoKassertFails
  <2>3. CASE t # Null
    <3>1. /\ Goto(c, "pop", "execute") /\ PopFirst(c)
          /\ UNCHANGED <<cpuid, top, topSub, bottomSub, state, removers, panic>>
      BY <1>7, <2>1, <2>3 DEF RunPop
    <3>2. /\ t \in Tasks /\ cpuid[t] = c /\ status[t] = "kWaitingInQueue"
          /\ prev[t] = top[c] /\ bottomSub[c] # t
          /\ bottom[c] = t <=> next[t] = Null
      BY <2>3, FirstCanBeTaken
    <3>3. in[t] # Null
      BY <3>2 DEF Listed, WellFormed, MembersAreWaiting
    <3>4. Unlink(c, t)
      BY <3>1, <3>2 DEF PopFirst, Unlink, TypeOK
    <3>5. status' = [status EXCEPT ![t] = "kRunning"] /\ cur' = [cur EXCEPT ![c] = t]
      BY <3>1 DEF PopFirst
    <3>6. (\E in2 : Listed(in2))'
      BY <3>1, <3>2, <3>3, <3>4, <3>5, UnlinkKeepsLists DEF TaskCtrlInv
    <3>7. RunningIsInHand'
      BY <3>1, <3>2, <3>5 DEF Goto, TaskCtrlInv, RunningIsInHand, TypeOK
    <3>8. StateFollowsRun'
      BY <3>1 DEF Goto, TaskCtrlInv, StateFollowsRun, TypeOK
    <3>9. ListHeads' /\ CpuIsHome' /\ NoKassertFails'
      BY <3>1 DEF TaskCtrlInv, ListHeads, CpuIsHome, NoKassertFails, removers
    <3> QED
      BY <3>6, <3>7, <3>8, <3>9 DEF TaskCtrlInv
  <2> QED
    BY <2>2, <2>3
<1>8. ASSUME NEW c \in Cpus, RunExecute(c), ~panic PROVE TaskCtrlInv'
  <2>1. UNCHANGED <<queues, state, cur, removers, panic>>
    BY <1>8 DEF RunExecute
  <2>2. RunningIsInHand' /\ StateFollowsRun'
    BY <1>8, <2>1 DEF RunExecute, Goto, TaskCtrlInv, RunningIsInHand, TypeOK,
       StateFollowsRun, queues
  <2> QED
    BY <2>1, <2>2, QuietSteps DEF TaskCtrlInv, NoKassertFails
<1>9. ASSUME NEW c \in Cpus, RunFinish(c), ~panic PROVE TaskCtrlInv'
  <2>1. UNCHANGED <<links, cpuid, top, bottom, topSub, bottomSub, state,
                    removers, panic>>
    BY <1>9 DEF RunFinish
  <2>2. cur[c] \in Tasks
    BY <1>9 DEF RunFinish, Goto, TaskCtrlInv, RunningIsInHand, TypeOK
  <2>3. (\E in2 : Listed(in2))'
    BY <1>9, <2>1, <2>2, SameLists DEF RunFinish, links, TypeOK
  <2>4. RunningIsInHand'
    BY <1>9, <2>1, <2>2 DEF RunFinish, Goto, TaskCtrlInv, RunningIsInHand, TypeOK
  <2>5. StateFollowsRun'
    BY <1>9, <2>1 DEF RunFinish, Goto, TaskCtrlInv, StateFollowsRun, TypeOK
  <2>6. ListHeads' /\ CpuIsHome' /\ NoKassertFails'
    BY <2>1 DEF TaskCtrlInv, ListHeads, CpuIsHome, NoKassertFails, removers
  <2> QED
    BY <2>3, <2>4, <2>5, <2>6 DEF TaskCtrlInv
<1>10. ASSUME NEW c \in Cpus, RunCheck(c), ~panic PROVE TaskCtrlInv'
  <2>1. UNCHANGED <<cur, removers, panic>>
    BY <1>10 DEF RunCheck
  <2>2. CASE next[top[c]] = Null /\ next[topSub[c]] = Null
    <3>1. UNCHANGED queues
      BY <1>10, <2>2 DEF RunCheck
    <3>2. RunningIsInHand' /\ StateFollowsRun'
      BY <1>10, <2>1, <2>2, <3>1 DEF RunCheck, Goto, TaskCtrlInv,
         RunningIsInHand, TypeOK, StateFollowsRun, queues
    <3> QED
      BY <2>1, <3>1, <3>2, QuietSteps DEF TaskCtrlInv, NoKassertFails
  <2>3. CASE ~(next[top[c]] = Null /\ next[topSub[c]] = Null)
    <3>1. /\ Goto(c, "check", "pop")
          /\ top' = [top EXCEPT ![c] = topSub[c]]
          /\ topSub' = [topSub EXCEPT ![c] = top[c]]
          /\ bottom' = [bottom EXCEPT ![c] = bottomSub[c]]
          /\ bottomSub' = [bottomSub EXCEPT ![c] = bottom[c]]
          /\ UNCHANGED <<next, prev, status, cpuid, state>>
      BY <1>10, <2>3 DEF RunCheck, links
    <3>2. ListHeads' /\ (\E in2 : Listed(in2))'
      BY <3>1, SwapKeepsLists DEF TaskCtrlInv
    <3>3. RunningIsInHand' /\ StateFollowsRun'
      BY <2>1, <3>1 DEF Goto, TaskCtrlInv, RunningIsInHand, TypeOK,
         StateFollowsRun
    <3>4. CpuIsHome' /\ NoKassertFails'
      BY <2>1, <3>1 DEF TaskCtrlInv, CpuIsHome, NoKassertFails, removers
    <3> QED
      BY <3>2, <3>3, <3>4 DEF TaskCtrlInv
  <2> QED
    BY <2>2, <2>3
<1>11. ASSUME NEW c \in Cpus, RunSleep(c), ~panic PROVE TaskCtrlInv'
  <2>1. pc[c] = "sleep" /\ state[c] = "kSlept"
    BY <1>11 DEF RunSleep, Goto, TaskCtrlInv, StateFollowsRun
  <2>2. UNCHANGED <<queues, cur, removers, panic>>
    BY <1>11, <2>1 DEF RunSleep
  <2>3. RunningIsInHand' /\ StateFollowsRun'
    BY <1>11, <2>1, <2>2 DEF RunSleep, Goto, TaskCtrlInv, RunningIsInHand,
       TypeOK, StateFollowsRun, queues
  <2> QED
    BY <2>2, <2>3, QuietSteps DEF TaskCtrlInv, NoKassertFails
<1>12. CASE UNCHANGED vars
  <2>1. RunningIsInHand' /\ StateFollowsRun' /\ NoKassertFails'
    BY <1>12 DEF vars, queues, TaskCtrlInv, RunningIsInHand, StateFollowsRun,
       NoKassertFails
  <2> QED
    BY <1>12, <2>1, QuietSteps DEF vars, TaskCtrlInv
<1> QED
  BY <1>1, <1>2, <1>3, <1>4, <1>5, <1>6, <1>7, <1>8, <1>9, <1>10, <1>11,
     <1>12 DEF Next, Run

LEMMA InvCorrect == ASSUME Affinity PROVE Spec => []TaskCtrlInv
  BY InvInit, InvNext, TypeCorrect, PTL DEF Spec

\* No assertion of Register(), Remove() and Run() ever fails when every task
\* is registered on one CPU only (the run TaskCtrlMigrate shows that it takes
\* this assumption).
THEOREM KassertsHold == ASSUME Affinity PROVE Spec => []NoKassertFails
  BY InvCorrect, PTL DEF TaskCtrlInv

\* Every interleaving of Register(), Remove() and Run() leaves two properly
\* linked lists per CPU that hold exactly the waiting tasks.
THEOREM ListsAreWellFormed == ASSUME Affinity PROVE Spec => []QueuesWellFormed
<1>1. TaskCtrlInv => QueuesWellFormed
  BY DEF TaskCtrlInv, Listed, QueuesWellFormed
<1> QED
  BY <1>1, InvCorrect, PTL

\* The handler of a task is never executed by two CPUs at the same time, and
\* a task marked kRunning is being executed.
THEOREM NeverTwiceAtOnce == ASSUME Affinity PROVE Spec => []RunningIsInHand
  BY InvCorrect, PTL DEF TaskCtrlInv

\* The two assertions of Run() on the state of its CPU hold.
THEOREM StateIsRight == ASSUME Affinity PROVE Spec => []StateFollowsRun
  BY InvCorrect, PTL DEF TaskCtrlInv

-----------------------------------------------------------------------------
(***************************************************************************)
(* The refinement.  QueuesWellFormed looks at one link at a time; that the *)
(* links make one finite list behind every guard, which has every waiting  *)
(* task, is preserved by every step as well.                               *)
(***************************************************************************)

Lists(nx, lists) ==
  /\ nx \in [Nodes -> Tasks \cup {Null}]
  /\ lists \in [Guards -> Seq(Tasks)]
  /\ \A g \in Guards : IsChain(nx, Null, g, lists[g])

WaitingAreIn(st, lists) ==
  \A t \in Tasks : st[t] = "kWaitingInQueue" =>
    \E g \in Guards : t \in Members(lists[g])

\* Run() swaps the lists of its CPU when the one it has worked on is empty.
DrainedBeforeSwap ==
  \A c \in Cpus : pc[c] = "check" => next[top[c]] = Null

FifoInv ==
  /\ DrainedBeforeSwap
  /\ \E lists : Lists(next, lists) /\ WaitingAreIn(status, lists)

AreHeads(tp) == tp \in [Cpus -> Guards]

\* What the lists amount to for TaskFifo, in terms of the links and of the
\* sequences that they make.
FifoOf(nx, tp, tps) ==
  [c \in Cpus |-> Chain(nx, Null, tp[c], Cardinality(Tasks))
                    \o Chain(nx, Null, tps[c], Cardinality(Tasks))]

Joined(lists, tp, tps) == [c \in Cpus |-> lists[tp[c]] \o lists[tps[c]]]

LEMMA FifoIs ==
  ASSUME NEW nx, NEW tp, NEW tps, NEW lists,
         Lists(nx, lists), AreHeads(tp), AreHeads(tps)
  PROVE  FifoOf(nx, tp, tps) = Joined(lists, tp, tps)
<1>1. Cardinality(Tasks) \in Nat
  BY TaskCtrlAssumption, FS_CardinalityType
<1>2. ASSUME NEW g \in Guards
      PROVE  Chain(nx, Null, g, Cardinality(Tasks)) = lists[g]
  <2>1. lists[g] \in Seq(Tasks) /\ IsChain(nx, Null, g, lists[g])
    BY DEF Lists
  <2>2. Len(lists[g]) <= Cardinality(Tasks)
    BY <2>1, TaskCtrlAssumption, ChainIsShort
  <2>3. g \in DOMAIN nx /\ Tasks \subseteq DOMAIN nx
    BY DEF Nodes, Lists
  <2> QED BY <1>1, <2>1, <2>2, <2>3, ChainIs
<1> QED BY <1>2 DEF Joined, FifoOf, AreHeads

\* The task at every place of a list is one of that list.
LEMMA PlacesAreInTheList ==
  ASSUME TypeOK, NEW in, Listed(in), NEW lists, Lists(next, lists),
         NEW g \in Guards, NEW i \in 0 .. Len(lists[g])
  PROVE  ListOf(in, NodeAt(g, lists[g], i)) = g /\ NodeAt(g, lists[g], i) \in Nodes
<1> USE NodeFacts
<1> DEFINE s == lists[g]
           Bad == {k \in 0 .. Len(s) : ListOf(in, NodeAt(g, s, k)) # g}
<1>1. s \in Seq(Tasks) /\ IsChain(next, Null, g, s)
  BY DEF Lists
<1> HIDE DEF s
<1>2. \A k \in 0 .. Len(s) : NodeAt(g, s, k) \in Nodes
  BY <1>1 DEF NodeAt
<1>3. Bad = {}
  <2>1. SUFFICES ASSUME Bad # {} PROVE FALSE
    OBVIOUS
  <2>2. PICK k \in Bad : \A j \in Bad : k <= j
    <3>1. Bad \in SUBSET Nat
      BY <1>1
    <3> HIDE DEF Bad
    <3> QED BY <2>1, <3>1, LeastOf
  <2>3. k # 0
    BY <1>1 DEF NodeAt, ListOf
  <2>4. k - 1 \in 0 .. Len(s) - 1 /\ k - 1 \in 0 .. Len(s) /\ k - 1 \notin Bad
        /\ (k - 1) + 1 = k
    BY <1>1, <2>2, <2>3
  <2> DEFINE n == NodeAt(g, s, k - 1)
  <2>5. n \in Nodes /\ ListOf(in, n) = g
    BY <1>2, <2>4
  <2>6. next[n] = s[k] /\ s[k] # Null /\ s[k] \in Tasks /\ NodeAt(g, s, k) = s[k]
    BY <1>1, <2>3, <2>4 DEF IsChain, NodeAt
  <2> HIDE DEF n
  <2>7. in[s[k]] = g
    BY <2>5, <2>6 DEF Listed, WellFormed, LinksAgree
  <2> QED BY <2>2, <2>6, <2>7 DEF ListOf
<1> QED BY <1>2, <1>3 DEF s

LEMMA MembersAreListed ==
  ASSUME TypeOK, NEW in, Listed(in), NEW lists, Lists(next, lists),
         WaitingAreIn(status, lists)
  PROVE  /\ \A g \in Guards, t \in Tasks : t \in Members(lists[g]) <=> in[t] = g
         /\ \A g \in Guards : End(g, lists[g]) \in Nodes
                                /\ ListOf(in, End(g, lists[g])) = g
                                /\ next[End(g, lists[g])] = Null
<1> USE NodeFacts
<1>1. ASSUME NEW g \in Guards, NEW t \in Tasks, t \in Members(lists[g])
      PROVE  in[t] = g
  <2>1. lists[g] \in Seq(Tasks)
    BY DEF Lists
  <2>2. PICK i \in 1 .. Len(lists[g]) : t = lists[g][i]
    BY <1>1, <2>1 DEF Members
  <2>3. i \in 0 .. Len(lists[g]) /\ NodeAt(g, lists[g], i) = t
    BY <2>1, <2>2 DEF NodeAt
  <2> QED BY <2>3, PlacesAreInTheList DEF ListOf
<1>2. ASSUME NEW g \in Guards, NEW t \in Tasks, in[t] = g
      PROVE  t \in Members(lists[g])
  <2>1. status[t] = "kWaitingInQueue"
    BY <1>2 DEF Listed, WellFormed, MembersAreWaiting
  <2>2. PICK h \in Guards : t \in Members(lists[h])
    BY <2>1 DEF WaitingAreIn
  <2> QED BY <1>1, <1>2, <2>2
<1>3. ASSUME NEW g \in Guards
      PROVE  /\ End(g, lists[g]) \in Nodes /\ ListOf(in, End(g, lists[g])) = g
             /\ next[End(g, lists[g])] = Null
  <2>1. lists[g] \in Seq(Tasks) /\ IsChain(next, Null, g, lists[g])
    BY DEF Lists
  <2>2. Len(lists[g]) \in 0 .. Len(lists[g])
    BY <2>1
  <2> QED BY <2>1, <2>2, PlacesAreInTheList DEF End, IsChain
<1> QED BY <1>1, <1>2, <1>3

LEMMA FifoInvInit ==
  ASSUME Init
  PROVE  FifoInv /\ fifo = [c \in Cpus |-> << >>]
<1> USE NodeFacts
<1> DEFINE lists == [g \in Guards |-> << >>]
<1>1. Lists(next, lists)
  BY DEF Init, Setup, Lists, IsChain, End, NodeAt
<1>2. WaitingAreIn(status, lists)
  BY DEF Init, WaitingAreIn
<1>3. DrainedBeforeSwap
  BY DEF Init, DrainedBeforeSwap
<1>4. AreHeads(top) /\ AreHeads(topSub)
  BY GuardFacts DEF Init, Setup, AreHeads
<1>5. fifo = Joined(lists, top, topSub)
  <2> HIDE DEF lists
  <2>1. FifoOf(next, top, topSub) = Joined(lists, top, topSub)
    BY <1>1, <1>4, FifoIs
  <2> QED BY <2>1 DEF fifo, FifoOf
<1>6. fifo = [c \in Cpus |-> << >>]
  <2>1. \A c \in Cpus : lists[top[c]] \o lists[topSub[c]] = << >>
    BY <1>4 DEF AreHeads
  <2> HIDE DEF lists
  <2> QED BY <1>5, <2>1 DEF Joined
<1> HIDE DEF lists
<1> QED BY <1>1, <1>2, <1>3, <1>6 DEF FifoInv

\* The queues of the CPUs are their two lists, before and after a step.
LEMMA FifoIsJoined ==
  ASSUME TypeOK, NEW lists, Lists(next, lists)
  PROVE  /\ fifo = Joined(lists, top, topSub)
         /\ \A l2 : /\ Lists(next', l2) /\ AreHeads(top') /\ AreHeads(topSub')
                    => fifo' = Joined(l2, top', topSub')
<1>1. fifo = FifoOf(next, top, topSub) /\ fifo' = FifoOf(next', top', topSub')
  BY DEF fifo, FifoOf
<1>2. AreHeads(top) /\ AreHeads(topSub)
  BY DEF TypeOK, AreHeads
<1> QED BY <1>1, <1>2, FifoIs

\* What holds of a task that waits: it is at one place of one of the two lists
\* of its CPU, and prev leads to the place before.
LEMMA PlaceOfWaiting ==
  ASSUME TypeOK, NEW in, Listed(in), NEW lists, Lists(next, lists),
         WaitingAreIn(status, lists), NEW t \in Tasks, status[t] = "kWaitingInQueue"
  PROVE  /\ in[t] \in {top[cpuid[t]], topSub[cpuid[t]]} /\ in[t] \in Guards
         /\ cpuid[t] \in Cpus
         /\ \E i \in 1 .. Len(lists[in[t]]) :
              /\ lists[in[t]][i] = t
              /\ NodeAt(in[t], lists[in[t]], i - 1) = prev[t]
<1> USE NodeFacts
<1>1. /\ in[t] \in {top[cpuid[t]], topSub[cpuid[t]]} /\ in[t] \in Guards
      /\ cpuid[t] \in Cpus
  BY DEF Listed, WellFormed, MembersAreWaiting, TypeOK
<1> DEFINE g == in[t]
           s == lists[g]
<1>2. s \in Seq(Tasks) /\ IsChain(next, Null, g, s)
  BY <1>1 DEF Lists
<1>3. t \in Members(s)
  BY <1>1, MembersAreListed
<1> HIDE DEF s
<1>4. PICK i \in 1 .. Len(s) : s[i] = t
  BY <1>2, <1>3 DEF Members
<1>5. i - 1 \in 0 .. Len(s) - 1 /\ i - 1 \in 0 .. Len(s) /\ (i - 1) + 1 = i
  BY <1>2, <1>4
<1> DEFINE n == NodeAt(g, s, i - 1)
<1>6. n \in Nodes /\ ListOf(in, n) = g
  BY <1>1, <1>5, PlacesAreInTheList DEF s
<1>7. next[n] = t
  BY <1>2, <1>4, <1>5 DEF IsChain
<1> HIDE DEF n
<1>8. prev[t] = n
  BY <1>1, <1>6, <1>7 DEF Listed, WellFormed, LinksAgree
<1> QED BY <1>1, <1>4, <1>8 DEF n, s

\* Register() of a task that does not wait appends it to the queue.
LEMMA AppendIsEnqueue ==
  ASSUME TypeOK, TaskCtrlInv, NEW lists, Lists(next, lists), WaitingAreIn(status, lists),
         NEW c \in Cpus, NEW t \in Tasks,
         status[t] # "kWaitingInQueue", AppendToSub(c, t)
  PROVE  /\ \E l2 : Lists(next', l2) /\ WaitingAreIn(status', l2)
         /\ fifo' = [fifo EXCEPT ![c] = Append(@, t)]
         /\ \A d \in Cpus : next[top[d]] = Null => next'[top[d]] = Null
         /\ \A d \in Cpus : t \notin Members(fifo[d])
<1> USE NodeFacts
<1> PICK in : Listed(in)
  BY DEF TaskCtrlInv
<1> DEFINE g == topSub[c]
           s == lists[g]
           l2 == [lists EXCEPT ![g] = Append(s, t)]
<1>1. /\ g \in Guards /\ s \in Seq(Tasks) /\ IsChain(next, Null, g, s)
      /\ \A h \in Guards : lists[h] \in Seq(Tasks) /\ IsChain(next, Null, h, lists[h])
  BY DEF TypeOK, Lists
<1>2. /\ \A h \in Guards : t \notin Members(lists[h])
      /\ End(g, s) = bottomSub[c]
  <2>1. in[t] = Null
    BY DEF Listed, WellFormed, MembersAreWaiting
  <2>2. /\ End(g, s) \in Nodes /\ ListOf(in, End(g, s)) = g
        /\ next[End(g, s)] = Null
    BY <1>1, MembersAreListed
  <2>3. End(g, s) = bottomSub[c]
    BY <2>2 DEF Listed, WellFormed, BottomsAreLast
  <2> QED BY <2>1, <2>3, MembersAreListed
<1>3. ListOf(in, bottomSub[c]) = g /\ bottomSub[c] \in Nodes /\ bottomSub[c] # t
  <2>1. ListOf(in, bottomSub[c]) = g /\ bottomSub[c] \in Nodes
    BY DEF Listed, WellFormed, BottomsAreLast, TypeOK
  <2>2. in[t] = Null
    BY DEF Listed, WellFormed, MembersAreWaiting
  <2> QED BY <1>1, <2>1, <2>2 DEF ListOf
<1>4. /\ next' \in [Nodes -> Tasks \cup {Null}]
      /\ next'[bottomSub[c]] = t /\ next'[t] = Null
      /\ \A n \in Nodes \ {t, bottomSub[c]} : next'[n] = next[n]
      /\ top' = top /\ topSub' = topSub
  BY <1>3 DEF AppendToSub, TypeOK
<1>5. \A h \in Guards : Members(lists[h]) \subseteq Tasks /\ h \in Nodes
  BY <1>1, MembersOf
<1>6. IsChain(next', Null, g, Append(s, t))
  <2>1. t # Null /\ t # g /\ t \notin Members(s)
    BY <1>1, <1>2
  <2>2. next'[End(g, s)] = t /\ next'[t] = Null
    BY <1>2, <1>4
  <2>3. \A m \in ({g} \cup Members(s)) \ {End(g, s)} : next'[m] = next[m]
    BY <1>1, <1>2, <1>4, <1>5
  <2> HIDE DEF g, s
  <2> QED BY <1>1, <2>1, <2>2, <2>3, ChainGrows
<1>7. ASSUME NEW h \in Guards, h # g
      PROVE  IsChain(next', Null, h, lists[h])
  <2>1. bottomSub[c] # h /\ t # h
    BY <1>3, <1>7 DEF ListOf
  <2>2. bottomSub[c] \notin Members(lists[h])
    <3>1. \A u \in Members(lists[h]) : in[u] = h /\ u \in Tasks
      BY <1>5, MembersAreListed
    <3> QED BY <1>3, <1>7, <3>1 DEF ListOf
  <2>3. \A m \in {h} \cup Members(lists[h]) : next'[m] = next[m]
    BY <1>2, <1>4, <1>5, <2>1, <2>2
  <2> QED BY <1>1, <2>3, ChainStays
<1>8. /\ l2 \in [Guards -> Seq(Tasks)] /\ l2[g] = Append(s, t)
      /\ \A h \in Guards \ {g} : l2[h] = lists[h]
  BY <1>1 DEF Lists
<1> HIDE DEF l2
<1>9. Lists(next', l2)
  BY <1>4, <1>6, <1>7, <1>8 DEF Lists
<1>10. WaitingAreIn(status', l2)
  <2>1. ASSUME NEW u \in Tasks, status'[u] = "kWaitingInQueue"
        PROVE  \E h \in Guards : u \in Members(l2[h])
    <3>1. Members(l2[g]) = Members(s) \cup {t}
      BY <1>1, <1>8, MembersOf
    <3>2. CASE u = t
      BY <1>1, <3>1, <3>2
    <3>3. CASE u # t
      <4>1. status[u] = "kWaitingInQueue"
        BY <2>1, <3>3 DEF AppendToSub, TypeOK
      <4>2. PICK h \in Guards : u \in Members(lists[h])
        BY <4>1 DEF WaitingAreIn
      <4> QED BY <1>1, <1>8, <3>1, <4>2
    <3> QED BY <3>2, <3>3
  <2> QED BY <2>1 DEF WaitingAreIn
<1>11. fifo' = [fifo EXCEPT ![c] = Append(@, t)]
  <2>1. AreHeads(top) /\ AreHeads(topSub) /\ AreHeads(top') /\ AreHeads(topSub')
    BY <1>4 DEF TypeOK, AreHeads
  <2>2. fifo = Joined(lists, top, topSub) /\ fifo' = Joined(l2, top, topSub)
    BY <1>4, <1>9, <2>1, FifoIsJoined
  <2>3. \A d \in Cpus : top[d] \in Guards /\ topSub[d] \in Guards /\ top[d] # g
                        /\ (topSub[d] = g => d = c)
    BY <2>1 DEF AreHeads, TaskCtrlInv, ListHeads
  <2>4. \A d \in Cpus \ {c} : l2[top[d]] \o l2[topSub[d]] = lists[top[d]] \o lists[topSub[d]]
    BY <1>8, <2>3
  <2>5. l2[top[c]] \o l2[g] = Append(lists[top[c]] \o s, t)
    <3>1. l2[top[c]] = lists[top[c]] /\ lists[top[c]] \in Seq(Tasks)
      BY <1>1, <1>8, <2>3
    <3>2. \A a \in Seq(Tasks) : a \o Append(s, t) = Append(a \o s, t)
      <4> HIDE DEF s
      <4> QED BY <1>1, AppendAfterConcat
    <3> QED BY <1>8, <3>1, <3>2
  <2> QED BY <2>2, <2>4, <2>5 DEF Joined
<1>12. \A d \in Cpus : next[top[d]] = Null => next'[top[d]] = Null
  <2> TAKE d \in Cpus
  <2>1. top[d] \in Guards /\ top[d] # g
    BY DEF TypeOK, TaskCtrlInv, ListHeads
  <2>2. top[d] # bottomSub[c] /\ top[d] # t
    BY <1>3, <2>1 DEF ListOf
  <2> QED BY <1>4, <2>1, <2>2
<1>13. \A d \in Cpus : t \notin Members(fifo[d])
  <2> TAKE d \in Cpus
  <2>1. fifo[d] = lists[top[d]] \o lists[topSub[d]]
    <3>1. fifo = Joined(lists, top, topSub)
      BY FifoIsJoined
    <3> QED BY ONLY <3>1, d \in Cpus DEF Joined
  <2>2. top[d] \in Guards /\ topSub[d] \in Guards
    BY DEF TypeOK
  <2>3. Members(fifo[d]) = Members(lists[top[d]]) \cup Members(lists[topSub[d]])
    BY <1>1, <2>1, <2>2, MembersOfConcat
  <2> QED BY <1>2, <2>2, <2>3
<1> QED BY <1>9, <1>10, <1>11, <1>12, <1>13

\* Taking a task out of its list, wherever in the list it is, takes it out of
\* the queue; the task behind the guard of the first list is the first one.
LEMMA UnlinkIsRemove ==
  ASSUME TypeOK, TaskCtrlInv, NEW lists, Lists(next, lists),
         WaitingAreIn(status, lists),
         NEW c \in Cpus, NEW t \in Tasks, status[t] = "kWaitingInQueue",
         cpuid[t] = c, Unlink(c, t), UNCHANGED <<top, topSub>>,
         NEW st, st # "kWaitingInQueue", status' = [status EXCEPT ![t] = st]
  PROVE  /\ \E l2 : Lists(next', l2) /\ WaitingAreIn(status', l2)
         /\ \E i \in DOMAIN fifo[c] :
              /\ fifo[c][i] = t
              /\ fifo' = [fifo EXCEPT ![c] = Without(@, i)]
              /\ t = next[top[c]] => i = 1
         /\ fifo[c] \in Seq(Tasks)
         /\ \A d \in Cpus : next[top[d]] = Null => next'[top[d]] = Null
<1> USE NodeFacts
<1> PICK in : Listed(in)
  BY DEF TaskCtrlInv
<1> DEFINE g == in[t]
           s == lists[g]
<1>1. /\ g \in {top[c], topSub[c]} /\ g \in Guards
      /\ \E i \in 1 .. Len(s) : s[i] = t /\ NodeAt(g, s, i - 1) = prev[t]
  BY PlaceOfWaiting
<1>2. PICK i \in 1 .. Len(s) : s[i] = t /\ NodeAt(g, s, i - 1) = prev[t]
  BY <1>1
<1> DEFINE l2 == [lists EXCEPT ![g] = Without(s, i)]
<1>3. /\ s \in Seq(Tasks) /\ IsChain(next, Null, g, s)
      /\ \A h \in Guards : lists[h] \in Seq(Tasks) /\ IsChain(next, Null, h, lists[h])
                            /\ Members(lists[h]) \subseteq Tasks /\ h \in Nodes
  BY <1>1, MembersOf DEF Lists
<1>4. prev[t] \in Nodes /\ ListOf(in, prev[t]) = g /\ prev[t] # t
  <2>1. i - 1 \in 0 .. Len(s) /\ i \in 0 .. Len(s) /\ i - 1 # i
    BY <1>3
  <2>2. prev[t] \in Nodes /\ ListOf(in, prev[t]) = g
    BY <1>1, <1>2, <2>1, PlacesAreInTheList
  <2>3. NodeAt(g, s, i) = t
    BY <1>2 DEF NodeAt
  <2> HIDE DEF s, g
  <2> QED BY <1>2, <1>3, <2>1, <2>2, <2>3, ChainIsInjective
<1>5. /\ next' \in [Nodes -> Tasks \cup {Null}]
      /\ next'[prev[t]] = next[t] /\ next'[t] = Null
      /\ \A n \in Nodes \ {t, prev[t]} : next'[n] = next[n]
  BY <1>4 DEF Unlink, TypeOK
<1>6. IsChain(next', Null, g, Without(s, i))
  <2>1. next'[NodeAt(g, s, i - 1)] = next[s[i]]
    BY <1>2, <1>5
  <2>2. \A m \in ({g} \cup Members(s)) \ {s[i], NodeAt(g, s, i - 1)} :
          next'[m] = next[m]
    BY <1>1, <1>2, <1>3, <1>5
  <2> HIDE DEF s, g
  <2> QED BY <1>3, <2>1, <2>2, ChainShrinks
<1>7. ASSUME NEW h \in Guards, h # g
      PROVE  IsChain(next', Null, h, lists[h])
  <2>1. \A u \in Members(lists[h]) : in[u] = h /\ u \in Tasks
    BY <1>3, MembersAreListed
  <2>2. \A m \in {h} \cup Members(lists[h]) :
          m \in Nodes /\ m # t /\ m # prev[t]
    BY <1>3, <1>4, <1>7, <2>1 DEF ListOf
  <2>3. \A m \in {h} \cup Members(lists[h]) : next'[m] = next[m]
    BY <1>5, <2>2
  <2> QED BY <1>3, <2>3, ChainStays
<1>8. /\ l2 \in [Guards -> Seq(Tasks)] /\ l2[g] = Without(s, i)
      /\ \A h \in Guards \ {g} : l2[h] = lists[h]
  <2>1. Without(s, i) \in Seq(Tasks)
    BY <1>3, WithoutIs
  <2> QED BY <1>1, <2>1 DEF Lists
<1> HIDE DEF l2
<1>9. Lists(next', l2)
  BY <1>5, <1>6, <1>7, <1>8 DEF Lists
<1>10. WaitingAreIn(status', l2)
  <2>1. Members(l2[g]) = Members(s) \ {t}
    <3> HIDE DEF s, g
    <3> QED BY <1>2, <1>3, <1>8, MembersWithout
  <2>2. ASSUME NEW u \in Tasks, status'[u] = "kWaitingInQueue"
        PROVE  \E h \in Guards : u \in Members(l2[h])
    <3>1. u # t /\ status[u] = "kWaitingInQueue"
      BY <2>2 DEF TypeOK
    <3>2. PICK h \in Guards : u \in Members(lists[h])
      BY <3>1 DEF WaitingAreIn
    <3> QED BY <1>1, <1>8, <2>1, <3>1, <3>2
  <2> QED BY <2>2 DEF WaitingAreIn
<1>11. /\ fifo = Joined(lists, top, topSub) /\ fifo' = Joined(l2, top, topSub)
       /\ \A d \in Cpus : top[d] \in Guards /\ topSub[d] \in Guards
  <2>1. AreHeads(top) /\ AreHeads(topSub) /\ AreHeads(top') /\ AreHeads(topSub')
    BY DEF TypeOK, AreHeads
  <2> QED BY <1>9, <2>1, FifoIsJoined DEF AreHeads
<1>12. \A d \in Cpus \ {c} : l2[top[d]] \o l2[topSub[d]] = lists[top[d]] \o lists[topSub[d]]
  <2>1. \A d \in Cpus \ {c} : top[d] # g /\ topSub[d] # g
    BY <1>1, <1>11 DEF TaskCtrlInv, ListHeads
  <2> QED BY <1>8, <1>11, <2>1
<1> DEFINE a == lists[top[c]]
           b == lists[topSub[c]]
<1>13. a \in Seq(Tasks) /\ b \in Seq(Tasks) /\ fifo[c] = a \o b
       /\ top[c] # topSub[c] /\ fifo[c] \in Seq(Tasks)
  <2>1. a \in Seq(Tasks) /\ b \in Seq(Tasks) /\ fifo[c] = a \o b
    BY <1>3, <1>11 DEF Joined
  <2>2. top[c] # topSub[c]
    BY DEF TaskCtrlInv, ListHeads
  <2> QED BY <2>1, <2>2, ConcatProperties
<1>14. ASSUME NEW j \in 1 .. Len(a \o b), (a \o b)[j] = t,
              l2[top[c]] \o l2[topSub[c]] = Without(a \o b, j),
              t = next[top[c]] => j = 1
       PROVE  \E k \in DOMAIN fifo[c] :
                /\ fifo[c][k] = t
                /\ fifo' = [fifo EXCEPT ![c] = Without(@, k)]
                /\ t = next[top[c]] => k = 1
  <2>1. j \in DOMAIN fifo[c] /\ fifo[c][j] = t
    <3> HIDE DEF a, b
    <3>1. DOMAIN fifo[c] = 1 .. Len(fifo[c]) /\ Len(fifo[c]) = Len(a \o b)
      BY <1>13
    <3> QED BY <1>13, <1>14, <3>1
  <2>2. fifo' = [fifo EXCEPT ![c] = Without(@, j)]
    <3> HIDE DEF a, b
    <3> QED BY <1>11, <1>12, <1>13, <1>14 DEF Joined
  <2> QED BY <1>14, <2>1, <2>2
<1>15. \E k \in DOMAIN fifo[c] :
         /\ fifo[c][k] = t
         /\ fifo' = [fifo EXCEPT ![c] = Without(@, k)]
         /\ t = next[top[c]] => k = 1
  <2>1. CASE g = top[c]
    <3>1. i \in 1 .. Len(a) /\ a[i] = t
      BY <1>2, <2>1
    <3>2. l2[top[c]] \o l2[topSub[c]] = Without(a, i) \o b
      BY <1>8, <1>11, <1>13, <2>1
    <3>3. /\ i \in 1 .. Len(a \o b) /\ (a \o b)[i] = t
          /\ Without(a \o b, i) = Without(a, i) \o b
      <4> HIDE DEF a, b
      <4>1. Without(a \o b, i) = Without(a, i) \o b
        BY <1>13, <3>1, WithoutInFirst
      <4>2. i \in 1 .. Len(a) + Len(b) /\ i <= Len(a)
        BY <1>13, <3>1
      <4> QED BY <1>13, <3>1, <4>1, <4>2, ConcatProperties
    <3>4. ASSUME t = next[top[c]] PROVE i = 1
      <4>1. s[1] = next[top[c]] /\ 1 \in 0 .. Len(s) /\ i \in 0 .. Len(s)
        <5>1. /\ Len(s) \in Nat /\ 0 \in 0 .. Len(s) - 1 /\ NodeAt(g, s, 0) = top[c]
              /\ 1 \in 0 .. Len(s) /\ i \in 0 .. Len(s)
          BY <1>2, <1>3, <2>1 DEF NodeAt
        <5>2. next[NodeAt(g, s, 0)] = s[0 + 1]
          BY <1>3, <5>1 DEF IsChain
        <5> QED BY <5>1, <5>2
      <4>2. NodeAt(g, s, 1) = NodeAt(g, s, i)
        BY <1>2, <3>4, <4>1 DEF NodeAt
      <4> HIDE DEF s, g
      <4> QED BY <1>3, <4>1, <4>2, ChainIsInjective
    <3> QED BY <1>14, <3>2, <3>3, <3>4
  <2>2. CASE g = topSub[c]
    <3>1. i \in 1 .. Len(b) /\ b[i] = t
      BY <1>2, <2>2
    <3>2. l2[top[c]] \o l2[topSub[c]] = a \o Without(b, i)
      BY <1>8, <1>11, <1>13, <2>2
    <3>3. /\ Len(a) + i \in 1 .. Len(a \o b) /\ (a \o b)[Len(a) + i] = t
          /\ Without(a \o b, Len(a) + i) = a \o Without(b, i)
      <4> HIDE DEF a, b
      <4>1. a \in Seq(Tasks) /\ b \in Seq(Tasks)
        BY <1>13
      <4>2. /\ Len(a) + i \in 1 .. Len(a \o b)
            /\ (a \o b)[Len(a) + i] = b[i]
            /\ Without(a \o b, Len(a) + i) = a \o Without(b, i)
        BY ONLY <3>1, <4>1, WithoutInSecond
      <4> QED BY <3>1, <4>2
    <3>4. t # next[top[c]]
      <4>1. next[top[c]] # Null => in[next[top[c]]] = top[c]
        BY <1>3, <1>11 DEF Listed, WellFormed, LinksAgree, ListOf
      <4> QED BY <1>13, <2>2, <4>1
    <3> QED BY <1>14, <3>2, <3>3, <3>4
  <2> QED BY <1>1, <2>1, <2>2
<1>16. \A d \in Cpus : next[top[d]] = Null => next'[top[d]] = Null
  <2> TAKE d \in Cpus
  <2> HAVE next[top[d]] = Null
  <2>1. top[d] \in Nodes /\ top[d] # t
    BY <1>3, <1>11
  <2>2. next[prev[t]] = t
    BY <1>1 DEF Listed, WellFormed, LinksAgree
  <2> QED BY <1>5, <2>1, <2>2
<1> QED BY <1>9, <1>10, <1>13, <1>15, <1>16

\* The steps that move no task.
LEMMA SameFifo ==
  ASSUME FifoInv, UNCHANGED <<next, top, topSub>>,
         \A t \in Tasks : status'[t] = "kWaitingInQueue"
                           => status[t] = "kWaitingInQueue"
  PROVE  /\ fifo' = fifo
         /\ \E lists : Lists(next', lists) /\ WaitingAreIn(status', lists)
<1>1. PICK lists : Lists(next, lists) /\ WaitingAreIn(status, lists)
  BY DEF FifoInv
<1>2. Lists(next', lists) /\ WaitingAreIn(status', lists)
  BY <1>1 DEF WaitingAreIn
<1> QED BY <1>2 DEF fifo

\* The body of Register(), whoever calls it.
LEMMA RegisterIsEnqueue ==
  ASSUME TypeOK, TaskCtrlInv, FifoInv, NEW t \in Tasks, NEW c \in Home[t],
         RegisterBody(c, t), cur' = cur,
         \A d \in Cpus : pc'[d] = "check" => pc[d] = "check"
  PROVE  FifoInv' /\ [Fifo!Next]_(Fifo!fifoVars)
<1> USE NodeFacts
<1>1. c \in Cpus
  OBVIOUS
<1>2. CASE status[t] = "kWaitingInQueue"
  <2>1. UNCHANGED queues
    BY <1>2 DEF RegisterBody
  <2>2. /\ fifo' = fifo
        /\ \E lists : Lists(next', lists) /\ WaitingAreIn(status', lists)
    BY <2>1, SameFifo DEF queues, links
  <2>3. DrainedBeforeSwap'
    BY <2>1 DEF FifoInv, DrainedBeforeSwap, queues, links
  <2> QED BY <2>2, <2>3 DEF FifoInv, Fifo!fifoVars
<1>3. CASE status[t] # "kWaitingInQueue"
  <2>1. AppendToSub(c, t)
    BY <1>3 DEF RegisterBody
  <2>2. PICK lists : Lists(next, lists) /\ WaitingAreIn(status, lists)
    BY DEF FifoInv
  <2>3. /\ \E l2 : Lists(next', l2) /\ WaitingAreIn(status', l2)
        /\ fifo' = [fifo EXCEPT ![c] = Append(@, t)]
        /\ \A d \in Cpus : next[top[d]] = Null => next'[top[d]] = Null
        /\ \A d \in Cpus : t \notin Members(fifo[d])
    BY <1>1, <1>3, <2>1, <2>2, AppendIsEnqueue
  <2>4. DrainedBeforeSwap'
    BY <2>1, <2>3 DEF FifoInv, DrainedBeforeSwap, AppendToSub
  <2>5. Fifo!Enqueue(c, t)
    BY <2>3 DEF Fifo!Enqueue, Fifo!Waiting, Fifo!Elements, Members
  <2> QED BY <2>3, <2>4, <2>5 DEF FifoInv, Fifo!Next
<1> QED BY <1>2, <1>3

LEMMA FifoNext ==
  ASSUME TypeOK, TaskCtrlInv, FifoInv, [Next]_vars
  PROVE  FifoInv' /\ [Fifo!Next]_(Fifo!fifoVars)
<1> USE NodeFacts
<1> PICK lists : Lists(next, lists) /\ WaitingAreIn(status, lists)
  BY DEF FifoInv
<1> DEFINE Goal == FifoInv' /\ [Fifo!Next]_(Fifo!fifoVars)
<1>1. ASSUME NEW t \in Tasks, NEW c \in Home[t], Register(c, t)
      PROVE  Goal
  BY <1>1, RegisterIsEnqueue DEF Register
<1>2. ASSUME UNCHANGED <<next, top, topSub, status, cur>>,
             \A d \in Cpus : pc'[d] = "check" =>
               pc[d] = "check" \/ next[top[d]] = Null
      PROVE  Goal
  <2>1. /\ fifo' = fifo
        /\ \E l2 : Lists(next', l2) /\ WaitingAreIn(status', l2)
    BY <1>2, SameFifo
  <2>2. DrainedBeforeSwap'
    BY <1>2 DEF FifoInv, DrainedBeforeSwap
  <2> QED BY <1>2, <2>1, <2>2 DEF FifoInv, Fifo!fifoVars
<1>3. ASSUME NEW k \in Clients, NEW t \in Tasks, RemoveEnter(k, t)
      PROVE  Goal
  BY <1>2, <1>3 DEF RemoveEnter, queues, links
<1>4. ASSUME NEW k \in Clients, RemoveLocked(k) PROVE Goal
  <2> DEFINE t == rmTask[k]
             c == rmCpu[k]
  <2>1. t \in Tasks /\ c \in Cpus /\ cpuid[t] = c
    BY <1>4 DEF RemoveLocked, TaskCtrlInv, CpuIsHome, TypeOK
  <2>2. status[t] = "kWaitingInQueue" => CanUnlink(c, t)
    BY <2>1, WaitingCanBeUnlinked
  <2>3. /\ status' = [status EXCEPT ![t] = "kOutOfQueue"]
        /\ UNCHANGED <<top, topSub, pc, cur>>
    BY <1>4, <2>2 DEF RemoveLocked
  <2>4. CASE status[t] = "kWaitingInQueue"
    <3>1. Unlink(c, t)
      BY <1>4, <2>2, <2>4 DEF RemoveLocked
    <3>2. /\ \E l2 : Lists(next', l2) /\ WaitingAreIn(status', l2)
          /\ \E i \in DOMAIN fifo[c] :
               /\ fifo[c][i] = t
               /\ fifo' = [fifo EXCEPT ![c] = Without(@, i)]
               /\ t = next[top[c]] => i = 1
          /\ \A d \in Cpus : next[top[d]] = Null => next'[top[d]] = Null
      BY <2>1, <2>3, <2>4, <3>1, UnlinkIsRemove
    <3>3. Fifo!Remove(t)
      BY <2>1, <2>3, <3>2 DEF Fifo!Remove, Fifo!Without, Without
    <3>4. DrainedBeforeSwap'
      BY <2>3, <3>2 DEF FifoInv, DrainedBeforeSwap
    <3> QED BY <2>1, <3>2, <3>3, <3>4 DEF FifoInv, Fifo!Next
  <2>5. CASE status[t] # "kWaitingInQueue"
    <3>1. UNCHANGED next
      BY <1>4, <2>5 DEF RemoveLocked, links
    <3>2. \A u \in Tasks : status'[u] = "kWaitingInQueue"
                            => status[u] = "kWaitingInQueue"
      BY <2>1, <2>3 DEF TypeOK
    <3>3. /\ fifo' = fifo
          /\ \E l2 : Lists(next', l2) /\ WaitingAreIn(status', l2)
      BY <2>3, <3>1, <3>2, SameFifo
    <3>4. DrainedBeforeSwap'
      BY <2>3, <3>1 DEF FifoInv, DrainedBeforeSwap
    <3> QED BY <2>3, <3>3, <3>4 DEF FifoInv, Fifo!fifoVars
  <2> QED BY <2>4, <2>5
<1>5. ASSUME NEW c \in Cpus, ~panic,
             RunEnter(c) \/ RunWake(c) \/ RunExecute(c) \/ RunSleep(c)
      PROVE  Goal
  <2>1. pc[c] = "wake" => state[c] \in {"kNotRunning", "kSlept"}
    BY DEF TaskCtrlInv, StateFollowsRun
  <2>2. pc[c] = "sleep" => state[c] = "kSlept"
    BY DEF TaskCtrlInv, StateFollowsRun
  <2>3. UNCHANGED <<next, top, topSub, status, cur>>
    BY <1>5, <2>1, <2>2 DEF RunEnter, RunWake, RunExecute, RunSleep, Panic, queues, links
  <2>4. \A d \in Cpus : pc'[d] = "check" => pc[d] = "check"
    BY <1>5, <2>1, <2>2 DEF RunEnter, RunWake, RunExecute, RunSleep, Panic, Goto, TypeOK
  <2> QED BY <1>2, <2>3, <2>4
<1>6. ASSUME NEW c \in Cpus, RunCallout(c) PROVE Goal
  <2>1. cur' = cur /\ \A d \in Cpus : pc'[d] = "check" => pc[d] = "check"
    BY <1>6 DEF RunCallout, Goto, TypeOK
  <2>2. CASE UNCHANGED queues
    BY <1>2, <2>1, <2>2 DEF queues, links
  <2>3. CASE \E t \in Tasks : c \in Home[t] /\ RegisterBody(c, t)
    BY <2>1, <2>3, RegisterIsEnqueue
  <2> QED BY <1>6, <2>2, <2>3 DEF RunCallout
<1>7. ASSUME NEW c \in Cpus, RunPop(c) PROVE Goal
  <2> DEFINE t == next[top[c]]
  <2>1. /\ CanPop(c)
        /\ t # Null => /\ t \in Tasks /\ cpuid[t] = c
                       /\ status[t] = "kWaitingInQueue" /\ prev[t] = top[c]
                       /\ bottomSub[c] # t
                       /\ bottom[c] = t <=> next[t] = Null
    BY FirstCanBeTaken
  <2>2. CASE t = Null
    <3>1. Goto(c, "pop", "check") /\ UNCHANGED <<queues, cur>>
      BY <1>7, <2>1, <2>2 DEF RunPop
    <3>2. \A d \in Cpus : pc'[d] = "check" => pc[d] = "check" \/ next[top[d]] = Null
      BY <2>2, <3>1 DEF Goto, TypeOK
    <3> QED BY <1>2, <3>1, <3>2 DEF queues, links
  <2>3. CASE t # Null
    <3>1. /\ Goto(c, "pop", "execute") /\ PopFirst(c)
          /\ UNCHANGED <<cpuid, top, topSub, bottomSub>>
      BY <1>7, <2>1, <2>3 DEF RunPop
    <3>2. Unlink(c, t)
      BY <2>1, <2>3, <3>1 DEF PopFirst, Unlink, TypeOK
    <3>3. status' = [status EXCEPT ![t] = "kRunning"] /\ cur' = [cur EXCEPT ![c] = t]
      BY <3>1 DEF PopFirst
    <3>4. /\ \E l2 : Lists(next', l2) /\ WaitingAreIn(status', l2)
          /\ \E i \in DOMAIN fifo[c] :
               /\ fifo[c][i] = t
               /\ fifo' = [fifo EXCEPT ![c] = Without(@, i)]
               /\ t = next[top[c]] => i = 1
          /\ fifo[c] \in Seq(Tasks)
          /\ \A d \in Cpus : next[top[d]] = Null => next'[top[d]] = Null
      <4> HIDE DEF t
      <4> QED BY <2>1, <2>3, <3>1, <3>2, <3>3, UnlinkIsRemove
    <3>5. fifo[c] # << >> /\ t = Head(fifo[c]) /\ fifo' = [fifo EXCEPT ![c] = Tail(@)]
      <4>1. 1 \in DOMAIN fifo[c] /\ fifo[c][1] = t
            /\ fifo' = [fifo EXCEPT ![c] = Without(@, 1)]
        BY <3>4
      <4>2. fifo[c] # << >>
        BY <4>1
      <4> QED BY <3>4, <4>1, <4>2, WithoutFirst
    <3>6. cur[c] = Null
      BY <3>1 DEF Goto, TaskCtrlInv, RunningIsInHand
    <3>7. Fifo!Dispatch(c)
      BY <3>3, <3>5, <3>6 DEF Fifo!Dispatch
    <3>8. DrainedBeforeSwap'
      BY <3>1, <3>4 DEF FifoInv, DrainedBeforeSwap, Goto, TypeOK
    <3> QED BY <3>4, <3>7, <3>8 DEF FifoInv, Fifo!Next
  <2> QED BY <2>2, <2>3
<1>8. ASSUME NEW c \in Cpus, RunFinish(c) PROVE Goal
  <2>1. UNCHANGED <<next, top, topSub>> /\ cur' = [cur EXCEPT ![c] = Null]
    BY <1>8 DEF RunFinish, links
  <2>2. cur[c] \in Tasks /\ cur[c] # Null
    BY <1>8 DEF RunFinish, Goto, TaskCtrlInv, RunningIsInHand, TypeOK
  <2>3. \A u \in Tasks : status'[u] = "kWaitingInQueue"
                          => status[u] = "kWaitingInQueue"
    BY <1>8, <2>2 DEF RunFinish, TypeOK
  <2>4. /\ fifo' = fifo
        /\ \E l2 : Lists(next', l2) /\ WaitingAreIn(status', l2)
    BY <2>1, <2>3, SameFifo
  <2>5. Fifo!Finish(c)
    BY <2>1, <2>2, <2>4 DEF Fifo!Finish
  <2>6. DrainedBeforeSwap'
    BY <1>8, <2>1 DEF RunFinish, FifoInv, DrainedBeforeSwap, Goto, TypeOK
  <2> QED BY <2>4, <2>5, <2>6 DEF FifoInv, Fifo!Next
<1>9. ASSUME NEW c \in Cpus, RunCheck(c) PROVE Goal
  <2>1. cur' = cur /\ pc[c] = "check" /\ next[top[c]] = Null
    BY <1>9 DEF RunCheck, Goto, FifoInv, DrainedBeforeSwap
  <2>2. \A d \in Cpus : pc'[d] = "check" => d # c /\ pc[d] = "check"
    BY <1>9 DEF RunCheck, Goto, TypeOK
  <2>3. CASE UNCHANGED queues
    BY <1>2, <2>1, <2>2, <2>3 DEF queues, links
  <2>4. CASE /\ top' = [top EXCEPT ![c] = topSub[c]]
             /\ topSub' = [topSub EXCEPT ![c] = top[c]]
             /\ UNCHANGED <<next, prev, status>>
    <3>1. DrainedBeforeSwap'
      BY <2>2, <2>4 DEF FifoInv, DrainedBeforeSwap, TypeOK
    <3>2. /\ top[c] \in Guards /\ topSub[c] \in Guards
          /\ lists[top[c]] \in Seq(Tasks) /\ lists[topSub[c]] \in Seq(Tasks)
          /\ IsChain(next, Null, top[c], lists[top[c]])
      BY DEF TypeOK, Lists
    <3>3. lists[top[c]] = << >>
      <4> DEFINE s == lists[top[c]]
      <4>1. s \in Seq(Tasks) /\ IsChain(next, Null, top[c], s)
        BY <3>2
      <4> HIDE DEF s
      <4>2. ASSUME Len(s) # 0 PROVE FALSE
        <5>1. Len(s) \in Nat /\ 0 \in 0 .. Len(s) - 1 /\ 1 \in 1 .. Len(s)
          BY <4>1, <4>2
        <5>2. next[NodeAt(top[c], s, 0)] = s[0 + 1] /\ s[1] # Null
          BY <4>1, <5>1 DEF IsChain
        <5>3. NodeAt(top[c], s, 0) = top[c] /\ 0 + 1 = 1
          BY DEF NodeAt
        <5> QED BY <2>1, <5>2, <5>3
      <4>3. s = << >>
        BY <4>1, <4>2
      <4> QED BY <4>3 DEF s
    <3>4. fifo = Joined(lists, top, topSub) /\ fifo' = Joined(lists, top', topSub')
      <4>1. AreHeads(top') /\ AreHeads(topSub')
        BY <2>4 DEF TypeOK, AreHeads
      <4>2. Lists(next', lists)
        BY <2>4
      <4> QED BY <4>1, <4>2, FifoIsJoined
    <3>5. lists[top'[c]] \o lists[topSub'[c]] = lists[top[c]] \o lists[topSub[c]]
      <4>1. top'[c] = topSub[c] /\ topSub'[c] = top[c]
        BY <2>4 DEF TypeOK
      <4> QED BY <3>2, <3>3, <4>1, ConcatEmptySeq
    <3>6. \A d \in Cpus \ {c} : top'[d] = top[d] /\ topSub'[d] = topSub[d]
      BY <2>4 DEF TypeOK
    <3>7. fifo' = fifo
      BY <3>4, <3>5, <3>6 DEF Joined
    <3>8. Lists(next', lists) /\ WaitingAreIn(status', lists)
      BY <2>4
    <3> QED BY <2>1, <3>1, <3>7, <3>8 DEF FifoInv, Fifo!fifoVars
  <2> QED BY <1>9, <2>3, <2>4 DEF RunCheck, links
<1>10. ASSUME UNCHANGED vars PROVE Goal
  BY <1>2, <1>10 DEF vars, queues, links
<1> QED
  <2> HIDE DEF Goal
  <2>1. ASSUME Next PROVE Goal
    <3>1. CASE \E t \in Tasks : \E c \in Home[t] : Register(c, t)
      BY <1>1, <3>1
    <3>2. CASE \E k \in Clients : \/ \E t \in Tasks : RemoveEnter(k, t)
                                 \/ RemoveLocked(k)
      BY <1>3, <1>4, <3>2
    <3>3. ASSUME NEW c \in Cpus, Run(c) PROVE Goal
      BY <1>5, <1>6, <1>7, <1>8, <1>9, <2>1, <3>3 DEF Next, Run
    <3> QED BY <2>1, <3>1, <3>2, <3>3 DEF Next
  <2>2. Next \/ UNCHANGED vars
    OBVIOUS
  <2>3. Goal
    BY <1>10, <2>1, <2>2
  <2> QED BY <2>3 DEF Goal

\* Each CPU executes the tasks registered on it in the order of registration,
\* whatever Register(), Remove() and the swap of the two lists do meanwhile.
THEOREM TaskCtrlRefinement == ASSUME Affinity PROVE Spec => ImplementsTaskFifo
<1>1. Init => FifoInv /\ Fifo!Init
  <2>1. Init => cur = [c \in Cpus |-> Null]
    BY DEF Init
  <2> QED BY <2>1, FifoInvInit DEF Fifo!Init
<1>2. TypeOK /\ TaskCtrlInv /\ FifoInv /\ [Next]_vars
      => FifoInv' /\ [Fifo!Next]_(Fifo!fifoVars)
  BY FifoNext
<1> QED
  BY <1>1, <1>2, TypeCorrect, InvCorrect, PTL
     DEF Spec, ImplementsTaskFifo, Fifo!Spec
=============================================================================
