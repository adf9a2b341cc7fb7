------------------------------- MODULE Callout -------------------------------
(***************************************************************************)
(* Callout and LckCallout of rlib/task.{h,cc}, with the callout list of    *)
(* TaskCtrl and the part of Run() that looks at it.  SetHandler() inserts  *)
(* a callout into the list of a CPU; Run(), before it turns to its tasks,  *)
(* moves the first one to the task queue if it is due within               *)
(* kTaskExecutionInterval; HandleSub() executes it or registers it again.  *)
(*                                                                         *)
(* A section under dlock, or under the lock of the task queue, is one      *)
(* step.  The lock of a callout, held across such sections, is explicit.   *)
(* Times are kept as the ticks left until they have passed, 0 at the end.  *)
(* Every callout is used on one CPU; the task queue is the one of TaskFifo.*)
(***************************************************************************)
EXTENDS Integers, Sequences

CONSTANTS
  Cpus,        \* the CPUs that execute Run(); also the guards dtop of their lists
  Callouts,    \* the Callout objects
  CpuOf,       \* the CPU that SetHandler() gets
  Lcks,        \* the callouts inside of an LckCallout with a lock
  Clients,     \* threads other than those of the CPUs
  Delays,      \* the arguments of SetHandler(), in ticks; us is an int
  Interval,    \* kTaskExecutionInterval, in ticks
  NullReads,   \* what a read through nullptr may do in a build
  Null         \* nullptr, and nobody

CalloutAssumption ==
  /\ CpuOf \in [Callouts -> Cpus]
  /\ Lcks \subseteq Callouts
  /\ Delays \subseteq Int /\ Interval \in Nat \ {0}
  /\ NullReads \subseteq {"fault", "value"}
  /\ Null \notin Callouts \cup Cpus \cup Clients
  /\ Callouts \cap (Cpus \cup Clients) = {} /\ Clients \cap Cpus = {}

Threads == Clients \cup Cpus

VARIABLES
  fifo, running,  \* the task queues of TaskFifo
  next,           \* _next of every callout and of the guard of every CPU
  left,           \* _time: the ticks until it has passed
  cstate,         \* _state
  lock,           \* the thread that holds a callout's _lock
  userLock,       \* the thread that holds the lock given to an LckCallout
  pending,        \* the state of a CPU is kNotRunning: it will look at its list
  due,            \* the callouts whose time is before the local time of Run()
  pc,             \* where each CPU is in Run() and HandleSub()
  call, arg,      \* where each thread is in SetHandler() or Cancel(), of what
  armed,          \* history: registered, and neither executed nor cancelled
  crossed,        \* history: a Cancel() has crossed HandleSub() without the lock
  fault           \* the program has followed a null pointer and ended

queue == <<fifo, running>>
cpuVars == <<pending, due, pc>>
history == <<armed, crossed>>
vars == <<queue, next, left, cstate, lock, userLock, cpuVars, call, arg,
          history, fault>>

Q == INSTANCE TaskFifo WITH Tasks <- Callouts,
                            Home <- [k \in Callouts |-> {CpuOf[k]}]

CalloutState == {"kCalloutQueue", "kTaskQueue", "kHandling", "kStopped"}
RunLabels == {"wake", "look", "move", "pop", "test", "again", "begin",
              "func", "stop", "return"}
CallLabels == {"no", "set", "insert", "cancel", "unlink", "remove", "stop",
               "unlock"}

Init ==
  /\ Q!Init
  /\ next = [n \in Callouts \cup Cpus |-> Null]
  /\ left = [k \in Callouts |-> 0]
  /\ cstate = [k \in Callouts |-> "kStopped"]
  /\ lock = [k \in Callouts |-> Null]
  /\ userLock = [k \in Callouts |-> Null]
  /\ pending = [c \in Cpus |-> TRUE]
  /\ due = [c \in Cpus |-> {}]
  /\ pc = [c \in Cpus |-> "wake"]
  /\ call = [x \in Threads |-> "no"]
  /\ arg = [x \in Threads |-> Null]
  /\ armed = [k \in Callouts |-> FALSE]
  /\ crossed = FALSE
  /\ fault = FALSE

(***************************************************************************)
(* SetHandler() and Cancel(), called by any thread.                        *)
(***************************************************************************)

\* Any thread: a client, the function of a callout, its own included, or
\* another task of a CPU.
MayCall(x) == call[x] = "no" /\ (x \in Cpus => pc[x] \in {"func", "pop"})

\* "Once registered, not again until it is executed or cancelled" (task.h).
MayArm(x, k) == /\ MayCall(x)
                /\ ~armed[k]
                /\ \A y \in Threads : ~(call[y] = "set" /\ arg[y] = k)

\* A client of an LckCallout holds its lock while it calls; its function
\* holds it already.
Enter(x, k, label) ==
  /\ call' = [call EXCEPT ![x] = label]
  /\ arg' = [arg EXCEPT ![x] = k]
  /\ IF k \in Lcks /\ x \in Clients
     THEN userLock[k] = Null /\ userLock' = [userLock EXCEPT ![k] = x]
     ELSE UNCHANGED userLock

SetHandler(x, k) ==
  /\ MayArm(x, k)
  /\ Enter(x, k, "set")
  /\ UNCHANGED <<queue, next, left, cstate, lock, cpuVars, history, fault>>

Cancel(x, k) ==
  /\ MayCall(x)
  /\ Enter(x, k, "cancel")
  /\ UNCHANGED <<queue, next, left, cstate, lock, cpuVars, history, fault>>

CallGoto(x, from, to) == call[x] = from /\ call' = [call EXCEPT ![x] = to]

Take(x) == /\ lock[arg[x]] = Null
           /\ lock' = [lock EXCEPT ![arg[x]] = x]

\* Run() has computed its local time earlier: it is not more than Interval
\* ahead, and may have passed.
SetDue(k, us) ==
  LET c == CpuOf[k]
  IN  \E before \in IF us < Interval THEN BOOLEAN ELSE {FALSE} :
        due' = [due EXCEPT ![c] = IF before THEN @ \cup {k} ELSE @ \ {k}]

TicksOf(us) == IF us < 0 THEN 0 ELSE us

SetTime(x) ==
  /\ CallGoto(x, "set", "insert")
  /\ Take(x)
  /\ \E us \in Delays : /\ left' = [left EXCEPT ![arg[x]] = TicksOf(us)]
                         /\ SetDue(arg[x], us)
  /\ armed' = [armed EXCEPT ![arg[x]] = TRUE]
  /\ UNCHANGED <<queue, next, cstate, userLock, pending, pc, arg, crossed,
                 fault>>

InsertFirst(c, k) == next' = [next EXCEPT ![c] = k, ![k] = next[c]]

\* The test for the end of the list is inverted: a callout that is not alone
\* becomes the first, whatever the times are.  On an empty list the time of
\* nullptr is read: where that gives a value, and it is the greater one, the
\* callout is inserted too.
RegisterCallout(x) ==
  LET k == arg[x]
      c == CpuOf[k]
  IN  /\ call[x] = "insert"
      /\ \E read \in IF next[c] = Null THEN NullReads ELSE {"value"} :
           IF read = "value"
           THEN /\ InsertFirst(c, k)
                /\ cstate' = [cstate EXCEPT ![k] = "kCalloutQueue"]
                /\ CallGoto(x, "insert", "unlock")
                /\ UNCHANGED fault
           ELSE fault' = TRUE /\ UNCHANGED <<next, cstate, call>>
      /\ UNCHANGED <<queue, left, lock, userLock, cpuVars, arg, history>>

Linked(k) == \E n \in DOMAIN next : next[n] = k

\* A CPU in HandleSub(), without the lock, that is going to call the function
\* of k or to register k again.
InHandle(c, k) == running[c] = k /\ pc[c] \in {"test", "again", "begin"}

\* CancelCallout() branches on _state.  HandleSub() may have overwritten that
\* of a callout which was set while its function was called: it is then left
\* in the list.
CancelSwitch(x) ==
  /\ CallGoto(x, "cancel", CASE cstate[arg[x]] = "kCalloutQueue" -> "unlink"
                             [] cstate[arg[x]] = "kTaskQueue"    -> "remove"
                             [] OTHER                            -> "stop")
  /\ Take(x)
  /\ crossed' = (crossed \/ (cstate[arg[x]] = "kStopped" /\ Linked(arg[x])))
  /\ UNCHANGED <<queue, next, left, cstate, userLock, cpuVars, arg, armed,
                 fault>>

\* Mutant: the predecessor keeps its link.
Unlink_KeepsLink(k) == next' = [next EXCEPT ![k] = Null]

\* The list has one link to k.  (A callout that Run() is moving may have an old
\* one, which it loses anyway; a list that links k twice, after a Cancel() that
\* has crossed HandleSub(), may be a circle, in which the search never ends.)
Unlink(k) ==
  next' = [n \in DOMAIN next |->
             IF n = k THEN Null ELSE IF next[n] = k THEN next[k] ELSE next[n]]

CancelUnlink(x) ==
  /\ CallGoto(x, "unlink", "stop")
  /\ Unlink(arg[x])
  /\ UNCHANGED <<queue, left, cstate, lock, userLock, cpuVars, arg, history,
                 fault>>

\* TaskCtrl::Remove(): a task that is being executed is left alone, and
\* HandleSub() goes on with it.
TakeOut(k) == IF Q!Waiting(k) THEN Q!Remove(k) ELSE UNCHANGED queue

CancelRemove(x) ==
  /\ CallGoto(x, "remove", "stop")
  /\ TakeOut(arg[x])
  /\ UNCHANGED <<next, left, cstate, lock, userLock, cpuVars, arg, history,
                 fault>>

CancelStop(x) ==
  LET k == arg[x]
  IN  /\ CallGoto(x, "stop", "unlock")
      /\ cstate' = [cstate EXCEPT ![k] = "kStopped"]
      /\ armed' = [armed EXCEPT ![k] = FALSE]
      /\ crossed' = (crossed \/ \E c \in Cpus : InHandle(c, k))
      /\ UNCHANGED <<queue, next, left, lock, userLock, cpuVars, arg, fault>>

\* Mutant: a path out of the function keeps the lock.
Release_Forgotten(x) == UNCHANGED lock

Release(x) == lock' = [lock EXCEPT ![arg[x]] = Null]

Return(x) ==
  /\ CallGoto(x, "unlock", "no")
  /\ Release(x)
  /\ userLock' = [userLock EXCEPT ![arg[x]] = IF @ = x /\ x \in Clients
                                              THEN Null ELSE @]
  /\ arg' = [arg EXCEPT ![x] = Null]
  /\ UNCHANGED <<queue, next, left, cstate, cpuVars, history, fault>>

CallStep(x) ==
  \/ SetTime(x) \/ RegisterCallout(x) \/ CancelSwitch(x) \/ CancelUnlink(x)
  \/ CancelRemove(x) \/ CancelStop(x) \/ Return(x)

(***************************************************************************)
(* Run(), as far as callouts are concerned.                                *)
(***************************************************************************)
Goto(c, from, to) == pc[c] = from /\ pc' = [pc EXCEPT ![c] = to]

RunWake(c) ==
  /\ Goto(c, "wake", IF pending[c] THEN "look" ELSE "pop")
  /\ due' = [due EXCEPT ![c] = {k \in Callouts : left[k] < Interval}]
  /\ UNCHANGED <<queue, next, left, cstate, lock, userLock, pending, call,
                 arg, history, fault>>

\* IsGreater(dtt->_time, time) ends the search.
RunLook(c) ==
  /\ Goto(c, "look", "pop")
  /\ next[c] \notin due[c]
  /\ UNCHANGED <<queue, next, left, cstate, lock, userLock, pending, due,
                 call, arg, history, fault>>

\* Trylock() of the first callout succeeds; until then Run() tries again.
RunUnlink(c) ==
  LET k == next[c]
  IN  /\ Goto(c, "look", "move")
      /\ k \in due[c]
      /\ lock[k] = Null
      /\ lock' = [lock EXCEPT ![k] = c]
      /\ arg' = [arg EXCEPT ![c] = k]
      /\ next' = [next EXCEPT ![c] = next[k]]
      /\ UNCHANGED <<queue, left, cstate, userLock, pending, due, call,
                     history, fault>>

\* What follows touches the callout under its lock only, until Unlock().
RunMove(c) ==
  LET k == arg[c]
  IN  /\ Goto(c, "move", "pop")
      /\ next' = [next EXCEPT ![k] = Null]
      /\ cstate' = [cstate EXCEPT ![k] = "kTaskQueue"]
      /\ Q!Register(c, k)
      /\ lock' = [lock EXCEPT ![k] = Null]
      /\ arg' = [arg EXCEPT ![c] = Null]
      /\ UNCHANGED <<left, userLock, pending, due, call, history, fault>>

RunPop(c) ==
  /\ Q!Dispatch(c)
  /\ Goto(c, "pop", "test")
  /\ UNCHANGED <<next, left, cstate, lock, userLock, pending, due, call,
                 arg, history, fault>>

\* Mutant: the CPU does not look at its list before it sleeps.
Pending_Never(c) == FALSE

\* The state of the CPU becomes kNotRunning again if callouts wait.
Pending(c) == next[c] # Null

RunSleep(c) ==
  /\ fifo[c] = <<>>
  /\ Goto(c, "pop", "wake")
  /\ pending' = [pending EXCEPT ![c] = Pending(c)]
  /\ UNCHANGED <<queue, next, left, cstate, lock, userLock, due, call,
                 arg, history, fault>>

(***************************************************************************)
(* HandleSub(), without the lock of the callout.                           *)
(***************************************************************************)

\* Mutant: a callout that is only due soon is executed at once.
IsTimePassed_AtHorizon(k) == left[k] < Interval

IsTimePassed(k) == left[k] = 0

HandleTest(c) ==
  /\ Goto(c, "test", IF IsTimePassed(running[c]) THEN "begin" ELSE "again")
  /\ UNCHANGED <<queue, next, left, cstate, lock, userLock, pending, due,
                 call, arg, history, fault>>

\* A Cancel() that has found the task running is going to write kStopped.
HandleAgain(c) ==
  /\ Goto(c, "again", "return")
  /\ Q!Register(c, running[c])
  /\ crossed' = (crossed \/ \E x \in Threads : call[x] = "stop" /\ arg[x] = running[c])
  /\ UNCHANGED <<next, left, cstate, lock, userLock, pending, due, call,
                 arg, armed, fault>>

\* The function is called; an LckCallout takes its lock first.
HandleBegin(c) ==
  LET k == running[c]
  IN  /\ Goto(c, "begin", "func")
      /\ cstate' = [cstate EXCEPT ![k] = "kHandling"]
      /\ IF k \in Lcks
         THEN userLock[k] = Null /\ userLock' = [userLock EXCEPT ![k] = c]
         ELSE UNCHANGED userLock
      /\ armed' = [armed EXCEPT ![k] = FALSE]
      /\ UNCHANGED <<queue, next, left, lock, pending, due, call, arg,
                     crossed, fault>>

HandleEnd(c) ==
  LET k == running[c]
  IN  /\ Goto(c, "func", "stop")
      /\ userLock' = [userLock EXCEPT ![k] = IF k \in Lcks THEN Null ELSE @]
      /\ UNCHANGED <<queue, next, left, cstate, lock, pending, due, call,
                     arg, history, fault>>

HandleStop(c) ==
  /\ Goto(c, "stop", "return")
  /\ cstate' = [cstate EXCEPT ![running[c]] = "kStopped"]
  /\ UNCHANGED <<queue, next, left, lock, userLock, pending, due, call,
                 arg, history, fault>>

HandleReturn(c) ==
  /\ Q!Finish(c)
  /\ Goto(c, "return", "pop")
  /\ UNCHANGED <<next, left, cstate, lock, userLock, pending, due, call,
                 arg, history, fault>>

\* A CPU goes on only when the function it executes is not inside a call.
CpuStep(c) ==
  /\ call[c] = "no"
  /\ \/ RunWake(c) \/ RunLook(c) \/ RunUnlink(c) \/ RunMove(c) \/ RunPop(c)
     \/ RunSleep(c) \/ HandleTest(c) \/ HandleAgain(c) \/ HandleBegin(c)
     \/ HandleEnd(c) \/ HandleStop(c) \/ HandleReturn(c)

Pred(n) == IF n = 0 THEN 0 ELSE n - 1

Tick ==
  /\ left' = [k \in Callouts |-> Pred(left[k])]
  /\ UNCHANGED <<queue, next, cstate, lock, userLock, cpuVars, call, arg,
                 history, fault>>

Next ==
  /\ ~fault
  /\ \/ \E x \in Threads : \/ \E k \in Callouts : SetHandler(x, k) \/ Cancel(x, k)
                           \/ CallStep(x)
     \/ \E c \in Cpus : CpuStep(c)
     \/ Tick

Spec == Init /\ [][Next]_vars

\* Time goes on, every CPU goes on with Run() and every function returns; a
\* thread that waits for a lock that is free again and again gets it.
FairSpec ==
  /\ Spec
  /\ WF_vars(~fault /\ Tick)
  /\ \A x \in Threads : SF_vars(~fault /\ CallStep(x))
  /\ \A c \in Cpus : SF_vars(~fault /\ CpuStep(c))

-----------------------------------------------------------------------------
\* The type invariant.
TypeOK ==
  /\ fifo \in [Cpus -> Seq(Callouts)]
  /\ running \in [Cpus -> Callouts \cup {Null}]
  /\ next \in [Callouts \cup Cpus -> Callouts \cup {Null}]
  /\ left \in [Callouts -> Nat]
  /\ cstate \in [Callouts -> CalloutState]
  /\ lock \in [Callouts -> Threads \cup {Null}]
  /\ userLock \in [Callouts -> Threads \cup {Null}]
  /\ pending \in [Cpus -> BOOLEAN]
  /\ due \in [Cpus -> SUBSET Callouts]
  /\ pc \in [Cpus -> RunLabels]
  /\ call \in [Threads -> CallLabels]
  /\ arg \in [Threads -> Callouts \cup {Null}]
  /\ armed \in [Callouts -> BOOLEAN] /\ crossed \in BOOLEAN
  /\ fault \in BOOLEAN

\* Where callout k can be found: behind a node of the list, in the task queue,
\* in the hands of Run() or HandleSub(), in a call that is going to insert it.
Places(k) ==
  {n \in Callouts \cup Cpus : next[n] = k /\ \A c \in Cpus : pc[c] = "move" => arg[c] # n}
    \cup {<<"queue", c>> : c \in {c \in Cpus : k \in Q!Elements(fifo[c])}}
    \cup {<<"moved", c>> : c \in {c \in Cpus : pc[c] = "move" /\ arg[c] = k}}
    \cup {<<"handled", c>> : c \in {c \in Cpus : InHandle(c, k)}}
    \cup {<<"call", x>> : x \in {x \in Threads : arg[x] = k /\ call[x] = "insert"}}

\* A callout is never linked or queued twice.
InOnePlaceAtMost == \A k \in Callouts : \A p, q \in Places(k) : p = q

\* "Until it is executed or cancelled": a callout that is registered is in one
\* place (but while Cancel() has taken it out and not yet returned), one that
\* is not registered is nowhere.
InPlaceIfRegistered ==
  \A k \in Callouts :
    /\ ~armed[k] => Places(k) = {}
    /\ armed[k] => Places(k) # {} \/ \E x \in Threads : call[x] = "stop" /\ arg[x] = k

\* HandleSub() calls the function of k: once for every SetHandler(), and not
\* after Cancel() has returned.
Executes(k) == cstate[k] # "kHandling" /\ cstate'[k] = "kHandling"

ExecutedOnlyIfRegistered == [][\A k \in Callouts : Executes(k) => armed[k]]_vars

\* A callout is in its one place whatever Run(), SetHandler() and Cancel() do at
\* the same time, until a Cancel() comes between two steps of HandleSub(), which
\* takes no lock, or after HandleSub() has overwritten the state of a callout
\* that was set again while its function was called.
RegisteredIsInOnePlace == ~crossed => InOnePlaceAtMost /\ InPlaceIfRegistered

\* Until then a function is called only if it is registered, and never before
\* its time, although Run() hands it to the task queue earlier.
OnTime == \A k \in Callouts : Executes(k) /\ ~crossed => left[k] = 0

OnlyRegistered == \A k \in Callouts : Executes(k) /\ ~crossed => armed[k]

\* SetHandler() and Cancel() return: a thread that holds a callout's lock and
\* wants dlock, and Run(), which holds dlock and wants the callout's lock, do
\* not wait for each other, nor for the lock of an LckCallout.  (As long as no
\* callout is linked twice: Cancel() may search a circle for ever.)
EveryCallReturns ==
  []~crossed => \A x \in Threads : call[x] # "no" ~> call[x] = "no"

\* A callout is executed (or cancelled), once the others stop being set.  (Not
\* so before: SetHandler() inserts in front of a list that is not empty, and
\* Run() looks at the first one only, so newer ones may keep it waiting.)
ExecutedOnceOthersAreQuiet ==
  []~crossed /\ <>[][\A k \in Callouts : armed'[k] => armed[k]]_vars
    => \A k \in Callouts : armed[k] ~> ~armed[k]

\* Registering a callout does not end the program.
NoNullPointerIsFollowed == ~fault
=============================================================================
