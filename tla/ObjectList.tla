----------------------------- MODULE ObjectList -----------------------------
(***************************************************************************)
(* ObjectList of rlib/list.h: a list that only grows.  PushBack() links a  *)
(* new container under the lock, which is abstract here (see SpinLock);    *)
(* the readers walk from GetBegin() through GetNext() and take no lock.    *)
(***************************************************************************)
EXTENDS LinkedList, SequencesExt

CONSTANTS
  Writers, Readers,  \* threads
  Containers,        \* the memory for containers
  First,             \* the sentinel _first
  Nullptr,
  Nobody             \* the owner of the free lock

ObjectListAssumption ==
  /\ First \notin Containers /\ Nullptr \notin Containers \cup {First}
  /\ Nobody \notin Writers
  /\ IsFiniteSet(Containers)

VARIABLES
  next,   \* of each container, First among them
  last,   \* _last
  made,   \* the containers that were allocated and have their object
  lock,   \* the owner of _lock
  pc, c,  \* of each writer in PushBack(), and its container
  at,     \* the container of each reader, Nullptr after the last
  seen,   \* history: the containers it came through
  owed    \* history: those whose PushBack() had returned when it began

vars == <<next, last, made, lock, pc, c, at, seen, owed>>

Nodes == Containers \cup {First}

Init ==
  /\ next = [n \in Nodes |-> Nullptr] /\ last = First /\ made = {}
  /\ lock = Nobody
  /\ pc = [t \in Writers |-> "idle"] /\ c = [t \in Writers |-> Nullptr]
  /\ at = [r \in Readers |-> Nullptr]
  /\ seen = [r \in Readers |-> <<>>] /\ owed = [r \in Readers |-> {}]

Goto(t, from, to) == pc[t] = from /\ pc' = [pc EXCEPT ![t] = to]

\* PushBack() makes the container and its object before it is linked.
Make(t) ==
  /\ Goto(t, "idle", "lock")
  /\ \E n \in Containers \ made :
       /\ made' = made \cup {n} /\ c' = [c EXCEPT ![t] = n]
       /\ next' = [next EXCEPT ![n] = Nullptr]
  /\ UNCHANGED <<last, lock, at, seen, owed>>

Lock(t) ==
  /\ lock = Nobody
  /\ Goto(t, "lock", "link") /\ lock' = t
  /\ UNCHANGED <<next, last, made, c, at, seen, owed>>

\* Mutant: linked after the sentinel.
Link_AtFront(t) ==
  /\ Goto(t, "link", "last")
  /\ next' = [next EXCEPT ![c[t]] = next[First], ![First] = c[t]]
  /\ UNCHANGED <<last, made, lock, c, at, seen, owed>>

\* kassert(_last->next == nullptr), and the container is linked.
Link(t) ==
  /\ Goto(t, "link", IF next[last] = Nullptr THEN "last" ELSE "failed")
  /\ next' = IF next[last] = Nullptr THEN [next EXCEPT ![last] = c[t]] ELSE next
  /\ UNCHANGED <<last, made, lock, c, at, seen, owed>>

NewLast(t) == c[t]

SetLast(t) ==
  /\ Goto(t, "last", "unlock") /\ last' = NewLast(t)
  /\ UNCHANGED <<next, made, lock, c, at, seen, owed>>

Unlock(t) ==
  /\ Goto(t, "unlock", "idle") /\ lock' = Nobody /\ c' = [c EXCEPT ![t] = Nullptr]
  /\ UNCHANGED <<next, last, made, at, seen, owed>>

\* The containers that PushBack() has returned.
Returned == made \ {c[t] : t \in Writers}

GetBegin == First

\* A reader begins at the sentinel, which has no object.
Begin(r) ==
  /\ at[r] = Nullptr /\ at' = [at EXCEPT ![r] = GetBegin]
  /\ seen' = [seen EXCEPT ![r] = <<>>] /\ owed' = [owed EXCEPT ![r] = Returned]
  /\ UNCHANGED <<next, last, made, lock, pc, c>>

GetNext(n) == next[n]

Read(r) ==
  /\ at[r] # Nullptr
  /\ at' = [at EXCEPT ![r] = GetNext(@)]
  /\ seen' = [seen EXCEPT ![r] = IF at'[r] = Nullptr THEN @ ELSE Append(@, at'[r])]
  /\ UNCHANGED <<next, last, made, lock, pc, c, owed>>

Step(t) == Lock(t) \/ Link(t) \/ SetLast(t) \/ Unlock(t)

Next == \/ \E t \in Writers : Make(t) \/ Step(t)
        \/ \E r \in Readers : Begin(r) \/ Read(r)

Spec == Init /\ [][Next]_vars

-----------------------------------------------------------------------------
\* The type invariant.
TypeOK ==
  /\ next \in [Nodes -> Containers \cup {Nullptr}] /\ last \in Nodes
  /\ made \subseteq Containers /\ lock \in Writers \cup {Nobody}
  /\ pc \in [Writers -> {"idle", "lock", "link", "last", "unlock", "failed"}]
  /\ c \in [Writers -> Containers \cup {Nullptr}]
  /\ at \in [Readers -> Nodes \cup {Nullptr}]
  /\ seen \in [Readers -> Seq(Containers)] /\ owed \in [Readers -> SUBSET Containers]

\* The list from the sentinel on.
list == Chain(next, Nullptr, First, Cardinality(Containers))

\* kassert of PushBack() never fails: _last is the end of the list for whoever
\* has the lock.
NoKassertFails == \A t \in Writers : pc[t] # "failed"

\* What a reader sees without the lock is the beginning of the list, in its
\* order, with no container twice, and each has its object.
ReaderSeesTheBeginning ==
  \A r \in Readers :
    /\ IsPrefix(seen[r], list) /\ IsInjective(seen[r])
    /\ ToSet(seen[r]) \subseteq made

\* A reader that is through has come across everything that was in the list
\* when it began.
ReaderMissesNothing ==
  \A r \in Readers : at[r] = Nullptr => owed[r] \subseteq ToSet(seen[r])
=============================================================================
