------------------------------- MODULE Queue -------------------------------
(***************************************************************************)
(* Queue of rlib/queue.{h,cc}: a singly linked list of containers behind a *)
(* guard, with a pointer to its last node.  Push() allocates and fills its *)
(* container before it takes the lock; Pop() reads the container and frees *)
(* it after it has left the lock; IsEmpty() takes no lock.  Each of these  *)
(* is an action of its own, a section under _lock is one.                  *)
(***************************************************************************)
EXTENDS Naturals, FiniteSets

CONSTANTS
  Threads,     \* the threads that use the queue
  Items,       \* what is stored in it
  Containers,  \* the memory for containers: the bound of the model on Alloc()
  First,       \* the guard _first
  Null,        \* nullptr
  Unset        \* the content of memory that is not allocated

QueueAssumption ==
  /\ First \notin Containers
  /\ Null \notin Containers \cup {First} /\ Unset \notin Containers \cup {First}
  /\ Null # Unset
  /\ Null \notin Items /\ Unset \notin Items
  /\ IsFiniteSet(Containers)

Nodes == Containers \cup {First}

VARIABLES
  data, next,  \* the fields of every container and of the guard
  last,        \* _last
  free,        \* the containers that are not allocated
  pc,          \* where each thread is in Push() or Pop()
  held,        \* c: the container a thread works on
  answer       \* what the last call of each thread returned

memory == <<data, next, free>>
vars == <<memory, last, pc, held, answer>>

Labels == {"idle", "link", "read", "free", "failed"}

Init ==
  /\ data = [n \in Nodes |-> IF n = First THEN Null ELSE Unset]
  /\ next = [n \in Nodes |-> IF n = First THEN Null ELSE Unset]
  /\ last = First
  /\ free = Containers
  /\ pc = [t \in Threads |-> "idle"]
  /\ held = [t \in Threads |-> Null]
  /\ answer = [t \in Threads |-> "true"]

Goto(t, from, to) == pc[t] = from /\ pc' = [pc EXCEPT ![t] = to]
Hold(t, c) == held' = [held EXCEPT ![t] = c]
Answer(t, a) == answer' = [answer EXCEPT ![t] = a]

Empty == last = First

(***************************************************************************)
(* Push(x).                                                                *)
(***************************************************************************)

PushAlloc(t, x) ==
  /\ Goto(t, "idle", "link")
  /\ \E c \in free : /\ free' = free \ {c}
                     /\ data' = [data EXCEPT ![c] = x]
                     /\ next' = [next EXCEPT ![c] = Null]
                     /\ Hold(t, c)
  /\ UNCHANGED <<last, answer>>

\* A kassert that does not hold: the thread ends here.
KassertFails(t, from) ==
  /\ Goto(t, from, "failed")
  /\ UNCHANGED <<memory, last, held, answer>>

\* Mutant: _last is not moved to the new container.
PushLink_KeepsLast(t) ==
  IF next[last] # Null
  THEN KassertFails(t, "link")
  ELSE /\ Goto(t, "link", "idle")
       /\ next' = [next EXCEPT ![last] = held[t]]
       /\ Hold(t, Null)
       /\ Answer(t, "true")
       /\ UNCHANGED <<data, free, last>>

\* kassert(_last->next == nullptr), then the container becomes the last one.
PushLink(t) ==
  IF next[last] # Null
  THEN KassertFails(t, "link")
  ELSE /\ Goto(t, "link", "idle")
       /\ next' = [next EXCEPT ![last] = held[t]]
       /\ last' = held[t]
       /\ Hold(t, Null)
       /\ Answer(t, "true")
       /\ UNCHANGED <<data, free>>

(***************************************************************************)
(* Pop(data).                                                              *)
(***************************************************************************)
PopEmpty(t) ==
  /\ pc[t] = "idle"
  /\ Empty
  /\ Answer(t, "false")
  /\ UNCHANGED <<memory, last, pc, held>>

\* kassert(c != nullptr), then the first container is taken out.
PopUnlink(t) ==
  LET c == next[First]
  IN  /\ ~Empty
      /\ IF c = Null
         THEN KassertFails(t, "idle")
         ELSE /\ Goto(t, "idle", "read")
              /\ next' = [next EXCEPT ![First] = next[c]]
              /\ last' = IF last = c THEN First ELSE last
              /\ Hold(t, c)
              /\ UNCHANGED <<data, free, answer>>

\* Mutant: the container is put back before its content is read.
PopRead_AfterFree(t) ==
  /\ Goto(t, "read", "free")
  /\ Answer(t, data[held[t]])
  /\ free' = free \cup {held[t]}
  /\ UNCHANGED <<data, next, last, held>>

PopRead(t) ==
  /\ Goto(t, "read", "free")
  /\ Answer(t, data[held[t]])
  /\ UNCHANGED <<memory, last, held>>

PopFree(t) ==
  LET c == held[t]
  IN  /\ Goto(t, "free", "idle")
      /\ free' = free \cup {c}
      /\ data' = [data EXCEPT ![c] = Unset]
      /\ next' = [next EXCEPT ![c] = Unset]
      /\ Hold(t, Null)
      /\ UNCHANGED <<last, answer>>

\* IsEmpty() compares two words without the lock.
IsEmpty(t) ==
  /\ pc[t] = "idle"
  /\ Answer(t, IF Empty THEN "true" ELSE "false")
  /\ UNCHANGED <<memory, last, pc, held>>

Next ==
  \E t \in Threads :
    \/ \E x \in Items : PushAlloc(t, x)
    \/ PushLink(t)
    \/ PopEmpty(t) \/ PopUnlink(t) \/ PopRead(t) \/ PopFree(t)
    \/ IsEmpty(t)

Spec == Init /\ [][Next]_vars

-----------------------------------------------------------------------------
\* The type invariant; no field of a container in use is uninitialised.
TypeOK ==
  /\ data \in [Nodes -> Items \cup {Null, Unset}]
  /\ next \in [Nodes -> Containers \cup {Null, Unset}]
  /\ last \in Nodes
  /\ free \subseteq Containers
  /\ pc \in [Threads -> Labels]
  /\ held \in [Threads -> Containers \cup {Null}]
  /\ answer \in [Threads -> Items \cup {"true", "false"}]
  /\ \A n \in Nodes \ free : data[n] # Unset /\ next[n] # Unset

\* The list always ends where _last says and is empty when _last says so: the
\* assertions of Push() and Pop() never fail.
NoKassertFails == \A t \in Threads : pc[t] # "failed"

\* The containers that some thread works on outside of the lock.
InHand == {held[t] : t \in Threads} \ {Null}

\* The containers of the list: those that a node which is in use and in no
\* thread's hands points to.
InList == {next[n] : n \in (Nodes \ free) \ InHand} \ {Null}

\* A container that Pop() reads and frees after the lock belongs to it alone:
\* every container is free, in the hands of one thread, or in the list.
EachContainerHasOneOwner ==
  /\ \A s, t \in Threads : held[s] = held[t] /\ held[s] # Null => s = t
  /\ InHand \cap (free \cup InList) = {}
  /\ InList \cap free = {}
  /\ free \cup InHand \cup InList = Containers
=============================================================================
