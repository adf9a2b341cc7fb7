----------------------------- MODULE RingBuffer -----------------------------
(***************************************************************************)
(* RingBuffer<T, S> of rlib/buf.h: an array of S slots of which one stays  *)
(* empty, with a head and a tail index that wrap around.  Every operation  *)
(* is one section under _lock.                                             *)
(***************************************************************************)
EXTENDS Integers, Sequences

CONSTANTS
  Threads,  \* the threads that use the buffer
  T,        \* the type of the items
  S,        \* the number of slots
  Unset     \* the content of a slot that was never written

ASSUME RingBufferAssumption == S \in Nat /\ S > 1

VARIABLES
  buffer, head, tail,  \* _buffer, _head, _tail
  answer               \* what the last call of each thread returned

vars == <<buffer, head, tail, answer>>

Init ==
  /\ buffer = [i \in 0 .. S - 1 |-> Unset]
  /\ head = 0
  /\ tail = 0
  /\ answer = [t \in Threads |-> "true"]

Answer(t, a) == answer' = [answer EXCEPT ![t] = a]

Following(i) == (i + 1) % S

\* Mutant: the last free slot is used too, and a full buffer looks empty.
Push_UsesEverySlot(t, x) ==
  /\ buffer' = [buffer EXCEPT ![tail] = x]
  /\ tail' = Following(tail)
  /\ Answer(t, "true")
  /\ UNCHANGED head

Push(t, x) ==
  \/ /\ Following(tail) # head
     /\ buffer' = [buffer EXCEPT ![tail] = x]
     /\ tail' = Following(tail)
     /\ Answer(t, "true")
     /\ UNCHANGED head
  \/ /\ Following(tail) = head
     /\ Answer(t, "false")
     /\ UNCHANGED <<buffer, head, tail>>

Pop(t) ==
  \/ /\ head # tail
     /\ head' = Following(head)
     /\ Answer(t, buffer[head])
     /\ UNCHANGED <<buffer, tail>>
  \/ /\ head = tail
     /\ Answer(t, "false")
     /\ UNCHANGED <<buffer, head, tail>>

IsFull(t) ==
  /\ Answer(t, IF Following(tail) = head THEN "true" ELSE "false")
  /\ UNCHANGED <<buffer, head, tail>>

IsEmpty(t) ==
  /\ Answer(t, IF tail = head THEN "true" ELSE "false")
  /\ UNCHANGED <<buffer, head, tail>>

Next == \E t \in Threads : \/ \E x \in T : Push(t, x)
                           \/ Pop(t) \/ IsFull(t) \/ IsEmpty(t)

Spec == Init /\ [][Next]_vars

-----------------------------------------------------------------------------
\* How many slots are in use, and which one holds the i-th oldest item.
Used == IF head <= tail THEN tail - head ELSE tail - head + S
Slot(i) == IF head + i - 1 < S THEN head + i - 1 ELSE head + i - 1 - S

\* The type invariant; no slot is read before it was written.
TypeOK ==
  /\ buffer \in [0 .. S - 1 -> T \cup {Unset}]
  /\ head \in 0 .. S - 1
  /\ tail \in 0 .. S - 1
  /\ \A i \in 1 .. Used : buffer[Slot(i)] \in T

\* The items in the buffer, the oldest first.
content == [i \in 1 .. Used |-> buffer[Slot(i)]]

F == INSTANCE BoundedFifo WITH Items <- T, Capacity <- S - 1

\* RingBuffer is a first-in first-out queue of S - 1 items, wherever in the
\* array the head is: nothing is lost, overwritten, repeated or reordered, and
\* Push() and Pop() say truthfully whether they did anything.
ImplementsBoundedFifo == F!Spec
=============================================================================
