----------------------------- MODULE BoundedFifo -----------------------------
(***************************************************************************)
(* What the buffers of the library promise the threads that share them: a  *)
(* first-in first-out queue, of limited capacity for RingBuffer            *)
(* (rlib/buf.h) and as large as the memory for Queue (rlib/queue.h).       *)
(***************************************************************************)
EXTENDS Naturals, Sequences

CONSTANTS
  Threads,  \* the threads that use the buffer
  Items,    \* what is stored in it
  Capacity  \* how many items it takes

VARIABLES
  content,  \* the items in the buffer, the oldest first
  answer    \* what the last call of each thread returned

Init ==
  /\ content = <<>>
  /\ answer = [t \in Threads |-> "true"]

Answer(t, a) == answer' = [answer EXCEPT ![t] = a]

\* An item that does not fit is refused.
Push(t, x) ==
  \/ /\ Len(content) < Capacity
     /\ content' = Append(content, x)
     /\ Answer(t, "true")
  \/ /\ Len(content) = Capacity
     /\ Answer(t, "false")
     /\ UNCHANGED content

\* The oldest item, or "false" from an empty buffer.
Pop(t) ==
  \/ /\ content # <<>>
     /\ content' = Tail(content)
     /\ Answer(t, Head(content))
  \/ /\ content = <<>>
     /\ Answer(t, "false")
     /\ UNCHANGED content

IsFull(t) == /\ Answer(t, IF Len(content) = Capacity THEN "true" ELSE "false")
             /\ UNCHANGED content

IsEmpty(t) == /\ Answer(t, IF content = <<>> THEN "true" ELSE "false")
              /\ UNCHANGED content

Next == \E t \in Threads : \/ \E x \in Items : Push(t, x)
                           \/ Pop(t) \/ IsFull(t) \/ IsEmpty(t)

Spec == Init /\ [][Next]_<<content, answer>>
=============================================================================
