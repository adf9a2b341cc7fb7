----------------------------- MODULE LinkedList -----------------------------
(***************************************************************************)
(* Singly linked lists, as Queue, ObjectList and TaskCtrl keep them: a     *)
(* guard node and a field next that leads from node to node to null.       *)
(***************************************************************************)
EXTENDS Naturals, Sequences, FiniteSets

\* The node at place i of the list s behind the guard n, which has place 0.
NodeAt(n, s, i) == IF i = 0 THEN n ELSE s[i]

End(n, s) == NodeAt(n, s, Len(s))

\* Whoever follows next from n on comes through s and then to null.
IsChain(next, null, n, s) ==
  /\ \A i \in 0 .. Len(s) - 1 : next[NodeAt(n, s, i)] = s[i + 1]
  /\ \A i \in 1 .. Len(s) : s[i] # null
  /\ next[End(n, s)] = null

\* The nodes behind n, of which there are at most max.
Chain(next, null, n, max) ==
  LET behind[k \in 0 .. max] ==
        [m \in DOMAIN next |->
           IF k = 0 \/ next[m] = null THEN << >>
           ELSE <<next[m]>> \o behind[k - 1][next[m]]]
  IN  behind[max][n]

\* The nodes of a list.
Members(s) == {s[i] : i \in DOMAIN s}

Without(s, i) == SubSeq(s, 1, i - 1) \o SubSeq(s, i + 1, Len(s))
=============================================================================
