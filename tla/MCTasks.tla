------------------------------- MODULE MCTasks -------------------------------
(***************************************************************************)
(* The classes of tasks for TLC: three countable tasks on two CPUs; two    *)
(* pollings of one CPU, switched by its tasks and by two other threads;    *)
(* two callouts of one CPU, one of them with a lock of the user, set and   *)
(* cancelled for a time in the past or beyond the window.                  *)
(***************************************************************************)
EXTENDS TaskClasses, TLC

CONSTANTS c1, c2, a, b, d

\* Two tasks share a CPU, a third one has its own.
TwoAndOne == (a :> c1) @@ (b :> c1) @@ (d :> c2)

BothOnOne == (a :> c1) @@ (b :> c1)

PastAndLater == {-1, 3}
=============================================================================
