----------------------------- MODULE MCTaskCtrl -----------------------------
(***************************************************************************)
(* Instances of TaskCtrl for TLC.                                          *)
(***************************************************************************)
EXTENDS TaskCtrl, TLC

CONSTANTS c1, c2, a, b, d

\* Two tasks share a CPU, the third is alone on the other one.
HomeOfThree == (a :> {c1}) @@ (b :> {c1}) @@ (d :> {c2})

\* Three tasks on one CPU.
HomeOfOneCpu == (a :> {c1}) @@ (b :> {c1}) @@ (d :> {c1})

\* A task that its users register on either CPU.
HomeOfMigrant == (a :> {c1, c2})

\* TaskCtrl implements TaskFifo with the fairness that TaskFifo promises.
ImplementsFairTaskFifo == Fifo!FairSpec
=============================================================================
