---------------------------- MODULE MCFunctional ----------------------------
(***************************************************************************)
(* Functional and Tty for TLC: two objects that share a CPU, with buffers  *)
(* that two clients fill, and a Tty whose two threads print three strings  *)
(* while CPU 1 starts.                                                     *)
(***************************************************************************)
EXTENDS Output, TLC

CONSTANTS c1, f1, f2

BothOnOneCpu == (f1 :> c1) @@ (f2 :> c1)
=============================================================================
