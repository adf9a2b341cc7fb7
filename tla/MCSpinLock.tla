----------------------------- MODULE MCSpinLock -----------------------------
(***************************************************************************)
(* Instances of SpinLock for TLC.  Three threads; the counter wraps after  *)
(* two critical sections, so stale copies of _flag meet the same value     *)
(* again.                                                                  *)
(***************************************************************************)
EXTENDS SpinLock, TLC

CONSTANTS t1, t2, t3

\* cpu_ctrl->GetId(): threads of the pool have different numbers from 0.
PoolIds2 == (t1 :> 0) @@ (t2 :> 1)
PoolIds3 == (t1 :> 0) @@ (t2 :> 1) @@ (t3 :> 2)

\* A lock that has been used before: _id was cleared by an Unlock().
UsedLock == {Nobody}

\* A lock in zeroed memory that was never taken.
ZeroedLock == {0}
=============================================================================
