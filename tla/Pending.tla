------------------------------ MODULE Pending ------------------------------
(***************************************************************************)
(* What CountableTask (rlib/task.h) promises: its function is executed     *)
(* once for every Inc(), however the calls of Inc() and the executions     *)
(* overlap.                                                                *)
(***************************************************************************)
EXTENDS Naturals

CONSTANT Tasks    \* the CountableTask objects

VARIABLE pending  \* the executions each task still owes

Init == pending = [t \in Tasks |-> 0]

\* Inc()
Post(t) == pending' = [pending EXCEPT ![t] = @ + 1]

\* The function of the task is executed.
Serve(t) == /\ pending[t] > 0
            /\ pending' = [pending EXCEPT ![t] = @ - 1]

Next == \E t \in Tasks : Post(t) \/ Serve(t)

Spec == Init /\ [][Next]_pending

FairSpec == Spec /\ \A t \in Tasks : WF_pending(Serve(t))
=============================================================================
