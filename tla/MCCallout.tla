------------------------------ MODULE MCCallout ------------------------------
(***************************************************************************)
(* An instance of Callout for TLC: the first SetHandler() on a CPU.        *)
(***************************************************************************)
EXTENDS Callout

OneCpu == [k \in Callouts |-> CHOOSE c \in Cpus : TRUE]
=============================================================================
