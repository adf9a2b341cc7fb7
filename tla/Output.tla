------------------------------- MODULE Output -------------------------------
(***************************************************************************)
(* Functional, and Tty with a Functional of its own.  The two share no     *)
(* state, so a behaviour takes steps of one of them only, chosen in the    *)
(* initial state; the other rests in its initial state.                    *)
(***************************************************************************)
EXTENDS Functional

CONSTANTS Threads, Strings, Length, cpu1, tty    \* Tty

VARIABLES
  what,                                            \* what is looked at
  qFifo, qRunning, qFunc, qBuf, qState, qTarget, qPpc, qHpc,
  started, tpc, str, lock, printed, made, raw, out, deleted

T == INSTANCE Tty WITH
       fifo <- qFifo, running <- qRunning, func <- qFunc, buf <- qBuf,
       fstate <- qState, target <- qTarget, ppc <- qPpc, hpc <- qHpc

ASSUME OutputAssumption == T!TtyAssumption

ttyVars == <<qFifo, qRunning, qFunc, qBuf, qState, qTarget, qPpc, qHpc,
             started, tpc, str, lock, printed, made, raw, out, deleted>>

InitAny == what \in {"functional", "tty"} /\ Init /\ T!Init

NextAny ==
  /\ UNCHANGED what
  /\ \/ what = "functional" /\ Next /\ UNCHANGED ttyVars
     \/ what = "tty" /\ T!Next /\ UNCHANGED vars

SpecAny == InitAny /\ [][NextAny]_<<what, vars, ttyVars>>

\* The fairness of both; only the one that is looked at takes steps.
FairSpecAny ==
  /\ SpecAny
  /\ \A k \in Clients :
       WF_vars(what = "functional" /\ (WakeupCheck(k) \/ WakeupFunction(k)))
  /\ \A c \in Cpus : WF_vars(what = "functional" /\ Handle(c))
  /\ \A t \in Threads : SF_ttyVars(what = "tty" /\ T!ThreadStep(t))
  /\ SF_ttyVars(what = "tty" /\ T!CpuStep)
  /\ \A x \in T!Printers : WF_ttyVars(what = "tty" /\ T!Write(x))

-----------------------------------------------------------------------------
\* The output consists of whole strings in the order of each thread's calls,
\* whoever prints them, none of them twice; what is deleted was printed and is
\* in nobody's hands.
OutputIsInOrder ==
  /\ T!TypeOK /\ T!StringsAreNotMixed
  /\ T!DeletedAfterPrinted /\ T!InProgramOrder

\* What is printed appears in full, whichever way it takes.
EveryStringIsPrinted == T!EveryStringIsPrinted
=============================================================================
