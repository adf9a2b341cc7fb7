--------------------------------- MODULE Tty ---------------------------------
(***************************************************************************)
(* The way of a string through Tty (rlib/tty.{h,cc}).  Cprintf() gives it  *)
(* to a FunctionalQueue, whose function, Handle() on CPU 1, prints and     *)
(* deletes it; as long as CPU 1 has not started, and for CprintfRaw(), the *)
(* thread prints it itself.  Characters are written one by one, under      *)
(* _lock.  The queue and its task are module Functional, with the strings  *)
(* as the items; what a string contains is in modules TtyString, TtyFormat *)
(* and TtyNumber.                                                          *)
(***************************************************************************)
EXTENDS Naturals, Sequences, FiniteSets

CONSTANTS
  Threads,  \* the threads that print
  Strings,  \* the strings they print, each of them once
  Length,   \* the characters of a string
  cpu1,     \* the CPU that executes Handle(), and as a lock holder its thread
  tty,      \* the Tty, as an object of Functional
  Null

TtyAssumption ==
  /\ cpu1 \notin Threads
  /\ Null \notin Threads \cup Strings \cup {cpu1, tty} \cup (0 .. Length)
  /\ Length \in Nat \ {0} /\ IsFiniteSet(Strings)

VARIABLES
  fifo, running, func, buf, fstate, target, ppc, hpc,  \* of Functional
  started,  \* CPU 1 is not kNotStarted
  tpc,      \* where each thread is
  str,      \* the string in the hands of a thread, or of Handle()
  lock,     \* who holds _lock
  printed,  \* how far each is in PrintString(), or Null outside of it
  made,     \* history: the strings of each thread, in the order of the calls
  raw,      \* history: the strings of CprintfRaw()
  out,      \* history: the string each printed character belongs to
  deleted   \* the strings on which Delete() was called

fvars == <<fifo, running, func, buf, fstate, target, ppc, hpc>>
printing == <<lock, printed, out>>
vars == <<fvars, started, tpc, str, printing, made, raw, deleted>>

F == INSTANCE Functional WITH
       Cpus <- {cpu1}, Functionals <- {tty}, CpuOf <- [f \in {tty} |-> cpu1],
       Clients <- Strings, Capacity <- Cardinality(Strings)

Printers == Threads \cup {cpu1}

Init ==
  /\ F!Init
  /\ started = FALSE
  /\ tpc = [t \in Threads |-> "idle"]
  /\ str = [x \in Printers |-> Null]
  /\ lock = Null /\ printed = [x \in Printers |-> Null]
  /\ made = [t \in Threads |-> <<>>]
  /\ raw = {} /\ out = <<>> /\ deleted = {}

\* Tty::Init(); nobody prints before.
TtyInit ==
  /\ F!SetFunction(tty)
  /\ UNCHANGED <<started, tpc, str, printing, made, raw, deleted>>

\* CPU 1 enters Run().
CpuStarts ==
  /\ ~started /\ started' = TRUE
  /\ UNCHANGED <<fvars, tpc, str, printing, made, raw, deleted>>

-----------------------------------------------------------------------------
(***************************************************************************)
(* A thread                                                                *)
(***************************************************************************)
Goto(t, from, to) == tpc[t] = from /\ tpc' = [tpc EXCEPT ![t] = to]

Known == UNION {F!Q!Elements(made[t]) : t \in Threads}

\* Cvprintf() makes a string; so does CvprintfRaw(), on the stack, and takes
\* the direct way.
Make(t, s) ==
  /\ func[tty] /\ s \notin Known
  /\ str' = [str EXCEPT ![t] = s]
  /\ made' = [made EXCEPT ![t] = Append(@, s)]
  /\ UNCHANGED <<fvars, started, printing, deleted>>

Cvprintf(t, s) ==
  Make(t, s) /\ Goto(t, "idle", "string") /\ UNCHANGED raw

CvprintfRaw(t, s) ==
  Make(t, s) /\ Goto(t, "idle", "lock") /\ raw' = raw \cup {s}

\* Mutant: the test is inverted.
Queues_Inverted == ~started

Queues == started

\* DoString() looks at the state of CPU 1.
DoString(t) ==
  /\ Goto(t, "string", IF Queues THEN "push" ELSE "lock")
  /\ UNCHANGED <<fvars, started, str, printing, made, raw, deleted>>

Push(t) ==
  /\ Goto(t, "push", "wakeup")
  /\ F!Push(str[t], tty)
  /\ UNCHANGED <<started, str, printing, made, raw, deleted>>

Wakeup(t) ==
  /\ tpc[t] = "wakeup"
  /\ F!WakeupCheck(str[t]) \/ F!WakeupFunction(str[t])
  /\ IF ppc'[str[t]] = "idle"
     THEN Goto(t, "wakeup", "idle") /\ str' = [str EXCEPT ![t] = Null]
     ELSE UNCHANGED <<tpc, str>>
  /\ UNCHANGED <<started, printing, made, raw, deleted>>

-----------------------------------------------------------------------------
(***************************************************************************)
(* PrintString() under _lock, for a thread or for Handle()                 *)
(***************************************************************************)

\* Mutant: the lock is not waited for.
CanLock_Always == TRUE

CanLock == lock = Null

Lock(x) ==
  /\ printed[x] = Null /\ CanLock
  /\ lock' = x /\ printed' = [printed EXCEPT ![x] = 0]
  /\ UNCHANGED out

More(x) == printed[x] \in 0 .. Length - 1

Write(x) ==
  /\ More(x)
  /\ printed' = [printed EXCEPT ![x] = @ + 1]
  /\ out' = Append(out, str[x])
  /\ UNCHANGED <<fvars, started, tpc, str, lock, made, raw, deleted>>

Unlock(x) ==
  /\ printed[x] = Length
  /\ lock' = Null /\ printed' = [printed EXCEPT ![x] = Null]
  /\ UNCHANGED out

PrintDirectly(t) ==
  /\ Lock(t)
  /\ Goto(t, "lock", "print")
  /\ UNCHANGED <<fvars, started, str, made, raw, deleted>>

\* The string on the stack ends; that of Cvprintf() is forgotten, not deleted.
PrintedDirectly(t) ==
  /\ Unlock(t)
  /\ Goto(t, "print", "idle")
  /\ str' = [str EXCEPT ![t] = Null]
  /\ UNCHANGED <<fvars, started, made, raw, deleted>>

-----------------------------------------------------------------------------
(***************************************************************************)
(* CPU 1                                                                   *)
(***************************************************************************)

\* The steps of Functional around Handle().
FunctionalStep ==
  /\ started
  /\ \/ F!Dispatch(cpu1) \/ F!HandleShould(cpu1) \/ F!HandleRecheck(cpu1)
     \/ F!HandleRegister(cpu1) \/ F!HandleReturn(cpu1)
  /\ UNCHANGED <<started, tpc, str, printing, made, raw, deleted>>

HandlePop ==
  /\ str[cpu1] = Null
  /\ F!HandleFuncPops(cpu1)
  /\ str' = [str EXCEPT ![cpu1] = Head(buf[tty])]
  /\ UNCHANGED <<started, tpc, printing, made, raw, deleted>>

HandleLock ==
  /\ str[cpu1] # Null
  /\ Lock(cpu1)
  /\ UNCHANGED <<fvars, started, tpc, str, made, raw, deleted>>

Forget == str' = [str EXCEPT ![cpu1] = Null]

\* Unlock(), then Delete().
HandleUnlock ==
  /\ Unlock(cpu1)
  /\ deleted' = deleted \cup {str[cpu1]}
  /\ Forget
  /\ UNCHANGED <<fvars, started, tpc, made, raw>>

\* Pop() fails: Handle() returns.
HandleReturns ==
  /\ str[cpu1] = Null /\ buf[tty] = <<>>
  /\ F!HandleFuncReturns(cpu1)
  /\ UNCHANGED <<started, tpc, str, printing, made, raw, deleted>>

ThreadStep(t) ==
  DoString(t) \/ Push(t) \/ Wakeup(t) \/ PrintDirectly(t) \/ PrintedDirectly(t)

CpuStep ==
  FunctionalStep \/ HandlePop \/ HandleLock \/ HandleUnlock \/ HandleReturns

\* All strings have been printed.
Done == /\ Known = Strings /\ started
        /\ \A t \in Threads : tpc[t] = "idle"
        /\ hpc[cpu1] = "idle" /\ fifo[cpu1] = <<>>
        /\ UNCHANGED vars

Next ==
  \/ TtyInit \/ CpuStarts \/ CpuStep
  \/ \E t \in Threads : \/ \E s \in Strings : Cvprintf(t, s) \/ CvprintfRaw(t, s)
                        \/ ThreadStep(t)
  \/ \E x \in Printers : Write(x)
  \/ Done

Spec == Init /\ [][Next]_vars

\* A call that has begun goes on, and CPU 1, once started, executes its tasks;
\* whoever waits for _lock gets it if it is free again and again.
FairSpec ==
  /\ Spec
  /\ \A t \in Threads : SF_vars(ThreadStep(t))
  /\ SF_vars(CpuStep)
  /\ \A x \in Printers : WF_vars(Write(x))

-----------------------------------------------------------------------------
Times(s) == Cardinality({i \in DOMAIN out : out[i] = s})

\* The type invariant; the queue never overflows, as its strings are different.
TypeOK ==
  /\ F!TypeOK
  /\ started \in BOOLEAN
  /\ tpc \in [Threads -> {"idle", "string", "push", "wakeup", "lock", "print"}]
  /\ str \in [Printers -> Strings \cup {Null}]
  /\ lock \in Printers \cup {Null} /\ printed \in [Printers -> 0 .. Length \cup {Null}]
  /\ made \in [Threads -> Seq(Strings)]
  /\ raw \subseteq Strings /\ deleted \subseteq Strings
  /\ out \in Seq(Strings)

\* The characters of a string are next to each other, whoever prints it: a
\* thread that prints directly and Handle() do not mix their output.
StringsAreNotMixed ==
  \A i, j \in DOMAIN out :
    out[i] = out[j] => \A n \in i .. j : out[n] = out[i]

\* Nothing is printed twice; what is deleted was printed to its end, is not in
\* the queue and in nobody's hands.
DeletedAfterPrinted ==
  \A s \in Strings :
    /\ Times(s) <= Length
    /\ s \in deleted => /\ Times(s) = Length
                        /\ s \notin F!Q!Elements(buf[tty])
                        /\ \A t \in Threads : tpc[t] \in {"push", "print"} => str[t] # s
                        /\ str[cpu1] # s

\* What one thread prints with Cprintf() comes out in the order of its calls,
\* also while CPU 1 starts.
InProgramOrder ==
  \A t \in Threads : \A i, j \in DOMAIN made[t] :
    i < j /\ made[t][i] \notin raw /\ made[t][j] \notin raw =>
      \A m, n \in DOMAIN out :
        out[m] = made[t][i] /\ out[n] = made[t][j] => m < n

\* What is printed appears in full, whichever way it takes.
EveryStringIsPrinted ==
  \A s \in Strings : s \in Known ~> Times(s) = Length
=============================================================================
