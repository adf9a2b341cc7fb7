---------------------------- MODULE IntSpinLock ----------------------------
(***************************************************************************)
(* IntSpinLock of rlib/spinlock.{h,cc} in the kernel build: the SpinLock   *)
(* that interrupt handlers may use as well.  Each CPU has its interrupt    *)
(* flag; when it is set, a handler may interrupt the program at any place, *)
(* and a handler another one.  Lock() clears the flag around the compare-  *)
(* and-swap, Unlock() sets it again if the lock remembers that it was set. *)
(* _flag++ of Unlock() is one step here: SpinLock!UnlockSeesCurrentFlag.   *)
(*                                                                         *)
(* The locks are nested as in task.cc: a lock of a task, then dlock or the *)
(* lock of a task queue, then nothing; Run() tries the lock of a callout   *)
(* under dlock and keeps it longer.                                        *)
(***************************************************************************)
EXTENDS Integers

CONSTANTS
  Cpus,      \* the CPUs, as numbers: cpu_ctrl->GetId()
  Locks,     \* the locks, as numbers: a later one is locked inside an earlier
  Handled,   \* bound of the model: the CPUs on which interrupts come
  MaxDepth,  \* bound of the model: handlers at a time on such a CPU
  FlagMod,   \* _flag is an unsigned int: it counts modulo FlagMod
  Trying     \* is Trylock() used as well?

IntSpinLockAssumption ==
  /\ Cpus \subseteq Nat /\ Locks \subseteq Nat
  /\ Handled \subseteq Cpus /\ MaxDepth \in Nat
  /\ FlagMod \in Nat \ {0} /\ FlagMod % 2 = 0 /\ Trying \in BOOLEAN

Levels == 0 .. MaxDepth  \* 0 is the program, the others are handlers

VARIABLES
  flag, id, did,  \* of each lock: _flag, _id, _did_stop_interrupt
  intr,           \* the interrupt flag of each CPU
  level,          \* what the CPU executes: the program or a handler
  pc, arg, reg,   \* of each level: where it is, in which lock, its copy of _flag
  how,            \* how it holds each lock: "no", "lock", "try"
  by,             \* history: the CPU that has set _did_stop_interrupt
  misled          \* history: those that were interrupted by another CPU's value

vars == <<flag, id, did, intr, level, pc, arg, reg, how, by, misled>>

Contexts == Cpus \X Levels
Nobody == -1
Odd(n) == n % 2 = 1
Succ(n) == (n + 1) % FlagMod

Init ==
  /\ flag = [l \in Locks |-> 0]
  /\ id = [l \in Locks |-> Nobody]       \* it is not set: see SpinLock
  /\ did = [l \in Locks |-> FALSE]
  /\ intr = [c \in Cpus |-> TRUE]
  /\ level = [c \in Cpus |-> 0]
  /\ pc = [x \in Contexts |-> "idle"]
  /\ arg = [x \in Contexts |-> Nobody]
  /\ reg = [x \in Contexts |-> 0]
  /\ how = [x \in Contexts |-> [l \in Locks |-> "no"]]
  /\ by = [l \in Locks |-> Nobody]
  /\ misled = {}

Running(x) == level[x[1]] = x[2]
Holds(x, l) == how[x][l] # "no"
HoldsNone(x) == \A l \in Locks : ~Holds(x, l)

\* The locks that x has by Lock(), but l.
Outside(x, l) == {m \in Locks \ {l} : how[x][m] = "lock"}

Goto(x, from, to) == /\ Running(x) /\ pc[x] = from
                     /\ pc' = [pc EXCEPT ![x] = to]

-----------------------------------------------------------------------------
\* An interrupt: the CPU clears its flag.  The handler locks and unlocks.
Interrupt(c) ==
  /\ c \in Handled /\ intr[c] /\ level[c] < MaxDepth
  /\ level' = [level EXCEPT ![c] = @ + 1]
  /\ intr' = [intr EXCEPT ![c] = FALSE]
  /\ pc' = [pc EXCEPT ![<<c, level[c] + 1>>] = "handler"]
  /\ UNCHANGED <<flag, id, did, arg, reg, how, by, misled>>

\* The end of a handler: the flag is as it was before the interrupt.
Iret(c) ==
  /\ level[c] > 0 /\ pc[<<c, level[c]>>] = "idle" /\ HoldsNone(<<c, level[c]>>)
  /\ level' = [level EXCEPT ![c] = @ - 1]
  /\ intr' = [intr EXCEPT ![c] = TRUE]
  /\ UNCHANGED <<flag, id, did, pc, arg, reg, how, by, misled>>

\* Lock() is called: reads _flag to decide whether the assertion applies.
Lock(x, l) ==
  /\ \A m \in Locks : Holds(x, m) => m < l
  /\ Goto(x, IF x[2] > 0 /\ HoldsNone(x) THEN "handler" ELSE "idle",
             IF Odd(flag[l]) THEN "assert" ELSE "get")
  /\ arg' = [arg EXCEPT ![x] = l]
  /\ UNCHANGED <<flag, id, did, intr, level, reg, how, by, misled>>

Assert(x) ==
  /\ Goto(x, "assert", IF id[arg[x]] = x[1] THEN "failed" ELSE "get")
  /\ UNCHANGED <<flag, id, did, intr, level, arg, reg, how, by, misled>>

Get(x) ==
  /\ Goto(x, "get", IF Odd(flag[arg[x]]) THEN "get" ELSE "disable")
  /\ reg' = [reg EXCEPT ![x] = flag[arg[x]]]
  /\ UNCHANGED <<flag, id, did, intr, level, arg, how, by, misled>>

\* The first half of DisableInt(); an interrupt may come before the second.
DisableInt(x) ==
  /\ Goto(x, "disable", "cli")
  /\ did' = [did EXCEPT ![arg[x]] = intr[x[1]]]
  /\ by' = [by EXCEPT ![arg[x]] = IF intr[x[1]] THEN x[1] ELSE Nobody]
  /\ UNCHANGED <<flag, id, intr, level, arg, reg, how, misled>>

\* Mutant: the flag is not cleared.
Cli_Skipped(x) ==
  /\ Goto(x, "cli", "cas")
  /\ UNCHANGED <<flag, id, did, intr, level, arg, reg, how, by, misled>>

Cli(x) ==
  /\ Goto(x, "cli", "cas")
  /\ intr' = [intr EXCEPT ![x[1]] = FALSE]
  /\ UNCHANGED <<flag, id, did, level, arg, reg, how, by, misled>>

\* Mutant: a plain store instead of a compare-and-swap.
CasSucceeds_NoCompare(x) == TRUE

CasSucceeds(x) == flag[arg[x]] = reg[x]

Acquire(x, l, w) == /\ flag' = [flag EXCEPT ![l] = Succ(reg[x])]
                    /\ how' = [how EXCEPT ![x][l] = w]

SetFlag(x) ==
  /\ Goto(x, "cas", IF CasSucceeds(x) THEN "setid" ELSE "retry")
  /\ IF CasSucceeds(x) THEN Acquire(x, arg[x], "lock") ELSE UNCHANGED <<flag, how>>
  /\ reg' = [reg EXCEPT ![x] = 0]       \* it is not used any more
  /\ UNCHANGED <<id, did, intr, level, arg, by, misled>>

\* EnableInt(): sti if the lock remembers so, for whomever.  Where x still has
\* another lock by Lock(), that is wrong; the value was another CPU's then.
EnableInt(x) ==
  LET l == arg[x]
  IN  /\ intr' = [intr EXCEPT ![x[1]] = @ \/ did[l]]
      /\ misled' = IF did[l] /\ by[l] # x[1] /\ Outside(x, l) # {}
                   THEN misled \cup {x} ELSE misled

Retry(x) ==
  /\ Goto(x, "retry", "get")
  /\ EnableInt(x)
  /\ UNCHANGED <<flag, id, did, level, arg, reg, how, by>>

SetId(x) ==
  /\ Goto(x, "setid", "idle")
  /\ id' = [id EXCEPT ![arg[x]] = x[1]]
  /\ arg' = [arg EXCEPT ![x] = Nobody]
  /\ UNCHANGED <<flag, did, intr, level, reg, how, by, misled>>

\* Trylock() neither clears the interrupt flag nor sets _id.
TryGet(x, l) ==
  /\ Trying /\ ~Holds(x, l) /\ x[2] = 0
  /\ Goto(x, "idle", "try")
  /\ arg' = [arg EXCEPT ![x] = l]
  /\ reg' = [reg EXCEPT ![x] = flag[l]]
  /\ UNCHANGED <<flag, id, did, intr, level, how, by, misled>>

TryCas(x) ==
  /\ Goto(x, "try", "idle")
  /\ IF ~Odd(reg[x]) /\ CasSucceeds(x)
     THEN Acquire(x, arg[x], "try") ELSE UNCHANGED <<flag, how>>
  /\ arg' = [arg EXCEPT ![x] = Nobody]
  /\ reg' = [reg EXCEPT ![x] = 0]
  /\ UNCHANGED <<id, did, intr, level, by, misled>>

\* Unlock(), with its assertion.  Lockers leave in the reverse order; what was
\* tried is released when nothing is held by Lock() any more.
UnlockEnter(x, l) ==
  /\ Holds(x, l)
  /\ \A m \in Outside(x, l) : how[x][l] = "lock" /\ m < l
  /\ Goto(x, "idle", IF Odd(flag[l]) THEN "ul_id" ELSE "failed")
  /\ arg' = [arg EXCEPT ![x] = l]
  /\ UNCHANGED <<flag, id, did, intr, level, reg, how, by, misled>>

UnlockId(x) ==
  /\ Goto(x, "ul_id", "ul_flag")
  /\ id' = [id EXCEPT ![arg[x]] = Nobody]
  /\ UNCHANGED <<flag, did, intr, level, arg, reg, how, by, misled>>

UnlockFlag(x) ==
  LET l == arg[x]
  IN  /\ Goto(x, "ul_flag", "ul_enable")
      /\ flag' = [flag EXCEPT ![l] = Succ(@)]
      /\ how' = [how EXCEPT ![x][l] = "no"]
      /\ misled' = IF Outside(x, l) = {} THEN misled \ {x} ELSE misled
      /\ UNCHANGED <<id, did, intr, level, arg, reg, by>>

UnlockEnable(x) ==
  /\ Goto(x, "ul_enable", "idle")
  /\ EnableInt(x)
  /\ arg' = [arg EXCEPT ![x] = Nobody]
  /\ UNCHANGED <<flag, id, did, level, reg, how, by>>

Step(x) ==
  \/ Assert(x) \/ Get(x) \/ DisableInt(x) \/ Cli(x) \/ SetFlag(x) \/ Retry(x)
  \/ SetId(x) \/ TryCas(x) \/ UnlockId(x) \/ UnlockFlag(x) \/ UnlockEnable(x)

\* A CPU whose assertion has failed does nothing any more.
Stopped(x) == pc[x] = "failed" /\ UNCHANGED vars

Next ==
  \/ \E c \in Cpus : Interrupt(c) \/ Iret(c)
  \/ \E x \in Contexts :
       \/ \E l \in Locks : Lock(x, l) \/ TryGet(x, l) \/ UnlockEnter(x, l)
       \/ Step(x) \/ Stopped(x)

Spec == Init /\ [][Next]_vars

-----------------------------------------------------------------------------
\* The type invariant.
TypeOK ==
  /\ flag \in [Locks -> 0 .. FlagMod - 1]
  /\ id \in [Locks -> Cpus \cup {Nobody}] /\ did \in [Locks -> BOOLEAN]
  /\ intr \in [Cpus -> BOOLEAN] /\ level \in [Cpus -> Levels]
  /\ pc \in [Contexts -> {"idle", "handler", "assert", "get", "disable", "cli",
                          "cas", "retry", "setid", "try", "ul_id", "ul_flag",
                          "ul_enable", "failed"}]
  /\ arg \in [Contexts -> Locks \cup {Nobody}]
  /\ reg \in [Contexts -> 0 .. FlagMod - 1]
  /\ how \in [Contexts -> [Locks -> {"no", "lock", "try"}]]
  /\ by \in [Locks -> Cpus \cup {Nobody}] /\ misled \subseteq Contexts

\* A lock is held once, with handlers among those that want it, nested or not.
MutualExclusion ==
  \A l \in Locks : \A x, y \in Contexts : Holds(x, l) /\ Holds(y, l) => x = y

\* While a lock is held by Lock(), no interrupt comes on the CPU that holds it:
\* "Lock() disables the interrupts" (spinlock.h).
LockedWithInterruptsOff ==
  \A x \in Contexts, l \in Locks : how[x][l] = "lock" => ~intr[x[1]]

\* The same, except where the value of another CPU in _did_stop_interrupt of an
\* inner lock has misled the holder of an outer one.  The value of another CPU
\* does no harm to who has only the one lock, and an inner lock with a value of
\* this CPU lets no interrupt into the outer one.
InterruptsOffUnlessMisled ==
  \A x \in Contexts \ misled, l \in Locks : how[x][l] = "lock" => ~intr[x[1]]

\* No assertion stops the kernel: a handler finds the number of its own CPU in
\* _id only if a context it interrupted has the lock by Lock(), so only if that
\* one was misled.
NoSpuriousAssert ==
  \A x \in Contexts : pc[x] = "failed" => \E y \in misled : y[1] = x[1]
=============================================================================
