------------------------------- MODULE Timer -------------------------------
(***************************************************************************)
(* Timer of rlib/timer.h: a free-running counter that wraps around, and    *)
(* BusyUwait(), which polls it until a time in the future has passed.      *)
(* What is compared are counts modulo the range of the counter, and        *)
(* IsGreater() takes a small count for greater than a very large one.      *)
(***************************************************************************)
EXTENDS Integers

CONSTANTS
  Mod,      \* the range of the counter: 2^64
  Milli,    \* 1000: nanoseconds of a microsecond
  Periods,  \* values of _cnt_clk_period, in nanoseconds; PosixTimer has 1
  Waits,    \* the microseconds that are waited for
  MayWrap,  \* FALSE: the program does not run until the counter wraps around
            \* between the start of a wait and its end
  MaxLate   \* bound of the model: the counts that a wait goes on for too long

Window == Mod \div 16  \* 0x1000000000000000

\* us is an int: it is far below the range of the counter.
ASSUME TimerAssumption ==
  /\ Mod \in Nat /\ Window > 0 /\ Mod = 16 * Window
  /\ Milli \in Nat \ {0} /\ Periods \subseteq Nat \ {0} /\ MayWrap \in BOOLEAN
  /\ \A us \in Waits : us \in Int /\ -Window < us * Milli /\ us * Milli < 14 * Window

VARIABLES
  period,   \* _cnt_clk_period
  cnt,      \* the counter
  pc,       \* "idle", "wait"
  time,     \* end, in BusyUwait()
  asked,    \* history: the counts that the caller wants to wait for
  elapsed,  \* history: the counts since it began
  early     \* history: a wait was over too early

vars == <<period, cnt, pc, time, asked, elapsed, early>>

Init ==
  /\ period \in Periods /\ cnt \in 0 .. Mod - 1
  /\ pc = "idle" /\ time = 0 /\ asked = 0 /\ elapsed = 0 /\ early = FALSE

\* The product becomes an unsigned number before it is divided.
GetCntAfterPeriod(cur, us) == (cur + ((us * Milli) % Mod) \div period) % Mod

\* Mutant: the windows are a half of the range.
IsGreater_Halves(n1, n2) == n1 >= n2 \/ (n1 < Mod \div 2 /\ n2 > Mod \div 2)

\* Mutant: no window.
IsGreater_Plain(n1, n2) == n1 >= n2

IsGreater(n1, n2) == n1 >= n2 \/ (n1 < Window /\ n2 > 15 * Window)

\* BusyUwait(us) begins.  A negative time is only asked for with a period of 1:
\* with another one the quotient of the unsigned number is no negative count,
\* but a wait for a large part of the range.
BusyUwait ==
  /\ pc = "idle"
  /\ \E us \in Waits :
       /\ us >= 0 \/ period = 1
       /\ time' = GetCntAfterPeriod(cnt, us)
       /\ asked' = (us * Milli) \div period
       /\ MayWrap \/ cnt + asked' < Mod
  /\ pc' = "wait" /\ elapsed' = 0
  /\ UNCHANGED <<period, cnt, early>>

\* The counter goes on while the program does something else.
Tick ==
  /\ elapsed < asked + MaxLate \/ pc = "idle"
  /\ cnt' = (cnt + 1) % Mod
  /\ elapsed' = IF pc = "wait" THEN elapsed + 1 ELSE elapsed
  /\ UNCHANGED <<period, pc, time, asked, early>>

\* IsTimePassed() of the loop says yes; while it says no nothing changes.
WaitIsOver ==
  /\ pc = "wait" /\ IsGreater(cnt, time)
  /\ pc' = "idle" /\ early' = (elapsed < asked)
  /\ time' = 0 /\ asked' = 0 /\ elapsed' = 0
  /\ UNCHANGED <<period, cnt>>

Next == BusyUwait \/ Tick \/ WaitIsOver

Spec == Init /\ [][Next]_vars

-----------------------------------------------------------------------------
\* The type invariant.
TypeOK ==
  /\ period \in Periods /\ cnt \in 0 .. Mod - 1 /\ time \in 0 .. Mod - 1
  /\ pc \in {"idle", "wait"}
  /\ asked \in Int /\ elapsed \in Nat /\ early \in BOOLEAN

\* BusyUwait() never comes back before the time it was asked for is over; with
\* MayWrap = FALSE, this says that the window of IsGreater() does no harm to a
\* wait that the counter's end does not come into.
NeverEarly == ~early

\* The wait is seen to be over also when the counter wrapped around since, and
\* a time in the past is over at once: as long as the program looks at the
\* counter at most Window counts too late.
SeenToBeOver ==
  pc = "wait" /\ asked <= elapsed /\ elapsed - asked < Window => IsGreater(cnt, time)
=============================================================================
