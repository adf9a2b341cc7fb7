------------------------------ MODULE SpinLock ------------------------------
(***************************************************************************)
(* SpinLock of rlib/spinlock.{h,cc}: a test-and-set lock over a counter    *)
(* whose parity says whether the lock is held, plus the _id field that the *)
(* self-deadlock assertion of Lock() reads.  One action per access to the  *)
(* two shared words _flag and _id, so every interleaving of the accesses   *)
(* of different threads is a behaviour of the specification.               *)
(***************************************************************************)
EXTENDS Integers, FiniteSets

CONSTANTS
  Threads,    \* the threads (CPUs) that use the lock
  GetId,      \* cpu_ctrl->GetId() of each thread
  FlagMod,    \* _flag is an unsigned int: it counts modulo FlagMod (2^32)
  InitId,     \* what the constructor, which does not set _id, may leave there
  Reentrant   \* may a client call Lock() on a lock it already holds?

ASSUME SpinLockAssumption ==
  /\ GetId \in [Threads -> Nat]
  /\ FlagMod \in Nat \ {0} /\ FlagMod % 2 = 0
  /\ InitId \subseteq Int
  /\ Reentrant \in BOOLEAN

VARIABLES
  flag,  \* _flag
  id,    \* _id
  pc,    \* the next access of each thread inside the lock's code
  reg,   \* each thread's local copy of _flag
  how    \* how a thread holds the lock: by Lock(), by Trylock(), not at all

vars == <<flag, id, pc, reg, how>>

\* Unlock() leaves -1 in _id.
Nobody == -1

Odd(n) == n % 2 = 1
Succ(n) == (n + 1) % FlagMod

\* "idle" is outside the lock's code; a thread stays in "lk_failed" or
\* "ul_failed" when the kassert of Lock() or Unlock() does not hold.
Labels == {"idle", "lk_id", "lk_get", "lk_cas", "lk_setid", "lk_failed",
           "try_cas", "ul_id", "ul_read", "ul_write", "ul_failed"}

Goto(t, from, to) == /\ pc[t] = from
                     /\ pc' = [pc EXCEPT ![t] = to]

Init ==
  /\ flag = 0
  /\ id \in InitId
  /\ pc = [t \in Threads |-> "idle"]
  /\ reg = [t \in Threads |-> 0]
  /\ how = [t \in Threads |-> "no"]

(***************************************************************************)
(* Lock().                                                                 *)
(***************************************************************************)
MayLock(t) == pc[t] = "idle" /\ (how[t] = "no" \/ Reentrant)

\* Reads _flag to decide whether the assertion applies.  (The kernel's build
\* asserts before that the CPU executes no interrupt handler: the threads here
\* are none, and what handlers may lock is IntSpinLock.)
LockEnter(t) ==
  /\ MayLock(t)
  /\ Goto(t, "idle", IF Odd(flag) THEN "lk_id" ELSE "lk_get")
  /\ UNCHANGED <<flag, id, reg, how>>

\* kassert(_id != cpu_ctrl->GetId())
LockAssert(t) ==
  /\ Goto(t, "lk_id", IF id = GetId[t] THEN "lk_failed" ELSE "lk_get")
  /\ UNCHANGED <<flag, id, reg, how>>

\* flag = GetFlag()
LockGet(t) ==
  /\ Goto(t, "lk_get", "lk_cas")
  /\ reg' = [reg EXCEPT ![t] = flag]
  /\ UNCHANGED <<flag, id, how>>

\* SetFlag(flag, flag + 1): the compare-and-swap on an even counter.
\* Mutant: a plain store instead of a compare-and-swap.
CasSucceeds_NoCompare(t) == ~Odd(reg[t])

CasSucceeds(t) == ~Odd(reg[t]) /\ flag = reg[t]

\* Mutant: a failed compare-and-swap is retried with the same old value.
LockCas_NoReload(t) ==
  \/ /\ CasSucceeds(t)
     /\ Goto(t, "lk_cas", "lk_setid")
     /\ flag' = Succ(reg[t])
     /\ UNCHANGED <<id, reg, how>>
  \/ /\ pc[t] = "lk_cas" /\ ~CasSucceeds(t)
     /\ UNCHANGED vars

LockCas(t) ==
  \/ /\ CasSucceeds(t)
     /\ Goto(t, "lk_cas", "lk_setid")
     /\ flag' = Succ(reg[t])
     /\ UNCHANGED <<id, reg, how>>
  \/ /\ ~CasSucceeds(t)
     /\ Goto(t, "lk_cas", "lk_get")
     /\ UNCHANGED <<flag, id, reg, how>>

\* Mutant: Lock() does not record its caller.
LockSetId_Skipped(t) ==
  /\ Goto(t, "lk_setid", "idle")
  /\ how' = [how EXCEPT ![t] = "lock"]
  /\ UNCHANGED <<flag, id, reg>>

\* _id = cpu_ctrl->GetId()
LockSetId(t) ==
  /\ Goto(t, "lk_setid", "idle")
  /\ id' = GetId[t]
  /\ how' = [how EXCEPT ![t] = "lock"]
  /\ UNCHANGED <<flag, reg>>

(***************************************************************************)
(* Trylock(): one read of _flag, at most one compare-and-swap, _id is not  *)
(* written.                                                                *)
(***************************************************************************)
TryGet(t) ==
  /\ MayLock(t)
  /\ Goto(t, "idle", "try_cas")
  /\ reg' = [reg EXCEPT ![t] = flag]
  /\ UNCHANGED <<flag, id, how>>

TryCas(t) ==
  /\ Goto(t, "try_cas", "idle")
  /\ \/ /\ CasSucceeds(t)
        /\ flag' = Succ(reg[t])
        /\ how' = [how EXCEPT ![t] = "try"]
     \/ /\ ~CasSucceeds(t)
        /\ UNCHANGED <<flag, how>>
  /\ UNCHANGED <<id, reg>>

(***************************************************************************)
(* Unlock().  _flag++ on a volatile is a read and a write.                 *)
(***************************************************************************)
UnlockEnter(t) ==
  /\ how[t] # "no"
  /\ Goto(t, "idle", IF Odd(flag) THEN "ul_id" ELSE "ul_failed")
  /\ UNCHANGED <<flag, id, reg, how>>

\* Mutant: Unlock() leaves its caller's number in _id.
UnlockClearId_Skipped(t) ==
  /\ Goto(t, "ul_id", "ul_read")
  /\ UNCHANGED <<flag, id, reg, how>>

UnlockClearId(t) ==
  /\ Goto(t, "ul_id", "ul_read")
  /\ id' = Nobody
  /\ UNCHANGED <<flag, reg, how>>

UnlockRead(t) ==
  /\ Goto(t, "ul_read", "ul_write")
  /\ reg' = [reg EXCEPT ![t] = flag]
  /\ UNCHANGED <<flag, id, how>>

UnlockWrite(t) ==
  /\ Goto(t, "ul_write", "idle")
  /\ flag' = Succ(reg[t])
  /\ how' = [how EXCEPT ![t] = "no"]
  /\ UNCHANGED <<id, reg>>

\* The steps a thread takes once it has called an operation, and the end of
\* the critical section; calling Lock() or Trylock() is the client's choice.
Step(t) ==
  \/ LockAssert(t) \/ LockGet(t) \/ LockCas(t) \/ LockSetId(t)
  \/ TryCas(t)
  \/ UnlockEnter(t) \/ UnlockClearId(t) \/ UnlockRead(t) \/ UnlockWrite(t)

Next == \E t \in Threads : LockEnter(t) \/ TryGet(t) \/ Step(t)

Spec == Init /\ [][Next]_vars

FairSpec == Spec /\ \A t \in Threads : WF_vars(Step(t))

-----------------------------------------------------------------------------
Holds(t) == how[t] # "no" \/ pc[t] = "lk_setid"

\* The type invariant of the lock words and of the threads' local state.
TypeOK ==
  /\ flag \in 0 .. FlagMod - 1
  /\ id \in InitId \cup {Nobody} \cup {GetId[t] : t \in Threads}
  /\ pc \in [Threads -> Labels]
  /\ reg \in [Threads -> 0 .. FlagMod - 1]
  /\ how \in [Threads -> {"no", "lock", "try"}]

\* At most one thread is between a successful compare-and-swap of Lock() or
\* Trylock() and the write of _flag in Unlock(), with any wrap-around of the
\* counter and any number of stale copies of it.
MutualExclusion == \A s, t \in Threads : Holds(s) /\ Holds(t) => s = t

\* The parity of _flag says whether the lock is held: what IsLocked() and
\* the assertion of Unlock() rely on.
ParityIsHeld == Odd(flag) <=> \E t \in Threads : Holds(t)

\* The read-modify-write of _flag in Unlock() is not atomic; nobody changes
\* _flag between its two halves, so no acquisition is overwritten.
UnlockSeesCurrentFlag == \A t \in Threads : pc[t] = "ul_write" => reg[t] = flag

\* The assertion of Unlock() never fails, and the one of Lock() fails only for
\* a thread that holds the lock and calls Lock() again: a stale or half-updated
\* _id never stops a thread that uses the lock correctly.
NoSpuriousAssert ==
  \A t \in Threads : /\ pc[t] # "ul_failed"
                     /\ pc[t] = "lk_failed" => how[t] # "no"

\* What the assertion of Lock() is for: a thread that got the lock by Lock()
\* and calls Lock() again is stopped by the assertion, it never spins on its
\* own lock.  (After Trylock(), which leaves _id alone, it would.)
RelockIsCaught ==
  \A t \in Threads : how[t] = "lock" => pc[t] \notin {"lk_get", "lk_cas"}

Spinning(t) == pc[t] \in {"lk_get", "lk_cas"}
Acquires(t) == ~Holds(t) /\ Holds(t)'

\* A thread that has the lock is inside Lock() or Trylock() again, or failed.
Reenters ==
  \E t \in Threads :
    how[t] # "no" /\ pc[t] \in {"lk_id", "lk_get", "lk_cas", "lk_failed",
                               "try_cas", "ul_failed"}

\* As long as threads keep spinning in Lock(), the lock keeps being acquired,
\* unless its holder does not come to release it: no release is lost and no
\* stale copy of _flag makes every spinner spin for ever.  (No particular
\* thread is promised the lock: SpinLock is not fair.)
LockIsHandedOut ==
  []<>(\E t \in Threads : Spinning(t)) /\ <>[]~Reenters
    => []<><<\E t \in Threads : Acquires(t)>>_vars
=============================================================================
