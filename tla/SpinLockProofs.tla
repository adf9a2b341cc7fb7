--------------------------- MODULE SpinLockProofs ---------------------------
(***************************************************************************)
(* Theorems about SpinLock, for any number of threads and any even width   *)
(* of the counter: mutual exclusion, what the parity of _flag means, that  *)
(* the assertions of Lock() and Unlock() fire only on misuse and always on *)
(* a repeated Lock().                                                      *)
(***************************************************************************)
EXTENDS SpinLock, TLAPS

\* The counter stays in its range, and adding one flips its parity even where
\* it wraps, because the modulus is even.
LEMMA SuccFlipsParity ==
  ASSUME NEW n \in 0 .. FlagMod - 1
  PROVE  /\ Succ(n) \in 0 .. FlagMod - 1
         /\ Odd(Succ(n)) <=> ~Odd(n)
<1>1. FlagMod \in Nat \ {0} /\ FlagMod % 2 = 0
  BY SpinLockAssumption
<1>2. CASE n + 1 < FlagMod
  <2>1. Succ(n) = n + 1
    BY <1>1, <1>2 DEF Succ
  <2> QED
    BY <1>1, <1>2, <2>1 DEF Odd
<1>3. CASE n + 1 = FlagMod
  <2>1. Succ(n) = 0
    BY <1>1, <1>3 DEF Succ
  <2> QED
    BY <1>1, <1>3, <2>1 DEF Odd
<1> QED
  BY <1>1, <1>2, <1>3

LEMMA ZeroIsEven == 0 \in 0 .. FlagMod - 1 /\ ~Odd(0)
  BY SpinLockAssumption DEF Odd

\* The type invariant holds in every reachable state.
THEOREM TypeCorrect == Spec => []TypeOK
<1>1. Init => TypeOK
  BY ZeroIsEven DEF Init, TypeOK, Labels
<1>2. TypeOK /\ [Next]_vars => TypeOK'
  <2> SUFFICES ASSUME TypeOK, [Next]_vars PROVE TypeOK'
    OBVIOUS
  <2> USE DEF TypeOK, Goto, Labels
  <2>1. ASSUME NEW t \in Threads, LockEnter(t) PROVE TypeOK'
    BY <2>1 DEF LockEnter
  <2>2. ASSUME NEW t \in Threads, TryGet(t) PROVE TypeOK'
    BY <2>2 DEF TryGet
  <2>3. ASSUME NEW t \in Threads, LockAssert(t) PROVE TypeOK'
    BY <2>3 DEF LockAssert
  <2>4. ASSUME NEW t \in Threads, LockGet(t) PROVE TypeOK'
    BY <2>4 DEF LockGet
  <2>5. ASSUME NEW t \in Threads, LockCas(t) PROVE TypeOK'
    BY <2>5, SuccFlipsParity DEF LockCas
  <2>6. ASSUME NEW t \in Threads, LockSetId(t) PROVE TypeOK'
    BY <2>6 DEF LockSetId
  <2>7. ASSUME NEW t \in Threads, TryCas(t) PROVE TypeOK'
    BY <2>7, SuccFlipsParity DEF TryCas
  <2>8. ASSUME NEW t \in Threads, UnlockEnter(t) PROVE TypeOK'
    BY <2>8 DEF UnlockEnter
  <2>9. ASSUME NEW t \in Threads, UnlockClearId(t) PROVE TypeOK'
    BY <2>9 DEF UnlockClearId
  <2>10. ASSUME NEW t \in Threads, UnlockRead(t) PROVE TypeOK'
    BY <2>10 DEF UnlockRead
  <2>11. ASSUME NEW t \in Threads, UnlockWrite(t) PROVE TypeOK'
    BY <2>11, SuccFlipsParity DEF UnlockWrite
  <2>12. CASE UNCHANGED vars
    BY <2>12 DEF vars
  <2> QED
    BY <2>1, <2>2, <2>3, <2>4, <2>5, <2>6, <2>7, <2>8, <2>9, <2>10, <2>11,
       <2>12 DEF Next, Step
<1> QED
  BY <1>1, <1>2, PTL DEF Spec

-----------------------------------------------------------------------------
\* A thread inside Unlock() holds the lock.
UnlockersHold ==
  \A t \in Threads : pc[t] \in {"ul_id", "ul_read", "ul_write"} => how[t] # "no"

\* The inductive invariant behind mutual exclusion.  The parity of _flag is
\* what makes a compare-and-swap on an even value safe; the parity in turn is
\* kept because the increment of Unlock() writes the successor of the current
\* value, which nobody can change while the lock is held.
LockInv ==
  /\ MutualExclusion
  /\ ParityIsHeld
  /\ UnlockSeesCurrentFlag
  /\ UnlockersHold

LEMMA LockInvInit == Init => LockInv
  BY ZeroIsEven DEF Init, LockInv, MutualExclusion, ParityIsHeld, Holds,
     UnlockSeesCurrentFlag, UnlockersHold

LEMMA LockInvNext == TypeOK /\ LockInv /\ [Next]_vars => LockInv'
<1> SUFFICES ASSUME TypeOK, LockInv, [Next]_vars PROVE LockInv'
  OBVIOUS
<1> USE DEF TypeOK, LockInv, MutualExclusion, ParityIsHeld, Holds,
            UnlockSeesCurrentFlag, UnlockersHold, Goto
<1>1. ASSUME NEW t \in Threads, LockEnter(t) PROVE LockInv'
  BY <1>1 DEF LockEnter
<1>2. ASSUME NEW t \in Threads, TryGet(t) PROVE LockInv'
  BY <1>2 DEF TryGet
<1>3. ASSUME NEW t \in Threads, LockAssert(t) PROVE LockInv'
  BY <1>3 DEF LockAssert
<1>4. ASSUME NEW t \in Threads, LockGet(t) PROVE LockInv'
  BY <1>4 DEF LockGet
<1>5. ASSUME NEW t \in Threads, LockCas(t) PROVE LockInv'
  BY <1>5, SuccFlipsParity DEF LockCas, CasSucceeds
<1>6. ASSUME NEW t \in Threads, LockSetId(t) PROVE LockInv'
  BY <1>6 DEF LockSetId
<1>7. ASSUME NEW t \in Threads, TryCas(t) PROVE LockInv'
  BY <1>7, SuccFlipsParity DEF TryCas, CasSucceeds
<1>8. ASSUME NEW t \in Threads, UnlockEnter(t) PROVE LockInv'
  BY <1>8 DEF UnlockEnter
<1>9. ASSUME NEW t \in Threads, UnlockClearId(t) PROVE LockInv'
  BY <1>9 DEF UnlockClearId
<1>10. ASSUME NEW t \in Threads, UnlockRead(t) PROVE LockInv'
  BY <1>10 DEF UnlockRead
<1>11. ASSUME NEW t \in Threads, UnlockWrite(t) PROVE LockInv'
  BY <1>11, SuccFlipsParity DEF UnlockWrite
<1>12. CASE UNCHANGED vars
  BY <1>12 DEF vars
<1> QED
  BY <1>1, <1>2, <1>3, <1>4, <1>5, <1>6, <1>7, <1>8, <1>9, <1>10, <1>11,
     <1>12 DEF Next, Step

LEMMA LockInvCorrect == Spec => []LockInv
  BY LockInvInit, LockInvNext, TypeCorrect, PTL DEF Spec

\* At most one thread holds the lock.
THEOREM OneHolder == Spec => []MutualExclusion
  BY LockInvCorrect, PTL DEF LockInv

\* IsLocked() and the assertion of Unlock() read the parity: it is right.
THEOREM ParityCorrect == Spec => []ParityIsHeld
  BY LockInvCorrect, PTL DEF LockInv

\* No acquisition is lost in the unlocked read-modify-write of Unlock().
THEOREM UnlockLosesNothing == Spec => []UnlockSeesCurrentFlag
  BY LockInvCorrect, PTL DEF LockInv

-----------------------------------------------------------------------------
\* What the assertion of Lock() needs: the threads of the pool have different
\* numbers, and the constructor did not leave one of them in _id.
DistinctIds == \A s, t \in Threads : GetId[s] = GetId[t] => s = t
IdIsNobodys == \A t \in Threads : GetId[t] \notin InitId

\* A thread in the critical section of a lock taken by Lock(), up to the
\* write of _id in Unlock().
Recorded(t) == how[t] = "lock" /\ pc[t] \notin {"ul_read", "ul_write"}

\* The inductive invariant about _id: it names exactly the thread that took
\* the lock by Lock(), except inside Lock() and Unlock() themselves.
IdInv ==
  /\ \A t \in Threads : Recorded(t) <=> id = GetId[t]
  /\ NoSpuriousAssert
  /\ RelockIsCaught

LEMMA IdInvInit == ASSUME IdIsNobodys PROVE Init => IdInv
  BY DEF Init, IdInv, IdIsNobodys, Recorded, NoSpuriousAssert, RelockIsCaught

LEMMA IdInvNext ==
  ASSUME DistinctIds
  PROVE  TypeOK /\ LockInv /\ IdInv /\ [Next]_vars => IdInv'
<1> SUFFICES ASSUME TypeOK, LockInv, IdInv, [Next]_vars PROVE IdInv'
  OBVIOUS
<1> USE DEF TypeOK, LockInv, MutualExclusion, ParityIsHeld, UnlockersHold,
            Holds, IdInv, Recorded, NoSpuriousAssert, RelockIsCaught, Goto
<1>1. ASSUME NEW t \in Threads, LockEnter(t) PROVE IdInv'
  BY <1>1 DEF LockEnter, MayLock
<1>2. ASSUME NEW t \in Threads, TryGet(t) PROVE IdInv'
  BY <1>2 DEF TryGet
<1>3. ASSUME NEW t \in Threads, LockAssert(t) PROVE IdInv'
  BY <1>3 DEF LockAssert
<1>4. ASSUME NEW t \in Threads, LockGet(t) PROVE IdInv'
  BY <1>4 DEF LockGet
<1>5. ASSUME NEW t \in Threads, LockCas(t) PROVE IdInv'
  BY <1>5 DEF LockCas, CasSucceeds
<1>6. ASSUME NEW t \in Threads, LockSetId(t) PROVE IdInv'
  BY <1>6 DEF LockSetId, DistinctIds
<1>7. ASSUME NEW t \in Threads, TryCas(t) PROVE IdInv'
  BY <1>7 DEF TryCas, CasSucceeds
<1>8. ASSUME NEW t \in Threads, UnlockEnter(t) PROVE IdInv'
  BY <1>8 DEF UnlockEnter
<1>9. ASSUME NEW t \in Threads, UnlockClearId(t) PROVE IdInv'
  <2>1. \A s \in Threads : GetId[s] # Nobody
    BY SpinLockAssumption DEF Nobody
  <2> QED
    BY <1>9, <2>1 DEF UnlockClearId
<1>10. ASSUME NEW t \in Threads, UnlockRead(t) PROVE IdInv'
  BY <1>10 DEF UnlockRead
<1>11. ASSUME NEW t \in Threads, UnlockWrite(t) PROVE IdInv'
  BY <1>11 DEF UnlockWrite
<1>12. CASE UNCHANGED vars
  BY <1>12 DEF vars
<1> QED
  BY <1>1, <1>2, <1>3, <1>4, <1>5, <1>6, <1>7, <1>8, <1>9, <1>10, <1>11,
     <1>12 DEF Next, Step

LEMMA IdInvCorrect == ASSUME DistinctIds, IdIsNobodys PROVE Spec => []IdInv
  BY IdInvInit, IdInvNext, TypeCorrect, LockInvCorrect, PTL DEF Spec

\* On a lock whose _id starts as nobody's, the assertions never fire on a
\* thread that uses the lock correctly.
THEOREM AssertionsAreSound ==
  ASSUME DistinctIds, IdIsNobodys PROVE Spec => []NoSpuriousAssert
  BY IdInvCorrect, PTL DEF IdInv

\* There the assertion of Lock() also stops every thread that would spin on a
\* lock it took by Lock() itself.
THEOREM AssertionsAreComplete ==
  ASSUME DistinctIds, IdIsNobodys PROVE Spec => []RelockIsCaught
  BY IdInvCorrect, PTL DEF IdInv
=============================================================================
