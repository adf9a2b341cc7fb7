-------------------------- MODULE SequentialProofs --------------------------
(***************************************************************************)
(* Theorems about the code that runs on one thread at a time: Timer, for   *)
(* every range of the counter, every period and every set of waiting       *)
(* times; Function, for every set of objects, functions and addresses and  *)
(* every depth of calls; the strings of Tty, for every length of an array  *)
(* and every text; string.h, for every memory and every range of a byte;   *)
(* the numbers of Tty, for every width and base; strtoul(), for every      *)
(* length of a text and set of bases; formats, for all their parts.        *)
(***************************************************************************)
EXTENDS MCSequential, ListLemmas, Numerals

(***************************************************************************)
(* Timer: a wait is never over too early, unless the counter wraps around  *)
(* in it, and is seen to be over when it is.                               *)
(***************************************************************************)
\* A count that is less than one range away, reduced to the range.
Wrap(n) == IF n < 0 THEN n + Mod ELSE IF n < Mod THEN n ELSE n - Mod

\* Remainders are unique.
LEMMA WrapIsMod ==
  ASSUME NEW n \in Int, -Mod <= n, n < 2 * Mod
  PROVE  n % Mod = Wrap(n) /\ Wrap(n) \in 0 .. Mod - 1
<1>1. Mod \in Nat /\ Mod > 0
  BY TimerAssumption
<1>2. CASE n < 0
  BY <1>1, <1>2 DEF Wrap
<1>3. CASE 0 <= n /\ n < Mod
  BY <1>1, <1>3 DEF Wrap
<1>4. CASE Mod <= n
  BY <1>1, <1>4 DEF Wrap
<1> QED
  BY <1>1, <1>2, <1>3, <1>4

\* Division by a period never makes a number larger, and by 1 changes nothing.
LEMMA QuotientBounds ==
  ASSUME NEW n \in Nat, NEW d \in Nat \ {0}
  PROVE  n \div d \in 0 .. n
  OBVIOUS

\* A period of 1 leaves the time as it is.
LEMMA QuotientByOne == \A n \in Int : n \div 1 = n
  OBVIOUS

\* Stated on its own, as the provers are slow with products.
LEMMA ProductIsNat == \A m, n \in Nat : m * n \in Nat
  OBVIOUS

\* GetCntAfterPeriod() adds the counts of the time, whether it lies in the
\* future or, with a period of 1, in the past.
LEMMA EndOfWait ==
  ASSUME NEW us \in Waits, NEW cur \in 0 .. Mod - 1,
         period \in Periods, us >= 0 \/ period = 1
  PROVE  /\ (us * Milli) \div period \in Int
         /\ -Window < (us * Milli) \div period
         /\ (us * Milli) \div period < 14 * Window
         /\ GetCntAfterPeriod(cur, us) = Wrap(cur + (us * Milli) \div period)
<1> DEFINE p == us * Milli
           a == p \div period
<1>1. /\ Mod \in Nat /\ Window \in Nat /\ Window > 0 /\ Mod = 16 * Window
      /\ Milli \in Nat /\ us \in Int /\ period \in Nat \ {0}
  BY TimerAssumption DEF Window
<1>2. p \in Int /\ -Window < p /\ p < 14 * Window
  BY <1>1, TimerAssumption
<1>3. GetCntAfterPeriod(cur, us) = (cur + (p % Mod) \div period) % Mod
  BY DEF GetCntAfterPeriod
<1> HIDE DEF p
<1>4. CASE p >= 0
  <2>1. p % Mod = p
    BY <1>1, <1>2, <1>4, WrapIsMod DEF Wrap
  <2>2. a \in 0 .. p
    BY <1>1, <1>2, <1>4, QuotientBounds
  <2> HIDE DEF a
  <2>3. (cur + a) % Mod = Wrap(cur + a)
    BY <1>1, <1>2, <2>2, WrapIsMod
  <2>4. GetCntAfterPeriod(cur, us) = (cur + a) % Mod
    BY <1>3, <2>1 DEF a
  <2>5. a \in Int /\ -Window < a /\ a < 14 * Window
    BY <1>1, <1>2, <2>2
  <2> QED
    BY <2>3, <2>4, <2>5 DEF a, p
<1>5. CASE p < 0
  <2>1. period = 1
    <3>1. ~(us >= 0)
      <4>1. us >= 0 => us * Milli \in Nat
        BY <1>1, ProductIsNat
      <4> QED
        BY <1>5, <4>1 DEF p
    <3> QED
      BY <3>1
  <2>2. p % Mod = p + Mod
    BY <1>1, <1>2, <1>5, WrapIsMod DEF Wrap
  <2>3. a = p /\ (p % Mod) \div period = p + Mod
    BY <1>1, <1>2, <2>1, <2>2, QuotientByOne
  <2> HIDE DEF a
  <2>4. (cur + (p + Mod)) % Mod = Wrap(cur + (p + Mod))
    BY <1>1, <1>2, <1>5, WrapIsMod
  <2>5. Wrap(cur + (p + Mod)) = Wrap(cur + p)
    BY <1>1, <1>2, <1>5 DEF Wrap
  <2>6. GetCntAfterPeriod(cur, us) = Wrap(cur + a)
    BY <1>3, <2>3, <2>4, <2>5
  <2>7. a \in Int /\ -Window < a /\ a < 14 * Window
    BY <1>1, <1>2, <2>3
  <2> QED
    BY <2>6, <2>7 DEF a, p
<1> QED
  BY <1>2, <1>4, <1>5

\* The end of a wait is less than one range away from its start.
LEMMA WrapInRange ==
  \A c \in 0 .. Mod - 1, q \in Int :
    -Window < q /\ q < 14 * Window => Wrap(c + q) \in 0 .. Mod - 1
<1>1. Mod \in Nat /\ Window \in Nat /\ Window > 0 /\ Mod = 16 * Window
  BY TimerAssumption DEF Window
<1> QED
  BY <1>1 DEF Wrap

-----------------------------------------------------------------------------
\* The type invariant holds in every reachable state.
THEOREM TimerTypeCorrect == Spec => []TypeOK
<1> USE DEF TypeOK
<1>0. Mod \in Nat /\ Mod > 0 /\ Window \in Nat
  BY TimerAssumption DEF Window
<1>1. Init => TypeOK
  <2>1. 0 \in 0 .. Mod - 1 /\ 0 \in Int /\ 0 \in Nat
    BY <1>0
  <2> QED
    BY <2>1, Zenon DEF Init
<1>2. TypeOK /\ [Next]_vars => TypeOK'
  <2> SUFFICES ASSUME TypeOK, [Next]_vars PROVE TypeOK'
    OBVIOUS
  <2>1. CASE BusyUwait
    <3>1. PICK us \in Waits : /\ us >= 0 \/ period = 1
                              /\ time' = GetCntAfterPeriod(cnt, us)
                              /\ asked' = (us * Milli) \div period
      BY <2>1 DEF BusyUwait
    <3>2. asked' \in Int /\ time' = Wrap(cnt + asked')
          /\ -Window < asked' /\ asked' < 14 * Window
      BY <3>1, EndOfWait
    <3>3. time' \in 0 .. Mod - 1
      BY <3>2, WrapInRange
    <3> QED
      BY <2>1, <3>2, <3>3 DEF BusyUwait
  <2>2. CASE Tick
    <3>1. cnt' \in 0 .. Mod - 1
      BY <1>0, <2>2, WrapIsMod DEF Tick
    <3> QED
      BY <2>2, <3>1 DEF Tick
  <2>3. CASE WaitIsOver
    BY <1>0, <2>3 DEF WaitIsOver
  <2>4. CASE UNCHANGED vars
    BY <2>4 DEF vars
  <2> QED
    BY <2>1, <2>2, <2>3, <2>4 DEF Next
<1> QED
  BY <1>1, <1>2, PTL DEF Spec

-----------------------------------------------------------------------------
\* What the counter and the end of the wait are, of the count s at which the
\* wait began: neither is reduced by more than one range.
Waiting(s) ==
  /\ cnt = Wrap(s + elapsed) /\ time = Wrap(s + asked)
  /\ MayWrap \/ s + asked < Mod

\* The inductive invariant, as long as the counter is looked at in time.
WaitInv ==
  pc = "wait" =>
    /\ -Window < asked /\ asked < 14 * Window
    /\ elapsed - asked <= Window => \E s \in 0 .. Mod - 1 : Waiting(s)

\* One more count is one more before the reduction to the range.
LEMMA WrapStep ==
  \A s \in 0 .. Mod - 1, e \in Nat :
    s + e + 1 < 2 * Mod => (Wrap(s + e) + 1) % Mod = Wrap(s + (e + 1))
<1> SUFFICES ASSUME NEW s \in 0 .. Mod - 1, NEW e \in Nat, s + e + 1 < 2 * Mod
             PROVE  (Wrap(s + e) + 1) % Mod = Wrap(s + (e + 1))
  OBVIOUS
<1>1. Mod \in Nat /\ Mod > 0
  BY TimerAssumption DEF Window
<1>2. Wrap(s + e) \in 0 .. Mod - 1
  BY <1>1 DEF Wrap
<1>3. (Wrap(s + e) + 1) % Mod = Wrap(Wrap(s + e) + 1)
  BY <1>1, <1>2, WrapIsMod
<1> QED
  BY <1>1, <1>3 DEF Wrap

\* Arithmetic of a step of the counter.
LEMMA LateArithmetic ==
  \A e \in Nat, q \in Int :
    /\ (e + 1) - q <= Window => e - q <= Window
    /\ e - q <= Window /\ q < 14 * Window => e < 15 * Window
  BY TimerAssumption DEF Window

\* Every step of the program and of the counter keeps what is known of the
\* wait.
LEMMA WaitInvNext == TypeOK /\ WaitInv /\ [Next]_vars => WaitInv'
<1> SUFFICES ASSUME TypeOK, WaitInv, [Next]_vars PROVE WaitInv'
  OBVIOUS
<1>0. Mod \in Nat /\ Window \in Nat /\ Window > 0 /\ Mod = 16 * Window
  BY TimerAssumption DEF Window
<1>1. CASE BusyUwait
  <2>1. PICK us \in Waits : /\ us >= 0 \/ period = 1
                            /\ time' = GetCntAfterPeriod(cnt, us)
                            /\ asked' = (us * Milli) \div period
                            /\ MayWrap \/ cnt + asked' < Mod
    BY <1>1 DEF BusyUwait
  <2>2. asked' \in Int /\ time' = Wrap(cnt + asked')
        /\ -Window < asked' /\ asked' < 14 * Window
    BY <2>1, EndOfWait DEF TypeOK
  <2>3. cnt' = cnt /\ elapsed' = 0
    BY <1>1 DEF BusyUwait
  <2>4. cnt = Wrap(cnt + 0) /\ cnt \in 0 .. Mod - 1
    BY <1>0 DEF Wrap, TypeOK
  <2>5. \E s \in 0 .. Mod - 1 : Waiting(s)'
    BY <2>1, <2>2, <2>3, <2>4 DEF Waiting
  <2> QED
    BY <2>2, <2>5 DEF WaitInv
<1>2. CASE Tick
  <2> SUFFICES ASSUME pc = "wait", elapsed' - asked' <= Window
               PROVE  \E s \in 0 .. Mod - 1 : Waiting(s)'
    BY <1>2 DEF Tick, WaitInv
  <2>1. elapsed' = elapsed + 1 /\ asked' = asked /\ time' = time
        /\ cnt' = (cnt + 1) % Mod
    BY <1>2 DEF Tick
  <2>2. elapsed \in Nat /\ asked \in Int /\ asked < 14 * Window
    BY DEF TypeOK, WaitInv
  <2>3. elapsed - asked <= Window /\ elapsed < 15 * Window
    BY <2>1, <2>2, LateArithmetic
  <2>4. PICK s \in 0 .. Mod - 1 : Waiting(s)
    BY <2>3 DEF WaitInv
  <2>5. s + elapsed + 1 < 2 * Mod
    BY <1>0, <2>2, <2>3
  <2>6. cnt' = Wrap(s + elapsed')
    BY <2>1, <2>2, <2>4, <2>5, WrapStep DEF Waiting
  <2> QED
    BY <2>1, <2>4, <2>6 DEF Waiting
<1>3. CASE WaitIsOver
  BY <1>3 DEF WaitIsOver, WaitInv
<1>4. CASE UNCHANGED vars
  BY <1>4 DEF vars, WaitInv, Waiting
<1> QED
  BY <1>1, <1>2, <1>3, <1>4 DEF Next

\* What is known of a wait is always true.
LEMMA WaitInvHolds == Spec => []WaitInv
<1>1. Init => WaitInv
  BY DEF Init, WaitInv
<1> QED
  BY <1>1, TimerTypeCorrect, WaitInvNext, PTL DEF Spec

\* The comparison of two counts of one wait: it says yes from the end of the
\* wait on, for one window, and before the end only if the counter wrapped.
LEMMA IsGreaterOfWait ==
  \A s \in 0 .. Mod - 1, e \in Nat, q \in Int :
    -Window < q /\ q < 14 * Window =>
      /\ q <= e /\ e - q < Window => IsGreater(Wrap(s + e), Wrap(s + q))
      /\ s + q < Mod /\ e < q => ~IsGreater(Wrap(s + e), Wrap(s + q))
<1>1. Mod \in Nat /\ Window \in Nat /\ Window > 0 /\ Mod = 16 * Window
  BY TimerAssumption DEF Window
<1> QED
  BY <1>1 DEF Wrap, IsGreater

\* The end of a wait is seen, if the program looks within a window after it,
\* wherever in its range the counter was.
THEOREM SeenToBeOverHolds == Spec => []SeenToBeOver
<1>1. TypeOK /\ WaitInv => SeenToBeOver
  <2> SUFFICES ASSUME TypeOK, WaitInv, pc = "wait",
                      asked <= elapsed, elapsed - asked < Window
               PROVE  IsGreater(cnt, time)
    BY DEF SeenToBeOver
  <2>1. elapsed \in Nat /\ asked \in Int /\ Window \in Nat
    BY TimerAssumption DEF TypeOK, Window
  <2>2. PICK s \in 0 .. Mod - 1 : Waiting(s)
    BY <2>1 DEF WaitInv
  <2> QED
    BY <2>1, <2>2, IsGreaterOfWait DEF WaitInv, Waiting
<1> QED
  BY <1>1, TimerTypeCorrect, WaitInvHolds, PTL

\* BusyUwait() never returns too early, if no wait goes over the end of the
\* counter's range.
THEOREM NeverEarlyHolds == ~MayWrap => (Spec => []NeverEarly)
<1> SUFFICES ASSUME ~MayWrap PROVE Spec => []NeverEarly
  OBVIOUS
<1>1. Init => NeverEarly
  BY DEF Init, NeverEarly
<1>2. TypeOK /\ WaitInv /\ NeverEarly /\ [Next]_vars => NeverEarly'
  <2> SUFFICES ASSUME TypeOK, WaitInv, NeverEarly, [Next]_vars PROVE NeverEarly'
    OBVIOUS
  <2>1. CASE WaitIsOver
    <3>1. elapsed \in Nat /\ asked \in Int /\ Window \in Nat
      BY TimerAssumption DEF TypeOK, Window
    <3>2. ~(elapsed < asked)
      <4> SUFFICES ASSUME elapsed < asked PROVE FALSE
        OBVIOUS
      <4>1. elapsed - asked <= Window
        BY <3>1
      <4>2. PICK s \in 0 .. Mod - 1 : Waiting(s)
        BY <2>1, <4>1 DEF WaitIsOver, WaitInv
      <4>3. ~IsGreater(cnt, time)
        BY <2>1, <3>1, <4>2, IsGreaterOfWait DEF WaitIsOver, WaitInv, Waiting
      <4> QED
        BY <2>1, <4>3 DEF WaitIsOver
    <3> QED
      BY <2>1, <3>2 DEF WaitIsOver, NeverEarly
  <2>2. CASE BusyUwait \/ Tick \/ UNCHANGED vars
    BY <2>2 DEF BusyUwait, Tick, vars, NeverEarly
  <2> QED
    BY <2>1, <2>2 DEF Next
<1> QED
  BY <1>1, <1>2, TimerTypeCorrect, WaitInvHolds, PTL DEF Spec

\* What the run looks at is a behaviour of Timer, which rests where another
\* component takes the steps: what is proved of it holds there, too.
THEOREM TimerOnItsOwn == SpecAny => Spec
<1>1. InitAny => Init
  BY DEF InitAny
<1>2. [NextAny]_<<what, vars, general>> => [Next]_vars
  BY DEF NextAny
<1> QED
  BY <1>1, <1>2, PTL DEF SpecAny, Spec

-----------------------------------------------------------------------------
\* What is left of a stack of calls when the innermost one returns.
LEMMA WithoutLast ==
  ASSUME NEW R, NEW q \in Seq(R), q # << >>
  PROVE  /\ SubSeq(q, 1, Len(q) - 1) \in Seq(R)
         /\ Len(SubSeq(q, 1, Len(q) - 1)) = Len(q) - 1
         /\ DOMAIN SubSeq(q, 1, Len(q) - 1) = 1 .. Len(q) - 1
         /\ \A n \in 1 .. Len(q) - 1 : SubSeq(q, 1, Len(q) - 1)[n] = q[n]
<1> DEFINE m == Len(q) - 1
<1>1. m \in Nat /\ \A n \in 1 .. m : n \in 1 .. Len(q)
  OBVIOUS
<1>2. \A n \in 1 .. m : q[n] \in R
  BY <1>1
<1> HIDE DEF m
<1>3. /\ SubSeq(q, 1, m) \in Seq(R)
      /\ Len(SubSeq(q, 1, m)) = IF 1 <= m THEN m - 1 + 1 ELSE 0
      /\ \A i \in 1 .. m - 1 + 1 : SubSeq(q, 1, m)[i] = q[1 + i - 1]
  BY <1>1, <1>2, SubSeqProperties
<1>4. Len(SubSeq(q, 1, m)) = m /\ \A n \in 1 .. m : SubSeq(q, 1, m)[n] = q[n]
  BY <1>1, <1>3
<1>5. DOMAIN SubSeq(q, 1, m) = 1 .. m
  BY <1>3, <1>4
<1> QED BY <1>3, <1>4, <1>5 DEF m

(***************************************************************************)
(* Function: v1 is the heap, v2 what each object points to, v3 the calls   *)
(* under way, v4 whether something bad happened, v5 what is meant.         *)
(***************************************************************************)
\* Only the innermost call may not have come to the function yet; its object is
\* there, and once CanExecute() has said so, is one to be called.
CallsAreLive ==
  \A n \in DOMAIN v3 : v3[n].pc # "callee" =>
    /\ n = Len(v3) /\ C!Live(v3[n].object)
    /\ v3[n].pc = "sub" => C!Content(v3[n].object) \in Callees

\* Only a FunctionBase has a dummy.
OriginalsOwn == \A o \in Originals : v2[o] # Dummy

FunctionInv ==
  /\ OriginalsOwn /\ C!TypeOK /\ C!EachObjectHasOneOwner /\ C!CopiesAreIndependent
  /\ C!OnlyLiveFunctionsAreCalled /\ CallsAreLive

\* Originals and copies are different objects, and the null pointer is no
\* function.
LEMMA FunctionFacts ==
  /\ Originals \cap Bases = {} /\ MaxDepth \in Nat
  /\ Nullptr \notin Callees /\ NoFunction \notin Callees /\ Nullptr # NoFunction
  /\ Dummy \notin Addresses /\ Nowhere \notin Addresses /\ Dummy # Nowhere
  BY SequentialAssumption DEF C!FunctionAssumption

\* Initially no Function exists and no call is in progress.
LEMMA FunctionInvInit == C!Init => FunctionInv
<1> SUFFICES ASSUME C!Init PROVE FunctionInv
  OBVIOUS
<1> USE FunctionFacts DEF C!Init
<1>1. C!EachObjectHasOneOwner /\ C!CopiesAreIndependent /\ C!OnlyLiveFunctionsAreCalled
  BY DEF C!EachObjectHasOneOwner, C!CopiesAreIndependent, C!OnlyLiveFunctionsAreCalled,
     C!Exists
<1>2. CallsAreLive /\ OriginalsOwn
  BY DEF CallsAreLive, OriginalsOwn, C!Generic
<1>3. DOMAIN v1 = {} /\ v3 = << >> /\ Len(v3) = 0
  OBVIOUS
<1>4. C!TypeOK
  <2>1. v3 \in Seq([object : Addresses \cup {Dummy}, pc : {"can", "sub", "callee"}])
    BY <1>3
  <2>2. /\ v2 \in [C!Generic -> Addresses \cup {Dummy, Nowhere}]
        /\ v5 \in [C!Generic -> Callees \cup {Nullptr, NoFunction}]
    OBVIOUS
  <2>3. v4 \in BOOLEAN
    OBVIOUS
  <2>4. Len(v3) <= MaxDepth
    BY <1>3
  <2> HIDE DEF C!Init
  <2> QED BY <1>3, <2>1, <2>2, <2>3, <2>4 DEF C!TypeOK
<1> QED BY <1>1, <1>2, <1>4 DEF FunctionInv

\* A program that runs has come to the function of every call, so no call
\* looks at the memory.
LEMMA MemoryChanges ==
  ASSUME FunctionInv, C!Running, UNCHANGED <<v3, v4>>,
         DOMAIN v1' \subseteq Addresses,
         \A a \in DOMAIN v1' : v1'[a] \in Callees \cup {Nullptr, NoFunction},
         v2' \in [C!Generic -> Addresses \cup {Dummy, Nowhere}],
         v5' \in [C!Generic -> Callees \cup {Nullptr, NoFunction}],
         C!EachObjectHasOneOwner', C!CopiesAreIndependent', OriginalsOwn'
  PROVE  FunctionInv'
<1>1. C!TypeOK'
  BY DEF FunctionInv, C!TypeOK
<1>2. CallsAreLive'
  BY DEF FunctionInv, CallsAreLive, C!Running
<1>3. C!OnlyLiveFunctionsAreCalled'
  BY DEF FunctionInv, C!OnlyLiveFunctionsAreCalled
<1> QED BY <1>1, <1>2, <1>3 DEF FunctionInv

\* Setting, copying, clearing, destroying and calling keep what is known of
\* the calls.
LEMMA FunctionInvNext == FunctionInv /\ [C!Next]_(C!vars) => FunctionInv'
<1> SUFFICES ASSUME FunctionInv, [C!Next]_(C!vars) PROVE FunctionInv'
  OBVIOUS
<1> USE FunctionFacts
<1> DEFINE Memory == /\ DOMAIN v1' \subseteq Addresses
                     /\ \A a \in DOMAIN v1' : v1'[a] \in Callees \cup {Nullptr, NoFunction}
                     /\ v2' \in [C!Generic -> Addresses \cup {Dummy, Nowhere}]
                     /\ v5' \in [C!Generic -> Callees \cup {Nullptr, NoFunction}]
                     /\ C!EachObjectHasOneOwner' /\ C!CopiesAreIndependent'
                     /\ OriginalsOwn'
<1>0. ASSUME C!Running, UNCHANGED <<v3, v4>>, Memory PROVE FunctionInv'
  BY <1>0, MemoryChanges
<1>1. ASSUME NEW o \in Originals, C!NewFunction(o) PROVE FunctionInv'
  <2>1. PICK a \in C!Free : v1' = C!With(a, Nullptr) /\ v2' = [v2 EXCEPT ![o] = a]
    BY <1>1 DEF C!NewFunction
  <2>2. Memory
    BY <1>1, <2>1 DEF C!NewFunction, C!Free, C!With, FunctionInv, C!TypeOK, C!Generic,
       C!EachObjectHasOneOwner, C!CopiesAreIndependent, C!Exists, C!Live, C!Content, OriginalsOwn
  <2> QED BY <1>0, <1>1, <2>2 DEF C!NewFunction
<1>2. ASSUME NEW o \in Originals, NEW c \in Callees, C!InitFunction(o, c)
      PROVE  FunctionInv'
  <2>2. Memory
    BY <1>2 DEF C!InitFunction, FunctionInv, C!TypeOK, C!Generic,
       C!EachObjectHasOneOwner, C!CopiesAreIndependent, C!Exists, C!Live, C!Content, OriginalsOwn
  <2> QED BY <1>0, <1>2, <2>2 DEF C!InitFunction
<1>3. ASSUME NEW b \in Bases, C!NewBase(b) PROVE FunctionInv'
  <2>2. Memory
    BY <1>3 DEF C!NewBase, FunctionInv, C!TypeOK, C!Generic,
       C!EachObjectHasOneOwner, C!CopiesAreIndependent, C!Exists, C!Live, C!Content, OriginalsOwn
  <2> QED BY <1>0, <1>3, <2>2 DEF C!NewBase
<1>4. ASSUME NEW b \in Bases, NEW g \in C!Generic, C!Copy(b, g) PROVE FunctionInv'
  <2>1. PICK a \in Addresses \ DOMAIN C!Released(b) :
          /\ v1' = C!Duplicate(C!Released(b), g, a).heap
          /\ v2' = [v2 EXCEPT ![b] = C!Duplicate(C!Released(b), g, a).address]
    BY <1>4 DEF C!Copy
  <2>2. /\ v1' = [x \in (DOMAIN v1 \ {v2[b]}) \cup {a} |->
                    IF x = a THEN C!Content(v2[g]) ELSE v1[x]]
        /\ v2' = [v2 EXCEPT ![b] = a]
        /\ a \in Addresses /\ a \notin DOMAIN v1 \ {v2[b]}
    BY <2>1 DEF C!Duplicate, C!Released, C!Without, C!Restrict
  <2>3. /\ b \in C!Generic /\ b # g /\ C!Exists(b) /\ C!Exists(g)
        /\ v5' = [v5 EXCEPT ![b] = v5[g]]
    BY <1>4 DEF C!Copy, C!Generic
  <2>4. C!Content(v2[g]) = v5[g]
    BY <2>3 DEF FunctionInv, C!CopiesAreIndependent
  <2>5. Memory
    BY <2>2, <2>3, <2>4 DEF FunctionInv, C!TypeOK,
       C!EachObjectHasOneOwner, C!CopiesAreIndependent, C!Exists, C!Live, C!Content, OriginalsOwn
  <2> QED BY <1>0, <1>4, <2>5 DEF C!Copy
<1>5. ASSUME NEW g \in C!Generic, C!Delete(g) PROVE FunctionInv'
  <2>1. v1' = [x \in DOMAIN v1 \ {v2[g]} |-> v1[x]]
    BY <1>5 DEF C!Delete, C!Without, C!Restrict
  <2>2. Memory
    BY <1>5, <2>1 DEF C!Delete, FunctionInv, C!TypeOK,
       C!EachObjectHasOneOwner, C!CopiesAreIndependent, C!Exists, C!Live, C!Content, OriginalsOwn
  <2> QED BY <1>0, <1>5, <2>2 DEF C!Delete
<1>6. ASSUME NEW g \in C!Generic, C!Clear(g) PROVE FunctionInv'
  <2>2. Memory
    BY <1>6 DEF C!Clear, FunctionInv, C!TypeOK,
       C!EachObjectHasOneOwner, C!CopiesAreIndependent, C!Exists, C!Live, C!Content, OriginalsOwn
  <2> QED BY <1>0, <1>6, <2>2 DEF C!Clear
<1> DEFINE Calls == [object : Addresses \cup {Dummy}, pc : {"can", "sub", "callee"}]
<1>7. ASSUME UNCHANGED <<v1, v2, v5>>, v3' \in Seq(Calls), Len(v3') <= MaxDepth,
             v4' = FALSE, CallsAreLive'
      PROVE  FunctionInv'
  BY <1>7 DEF FunctionInv, C!TypeOK, C!EachObjectHasOneOwner, C!CopiesAreIndependent,
     C!OnlyLiveFunctionsAreCalled, C!Exists, C!Live, C!Content,
     OriginalsOwn
<1>8. /\ v3 \in Seq(Calls) /\ Len(v3) <= MaxDepth /\ v4 = FALSE
      /\ \A n \in DOMAIN v3 : v3[n].pc # "callee" => n = Len(v3)
  BY DEF FunctionInv, C!TypeOK, C!OnlyLiveFunctionsAreCalled, CallsAreLive
<1>a. ASSUME v3 # << >>
      PROVE  /\ C!Front(v3) \in Seq(Calls) /\ Len(C!Front(v3)) = Len(v3) - 1
             /\ \A n \in DOMAIN C!Front(v3) : /\ C!Front(v3)[n] = v3[n]
                                              /\ v3[n].pc = "callee"
  <2> HIDE DEF Calls
  <2> QED BY <1>8, <1>a, WithoutLast DEF C!Front
<1>9. ASSUME NEW g \in C!Generic, C!Execute(g) PROVE FunctionInv'
  <2>1. v3' = Append(v3, [object |-> v2[g], pc |-> "can"])
    BY <1>9 DEF C!Execute
  <2>2. C!Live(v2[g]) /\ v2[g] \in Addresses \cup {Dummy}
    BY <1>9 DEF C!Execute, FunctionInv, C!EachObjectHasOneOwner, C!Live, C!TypeOK
  <2>3. CallsAreLive'
    BY <1>8, <1>9, <2>1, <2>2 DEF C!Execute, C!Running, CallsAreLive, FunctionInv, C!Live
  <2>4. v3' \in Seq(Calls) /\ Len(v3') <= MaxDepth
    BY <1>8, <1>9, <2>1, <2>2 DEF C!Execute
  <2> QED BY <1>7, <1>8, <1>9, <2>3, <2>4 DEF C!Execute
<1>10. ASSUME v3 # << >>, v3' = C!Front(v3), UNCHANGED <<v1, v2, v4, v5>>
       PROVE  FunctionInv'
  <2>1. CallsAreLive'
    BY <1>a, <1>10 DEF CallsAreLive
  <2>2. v3' \in Seq(Calls) /\ Len(v3') <= MaxDepth /\ v4' = FALSE
    <3> HIDE DEF Calls
    <3> QED BY <1>8, <1>a, <1>10
  <2> QED BY <1>7, <1>10, <2>1, <2>2
<1>11. ASSUME v3 # << >>, NEW q \in {"sub", "callee"}, C!TopAt(q),
              UNCHANGED <<v1, v2, v4, v5>>,
              q = "sub" => C!Live(C!Top.object) /\ C!Content(C!Top.object) \in Callees
       PROVE  FunctionInv'
  <2>1. v3' = [v3 EXCEPT ![Len(v3)] = [v3[Len(v3)] EXCEPT !.pc = q]]
    BY <1>11 DEF C!TopAt
  <2>2. v3' \in Seq(Calls) /\ Len(v3') = Len(v3)
    <3>1. v3[Len(v3)] \in Calls
      <4> HIDE DEF Calls
      <4> QED BY <1>8, <1>11
    <3>2. [v3[Len(v3)] EXCEPT !.pc = q] \in Calls
      BY <3>1
    <3> HIDE DEF Calls
    <3> QED BY <1>8, <1>11, <2>1, <3>2
  <2>3. CallsAreLive'
    BY <1>8, <1>11, <2>1 DEF CallsAreLive, C!Top, FunctionInv, C!Live, C!Content, OriginalsOwn
  <2> QED BY <1>7, <1>8, <1>11, <2>2, <2>3
<1>12. v3 # << >> => Len(v3) \in DOMAIN v3 /\ C!Top = v3[Len(v3)]
  BY <1>8 DEF C!Top
<1>13. CASE C!CanExecute
  <2>1. C!Live(C!Top.object)
    BY <1>12, <1>13 DEF C!CanExecute, FunctionInv, CallsAreLive
  <2> QED BY <1>10, <1>11, <1>13, <2>1 DEF C!CanExecute, C!MayCall
<1>14. CASE C!ExecuteSub
  <2>1. C!Live(C!Top.object) /\ C!Content(C!Top.object) \in Callees
    BY <1>12, <1>14 DEF C!ExecuteSub, FunctionInv, CallsAreLive
  <2>2. v4' = v4
    BY <1>8, <1>14, <2>1 DEF C!ExecuteSub
  <2> QED BY <1>11, <1>14, <2>1, <2>2 DEF C!ExecuteSub
<1>15. CASE C!Return
  BY <1>10, <1>15 DEF C!Return
<1>16. CASE UNCHANGED C!vars
  BY <1>16 DEF C!vars, FunctionInv, C!TypeOK, C!EachObjectHasOneOwner,
     C!CopiesAreIndependent, C!OnlyLiveFunctionsAreCalled, CallsAreLive, C!Exists,
     C!Live, C!Content, OriginalsOwn
<1> QED
  BY <1>1, <1>2, <1>3, <1>4, <1>5, <1>6, <1>9, <1>13, <1>14, <1>15, <1>16 DEF C!Next

\* A function object calls what it was last given, shares its memory with no
\* other, and is there as long as a call of it looks at it.
THEOREM LiveFunctionsAreCalledHolds == SpecAny => []LiveFunctionsAreCalled
<1> DEFINE Inv == what = "function" => FunctionInv
<1>1. InitAny => Inv
  BY FunctionInvInit DEF InitAny
<1>2. Inv /\ [NextAny]_<<what, vars, general>> => Inv'
  <2> SUFFICES ASSUME Inv, [NextAny]_<<what, vars, general>>, what' = "function"
               PROVE  FunctionInv'
    OBVIOUS
  <2>1. CASE NextAny
    <3>1. what = "function" /\ C!Next
      BY <2>1 DEF NextAny
    <3> QED BY <3>1, FunctionInvNext
  <2>2. CASE UNCHANGED <<what, vars, general>>
    <3>1. what = "function" /\ UNCHANGED C!vars
      BY <2>2 DEF general, C!vars
    <3> QED BY <3>1, FunctionInvNext
  <2> QED BY <2>1, <2>2
<1>3. Inv => LiveFunctionsAreCalled
  BY DEF LiveFunctionsAreCalled, FunctionInv
<1> QED BY <1>1, <1>2, <1>3, PTL DEF SpecAny

-----------------------------------------------------------------------------
(***************************************************************************)
(* TtyString: v1 is the type, v2 the chain of arrays, v3 the text, v4 the  *)
(* place in the program, v5 and v6 where PrintString() is, v7 the output,  *)
(* v8 whether something was read that nobody wrote.                        *)
(***************************************************************************)
\* How many characters n arrays have room for.
Room(n) == n * length

\* The characters in the chain.
Filled(chain) == Room(Len(chain) - 1) + Len(chain[Len(chain)])

\* A character of the text, which Exit() ends with '\0'.
Letter(text, n) == IF n <= Len(text) THEN text[n] ELSE S!NUL

\* An array holds the characters of the text that come after the first r.
Holds(q, text, r) == \A k \in 1 .. Len(q) : q[k] = Letter(text, r + k)

\* All arrays but the last are full; they hold the text, one after the other.
ChainHolds(chain, text) ==
  \A n \in 1 .. Len(chain) :
    /\ n < Len(chain) => Len(chain[n]) = length
    /\ Len(chain[n]) <= length /\ Holds(chain[n], text, Room(n - 1))

\* Nothing is dropped but what does not fit into a String of the stack.
AllIsThere(type, chain, written) ==
  /\ type = "kQueue" => Filled(chain) = written
  /\ type = "kSingle" =>
       Len(chain) = 1 /\ Filled(chain) = IF written <= length THEN written ELSE length

\* The first n characters of the text were printed.
IsPrinted(n) ==
  Len(v7) = n /\ \A m \in 1 .. n : v7[m] = Letter(v3, m) /\ v7[m] # S!NUL

WriteInv ==
  v4 \in {"write", "print"} =>
    /\ v2 # << >> /\ ChainHolds(v2, v3)
    /\ AllIsThere(v1, v2, IF v4 = "write" THEN Len(v3) ELSE Len(v3) + 1)

PrintInv ==
  /\ v4 = "write" => v5 = 1 /\ v6 = 0 /\ v7 = << >>
  /\ v4 = "print" => /\ v5 \in DOMAIN v2 /\ v6 <= Len(v2[v5])
                     /\ IsPrinted(Room(v5 - 1) + v6)

StringInv ==
  /\ S!TypeOK /\ S!PrintsTheText /\ S!ReadsOnlyWhatWasWritten
  /\ WriteInv /\ PrintInv

\* An array has room for a character, and the '\0' is one.
LEMMA LengthFacts == length \in Nat \ {0} /\ 0 \in Chars
  BY SequentialAssumption DEF S!TtyStringAssumption, S!NUL

\* Room(n) is a natural number, and grows by one length from each n to the next.
LEMMA RoomFacts ==
  ASSUME NEW n \in Nat \ {0}
  PROVE  /\ n - 1 \in Nat /\ Room(n - 1) \in Nat /\ Room(n) \in Nat
         /\ Room(n) = Room(n - 1) + length /\ Room(0) = 0 /\ length \in Nat \ {0}
  BY LengthFacts DEF Room

\* More arrays have more room.
LEMMA RoomGrows ==
  ASSUME NEW m \in Nat, NEW n \in Nat, m <= n
  PROVE  Room(m) <= Room(n)
<1>1. length \in Nat
  BY LengthFacts
<1>2. (n - m) * length \in Nat
  BY <1>1
<1>3. n * length = m * length + (n - m) * length /\ m * length \in Nat
  BY <1>1
<1> QED BY <1>2, <1>3 DEF Room

IsArrays(chain) == chain \in Seq(Seq(Chars)) /\ chain # << >>

\* A chain of arrays is a sequence of at least one sequence of characters.
LEMMA ArraysAre ==
  ASSUME NEW chain, IsArrays(chain)
  PROVE  /\ Len(chain) \in Nat /\ Len(chain) >= 1 /\ DOMAIN chain = 1 .. Len(chain)
         /\ \A n \in 1 .. Len(chain) :
              /\ chain[n] \in Seq(Chars) /\ Len(chain[n]) \in Nat
              /\ DOMAIN chain[n] = 1 .. Len(chain[n])
<1> DEFINE R == Seq(Chars)
<1>1. chain \in Seq(R) /\ chain # << >>
  BY DEF IsArrays
<1>2. \A q \in R : Len(q) \in Nat /\ DOMAIN q = 1 .. Len(q)
  OBVIOUS
<1> HIDE DEF R
<1>3. /\ Len(chain) \in Nat /\ Len(chain) >= 1 /\ DOMAIN chain = 1 .. Len(chain)
      /\ \A n \in 1 .. Len(chain) : chain[n] \in R
  BY <1>1
<1>4. \A n \in 1 .. Len(chain) : Len(chain[n]) \in Nat /\ DOMAIN chain[n] = 1 .. Len(chain[n])
  BY <1>2, <1>3
<1> QED BY <1>3, <1>4 DEF R

\* The last array is replaced, or one is added.
IsReplaced(new, chain, q) == new = [chain EXCEPT ![Len(chain)] = q]
IsLinked(new, chain, q) == new = Append(chain, q)

\* A chain whose last array got other characters.
LEMMA ArrayReplaced ==
  ASSUME NEW chain, IsArrays(chain), NEW q \in Seq(Chars), NEW new,
         IsReplaced(new, chain, q)
  PROVE  /\ IsArrays(new) /\ Len(new) = Len(chain) /\ new[Len(chain)] = q
         /\ \A n \in 1 .. Len(chain) - 1 : new[n] = chain[n]
<1> DEFINE R == Seq(Chars)
<1>1. chain \in Seq(R) /\ chain # << >> /\ q \in R /\ new = [chain EXCEPT ![Len(chain)] = q]
  BY DEF IsArrays, IsReplaced
<1> SUFFICES /\ new \in Seq(R) /\ new # << >>
             /\ Len(new) = Len(chain) /\ new[Len(chain)] = q
             /\ \A n \in 1 .. Len(chain) - 1 : new[n] = chain[n]
  BY DEF IsArrays
<1> HIDE DEF R
<1> QED BY <1>1

\* A chain with one more array behind the last.
LEMMA ArrayLinked ==
  ASSUME NEW chain, IsArrays(chain), NEW q \in Seq(Chars), NEW new,
         IsLinked(new, chain, q)
  PROVE  /\ IsArrays(new) /\ Len(new) = Len(chain) + 1 /\ new[Len(chain) + 1] = q
         /\ \A n \in 1 .. Len(chain) : new[n] = chain[n]
<1> DEFINE R == Seq(Chars)
<1>1. chain \in Seq(R) /\ chain # << >> /\ q \in R /\ new = Append(chain, q)
  BY DEF IsArrays, IsLinked
<1> SUFFICES /\ new \in Seq(R) /\ new # << >>
             /\ Len(new) = Len(chain) + 1 /\ new[Len(chain) + 1] = q
             /\ \A n \in 1 .. Len(chain) : new[n] = chain[n]
  BY DEF IsArrays
<1> HIDE DEF R
<1> QED BY <1>1

\* Each place of the chain is a place of what was written.
LEMMA PlaceInChain ==
  ASSUME NEW chain, IsArrays(chain), NEW text, ChainHolds(chain, text),
         NEW n \in DOMAIN chain, NEW k \in DOMAIN chain[n]
  PROVE  Room(n - 1) + k \in 1 .. Filled(chain)
<1>0. PICK last : last = Len(chain)
  OBVIOUS
<1>1. /\ last = Len(chain) /\ n \in 1 .. last /\ last \in Nat \ {0} /\ n \in Nat \ {0}
      /\ DOMAIN chain = 1 .. last
  BY <1>0, ArraysAre
<1>2. /\ Len(chain[n]) \in Nat /\ k \in 1 .. Len(chain[n]) /\ Len(chain[last]) \in Nat
  BY <1>1, ArraysAre
<1>3. /\ Room(n - 1) \in Nat /\ Room(last - 1) \in Nat /\ length \in Nat
      /\ Room(n) = Room(n - 1) + length
  BY <1>1, RoomFacts
<1>4. Filled(chain) = Room(last - 1) + Len(chain[last])
  BY <1>0 DEF Filled
<1>5. CASE n = last
  BY <1>2, <1>3, <1>4, <1>5
<1>6. CASE n < last
  <2>1. Len(chain[n]) <= length
    BY DEF ChainHolds
  <2>2. Room(n) <= Room(last - 1)
    <3>1. last - 1 \in Nat /\ n <= last - 1 /\ n \in Nat
      BY <1>1, <1>6
    <3> QED BY <3>1, RoomGrows
  <2> QED BY <1>2, <1>3, <1>4, <2>1, <2>2
<1> QED BY <1>1, <1>5, <1>6

\* One more character, behind those that an array holds.
LEMMA HoldsAppend ==
  ASSUME NEW q \in Seq(Chars), NEW text, NEW r \in Nat, NEW c \in Chars,
         Holds(q, text, r), Letter(text, r + Len(q) + 1) = c
  PROVE  /\ Append(q, c) \in Seq(Chars) /\ Len(Append(q, c)) = Len(q) + 1
         /\ Holds(Append(q, c), text, r)
<1>1. /\ Append(q, c) \in Seq(Chars) /\ Len(Append(q, c)) = Len(q) + 1 /\ Len(q) \in Nat
      /\ Append(q, c)[Len(q) + 1] = c
      /\ \A k \in 1 .. Len(q) : Append(q, c)[k] = q[k]
  OBVIOUS
<1>2. ASSUME NEW k \in 1 .. Len(q) + 1 PROVE Append(q, c)[k] = Letter(text, r + k)
  <2>1. CASE k = Len(q) + 1
    <3>1. r + k = r + Len(q) + 1
      BY <1>1, <2>1
    <3> QED BY <1>1, <2>1, <3>1
  <2>2. CASE k \in 1 .. Len(q)
    BY <1>1, <2>2 DEF Holds
  <2> QED BY <1>1, <2>1, <2>2
<1> QED BY <1>1, <1>2 DEF Holds

\* A text that begins with the other is held where that one is.
LEMMA HoldsLonger ==
  ASSUME NEW chain, IsArrays(chain), NEW old \in Seq(Chars), NEW text,
         ChainHolds(chain, old), Filled(chain) \in Nat, Filled(chain) <= Len(old),
         \A m \in 1 .. Len(old) : Letter(text, m) = Letter(old, m)
  PROVE  ChainHolds(chain, text)
<1> SUFFICES ASSUME NEW n \in 1 .. Len(chain), NEW k \in 1 .. Len(chain[n])
             PROVE  chain[n][k] = Letter(text, Room(n - 1) + k)
  BY DEF ChainHolds, Holds
<1>1. n \in DOMAIN chain /\ k \in DOMAIN chain[n]
  BY ArraysAre
<1>2. Room(n - 1) + k \in 1 .. Filled(chain)
  BY <1>1, PlaceInChain
<1>3. Room(n - 1) + k \in 1 .. Len(old)
  <2>1. Len(old) \in Nat
    OBVIOUS
  <2> QED BY <1>2, <2>1
<1>4. chain[n][k] = Letter(old, Room(n - 1) + k)
  BY DEF ChainHolds, Holds
<1> QED BY <1>3, <1>4

\* An array of the new chain is not empty, or was in the old one.
NoneEmpty(new, chain) ==
  \A n \in 1 .. Len(new) :
    Len(new[n]) \in 1 .. length \/ (n \in 1 .. Len(chain) /\ new[n] = chain[n])

\* The last array grows by a character.
LEMMA ArrayIsFilled ==
  ASSUME NEW chain, IsArrays(chain), NEW text, ChainHolds(chain, text), NEW c \in Chars,
         NEW last, last = Len(chain), Len(chain[last]) < length,
         Letter(text, Filled(chain) + 1) = c,
         NEW new, IsReplaced(new, chain, Append(chain[last], c))
  PROVE  /\ IsArrays(new) /\ Len(new) = last /\ ChainHolds(new, text)
         /\ Filled(new) = Filled(chain) + 1
         /\ NoneEmpty(new, chain)
<1>1. /\ last \in Nat \ {0} /\ chain[last] \in Seq(Chars) /\ Len(chain[last]) \in Nat
      /\ Room(last - 1) \in Nat /\ length \in Nat
  <2>1. last \in Nat \ {0} /\ last \in 1 .. Len(chain)
    BY ArraysAre
  <2>2. chain[last] \in Seq(Chars) /\ Len(chain[last]) \in Nat
    BY <2>1, ArraysAre
  <2> QED BY <2>1, <2>2, RoomFacts
<1>2. Filled(chain) = Room(last - 1) + Len(chain[last])
  BY DEF Filled
<1>3. Holds(chain[last], text, Room(last - 1))
  BY <1>1 DEF ChainHolds
<1>4. PICK q : q = Append(chain[last], c)
  OBVIOUS
<1>5. Letter(text, Room(last - 1) + Len(chain[last]) + 1) = c
  BY <1>2
<1>6. q \in Seq(Chars) /\ Len(q) = Len(chain[last]) + 1 /\ Holds(q, text, Room(last - 1))
  BY <1>1, <1>3, <1>4, <1>5, HoldsAppend
<1>7. /\ IsArrays(new) /\ Len(new) = last /\ new[last] = q
      /\ \A n \in 1 .. last - 1 : new[n] = chain[n]
  <2>1. q \in Seq(Chars) /\ IsReplaced(new, chain, q)
    BY <1>4, <1>6
  <2>2. /\ IsArrays(new) /\ Len(new) = Len(chain) /\ new[Len(chain)] = q
        /\ \A n \in 1 .. Len(chain) - 1 : new[n] = chain[n]
    BY <2>1, ArrayReplaced
  <2> QED BY <2>2
<1>8. ChainHolds(new, text)
  <2> SUFFICES ASSUME NEW n \in 1 .. last
               PROVE  /\ n < last => Len(new[n]) = length
                      /\ Len(new[n]) <= length /\ Holds(new[n], text, Room(n - 1))
    BY <1>7 DEF ChainHolds
  <2>1. CASE n = last
    <3>1. Len(q) <= length
      BY <1>1, <1>6
    <3> QED BY <1>1, <1>6, <1>7, <2>1, <3>1
  <2>2. CASE n # last
    <3>1. new[n] = chain[n]
      BY <1>1, <1>7, <2>2
    <3> QED BY <3>1 DEF ChainHolds
  <2> QED BY <2>1, <2>2
<1>9. Filled(new) = Room(last - 1) + (Len(chain[last]) + 1)
  BY <1>6, <1>7 DEF Filled
<1>10. Filled(new) = Filled(chain) + 1
  BY <1>1, <1>2, <1>9
<1>11. NoneEmpty(new, chain)
  <2> SUFFICES ASSUME NEW n \in 1 .. last
               PROVE  Len(new[n]) \in 1 .. length \/ new[n] = chain[n]
    BY <1>7 DEF NoneEmpty
  <2>1. CASE n = last
    BY <1>1, <1>6, <1>7, <2>1
  <2>2. CASE n # last
    BY <1>1, <1>7, <2>2
  <2> QED BY <2>1, <2>2
<1> QED BY <1>7, <1>8, <1>10, <1>11

\* The last array is full, and the character begins a new one.
LEMMA ArrayIsAdded ==
  ASSUME NEW chain, IsArrays(chain), NEW text, ChainHolds(chain, text), NEW c \in Chars,
         NEW last, last = Len(chain), Len(chain[last]) = length,
         Letter(text, Filled(chain) + 1) = c,
         NEW q \in Seq(Chars), Len(q) = 1, q[1] = c, NEW new, IsLinked(new, chain, q)
  PROVE  /\ IsArrays(new) /\ Len(new) = last + 1 /\ ChainHolds(new, text)
         /\ Filled(new) = Filled(chain) + 1
         /\ NoneEmpty(new, chain)
<1>1. /\ last \in Nat \ {0} /\ length \in Nat \ {0}
      /\ Room(last - 1) \in Nat /\ Room(last) \in Nat /\ Room(last) = Room(last - 1) + length
  <2>1. last \in Nat \ {0}
    BY ArraysAre
  <2> QED BY <2>1, RoomFacts
<1>2. Filled(chain) = Room(last)
  BY <1>1 DEF Filled
<1>5. Holds(q, text, Room(last))
  BY <1>2 DEF Holds
<1>6. /\ IsArrays(new) /\ Len(new) = last + 1 /\ new[last + 1] = q
      /\ \A n \in 1 .. last : new[n] = chain[n]
  <2>1. /\ IsArrays(new) /\ Len(new) = Len(chain) + 1 /\ new[Len(chain) + 1] = q
        /\ \A n \in 1 .. Len(chain) : new[n] = chain[n]
    BY ArrayLinked
  <2> QED BY <2>1
<1>7. ChainHolds(new, text)
  <2> SUFFICES ASSUME NEW n \in 1 .. last + 1
               PROVE  /\ n < last + 1 => Len(new[n]) = length
                      /\ Len(new[n]) <= length /\ Holds(new[n], text, Room(n - 1))
    BY <1>6 DEF ChainHolds
  <2>1. CASE n = last + 1
    <3>1. n - 1 = last
      BY <1>1, <2>1
    <3>2. ~(n < last + 1)
      BY <1>1, <2>1
    <3>3. Len(new[n]) <= length
      <4>1. Len(new[n]) = 1
        BY <1>6, <2>1
      <4> QED BY <1>1, <4>1
    <3> QED BY <1>5, <1>6, <2>1, <3>1, <3>2, <3>3
  <2>2. CASE n \in 1 .. last
    <3>1. new[n] = chain[n]
      BY <1>6, <2>2
    <3>2. Len(chain[n]) = length
      BY <1>1, <2>2 DEF ChainHolds
    <3>3. Holds(chain[n], text, Room(n - 1))
      BY <2>2 DEF ChainHolds
    <3> QED BY <1>1, <3>1, <3>2, <3>3
  <2> QED BY <1>1, <2>1, <2>2
<1>8. Filled(new) = Filled(chain) + 1
  <2>1. (last + 1) - 1 = last
    BY <1>1
  <2> QED BY <1>2, <1>6, <2>1 DEF Filled
<1>9. NoneEmpty(new, chain)
  <2> SUFFICES ASSUME NEW n \in 1 .. last + 1
               PROVE  Len(new[n]) \in 1 .. length \/ (n \in 1 .. last /\ new[n] = chain[n])
    BY <1>6 DEF NoneEmpty
  <2>1. CASE n = last + 1
    <3>1. Len(new[n]) = 1
      BY <1>6, <2>1
    <3> QED BY <1>1, <3>1
  <2>2. CASE n \in 1 .. last
    BY <1>6, <2>2
  <2> QED BY <1>1, <2>1, <2>2
<1> QED BY <1>6, <1>7, <1>8, <1>9

PutTo(type, chain, c) ==
  LET n == Len(chain)
  IN  IF ~S!IsFull(chain[n]) THEN [chain EXCEPT ![n] = Append(@, c)]
      ELSE IF type = "kQueue" THEN Append(chain, <<c>>) ELSE chain

\* Write() of a character, be it of the text or the '\0' at its end.
LEMMA PutHolds ==
  ASSUME NEW type \in {"kSingle", "kQueue"},
         NEW chain, IsArrays(chain), NEW old \in Seq(Chars),
         ChainHolds(chain, old), AllIsThere(type, chain, Len(old)),
         NEW c \in Chars, NEW new, new = PutTo(type, chain, c), NEW text,
         \A m \in 1 .. Len(old) : Letter(text, m) = Letter(old, m),
         Letter(text, Len(old) + 1) = c
  PROVE  /\ IsArrays(new)
         /\ ChainHolds(new, text) /\ AllIsThere(type, new, Len(old) + 1)
         /\ NoneEmpty(new, chain)
<1>0. PICK last : last = Len(chain)
  OBVIOUS
<1>1. /\ last \in Nat \ {0} /\ Len(chain[last]) \in Nat /\ Len(old) \in Nat
      /\ length \in Nat \ {0} /\ Room(last - 1) \in Nat /\ Room(0) = 0
  BY <1>0, ArraysAre, RoomFacts
<1>2. Len(chain[last]) <= length
  BY <1>0, <1>1 DEF ChainHolds
<1>3. Filled(chain) = Room(last - 1) + Len(chain[last])
  BY <1>0 DEF Filled
<1>4. Filled(chain) \in Nat /\ Filled(chain) <= Len(old)
  BY <1>1, <1>3 DEF AllIsThere
<1>5. ChainHolds(chain, text)
  BY <1>4, HoldsLonger
<1>6. CASE ~S!IsFull(chain[last])
  <2>1. Len(chain[last]) < length
    BY <1>1, <1>2, <1>6 DEF S!IsFull
  <2>2. IsReplaced(new, chain, Append(chain[last], c))
    BY <1>0, <1>6 DEF PutTo, IsReplaced
  <2>3. Filled(chain) = Len(old)
    <3>1. CASE type = "kSingle"
      <4>1. last = 1 /\ Filled(chain) = Len(chain[last])
        BY <1>0, <1>1, <1>3, <3>1 DEF AllIsThere
      <4> QED BY <1>1, <2>1, <3>1, <4>1 DEF AllIsThere
    <3>2. CASE type = "kQueue"
      BY <3>2 DEF AllIsThere
    <3> QED BY <3>1, <3>2
  <2>4. /\ IsArrays(new) /\ Len(new) = last /\ ChainHolds(new, text)
        /\ Filled(new) = Filled(chain) + 1
        /\ NoneEmpty(new, chain)
    <3>1. Letter(text, Filled(chain) + 1) = c
      BY <2>3
    <3> QED BY <1>0, <1>5, <2>1, <2>2, <3>1, ArrayIsFilled
  <2>5. AllIsThere(type, new, Len(old) + 1)
    <3>1. CASE type = "kSingle"
      <4>1. last = 1 /\ Filled(chain) = Len(chain[last])
        BY <1>0, <1>1, <1>3, <3>1 DEF AllIsThere
      <4> QED BY <1>1, <2>1, <2>3, <2>4, <3>1, <4>1 DEF AllIsThere
    <3>2. CASE type = "kQueue"
      BY <2>3, <2>4, <3>2 DEF AllIsThere
    <3> QED BY <3>1, <3>2
  <2> QED BY <1>0, <2>4, <2>5
<1>7. CASE S!IsFull(chain[last]) /\ type = "kQueue"
  <2>1. new = Append(chain, <<c>>) /\ Len(chain[last]) = length
    BY <1>0, <1>7 DEF PutTo, S!IsFull
  <2>2. PICK q : q = <<c>>
    OBVIOUS
  <2>3. Filled(chain) = Len(old)
    BY <1>7 DEF AllIsThere
  <2>4. /\ IsArrays(new) /\ Len(new) = last + 1 /\ ChainHolds(new, text)
        /\ Filled(new) = Filled(chain) + 1
        /\ NoneEmpty(new, chain)
    <3>1. Letter(text, Filled(chain) + 1) = c
      BY <2>3
    <3>2. IsLinked(new, chain, q)
      BY <2>1, <2>2 DEF IsLinked
    <3>3. q \in Seq(Chars) /\ Len(q) = 1 /\ q[1] = c
      BY <2>2
    <3>4. Len(chain[last]) = length
      BY <2>1
    <3> QED BY <1>0, <1>5, <3>1, <3>2, <3>3, <3>4, ArrayIsAdded
  <2>5. AllIsThere(type, new, Len(old) + 1)
    BY <1>7, <2>3, <2>4 DEF AllIsThere
  <2> QED BY <1>0, <2>4, <2>5
<1>8. CASE S!IsFull(chain[last]) /\ type = "kSingle"
  <2>1. new = chain /\ Len(chain[last]) = length
    BY <1>0, <1>8 DEF PutTo, S!IsFull
  <2>2. last = 1 /\ Filled(chain) = length
    BY <1>0, <1>1, <1>3, <1>8, <2>1 DEF AllIsThere
  <2>3. AllIsThere(type, new, Len(old) + 1)
    <3>1. Len(new) = 1 /\ Filled(new) = length
      BY <1>0, <2>1, <2>2
    <3>2. length <= Len(old) /\ ~(Len(old) + 1 <= length) /\ type # "kQueue"
      BY <1>1, <1>4, <1>8, <2>2
    <3> QED BY <3>1, <3>2 DEF AllIsThere
  <2>4. NoneEmpty(new, chain)
    BY <2>1 DEF NoneEmpty
  <2> QED BY <1>5, <2>1, <2>3, <2>4
<1> QED BY <1>6, <1>7, <1>8

\* The part of a text before its first '\0', when one knows where that is.
LEMMA CutAtNul ==
  ASSUME NEW cut \in Seq(Chars), NEW o \in Seq(Chars), NEW P \in Nat,
         P <= Len(cut), Len(o) = P,
         \A m \in 1 .. P : o[m] = cut[m] /\ cut[m] # S!NUL,
         P < Len(cut) => cut[P + 1] = S!NUL
  PROVE  o = S!UpToNul(cut)
<1> DEFINE ends == {n \in DOMAIN cut : cut[n] = S!NUL}
<1>1. DOMAIN cut = 1 .. Len(cut) /\ Len(cut) \in Nat
  OBVIOUS
<1>2. S!UpToNul(cut) = IF ends = {} THEN cut
                       ELSE SubSeq(cut, 1, (CHOOSE n \in ends : \A m \in ends : n <= m) - 1)
  BY DEF S!UpToNul
<1>3. CASE P = Len(cut)
  <2>1. ends = {}
    BY <1>1, <1>3
  <2>2. o = cut
    <3>1. Len(o) = Len(cut) /\ \A m \in 1 .. Len(o) : o[m] = cut[m]
      BY <1>3
    <3> QED BY <3>1, SeqEqual
  <2> QED BY <1>2, <2>1, <2>2
<1>4. CASE P < Len(cut)
  <2>1. P + 1 \in ends /\ \A m \in ends : P + 1 <= m
    BY <1>1, <1>4
  <2>2. ASSUME NEW n \in ends, \A m \in ends : n <= m PROVE n = P + 1
    BY <1>1, <2>1, <2>2
  <2>3. (CHOOSE n \in ends : \A m \in ends : n <= m) = P + 1
    <3> HIDE DEF ends
    <3> QED BY <2>1, <2>2
  <2>4. S!UpToNul(cut) = SubSeq(cut, 1, P)
    <3>1. ends # {} /\ (P + 1) - 1 = P
      BY <2>1
    <3> HIDE DEF ends
    <3> QED BY <1>2, <2>3, <3>1
  <2>5. /\ SubSeq(cut, 1, P) \in Seq(Chars) /\ Len(SubSeq(cut, 1, P)) = P
        /\ \A m \in 1 .. P : SubSeq(cut, 1, P)[m] = cut[m]
    <3>1. \A n \in 1 .. P : cut[n] \in Chars
      BY <1>1, <1>4
    <3>2. /\ SubSeq(cut, 1, P) \in Seq(Chars)
          /\ Len(SubSeq(cut, 1, P)) = IF 1 <= P THEN P - 1 + 1 ELSE 0
          /\ \A m \in 1 .. P - 1 + 1 : SubSeq(cut, 1, P)[m] = cut[1 + m - 1]
      BY <3>1, SubSeqProperties
    <3> QED BY <3>2
  <2>6. Len(o) = Len(SubSeq(cut, 1, P)) /\ \A m \in 1 .. Len(o) : o[m] = SubSeq(cut, 1, P)[m]
    BY <2>5
  <2>7. o = SubSeq(cut, 1, P)
    BY <2>5, <2>6, SeqEqual
  <2> QED BY <2>4, <2>7
<1>5. P = Len(cut) \/ P < Len(cut)
  <2>1. P \in Nat /\ Len(cut) \in Nat /\ P <= Len(cut)
    BY <1>1
  <2> QED BY ONLY <2>1
<1> QED BY <1>3, <1>4, <1>5

\* Initially the String is one empty array.
LEMMA StringInvInit == S!Init => StringInv
<1> SUFFICES ASSUME S!Init PROVE StringInv
  OBVIOUS
<1>1. length \in Nat \ {0} /\ Room(0) = 0
  BY LengthFacts DEF Room
<1>2. /\ v1 \in {"kSingle", "kQueue"} /\ v2 = << << >> >> /\ v3 = << >> /\ v4 = "write"
      /\ v5 = 1 /\ v6 = 0 /\ v7 = << >> /\ v8 = FALSE
  BY DEF S!Init
<1>3. v2 \in Seq(Seq(Chars)) /\ Len(v2) = 1 /\ v2[1] = << >> /\ v2 # << >>
  BY <1>2
<1>4. Len(v2[1]) = 0 /\ Len(v3) = 0 /\ v3 \in Seq(Chars) /\ v7 \in Seq(Chars \ {S!NUL})
  BY <1>2, <1>3
<1>5. Filled(v2) = 0
  BY <1>1, <1>3, <1>4 DEF Filled
<1>6. ChainHolds(v2, v3)
  BY <1>1, <1>3, <1>4 DEF ChainHolds, Holds
<1>7. AllIsThere(v1, v2, 0)
  BY <1>1, <1>3, <1>5 DEF AllIsThere
<1>8. WriteInv /\ PrintInv
  BY <1>2, <1>3, <1>4, <1>6, <1>7 DEF WriteInv, PrintInv
<1>9. S!TypeOK
  <2>1. v5 \in Nat \ {0} /\ v6 \in 0 .. length
    BY <1>1, <1>2
  <2>2. v8 \in BOOLEAN /\ \A n \in DOMAIN v2 : v2 = << << >> >>
    BY <1>2, Zenon
  <2> QED BY <1>2, <1>3, <1>4, <2>1, <2>2, Zenon DEF S!TypeOK
<1> QED BY <1>2, <1>8, <1>9 DEF StringInv, S!PrintsTheText, S!ReadsOnlyWhatWasWritten

\* What is written is one character longer, or complete.
LEMMA PutKeepsType ==
  ASSUME NEW type \in {"kSingle", "kQueue"},
         NEW chain, IsArrays(chain), NEW new, IsArrays(new), NoneEmpty(new, chain),
         \A n \in 1 .. Len(chain) : Len(chain[n]) \in 1 .. length \/ chain = << << >> >>,
         NEW text, NEW written \in Nat,
         ChainHolds(new, text), AllIsThere(type, new, written + 1)
  PROVE  \A n \in 1 .. Len(new) : Len(new[n]) \in 1 .. length
<1> SUFFICES ASSUME NEW n \in 1 .. Len(new), Len(new[n]) \notin 1 .. length PROVE FALSE
  OBVIOUS
<1>1. n \in 1 .. Len(chain) /\ new[n] = chain[n]
  BY DEF NoneEmpty
<1>2. chain = << << >> >>
  BY <1>1
<1>3. Len(chain) = 1 /\ Len(chain[1]) = 0
  BY <1>2
<1>4. n = 1 /\ Len(new[1]) = 0
  BY <1>1, <1>3
<1>5. length \in Nat \ {0} /\ Room(0) = 0
  BY LengthFacts DEF Room
<1>6. Len(new) = 1
  <2>1. Len(new) \in Nat \ {0}
    BY ArraysAre
  <2>2. 1 < Len(new) => Len(new[1]) = length
    BY <1>4 DEF ChainHolds
  <2> QED BY <1>4, <1>5, <2>1, <2>2
<1>7. Filled(new) = 0
  BY <1>4, <1>5, <1>6 DEF Filled
<1> QED BY <1>5, <1>7 DEF AllIsThere

\* What is true of the arrays, in the state.
LEMMA ChainIsArrays ==
  StringInv /\ v4 \in {"write", "print"} =>
    /\ IsArrays(v2) /\ ChainHolds(v2, v3)
    /\ v1 \in {"kSingle", "kQueue"} /\ v3 \in Seq(Chars) /\ Len(v3) \in Nat
    /\ \A n \in 1 .. Len(v2) : Len(v2[n]) \in 1 .. length \/ v2 = << << >> >>
    /\ AllIsThere(v1, v2, IF v4 = "write" THEN Len(v3) ELSE Len(v3) + 1)
<1> SUFFICES ASSUME StringInv, v4 \in {"write", "print"}
             PROVE  /\ IsArrays(v2) /\ ChainHolds(v2, v3)
                    /\ v1 \in {"kSingle", "kQueue"} /\ v3 \in Seq(Chars) /\ Len(v3) \in Nat
                    /\ \A n \in 1 .. Len(v2) : Len(v2[n]) \in 1 .. length \/ v2 = << << >> >>
                    /\ AllIsThere(v1, v2, IF v4 = "write" THEN Len(v3) ELSE Len(v3) + 1)
  OBVIOUS
<1>1. IsArrays(v2)
  BY Zenon DEF StringInv, S!TypeOK, WriteInv, IsArrays
<1>2. DOMAIN v2 = 1 .. Len(v2)
  BY <1>1, ArraysAre
<1>3. \A n \in 1 .. Len(v2) : Len(v2[n]) \in 1 .. length \/ v2 = << << >> >>
  BY <1>2, Zenon DEF StringInv, S!TypeOK
<1>4. v1 \in {"kSingle", "kQueue"} /\ v3 \in Seq(Chars)
  BY Zenon DEF StringInv, S!TypeOK
<1>5. ChainHolds(v2, v3) /\ AllIsThere(v1, v2, IF v4 = "write" THEN Len(v3) ELSE Len(v3) + 1)
  BY Zenon DEF StringInv, WriteInv
<1>6. Len(v3) \in Nat
  BY <1>4
<1> QED BY <1>1, <1>3, <1>4, <1>5, <1>6

\* Write() keeps the invariant: it fills the last array, links one, or drops
\* the character.
LEMMA WriteHolds == StringInv /\ S!Write => StringInv'
<1> SUFFICES ASSUME StringInv, S!Write PROVE StringInv'
  OBVIOUS
<1>1. /\ v4 = "write" /\ v4' = "write" /\ v1' = v1 /\ v5' = v5 /\ v6' = v6 /\ v7' = v7 /\ v8' = v8
  BY DEF S!Write
<1>2. PICK c \in Chars : v2' = PutTo(v1, v2, c) /\ v3' = Append(v3, c)
  BY Zenon DEF S!Write, S!Put, PutTo
<1>3. /\ IsArrays(v2) /\ ChainHolds(v2, v3) /\ AllIsThere(v1, v2, Len(v3))
      /\ v1 \in {"kSingle", "kQueue"} /\ v3 \in Seq(Chars) /\ Len(v3) \in Nat
      /\ \A n \in 1 .. Len(v2) : Len(v2[n]) \in 1 .. length \/ v2 = << << >> >>
  BY <1>1, ChainIsArrays
<1>4. v3' \in Seq(Chars) /\ Len(v3') = Len(v3) + 1
  BY <1>2, <1>3
<1>5. /\ \A m \in 1 .. Len(v3) : Letter(v3', m) = Letter(v3, m)
      /\ Letter(v3', Len(v3) + 1) = c
  BY <1>2, <1>3, <1>4 DEF Letter
<1>6. PICK new : new = v2'
  OBVIOUS
<1>7. PICK text : text = v3'
  OBVIOUS
<1>8. /\ IsArrays(new) /\ ChainHolds(new, text) /\ AllIsThere(v1, new, Len(v3) + 1)
      /\ NoneEmpty(new, v2)
  <2>1. /\ \A m \in 1 .. Len(v3) : Letter(text, m) = Letter(v3, m)
        /\ Letter(text, Len(v3) + 1) = c
    BY <1>5, <1>7
  <2>2. new = PutTo(v1, v2, c)
    BY <1>2, <1>6
  <2> QED BY <1>3, <2>1, <2>2, PutHolds
<1>9. \A n \in 1 .. Len(new) : Len(new[n]) \in 1 .. length
  BY <1>3, <1>8, PutKeepsType
<1>10. WriteInv'
  <2>1. new # << >>
    BY <1>8 DEF IsArrays
  <2> QED BY <1>1, <1>4, <1>6, <1>7, <1>8, <2>1 DEF WriteInv
<1>11. PrintInv'
  BY <1>1 DEF PrintInv, StringInv
<1>12. S!TypeOK'
  <2>1. new \in Seq(Seq(Chars)) /\ DOMAIN new = 1 .. Len(new)
    BY <1>8, ArraysAre DEF IsArrays
  <2>2. v2' \in Seq(Seq(Chars)) /\ \A n \in DOMAIN v2' : Len(v2'[n]) \in 1 .. length
    BY <1>6, <1>9, <2>1
  <2> QED BY <1>1, <1>4, <2>2, Zenon DEF S!TypeOK, StringInv
<1> QED
  BY <1>1, <1>10, <1>11, <1>12 DEF StringInv, S!PrintsTheText, S!ReadsOnlyWhatWasWritten

\* Exit() keeps the invariant: the '\0' is behind the text, where there is
\* room for it.
LEMMA ExitHolds == StringInv /\ S!Exit => StringInv'
<1> SUFFICES ASSUME StringInv, S!Exit PROVE StringInv'
  OBVIOUS
<1>1. /\ v4 = "write" /\ v4' = "print" /\ v1' = v1 /\ v3' = v3 /\ v5' = v5 /\ v6' = v6
      /\ v7' = v7 /\ v8' = v8
  BY DEF S!Exit
<1>2. v2' = PutTo(v1, v2, S!NUL) /\ S!NUL \in Chars
  BY LengthFacts DEF S!Exit, S!End, S!Put, PutTo, S!NUL
<1>3. /\ IsArrays(v2) /\ ChainHolds(v2, v3) /\ AllIsThere(v1, v2, Len(v3))
      /\ v1 \in {"kSingle", "kQueue"} /\ v3 \in Seq(Chars) /\ Len(v3) \in Nat
      /\ \A n \in 1 .. Len(v2) : Len(v2[n]) \in 1 .. length \/ v2 = << << >> >>
  BY <1>1, ChainIsArrays
<1>4. Letter(v3, Len(v3) + 1) = S!NUL
  BY <1>3 DEF Letter
<1>5. PICK new : new = v2'
  OBVIOUS
<1>6. /\ IsArrays(new) /\ ChainHolds(new, v3) /\ AllIsThere(v1, new, Len(v3) + 1)
      /\ NoneEmpty(new, v2)
  <2>1. new = PutTo(v1, v2, S!NUL)
    BY <1>2, <1>5
  <2> QED BY <1>2, <1>3, <1>4, <2>1, PutHolds
<1>7. \A n \in 1 .. Len(new) : Len(new[n]) \in 1 .. length
  BY <1>3, <1>6, PutKeepsType
<1>8. WriteInv'
  <2>1. new # << >>
    BY <1>6 DEF IsArrays
  <2> QED BY <1>1, <1>5, <1>6, <2>1 DEF WriteInv
<1>9. PrintInv'
  <2>1. v5 = 1 /\ v6 = 0 /\ v7 = << >> /\ Len(v7) = 0
    BY <1>1 DEF PrintInv, StringInv
  <2>2. 1 \in DOMAIN new /\ Len(new[1]) \in Nat
    <3>1. Len(new) \in Nat /\ Len(new) >= 1 /\ DOMAIN new = 1 .. Len(new)
      BY <1>6, ArraysAre
    <3>2. 1 \in 1 .. Len(new)
      BY <3>1
    <3> QED BY <1>6, <3>1, <3>2, ArraysAre
  <2>3. Room(v5 - 1) + v6 = 0
    BY <2>1, LengthFacts DEF Room
  <2>4. IsPrinted(0)'
    BY <1>1, <2>1 DEF IsPrinted
  <2>5. IsPrinted(Room(v5 - 1) + v6)'
    BY <1>1, <2>3, <2>4
  <2> QED BY <1>1, <1>5, <2>1, <2>2, <2>5 DEF PrintInv
<1>10. S!TypeOK'
  <2>1. new \in Seq(Seq(Chars)) /\ DOMAIN new = 1 .. Len(new)
    BY <1>6, ArraysAre DEF IsArrays
  <2>2. v2' \in Seq(Seq(Chars)) /\ \A n \in DOMAIN v2' : Len(v2'[n]) \in 1 .. length
    BY <1>5, <1>7, <2>1
  <2> QED BY <1>1, <2>2, Zenon DEF S!TypeOK, StringInv
<1> QED
  BY <1>1, <1>8, <1>9, <1>10 DEF StringInv, S!PrintsTheText, S!ReadsOnlyWhatWasWritten

\* The text as far as it fits into a String of the stack.
Kept == IF v1 = "kSingle" /\ Len(v3) > length THEN SubSeq(v3, 1, length) ELSE v3

\* What a String keeps is the text, or its beginning if there is no other
\* array.
LEMMA KeptIs ==
  ASSUME v3 \in Seq(Chars)
  PROVE  /\ Kept \in Seq(Chars) /\ Len(Kept) \in Nat
         /\ Len(Kept) = IF v1 = "kSingle" /\ Len(v3) > length THEN length ELSE Len(v3)
         /\ \A m \in 1 .. Len(Kept) : Kept[m] = v3[m]
<1>1. length \in Nat
  BY LengthFacts
<1>2. CASE v1 = "kSingle" /\ Len(v3) > length
  <2>1. \A n \in 1 .. length : v3[n] \in Chars
    BY <1>1, <1>2
  <2>2. /\ SubSeq(v3, 1, length) \in Seq(Chars)
        /\ Len(SubSeq(v3, 1, length)) = IF 1 <= length THEN length - 1 + 1 ELSE 0
        /\ \A m \in 1 .. length - 1 + 1 : SubSeq(v3, 1, length)[m] = v3[1 + m - 1]
    BY <1>1, <2>1, SubSeqProperties
  <2>3. Len(SubSeq(v3, 1, length)) = length
    BY <1>1, <2>2
  <2>4. \A m \in 1 .. length : SubSeq(v3, 1, length)[m] = v3[m]
    BY <1>1, <2>2
  <2> QED BY <1>1, <1>2, <2>2, <2>3, <2>4 DEF Kept
<1>3. CASE ~(v1 = "kSingle" /\ Len(v3) > length)
  BY <1>3 DEF Kept
<1> QED BY <1>2, <1>3

\* What is true of the place PrintString() is at.
LEMMA PlaceOfPrint ==
  ASSUME StringInv, v4 = "print"
  PROVE  /\ v5 \in Nat \ {0} /\ v5 <= Len(v2) /\ Len(v2) \in Nat /\ Len(v2[v5]) \in Nat
         /\ v6 \in Nat /\ v6 <= Len(v2[v5]) /\ Len(v2[v5]) <= length /\ length \in Nat \ {0}
         /\ v5 < Len(v2) => Len(v2[v5]) = length
         /\ Room(v5 - 1) \in Nat /\ Room(v5) = Room(v5 - 1) + length
         /\ Len(v7) = Room(v5 - 1) + v6 /\ IsPrinted(Room(v5 - 1) + v6)
<1>1. /\ v5 \in Nat \ {0} /\ v6 \in 0 .. length
  BY Zenon DEF StringInv, S!TypeOK
<1>2. v5 \in DOMAIN v2 /\ v6 <= Len(v2[v5]) /\ IsPrinted(Room(v5 - 1) + v6)
  BY DEF StringInv, PrintInv
<1>3. IsArrays(v2) /\ ChainHolds(v2, v3)
  BY ChainIsArrays
<1>4. v5 \in 1 .. Len(v2) /\ Len(v2) \in Nat /\ Len(v2[v5]) \in Nat
  <2>1. DOMAIN v2 = 1 .. Len(v2) /\ Len(v2) \in Nat
    BY <1>3, ArraysAre
  <2>2. v5 \in 1 .. Len(v2)
    BY <1>2, <2>1
  <2> QED BY <1>3, <2>1, <2>2, ArraysAre
<1>5. (v5 < Len(v2) => Len(v2[v5]) = length) /\ Len(v2[v5]) <= length
  BY <1>3, <1>4 DEF ChainHolds
<1>6. /\ Room(v5 - 1) \in Nat /\ Room(v5) = Room(v5 - 1) + length /\ length \in Nat \ {0}
  BY <1>1, RoomFacts
<1>7. Len(v7) = Room(v5 - 1) + v6
  BY <1>2 DEF IsPrinted
<1> QED BY <1>1, <1>2, <1>4, <1>5, <1>6, <1>7

\* The '\0', if there was room for it, is met before the end of the chain.
LEMMA EndOfChain ==
  ASSUME StringInv, v4 = "print", v5 = Len(v2), v6 = Len(v2[v5])
  PROVE  v1 = "kSingle" /\ length <= Len(v3) /\ Len(v7) = length /\ v6 = length
<1>1. /\ v1 \in {"kSingle", "kQueue"} /\ v3 \in Seq(Chars) /\ Len(v3) \in Nat
      /\ AllIsThere(v1, v2, Len(v3) + 1)
  BY ChainIsArrays
<1>2. Len(v7) = Filled(v2) /\ IsPrinted(Filled(v2))
  BY PlaceOfPrint DEF Filled
<1>3. Filled(v2) # Len(v3) + 1
  <2> SUFFICES ASSUME Filled(v2) = Len(v3) + 1 PROVE FALSE
    OBVIOUS
  <2>1. Letter(v3, Len(v3) + 1) = S!NUL
    BY <1>1 DEF Letter
  <2>2. Len(v3) + 1 \in 1 .. Filled(v2)
    BY <1>1
  <2> QED BY <1>2, <2>1, <2>2 DEF IsPrinted
<1>4. v1 = "kSingle" /\ Len(v2) = 1 /\ Filled(v2) = length /\ ~(Len(v3) + 1 <= length)
  BY <1>1, <1>3 DEF AllIsThere
<1>5. length \in Nat /\ Room(0) = 0
  BY LengthFacts DEF Room
<1>6. length <= Len(v3)
  BY <1>1, <1>4, <1>5
<1>7. v6 = length
  BY <1>4, <1>5, PlaceOfPrint DEF Filled
<1> QED BY <1>2, <1>4, <1>6, <1>7

\* Printing stops at the first '\0', or at the end of what was kept.
LEMMA StopsRight ==
  ASSUME StringInv, v4 = "print", Len(v7) <= Len(Kept),
         Len(v7) < Len(Kept) => Letter(v3, Len(v7) + 1) = S!NUL
  PROVE  v7 = S!UpToNul(Kept)
<1>1. v3 \in Seq(Chars) /\ v7 \in Seq(Chars \ {S!NUL})
  BY Zenon DEF StringInv, S!TypeOK
<1>2. PICK P : P = Len(v7)
  OBVIOUS
<1>3. PICK cut : cut = Kept
  OBVIOUS
<1>4. P \in Nat /\ v7 \in Seq(Chars)
  BY <1>1, <1>2
<1>5. /\ cut \in Seq(Chars) /\ Len(cut) \in Nat /\ Len(cut) <= Len(v3)
      /\ \A m \in 1 .. Len(cut) : cut[m] = v3[m]
  <2>1. length \in Nat /\ Len(v3) \in Nat
    BY <1>1, LengthFacts
  <2> QED BY <1>1, <1>3, <2>1, KeptIs
<1>6. \A m \in 1 .. Len(cut) : Letter(v3, m) = cut[m]
  <2>1. Len(v3) \in Nat
    BY <1>1
  <2> QED BY <1>5, <2>1 DEF Letter
<1>7. \A m \in 1 .. P : v7[m] = cut[m] /\ cut[m] # S!NUL
  <2>1. \A m \in 1 .. P : v7[m] = Letter(v3, m) /\ v7[m] # S!NUL
    BY <1>2, PlaceOfPrint DEF IsPrinted
  <2>2. \A m \in 1 .. P : m \in 1 .. Len(cut)
    BY <1>2, <1>3, <1>4, <1>5
  <2> QED BY <1>6, <2>1, <2>2
<1>8. P < Len(cut) => cut[P + 1] = S!NUL
  BY <1>2, <1>3, <1>4, <1>5, <1>6
<1>9. v7 = S!UpToNul(cut)
  BY <1>2, <1>3, <1>4, <1>5, <1>7, <1>8, CutAtNul
<1> QED BY <1>3, <1>9

\* The type invariant, of a step of PrintString().
LEMMA PrintKeepsType ==
  ASSUME StringInv, v1' = v1, v2' = v2, v3' = v3, v8' = v8,
         v4' \in {"print", "delete"}, v5' \in Nat \ {0}, v6' \in 0 .. length,
         v7' \in Seq(Chars \ {S!NUL})
  PROVE  S!TypeOK' /\ S!ReadsOnlyWhatWasWritten'
<1>1. S!TypeOK'
  BY Zenon DEF StringInv, S!TypeOK
<1> QED BY <1>1 DEF StringInv, S!ReadsOnlyWhatWasWritten

\* PrintString() prints the next character of the text or stops at its '\0'.
LEMMA PrintCharHolds == StringInv /\ S!PrintChar => StringInv'
<1> SUFFICES ASSUME StringInv, S!PrintChar PROVE StringInv'
  OBVIOUS
<1>1. /\ v4 = "print" /\ v6 < length /\ v1' = v1 /\ v2' = v2 /\ v3' = v3 /\ v5' = v5
  BY DEF S!PrintChar
<1>2. /\ IsArrays(v2) /\ ChainHolds(v2, v3) /\ v1 \in {"kSingle", "kQueue"}
      /\ v3 \in Seq(Chars) /\ Len(v3) \in Nat /\ AllIsThere(v1, v2, Len(v3) + 1)
  BY <1>1, ChainIsArrays
<1>3. PICK P : P = Room(v5 - 1) + v6
  OBVIOUS
<1>4. /\ v5 \in 1 .. Len(v2) /\ Len(v2[v5]) \in Nat /\ v6 \in Nat /\ v6 <= Len(v2[v5])
      /\ length \in Nat /\ P \in Nat /\ Len(v7) = P /\ IsPrinted(P)
      /\ (v5 < Len(v2) => Len(v2[v5]) = length)
  BY <1>1, <1>3, PlaceOfPrint
<1>5. v6 < Len(v2[v5])
  <2> SUFFICES ASSUME v6 = Len(v2[v5]) PROVE FALSE
    BY <1>4
  <2>1. v5 = Len(v2)
    BY <1>1, <1>4
  <2> QED BY <1>1, <1>4, <2>1, EndOfChain
<1>6. PICK c : c = v2[v5][v6 + 1]
  OBVIOUS
<1>7. c = Letter(v3, P + 1) /\ c \in Chars
  <2>1. v6 + 1 \in 1 .. Len(v2[v5])
    BY <1>4, <1>5
  <2>2. Holds(v2[v5], v3, Room(v5 - 1)) /\ v2[v5] \in Seq(Chars)
    BY <1>2, <1>4, ArraysAre DEF ChainHolds
  <2>3. c = Letter(v3, Room(v5 - 1) + (v6 + 1))
    BY <1>6, <2>1, <2>2 DEF Holds
  <2>4. Room(v5 - 1) + (v6 + 1) = P + 1
    BY <1>1, <1>3, <1>4, PlaceOfPrint
  <2>5. c \in Chars
    BY <1>6, <2>1, <2>2, ElementOfSeq
  <2> QED BY <2>3, <2>4, <2>5
<1>8. P + 1 <= Filled(v2) /\ Filled(v2) \in Nat
  <2>1. v5 \in DOMAIN v2 /\ v6 + 1 \in DOMAIN v2[v5]
    BY <1>2, <1>4, <1>5, ArraysAre
  <2>2. Room(v5 - 1) + (v6 + 1) \in 1 .. Filled(v2)
    BY <1>2, <2>1, PlaceInChain
  <2>3. Room(v5 - 1) \in Nat
    BY <1>1, PlaceOfPrint
  <2>4. Filled(v2) \in Nat
    BY <1>2, <1>4 DEF AllIsThere
  <2> QED BY <1>3, <1>4, <2>2, <2>3, <2>4
<1>9. v7 \in Seq(Chars \ {S!NUL})
  BY Zenon DEF StringInv, S!TypeOK
<1>10. v8' = v8
  BY <1>4, <1>5 DEF S!PrintChar
<1>11. CASE c = S!NUL
  <2>1. v4' = "delete" /\ v6' = v6 /\ v7' = v7
    BY <1>4, <1>5, <1>6, <1>11 DEF S!PrintChar, S!Ends
  <2>2. P <= Len(Kept)
    <3>1. P <= Len(v3) /\ (v1 = "kSingle" => P <= length)
      <4>1. CASE v1 = "kSingle"
        BY <1>2, <1>4, <1>8, <4>1 DEF AllIsThere
      <4>2. CASE v1 = "kQueue"
        BY <1>2, <1>4, <1>8, <4>2 DEF AllIsThere
      <4> QED BY <1>2, <4>1, <4>2
    <3> QED BY <1>2, <3>1, KeptIs
  <2>3. v7 = S!UpToNul(Kept)
    BY <1>1, <1>4, <1>7, <1>11, <2>2, StopsRight
  <2>4. S!PrintsTheText'
    BY <1>1, <2>1, <2>3 DEF S!PrintsTheText, Kept, S!UpToNul
  <2>5. S!TypeOK' /\ S!ReadsOnlyWhatWasWritten'
    <3>1. v5' \in Nat \ {0} /\ v6' \in 0 .. length
      BY <1>1, <1>4, <2>1, PlaceOfPrint
    <3> QED BY <1>1, <1>9, <1>10, <2>1, <3>1, PrintKeepsType
  <2> QED BY <2>1, <2>4, <2>5 DEF StringInv, WriteInv, PrintInv
<1>12. CASE c # S!NUL
  <2>1. v4' = "print" /\ v6' = v6 + 1 /\ v7' = Append(v7, c)
    BY <1>1, <1>4, <1>5, <1>6, <1>12 DEF S!PrintChar, S!Ends
  <2>2. /\ v7' \in Seq(Chars \ {S!NUL}) /\ Len(v7') = P + 1 /\ v7'[P + 1] = c
        /\ \A m \in 1 .. P : v7'[m] = v7[m]
    BY <1>4, <1>7, <1>9, <1>12, <2>1
  <2>3. IsPrinted(P + 1)'
    <3> SUFFICES ASSUME NEW m \in 1 .. P + 1
                 PROVE  v7'[m] = Letter(v3, m) /\ v7'[m] # S!NUL
      BY <1>1, <2>2 DEF IsPrinted, Letter
    <3>1. CASE m = P + 1
      BY <1>7, <1>12, <2>2, <3>1
    <3>2. CASE m \in 1 .. P
      BY <1>4, <2>2, <3>2 DEF IsPrinted
    <3> QED BY <1>4, <3>1, <3>2
  <2>4. PrintInv'
    <3>1. Room(v5 - 1) + (v6 + 1) = P + 1
      BY <1>1, <1>3, <1>4, PlaceOfPrint
    <3>2. v5 \in DOMAIN v2 /\ v6 + 1 <= Len(v2[v5])
      BY <1>2, <1>4, <1>5, ArraysAre
    <3>3. IsPrinted(Room(v5 - 1) + v6)'
      BY <1>1, <2>1, <2>3, <3>1 DEF IsPrinted, Room
    <3> QED BY <1>1, <2>1, <3>2, <3>3 DEF PrintInv
  <2>5. WriteInv'
    BY <1>1, <2>1 DEF StringInv, WriteInv
  <2>6. S!TypeOK' /\ S!ReadsOnlyWhatWasWritten'
    <3>1. v5' \in Nat \ {0} /\ v6' \in 0 .. length
      BY <1>1, <1>4, <2>1, PlaceOfPrint
    <3> QED BY <1>1, <1>10, <2>1, <2>2, <3>1, PrintKeepsType
  <2> QED BY <2>1, <2>4, <2>5, <2>6 DEF StringInv, S!PrintsTheText
<1> QED BY <1>11, <1>12

\* At the end of an array PrintString() has printed it as a whole.
LEMMA PrintNextHolds == StringInv /\ S!PrintNext => StringInv'
<1> SUFFICES ASSUME StringInv, S!PrintNext PROVE StringInv'
  OBVIOUS
<1>1. /\ v4 = "print" /\ v6 = length /\ v1' = v1 /\ v2' = v2 /\ v3' = v3 /\ v7' = v7 /\ v8' = v8
  BY DEF S!PrintNext
<1>2. /\ IsArrays(v2) /\ v3 \in Seq(Chars) /\ Len(v3) \in Nat
  BY <1>1, ChainIsArrays
<1>3. /\ v5 \in 1 .. Len(v2) /\ Len(v2) \in Nat /\ Len(v2[v5]) \in Nat /\ v6 <= Len(v2[v5])
      /\ Len(v2[v5]) <= length /\ length \in Nat \ {0}
      /\ Room(v5 - 1) \in Nat /\ Room(v5) = Room(v5 - 1) + length
      /\ IsPrinted(Room(v5 - 1) + v6)
  BY <1>1, PlaceOfPrint
<1>4. v7 \in Seq(Chars \ {S!NUL})
  BY Zenon DEF StringInv, S!TypeOK
<1>5. CASE v5 < Len(v2)
  <2>1. v5' = v5 + 1 /\ v6' = 0 /\ v4' = "print"
    BY <1>1, <1>5 DEF S!PrintNext
  <2>2. v5 + 1 \in 1 .. Len(v2)
    BY <1>3, <1>5
  <2>3. v5 + 1 \in DOMAIN v2 /\ Len(v2[v5 + 1]) \in Nat
    BY <1>2, <2>2, ArraysAre
  <2>4. Room((v5 + 1) - 1) + 0 = Room(v5 - 1) + v6
    <3>1. (v5 + 1) - 1 = v5
      BY <1>3
    <3> QED BY <1>1, <1>3, <3>1
  <2>5. IsPrinted(Room((v5 + 1) - 1) + 0)
    BY <1>3, <2>4
  <2>6. IsPrinted(Room(v5 - 1) + v6)'
    BY <1>1, <2>1, <2>5 DEF IsPrinted, Letter
  <2>7. PrintInv'
    BY <1>1, <2>1, <2>3, <2>6 DEF PrintInv
  <2>8. WriteInv'
    BY <1>1, <2>1 DEF StringInv, WriteInv
  <2>9. S!TypeOK' /\ S!ReadsOnlyWhatWasWritten'
    <3>1. v5' \in Nat \ {0} /\ v6' \in 0 .. length
      BY <1>3, <2>1
    <3> QED BY <1>1, <1>4, <2>1, <3>1, PrintKeepsType
  <2> QED BY <2>1, <2>7, <2>8, <2>9 DEF StringInv, S!PrintsTheText
<1>6. CASE ~(v5 < Len(v2))
  <2>1. v5' = v5 /\ v6' = v6 /\ v4' = "delete"
    BY <1>1, <1>6 DEF S!PrintNext
  <2>2. v5 = Len(v2) /\ v6 = Len(v2[v5])
    BY <1>1, <1>3, <1>6
  <2>3. v1 = "kSingle" /\ length <= Len(v3) /\ Len(v7) = length
    BY <1>1, <2>2, EndOfChain
  <2>4. Len(Kept) = length
    BY <1>2, <1>3, <2>3, KeptIs
  <2>5. v7 = S!UpToNul(Kept)
    BY <1>1, <1>3, <2>3, <2>4, StopsRight
  <2>6. S!PrintsTheText'
    BY <1>1, <2>1, <2>5 DEF S!PrintsTheText, Kept, S!UpToNul
  <2>7. S!TypeOK' /\ S!ReadsOnlyWhatWasWritten'
    <3>1. v5' \in Nat \ {0} /\ v6' \in 0 .. length
      BY <1>1, <1>3, <2>1
    <3> QED BY <1>1, <1>4, <2>1, <3>1, PrintKeepsType
  <2> QED BY <2>1, <2>6, <2>7 DEF StringInv, WriteInv, PrintInv
<1> QED BY <1>5, <1>6

\* Giving the arrays back keeps the invariant: what was printed stays.
LEMMA DeleteHolds == StringInv /\ S!Delete => StringInv'
<1> SUFFICES ASSUME StringInv, S!Delete PROVE StringInv'
  OBVIOUS
<1>1. /\ v4 = "delete" /\ v2 # << >> /\ v2' = SubSeq(v2, 1, Len(v2) - 1)
      /\ v1' = v1 /\ v3' = v3 /\ v4' = v4 /\ v5' = v5 /\ v6' = v6 /\ v7' = v7 /\ v8' = v8
  BY DEF S!Delete
<1>2. PICK R : R = Seq(Chars)
  OBVIOUS
<1>3. v2 \in Seq(R)
  BY <1>2, Zenon DEF StringInv, S!TypeOK
<1>4. /\ v2' \in Seq(R) /\ Len(v2) \in Nat /\ DOMAIN v2' = 1 .. Len(v2) - 1
      /\ \A n \in 1 .. Len(v2) - 1 : v2'[n] = v2[n]
  BY <1>1, <1>3, WithoutLast
<1>5. ASSUME NEW n \in DOMAIN v2' PROVE Len(v2'[n]) \in 1 .. length
  <2>1. n \in DOMAIN v2 /\ v2'[n] = v2[n] /\ Len(v2) # 1
    BY <1>3, <1>4, <1>5
  <2>2. v2 # << << >> >>
    BY <2>1
  <2>3. Len(v2[n]) \in 1 .. length
    BY <2>1, <2>2 DEF StringInv, S!TypeOK
  <2> QED BY <2>1, <2>3
<1>6. S!TypeOK'
  <2>1. v2' \in Seq(Seq(Chars))
    BY <1>2, <1>4
  <2> QED BY <1>1, <1>5, <2>1, Zenon DEF StringInv, S!TypeOK
<1>7. S!PrintsTheText'
  BY <1>1 DEF StringInv, S!PrintsTheText, S!UpToNul
<1> QED BY <1>1, <1>6, <1>7 DEF StringInv, WriteInv, PrintInv, S!ReadsOnlyWhatWasWritten

\* Every step of a String keeps the invariant.
LEMMA StringInvNext == StringInv /\ [S!Next]_(S!vars) => StringInv'
<1> SUFFICES ASSUME StringInv, UNCHANGED S!vars PROVE StringInv'
  BY WriteHolds, ExitHolds, PrintCharHolds, PrintNextHolds, DeleteHolds DEF S!Next
<1>1. /\ v1' = v1 /\ v2' = v2 /\ v3' = v3 /\ v4' = v4 /\ v5' = v5 /\ v6' = v6 /\ v7' = v7 /\ v8' = v8
  BY DEF S!vars
<1>2. S!TypeOK' /\ S!PrintsTheText' /\ S!ReadsOnlyWhatWasWritten'
  BY <1>1 DEF StringInv, S!TypeOK, S!PrintsTheText, S!ReadsOnlyWhatWasWritten, S!UpToNul
<1>3. WriteInv'
  BY <1>1 DEF StringInv, WriteInv
<1>4. PrintInv'
  BY <1>1 DEF StringInv, PrintInv, IsPrinted, Letter
<1> QED BY <1>2, <1>3, <1>4 DEF StringInv

\* PrintString() prints what was written up to its '\0', or what a String of
\* the stack has room for, and reads no element that was never written.
THEOREM StringPrintsTheTextHolds == SpecAny => []StringPrintsTheText
<1> DEFINE Inv == what = "string" => StringInv
<1>1. InitAny => Inv
  BY StringInvInit DEF InitAny
<1>2. Inv /\ [NextAny]_<<what, vars, general>> => Inv'
  <2> SUFFICES ASSUME Inv, [NextAny]_<<what, vars, general>>, what' = "string"
               PROVE  StringInv'
    OBVIOUS
  <2>1. CASE NextAny
    <3>1. what = "string" /\ S!Next
      BY <2>1 DEF NextAny
    <3> QED BY <3>1, StringInvNext
  <2>2. CASE UNCHANGED <<what, vars, general>>
    <3>1. what = "string" /\ UNCHANGED S!vars
      BY <2>2 DEF general, S!vars
    <3> QED BY <3>1, StringInvNext
  <2> QED BY <2>1, <2>2
<1>3. Inv => StringPrintsTheText
  BY DEF StringPrintsTheText, StringInv
<1> QED BY <1>1, <1>2, <1>3, PTL DEF SpecAny

-----------------------------------------------------------------------------
(***************************************************************************)
(* LibString: v1 is the memory, v2 the call, v3 the loop, v4, v5 and v6    *)
(* its pointers and its count, v7 what is returned.                        *)
(***************************************************************************)
\* The first d bytes at a and b are the same.
SameBytes(m, a, b, d) == \A j \in L!Span(0, d) : m[a + j] = m[b + j]

\* The memory new is m, but for the d bytes from w on, which are those of r.
Becomes(new, m, w, d, r) ==
  \A j \in L!Addr : new[j] = IF j \in L!Span(w, d) THEN r[j] ELSE m[j]

\* What memset(), strncpy() and the other copies write at each address.
Constantly(c) == [j \in Int |-> c]
Padded(m, w, b) ==
  [j \in Int |-> IF j - w < L!LenOf(m, b) THEN m[b + (j - w)] ELSE 0]
Moved(m, w, b) == [j \in Int |-> m[b + (j - w)]]

\* The call was legal, and its loop is executed, or was.
CallInv ==
  IF v3 = "idle" THEN v2 = [f |-> "none", a |-> 0, b |-> 0, n |-> 0, mem |-> v1]
  ELSE /\ v2.f \in L!Functions /\ v2.a \in L!Addr /\ v2.n \in 0 .. Size
       /\ v2.mem \in [L!Addr -> Bytes]
       /\ IF v2.f = "memset" THEN v2.b \in Bytes ELSE v2.b \in L!Addr
       /\ L!Legal(v2.mem, v2.f, v2.a, v2.b, v2.n)
       /\ \/ v3 \in {v2.f, "done"}
          \/ v2.f = "strcat" /\ v3 = "strcat_copy"
          \/ v2.f = "strncmp" /\ v3 = "beyond"

\* How far each loop is, and what it has read or written so far.
ReadInv ==
  /\ v3 = "strlen" => v6 = v4 - v2.a /\ v4 \in v2.a .. L!EndOf(v2.mem, v2.a)
  /\ v3 = "strcmp" => /\ v4 \in v2.a .. L!EndOf(v2.mem, v2.a)
                      /\ v5 \in v2.b .. L!EndOf(v2.mem, v2.b)
                      /\ v4 - v2.a = v5 - v2.b
                      /\ SameBytes(v2.mem, v2.a, v2.b, v4 - v2.a)
  /\ v3 \in {"strncmp", "memcmp"} =>
       /\ v6 <= v2.n /\ v4 = v2.a + (v2.n - v6) /\ v5 = v2.b + (v2.n - v6)
       /\ SameBytes(v2.mem, v2.a, v2.b, v2.n - v6) /\ v5 <= Size
  /\ v3 = "strcat" => v4 \in v2.a .. L!EndOf(v2.mem, v2.a) /\ v5 = v2.b
  /\ v3 \in {"strlen", "strcmp", "strncmp", "memcmp", "strcat"} => v1 = v2.mem

CountInv ==
  v3 \in {"memset", "memcpy", "strncpy"} =>
    /\ v6 <= v2.n /\ v4 = v2.a + (v2.n - v6)
    /\ v3 = "memset" => /\ v5 = v2.b
                        /\ Becomes(v1, v2.mem, v2.a, v2.n - v6, Constantly(v2.b))
    /\ v3 = "memcpy" => /\ v5 = v2.b + (v2.n - v6)
                        /\ Becomes(v1, v2.mem, v2.a, v2.n - v6, Moved(v2.mem, v2.a, v2.b))
    /\ v3 = "strncpy" =>
         /\ v5 = v2.b + (IF v2.n - v6 < L!LenOf(v2.mem, v2.b) THEN v2.n - v6
                         ELSE L!LenOf(v2.mem, v2.b))
         /\ Becomes(v1, v2.mem, v2.a, v2.n - v6, Padded(v2.mem, v2.a, v2.b))

CopyInv ==
  /\ v3 = "strcpy" =>
       /\ v5 \in v2.b .. L!EndOf(v2.mem, v2.b) /\ v4 = v2.a + (v5 - v2.b)
       /\ Becomes(v1, v2.mem, v2.a, v5 - v2.b, Moved(v2.mem, v2.a, v2.b))
  /\ v3 = "strcat_copy" =>
       LET end == L!EndOf(v2.mem, v2.a)
       IN  /\ v5 \in v2.b .. L!EndOf(v2.mem, v2.b) /\ v4 = end + (v5 - v2.b)
           /\ Becomes(v1, v2.mem, end, v5 - v2.b, Moved(v2.mem, end, v2.b))

LibInv ==
  /\ L!TypeOK /\ L!StringsAreReadToTheirEnd /\ L!OnlyTheDestinationIsWritten
  /\ L!CopiesAreExact /\ L!ComparisonsAreOrders /\ L!StrncmpUnlessEndTogether
  /\ CallInv /\ ReadInv /\ CountInv /\ CopyInv

\* Bytes are numbers below an even limit, as signed chars need it.
LEMMA SizeFacts ==
  /\ Size \in Nat \ {0} /\ ByteMod \in Nat /\ ByteMod % 2 = 0
  /\ 0 \in Bytes /\ Bytes \subseteq 0 .. ByteMod - 1
  BY SequentialAssumption DEF L!LibStringAssumption

\* The '\0' that ends a string is the first one.
LEMMA EndFacts ==
  ASSUME NEW m, NEW a \in Nat, L!IsString(m, a)
  PROVE  /\ L!EndOf(m, a) \in a .. Size - 1 /\ L!EndOf(m, a) \in Nat /\ m[L!EndOf(m, a)] = 0
         /\ \A j \in a .. L!EndOf(m, a) - 1 : m[j] # 0
         /\ L!LenOf(m, a) \in Nat /\ L!LenOf(m, a) = L!EndOf(m, a) - a
         /\ L!EndOf(m, a) = a + L!LenOf(m, a) /\ Size \in Nat
<1> DEFINE T == L!Nuls(m, a)
<1>1. T \in SUBSET Nat /\ T # {} /\ Size \in Nat
  BY SizeFacts DEF L!Nuls, L!IsString
<1>2. PICK e \in T : \A k \in T : e <= k
  <2> HIDE DEF T
  <2> QED BY <1>1, LeastOf
<1>3. e \in Nat /\ \A x \in T : (\A y \in T : x <= y) => x = e
  BY <1>1, <1>2
<1>4. L!EndOf(m, a) = e
  <2>1. L!EndOf(m, a) = CHOOSE x \in T : \A y \in T : x <= y
    BY Zenon DEF L!EndOf, L!Min
  <2> HIDE DEF T
  <2> QED BY <1>2, <1>3, <2>1
<1>5. e \in a .. Size - 1 /\ m[e] = 0
  BY DEF L!Nuls
<1>6. ASSUME NEW j \in a .. e - 1 PROVE m[j] # 0
  <2> SUFFICES ASSUME m[j] = 0 PROVE FALSE
    OBVIOUS
  <2>1. j \in T
    BY <1>1, <1>5 DEF L!Nuls
  <2> QED BY <1>2, <1>3, <2>1
<1> QED BY <1>1, <1>3, <1>4, <1>5, <1>6 DEF L!LenOf

\* One more byte of r is written.
LEMMA OneMoreByte ==
  ASSUME NEW M \in [L!Addr -> Bytes], NEW m, NEW w \in Nat, NEW d \in Nat, w + d \in L!Addr,
         NEW r, r[w + d] \in Bytes, Becomes(M, m, w, d, r),
         NEW new, new = [M EXCEPT ![w + d] = r[w + d]]
  PROVE  new \in [L!Addr -> Bytes] /\ Becomes(new, m, w, d + 1, r)
<1>1. new \in [L!Addr -> Bytes] /\ \A j \in L!Addr : new[j] = IF j = w + d THEN r[w + d] ELSE M[j]
  OBVIOUS
<1>2. ASSUME NEW j \in L!Addr
      PROVE  new[j] = IF j \in L!Span(w, d + 1) THEN r[j] ELSE m[j]
  <2>1. j \in Int /\ (j \in L!Span(w, d + 1) <=> j = w + d \/ j \in L!Span(w, d))
    BY SizeFacts DEF L!Addr, L!Span
  <2>2. M[j] = IF j \in L!Span(w, d) THEN r[j] ELSE m[j]
    BY DEF Becomes
  <2> QED BY <1>1, <2>1, <2>2
<1> QED BY <1>1, <1>2 DEF Becomes

\* A memory whose bytes were written is the old one elsewhere.
LEMMA NoByteYet ==
  ASSUME NEW m, NEW w \in Nat, NEW r
  PROVE  Becomes(m, m, w, 0, r)
  BY DEF Becomes, L!Span

\* A signed char is in the lower or the upper half of its range.
LEMMA SignedIs ==
  ASSUME NEW x \in Bytes
  PROVE  /\ L!Signed(x) \in Int /\ -ByteMod <= 2 * L!Signed(x) /\ 2 * L!Signed(x) < ByteMod
         /\ x \in Nat /\ x < ByteMod
<1>1. x \in Nat /\ x < ByteMod /\ ByteMod \in Nat /\ ByteMod % 2 = 0
  BY SizeFacts
<1>2. PICK h \in Nat : ByteMod = 2 * h /\ ByteMod \div 2 = h
  <2>1. ByteMod \div 2 \in Nat /\ ByteMod = 2 * (ByteMod \div 2)
    BY <1>1
  <2> QED BY <2>1
<1> QED BY <1>1, <1>2 DEF L!Signed

\* Different bytes differ, with and without a sign.
LEMMA SignedDiffers ==
  ASSUME NEW x \in Bytes, NEW y \in Bytes, x # y
  PROVE  L!Signed(x) # L!Signed(y)
<1>1. x \in Nat /\ x < ByteMod /\ y \in Nat /\ y < ByteMod /\ ByteMod \in Nat /\ ByteMod % 2 = 0
  BY SizeFacts
<1>2. PICK h \in Nat : ByteMod = 2 * h /\ ByteMod \div 2 = h
  <2>1. ByteMod \div 2 \in Nat /\ ByteMod = 2 * (ByteMod \div 2)
    BY <1>1
  <2> QED BY <2>1
<1> QED BY <1>1, <1>2 DEF L!Signed

\* What is true of the call while its loop is executed.
LEMMA CallFacts ==
  ASSUME LibInv, v3 # "idle"
  PROVE  /\ v2.f \in L!Functions /\ v2.a \in L!Addr /\ v2.a \in Nat /\ v2.a < Size /\ v2.n \in 0 .. Size
         /\ v2.mem \in [L!Addr -> Bytes] /\ v1 \in [L!Addr -> Bytes]
         /\ v2.f = "memset" => v2.b \in Bytes
         /\ v2.f # "memset" => v2.b \in L!Addr /\ v2.b \in Nat /\ v2.b < Size
         /\ L!Legal(v2.mem, v2.f, v2.a, v2.b, v2.n)
         /\ \/ v3 \in {v2.f, "done"}
            \/ v2.f = "strcat" /\ v3 = "strcat_copy"
            \/ v2.f = "strncmp" /\ v3 = "beyond"
         /\ Size \in Nat /\ v6 \in Nat /\ v6 <= Size /\ v7 \in -ByteMod .. ByteMod + Size
<1>1. Size \in Nat
  BY SizeFacts
<1>2. L!TypeOK /\ CallInv
  BY DEF LibInv
<1>3. v1 \in [L!Addr -> Bytes] /\ v6 \in 0 .. Size /\ v7 \in -ByteMod .. ByteMod + Size
  BY <1>2 DEF L!TypeOK
<1> QED BY <1>1, <1>2, <1>3 DEF CallInv, L!Addr

\* A step that goes on with the loop.
LEMMA LoopGoesOn ==
  ASSUME LibInv, v3 \notin {"idle", "done"}, v2' = v2, v3' = v3, v7' = v7,
         v1' \in [L!Addr -> Bytes], v4' \in 0 .. Size, v5' \in 0 .. Size \cup Bytes, v6' \in 0 .. Size,
         L!StringsAreReadToTheirEnd', L!OnlyTheDestinationIsWritten',
         ReadInv', CountInv', CopyInv', v2.f = "strncmp" => L!StrncmpUnlessEndTogether'
  PROVE  LibInv'
<1>1. L!TypeOK' 
  BY DEF LibInv, L!TypeOK
<1>2. CallInv'
  BY DEF LibInv, CallInv
<1>3. L!CopiesAreExact' /\ L!ComparisonsAreOrders'
  BY DEF L!CopiesAreExact, L!ComparisonsAreOrders
<1>4. L!StrncmpUnlessEndTogether'
  BY DEF L!StrncmpUnlessEndTogether
<1> QED BY <1>1, <1>2, <1>3, <1>4 DEF LibInv

\* A step that returns.
LEMMA CallReturns ==
  ASSUME LibInv, v3 # "idle", v2' = v2, v3' = "done", v4' = v4, v5' = v5, v6' = v6,
         v1' \in [L!Addr -> Bytes], v7' \in -ByteMod .. ByteMod + Size,
         L!OnlyTheDestinationIsWritten', L!CopiesAreExact', L!ComparisonsAreOrders',
         v2.f = "strncmp" => L!StrncmpUnlessEndTogether'
  PROVE  LibInv'
<1>1. L!TypeOK' 
  BY DEF LibInv, L!TypeOK
<1>2. CallInv'
  BY DEF LibInv, CallInv
<1>3. ReadInv' /\ CountInv' /\ CopyInv' /\ L!StringsAreReadToTheirEnd'
  BY DEF ReadInv, CountInv, CopyInv, L!StringsAreReadToTheirEnd
<1>4. L!StrncmpUnlessEndTogether'
  BY DEF L!StrncmpUnlessEndTogether
<1> QED BY <1>1, <1>2, <1>3, <1>4 DEF LibInv

\* A step that does not write.
LEMMA NothingWritten ==
  ASSUME LibInv, v1' = v1, v2' = v2
  PROVE  L!OnlyTheDestinationIsWritten'
  BY DEF LibInv, L!OnlyTheDestinationIsWritten, L!Destination

-----------------------------------------------------------------------------
\* The first difference decides, whatever comes behind it.
LEMMA FirstDifference ==
  ASSUME NEW m, NEW a \in Nat, NEW b \in Nat, NEW d \in Nat, NEW k \in Nat, d < k,
         SameBytes(m, a, b, d), m[a + d] # m[b + d],
         \A j \in 0 .. k - 1 : m[a + j] \in Bytes /\ m[b + j] \in Bytes
  PROVE  /\ L!Less(m, a, b, k, L!Signed) <=> L!Signed(m[a + d]) < L!Signed(m[b + d])
         /\ L!Less(m, a, b, k, L!Unsigned) <=> m[a + d] < m[b + d]
<1>1. d \in L!Span(0, k) /\ \A j \in L!Span(0, d) : m[a + j] = m[b + j]
  BY DEF L!Span, SameBytes
<1>2. ASSUME NEW i \in L!Span(0, k), m[a + i] # m[b + i],
             \A j \in L!Span(0, i) : m[a + j] = m[b + j]
      PROVE  i = d
  <2>1. i \notin L!Span(0, d) /\ d \notin L!Span(0, i)
    BY <1>1, <1>2
  <2> QED BY <2>1 DEF L!Span
<1>3. \A j \in L!Span(0, k) : m[a + j] \in Bytes /\ m[b + j] \in Bytes
  BY DEF L!Span
<1>4. \A x \in Bytes : L!Signed(x) \in Int /\ x \in Int
  BY SignedIs
<1>5. L!Less(m, a, b, k, L!Signed) <=> L!Signed(m[a + d]) < L!Signed(m[b + d])
  <2>1. ASSUME L!Less(m, a, b, k, L!Signed) PROVE L!Signed(m[a + d]) < L!Signed(m[b + d])
    <3>1. PICK i \in L!Span(0, k) : /\ L!Signed(m[a + i]) < L!Signed(m[b + i])
                                    /\ \A j \in L!Span(0, i) : m[a + j] = m[b + j]
      BY <2>1 DEF L!Less
    <3>2. m[a + i] # m[b + i]
      BY <1>3, <1>4, <3>1
    <3>3. i = d
      BY <1>2, <3>1, <3>2
    <3> QED BY <3>1, <3>3
  <2>2. ASSUME L!Signed(m[a + d]) < L!Signed(m[b + d]) PROVE L!Less(m, a, b, k, L!Signed)
    BY <1>1, <2>2 DEF L!Less
  <2> QED BY <2>1, <2>2
<1>6. L!Less(m, a, b, k, L!Unsigned) <=> m[a + d] < m[b + d]
  <2>1. ASSUME L!Less(m, a, b, k, L!Unsigned) PROVE m[a + d] < m[b + d]
    <3>1. PICK i \in L!Span(0, k) : /\ m[a + i] < m[b + i]
                                    /\ \A j \in L!Span(0, i) : m[a + j] = m[b + j]
      BY <2>1 DEF L!Less, L!Unsigned
    <3>2. m[a + i] # m[b + i]
      BY <1>3, <1>4, <3>1
    <3>3. i = d
      BY <1>2, <3>1, <3>2
    <3> QED BY <3>1, <3>3
  <2>2. ASSUME m[a + d] < m[b + d] PROVE L!Less(m, a, b, k, L!Unsigned)
    BY <1>1, <2>2 DEF L!Less, L!Unsigned
  <2> QED BY <2>1, <2>2
<1> QED BY <1>5, <1>6

\* Where all bytes are equal, neither text is less than the other.
LEMMA NoDifference ==
  ASSUME NEW m, NEW a \in Nat, NEW b \in Nat, NEW k \in Nat, SameBytes(m, a, b, k),
         \A j \in 0 .. k - 1 : m[a + j] \in Bytes
  PROVE  ~L!Less(m, a, b, k, L!Signed) /\ ~L!Less(m, a, b, k, L!Unsigned)
<1>1. \A i \in L!Span(0, k) : m[a + i] = m[b + i] /\ m[a + i] \in Bytes
  BY DEF SameBytes, L!Span
<1>2. \A x \in Bytes : L!Signed(x) \in Int /\ x \in Int
  BY SignedIs
<1>3. \A i \in L!Span(0, k) : ~(m[a + i] < m[b + i]) /\ ~(L!Signed(m[a + i]) < L!Signed(m[b + i]))
  BY <1>1, <1>2
<1> QED BY <1>3 DEF L!Less, L!Unsigned

\* What a comparison returns, when the bytes before it are the same: of the
\* first difference, or 0 behind the last byte.
LEMMA Compares ==
  ASSUME NEW m, NEW a \in Nat, NEW b \in Nat, NEW d \in Nat, NEW k \in Nat,
         SameBytes(m, a, b, d),
         \A j \in 0 .. k - 1 : m[a + j] \in Bytes /\ m[b + j] \in Bytes,
         NEW result,
         \/ d = k /\ result = 0
         \/ d < k /\ m[a + d] # m[b + d] /\ result = L!Signed(m[a + d]) - L!Signed(m[b + d])
         \/ d + 1 = k /\ m[a + d] = m[b + d] /\ result = 0
  PROVE  /\ result \in -ByteMod .. ByteMod
         /\ result < 0 <=> L!Less(m, a, b, k, L!Signed)
         /\ result > 0 <=> L!Less(m, b, a, k, L!Signed)
<1>1. SameBytes(m, b, a, d)
  BY DEF SameBytes
<1>2. ByteMod \in Nat
  BY SizeFacts
<1>3. CASE result = 0 /\ SameBytes(m, a, b, k)
  <2>1. SameBytes(m, b, a, k)
    BY <1>3 DEF SameBytes
  <2>2. ~L!Less(m, a, b, k, L!Signed)
    BY <1>3, NoDifference
  <2>3. ~L!Less(m, b, a, k, L!Signed)
    BY <2>1, NoDifference
  <2> QED BY <1>2, <1>3, <2>2, <2>3
<1>4. CASE d < k /\ m[a + d] # m[b + d] /\ result = L!Signed(m[a + d]) - L!Signed(m[b + d])
  <2>1. L!Less(m, a, b, k, L!Signed) <=> L!Signed(m[a + d]) < L!Signed(m[b + d])
    BY <1>4, FirstDifference
  <2>2. L!Less(m, b, a, k, L!Signed) <=> L!Signed(m[b + d]) < L!Signed(m[a + d])
    BY <1>1, <1>4, FirstDifference
  <2>3. PICK x, y : x = L!Signed(m[a + d]) /\ y = L!Signed(m[b + d])
    OBVIOUS
  <2>4. /\ x \in Int /\ -ByteMod <= 2 * x /\ 2 * x < ByteMod
        /\ y \in Int /\ -ByteMod <= 2 * y /\ 2 * y < ByteMod
    <3>1. m[a + d] \in Bytes /\ m[b + d] \in Bytes
      BY <1>4
    <3> QED BY <2>3, <3>1, SignedIs
  <2>5. result = x - y /\ result \in -ByteMod .. ByteMod
    BY <1>2, <1>4, <2>3, <2>4
  <2>6. (result < 0 <=> x < y) /\ (result > 0 <=> y < x)
    BY <2>4, <2>5
  <2>7. result < 0 <=> L!Less(m, a, b, k, L!Signed)
    BY <2>1, <2>3, <2>6
  <2>8. result > 0 <=> L!Less(m, b, a, k, L!Signed)
    BY <2>2, <2>3, <2>6
  <2> QED BY <2>5, <2>7, <2>8
<1>5. ASSUME d + 1 = k, m[a + d] = m[b + d] PROVE SameBytes(m, a, b, k)
  <2> SUFFICES ASSUME NEW j \in L!Span(0, k) PROVE m[a + j] = m[b + j]
    BY DEF SameBytes
  <2>1. j = d \/ j \in L!Span(0, d)
    BY <1>5 DEF L!Span
  <2> QED BY <1>5, <2>1 DEF SameBytes
<1> QED BY <1>3, <1>4, <1>5

\* A step of strlen() keeps the invariant.
LEMMA StrlenHolds == LibInv /\ L!Strlen /\ v2' = v2 => LibInv'
<1> SUFFICES ASSUME LibInv, L!Strlen, v2' = v2 PROVE LibInv'
  OBVIOUS
<1>1. v3 = "strlen" /\ v2.f = "strlen" /\ v1' = v1 /\ v1 = v2.mem /\ v5' = v5
  BY CallFacts DEF L!Strlen, L!Return, LibInv, ReadInv
<1>2. /\ v2.a \in Nat /\ v2.mem \in [L!Addr -> Bytes] /\ Size \in Nat /\ v6 \in Nat
      /\ v7 \in -ByteMod .. ByteMod + Size
  BY <1>1, CallFacts
<1>3. L!IsString(v2.mem, v2.a)
  BY <1>1, CallFacts DEF L!Legal
<1>4. PICK e : e = L!EndOf(v2.mem, v2.a)
  OBVIOUS
<1>5. /\ e \in v2.a .. Size - 1 /\ e \in Nat /\ v2.mem[e] = 0
      /\ \A j \in v2.a .. e - 1 : v2.mem[j] # 0 /\ L!LenOf(v2.mem, v2.a) = e - v2.a
  BY <1>2, <1>3, <1>4, EndFacts
<1>6. v6 = v4 - v2.a /\ v4 \in v2.a .. e
  BY <1>1, <1>4 DEF LibInv, ReadInv
<1>7. CASE v1[v4] # 0
  <2>1. v3' = v3 /\ v4' = v4 + 1 /\ v6' = v6 + 1 /\ v7' = v7
    BY <1>7 DEF L!Strlen, L!Stay
  <2>2. v4 + 1 \in v2.a .. e
    BY <1>1, <1>2, <1>5, <1>6, <1>7
  <2>3. /\ v4 + 1 \in 0 .. Size /\ v6 + 1 \in 0 .. Size /\ v4 + 1 <= e
        /\ v6 + 1 = (v4 + 1) - v2.a
    BY <1>2, <1>5, <1>6, <2>2
  <2>4. L!StringsAreReadToTheirEnd'
    BY <1>1, <1>4, <2>1, <2>3 DEF L!StringsAreReadToTheirEnd
  <2>5. ReadInv' /\ CountInv' /\ CopyInv'
    BY <1>1, <1>4, <2>1, <2>2, <2>3 DEF ReadInv, CountInv, CopyInv
  <2>6. v1' \in [L!Addr -> Bytes] /\ v5' \in 0 .. Size \cup Bytes
    BY <1>1, <1>2 DEF LibInv, L!TypeOK
  <2> QED BY <1>1, <2>1, <2>3, <2>4, <2>5, <2>6, NothingWritten, LoopGoesOn
<1>8. CASE v1[v4] = 0
  <2>1. v3' = "done" /\ v7' = v6 /\ v4' = v4 /\ v6' = v6
    BY <1>8 DEF L!Strlen, L!Return
  <2>2. v4 = e
    BY <1>1, <1>2, <1>5, <1>6, <1>8
  <2>3. v6 = L!LenOf(v2.mem, v2.a)
    <3>1. L!LenOf(v2.mem, v2.a) = e - v2.a
      BY <1>4 DEF L!LenOf
    <3> QED BY <1>6, <2>2, <3>1
  <2>4. L!ComparisonsAreOrders' /\ L!CopiesAreExact'
    BY <1>1, <2>1, <2>3 DEF L!ComparisonsAreOrders, L!CopiesAreExact
  <2>5. v7' \in -ByteMod .. ByteMod + Size
    BY <1>2, <2>1, CallFacts, <1>1, SizeFacts
  <2> QED BY <1>1, <1>2, <2>1, <2>4, <2>5, NothingWritten, CallReturns
<1> QED BY <1>7, <1>8

\* The same, of bytes.
LEMMA ComparesBytes ==
  ASSUME NEW m, NEW a \in Nat, NEW b \in Nat, NEW d \in Nat, NEW k \in Nat,
         SameBytes(m, a, b, d),
         \A j \in 0 .. k - 1 : m[a + j] \in Bytes /\ m[b + j] \in Bytes,
         NEW result,
         \/ d = k /\ result = 0
         \/ d < k /\ m[a + d] # m[b + d] /\ result = m[a + d] - m[b + d]
  PROVE  /\ result \in -ByteMod .. ByteMod
         /\ result < 0 <=> L!Less(m, a, b, k, L!Unsigned)
         /\ result > 0 <=> L!Less(m, b, a, k, L!Unsigned)
<1>1. SameBytes(m, b, a, d)
  BY DEF SameBytes
<1>2. ByteMod \in Nat
  BY SizeFacts
<1>3. CASE result = 0 /\ d = k
  <2>1. ~L!Less(m, a, b, k, L!Unsigned)
    BY <1>3, NoDifference
  <2>2. ~L!Less(m, b, a, k, L!Unsigned)
    BY <1>1, <1>3, NoDifference
  <2> QED BY <1>2, <1>3, <2>1, <2>2
<1>4. CASE d < k /\ m[a + d] # m[b + d] /\ result = m[a + d] - m[b + d]
  <2>1. L!Less(m, a, b, k, L!Unsigned) <=> m[a + d] < m[b + d]
    BY <1>4, FirstDifference
  <2>2. L!Less(m, b, a, k, L!Unsigned) <=> m[b + d] < m[a + d]
    BY <1>1, <1>4, FirstDifference
  <2>3. PICK x, y : x = m[a + d] /\ y = m[b + d]
    OBVIOUS
  <2>4. x \in Nat /\ x < ByteMod /\ y \in Nat /\ y < ByteMod
    <3>1. m[a + d] \in Bytes /\ m[b + d] \in Bytes
      BY <1>4
    <3> QED BY <2>3, <3>1, SignedIs
  <2>5. result = x - y /\ result \in -ByteMod .. ByteMod
    BY <1>2, <1>4, <2>3, <2>4
  <2>6. (result < 0 <=> x < y) /\ (result > 0 <=> y < x)
    BY <2>4, <2>5
  <2>7. result < 0 <=> L!Less(m, a, b, k, L!Unsigned)
    BY <2>1, <2>3, <2>6
  <2>8. result > 0 <=> L!Less(m, b, a, k, L!Unsigned)
    BY <2>2, <2>3, <2>6
  <2> QED BY <2>5, <2>7, <2>8
<1> QED BY <1>3, <1>4

\* A byte more is the same.
LEMMA SameGrows ==
  ASSUME NEW m, NEW a, NEW b, NEW d \in Nat, SameBytes(m, a, b, d), m[a + d] = m[b + d]
  PROVE  SameBytes(m, a, b, d + 1)
<1> SUFFICES ASSUME NEW j \in L!Span(0, d + 1) PROVE m[a + j] = m[b + j]
  BY DEF SameBytes
<1>1. j = d \/ j \in L!Span(0, d)
  BY DEF L!Span
<1> QED BY <1>1 DEF SameBytes

\* A step of strcmp() keeps the invariant.
LEMMA StrcmpHolds == LibInv /\ L!Strcmp /\ v2' = v2 => LibInv'
<1> SUFFICES ASSUME LibInv, L!Strcmp, v2' = v2 PROVE LibInv'
  OBVIOUS
<1>1. v3 = "strcmp" /\ v2.f = "strcmp" /\ v1' = v1 /\ v1 = v2.mem /\ v6' = v6
  BY CallFacts DEF L!Strcmp, L!Return, LibInv, ReadInv
<1>2. /\ v2.a \in Nat /\ v2.b \in Nat /\ v2.mem \in [L!Addr -> Bytes] /\ Size \in Nat
      /\ v6 \in Nat /\ v6 <= Size
  BY <1>1, CallFacts
<1>3. L!IsString(v2.mem, v2.a) /\ L!IsString(v2.mem, v2.b)
  BY <1>1, CallFacts DEF L!Legal
<1>4. PICK e, g, a, b, m : /\ e = L!EndOf(v2.mem, v2.a) /\ g = L!EndOf(v2.mem, v2.b)
                           /\ a = v2.a /\ b = v2.b /\ m = v2.mem
  OBVIOUS
<1>5. /\ e \in a .. Size - 1 /\ e \in Nat /\ m[e] = 0 /\ \A j \in a .. e - 1 : m[j] # 0
      /\ L!LenOf(m, a) = e - a
  BY <1>2, <1>3, <1>4, EndFacts
<1>6. /\ g \in b .. Size - 1 /\ g \in Nat /\ m[g] = 0 /\ \A j \in b .. g - 1 : m[j] # 0
      /\ L!LenOf(m, b) = g - b
  BY <1>2, <1>3, <1>4, EndFacts
<1>7. v4 \in a .. e /\ v5 \in b .. g /\ v4 - a = v5 - b /\ SameBytes(m, a, b, v4 - a)
  BY <1>1, <1>4 DEF LibInv, ReadInv
<1>8. PICK d : d = v4 - a
  OBVIOUS
<1>9. /\ a \in Nat /\ b \in Nat /\ d \in Nat /\ v4 = a + d /\ v5 = b + d /\ SameBytes(m, a, b, d)
      /\ a + d <= e /\ b + d <= g
  BY <1>2, <1>4, <1>5, <1>6, <1>7, <1>8
<1>10. CASE v1[v4] # 0 /\ v1[v4] = v1[v5]
  <2>1. v3' = v3 /\ v4' = v4 + 1 /\ v5' = v5 + 1 /\ v7' = v7
    BY <1>10 DEF L!Strcmp, L!Stay
  <2>2. m[a + d] # 0 /\ m[a + d] = m[b + d]
    BY <1>1, <1>4, <1>9, <1>10
  <2>3. a + d # e /\ b + d # g
    BY <1>5, <1>6, <2>2
  <2>4. /\ v4 + 1 \in a .. e /\ v5 + 1 \in b .. g /\ (v4 + 1) - a = (v5 + 1) - b
        /\ (v4 + 1) - a = d + 1
    BY <1>5, <1>6, <1>9, <2>3
  <2>5. SameBytes(m, a, b, d + 1)
    BY <1>9, <2>2, SameGrows
  <2>6. L!StringsAreReadToTheirEnd'
    <3>1. v4 + 1 <= e /\ v5 + 1 <= g
      BY <1>5, <1>6, <2>4
    <3> QED BY <1>1, <1>4, <2>1, <3>1 DEF L!StringsAreReadToTheirEnd
  <2>7. ReadInv' /\ CountInv' /\ CopyInv'
    <3>1. ReadInv'
      BY <1>1, <1>4, <2>1, <2>4, <2>5 DEF ReadInv
    <3> QED BY <1>1, <2>1, <3>1 DEF CountInv, CopyInv
  <2>8. v4' \in 0 .. Size /\ v5' \in 0 .. Size \cup Bytes /\ v6' \in 0 .. Size
    BY <1>1, <1>2, <1>5, <1>6, <1>9, <2>1, <2>4
  <2> QED BY <1>1, <1>2, <2>1, <2>6, <2>7, <2>8, NothingWritten, LoopGoesOn
<1>11. CASE ~(v1[v4] # 0 /\ v1[v4] = v1[v5])
  <2>1. /\ v3' = "done" /\ v4' = v4 /\ v5' = v5 
        /\ v7' = L!Signed(m[a + d]) - L!Signed(m[b + d])
    BY <1>1, <1>4, <1>9, <1>11 DEF L!Strcmp, L!Return
  <2>2. PICK k : k = L!Min({L!LenOf(m, a), L!LenOf(m, b)}) + 1
    OBVIOUS
  <2>3. k = (IF e - a <= g - b THEN e - a ELSE g - b) + 1
    <3>1. PICK x, y : x = e - a /\ y = g - b
      OBVIOUS
    <3>2. x \in Int /\ y \in Int
      BY <1>5, <1>6, <1>9, <3>1
    <3>3. L!Min({x, y}) = IF x <= y THEN x ELSE y
      BY <3>2 DEF L!Min
    <3> QED BY <1>5, <1>6, <2>2, <3>1, <3>3
  <2>4. k \in Nat /\ d < k /\ a + k <= Size /\ b + k <= Size
    <3>1. k = (e - a) + 1 \/ k = (g - b) + 1
      BY <2>3
    <3>2. k <= (e - a) + 1 /\ k <= (g - b) + 1 /\ e - a \in Nat /\ g - b \in Nat
      BY <1>5, <1>6, <1>9, <2>3
    <3> QED BY <1>2, <1>5, <1>6, <1>9, <3>1, <3>2
  <2>5. \A j \in 0 .. k - 1 : m[a + j] \in Bytes /\ m[b + j] \in Bytes
    <3> SUFFICES ASSUME NEW j \in 0 .. k - 1 PROVE m[a + j] \in Bytes /\ m[b + j] \in Bytes
      OBVIOUS
    <3>1. a + j \in L!Addr /\ b + j \in L!Addr
      BY <1>2, <1>9, <2>4 DEF L!Addr
    <3> QED BY <1>2, <1>4, <3>1
  <2>6. m[a + d] \in Bytes /\ m[b + d] \in Bytes
    BY <1>9, <2>4, <2>5
  <2>7. \/ d < k /\ m[a + d] # m[b + d] /\ v7' = L!Signed(m[a + d]) - L!Signed(m[b + d])
        \/ d + 1 = k /\ m[a + d] = m[b + d] /\ v7' = 0
    <3>1. CASE m[a + d] # m[b + d]
      BY <2>1, <2>4, <3>1
    <3>2. CASE m[a + d] = m[b + d]
      <4>1. m[a + d] = 0 /\ m[b + d] = 0
        BY <1>1, <1>4, <1>9, <1>11, <3>2
      <4>2. a + d = e /\ b + d = g
        BY <1>5, <1>6, <1>9, <4>1
      <4>3. d + 1 = k
        BY <1>5, <1>6, <1>9, <2>3, <4>2
      <4>4. v7' = 0
        <5>1. L!Signed(m[a + d]) \in Int
          BY <2>6, SignedIs
        <5> QED BY <2>1, <3>2, <5>1
      <4> QED BY <3>2, <4>3, <4>4
    <3> QED BY <3>1, <3>2
  <2>8. PICK result : result = v7'
    OBVIOUS
  <2>9. /\ result \in -ByteMod .. ByteMod
        /\ result < 0 <=> L!Less(m, a, b, k, L!Signed)
        /\ result > 0 <=> L!Less(m, b, a, k, L!Signed)
    BY <1>9, <2>4, <2>5, <2>7, <2>8, Compares
  <2>10. L!ComparisonsAreOrders'
    BY <1>1, <1>4, <2>1, <2>2, <2>8, <2>9 DEF L!ComparisonsAreOrders
  <2>11. L!CopiesAreExact'
    BY <1>1, <2>1 DEF L!CopiesAreExact
  <2>12. v7' \in -ByteMod .. ByteMod + Size
    BY <1>2, <2>8, <2>9, SizeFacts
  <2> QED BY <1>1, <1>2, <2>1, <2>10, <2>11, <2>12, NothingWritten, CallReturns
<1> QED BY <1>10, <1>11

\* A step of memcmp() keeps the invariant.
LEMMA MemcmpHolds == LibInv /\ L!Memcmp /\ v2' = v2 => LibInv'
<1> SUFFICES ASSUME LibInv, L!CompareCounted("memcmp"), v2' = v2 PROVE LibInv'
  BY DEF L!Memcmp
<1>1. v3 = "memcmp" /\ v2.f = "memcmp" /\ v1' = v1 /\ v1 = v2.mem
  BY CallFacts DEF L!CompareCounted, L!Return, LibInv, ReadInv
<1>2. /\ v2.a \in Nat /\ v2.b \in Nat /\ v2.mem \in [L!Addr -> Bytes] /\ Size \in Nat
      /\ v6 \in Nat /\ v6 <= Size /\ v2.n \in Nat /\ v2.n <= Size
  BY <1>1, CallFacts
<1>3. v2.a + v2.n <= Size /\ v2.b + v2.n <= Size
  BY <1>1, CallFacts DEF L!Legal
<1>4. PICK k, a, b, m : k = v2.n /\ a = v2.a /\ b = v2.b /\ m = v2.mem
  OBVIOUS
<1>5. /\ v6 <= k /\ v4 = a + (k - v6) /\ v5 = b + (k - v6) /\ SameBytes(m, a, b, k - v6)
  BY <1>1, <1>4 DEF LibInv, ReadInv
<1>6. PICK d : d = k - v6
  OBVIOUS
<1>7. /\ a \in Nat /\ b \in Nat /\ k \in Nat /\ d \in Nat /\ d <= k /\ v6 = k - d
      /\ v4 = a + d /\ v5 = b + d /\ SameBytes(m, a, b, d) /\ a + k <= Size /\ b + k <= Size
  BY <1>2, <1>3, <1>4, <1>5, <1>6
<1>8. \A j \in 0 .. k - 1 : m[a + j] \in Bytes /\ m[b + j] \in Bytes
  <2> SUFFICES ASSUME NEW j \in 0 .. k - 1 PROVE m[a + j] \in Bytes /\ m[b + j] \in Bytes
    OBVIOUS
  <2>1. a + j \in L!Addr /\ b + j \in L!Addr
    BY <1>2, <1>7 DEF L!Addr
  <2> QED BY <1>2, <1>4, <2>1
<1>9. CASE v6 # 0 /\ v1[v4] = v1[v5]
  <2>1. v3' = v3 /\ v4' = v4 + 1 /\ v5' = v5 + 1 /\ v6' = v6 - 1 /\ v7' = v7
    BY <1>9 DEF L!CompareCounted, L!Stay
  <2>2. /\ d < k /\ k - (v6 - 1) = d + 1 /\ v6 - 1 <= k /\ v4 + 1 = a + (d + 1) /\ v5 + 1 = b + (d + 1)
        /\ v4 + 1 \in 0 .. Size /\ v5 + 1 \in 0 .. Size /\ v6 - 1 \in 0 .. Size
    BY <1>2, <1>7, <1>9
  <2>3. SameBytes(m, a, b, d + 1)
    BY <1>1, <1>4, <1>7, <1>9, SameGrows
  <2>4. ReadInv' /\ CountInv' /\ CopyInv' /\ L!StringsAreReadToTheirEnd'
    <3>1. ReadInv'
      BY <1>1, <1>4, <2>1, <2>2, <2>3 DEF ReadInv
    <3> QED BY <1>1, <2>1, <3>1 DEF CountInv, CopyInv, L!StringsAreReadToTheirEnd
  <2>5. v4' \in 0 .. Size /\ v5' \in 0 .. Size \cup Bytes /\ v6' \in 0 .. Size
    BY <2>1, <2>2
  <2> QED BY <1>1, <1>2, <2>1, <2>4, <2>5, NothingWritten, LoopGoesOn
<1>10. CASE v6 = 0 \/ v1[v4] # v1[v5]
  <2>1. /\ v3' = "done" /\ v4' = v4 /\ v5' = v5 /\ v6' = v6
        /\ v7' = IF v6 = 0 THEN 0 ELSE m[a + d] - m[b + d]
    BY <1>1, <1>4, <1>7, <1>10 DEF L!CompareCounted, L!Return, L!Difference, L!Unsigned
  <2>2. PICK result : result = v7'
    OBVIOUS
  <2>3. v6 = 0 => d = k
    BY <1>7
  <2>4. v6 # 0 => d < k /\ m[a + d] # m[b + d]
    BY <1>1, <1>2, <1>4, <1>7, <1>10
  <2>5. \/ d = k /\ result = 0
        \/ d < k /\ m[a + d] # m[b + d] /\ result = m[a + d] - m[b + d]
    BY <2>1, <2>2, <2>3, <2>4
  <2>6. /\ result \in -ByteMod .. ByteMod
        /\ result < 0 <=> L!Less(m, a, b, k, L!Unsigned)
        /\ result > 0 <=> L!Less(m, b, a, k, L!Unsigned)
    BY <1>7, <1>8, <2>5, ComparesBytes
  <2>7. L!ComparisonsAreOrders'
    BY <1>1, <1>4, <2>1, <2>2, <2>6 DEF L!ComparisonsAreOrders
  <2>8. L!CopiesAreExact'
    BY <1>1, <2>1 DEF L!CopiesAreExact
  <2>9. v7' \in -ByteMod .. ByteMod + Size
    BY <1>2, <2>2, <2>6, SizeFacts
  <2> QED BY <1>1, <1>2, <2>1, <2>7, <2>8, <2>9, NothingWritten, CallReturns
<1> QED BY <1>9, <1>10

\* Where strncmp() stands at its texts: d chars are the same.
StrncmpAt(m, a, b, d, k) ==
  /\ m \in [L!Addr -> Bytes] /\ a \in Nat /\ b \in Nat /\ d \in Nat /\ k \in Nat
  /\ Size \in Nat /\ a + d <= Size /\ b + d <= Size /\ SameBytes(m, a, b, d)

\* The ends of both strings are in the chars that were compared, if one is.
LEMMA EndsAreTogether ==
  ASSUME NEW m, NEW a, NEW b, NEW d, NEW k, StrncmpAt(m, a, b, d, k), d < k,
         L!Behind(m, a, a + d) \/ L!Behind(m, b, b + d)
  PROVE  L!EndTogether(m, a, b, k)
<1>1. PICK i \in Nat : i < d /\ (m[a + i] = 0 \/ m[b + i] = 0)
  <2>1. CASE L!Behind(m, a, a + d)
    <3>1. PICK j \in a .. (a + d) - 1 : m[j] = 0
      BY <2>1 DEF L!Behind
    <3>2. j - a \in Nat /\ j - a < d /\ a + (j - a) = j
      BY <3>1 DEF StrncmpAt
    <3> QED BY <3>1, <3>2
  <2>2. CASE L!Behind(m, b, b + d)
    <3>1. PICK j \in b .. (b + d) - 1 : m[j] = 0
      BY <2>2 DEF L!Behind
    <3>2. j - b \in Nat /\ j - b < d /\ b + (j - b) = j
      BY <3>1 DEF StrncmpAt
    <3> QED BY <3>1, <3>2
  <2> QED BY <2>1, <2>2
<1>2. i \in L!Span(0, k - 1) /\ i \in L!Span(0, d) /\ a + i < Size /\ b + i < Size
  BY <1>1 DEF StrncmpAt, L!Span
<1>3. \A j \in L!Span(0, i + 1) : j \in L!Span(0, d)
  BY <1>1 DEF StrncmpAt, L!Span
<1>4. \A j \in L!Span(0, i + 1) : m[a + j] = m[b + j]
  BY <1>3 DEF StrncmpAt, SameBytes
<1>5. m[a + i] = 0
  BY <1>1, <1>2 DEF StrncmpAt, SameBytes
<1> QED BY <1>2, <1>4, <1>5 DEF L!EndTogether

\* Whoever has compared all chars, or a different one, stands behind the ends.
LEMMA BehindTheEnds ==
  ASSUME NEW m, NEW a, NEW b, NEW d, NEW k, StrncmpAt(m, a, b, d, k), L!EndTogether(m, a, b, k),
         d = k \/ m[a + d] # m[b + d] \/ a + d = Size \/ b + d = Size
  PROVE  L!Behind(m, a, a + d) /\ L!Behind(m, b, b + d)
<1>1. PICK i \in L!Span(0, k - 1) : /\ a + i < Size /\ b + i < Size
                                    /\ \A j \in L!Span(0, i + 1) : m[a + j] = m[b + j]
                                    /\ m[a + i] = 0
  BY DEF L!EndTogether
<1>2. i \in Nat /\ i < k - 1 /\ i \in L!Span(0, i + 1)
  BY DEF StrncmpAt, L!Span
<1>3. m[b + i] = 0
  BY <1>1, <1>2
<1>4. i < d
  <2>1. m[a + d] # m[b + d] => d \notin L!Span(0, i + 1)
    BY <1>1
  <2> QED BY <1>1, <1>2, <2>1 DEF StrncmpAt, L!Span
<1>5. a + i \in a .. (a + d) - 1 /\ b + i \in b .. (b + d) - 1
  BY <1>2, <1>4 DEF StrncmpAt
<1>6. PICK x, y : x = a + i /\ y = b + i
  OBVIOUS
<1>7. /\ x \in a .. (a + d) - 1 /\ m[x] = 0
      /\ y \in b .. (b + d) - 1 /\ m[y] = 0
  <2>1. m[a + i] = 0 /\ m[b + i] = 0
    BY ONLY <1>1, <1>3, Zenon
  <2> QED BY ONLY <1>5, <1>6, <2>1, Zenon
<1> QED BY ONLY <1>7, Zenon DEF L!Behind

\* Where the texts are the same up to a difference in front of their ends, it
\* decides their order; where they have none, neither is less.
LEMMA UpToEnd ==
  ASSUME NEW m, NEW a, NEW b, NEW d, NEW k, StrncmpAt(m, a, b, d, k),
         ~L!EndTogether(m, a, b, k),
         d = k \/ (d < k /\ m[a + d] # m[b + d] /\ a + d < Size /\ b + d < Size)
  PROVE  L!LessUpToEnd(m, a, b, k) <=> d < k /\ L!Signed(m[a + d]) < L!Signed(m[b + d])
<1>1. \A i \in Nat : a + i < Size /\ b + i < Size =>
        m[a + i] \in Bytes /\ m[b + i] \in Bytes
  BY DEF StrncmpAt, L!Addr
<1>2. \A x \in Bytes : L!Signed(x) \in Int
  BY SignedIs
<1>3. ASSUME L!LessUpToEnd(m, a, b, k) PROVE d < k /\ L!Signed(m[a + d]) < L!Signed(m[b + d])
  <2>1. PICK i \in L!Span(0, k) :
          /\ a + i < Size /\ b + i < Size
          /\ \A j \in L!Span(0, i) : m[a + j] = m[b + j] /\ m[a + j] # 0
          /\ L!Signed(m[a + i]) < L!Signed(m[b + i])
    BY <1>3 DEF L!LessUpToEnd
  <2>2. i \in Nat /\ i < k
    BY DEF StrncmpAt, L!Span
  <2>3. m[a + i] # m[b + i]
    BY <1>1, <1>2, <2>1, <2>2
  <2>4. i \notin L!Span(0, d)
    BY <2>3 DEF StrncmpAt, SameBytes
  <2>5. d < k /\ d \notin L!Span(0, i)
    BY <2>1, <2>2, <2>4 DEF StrncmpAt, L!Span
  <2>6. i = d
    BY <2>2, <2>4, <2>5 DEF StrncmpAt, L!Span
  <2> QED BY <2>1, <2>5, <2>6
<1>4. ASSUME d < k, L!Signed(m[a + d]) < L!Signed(m[b + d]) PROVE L!LessUpToEnd(m, a, b, k)
  <2>1. d \in L!Span(0, k) /\ a + d < Size /\ b + d < Size
    BY <1>4 DEF StrncmpAt, L!Span
  <2>2. ASSUME NEW j \in L!Span(0, d), m[a + j] = 0 PROVE FALSE
    <3>1. a + j \in a .. (a + d) - 1
      BY DEF StrncmpAt, L!Span
    <3>2. L!Behind(m, a, a + d)
      BY <2>2, <3>1 DEF L!Behind
    <3> QED BY <1>4, <3>2, EndsAreTogether
  <2>3. \A j \in L!Span(0, d) : m[a + j] = m[b + j] /\ m[a + j] # 0
    BY <2>2 DEF StrncmpAt, SameBytes
  <2> QED BY <1>4, <2>1, <2>3 DEF L!LessUpToEnd
<1> QED BY <1>3, <1>4

\* Where strncmp() stands, as its pointers tell.
LEMMA StrncmpStands ==
  ASSUME LibInv, v3 = "strncmp"
  PROVE  \E d \in Nat : /\ StrncmpAt(v2.mem, v2.a, v2.b, d, v2.n) /\ v2.f = "strncmp"
                        /\ v1 = v2.mem /\ v4 = v2.a + d /\ v5 = v2.b + d
                        /\ v6 = v2.n - d /\ d <= v2.n /\ v2.n <= Size
<1>1. v2.f = "strncmp" /\ v1 = v2.mem
  BY CallFacts DEF LibInv, ReadInv
<1>2. /\ v2.a \in Nat /\ v2.b \in Nat /\ v2.b < Size /\ v2.mem \in [L!Addr -> Bytes] /\ Size \in Nat
      /\ v6 \in Nat /\ v2.n \in Nat /\ v2.n <= Size
  BY <1>1, CallFacts
<1>3. /\ v6 <= v2.n /\ v4 = v2.a + (v2.n - v6) /\ v5 = v2.b + (v2.n - v6)
      /\ SameBytes(v2.mem, v2.a, v2.b, v2.n - v6)
  BY DEF LibInv, ReadInv
<1>4. v4 <= Size /\ v4 \in Int
  BY <1>2 DEF LibInv, L!TypeOK
<1>5. v5 <= Size
  BY DEF LibInv, ReadInv
<1>6. PICK d : d = v2.n - v6
  OBVIOUS
<1> QED BY <1>1, <1>2, <1>3, <1>4, <1>5, <1>6 DEF StrncmpAt

\* A step of strncmp() keeps the invariant.
LEMMA StrncmpHolds == LibInv /\ L!Strncmp /\ v2' = v2 => LibInv'
<1> SUFFICES ASSUME LibInv, L!CompareCounted("strncmp"), ~L!LeavesMemory, v2' = v2 PROVE LibInv'
  BY DEF L!Strncmp
<1>1. v3 = "strncmp" /\ v1' = v1
  BY DEF L!CompareCounted, L!Return
<1>2. PICK d \in Nat : /\ StrncmpAt(v2.mem, v2.a, v2.b, d, v2.n) /\ v2.f = "strncmp"
                       /\ v1 = v2.mem /\ v4 = v2.a + d /\ v5 = v2.b + d
                       /\ v6 = v2.n - d /\ d <= v2.n /\ v2.n <= Size
  BY <1>1, StrncmpStands
<1>3. PICK k, a, b, m : k = v2.n /\ a = v2.a /\ b = v2.b /\ m = v2.mem
  OBVIOUS
<1>4. /\ StrncmpAt(m, a, b, d, k) /\ v1 = m /\ v4 = a + d /\ v5 = b + d /\ v6 = k - d
      /\ d <= k /\ k <= Size
  BY <1>2, <1>3
<1>5. /\ m \in [L!Addr -> Bytes] /\ a \in Nat /\ b \in Nat /\ k \in Nat /\ Size \in Nat
      /\ a + d <= Size /\ b + d <= Size /\ SameBytes(m, a, b, d)
  BY <1>4 DEF StrncmpAt
<1>6. v6 # 0 => d < k /\ a + d < Size /\ b + d < Size
  BY <1>4, <1>5 DEF L!LeavesMemory
<1>7. CASE v6 # 0 /\ v1[v4] = v1[v5]
  <2>1. v3' = v3 /\ v4' = v4 + 1 /\ v5' = v5 + 1 /\ v6' = v6 - 1 /\ v7' = v7
    BY <1>7 DEF L!CompareCounted, L!Stay
  <2>2. PICK c \in Nat : c = d + 1
    OBVIOUS
  <2>3. /\ v4' = a + c /\ v5' = b + c /\ v6' = k - c /\ k - v6' = c /\ c <= k
        /\ v4' \in 0 .. Size /\ v5' \in 0 .. Size /\ v6' \in 0 .. Size
    BY <1>4, <1>5, <1>6, <1>7, <2>1, <2>2
  <2>4. SameBytes(m, a, b, c)
    BY <1>4, <1>5, <1>7, <2>2, SameGrows
  <2>5. StrncmpAt(m, a, b, c, k)
    BY <1>5, <2>3, <2>4 DEF StrncmpAt
  <2>6. ReadInv'
    <3>1. v6' <= k /\ v4' = a + (k - v6') /\ v5' = b + (k - v6') /\ v5' <= Size
      BY <1>5, <2>3
    <3>2. SameBytes(m, a, b, k - v6')
      BY <2>3, <2>4
    <3> QED BY <1>1, <1>2, <1>3, <2>1, <3>1, <3>2 DEF ReadInv
  <2>7. CountInv' /\ CopyInv' /\ L!StringsAreReadToTheirEnd'
    BY <1>1, <2>1 DEF CountInv, CopyInv, L!StringsAreReadToTheirEnd
  <2>8. L!StrncmpUnlessEndTogether'
    <3>1. v6' > 0 /\ ~L!EndTogether(m, a, b, k) => ~L!Behind(m, a, v4') /\ ~L!Behind(m, b, v5')
      <4>1. v6' > 0 => c < k
        BY <1>5, <2>3
      <4> QED BY <2>3, <2>5, <4>1, EndsAreTogether
    <3> QED BY <1>1, <1>3, <2>1, <3>1 DEF L!StrncmpUnlessEndTogether
  <2>9. v5' \in 0 .. Size \cup Bytes
    BY <2>3
  <2> QED BY <1>1, <1>2, <1>4, <1>5, <2>1, <2>3, <2>6, <2>7, <2>8, <2>9, NothingWritten, LoopGoesOn
<1>8. CASE v6 = 0 \/ v1[v4] # v1[v5]
  <2>1. /\ v3' = "done" /\ v4' = v4 /\ v5' = v5 /\ v6' = v6
        /\ v7' = IF v6 = 0 THEN 0 ELSE L!Signed(m[a + d]) - L!Signed(m[b + d])
    BY <1>1, <1>4, <1>8 DEF L!CompareCounted, L!Return, L!Difference
  <2>2. \/ d = k /\ v7' = 0
        \/ /\ d < k /\ m[a + d] # m[b + d] /\ a + d < Size /\ b + d < Size
           /\ v7' = L!Signed(m[a + d]) - L!Signed(m[b + d])
    <3>1. v6 = 0 => d = k
      BY <1>4, <1>5
    <3>2. v6 # 0 => m[a + d] # m[b + d]
      BY <1>4, <1>8
    <3> QED BY <1>6, <2>1, <3>1, <3>2
  <2>3. /\ v7' \in -ByteMod .. ByteMod + Size
        /\ v7' < 0 <=> d < k /\ L!Signed(m[a + d]) < L!Signed(m[b + d])
        /\ v7' > 0 <=> d < k /\ L!Signed(m[b + d]) < L!Signed(m[a + d])
    <3>1. CASE d = k /\ v7' = 0
      BY <1>5, <3>1, SizeFacts
    <3>2. CASE d < k /\ a + d < Size /\ b + d < Size
               /\ v7' = L!Signed(m[a + d]) - L!Signed(m[b + d])
      <4>1. m[a + d] \in Bytes /\ m[b + d] \in Bytes
        BY <1>5, <3>2 DEF L!Addr
      <4>2. PICK x, y : x = L!Signed(m[a + d]) /\ y = L!Signed(m[b + d])
        OBVIOUS
      <4>3. /\ x \in Int /\ -ByteMod <= 2 * x /\ 2 * x < ByteMod
            /\ y \in Int /\ -ByteMod <= 2 * y /\ 2 * y < ByteMod
        BY <4>1, <4>2, SignedIs
      <4>4. v7' = x - y /\ v7' \in -ByteMod .. ByteMod + Size
        BY <1>5, <3>2, <4>2, <4>3, SizeFacts
      <4>5. (v7' < 0 <=> x < y) /\ (v7' > 0 <=> y < x)
        BY <4>3, <4>4
      <4> QED BY <3>2, <4>2, <4>4, <4>5
    <3> QED BY <2>2, <3>1, <3>2
  <2>4. ASSUME ~L!EndTogether(m, a, b, k)
        PROVE  /\ v7' < 0 <=> L!LessUpToEnd(m, a, b, k)
               /\ v7' > 0 <=> L!LessUpToEnd(m, b, a, k)
    <3>1. L!LessUpToEnd(m, a, b, k) <=> d < k /\ L!Signed(m[a + d]) < L!Signed(m[b + d])
      BY <1>4, <2>2, <2>4, UpToEnd
    <3>2. StrncmpAt(m, b, a, d, k)
      BY <1>5 DEF StrncmpAt, SameBytes
    <3>3. ~L!EndTogether(m, b, a, k)
      <4> SUFFICES ASSUME L!EndTogether(m, b, a, k) PROVE L!EndTogether(m, a, b, k)
        BY <2>4
      <4>1. PICK i \in L!Span(0, k - 1) : /\ a + i < Size /\ b + i < Size
                                          /\ \A j \in L!Span(0, i + 1) : m[b + j] = m[a + j]
                                          /\ m[b + i] = 0
        BY DEF L!EndTogether
      <4>2. i \in L!Span(0, i + 1)
        BY <1>5 DEF L!Span
      <4> QED BY <4>1, <4>2 DEF L!EndTogether
    <3>4. L!LessUpToEnd(m, b, a, k) <=> d < k /\ L!Signed(m[b + d]) < L!Signed(m[a + d])
      BY <2>2, <3>2, <3>3, UpToEnd
    <3> QED BY <2>3, <3>1, <3>4
  <2>5. L!EndTogether(m, a, b, k) => L!Behind(m, a, v4') /\ L!Behind(m, b, v5')
    BY <1>4, <2>1, <2>2, BehindTheEnds
  <2>6. L!StrncmpUnlessEndTogether'
    BY <1>3, <2>1, <2>4, <2>5 DEF L!StrncmpUnlessEndTogether
  <2>7. L!ComparisonsAreOrders' /\ L!CopiesAreExact'
    BY <1>2 DEF L!ComparisonsAreOrders, L!CopiesAreExact
  <2> QED BY <1>1, <1>2, <1>4, <1>5, <2>1, <2>3, <2>6, <2>7, NothingWritten, CallReturns
<1> QED BY <1>7, <1>8

\* When strncmp() leaves the memory, it has passed the ends of both strings.
LEMMA StrncmpBeyondHolds == LibInv /\ L!StrncmpBeyond /\ v2' = v2 => LibInv'
<1> SUFFICES ASSUME LibInv, L!StrncmpBeyond, v2' = v2 PROVE LibInv'
  OBVIOUS
<1>1. /\ v3 = "strncmp" /\ v6 > 0 /\ Size \in {v4, v5} /\ v3' = "beyond"
      /\ v1' = v1 /\ v4' = v4 /\ v5' = v5 /\ v6' = v6 /\ v7' = v7
  BY DEF L!StrncmpBeyond, L!LeavesMemory
<1>2. PICK d \in Nat : /\ StrncmpAt(v2.mem, v2.a, v2.b, d, v2.n) /\ v2.f = "strncmp"
                       /\ v1 = v2.mem /\ v4 = v2.a + d /\ v5 = v2.b + d
                       /\ v6 = v2.n - d /\ d <= v2.n /\ v2.n <= Size
  BY <1>1, StrncmpStands
<1>3. PICK k, a, b, m : k = v2.n /\ a = v2.a /\ b = v2.b /\ m = v2.mem
  OBVIOUS
<1>4. StrncmpAt(m, a, b, d, k) /\ v4 = a + d /\ v5 = b + d /\ d < k
  <2>1. StrncmpAt(m, a, b, d, k) /\ v6 = k - d /\ k \in Nat
    BY <1>2, <1>3 DEF StrncmpAt
  <2> QED BY <1>1, <1>2, <1>3, <2>1
<1>5. L!Behind(m, a, a + d) \/ L!Behind(m, b, b + d)
  <2>1. (L!IsString(m, a) \/ a + k <= Size) /\ (L!IsString(m, b) \/ b + k <= Size)
    BY <1>1, <1>2, <1>3, CallFacts DEF L!Legal
  <2>2. CASE a + d = Size
    <3>1. L!IsString(m, a)
      BY <1>4, <2>1, <2>2 DEF StrncmpAt
    <3> QED BY <2>2, <3>1 DEF L!IsString, L!Nuls, L!Behind
  <2>3. CASE b + d = Size
    <3>1. L!IsString(m, b)
      BY <1>4, <2>1, <2>3 DEF StrncmpAt
    <3> QED BY <2>3, <3>1 DEF L!IsString, L!Nuls, L!Behind
  <2> QED BY <1>1, <1>4, <2>2, <2>3
<1>6. L!EndTogether(m, a, b, k)
  BY <1>4, <1>5, EndsAreTogether
<1>7. L!Behind(m, a, a + d) /\ L!Behind(m, b, b + d)
  <2>1. a + d = Size \/ b + d = Size
    BY <1>1, <1>4
  <2> QED BY <1>4, <1>6, <2>1, BehindTheEnds
<1>8. L!StrncmpUnlessEndTogether'
  BY <1>1, <1>3, <1>4, <1>6, <1>7 DEF L!StrncmpUnlessEndTogether
<1>9. L!TypeOK'
  BY <1>1 DEF LibInv, L!TypeOK
<1>10. CallInv'
  BY <1>1, <1>2 DEF LibInv, CallInv
<1>11. ReadInv' /\ CountInv' /\ CopyInv' /\ L!StringsAreReadToTheirEnd'
  BY <1>1 DEF ReadInv, CountInv, CopyInv, L!StringsAreReadToTheirEnd
<1>12. L!CopiesAreExact' /\ L!ComparisonsAreOrders'
  BY <1>1 DEF L!CopiesAreExact, L!ComparisonsAreOrders
<1> QED BY <1>1, <1>8, <1>9, <1>10, <1>11, <1>12, NothingWritten DEF LibInv

\* A step in which strcat() looks for the end of its destination keeps the
\* invariant.
LEMMA StrcatFindEndHolds == LibInv /\ L!StrcatFindEnd /\ v2' = v2 => LibInv'
<1> SUFFICES ASSUME LibInv, L!StrcatFindEnd, v2' = v2 PROVE LibInv'
  OBVIOUS
<1>1. /\ v3 = "strcat" /\ v2.f = "strcat" /\ v1' = v1 /\ v1 = v2.mem /\ v5' = v5 /\ v6' = v6 /\ v7' = v7
  BY CallFacts DEF L!StrcatFindEnd, LibInv, ReadInv
<1>2. /\ v2.a \in Nat /\ v2.b \in Nat /\ v2.mem \in [L!Addr -> Bytes] /\ Size \in Nat
      /\ v6 \in Nat /\ v6 <= Size
  BY <1>1, CallFacts
<1>3. L!IsString(v2.mem, v2.a) /\ L!IsString(v2.mem, v2.b)
  BY <1>1, CallFacts DEF L!Legal
<1>4. PICK e, g, a, b, m : /\ e = L!EndOf(v2.mem, v2.a) /\ g = L!EndOf(v2.mem, v2.b)
                           /\ a = v2.a /\ b = v2.b /\ m = v2.mem
  OBVIOUS
<1>5. /\ a \in Nat /\ e \in a .. Size - 1 /\ e \in Nat /\ m[e] = 0 /\ \A j \in a .. e - 1 : m[j] # 0
  BY <1>2, <1>3, <1>4, EndFacts
<1>6. b \in Nat /\ g \in b .. Size - 1 /\ g \in Nat
  BY <1>2, <1>3, <1>4, EndFacts
<1>7. v4 \in a .. e /\ v5 = b
  BY <1>1, <1>4 DEF LibInv, ReadInv
<1>8. v5' \in 0 .. Size \cup Bytes /\ v6' \in 0 .. Size
  BY <1>1, <1>2, <1>6, <1>7
<1>9. CASE v1[v4] # 0
  <2>1. v3' = v3 /\ v4' = v4 + 1
    BY <1>9 DEF L!StrcatFindEnd
  <2>2. v4 + 1 \in a .. e /\ v4 + 1 \in 0 .. Size /\ v4 + 1 <= e
    <3>1. v4 # e
      BY <1>1, <1>4, <1>5, <1>9
    <3> QED BY <1>2, <1>5, <1>7, <3>1
  <2>3. ReadInv' /\ CountInv' /\ CopyInv' /\ L!StringsAreReadToTheirEnd'
    BY <1>1, <1>4, <1>7, <2>1, <2>2 DEF ReadInv, CountInv, CopyInv, L!StringsAreReadToTheirEnd
  <2> QED BY <1>1, <1>2, <1>8, <2>1, <2>2, <2>3, NothingWritten, LoopGoesOn
<1>10. CASE v1[v4] = 0
  <2>1. v3' = "strcat_copy" /\ v4' = v4
    BY <1>10 DEF L!StrcatFindEnd
  <2>2. v4 = e
    BY <1>1, <1>4, <1>5, <1>7, <1>10
  <2>3. /\ v5 \in b .. g /\ v5 - b = 0 /\ v4 = e + (v5 - b) /\ v5 <= g
    BY <1>5, <1>6, <1>7, <2>2
  <2>4. Becomes(m, m, e, 0, Moved(m, e, b))
    BY <1>5, NoByteYet
  <2>5. CopyInv'
    <3>1. Becomes(m, m, e, v5 - b, Moved(m, e, b))
      BY <2>3, <2>4
    <3>2. v1' = m /\ v2'.mem = m /\ v2'.a = a /\ v2'.b = b /\ v5' = v5 /\ v4' = v4
      BY <1>1, <1>4, <2>1
    <3> QED BY <1>4, <2>1, <2>3, <3>1, <3>2 DEF CopyInv
  <2>6. ReadInv' /\ CountInv' /\ L!StringsAreReadToTheirEnd'
    BY <1>1, <1>4, <2>1, <2>3 DEF ReadInv, CountInv, L!StringsAreReadToTheirEnd
  <2>7. L!TypeOK'
    <3>1. v4' \in 0 .. Size
      BY <1>2, <1>5, <2>1, <2>2
    <3> QED BY <1>1, <1>8, <2>1, <3>1 DEF LibInv, L!TypeOK
  <2>8. CallInv'
    BY <1>1, <2>1 DEF LibInv, CallInv
  <2>9. L!CopiesAreExact' /\ L!ComparisonsAreOrders'
    BY <2>1 DEF L!CopiesAreExact, L!ComparisonsAreOrders
  <2>10. L!OnlyTheDestinationIsWritten'
    BY <1>1, NothingWritten
  <2>11. L!StrncmpUnlessEndTogether'
    BY <1>1 DEF L!StrncmpUnlessEndTogether
  <2> QED BY <2>5, <2>6, <2>7, <2>8, <2>9, <2>10, <2>11 DEF LibInv
<1> QED BY <1>9, <1>10

-----------------------------------------------------------------------------
\* Only bytes of the destination were written, when those that were are.
LEMMA WrittenInDestination ==
  ASSUME NEW new, v1' = new, v2' = v2, NEW w, NEW d, NEW r, Becomes(new, v2.mem, w, d, r),
         L!Span(w, d) \subseteq L!Destination
  PROVE  L!OnlyTheDestinationIsWritten'
<1>1. L!Destination' = L!Destination
  BY DEF L!Destination
<1> QED BY <1>1 DEF L!OnlyTheDestinationIsWritten, Becomes

\* What is written is read from where nothing was written yet.
LEMMA NotYetWritten ==
  ASSUME NEW M, NEW m, NEW w, NEW d, NEW r, Becomes(M, m, w, d, r),
         NEW j \in L!Addr, j \notin L!Span(w, d)
  PROVE  M[j] = m[j]
  BY DEF Becomes

\* The loops that count down write the bytes of the call from its first on.
LEMMA MemsetHolds == LibInv /\ L!Memset /\ v2' = v2 => LibInv'
<1> SUFFICES ASSUME LibInv, L!Memset, v2' = v2 PROVE LibInv'
  OBVIOUS
<1>1. v3 = "memset" /\ v2.f = "memset"
  BY CallFacts DEF L!Memset
<1>2. /\ v2.a \in Nat /\ v2.b \in Bytes /\ v2.mem \in [L!Addr -> Bytes] /\ Size \in Nat
      /\ v6 \in Nat /\ v6 <= Size /\ v2.n \in Nat /\ v2.n <= Size /\ v1 \in [L!Addr -> Bytes]
  BY <1>1, CallFacts
<1>3. PICK k, a, b, m : k = v2.n /\ a = v2.a /\ b = v2.b /\ m = v2.mem
  OBVIOUS
<1>4. a + k <= Size
  BY <1>1, <1>3, CallFacts DEF L!Legal
<1>5. /\ v6 <= k /\ v4 = a + (k - v6) /\ v5 = b
      /\ Becomes(v1, m, a, k - v6, Constantly(b))
  BY <1>1, <1>3 DEF LibInv, CountInv
<1>6. PICK d : d = k - v6
  OBVIOUS
<1>7. a \in Nat /\ k \in Nat /\ d \in Nat /\ d <= k /\ v6 = k - d /\ v4 = a + d
  BY <1>2, <1>3, <1>5, <1>6
<1>8. PICK r : r = Constantly(b)
  OBVIOUS
<1>9. CASE v6 # 0
  <2>1. /\ v1' = [v1 EXCEPT ![a + d] = b] /\ v3' = v3 /\ v4' = v4 + 1 /\ v5' = v5 /\ v6' = v6 - 1
        /\ v7' = v7
    BY <1>5, <1>7, <1>9 DEF L!Memset, L!Write, L!Stay
  <2>2. /\ d < k /\ k - (v6 - 1) = d + 1 /\ v6 - 1 <= k /\ v4 + 1 = a + (d + 1)
        /\ v4 + 1 \in 0 .. Size /\ v6 - 1 \in 0 .. Size /\ a + d \in 0 .. Size - 1
    BY <1>2, <1>4, <1>7, <1>9
  <2>3. PICK new : new = v1'
    OBVIOUS
  <2>4. r[a + d] = b /\ b \in Bytes
    BY <1>2, <1>3, <1>7, <1>8 DEF Constantly
  <2>5. new \in [L!Addr -> Bytes] /\ Becomes(new, m, a, d + 1, r)
    <3>1. a + d \in L!Addr /\ r[a + d] \in Bytes /\ Becomes(v1, m, a, d, r)
      BY <1>5, <1>6, <1>8, <2>2, <2>4 DEF L!Addr
    <3>2. new = [v1 EXCEPT ![a + d] = r[a + d]]
      BY <2>1, <2>3, <2>4
    <3> QED BY <1>2, <1>7, <3>1, <3>2, OneMoreByte
  <2>6. L!OnlyTheDestinationIsWritten'
    <3>1. L!Span(a, d + 1) \subseteq L!Destination
      BY <1>1, <1>3, <1>7, <2>2 DEF L!Span, L!Destination
    <3> QED BY <1>3, <2>3, <2>5, <3>1, WrittenInDestination
  <2>7. CountInv'
    BY <1>1, <1>3, <1>5, <1>8, <2>1, <2>2, <2>3, <2>5 DEF CountInv
  <2>8. ReadInv' /\ CopyInv' /\ L!StringsAreReadToTheirEnd'
    BY <1>1, <2>1 DEF ReadInv, CopyInv, L!StringsAreReadToTheirEnd
  <2>9. v5' \in 0 .. Size \cup Bytes
    BY <1>2, <1>3, <1>5, <2>1
  <2> QED BY <1>1, <2>1, <2>2, <2>3, <2>5, <2>6, <2>7, <2>8, <2>9, LoopGoesOn
<1>10. CASE v6 = 0
  <2>1. v3' = "done" /\ v7' = 0 /\ v1' = v1 /\ v4' = v4 /\ v5' = v5 /\ v6' = v6
    BY <1>10 DEF L!Memset, L!Return
  <2>2. d = k
    BY <1>7, <1>10
  <2>3. \A j \in L!Span(0, k) : v1[a + j] = b
    <3> SUFFICES ASSUME NEW j \in L!Span(0, k) PROVE v1[a + j] = b
      OBVIOUS
    <3>1. a + j \in L!Addr /\ a + j \in L!Span(a, d) /\ a + j \in Int
      BY <1>2, <1>4, <1>7, <2>2 DEF L!Addr, L!Span
    <3> QED BY <1>5, <1>6, <3>1 DEF Becomes, Constantly
  <2>4. L!CopiesAreExact'
    BY <1>1, <1>3, <2>1, <2>3 DEF L!CopiesAreExact
  <2>5. L!ComparisonsAreOrders'
    BY <1>1, <2>1 DEF L!ComparisonsAreOrders
  <2>6. v7' \in -ByteMod .. ByteMod + Size
    BY <1>2, <2>1, SizeFacts
  <2> QED BY <1>1, <1>2, <2>1, <2>4, <2>5, <2>6, NothingWritten, CallReturns
<1> QED BY <1>9, <1>10

\* A byte that memcpy() copies is one of the result.
LEMMA MemcpyHolds == LibInv /\ L!Memcpy /\ v2' = v2 => LibInv'
<1> SUFFICES ASSUME LibInv, L!Memcpy, v2' = v2 PROVE LibInv'
  OBVIOUS
<1>1. v3 = "memcpy" /\ v2.f = "memcpy"
  BY CallFacts DEF L!Memcpy
<1>2. /\ v2.a \in Nat /\ v2.b \in Nat /\ v2.mem \in [L!Addr -> Bytes] /\ Size \in Nat
      /\ v6 \in Nat /\ v6 <= Size /\ v2.n \in Nat /\ v2.n <= Size /\ v1 \in [L!Addr -> Bytes]
  BY <1>1, CallFacts
<1>3. PICK k, a, b, m : k = v2.n /\ a = v2.a /\ b = v2.b /\ m = v2.mem
  OBVIOUS
<1>4. a + k <= Size /\ b + k <= Size /\ (a <= b \/ b + k <= a)
  BY <1>1, <1>3, CallFacts DEF L!Legal
<1>5. /\ v6 <= k /\ v4 = a + (k - v6) /\ v5 = b + (k - v6)
      /\ Becomes(v1, m, a, k - v6, Moved(m, a, b))
  BY <1>1, <1>3 DEF LibInv, CountInv
<1>6. PICK d : d = k - v6
  OBVIOUS
<1>7. /\ a \in Nat /\ b \in Nat /\ k \in Nat /\ d \in Nat /\ d <= k /\ v6 = k - d
      /\ v4 = a + d /\ v5 = b + d
  BY <1>2, <1>3, <1>5, <1>6
<1>8. PICK r : r = Moved(m, a, b)
  OBVIOUS
<1>9. CASE v6 # 0
  <2>1. /\ v1' = [v1 EXCEPT ![a + d] = v1[b + d]] /\ v3' = v3 /\ v4' = v4 + 1 /\ v5' = v5 + 1
        /\ v6' = v6 - 1 /\ v7' = v7
    BY <1>7, <1>9 DEF L!Memcpy, L!Write, L!Stay
  <2>2. /\ d < k /\ k - (v6 - 1) = d + 1 /\ v6 - 1 <= k /\ v4 + 1 = a + (d + 1)
        /\ v5 + 1 = b + (d + 1) /\ v4 + 1 \in 0 .. Size /\ v5 + 1 \in 0 .. Size
        /\ v6 - 1 \in 0 .. Size /\ a + d \in 0 .. Size - 1 /\ b + d \in 0 .. Size - 1
    BY <1>2, <1>4, <1>7, <1>9
  <2>3. PICK new : new = v1'
    OBVIOUS
  <2>4. r[a + d] = m[b + d] /\ m[b + d] \in Bytes
    <3>1. (a + d) - a = d /\ a + d \in Int
      BY <1>7
    <3> QED BY <1>2, <1>3, <1>8, <2>2, <3>1 DEF Moved, L!Addr
  <2>5. v1[b + d] = m[b + d]
    <3>1. b + d \in L!Addr /\ b + d \notin L!Span(a, d)
      BY <1>4, <1>7, <2>2 DEF L!Addr, L!Span
    <3> QED BY <1>5, <1>6, <3>1, NotYetWritten
  <2>6. new \in [L!Addr -> Bytes] /\ Becomes(new, m, a, d + 1, r)
    <3>1. a + d \in L!Addr /\ r[a + d] \in Bytes /\ Becomes(v1, m, a, d, r)
      BY <1>5, <1>6, <1>8, <2>2, <2>4 DEF L!Addr
    <3>2. new = [v1 EXCEPT ![a + d] = r[a + d]]
      BY <2>1, <2>3, <2>4, <2>5
    <3> QED BY <1>2, <1>7, <3>1, <3>2, OneMoreByte
  <2>7. L!OnlyTheDestinationIsWritten'
    <3>1. L!Span(a, d + 1) \subseteq L!Destination
      BY <1>1, <1>3, <1>7, <2>2 DEF L!Span, L!Destination
    <3> QED BY <1>3, <2>3, <2>6, <3>1, WrittenInDestination
  <2>8. CountInv'
    BY <1>1, <1>3, <1>8, <2>1, <2>2, <2>3, <2>6 DEF CountInv
  <2>9. ReadInv' /\ CopyInv' /\ L!StringsAreReadToTheirEnd'
    BY <1>1, <2>1 DEF ReadInv, CopyInv, L!StringsAreReadToTheirEnd
  <2> QED BY <1>1, <2>1, <2>2, <2>3, <2>6, <2>7, <2>8, <2>9, LoopGoesOn
<1>10. CASE v6 = 0
  <2>1. v3' = "done" /\ v7' = 0 /\ v1' = v1 /\ v4' = v4 /\ v5' = v5 /\ v6' = v6
    BY <1>10 DEF L!Memcpy, L!Return
  <2>2. d = k
    BY <1>7, <1>10
  <2>3. \A j \in L!Span(0, k) : v1[a + j] = m[b + j]
    <3> SUFFICES ASSUME NEW j \in L!Span(0, k) PROVE v1[a + j] = m[b + j]
      OBVIOUS
    <3>1. a + j \in L!Addr /\ a + j \in L!Span(a, d) /\ a + j \in Int /\ (a + j) - a = j
      BY <1>2, <1>4, <1>7, <2>2 DEF L!Addr, L!Span
    <3> QED BY <1>5, <1>6, <3>1 DEF Becomes, Moved
  <2>4. L!CopiesAreExact'
    BY <1>1, <1>3, <2>1, <2>3 DEF L!CopiesAreExact
  <2>5. L!ComparisonsAreOrders'
    BY <1>1, <2>1 DEF L!ComparisonsAreOrders
  <2>6. v7' \in -ByteMod .. ByteMod + Size
    BY <1>2, <2>1, SizeFacts
  <2> QED BY <1>1, <1>2, <2>1, <2>4, <2>5, <2>6, NothingWritten, CallReturns
<1> QED BY <1>9, <1>10

\* A byte that strncpy() copies or fills with '\0' is one of the result.
LEMMA StrncpyHolds == LibInv /\ L!Strncpy /\ v2' = v2 => LibInv'
<1> SUFFICES ASSUME LibInv, L!Strncpy, v2' = v2 PROVE LibInv'
  OBVIOUS
<1>1. v3 = "strncpy" /\ v2.f = "strncpy"
  BY CallFacts DEF L!Strncpy
<1>2. /\ v2.a \in Nat /\ v2.b \in Nat /\ v2.mem \in [L!Addr -> Bytes] /\ Size \in Nat
      /\ v6 \in Nat /\ v6 <= Size /\ v2.n \in Nat /\ v2.n <= Size /\ v1 \in [L!Addr -> Bytes]
  BY <1>1, CallFacts
<1>3. PICK k, a, b, m, len : /\ k = v2.n /\ a = v2.a /\ b = v2.b /\ m = v2.mem
                             /\ len = L!LenOf(m, b)
  OBVIOUS
<1>4. /\ a + k <= Size /\ L!IsString(m, b)
      /\ L!Span(a, k) \cap b .. L!EndOf(m, b) = {}
  BY <1>1, <1>3, CallFacts DEF L!Legal
<1>5. /\ v6 <= k /\ v4 = a + (k - v6)
      /\ v5 = b + (IF k - v6 < len THEN k - v6 ELSE len)
      /\ Becomes(v1, m, a, k - v6, Padded(m, a, b))
  BY <1>1, <1>3 DEF LibInv, CountInv
<1>6. PICK d : d = k - v6
  OBVIOUS
<1>7. /\ a \in Nat /\ b \in Nat /\ k \in Nat /\ d \in Nat /\ d <= k /\ v6 = k - d
      /\ v4 = a + d /\ v5 = b + (IF d < len THEN d ELSE len)
  BY <1>2, <1>3, <1>5, <1>6
<1>8. /\ len \in Nat /\ L!EndOf(m, b) = b + len /\ b + len \in 0 .. Size - 1 /\ m[b + len] = 0
      /\ \A j \in b .. b + len - 1 : m[j] # 0
  BY <1>3, <1>4, <1>7, EndFacts
<1>a. PICK r : r = Padded(m, a, b)
  OBVIOUS
<1>9. CASE v6 # 0
  <2>1. /\ v1' = [v1 EXCEPT ![a + d] = v1[v5]] /\ v3' = v3 /\ v4' = v4 + 1
        /\ v5' = (IF v1[v5] = 0 THEN v5 ELSE v5 + 1) /\ v6' = v6 - 1 /\ v7' = v7
    BY <1>7, <1>9 DEF L!Strncpy, L!Write, L!Stay
  <2>2. /\ d < k /\ k - (v6 - 1) = d + 1 /\ v6 - 1 <= k /\ v4 + 1 = a + (d + 1)
        /\ v4 + 1 \in 0 .. Size /\ v6 - 1 \in 0 .. Size /\ a + d \in 0 .. Size - 1
    BY <1>2, <1>4, <1>7, <1>9
  <2>3. PICK new : new = v1'
    OBVIOUS
  <2>4. v5 \in b .. b + len /\ v5 \in L!Addr
    <3>1. v5 \in Nat /\ b <= v5 /\ v5 <= b + len
      BY <1>7, <1>8
    <3>2. v5 <= Size - 1 /\ b + len \in Nat
      BY <1>2, <1>8, <3>1
    <3> QED BY <1>2, <1>7, <1>8, <3>1, <3>2 DEF L!Addr
  <2>5. v1[v5] = m[v5]
    <3>1. v5 \notin L!Span(a, d)
      <4>1. L!Span(a, d) \subseteq L!Span(a, k)
        BY <1>7 DEF L!Span
      <4> QED BY <1>4, <1>8, <2>4, <4>1
    <3> QED BY <1>5, <1>6, <2>4, <3>1, NotYetWritten
  <2>6. r[a + d] = m[v5] /\ m[v5] \in Bytes
    <3>1. (a + d) - a = d /\ a + d \in Int
      BY <1>7
    <3>2. r[a + d] = IF d < len THEN m[b + d] ELSE 0
      BY <1>3, <1>a, <3>1 DEF Padded
    <3>3. r[a + d] = m[v5]
      BY <1>7, <1>8, <3>2
    <3> QED BY <1>2, <1>3, <2>4, <3>3
  <2>7. new \in [L!Addr -> Bytes] /\ Becomes(new, m, a, d + 1, r)
    <3>1. a + d \in L!Addr /\ r[a + d] \in Bytes /\ Becomes(v1, m, a, d, r)
      BY <1>5, <1>6, <1>a, <2>2, <2>6 DEF L!Addr
    <3>2. new = [v1 EXCEPT ![a + d] = r[a + d]]
      BY <2>1, <2>3, <2>5, <2>6
    <3> QED BY <1>2, <1>7, <3>1, <3>2, OneMoreByte
  <2>8. v5' = b + (IF d + 1 < len THEN d + 1 ELSE len)
    <3>1. CASE d < len
      <4>1. v5 = b + d /\ v5 \in b .. b + len - 1
        BY <1>7, <1>8, <3>1
      <4>2. v5' = v5 + 1
        BY <1>8, <2>1, <2>5, <4>1
      <4> QED BY <1>7, <1>8, <3>1, <4>1, <4>2
    <3>2. CASE ~(d < len)
      <4>1. v5 = b + len /\ m[v5] = 0
        BY <1>7, <1>8, <3>2
      <4>2. v5' = v5
        BY <2>1, <2>5, <4>1
      <4> QED BY <1>7, <1>8, <3>2, <4>1, <4>2
    <3> QED BY <3>1, <3>2
  <2>9. v5' \in 0 .. Size /\ v5' <= b + len
    BY <1>2, <1>7, <1>8, <2>8
  <2>10. L!OnlyTheDestinationIsWritten'
    <3>1. L!Span(a, d + 1) \subseteq L!Destination
      BY <1>1, <1>3, <1>7, <2>2 DEF L!Span, L!Destination
    <3> QED BY <1>3, <2>3, <2>7, <3>1, WrittenInDestination
  <2>11. CountInv'
    BY <1>1, <1>3, <1>a, <2>1, <2>2, <2>3, <2>7, <2>8 DEF CountInv
  <2>12. ReadInv' /\ CopyInv'
    BY <1>1, <2>1 DEF ReadInv, CopyInv
  <2>13. L!StringsAreReadToTheirEnd'
    BY <1>1, <1>3, <1>8, <2>1, <2>9 DEF L!StringsAreReadToTheirEnd
  <2> QED
    BY <1>1, <2>1, <2>2, <2>3, <2>7, <2>9, <2>10, <2>11, <2>12, <2>13, LoopGoesOn
<1>10. CASE v6 = 0
  <2>1. v3' = "done" /\ v7' = 0 /\ v1' = v1 /\ v4' = v4 /\ v5' = v5 /\ v6' = v6
    BY <1>10 DEF L!Strncpy, L!Return
  <2>2. d = k
    BY <1>7, <1>10
  <2>3. \A j \in L!Span(0, k) : v1[a + j] = IF j < len THEN m[b + j] ELSE 0
    <3> SUFFICES ASSUME NEW j \in L!Span(0, k)
                 PROVE  v1[a + j] = IF j < len THEN m[b + j] ELSE 0
      OBVIOUS
    <3>1. a + j \in L!Addr /\ a + j \in L!Span(a, d) /\ a + j \in Int /\ (a + j) - a = j
      BY <1>2, <1>4, <1>7, <2>2 DEF L!Addr, L!Span
    <3> QED BY <1>3, <1>5, <1>6, <3>1 DEF Becomes, Padded
  <2>4. L!CopiesAreExact'
    BY <1>1, <1>3, <2>1, <2>3 DEF L!CopiesAreExact
  <2>5. L!ComparisonsAreOrders'
    BY <1>1, <2>1 DEF L!ComparisonsAreOrders
  <2>6. v7' \in -ByteMod .. ByteMod + Size
    BY <1>2, <2>1, SizeFacts
  <2> QED BY <1>1, <1>2, <2>1, <2>4, <2>5, <2>6, NothingWritten, CallReturns
<1> QED BY <1>9, <1>10

\* strcpy(), and strcat() once it has found the end.
LEMMA CopyStringHolds ==
  ASSUME LibInv, NEW loop \in {"strcpy", "strcat_copy"}, L!CopyString(loop), v2' = v2
  PROVE  LibInv'
<1>1. v3 = loop /\ v2.f = IF loop = "strcpy" THEN "strcpy" ELSE "strcat"
  BY CallFacts DEF L!CopyString, L!Functions, L!Counted
<1>2. /\ v2.a \in Nat /\ v2.b \in Nat /\ v2.mem \in [L!Addr -> Bytes] /\ Size \in Nat
      /\ v6 \in Nat /\ v6 <= Size /\ v1 \in [L!Addr -> Bytes]
      /\ v7 \in -ByteMod .. ByteMod + Size
  BY <1>1, CallFacts
<1>3. PICK a, b, m, len, w : /\ a = v2.a /\ b = v2.b /\ m = v2.mem /\ len = L!LenOf(m, b)
                             /\ w = IF loop = "strcpy" THEN a ELSE L!EndOf(m, a)
  OBVIOUS
<1>4. a \in Nat /\ b \in Nat /\ L!IsString(m, b)
  BY <1>1, <1>2, <1>3, CallFacts DEF L!Legal
<1>5. /\ len \in Nat /\ L!EndOf(m, b) = b + len /\ b + len \in 0 .. Size - 1 /\ m[b + len] = 0
      /\ \A j \in b .. b + len - 1 : m[j] # 0
  BY <1>3, <1>4, EndFacts
<1>6. w \in Nat /\ w + len < Size /\ L!Span(w, len + 1) \cap b .. b + len = {}
  <2>1. CASE loop = "strcpy"
    <3>1. a + len < Size /\ L!Span(a, len + 1) \cap b .. L!EndOf(m, b) = {}
      BY <1>1, <1>3, <2>1, CallFacts DEF L!Legal
    <3> QED BY <1>3, <1>4, <1>5, <2>1, <3>1
  <2>2. CASE loop = "strcat_copy"
    <3>1. /\ L!IsString(m, a) /\ L!EndOf(m, a) + len < Size
          /\ a .. L!EndOf(m, a) + len \cap b .. L!EndOf(m, b) = {}
      BY <1>1, <1>3, <2>2, CallFacts DEF L!Legal
    <3>2. w = L!EndOf(m, a) /\ w \in Nat /\ a <= w
      BY <1>3, <1>4, <2>2, <3>1, EndFacts
    <3>3. L!Span(w, len + 1) \subseteq a .. w + len
      BY <1>4, <1>5, <3>2 DEF L!Span
    <3> QED BY <1>5, <3>1, <3>2, <3>3
  <2> QED BY <2>1, <2>2
<1>7. v5 \in b .. b + len /\ v4 = w + (v5 - b) /\ Becomes(v1, m, w, v5 - b, Moved(m, w, b))
  <2>1. CASE loop = "strcpy"
    BY <1>1, <1>3, <1>5, <2>1 DEF LibInv, CopyInv
  <2>2. CASE loop = "strcat_copy"
    BY <1>1, <1>3, <1>5, <2>2 DEF LibInv, CopyInv
  <2> QED BY <2>1, <2>2
<1>8. PICK d, r : d = v5 - b /\ r = Moved(m, w, b)
  OBVIOUS
<1>9. /\ d \in Nat /\ d <= len /\ v5 = b + d /\ v4 = w + d /\ w + d \in L!Addr /\ b + d \in L!Addr
      /\ Becomes(v1, m, w, d, r)
  <2>1. d \in Nat /\ d <= len /\ v5 = b + d /\ v4 = w + d
    BY <1>4, <1>5, <1>7, <1>8
  <2>2. w + d \in L!Addr /\ b + d \in L!Addr
    BY <1>2, <1>4, <1>5, <1>6, <2>1 DEF L!Addr
  <2> QED BY <1>7, <1>8, <2>1, <2>2
<1>10. v1[b + d] = m[b + d]
  <2>1. b + d \in b .. b + len /\ L!Span(w, d) \subseteq L!Span(w, len + 1)
    BY <1>4, <1>5, <1>6, <1>9 DEF L!Span
  <2>2. b + d \notin L!Span(w, d)
    BY <1>6, <2>1
  <2> QED BY <1>9, <2>2, NotYetWritten
<1>11. r[w + d] = m[b + d] /\ m[b + d] \in Bytes
  <2>1. (w + d) - w = d /\ w + d \in Int
    BY <1>6, <1>9
  <2> QED BY <1>2, <1>3, <1>8, <1>9, <2>1 DEF Moved
<1>12. PICK new : new = v1'
  OBVIOUS
<1>13. new \in [L!Addr -> Bytes] /\ Becomes(new, m, w, d + 1, r)
  <2>1. new = [v1 EXCEPT ![w + d] = r[w + d]] /\ r[w + d] \in Bytes
    BY <1>9, <1>10, <1>11, <1>12 DEF L!CopyString, L!Write
  <2> QED BY <1>2, <1>6, <1>9, <2>1, OneMoreByte
<1>14. L!OnlyTheDestinationIsWritten'
  <2>1. L!Destination = L!Span(w, len + 1)
    <3>1. CASE loop = "strcpy"
      BY <1>1, <1>3, <3>1 DEF L!Destination
    <3>2. CASE loop = "strcat_copy"
      BY <1>1, <1>3, <3>2 DEF L!Destination
    <3> QED BY <3>1, <3>2
  <2>2. L!Span(w, d + 1) \subseteq L!Span(w, len + 1)
    BY <1>5, <1>6, <1>9 DEF L!Span
  <2>3. Becomes(new, v2.mem, w, d + 1, r) /\ v1' = new
    BY <1>3, <1>12, <1>13
  <2> QED BY <2>1, <2>2, <2>3, WrittenInDestination
<1>15. v6' = v6 /\ v7' = v7
  BY DEF L!CopyString
<1>16. CASE m[b + d] = 0
  <2>1. v3' = "done" /\ v4' = v4 /\ v5' = v5
    BY <1>9, <1>10, <1>16 DEF L!CopyString
  <2>2. d = len
    <3>1. ~(b + d \in b .. b + len - 1)
      BY <1>5, <1>16
    <3> QED BY <1>4, <1>5, <1>9, <3>1
  <2>3. \A j \in 0 .. len : new[w + j] = m[b + j]
    <3> SUFFICES ASSUME NEW j \in 0 .. len PROVE new[w + j] = m[b + j]
      OBVIOUS
    <3>1. w + j \in L!Addr /\ w + j \in L!Span(w, d + 1) /\ w + j \in Int /\ (w + j) - w = j
      BY <1>2, <1>5, <1>6, <2>2 DEF L!Addr, L!Span
    <3> QED BY <1>8, <1>13, <3>1 DEF Becomes, Moved
  <2>4. L!CopiesAreExact'
    <3>1. CASE loop = "strcpy"
      BY <1>1, <1>3, <1>12, <2>1, <2>3, <3>1 DEF L!CopiesAreExact
    <3>2. CASE loop = "strcat_copy"
      BY <1>1, <1>3, <1>12, <2>1, <2>3, <3>2 DEF L!CopiesAreExact
    <3> QED BY <3>1, <3>2
  <2>5. L!ComparisonsAreOrders'
    BY <1>1, <2>1 DEF L!ComparisonsAreOrders
  <2> QED BY <1>1, <1>2, <1>12, <1>13, <1>14, <1>15, <2>1, <2>4, <2>5, CallReturns
<1>17. CASE m[b + d] # 0
  <2>1. v3' = v3 /\ v4' = v4 + 1 /\ v5' = v5 + 1
    BY <1>1, <1>9, <1>10, <1>17 DEF L!CopyString
  <2>2. /\ d < len /\ v5 + 1 \in b .. b + len /\ (v5 + 1) - b = d + 1 /\ v4 + 1 = w + (d + 1)
        /\ v4 + 1 \in 0 .. Size /\ v5 + 1 \in 0 .. Size /\ v5 + 1 <= b + len
    BY <1>2, <1>4, <1>5, <1>6, <1>9, <1>17
  <2>3. CopyInv'
    <3>1. CASE loop = "strcpy"
      BY <1>1, <1>3, <1>5, <1>8, <1>12, <1>13, <2>1, <2>2, <3>1 DEF CopyInv
    <3>2. CASE loop = "strcat_copy"
      BY <1>1, <1>3, <1>5, <1>8, <1>12, <1>13, <2>1, <2>2, <3>2 DEF CopyInv
    <3> QED BY <3>1, <3>2
  <2>4. ReadInv' /\ CountInv'
    BY <1>1, <2>1 DEF ReadInv, CountInv
  <2>5. L!StringsAreReadToTheirEnd'
    BY <1>1, <1>3, <1>5, <2>1, <2>2 DEF L!StringsAreReadToTheirEnd
  <2>6. v5' \in 0 .. Size \cup Bytes /\ v6' \in 0 .. Size
    BY <1>2, <1>15, <2>1, <2>2
  <2> QED
    BY <1>1, <1>12, <1>13, <1>14, <1>15, <2>1, <2>2, <2>3, <2>4, <2>5, <2>6, LoopGoesOn
<1> QED BY <1>16, <1>17

\* A call begins with the memory as it is and with nothing read.
LEMMA CallHolds ==
  ASSUME LibInv, NEW f \in L!Functions, NEW a \in L!Addr, NEW b \in L!Addr \cup Bytes,
         NEW k \in 0 .. Size, L!Call(f, a, b, k)
  PROVE  LibInv'
<1>1. /\ v3 = "idle" /\ v2' = [f |-> f, a |-> a, b |-> b, n |-> k, mem |-> v1] /\ v3' = f
      /\ v4' = a /\ v5' = b /\ v6' = k /\ v1' = v1 /\ v7' = v7
      /\ IF f = "memset" THEN b \in Bytes ELSE b \in L!Addr
      /\ L!Legal(v1, f, a, b, k)
  BY DEF L!Call
<1>2. PICK m, call : m = v1 /\ call = v2'
  OBVIOUS
<1>3. /\ m \in [L!Addr -> Bytes] /\ v7 \in -ByteMod .. ByteMod + Size /\ L!TypeOK
      /\ a \in Nat /\ a < Size /\ Size \in Nat /\ k \in Nat
      /\ f # "memset" => b \in Nat /\ b < Size
  BY <1>1, <1>2, SizeFacts DEF LibInv, L!TypeOK, L!Addr
<1>4. call.f = f /\ call.a = a /\ call.b = b /\ call.n = k /\ call.mem = m
  BY <1>1, <1>2
<1>5. CallInv'
  <2>1. f # "idle"
    BY DEF L!Functions, L!Counted
  <2> QED BY <1>1, <1>2, <1>3, <1>4, <2>1 DEF CallInv
<1>6. L!TypeOK'
  <2>1. a \in 0 .. Size /\ b \in 0 .. Size \cup Bytes
    BY <1>3 DEF L!Addr
  <2> QED BY <1>1, <1>2, <1>3, <2>1 DEF L!TypeOK
<1>7. L!OnlyTheDestinationIsWritten'
  BY <1>1, <1>2, <1>4 DEF L!OnlyTheDestinationIsWritten
<1>8. L!CopiesAreExact' /\ L!ComparisonsAreOrders' /\ L!StrncmpUnlessEndTogether'
  <2>1. f # "done"
    BY DEF L!Functions, L!Counted
  <2>2. L!StrncmpUnlessEndTogether'
    <3>1. ~L!Behind(m, a, a) /\ (f = "strncmp" => ~L!Behind(m, b, b))
      BY <1>3 DEF L!Behind
    <3>2. f = "strncmp" => f \notin {"done", "beyond"}
      OBVIOUS
    <3> QED BY <1>1, <1>2, <1>4, <3>1, <3>2 DEF L!StrncmpUnlessEndTogether
  <2> QED BY <1>1, <2>1, <2>2 DEF L!CopiesAreExact, L!ComparisonsAreOrders
<1>9. PICK e : f \in {"strlen", "strcmp", "strcat"} =>
                 e = L!EndOf(m, a) /\ a \in a .. e /\ a <= e /\ L!IsString(m, a) /\ e \in Nat
  <2>1. f \in {"strlen", "strcmp", "strcat"} => L!IsString(m, a)
    BY <1>1, <1>2 DEF L!Legal
  <2>2. L!IsString(m, a) => L!EndOf(m, a) \in a .. Size - 1 /\ L!EndOf(m, a) \in Nat
    BY <1>3, EndFacts
  <2> QED BY <1>3, <2>1, <2>2
<1>10. PICK g : f \in {"strcmp", "strcpy", "strcat", "strncpy"} =>
                  g = L!EndOf(m, b) /\ b \in b .. g /\ b <= g /\ g \in Nat /\ g = b + L!LenOf(m, b)
                  /\ L!LenOf(m, b) \in Nat
  <2>1. f \in {"strcmp", "strcpy", "strcat", "strncpy"} => L!IsString(m, b) /\ b \in Nat
    BY <1>1, <1>2, <1>3 DEF L!Legal
  <2>2. L!IsString(m, b) /\ b \in Nat =>
          L!EndOf(m, b) \in b .. Size - 1 /\ L!EndOf(m, b) = b + L!LenOf(m, b) /\ L!LenOf(m, b) \in Nat
    BY <1>3, EndFacts
  <2> QED BY <1>3, <2>1, <2>2
<1>11. L!StringsAreReadToTheirEnd'
  BY <1>1, <1>2, <1>4, <1>9, <1>10 DEF L!StringsAreReadToTheirEnd, L!Functions, L!Counted
<1>12. SameBytes(m, a, b, 0)
  BY DEF SameBytes, L!Span
<1>13. ReadInv'
  <2>1. /\ a - a = 0 /\ k - k = 0 /\ k <= k /\ a = a + 0
        /\ f # "memset" => b - b = 0 /\ b = b + 0
    BY <1>3
  <2>2. CASE f = "strcmp"
    BY <1>1, <1>2, <1>4, <1>9, <1>10, <1>12, <2>1, <2>2 DEF ReadInv
  <2>3. CASE f \in {"strncmp", "memcmp"}
    <3>1. v5' <= Size
      BY <1>1, <1>3, <2>3
    <3> QED BY <1>1, <1>2, <1>4, <1>12, <2>1, <2>3, <3>1 DEF ReadInv
  <2>4. CASE f = "strlen"
    <3>1. PICK end : end = L!EndOf(m, a)
      OBVIOUS
    <3>2. k = 0 /\ a \in a .. end
      BY <1>9, <2>4, <3>1 DEF L!Call, L!Counted
    <3>3. /\ v3' = "strlen" /\ v6' = v4' - v2'.a /\ v4' \in v2'.a .. L!EndOf(v2'.mem, v2'.a)
          /\ v1' = v2'.mem
      BY <1>1, <1>2, <1>4, <2>1, <2>4, <3>1, <3>2
    <3> QED BY <3>3 DEF ReadInv
  <2>5. CASE f = "strcat"
    BY <1>1, <1>2, <1>4, <1>9, <2>1, <2>5 DEF ReadInv
  <2>6. CASE f \notin {"strlen", "strcat", "strcmp", "strncmp", "memcmp"}
    BY <1>1, <2>6 DEF ReadInv
  <2> QED BY <2>2, <2>3, <2>4, <2>5, <2>6
<1>14. \A r : Becomes(m, m, a, 0, r)
  BY <1>3, NoByteYet
<1>15. CountInv'
  <2>1. k <= k /\ k - k = 0 /\ a = a + 0
    BY <1>3
  <2>2. f \in {"memcpy", "strncpy"} => b = b + 0
    BY <1>3
  <2>3. f = "strncpy" => b = b + (IF 0 < L!LenOf(m, b) THEN 0 ELSE L!LenOf(m, b))
    BY <1>3, <1>10
  <2> QED BY <1>1, <1>2, <1>4, <1>14, <2>1, <2>2, <2>3 DEF CountInv
<1>16. CopyInv'
  <2>1. f = "strcpy" => b - b = 0 /\ a = a + 0
    BY <1>3
  <2>2. f # "strcat_copy"
    BY DEF L!Functions, L!Counted
  <2> QED BY <1>1, <1>2, <1>4, <1>10, <1>14, <2>1, <2>2 DEF CopyInv
<1> QED BY <1>5, <1>6, <1>7, <1>8, <1>11, <1>13, <1>15, <1>16 DEF LibInv

\* Initially no function is called.
LEMMA LibInvInit == L!Init => LibInv
<1> SUFFICES ASSUME L!Init PROVE LibInv
  OBVIOUS
<1>1. /\ v1 \in [L!Addr -> Bytes] /\ v3 = "idle" /\ v4 = 0 /\ v5 = 0 /\ v6 = 0 /\ v7 = 0
      /\ v2 = [f |-> "none", a |-> 0, b |-> 0, n |-> 0, mem |-> v1]
  BY DEF L!Init
<1>2. L!TypeOK
  <2>1. 0 \in 0 .. Size /\ 0 \in -ByteMod .. ByteMod + Size
    BY SizeFacts
  <2> QED BY <1>1, <2>1 DEF L!TypeOK
<1>3. L!OnlyTheDestinationIsWritten
  BY <1>1 DEF L!OnlyTheDestinationIsWritten
<1> QED
  BY <1>1, <1>2, <1>3 DEF LibInv, L!StringsAreReadToTheirEnd, L!CopiesAreExact,
     L!ComparisonsAreOrders, L!StrncmpUnlessEndTogether, CallInv, ReadInv, CountInv, CopyInv

\* Every step of a string function keeps the invariant.
LEMMA LibInvNext == LibInv /\ [L!Next]_(L!vars) => LibInv'
<1> SUFFICES ASSUME LibInv, [L!Next]_(L!vars) PROVE LibInv'
  OBVIOUS
<1>1. ASSUME NEW f \in L!Functions, NEW a \in L!Addr, NEW b \in L!Addr \cup Bytes,
             NEW k \in 0 .. Size, L!Call(f, a, b, k)
      PROVE  LibInv'
  BY <1>1, CallHolds
<1>2. CASE v2' = v2 /\ (L!Strncmp \/ L!StrncmpBeyond \/ L!Memcmp)
  BY <1>2, StrncmpHolds, StrncmpBeyondHolds, MemcmpHolds
<1>3. CASE v2' = v2 /\ (L!Strcpy \/ L!StrcatCopy)
  BY <1>3, CopyStringHolds DEF L!Strcpy, L!StrcatCopy
<1>4. CASE /\ v2' = v2
           /\ \/ L!Strlen \/ L!Strcmp \/ L!StrcatFindEnd
              \/ L!Memset \/ L!Memcpy \/ L!Strncpy
  BY <1>4, StrlenHolds, StrcmpHolds, StrcatFindEndHolds, MemsetHolds, MemcpyHolds, StrncpyHolds
<1>5. CASE UNCHANGED L!vars
  <2>1. /\ v1' = v1 /\ v2' = v2 /\ v3' = v3 /\ v4' = v4 /\ v5' = v5 /\ v6' = v6 /\ v7' = v7
    BY <1>5 DEF L!vars
  <2> QED
    BY <2>1 DEF LibInv, L!TypeOK, L!StringsAreReadToTheirEnd, L!OnlyTheDestinationIsWritten,
       L!Destination, L!CopiesAreExact, L!ComparisonsAreOrders, L!StrncmpUnlessEndTogether, CallInv, ReadInv, CountInv, CopyInv
<1> QED BY <1>1, <1>2, <1>3, <1>4, <1>5 DEF L!Next

\* The functions of string.h write the bytes they should and no other, read
\* no string beyond its end, and compare in the right order; but strncmp() reads
\* on behind the ends of strings that are equal and end before n, and only then.
THEOREM StringFunctionsAreExactHolds == SpecAny => []StringFunctionsAreExact
<1> DEFINE Inv == what = "string.h" => LibInv
<1>1. InitAny => Inv
  BY LibInvInit DEF InitAny
<1>2. Inv /\ [NextAny]_<<what, vars, general>> => Inv'
  <2> SUFFICES ASSUME Inv, [NextAny]_<<what, vars, general>>, what' = "string.h"
               PROVE  LibInv'
    OBVIOUS
  <2>1. CASE NextAny
    <3>1. what = "string.h" /\ L!Next
      BY <2>1 DEF NextAny
    <3> QED BY <3>1, LibInvNext
  <2>2. CASE UNCHANGED <<what, vars, general>>
    <3>1. what = "string.h" /\ UNCHANGED L!vars
      BY <2>2 DEF general, L!vars
    <3> QED BY <3>1, LibInvNext
  <2> QED BY <2>1, <2>2
<1>3. Inv => StringFunctionsAreExact
  BY DEF StringFunctionsAreExact, LibInv
<1> QED BY <1>1, <1>2, <1>3, PTL DEF SpecAny

(***************************************************************************)
(* Numerals: the recursive functions exist, and what is appended to digits *)
(* is worth.                                                               *)
(***************************************************************************)
\* The first n values that are computed from z on, one from the other.
IsPrefixOf(g, n, V, z, step) ==
  g \in [0 .. n -> V] /\ g[0] = z /\ \A m \in 0 .. n - 1 : g[m + 1] = step[m][g[m]]

\* A recursive function up to n exists: were there a least n without one, the
\* one for n - 1 could be extended.
LEMMA PrefixExists ==
  ASSUME NEW V, NEW z \in V, NEW step \in [Nat -> [V -> V]], NEW n \in Nat
  PROVE  \E g : IsPrefixOf(g, n, V, z, step)
<1> DEFINE Bad == {m \in Nat : ~ \E g : IsPrefixOf(g, m, V, z, step)}
<1>1. SUFFICES ASSUME Bad # {} PROVE FALSE
  OBVIOUS
<1>2. PICK m \in Bad : \A k \in Bad : m <= k
  <2>1. Bad \in SUBSET Nat
    OBVIOUS
  <2> HIDE DEF Bad
  <2> QED BY <1>1, <2>1, LeastOf
<1>3. CASE m = 0
  <2> DEFINE g == [k \in 0 .. 0 |-> z]
  <2>1. IsPrefixOf(g, m, V, z, step)
    BY <1>3 DEF IsPrefixOf
  <2> QED BY <2>1
<1>4. CASE m # 0
  <2>1. m - 1 \in Nat /\ m - 1 \notin Bad
    BY <1>2, <1>4
  <2>2. PICK g : IsPrefixOf(g, m - 1, V, z, step)
    BY <2>1
  <2> DEFINE h == [k \in 0 .. m |-> IF k = m THEN step[m - 1][g[m - 1]] ELSE g[k]]
  <2>3. g \in [0 .. m - 1 -> V] /\ g[0] = z /\ m - 1 \in 0 .. m - 1
    BY <2>1, <2>2 DEF IsPrefixOf
  <2>4. step[m - 1][g[m - 1]] \in V
    BY <2>1, <2>3
  <2>5. h \in [0 .. m -> V] /\ h[0] = z
    BY <1>4, <2>3, <2>4
  <2>6. ASSUME NEW k \in 0 .. m - 1 PROVE h[k + 1] = step[k][h[k]]
    <3>1. h[k] = g[k]
      OBVIOUS
    <3>2. CASE k = m - 1
      BY <3>1, <3>2
    <3>3. CASE k # m - 1
      <4>1. k \in 0 .. (m - 1) - 1 /\ h[k + 1] = g[k + 1]
        BY <3>3
      <4> QED BY <2>2, <3>1, <4>1 DEF IsPrefixOf
    <3> QED BY <3>2, <3>3
  <2>7. IsPrefixOf(h, m, V, z, step)
    BY <2>5, <2>6 DEF IsPrefixOf
  <2> QED BY <2>7
<1> QED BY <1>3, <1>4

\* Two recursive functions with the same equations are equal where both are
\* defined.
LEMMA PrefixesAgree ==
  ASSUME NEW V, NEW z \in V, NEW step \in [Nat -> [V -> V]],
         NEW m \in Nat, NEW n \in Nat, NEW g, NEW h,
         IsPrefixOf(g, m, V, z, step), IsPrefixOf(h, n, V, z, step),
         NEW i \in Nat, i <= m, i <= n
  PROVE  g[i] = h[i]
<1> DEFINE Bad == {k \in Nat : k <= m /\ k <= n /\ g[k] # h[k]}
<1>1. SUFFICES ASSUME Bad # {} PROVE FALSE
  OBVIOUS
<1>2. PICK k \in Bad : \A j \in Bad : k <= j
  <2>1. Bad \in SUBSET Nat
    OBVIOUS
  <2> HIDE DEF Bad
  <2> QED BY <1>1, <2>1, LeastOf
<1>3. k # 0
  BY DEF IsPrefixOf
<1>4. k - 1 \in 0 .. m - 1 /\ k - 1 \in 0 .. n - 1 /\ g[k - 1] = h[k - 1]
  BY <1>2, <1>3
<1>5. g[(k - 1) + 1] = step[k - 1][g[k - 1]] /\ h[(k - 1) + 1] = step[k - 1][h[k - 1]]
  BY <1>4 DEF IsPrefixOf
<1>6. (k - 1) + 1 = k
  OBVIOUS
<1> QED BY <1>4, <1>5, <1>6

\* What is computed one from the other, from z on, can be computed for ever.
Computes(f, V, z, step) ==
  f \in [Nat -> V] /\ f[0] = z /\ \A n \in Nat : f[n + 1] = step[n][f[n]]

\* A function on the natural numbers that is defined by its value at 0 and a
\* step exists.
LEMMA AllExist ==
  ASSUME NEW V, NEW z \in V, NEW step \in [Nat -> [V -> V]]
  PROVE  \E f : Computes(f, V, z, step)
<1> DEFINE G(n) == CHOOSE g : IsPrefixOf(g, n, V, z, step)
           f == [n \in Nat |-> G(n)[n]]
<1>1. \A n \in Nat : IsPrefixOf(G(n), n, V, z, step)
  BY PrefixExists
<1> HIDE DEF G
<1>2. \A n \in Nat : f[n] \in V
  BY <1>1 DEF IsPrefixOf
<1>3. f[0] = z
  BY <1>1 DEF IsPrefixOf
<1>4. ASSUME NEW n \in Nat PROVE f[n + 1] = step[n][f[n]]
  <2>1. IsPrefixOf(G(n), n, V, z, step) /\ IsPrefixOf(G(n + 1), n + 1, V, z, step)
    BY <1>1
  <2>2. G(n)[n] = G(n + 1)[n]
    BY <2>1, PrefixesAgree
  <2>3. n \in 0 .. (n + 1) - 1
    OBVIOUS
  <2>4. G(n + 1)[n + 1] = step[n][G(n + 1)[n]]
    BY <2>1, <2>3 DEF IsPrefixOf
  <2> QED BY <2>2, <2>4
<1>5. Computes(f, V, z, step)
  BY <1>2, <1>3, <1>4 DEF Computes
<1> QED BY <1>5

\* Powers are those of school.
LEMMA RaisedToIs ==
  ASSUME NEW b \in Nat
  PROVE  /\ RaisedTo(b, 0) = 1
         /\ \A n \in Nat : /\ RaisedTo(b, n) \in Nat
                           /\ RaisedTo(b, n + 1) = RaisedTo(b, n) * b
<1> DEFINE Is(f) == f = [n \in Nat |-> IF n = 0 THEN 1 ELSE f[n - 1] * b]
           power == CHOOSE f : Is(f)
           step == [n \in Nat |-> [v \in Nat |-> v * b]]
<1>1. \E f : Is(f)
  <2>1. step \in [Nat -> [Nat -> Nat]] /\ \A n, v \in Nat : step[n][v] = v * b
    OBVIOUS
  <2> HIDE DEF step
  <2>2. PICK f : Computes(f, Nat, 1, step)
    BY <2>1, AllExist
  <2>3. ASSUME NEW n \in Nat PROVE f[n] = IF n = 0 THEN 1 ELSE f[n - 1] * b
    <3>1. CASE n = 0
      BY <2>2, <3>1 DEF Computes
    <3>2. CASE n # 0
      <4>1. n - 1 \in Nat /\ (n - 1) + 1 = n
        BY <3>2
      <4>2. f[n] = step[n - 1][f[n - 1]] /\ f[n - 1] \in Nat
        BY <2>2, <4>1 DEF Computes
      <4> QED BY <2>1, <3>2, <4>1, <4>2
    <3> QED BY <3>1, <3>2
  <2>4. f = [n \in Nat |-> f[n]]
    BY <2>2 DEF Computes
  <2>5. Is(f)
    BY <2>3, <2>4
  <2> QED BY <2>5
<1>2. Is(power)
  BY <1>1
<1>3. \A n \in Nat : RaisedTo(b, n) = power[n]
  BY DEF RaisedTo
<1> HIDE DEF power
<1>4. power[0] = 1 /\ \A n \in Nat : power[n + 1] = power[n] * b
  <2>1. \A n \in Nat : power[n] = IF n = 0 THEN 1 ELSE power[n - 1] * b
    BY <1>2
  <2>2. \A n \in Nat : n + 1 \in Nat /\ n + 1 # 0 /\ (n + 1) - 1 = n
    OBVIOUS
  <2> QED BY <2>1, <2>2
<1>5. \A n \in Nat : power[n] \in Nat
  <2> DEFINE Bad == {n \in Nat : power[n] \notin Nat}
  <2>1. SUFFICES ASSUME Bad # {} PROVE FALSE
    OBVIOUS
  <2>2. PICK m \in Bad : \A k \in Bad : m <= k
    <3>1. Bad \in SUBSET Nat
      OBVIOUS
    <3> HIDE DEF Bad
    <3> QED BY <2>1, <3>1, LeastOf
  <2>3. m # 0
    BY <1>4
  <2>4. m - 1 \in Nat /\ power[m - 1] \in Nat /\ (m - 1) + 1 = m
    BY <2>2, <2>3
  <2>5. power[m] = power[m - 1] * b
    BY <1>4, <2>4
  <2>6. power[m] \in Nat
    BY <2>4, <2>5
  <2> QED BY <2>6
<1> QED BY <1>3, <1>4, <1>5

\* Powers of a base of at least 1 do not become smaller.
LEMMA RaisedToGrows ==
  ASSUME NEW b \in Nat, b >= 1, NEW m \in Nat, NEW n \in Nat, m <= n
  PROVE  1 <= RaisedTo(b, m) /\ RaisedTo(b, m) <= RaisedTo(b, n)
<1>1. \A k \in Nat : RaisedTo(b, k) \in Nat /\ RaisedTo(b, k + 1) = RaisedTo(b, k) * b
                     /\ RaisedTo(b, 0) = 1
  BY RaisedToIs
<1>2. ASSUME NEW p \in Nat PROVE p <= p * b
  OBVIOUS
<1>3. ASSUME NEW k \in Nat PROVE RaisedTo(b, k) <= RaisedTo(b, k + 1)
  BY <1>1, <1>2
<1> DEFINE Bad(i) == {k \in Nat : i <= k /\ ~(RaisedTo(b, i) <= RaisedTo(b, k))}
<1>4. ASSUME NEW i \in Nat PROVE Bad(i) = {}
  <2>1. SUFFICES ASSUME Bad(i) # {} PROVE FALSE
    OBVIOUS
  <2>2. PICK k \in Bad(i) : \A j \in Bad(i) : k <= j
    <3>1. Bad(i) \in SUBSET Nat
      OBVIOUS
    <3> HIDE DEF Bad
    <3> QED BY <2>1, <3>1, LeastOf
  <2>3. k # i
    BY <1>1
  <2>4. k - 1 \in Nat /\ i <= k - 1 /\ k - 1 \notin Bad(i) /\ (k - 1) + 1 = k
    BY <2>2, <2>3
  <2>5. RaisedTo(b, i) <= RaisedTo(b, k - 1) /\ RaisedTo(b, k - 1) <= RaisedTo(b, k)
    BY <1>3, <2>4
  <2>6. RaisedTo(b, i) \in Nat /\ RaisedTo(b, k - 1) \in Nat /\ RaisedTo(b, k) \in Nat
    BY <1>1, <2>4
  <2>7. RaisedTo(b, i) <= RaisedTo(b, k)
    BY <2>5, <2>6
  <2> QED BY <2>7
<1>5. n \notin Bad(m) /\ m \notin Bad(0)
  BY <1>4
<1> QED BY <1>1, <1>5

\* A larger base has the larger powers.
LEMMA LargerBase ==
  ASSUME NEW a \in Nat, NEW b \in Nat, a <= b, NEW n \in Nat
  PROVE  RaisedTo(a, n) <= RaisedTo(b, n)
<1> DEFINE Bad == {k \in Nat : ~(RaisedTo(a, k) <= RaisedTo(b, k))}
<1>1. SUFFICES ASSUME Bad # {} PROVE FALSE
  OBVIOUS
<1>2. PICK k \in Bad : \A j \in Bad : k <= j
  <2>1. Bad \in SUBSET Nat
    OBVIOUS
  <2> HIDE DEF Bad
  <2> QED BY <1>1, <2>1, LeastOf
<1>3. k # 0
  BY RaisedToIs
<1>4. k - 1 \in Nat /\ k - 1 \notin Bad /\ (k - 1) + 1 = k
  BY <1>2, <1>3
<1>5. /\ RaisedTo(a, k - 1) \in Nat /\ RaisedTo(b, k - 1) \in Nat
      /\ RaisedTo(a, k) = RaisedTo(a, k - 1) * a /\ RaisedTo(b, k) = RaisedTo(b, k - 1) * b
      /\ RaisedTo(a, k - 1) <= RaisedTo(b, k - 1)
  BY <1>4, RaisedToIs
<1>6. ASSUME NEW p \in Nat, NEW q \in Nat, p <= q PROVE p * a <= q * b
  <2>1. p * a <= q * a
    BY <1>6
  <2>2. q * a <= q * b
    OBVIOUS
  <2>3. p * a \in Nat /\ q * a \in Nat /\ q * b \in Nat
    OBVIOUS
  <2> QED BY <2>1, <2>2, <2>3
<1> QED BY <1>5, <1>6

-----------------------------------------------------------------------------
\* The sums of the last n digits of s.
IsSum(f, s, b) ==
  f = [n \in 0 .. Len(s) |->
         IF n = 0 THEN 0 ELSE f[n - 1] + s[Len(s) + 1 - n] * RaisedTo(b, n - 1)]

SumOf(s, b) == CHOOSE f : IsSum(f, s, b)

\* The recursive function that adds up the worth of digits exists.
LEMMA SumExists ==
  ASSUME NEW s \in Seq(Nat), NEW b \in Nat
  PROVE  \E f : IsSum(f, s, b)
<1> DEFINE Term(n) == IF n < Len(s) THEN s[Len(s) - n] * RaisedTo(b, n) ELSE 0
           step == [n \in Nat |-> [v \in Nat |-> v + Term(n)]]
<1>1. Len(s) \in Nat
  OBVIOUS
<1>2. ASSUME NEW n \in Nat PROVE Term(n) \in Nat
  <2>1. CASE n < Len(s)
    <3>1. s[Len(s) - n] \in Nat
      <4>1. Len(s) - n \in 1 .. Len(s)
        BY <1>1, <2>1
      <4> QED BY <4>1, ElementOfSeq
    <3>2. RaisedTo(b, n) \in Nat
      BY RaisedToIs
    <3>3. s[Len(s) - n] * RaisedTo(b, n) \in Nat
      BY <3>1, <3>2
    <3> QED BY <2>1, <3>3
  <2>2. CASE ~(n < Len(s))
    BY <2>2
  <2> QED BY <2>1, <2>2
<1> HIDE DEF Term
<1>3. step \in [Nat -> [Nat -> Nat]] /\ \A n, v \in Nat : step[n][v] = v + Term(n)
  BY <1>2
<1> HIDE DEF step
<1>4. PICK g : Computes(g, Nat, 0, step)
  BY <1>3, AllExist
<1> DEFINE f == [n \in 0 .. Len(s) |-> g[n]]
<1>5. ASSUME NEW n \in 0 .. Len(s)
      PROVE  f[n] = IF n = 0 THEN 0 ELSE f[n - 1] + s[Len(s) + 1 - n] * RaisedTo(b, n - 1)
  <2>1. CASE n = 0
    BY <1>4, <2>1 DEF Computes
  <2>2. CASE n # 0
    <3>0. n \in Nat /\ n <= Len(s) /\ n # 0
      BY <1>1, <2>2
    <3>1. n - 1 \in Nat /\ (n - 1) + 1 = n /\ n - 1 < Len(s) /\ n - 1 \in 0 .. Len(s)
      BY <1>1, <3>0
    <3>2. g[n] = g[n - 1] + Term(n - 1)
      BY <1>3, <1>4, <3>1 DEF Computes
    <3>3. Term(n - 1) = s[Len(s) - (n - 1)] * RaisedTo(b, n - 1)
      BY <3>1 DEF Term
    <3>4. Len(s) - (n - 1) = Len(s) + 1 - n
      BY <1>1
    <3>5. f[n] = g[n] /\ f[n - 1] = g[n - 1]
      BY <3>1
    <3> QED BY <2>2, <3>2, <3>3, <3>4, <3>5
  <2> QED BY <2>1, <2>2
<1>6. IsSum(f, s, b)
  BY <1>5 DEF IsSum
<1> QED BY <1>6

\* The equations of that function, and that its last value is the worth of
\* the digits.
LEMMA SumOfIs ==
  ASSUME NEW s \in Seq(Nat), NEW b \in Nat
  PROVE  /\ SumOf(s, b)[0] = 0
         /\ \A n \in 1 .. Len(s) :
              SumOf(s, b)[n] = SumOf(s, b)[n - 1] + s[Len(s) + 1 - n] * RaisedTo(b, n - 1)
         /\ \A n \in 0 .. Len(s) : SumOf(s, b)[n] \in Nat
         /\ ValueOf(s, b) = SumOf(s, b)[Len(s)]
<1> DEFINE f == SumOf(s, b)
<1>0. Len(s) \in Nat
  OBVIOUS
<1>1. ValueOf(s, b) = f[Len(s)]
  BY DEF ValueOf, SumOf, IsSum
<1>2. IsSum(f, s, b)
  BY SumExists DEF SumOf
<1> HIDE DEF f
<1>3. \A n \in 0 .. Len(s) :
        f[n] = IF n = 0 THEN 0 ELSE f[n - 1] + s[Len(s) + 1 - n] * RaisedTo(b, n - 1)
  BY <1>2 DEF IsSum
<1>4. f[0] = 0 /\ \A n \in 1 .. Len(s) : f[n] = f[n - 1] + s[Len(s) + 1 - n] * RaisedTo(b, n - 1)
  BY <1>0, <1>3
<1>5. \A n \in 0 .. Len(s) : f[n] \in Nat
  <2> DEFINE Bad == {n \in Nat : n <= Len(s) /\ f[n] \notin Nat}
  <2>1. SUFFICES ASSUME Bad # {} PROVE FALSE
    BY <1>0
  <2>2. PICK m \in Bad : \A k \in Bad : m <= k
    <3>1. Bad \in SUBSET Nat
      OBVIOUS
    <3> HIDE DEF Bad
    <3> QED BY <2>1, <3>1, LeastOf
  <2>3. m # 0
    BY <1>4
  <2>4. m \in 1 .. Len(s) /\ m - 1 \in Nat /\ f[m - 1] \in Nat
    BY <1>0, <2>2, <2>3
  <2>5. s[Len(s) + 1 - m] \in Nat
    <3>1. Len(s) + 1 - m \in 1 .. Len(s)
      BY <1>0, <2>4
    <3> QED BY <3>1, ElementOfSeq
  <2>6. RaisedTo(b, m - 1) \in Nat
    BY <2>4, RaisedToIs
  <2>7. s[Len(s) + 1 - m] * RaisedTo(b, m - 1) \in Nat
    BY <2>5, <2>6
  <2>8. f[m] \in Nat
    BY <1>4, <2>4, <2>7
  <2> QED BY <2>8
<1> QED BY <1>1, <1>4, <1>5 DEF f

\* A digit more makes the others worth one power more.
LEMMA ValueOfAppend ==
  ASSUME NEW s \in Seq(Nat), NEW b \in Nat, NEW d \in Nat
  PROVE  /\ ValueOf(s, b) \in Nat
         /\ ValueOf(Append(s, d), b) = ValueOf(s, b) * b + d
<1> DEFINE u == Append(s, d)
<1>1. /\ Len(s) \in Nat /\ u \in Seq(Nat) /\ Len(u) = Len(s) + 1 /\ u[Len(s) + 1] = d
      /\ \A i \in 1 .. Len(s) : u[i] = s[i]
  OBVIOUS
<1> HIDE DEF u
<1> DEFINE f == SumOf(s, b)
           g == SumOf(u, b)
<1>2. /\ f[0] = 0 /\ \A n \in 0 .. Len(s) : f[n] \in Nat
      /\ \A n \in 1 .. Len(s) : f[n] = f[n - 1] + s[Len(s) + 1 - n] * RaisedTo(b, n - 1)
      /\ ValueOf(s, b) = f[Len(s)]
  BY SumOfIs
<1>3. /\ g[0] = 0 /\ \A n \in 0 .. Len(s) + 1 : g[n] \in Nat
      /\ \A n \in 1 .. Len(s) + 1 : g[n] = g[n - 1] + u[Len(s) + 2 - n] * RaisedTo(b, n - 1)
      /\ ValueOf(u, b) = g[Len(s) + 1]
  <2>1. \A n \in 1 .. Len(s) + 1 : Len(s) + 1 + 1 - n = Len(s) + 2 - n
    BY <1>1
  <2>2. /\ g[0] = 0 /\ \A n \in 0 .. Len(u) : g[n] \in Nat
        /\ \A n \in 1 .. Len(u) : g[n] = g[n - 1] + u[Len(u) + 1 - n] * RaisedTo(b, n - 1)
        /\ ValueOf(u, b) = g[Len(u)]
    BY <1>1, SumOfIs
  <2> HIDE DEF g
  <2> QED BY <1>1, <2>1, <2>2
<1> HIDE DEF f, g
<1> DEFINE Bad == {n \in Nat : n <= Len(s) /\ g[n + 1] # f[n] * b + d}
<1>4. Bad = {}
  <2>1. SUFFICES ASSUME Bad # {} PROVE FALSE
    OBVIOUS
  <2>2. PICK n \in Bad : \A k \in Bad : n <= k
    <3>1. Bad \in SUBSET Nat
      OBVIOUS
    <3> HIDE DEF Bad
    <3> QED BY <2>1, <3>1, LeastOf
  <2>3. CASE n = 0
    <3>1. g[1] = g[0] + u[Len(s) + 1] * RaisedTo(b, 0)
      <4>1. 1 \in 1 .. Len(s) + 1 /\ Len(s) + 2 - 1 = Len(s) + 1 /\ 1 - 1 = 0
        BY <1>1
      <4> QED BY <1>3, <4>1
    <3>2. g[1] = d
      BY <1>1, <1>3, <3>1, RaisedToIs
    <3>3. f[0] * b + d = d
      BY <1>2
    <3> QED BY <2>2, <2>3, <3>2, <3>3
  <2>4. CASE n # 0
    <3>1. /\ n - 1 \in Nat /\ n \in 1 .. Len(s) /\ n + 1 \in 1 .. Len(s) + 1
          /\ (n - 1) + 1 = n /\ (n + 1) - 1 = n /\ Len(s) + 2 - (n + 1) = Len(s) + 1 - n
          /\ Len(s) + 1 - n \in 1 .. Len(s) /\ n - 1 \in 0 .. Len(s)
      BY <1>1, <2>2, <2>4
    <3>2. g[n] = f[n - 1] * b + d
      <4>1. n - 1 \notin Bad
        BY <2>2, <3>1
      <4>2. n - 1 <= Len(s)
        BY <3>1
      <4> QED BY <3>1, <4>1, <4>2
    <3>3. g[n + 1] = g[n] + s[Len(s) + 1 - n] * RaisedTo(b, n)
      BY <1>1, <1>3, <3>1
    <3>4. f[n] = f[n - 1] + s[Len(s) + 1 - n] * RaisedTo(b, n - 1)
      BY <1>2, <3>1
    <3>5. RaisedTo(b, n) = RaisedTo(b, n - 1) * b /\ RaisedTo(b, n - 1) \in Nat
      BY <3>1, RaisedToIs
    <3>6. s[Len(s) + 1 - n] \in Nat /\ f[n - 1] \in Nat
      BY <1>2, <3>1, ElementOfSeq
    <3>7. ASSUME NEW v \in Nat, NEW e \in Nat, NEW p \in Nat
          PROVE  (v * b + d) + e * (p * b) = (v + e * p) * b + d
      OBVIOUS
    <3>8. g[n + 1] = f[n] * b + d
      <4> DEFINE v == f[n - 1]
                 e == s[Len(s) + 1 - n]
                 p == RaisedTo(b, n - 1)
      <4>1. g[n + 1] = (v * b + d) + e * (p * b) /\ f[n] = v + e * p
        BY <3>2, <3>3, <3>4, <3>5
      <4>2. v \in Nat /\ e \in Nat /\ p \in Nat
        BY <3>5, <3>6
      <4> HIDE DEF v, e, p
      <4> QED BY <3>7, <4>1, <4>2
    <3> QED BY <2>2, <3>8
  <2> QED BY <2>3, <2>4
<1>5. g[Len(s) + 1] = f[Len(s)] * b + d
  <2>1. Len(s) \notin Bad
    BY <1>4
  <2> QED BY <1>1, <2>1
<1>6. f[Len(s)] \in Nat
  BY <1>1, <1>2
<1> QED BY <1>2, <1>3, <1>5, <1>6 DEF u

\* No digits are worth 0.
LEMMA ValueOfNothing ==
  ASSUME NEW b \in Nat
  PROVE  ValueOf(<< >>, b) = 0
<1>1. << >> \in Seq(Nat) /\ Len(<< >>) = 0
  OBVIOUS
<1> QED BY <1>1, SumOfIs

(***************************************************************************)
(* TtyNumber: v1 is signed, v2 the number, v3 base, v4 pc, v5 rest, v6 i,  *)
(* v7 digit, v8 j, v9 k, v10 out.                                          *)
(***************************************************************************)
\* How far the digits have been counted, and that they suffice.
DigitsInv ==
  LET m == N!Magnitude(v2)
  IN  /\ v4 = "count" =>
           /\ v5 = m /\ v8 = 0 /\ v9 = 0 /\ v10 = << >>
           /\ RaisedTo(v3, v7) * v6 <= m /\ m < RaisedTo(v3, v7) * (v6 + 1)
           /\ v7 = 0 \/ v6 >= 1
      /\ v4 # "count" =>
           /\ v7 = 0 \/ RaisedTo(v3, v7) <= m
           /\ m < RaisedTo(v3, v7 + 1)

\* Which digits have been written, and that the first is no zero.
WrittenInv ==
  LET m == N!Magnitude(v2)
  IN  /\ v4 = "power" => v6 = RaisedTo(v3, v9) /\ v9 <= v8
      /\ v4 = "digit" => v6 = RaisedTo(v3, v8)
      /\ v4 \in {"power", "digit"} =>
           /\ ValueOf(v10, v3) * RaisedTo(v3, v8 + 1) + v5 = m
           /\ v5 < RaisedTo(v3, v8 + 1)
           /\ Len(v10) = v7 - v8
      /\ v10 # << >> => v10[1] # 0 \/ m = 0
      /\ v4 = "end" => v10 # << >> /\ ValueOf(v10, v3) = m

NumberInv == N!TypeOK /\ DigitsInv /\ WrittenInv

\* TtyNumber computes with the powers and worths that the lemmas are about.
LEMMA SameNumerals ==
  /\ \A b, k : N!RaisedTo(b, k) = RaisedTo(b, k)
  /\ \A s, b : N!ValueOf(s, b) = ValueOf(s, b)
  BY DEF N!RaisedTo, RaisedTo, N!ValueOf, ValueOf

\* The numbers of a type are below a power of 2, and a base is one of them.
LEMMA WidthFacts ==
  /\ Width \in Nat \ {0} /\ N!NumMod \in Nat /\ N!NumMod >= 2
  /\ N!NumMod = RaisedTo(2, Width)
  /\ \A b \in NumberBases : b \in Nat /\ b >= 2 /\ b < N!NumMod
  /\ 10 \in NumberBases
<1>1. /\ Width \in Nat \ {0} /\ N!NumMod = RaisedTo(2, Width)
      /\ NumberBases \subseteq 2 .. N!NumMod - 1 /\ 10 \in NumberBases
  BY SequentialAssumption, SameNumerals DEF N!TtyNumberAssumption, N!NumMod
<1>2. N!NumMod \in Nat /\ N!NumMod >= 2
  <2>1. RaisedTo(2, Width) \in Nat
    BY <1>1, RaisedToIs
  <2>2. 10 \in 2 .. N!NumMod - 1
    BY <1>1
  <2> QED BY <1>1, <2>1, <2>2
<1> QED BY <1>1, <1>2

\* The magnitude is that of the number, also of the smallest one.
LEMMA MagnitudeIs ==
  ASSUME NEW s \in BOOLEAN, NEW n \in N!Values(s)
  PROVE  /\ N!Magnitude(n) \in Nat /\ N!Magnitude(n) < N!NumMod
         /\ N!Magnitude(n) = IF n < 0 THEN -n ELSE n
         /\ n \in Int
<1> DEFINE m == N!NumMod
<1>1. m \in Nat /\ m >= 2
  BY WidthFacts
<1>2. n \in IF s THEN -(m \div 2) .. m \div 2 - 1 ELSE 0 .. m - 1
  BY DEF N!Values
<1>3. N!Magnitude(n) = IF n < 0 THEN (-n) % m ELSE n
  BY DEF N!Magnitude
<1> HIDE DEF m
<1>4. m \div 2 \in Nat /\ m \div 2 < m
  BY <1>1
<1>5. n \in Int /\ -m < n /\ n < m
  BY <1>1, <1>2, <1>4
<1>6. n < 0 => (-n) % m = -n
  BY <1>1, <1>5
<1> QED BY <1>1, <1>3, <1>5, <1>6 DEF m

\* A quotient and its rest.
LEMMA DivisionIs ==
  ASSUME NEW a \in Nat, NEW b \in Nat, b >= 1
  PROVE  /\ a \div b \in Nat /\ (a \div b) * b <= a /\ a - (a \div b) * b < b
         /\ b <= a => a \div b >= 1
         /\ \A c \in Nat : a < b * c => a \div b < c
<1>1. a \div b \in Int /\ (a \div b) * b <= a /\ a - (a \div b) * b < b
  OBVIOUS
<1> DEFINE q == a \div b
<1>2. q \in Int /\ q * b <= a /\ a - q * b < b
  BY <1>1
<1> HIDE DEF q
<1>3. q \in Nat
  <2>1. ~(q < 0)
    <3> SUFFICES ASSUME q < 0 PROVE FALSE
      OBVIOUS
    <3>1. (q + 1) * b <= 0
      BY <1>2
    <3>2. (q + 1) * b = q * b + b
      BY <1>2
    <3> QED BY <1>2, <3>1, <3>2
  <2> QED BY <1>2, <2>1
<1>4. b <= a => q >= 1
  BY <1>2, <1>3
<1>5. ASSUME NEW c \in Nat, a < b * c PROVE q < c
  <2> SUFFICES ASSUME c <= q PROVE FALSE
    BY <1>3
  <2>1. b * c <= q * b
    BY <1>3
  <2> QED BY <1>2, <1>5, <2>1
<1> QED BY <1>2, <1>3, <1>4, <1>5 DEF q

\* What a power of the base may be: it is exact where the program computes it.
LEMMA PowersFit ==
  ASSUME NumberInv, v4 # "count", NEW n \in Nat, n <= v7
  PROVE  RaisedTo(v3, n) \in Nat /\ RaisedTo(v3, n) >= 1 /\ RaisedTo(v3, n) < N!NumMod
<1>1. v3 \in Nat /\ v3 >= 2 /\ v7 \in Nat /\ N!NumMod >= 2 /\ N!NumMod \in Nat
  BY WidthFacts DEF NumberInv, N!TypeOK
<1>2. N!Magnitude(v2) < N!NumMod /\ N!Magnitude(v2) \in Nat
  BY MagnitudeIs DEF NumberInv, N!TypeOK
<1>3. RaisedTo(v3, n) \in Nat /\ RaisedTo(v3, v7) \in Nat
  BY <1>1, RaisedToIs
<1>4. 1 <= RaisedTo(v3, n) /\ RaisedTo(v3, n) <= RaisedTo(v3, v7)
  BY <1>1, RaisedToGrows
<1>5. CASE v7 = 0
  BY <1>1, <1>3, <1>4, <1>5, RaisedToIs
<1>6. CASE v7 # 0
  <2>1. RaisedTo(v3, v7) <= N!Magnitude(v2)
    BY <1>6 DEF NumberInv, DigitsInv
  <2> QED BY <1>1, <1>2, <1>3, <1>4, <2>1
<1> QED BY <1>5, <1>6

\* Initially a number and a base are given and nothing is written.
LEMMA NumberInit == N!Init => NumberInv
<1> SUFFICES ASSUME N!Init PROVE NumberInv
  OBVIOUS
<1> DEFINE m == N!Magnitude(v2)
<1>1. /\ v1 \in BOOLEAN /\ v2 \in N!Values(v1) /\ v3 \in NumberBases
      /\ v5 = m /\ v6 = m /\ v4 = "count" /\ v7 = 0 /\ v8 = 0 /\ v9 = 0 /\ v10 = << >>
  BY WidthFacts DEF N!Init
<1>2. m \in Nat /\ m < N!NumMod
  BY <1>1, MagnitudeIs
<1>3. N!NumMod \in Nat /\ Width \in Nat /\ v3 \in Nat
  BY <1>1, WidthFacts
<1>4. N!TypeOK
  BY <1>1, <1>2, <1>3 DEF N!TypeOK
<1>5. RaisedTo(v3, v7) = 1
  BY <1>1, <1>3, RaisedToIs
<1>6. DigitsInv
  BY <1>1, <1>2, <1>5 DEF DigitsInv
<1>7. WrittenInv
  BY <1>1 DEF WrittenInv
<1> QED BY <1>4, <1>6, <1>7 DEF NumberInv

\* Another digit is counted.
LEMMA CountDivides ==
  ASSUME NumberInv, N!Count, v6 >= v3
  PROVE  NumberInv'
<1> DEFINE m == N!Magnitude(v2)
<1>1. /\ v4 = "count" /\ v6' = v6 \div v3 /\ v7' = v7 + 1
      /\ v1' = v1 /\ v2' = v2 /\ v3' = v3 /\ v4' = v4 /\ v5' = v5
      /\ v8' = v8 /\ v9' = v9 /\ v10' = v10
  BY DEF N!Count, N!HasMoreDigits
<1>2. /\ v3 \in Nat /\ v3 >= 2 /\ v7 \in Nat /\ v6 \in Nat /\ v6 < N!NumMod
      /\ N!NumMod \in Nat /\ Width \in Nat
  BY WidthFacts DEF NumberInv, N!TypeOK
<1>3. m \in Nat /\ m < N!NumMod
  BY MagnitudeIs DEF NumberInv, N!TypeOK
<1> DEFINE q == v6 \div v3
<1>4. q \in Nat /\ q * v3 <= v6 /\ v6 - q * v3 < v3 /\ q >= 1
  BY <1>2, DivisionIs
<1> DEFINE p == RaisedTo(v3, v7)
<1>5. p \in Nat /\ RaisedTo(v3, v7 + 1) = p * v3 /\ RaisedTo(v3, v7 + 1) \in Nat
  <2>1. v7 + 1 \in Nat
    BY <1>2
  <2> QED BY <1>2, <2>1, RaisedToIs
<1>6. p * v6 <= m /\ m < p * (v6 + 1) /\ v5 = m /\ v8 = 0 /\ v9 = 0 /\ v10 = << >>
  BY <1>1 DEF NumberInv, DigitsInv
<1> HIDE DEF q, p, m
<1>7. (p * v3) * q <= m /\ m < (p * v3) * (q + 1)
  <2>1. (p * v3) * q = p * (q * v3) /\ (p * v3) * (q + 1) = p * (q * v3 + v3)
    BY <1>2, <1>4, <1>5
  <2>2. p * (q * v3) <= p * v6 /\ p * (v6 + 1) <= p * (q * v3 + v3)
    <3>1. q * v3 \in Nat /\ q * v3 + v3 \in Nat /\ v6 + 1 <= q * v3 + v3
      BY <1>2, <1>4
    <3>2. ASSUME NEW x \in Nat, NEW y \in Nat, x <= y PROVE p * x <= p * y
      BY <1>5, <3>2
    <3> QED BY <1>2, <1>4, <3>1, <3>2
  <2>3. /\ p * (q * v3) \in Nat /\ p * v6 \in Nat /\ p * (v6 + 1) \in Nat
        /\ p * (q * v3 + v3) \in Nat
    BY <1>2, <1>4, <1>5
  <2> QED BY <1>3, <1>6, <2>1, <2>2, <2>3
<1>8. v7 + 1 <= Width
  <2>1. p * v3 <= (p * v3) * q
    BY <1>2, <1>4, <1>5
  <2>2. RaisedTo(v3, v7 + 1) <= m
    BY <1>2, <1>3, <1>4, <1>5, <1>7, <2>1
  <2>3. RaisedTo(2, v7 + 1) <= RaisedTo(v3, v7 + 1)
    BY <1>2, LargerBase
  <2>4. SUFFICES ASSUME Width <= v7 + 1 PROVE Width = v7 + 1
    BY <1>2
  <2>5. RaisedTo(2, Width) <= RaisedTo(2, v7 + 1)
    BY <1>2, <2>4, RaisedToGrows
  <2>6. RaisedTo(2, Width) \in Nat /\ RaisedTo(2, v7 + 1) \in Nat
    <3>1. v7 + 1 \in Nat /\ 2 \in Nat
      BY <1>2
    <3> QED BY <1>2, <3>1, RaisedToIs
  <2>7. FALSE
    BY <1>3, <1>5, <2>2, <2>3, <2>5, <2>6, WidthFacts
  <2> QED BY <2>7
<1>9. N!TypeOK'
  <2>1. /\ v6' \in 0 .. N!NumMod - 1 /\ v7' \in 0 .. Width
        /\ v8' \in 0 .. v7' /\ v9' \in 0 .. v7'
    <3>1. q <= v6
      BY <1>2, <1>4
    <3> QED BY <1>1, <1>2, <1>4, <1>6, <1>8, <3>1 DEF q
  <2> QED BY <1>1, <2>1 DEF NumberInv, N!TypeOK, N!Values, N!NumMod
<1>10. DigitsInv'
  <2>1. N!Magnitude(v2') = m /\ RaisedTo(v3', v7') = p * v3 /\ v6' = q
    BY <1>1, <1>5 DEF m, q
  <2>2. v4' = "count" /\ v5' = m /\ v8' = 0 /\ v9' = 0 /\ v10' = << >>
    BY <1>1, <1>6
  <2> QED BY <1>4, <1>7, <2>1, <2>2 DEF DigitsInv
<1>11. WrittenInv'
  BY <1>1, <1>6 DEF WrittenInv
<1> QED BY <1>9, <1>10, <1>11 DEF NumberInv

\* All digits are counted.
LEMMA CountEnds ==
  ASSUME NumberInv, N!Count, ~(v6 >= v3)
  PROVE  NumberInv'
<1> DEFINE m == N!Magnitude(v2)
<1>1. /\ v4 = "count" /\ v4' = "power" /\ v6' = 1 /\ v8' = v7 /\ v9' = 0
      /\ v1' = v1 /\ v2' = v2 /\ v3' = v3 /\ v5' = v5 /\ v7' = v7 /\ v10' = v10
  BY DEF N!Count, N!HasMoreDigits
<1>2. /\ v3 \in Nat /\ v3 >= 2 /\ v7 \in Nat /\ v6 \in Nat /\ v6 < v3
      /\ N!NumMod \in Nat /\ N!NumMod >= 2 /\ Width \in Nat
  BY WidthFacts DEF NumberInv, N!TypeOK
<1>3. m \in Nat /\ m < N!NumMod
  BY MagnitudeIs DEF NumberInv, N!TypeOK
<1> DEFINE p == RaisedTo(v3, v7)
<1>5. p \in Nat /\ RaisedTo(v3, v7 + 1) = p * v3 /\ RaisedTo(v3, v7 + 1) \in Nat
      /\ RaisedTo(v3, 0) = 1
  <2>1. v7 + 1 \in Nat
    BY <1>2
  <2> QED BY <1>2, <2>1, RaisedToIs
<1>6. /\ p * v6 <= m /\ m < p * (v6 + 1) /\ v5 = m /\ v8 = 0 /\ v9 = 0 /\ v10 = << >>
      /\ v7 = 0 \/ v6 >= 1
  BY <1>1 DEF NumberInv, DigitsInv
<1> HIDE DEF p, m
<1>7. m < p * v3
  <2>1. p * (v6 + 1) <= p * v3
    BY <1>2, <1>5
  <2> QED BY <1>2, <1>3, <1>5, <1>6, <2>1
<1>8. v7 = 0 \/ p <= m
  <2>1. v6 >= 1 => p <= p * v6
    BY <1>2, <1>5
  <2>2. p * v6 \in Nat
    BY <1>2, <1>5
  <2> QED BY <1>3, <1>5, <1>6, <2>1, <2>2
<1>9. N!TypeOK'
  BY <1>1, <1>2 DEF NumberInv, N!TypeOK, N!Values, N!NumMod
<1>10. DigitsInv'
  <2>1. /\ N!Magnitude(v2') = m /\ RaisedTo(v3', v7') = p
        /\ RaisedTo(v3', v7' + 1) = p * v3 /\ v4' # "count" /\ v7' = v7
    BY <1>1, <1>5 DEF m, p
  <2> QED BY <1>7, <1>8, <2>1 DEF DigitsInv
<1>11. WrittenInv'
  <2>1. /\ N!Magnitude(v2') = m /\ RaisedTo(v3', v8' + 1) = p * v3
        /\ RaisedTo(v3', v9') = 1 /\ v4' = "power" /\ v6' = 1 /\ v9' <= v8'
        /\ v5' = m /\ v10' = << >> /\ v7' - v8' = 0 /\ Len(v10') = 0
    BY <1>1, <1>2, <1>5, <1>6 DEF m, p
  <2>2. ValueOf(v10', v3') = 0
    BY <1>1, <1>2, <2>1, ValueOfNothing
  <2>3. p * v3 \in Nat
    BY <1>2, <1>5
  <2>4. ValueOf(v10', v3') * RaisedTo(v3', v8' + 1) + v5' = m
    BY <1>3, <2>1, <2>2, <2>3
  <2> QED BY <1>7, <2>1, <2>4 DEF WrittenInv
<1> QED BY <1>9, <1>10, <1>11 DEF NumberInv

\* The power is multiplied once more, or is the one to divide by.
LEMMA PowerHolds ==
  ASSUME NumberInv, N!Power \/ N!PowerEnds
  PROVE  NumberInv'
<1>1. /\ v4 = "power" /\ v1' = v1 /\ v2' = v2 /\ v3' = v3 /\ v5' = v5 /\ v7' = v7
      /\ v8' = v8 /\ v10' = v10
  BY DEF N!Power, N!PowerEnds
<1>2. /\ v3 \in Nat /\ v3 >= 2 /\ v7 \in Nat /\ v8 \in 0 .. v7 /\ v9 \in 0 .. v7
      /\ N!NumMod \in Nat
  BY WidthFacts DEF NumberInv, N!TypeOK
<1>3. v6 = RaisedTo(v3, v9) /\ v9 <= v8
  BY <1>1 DEF NumberInv, WrittenInv
<1>4. CASE N!Power
  <2>1. v4' = v4 /\ v6' = (v6 * v3) % N!NumMod /\ v9' = v9 + 1 /\ v9 < v8
    BY <1>4 DEF N!Power, N!MorePower
  <2>2. v9 + 1 \in Nat /\ v9 + 1 <= v7 /\ v9 \in Nat /\ v9 + 1 <= v8
    BY <1>2, <2>1
  <2>3. /\ RaisedTo(v3, v9 + 1) = v6 * v3 /\ RaisedTo(v3, v9 + 1) \in Nat
        /\ RaisedTo(v3, v9 + 1) < N!NumMod
    BY <1>1, <1>2, <1>3, <2>2, RaisedToIs, PowersFit
  <2>4. v6' = RaisedTo(v3, v9 + 1)
    <3>1. ASSUME NEW x \in Nat, x < N!NumMod PROVE x % N!NumMod = x
      BY <1>2, <3>1
    <3> QED BY <2>1, <2>3, <3>1
  <2>5. N!TypeOK'
    BY <1>1, <1>2, <2>1, <2>2, <2>3, <2>4 DEF NumberInv, N!TypeOK, N!Values, N!NumMod
  <2>6. DigitsInv'
    BY <1>1, <2>1 DEF NumberInv, DigitsInv
  <2>7. WrittenInv'
    BY <1>1, <2>1, <2>2, <2>4 DEF NumberInv, WrittenInv
  <2> QED BY <2>5, <2>6, <2>7 DEF NumberInv
<1>5. CASE N!PowerEnds
  <2>1. v4' = "digit" /\ v6' = v6 /\ v9' = v9 /\ v9 = v8
    BY <1>2, <1>3, <1>5 DEF N!PowerEnds, N!MorePower
  <2>2. N!TypeOK'
    BY <1>1, <2>1 DEF NumberInv, N!TypeOK, N!Values, N!NumMod
  <2>3. DigitsInv'
    BY <1>1, <2>1 DEF NumberInv, DigitsInv
  <2>4. WrittenInv'
    BY <1>1, <1>3, <2>1 DEF NumberInv, WrittenInv
  <2> QED BY <2>2, <2>3, <2>4 DEF NumberInv
<1> QED BY <1>4, <1>5

\* A digit is written and taken off.
LEMMA DigitHolds ==
  ASSUME NumberInv, N!Digit
  PROVE  NumberInv'
<1> DEFINE m == N!Magnitude(v2)
           p == RaisedTo(v3, v8)
           l == v5 \div v6
           v == ValueOf(v10, v3)
<1>1. /\ v4 = "digit" /\ v10' = Append(v10, l) /\ v5' = (v5 - l * v6) % N!NumMod
      /\ v1' = v1 /\ v2' = v2 /\ v3' = v3 /\ v7' = v7
      /\ v8 = 0 => v4' = "end" /\ v6' = v6 /\ v8' = v8 /\ v9' = v9
      /\ v8 # 0 => v4' = "power" /\ v6' = 1 /\ v8' = v8 - 1 /\ v9' = 0
  BY DEF N!Digit
<1>2. /\ v3 \in Nat /\ v3 >= 2 /\ v7 \in Nat /\ v8 \in 0 .. v7 /\ v8 \in Nat
      /\ N!NumMod \in Nat /\ N!NumMod >= 2 /\ v5 \in Nat /\ v5 < N!NumMod
      /\ v10 \in Seq(0 .. v3 - 1)
  BY WidthFacts DEF NumberInv, N!TypeOK
<1>3. m \in Nat /\ m < N!NumMod
  BY MagnitudeIs DEF NumberInv, N!TypeOK
<1>4. /\ v6 = p /\ v * RaisedTo(v3, v8 + 1) + v5 = m /\ v5 < RaisedTo(v3, v8 + 1)
      /\ Len(v10) = v7 - v8
      /\ v10 # << >> => v10[1] # 0 \/ m = 0
  BY <1>1 DEF NumberInv, WrittenInv
<1>5. /\ p \in Nat /\ p >= 1 /\ RaisedTo(v3, v8 + 1) = p * v3
  <2>1. p \in Nat /\ p >= 1
    BY <1>1, <1>2, PowersFit
  <2>2. RaisedTo(v3, v8 + 1) = p * v3
    BY <1>2, RaisedToIs
  <2> QED BY <2>1, <2>2
<1>6. v10 \in Seq(Nat) /\ v \in Nat
  <2>1. v10 \in Seq(Nat)
    BY <1>2, SeqMonotonic
  <2> QED BY <1>2, <2>1, ValueOfAppend
<1>7. /\ l \in Nat /\ l * p <= v5 /\ v5 - l * p < p /\ l < v3
      /\ p <= v5 => l >= 1
  <2> HIDE DEF p
  <2>1. l = v5 \div p /\ v5 < p * v3
    BY <1>4, <1>5
  <2> QED BY <1>2, <1>5, <2>1, DivisionIs
<1>8. ValueOf(v10', v3') = v * v3 + l
  BY <1>1, <1>2, <1>6, <1>7, ValueOfAppend
<1> HIDE DEF m, p, l, v
<1>9. v5' = v5 - l * p /\ v5' \in Nat /\ v5' < N!NumMod /\ v5' < p
  <2>1. l * p \in Nat
    BY <1>5, <1>7
  <2>2. v5 - l * p \in Nat /\ v5 - l * p < N!NumMod
    BY <1>2, <1>7, <2>1
  <2>3. (v5 - l * p) % N!NumMod = v5 - l * p
    <3>1. ASSUME NEW x \in Nat, x < N!NumMod PROVE x % N!NumMod = x
      BY <1>2, <3>1
    <3> QED BY <2>2, <3>1
  <2> QED BY <1>1, <1>4, <1>7, <2>2, <2>3
<1>10. ValueOf(v10', v3') * p + v5' = m
  <2>1. (v * v3 + l) * p = v * (p * v3) + l * p
    BY <1>2, <1>5, <1>6, <1>7
  <2>2. v * (p * v3) \in Nat /\ l * p \in Nat
    BY <1>2, <1>5, <1>6, <1>7
  <2> QED BY <1>2, <1>4, <1>5, <1>8, <1>9, <2>1, <2>2
<1>11. /\ v10' \in Seq(0 .. v3 - 1) /\ Len(v10') = Len(v10) + 1 /\ v10' # << >>
       /\ v10'[1] = IF v10 = << >> THEN l ELSE v10[1]
  <2>1. l \in 0 .. v3 - 1
    BY <1>2, <1>7
  <2>2. v10' \in Seq(0 .. v3 - 1) /\ Len(v10') = Len(v10) + 1
    BY <1>1, <1>2, <2>1
  <2>3. v10' # << >>
    BY <1>2, <2>2
  <2>4. v10'[1] = IF v10 = << >> THEN l ELSE v10[1]
    BY <1>1, <1>2, <2>1
  <2> QED BY <2>2, <2>3, <2>4
<1>12. v10'[1] # 0 \/ m = 0
  <2>1. CASE v10 # << >>
    BY <1>4, <1>11, <2>1
  <2>2. CASE v10 = << >>
    <3>1. v8 = v7 /\ v = 0
      <4>1. Len(v10) = 0 /\ v = 0
        BY <1>2, <2>2, ValueOfNothing DEF v
      <4> QED BY <1>2, <1>4, <4>1
    <3>2. v5 = m
      BY <1>2, <1>4, <1>5, <3>1
    <3>3. v7 = 0 \/ p <= m
      BY <1>1, <3>1 DEF NumberInv, DigitsInv, m, p
    <3>4. CASE p <= m
      BY <1>3, <1>5, <1>7, <1>11, <2>2, <3>2, <3>4
    <3>5. CASE ~(p <= m)
      <4>1. p = 1
        BY <1>2, <3>1, <3>3, <3>5, RaisedToIs DEF p
      <4> QED BY <1>3, <3>5, <4>1
    <3> QED BY <3>4, <3>5
  <2> QED BY <2>1, <2>2
<1>13. N!Magnitude(v2') = m
  BY <1>1 DEF m
<1>14. CASE v8 = 0
  <2>1. p = 1
    BY <1>2, <1>14, RaisedToIs DEF p
  <2>2. ValueOf(v10', v3') = m /\ v4' = "end"
    <3>1. v5' = 0
      BY <1>9, <2>1
    <3>2. v * v3 + l \in Nat
      BY <1>2, <1>6, <1>7
    <3> QED BY <1>1, <1>8, <1>10, <1>14, <2>1, <3>1, <3>2
  <2>3. N!TypeOK'
    BY <1>1, <1>2, <1>9, <1>11, <1>14 DEF NumberInv, N!TypeOK, N!Values, N!NumMod
  <2>4. DigitsInv'
    BY <1>1, <1>14 DEF NumberInv, DigitsInv
  <2>5. WrittenInv'
    BY <1>11, <1>12, <1>13, <2>2 DEF WrittenInv
  <2> QED BY <2>3, <2>4, <2>5 DEF NumberInv
<1>15. CASE v8 # 0
  <2>1. /\ v4' = "power" /\ v6' = 1 /\ v8' = v8 - 1 /\ v9' = 0 /\ v8' + 1 = v8
        /\ v8' \in 0 .. v7 /\ v9' <= v8'
    BY <1>1, <1>2, <1>15
  <2>2. RaisedTo(v3', v9') = 1 /\ RaisedTo(v3', v8' + 1) = p
    BY <1>1, <1>2, <2>1, RaisedToIs DEF p
  <2>3. N!TypeOK'
    BY <1>1, <1>2, <1>9, <1>11, <2>1 DEF NumberInv, N!TypeOK, N!Values, N!NumMod
  <2>4. DigitsInv'
    BY <1>1, <2>1 DEF NumberInv, DigitsInv
  <2>5. Len(v10') = v7' - v8'
    BY <1>1, <1>2, <1>4, <1>11, <2>1
  <2>6. WrittenInv'
    BY <1>9, <1>10, <1>12, <1>13, <2>1, <2>2, <2>5 DEF WrittenInv
  <2> QED BY <2>3, <2>4, <2>6 DEF NumberInv
<1> QED BY <1>14, <1>15

\* Every step of the loops keeps the invariant.
LEMMA NumberNext == NumberInv /\ [N!Next]_(N!vars) => NumberInv'
<1> SUFFICES ASSUME NumberInv, [N!Next]_(N!vars) PROVE NumberInv'
  OBVIOUS
<1>1. CASE N!Next
  BY <1>1, CountDivides, CountEnds, PowerHolds, DigitHolds DEF N!Next
<1>2. CASE UNCHANGED N!vars
  BY <1>2 DEF N!vars, NumberInv, N!TypeOK, N!Values, N!NumMod, DigitsInv, WrittenInv
<1> QED BY <1>1, <1>2

\* A number is printed with its digits, from the first that is no zero, for any
\* width of the type and any base; the powers the digits are divided by never
\* wrap around.
THEOREM NumberIsPrintedHolds == SpecAny => []NumberIsPrinted
<1> DEFINE Inv == what = "number" => NumberInv
<1>1. InitAny => Inv
  BY NumberInit DEF InitAny
<1>2. Inv /\ [NextAny]_<<what, vars, general>> => Inv'
  <2> SUFFICES ASSUME Inv, [NextAny]_<<what, vars, general>>, what' = "number"
               PROVE  NumberInv'
    OBVIOUS
  <2>1. CASE NextAny
    <3>1. what = "number" /\ N!Next
      BY <2>1 DEF NextAny
    <3> QED BY <3>1, NumberNext
  <2>2. CASE UNCHANGED <<what, vars, general>>
    <3>1. what = "number" /\ UNCHANGED N!vars
      BY <2>2 DEF general, N!vars
    <3> QED BY <3>1, NumberNext
  <2> QED BY <2>1, <2>2
<1>3. Inv => NumberIsPrinted
  <2> SUFFICES ASSUME NumberInv
               PROVE  N!TypeOK /\ N!PowerIsExact /\ N!DigitsAndRest /\ N!PrintsTheNumber
    BY DEF NumberIsPrinted
  <2>1. N!Magnitude(v2) = IF v2 < 0 THEN -v2 ELSE v2
    BY MagnitudeIs DEF NumberInv, N!TypeOK
  <2>2. N!Magnitude(v2) = 0 => v2 = 0
    BY <2>1, MagnitudeIs DEF NumberInv, N!TypeOK
  <2>3. N!PrintsTheNumber
    BY <2>1, <2>2, SameNumerals DEF NumberInv, WrittenInv, N!PrintsTheNumber
  <2> QED
    BY <2>3, SameNumerals DEF NumberInv, WrittenInv, N!PowerIsExact, N!DigitsAndRest
<1> QED BY <1>1, <1>2, <1>3, PTL DEF SpecAny

\* Strtoul computes with the powers and worths that the lemmas are about.
LEMMA SameNumeralsInTexts ==
  /\ \A b, k : U!RaisedTo(b, k) = RaisedTo(b, k)
  /\ \A s, b : U!ValueOf(s, b) = ValueOf(s, b)
  BY DEF U!RaisedTo, RaisedTo, U!ValueOf, ValueOf

(***************************************************************************)
(* Strtoul: v1 is the text, v2 base, v3 the position, v4 val, v5 sign,     *)
(* v6 *endptr, v7 pc, v8 the farthest position read, v9 the argument base. *)
(***************************************************************************)
\* Where the sign has ended, and where the digits of the reference begin.
SignEnd == IF Len(v1) > 0 /\ v1[1] \in {"+", "-"} THEN 2 ELSE 1

FirstDigit == IF U!HasPrefix THEN SignEnd + 2 ELSE SignEnd

\* What the digits that were read so far are worth.
ReadSoFar == ValueOf(SubSeq(U!Worths, 1, v3 - FirstDigit), v2)

TextInv == v1 \in Seq(U!Characters) /\ Len(v1) <= MaxLen /\ v9 \in TextBases

\* The positions and signs of each stage.
StageInv ==
  /\ v3 <= Len(v1) + 1 /\ v8 \in Nat /\ v8 <= Len(v1) + 1
  /\ v7 = "sign" => v3 = 1
  /\ v7 \in {"sign", "prefix"} => v2 = v9 /\ v4 = 0
  /\ v7 = "prefix" => v3 = SignEnd
  /\ v7 # "sign" => v5 = IF v1 # << >> /\ v1[1] = "-" THEN -1 ELSE 1
  /\ v7 # "done" => v6 = 0

\* The value is that of the digits that were read, in the bits of an int.
ValueInv ==
  /\ v7 \in {"digits", "done"} =>
       /\ v2 \in 2 .. 36 /\ v2 = U!BaseMeant /\ v3 >= FirstDigit
       /\ \A n \in 1 .. v3 - FirstDigit : U!Worths[n] < v2
  /\ v7 = "digits" \/ (v7 = "done" /\ v6 = 0) => v4 = ReadSoFar % IntMod
  /\ v7 = "done" /\ v6 = 0 => v3 = Len(v1) + 1
  /\ v7 = "done" /\ v6 # 0 =>
       /\ v6 = v3 /\ v3 <= Len(v1) /\ ~U!IsDigitOf(v1[v3], v2)
       /\ v4 = (ReadSoFar * v2) % IntMod

StrtoulInv == U!TypeOK /\ TextInv /\ StageInv /\ ValueInv

\* An int has an even range, and fits into an unsigned long.
LEMMA StrtoulFacts ==
  /\ MaxLen \in Nat /\ TextBases \subseteq {0} \cup 2 .. 36
  /\ IntMod \in Nat /\ IntMod > 0 /\ IntMod % 2 = 0 /\ ULong \in Nat /\ ULong >= IntMod
  BY SequentialAssumption DEF U!StrtoulAssumption

\* Multiples of the range do not count.
LEMMA Multiples ==
  ASSUME NEW m \in Nat, m > 0, NEW x \in Int, NEW y \in Int, NEW c \in Int, x = y + c * m
  PROVE  x % m = y % m
<1>1. PICK r \in Int, q \in Int : y = q * m + r /\ 0 <= r /\ r < m /\ y % m = r
  <2>1. y = (y \div m) * m + (y % m) /\ y \div m \in Int /\ y % m \in Int /\ 0 <= y % m /\ y % m < m
    OBVIOUS
  <2> QED BY <2>1
<1>2. PICK s \in Int, p \in Int : x = p * m + s /\ 0 <= s /\ s < m /\ x % m = s
  <2>1. x = (x \div m) * m + (x % m) /\ x \div m \in Int /\ x % m \in Int /\ 0 <= x % m /\ x % m < m
    OBVIOUS
  <2> QED BY <2>1
<1>3. PICK e \in Int : e = p - q - c /\ r - s = e * m
  <2>1. (p - q - c) * m = p * m - q * m - c * m
    OBVIOUS
  <2>2. r - s = p * m - q * m - c * m
    <3>1. PICK a, b, d : a = p * m /\ b = q * m /\ d = c * m
      OBVIOUS
    <3>2. a \in Int /\ b \in Int /\ d \in Int
      BY <3>1
    <3> QED BY <1>1, <1>2, <3>1, <3>2
  <2> QED BY <2>1, <2>2
<1>4. e = 0
  <2>1. e >= 1 => e * m >= m
    OBVIOUS
  <2>2. e <= -1 => e * m <= -m
    OBVIOUS
  <2>3. -m < r - s /\ r - s < m
    BY <1>1, <1>2
  <2>4. PICK z \in Int : z = e * m
    OBVIOUS
  <2> QED BY <1>3, <2>1, <2>2, <2>3, <2>4
<1>5. r = s
  BY <1>1, <1>2, <1>3, <1>4
<1> QED BY <1>1, <1>2, <1>5

\* It makes no difference whether a number is reduced before it is multiplied.
LEMMA ReducedFirst ==
  ASSUME NEW m \in Nat, m > 0, NEW x \in Int, NEW b \in Int, NEW d \in Int
  PROVE  ((x % m) * b + d) % m = (x * b + d) % m
<1>1. PICK r \in Int, q \in Int : x = q * m + r /\ x % m = r
  <2>1. x = (x \div m) * m + (x % m) /\ x \div m \in Int /\ x % m \in Int
    OBVIOUS
  <2> QED BY <2>1
<1>2. x * b = (q * b) * m + r * b
  BY <1>1
<1>3. x * b + d = (r * b + d) + (q * b) * m
  <2>1. PICK u, v, w : u = x * b /\ v = (q * b) * m /\ w = r * b
    OBVIOUS
  <2>2. u \in Int /\ v \in Int /\ w \in Int
    BY <2>1
  <2> QED BY <1>2, <2>1, <2>2
<1>4. x * b + d \in Int /\ r * b + d \in Int /\ q * b \in Int
  OBVIOUS
<1>5. (x * b + d) % m = (r * b + d) % m
  BY <1>3, <1>4, Multiples
<1> QED BY <1>1, <1>5

\* Every character has a worth.
LEMMA WorthOfCharacter ==
  /\ \A c \in U!Characters : U!DigitValue[c] \in Nat /\ c # "NUL"
  /\ U!DigitValue["0"] = 0
  BY DEF U!Characters, U!DigitValue

\* The rest of a sequence.
LEMMA RestOfSeq ==
  ASSUME NEW Elements, NEW s \in Seq(Elements), NEW m \in 1 .. Len(s) + 1
  PROVE  /\ SubSeq(s, m, Len(s)) \in Seq(Elements)
         /\ Len(SubSeq(s, m, Len(s))) = Len(s) + 1 - m
         /\ \A n \in 1 .. Len(s) + 1 - m : SubSeq(s, m, Len(s))[n] = s[m + n - 1]
<1>1. Len(s) \in Nat /\ m \in Int /\ Len(s) \in Int
  OBVIOUS
<1>2. \A n \in m .. Len(s) : s[n] \in Elements
  <2> TAKE n \in m .. Len(s)
  <2>1. n \in 1 .. Len(s)
    BY <1>1
  <2> QED BY <2>1, ElementOfSeq
<1>3. /\ SubSeq(s, m, Len(s)) \in Seq(Elements)
      /\ Len(SubSeq(s, m, Len(s))) = IF m <= Len(s) THEN Len(s) - m + 1 ELSE 0
      /\ \A n \in 1 .. Len(s) - m + 1 : SubSeq(s, m, Len(s))[n] = s[m + n - 1]
  BY <1>1, <1>2, SubSeqProperties
<1>4. Len(s) - m + 1 = Len(s) + 1 - m
  BY <1>1
<1> QED BY <1>1, <1>3, <1>4

\* What is behind the sign of a text.
LEMMA BodyIs ==
  ASSUME TextInv
  PROVE  /\ Len(v1) \in Nat /\ SignEnd \in 1 .. Len(v1) + 1 /\ SignEnd \in {1, 2}
         /\ U!Body \in Seq(U!Characters) /\ Len(U!Body) = Len(v1) + 1 - SignEnd
         /\ \A n \in 1 .. Len(v1) + 1 - SignEnd : U!Body[n] = v1[SignEnd + n - 1]
<1>1. v1 \in Seq(U!Characters) /\ Len(v1) \in Nat
  BY DEF TextInv
<1>2. CASE Len(v1) > 0 /\ v1[1] \in {"+", "-"}
  <2>1. SignEnd = 2 /\ U!Body = SubSeq(v1, 2, Len(v1)) /\ 2 \in 1 .. Len(v1) + 1
    BY <1>1, <1>2 DEF SignEnd, U!Body
  <2> QED BY <1>1, <2>1, RestOfSeq
<1>3. CASE ~(Len(v1) > 0 /\ v1[1] \in {"+", "-"})
  <2>1. SignEnd = 1 /\ U!Body = v1
    BY <1>3 DEF SignEnd, U!Body
  <2>2. \A n \in 1 .. Len(v1) : 1 + n - 1 = n
    BY <1>1
  <2> QED BY <1>1, <2>1, <2>2
<1> QED BY <1>2, <1>3

\* The prefixes of a sequence, character by character.
LEMMA BeginsWith ==
  ASSUME NEW Elements, NEW w \in Seq(Elements), NEW b \in Seq(Elements)
  PROVE  U!IsPrefix(w, b) <=> Len(w) <= Len(b) /\ \A n \in 1 .. Len(w) : b[n] = w[n]
<1>1. Len(w) \in Nat /\ Len(b) \in Nat /\ SubSeq(w, 1, Len(w)) = w
  BY SubSeqFull
<1>2. ASSUME Len(w) <= Len(b)
      PROVE  SubSeq(b, 1, Len(w)) = w <=> \A n \in 1 .. Len(w) : b[n] = w[n]
  <2>1. \A n \in 1 .. Len(w) : b[n] \in Elements
    <3> TAKE n \in 1 .. Len(w)
    <3>1. n \in 1 .. Len(b)
      BY <1>1, <1>2
    <3> QED BY <3>1, ElementOfSeq
  <2> DEFINE u == SubSeq(b, 1, Len(w))
  <2>2. /\ u \in Seq(Elements) /\ Len(u) = IF 1 <= Len(w) THEN Len(w) - 1 + 1 ELSE 0
        /\ \A n \in 1 .. Len(w) - 1 + 1 : u[n] = b[1 + n - 1]
    BY <1>1, <2>1, SubSeqProperties
  <2> HIDE DEF u
  <2>3. Len(u) = Len(w) /\ \A n \in 1 .. Len(w) : u[n] = b[n]
    BY <1>1, <2>2
  <2>4. (\A n \in 1 .. Len(w) : u[n] = w[n]) => u = w
    BY <2>2, <2>3, SeqEqual
  <2>5. u = w <=> \A n \in 1 .. Len(w) : b[n] = w[n]
    BY <2>3, <2>4
  <2> QED BY <2>5 DEF u
<1> QED BY <1>1, <1>2 DEF U!IsPrefix

\* The reference, character by character.
LEMMA PrefixOfText ==
  ASSUME TextInv
  PROVE  /\ U!HasPrefix <=> /\ v9 = 16 \/ (v9 = 0 /\ v1[SignEnd] = "0")
                            /\ SignEnd + 1 <= Len(v1) /\ v1[SignEnd + 1] = "x"
         /\ U!IsPrefix(<<"0">>, U!Body) <=> SignEnd <= Len(v1) /\ v1[SignEnd] = "0"
<1> DEFINE e == SignEnd
           b == U!Body
<1>1. /\ Len(v1) \in Nat /\ e \in {1, 2} /\ e \in 1 .. Len(v1) + 1
      /\ b \in Seq(U!Characters) /\ Len(b) = Len(v1) + 1 - e
      /\ \A n \in 1 .. Len(v1) + 1 - e : b[n] = v1[e + n - 1]
  BY BodyIs
<1>2. U!IsPrefix(<<"0", "x">>, b) <=> Len(b) >= 2 /\ b[1] = "0" /\ b[2] = "x"
  <2> DEFINE w == <<"0", "x">>
  <2>1. w \in Seq(U!Characters) /\ Len(w) = 2 /\ w[1] = "0" /\ w[2] = "x"
    BY DEF U!Characters
  <2> HIDE DEF w
  <2>2. U!IsPrefix(w, b) <=> Len(w) <= Len(b) /\ \A n \in 1 .. Len(w) : b[n] = w[n]
    BY <1>1, <2>1, BeginsWith
  <2>3. U!IsPrefix(w, b) <=> Len(b) >= 2 /\ b[1] = "0" /\ b[2] = "x"
    BY <1>1, <2>1, <2>2
  <2> QED BY <2>3 DEF w
<1>3. U!IsPrefix(<<"0">>, b) <=> Len(b) >= 1 /\ b[1] = "0"
  <2> DEFINE w == <<"0">>
  <2>1. w \in Seq(U!Characters) /\ Len(w) = 1 /\ w[1] = "0"
    BY DEF U!Characters
  <2> HIDE DEF w
  <2>2. U!IsPrefix(w, b) <=> Len(w) <= Len(b) /\ \A n \in 1 .. Len(w) : b[n] = w[n]
    BY <1>1, <2>1, BeginsWith
  <2>3. U!IsPrefix(w, b) <=> Len(b) >= 1 /\ b[1] = "0"
    BY <1>1, <2>1, <2>2
  <2> QED BY <2>3 DEF w
<1>4. U!HasPrefix <=> \/ v9 = 0 /\ U!IsPrefix(<<"0", "x">>, b)
                      \/ v9 = 16 /\ Len(b) > 1 /\ b[2] = "x"
  BY DEF U!HasPrefix
<1> HIDE DEF e, b
<1>6. /\ Len(b) >= 2 => b[1] = v1[e] /\ b[2] = v1[e + 1]
      /\ Len(b) >= 1 => b[1] = v1[e]
  <2>1. e + 1 - 1 = e /\ e + 2 - 1 = e + 1
    BY <1>1
  <2>2. Len(b) >= 2 => 2 \in 1 .. Len(v1) + 1 - e
    BY <1>1
  <2>3. Len(b) >= 1 => 1 \in 1 .. Len(v1) + 1 - e
    BY <1>1
  <2>4. Len(b) >= 2 => Len(b) >= 1
    BY <1>1
  <2> QED BY <1>1, <2>1, <2>2, <2>3, <2>4
<1>8. /\ Len(b) >= 2 <=> e + 1 <= Len(v1)
      /\ Len(b) > 1 <=> e + 1 <= Len(v1)
      /\ Len(b) >= 1 <=> e <= Len(v1)
  BY <1>1
<1>9. U!HasPrefix <=> /\ v9 = 16 \/ (v9 = 0 /\ v1[e] = "0")
                      /\ e + 1 <= Len(v1) /\ v1[e + 1] = "x"
  <2>1. (Len(b) >= 2 => Len(b) >= 1) /\ (Len(b) > 1 => Len(b) >= 2)
    BY <1>1
  <2> QED BY <1>2, <1>4, <1>6, <1>8, <2>1
<1>11. U!IsPrefix(<<"0">>, b) <=> e <= Len(v1) /\ v1[e] = "0"
  BY <1>3, <1>6, <1>8
<1> QED BY <1>9, <1>11 DEF e, b

\* Where the digits of the text begin and what each of them is worth.
LEMMA DigitsAre ==
  ASSUME TextInv
  PROVE  /\ FirstDigit \in 1 .. Len(v1) + 1
         /\ FirstDigit = IF U!HasPrefix THEN SignEnd + 2 ELSE SignEnd
         /\ U!Worths \in Seq(Nat) /\ Len(U!Worths) = Len(v1) + 1 - FirstDigit
         /\ Len(U!Digits) = Len(U!Worths) /\ DOMAIN U!Digits = 1 .. Len(U!Worths)
         /\ \A n \in 1 .. Len(U!Worths) :
              U!Worths[n] = U!DigitValue[v1[FirstDigit + n - 1]]
<1> DEFINE e == SignEnd
           b == U!Body
           d == U!Digits
           f == FirstDigit
<1>1. /\ Len(v1) \in Nat /\ e \in {1, 2} /\ e \in 1 .. Len(v1) + 1
      /\ b \in Seq(U!Characters) /\ Len(b) = Len(v1) + 1 - e
      /\ \A n \in 1 .. Len(v1) + 1 - e : b[n] = v1[e + n - 1]
  BY BodyIs
<1>2. U!HasPrefix => e + 1 <= Len(v1)
  BY PrefixOfText
<1>3. d = IF U!HasPrefix THEN SubSeq(b, 3, Len(b)) ELSE b
  BY DEF U!Digits
<1>4. f = IF U!HasPrefix THEN e + 2 ELSE e
  BY DEF FirstDigit
<1>5. U!Worths = [n \in DOMAIN d |-> U!DigitValue[d[n]]]
  BY DEF U!Worths
<1> HIDE DEF e, b, d, f
<1>6. /\ f \in 1 .. Len(v1) + 1 /\ d \in Seq(U!Characters) /\ Len(d) = Len(v1) + 1 - f
      /\ \A n \in 1 .. Len(d) : d[n] = v1[f + n - 1]
  <2>1. CASE U!HasPrefix
    <3>1. /\ f = e + 2 /\ e + 1 <= Len(v1) /\ d = SubSeq(b, 3, Len(b))
          /\ 3 \in 1 .. Len(b) + 1
      BY <1>1, <1>2, <1>3, <1>4, <2>1
    <3>2. /\ d \in Seq(U!Characters) /\ Len(d) = Len(b) + 1 - 3
          /\ \A n \in 1 .. Len(b) + 1 - 3 : d[n] = b[3 + n - 1]
      BY <1>1, <3>1, RestOfSeq
    <3>3. Len(d) = Len(v1) + 1 - f /\ f \in 1 .. Len(v1) + 1
      BY <1>1, <3>1, <3>2
    <3>4. ASSUME NEW n \in 1 .. Len(d) PROVE d[n] = v1[f + n - 1]
      <4>1. 3 + n - 1 \in 1 .. Len(v1) + 1 - e /\ e + (3 + n - 1) - 1 = f + n - 1
        BY <1>1, <3>1, <3>2
      <4>2. b[3 + n - 1] = v1[e + (3 + n - 1) - 1]
        BY <1>1, <4>1
      <4> QED BY <3>2, <4>1, <4>2
    <3> QED BY <3>2, <3>3, <3>4
  <2>2. CASE ~U!HasPrefix
    BY <1>1, <1>3, <1>4, <2>2
  <2> QED BY <2>1, <2>2
<1>7. DOMAIN d = 1 .. Len(d) /\ Len(d) \in Nat
  BY <1>6
<1>8. /\ U!Worths \in Seq(Nat) /\ Len(U!Worths) = Len(d)
      /\ \A n \in 1 .. Len(d) : U!Worths[n] = U!DigitValue[d[n]]
  <2>1. \A n \in 1 .. Len(d) : U!DigitValue[d[n]] \in Nat
    BY <1>6, WorthOfCharacter, ElementOfSeq
  <2>2. U!Worths \in [1 .. Len(d) -> Nat]
    BY <1>5, <1>7, <2>1
  <2> QED BY <1>5, <1>7, <2>2
<1>9. \A n \in 1 .. Len(U!Worths) : U!Worths[n] = U!DigitValue[v1[f + n - 1]]
  BY <1>6, <1>8
<1> QED BY <1>4, <1>6, <1>7, <1>8, <1>9 DEF e, d, f

\* The reference does not change.
LEMMA SameReference ==
  ASSUME v1' = v1, v9' = v9
  PROVE  /\ SignEnd' = SignEnd /\ FirstDigit' = FirstDigit /\ U!Worths' = U!Worths
         /\ U!BaseMeant' = U!BaseMeant /\ TextInv' = TextInv
<1>1. U!Body' = U!Body /\ SignEnd' = SignEnd
  BY DEF U!Body, SignEnd
<1>2. U!HasPrefix' = U!HasPrefix
  BY <1>1 DEF U!HasPrefix, U!IsPrefix
<1>3. U!Digits' = U!Digits /\ FirstDigit' = FirstDigit
  BY <1>1, <1>2 DEF U!Digits, FirstDigit
<1>4. U!Worths' = U!Worths
  BY <1>3 DEF U!Worths, U!DigitValue, U!Characters
<1>5. U!BaseMeant' = U!BaseMeant
  BY <1>1, <1>2 DEF U!BaseMeant, U!IsPrefix
<1>6. TextInv' = TextInv
  BY DEF TextInv, U!Characters
<1> QED BY <1>1, <1>2, <1>3, <1>4, <1>5, <1>6

\* What was read grows by one digit.
LEMMA ReadGrows ==
  ASSUME NEW s \in Seq(Nat), NEW m \in Nat, m <= Len(s)
  PROVE  /\ SubSeq(s, 1, m) \in Seq(Nat)
         /\ m = 0 => SubSeq(s, 1, m) = << >>
         /\ m = Len(s) => SubSeq(s, 1, m) = s
         /\ m < Len(s) => SubSeq(s, 1, m + 1) = Append(SubSeq(s, 1, m), s[m + 1])
<1>1. Len(s) \in Nat /\ SubSeq(s, 1, Len(s)) = s /\ \A n \in 1 .. Len(s) : s[n] \in Nat
  BY SubSeqFull, ElementOfSeq
<1>2. ASSUME NEW k \in Nat, k <= Len(s)
      PROVE  /\ SubSeq(s, 1, k) \in Seq(Nat) /\ Len(SubSeq(s, 1, k)) = k
             /\ \A n \in 1 .. k : SubSeq(s, 1, k)[n] = s[n]
  <2>1. \A n \in 1 .. k : s[n] \in Nat
    BY <1>1, <1>2
  <2> DEFINE u == SubSeq(s, 1, k)
  <2>2. /\ u \in Seq(Nat) /\ Len(u) = IF 1 <= k THEN k - 1 + 1 ELSE 0
        /\ \A n \in 1 .. k - 1 + 1 : u[n] = s[1 + n - 1]
    BY <1>1, <2>1, SubSeqProperties
  <2> HIDE DEF u
  <2>3. Len(u) = k /\ \A n \in 1 .. k : u[n] = s[n]
    BY <2>2
  <2> QED BY <2>2, <2>3 DEF u
<1>3. m = 0 => SubSeq(s, 1, m) = << >>
  BY <1>2
<1>4. ASSUME m < Len(s) PROVE SubSeq(s, 1, m + 1) = Append(SubSeq(s, 1, m), s[m + 1])
  <2> DEFINE a == SubSeq(s, 1, m + 1)
             b == SubSeq(s, 1, m)
  <2>1. /\ b \in Seq(Nat) /\ Len(b) = m /\ \A n \in 1 .. m : b[n] = s[n]
    BY <1>2
  <2>2. /\ a \in Seq(Nat) /\ Len(a) = m + 1 /\ \A n \in 1 .. m + 1 : a[n] = s[n]
    <3>1. m + 1 \in Nat /\ m + 1 <= Len(s)
      BY <1>1, <1>4
    <3> QED BY <3>1, <1>2
  <2>3. s[m + 1] \in Nat
    BY <1>1, <1>4
  <2> HIDE DEF a, b
  <2> DEFINE u == Append(b, s[m + 1])
  <2>4. /\ u \in Seq(Nat) /\ Len(u) = m + 1 /\ u[m + 1] = s[m + 1]
        /\ \A n \in 1 .. m : u[n] = b[n]
    BY <2>1, <2>3
  <2> HIDE DEF u
  <2>5. \A n \in 1 .. m + 1 : a[n] = u[n]
    <3> TAKE n \in 1 .. m + 1
    <3>1. n = m + 1 \/ n \in 1 .. m
      OBVIOUS
    <3> QED BY <3>1, <2>1, <2>2, <2>4
  <2>6. a = u
    BY <2>2, <2>4, <2>5, SeqEqual
  <2> QED BY <2>6 DEF a, b, u
<1> QED BY <1>1, <1>2, <1>3, <1>4

\* The farthest position that is read.
LEMMA ReadsIs ==
  ASSUME NEW b \in Nat, v8 \in Nat, v8 <= b, NEW n \in Nat, n <= b, U!Reads(n)
  PROVE  v8' \in Nat /\ v8' <= b
<1>1. v8' = CHOOSE x \in {v8, n} : \A y \in {v8, n} : x >= y
  BY DEF U!Reads, U!Max
<1>2. \E x \in {v8, n} : \A y \in {v8, n} : x >= y
  <2>1. CASE v8 >= n
    BY <2>1
  <2>2. CASE ~(v8 >= n)
    BY <2>2
  <2> QED BY <2>1, <2>2
<1>3. v8' \in {v8, n}
  BY <1>1, <1>2
<1> QED BY <1>3

\* The type of everything.
LEMMA StrtoulTypes ==
  ASSUME StrtoulInv
  PROVE  /\ MaxLen \in Nat /\ Len(v1) \in Nat /\ Len(v1) <= MaxLen
         /\ v1 \in Seq(U!Characters)
         /\ v3 \in Nat /\ v3 >= 1 /\ v3 <= Len(v1) + 1 /\ v8 \in Nat /\ v8 <= Len(v1) + 1
         /\ SignEnd \in {1, 2} /\ SignEnd <= Len(v1) + 1
         /\ FirstDigit \in Nat /\ FirstDigit >= 1 /\ FirstDigit <= Len(v1) + 1
         /\ v4 \in Nat /\ v9 \in TextBases
         /\ \A n \in 1 .. Len(v1) : v1[n] \in U!Characters /\ v1[n] # "NUL"
<1>1. MaxLen \in Nat /\ IntMod \in Nat
  BY StrtoulFacts
<1>2. v1 \in Seq(U!Characters) /\ Len(v1) \in Nat /\ Len(v1) <= MaxLen /\ v9 \in TextBases
  BY DEF StrtoulInv, TextInv
<1>3. /\ v3 \in Nat /\ v3 >= 1 /\ v3 <= Len(v1) + 1 /\ v8 \in Nat /\ v8 <= Len(v1) + 1
      /\ v4 \in Nat
  BY <1>1 DEF StrtoulInv, U!TypeOK, StageInv
<1>4. SignEnd \in {1, 2} /\ SignEnd <= Len(v1) + 1
  BY <1>2, BodyIs DEF StrtoulInv
<1>5. FirstDigit \in Nat /\ FirstDigit >= 1 /\ FirstDigit <= Len(v1) + 1
  <2>1. FirstDigit \in 1 .. Len(v1) + 1
    BY DigitsAre DEF StrtoulInv
  <2> QED BY <1>2, <2>1
<1>6. \A n \in 1 .. Len(v1) : v1[n] \in U!Characters /\ v1[n] # "NUL"
  BY <1>2, WorthOfCharacter, ElementOfSeq
<1> QED BY <1>1, <1>2, <1>3, <1>4, <1>5, <1>6

\* Initially nothing is read.
LEMMA StrtoulInit == U!Init => StrtoulInv
<1> SUFFICES ASSUME U!Init PROVE StrtoulInv
  OBVIOUS
<1>1. /\ v2 \in TextBases /\ v9 = v2 /\ v3 = 1 /\ v4 = 0 /\ v5 = 1 /\ v6 = 0
      /\ v7 = "sign" /\ v8 = 0
  BY DEF U!Init
<1>2. MaxLen \in Nat /\ IntMod \in Nat /\ IntMod > 0
  BY StrtoulFacts
<1>3. TextInv
  <2>1. PICK k \in 0 .. MaxLen : v1 \in [1 .. k -> U!Characters]
    BY DEF U!Init
  <2>2. k \in Nat /\ k <= MaxLen
    BY <1>2, <2>1
  <2>3. v1 \in Seq(U!Characters) /\ Len(v1) = k
    BY <2>1, <2>2
  <2> QED BY <1>1, <2>2, <2>3 DEF TextInv
<1>4. U!TypeOK
  BY <1>1, <1>2 DEF U!TypeOK
<1>5. Len(v1) \in Nat
  BY <1>3 DEF TextInv
<1>6. StageInv
  BY <1>1, <1>5 DEF StageInv
<1>7. ValueInv
  BY <1>1 DEF ValueInv
<1> QED BY <1>3, <1>4, <1>6, <1>7 DEF StrtoulInv

\* Reading the sign keeps the invariant.
LEMMA SignHolds ==
  ASSUME StrtoulInv, U!Sign
  PROVE  StrtoulInv'
<1>1. /\ v7 = "sign" /\ v7' = "prefix" /\ U!Reads(v3) /\ v1' = v1 /\ v2' = v2
      /\ v4' = v4 /\ v6' = v6 /\ v9' = v9
      /\ v3' = IF U!At(v3) \in {"+", "-"} THEN v3 + 1 ELSE v3
      /\ v5' = IF U!At(v3) = "-" THEN -1 ELSE 1
  BY DEF U!Sign
<1>2. v3 = 1 /\ v2 = v9 /\ v4 = 0 /\ v6 = 0
  BY <1>1 DEF StrtoulInv, StageInv
<1>3. /\ MaxLen \in Nat /\ Len(v1) \in Nat /\ Len(v1) <= MaxLen
      /\ v8 \in Nat /\ v8 <= Len(v1) + 1 /\ v1 \in Seq(U!Characters)
      /\ SignEnd <= Len(v1) + 1 /\ SignEnd \in {1, 2}
  BY StrtoulTypes
<1>4. U!At(v3) = IF 1 <= Len(v1) THEN v1[1] ELSE "NUL"
  BY <1>2 DEF U!At
<1>5. v3' = SignEnd
  BY <1>1, <1>2, <1>3, <1>4 DEF SignEnd
<1>6. v5' = IF v1 # << >> /\ v1[1] = "-" THEN -1 ELSE 1
  <2>1. v1 # << >> <=> 1 <= Len(v1)
    BY <1>3
  <2> QED BY <1>1, <1>4, <2>1
<1>7. v8' \in Nat /\ v8' <= Len(v1) + 1
  BY <1>1, <1>2, <1>3, ReadsIs
<1>8. TextInv' /\ SignEnd' = SignEnd
  BY <1>1, SameReference DEF StrtoulInv
<1>9. U!TypeOK'
  BY <1>1, <1>3, <1>5 DEF StrtoulInv, U!TypeOK
<1>10. StageInv'
  BY <1>1, <1>2, <1>3, <1>5, <1>6, <1>7, <1>8 DEF StageInv
<1>11. ValueInv'
  BY <1>1 DEF ValueInv
<1> QED BY <1>8, <1>9, <1>10, <1>11 DEF StrtoulInv

\* Where the prefix ends, the digits of the reference begin, or one after it if
\* that was the 0 of an octal number.
LEMMA DigitsBegin ==
  ASSUME StrtoulInv, v7 = "prefix", v7' = "digits",
         v1' = v1, v4' = v4, v5' = v5, v6' = v6, v9' = v9,
         v3' \in Nat, v3' >= 1, v3' <= Len(v1) + 1,
         v8' \in Nat, v8' <= Len(v1) + 1,
         v2' \in 2 .. 36, v2' \in TextBases \cup {8, 10, 16}, v2' = U!BaseMeant,
         \/ v3' = FirstDigit
         \/ v3' = FirstDigit + 1 /\ FirstDigit <= Len(v1) /\ v1[FirstDigit] = "0"
  PROVE  StrtoulInv'
<1>1. /\ MaxLen \in Nat /\ Len(v1) \in Nat /\ Len(v1) <= MaxLen
      /\ FirstDigit \in Nat /\ FirstDigit >= 1 /\ FirstDigit <= Len(v1) + 1
  BY StrtoulTypes
<1>2. v4 = 0 /\ v6 = 0 /\ v5 = IF v1 # << >> /\ v1[1] = "-" THEN -1 ELSE 1
  BY DEF StrtoulInv, StageInv
<1>3. /\ SignEnd' = SignEnd /\ FirstDigit' = FirstDigit /\ U!Worths' = U!Worths
      /\ U!BaseMeant' = U!BaseMeant /\ TextInv'
  BY SameReference DEF StrtoulInv
<1>4. U!TypeOK'
  <2>1. v3' \in 1 .. MaxLen + 1
    BY <1>1
  <2> QED BY <2>1 DEF StrtoulInv, U!TypeOK
<1>5. StageInv'
  BY <1>1, <1>2 DEF StageInv
<1>6. IntMod \in Nat /\ IntMod > 0 /\ 0 % IntMod = 0
  BY StrtoulFacts
<1>7. /\ v3' >= FirstDigit /\ \A n \in 1 .. v3' - FirstDigit : U!Worths[n] < v2'
      /\ ValueOf(SubSeq(U!Worths, 1, v3' - FirstDigit), v2') = 0
  <2>1. v2' \in Nat /\ v2' > 0
    OBVIOUS
  <2>2. U!Worths \in Seq(Nat) /\ Len(U!Worths) = Len(v1) + 1 - FirstDigit
    BY DigitsAre DEF StrtoulInv
  <2>3. SubSeq(U!Worths, 1, 0) = << >> /\ ValueOf(SubSeq(U!Worths, 1, 0), v2') = 0
    <3>1. 0 \in Nat /\ 0 <= Len(U!Worths)
      BY <1>1, <2>2
    <3>2. SubSeq(U!Worths, 1, 0) = << >>
      BY <2>2, <3>1, ReadGrows
    <3> QED BY <2>1, <3>2, ValueOfNothing
  <2>4. CASE v3' = FirstDigit
    <3>1. v3' - FirstDigit = 0
      BY <1>1, <2>4
    <3> QED BY <1>1, <1>2, <2>1, <2>3, <2>4, <3>1
  <2>5. CASE v3' = FirstDigit + 1 /\ FirstDigit <= Len(v1) /\ v1[FirstDigit] = "0"
    <3>1. v3' - FirstDigit = 1 /\ 1 <= Len(U!Worths) /\ FirstDigit + 1 - 1 = FirstDigit
      BY <1>1, <2>2, <2>5
    <3>2. U!Worths[1] = 0
      <4>1. 1 \in 1 .. Len(U!Worths)
        BY <2>2, <3>1
      <4>2. U!Worths[1] = U!DigitValue[v1[FirstDigit + 1 - 1]]
        BY <4>1, DigitsAre DEF StrtoulInv
      <4> QED BY <2>5, <3>1, <4>2, WorthOfCharacter
    <3>3. SubSeq(U!Worths, 1, 1) = Append(<< >>, 0)
      <4>1. 0 \in Nat /\ 0 < Len(U!Worths) /\ 0 + 1 = 1
        BY <1>1, <2>2, <3>1
      <4>2. SubSeq(U!Worths, 1, 0 + 1) = Append(SubSeq(U!Worths, 1, 0), U!Worths[0 + 1])
        BY <2>2, <4>1, ReadGrows
      <4> QED BY <2>3, <3>2, <4>1, <4>2
    <3>4. ValueOf(SubSeq(U!Worths, 1, 1), v2') = 0
      <4>1. << >> \in Seq(Nat) /\ 0 \in Nat
        OBVIOUS
      <4>2. ValueOf(Append(<< >>, 0), v2') = ValueOf(<< >>, v2') * v2' + 0
        BY <2>1, <4>1, ValueOfAppend
      <4>3. ValueOf(<< >>, v2') = 0 /\ 0 * v2' + 0 = 0
        BY <2>1, ValueOfNothing
      <4>4. ValueOf(SubSeq(U!Worths, 1, 1), v2') = ValueOf(Append(<< >>, 0), v2')
        BY <3>3
      <4>5. ValueOf(Append(<< >>, 0), v2') = 0 * v2' + 0
        BY <4>2, <4>3
      <4> QED BY <4>3, <4>4, <4>5
    <3> QED BY <1>1, <1>2, <2>1, <2>5, <3>1, <3>2, <3>4
  <2> QED BY <2>4, <2>5
<1>8. ValueInv'
  BY <1>2, <1>3, <1>6, <1>7 DEF ValueInv, ReadSoFar
<1> QED BY <1>3, <1>4, <1>5, <1>8 DEF StrtoulInv

\* Taking the base from the prefix of the text keeps the invariant.
LEMMA BaseOfTextHolds ==
  ASSUME StrtoulInv, U!BaseOfText
  PROVE  StrtoulInv'
<1> DEFINE e == SignEnd
<1>1. /\ v7 = "prefix" /\ v7' = "digits" /\ v2 = 0 /\ v1' = v1 /\ v4' = v4
      /\ v5' = v5 /\ v6' = v6 /\ v9' = v9
  BY DEF U!BaseOfText
<1>2. v3 = e /\ v9 = 0
  BY <1>1 DEF StrtoulInv, StageInv
<1>3. /\ Len(v1) \in Nat /\ e \in Nat /\ e >= 1 /\ e <= Len(v1) + 1
      /\ v8 \in Nat /\ v8 <= Len(v1) + 1 /\ Len(v1) + 1 \in Nat
      /\ \A n \in 1 .. Len(v1) : v1[n] # "NUL"
  BY StrtoulTypes
<1>4. /\ U!HasPrefix <=> e + 1 <= Len(v1) /\ v1[e] = "0" /\ v1[e + 1] = "x"
      /\ U!IsPrefix(<<"0">>, U!Body) <=> e <= Len(v1) /\ v1[e] = "0"
  <2>1. TextInv
    BY DEF StrtoulInv
  <2> QED BY <1>2, <2>1, PrefixOfText
<1>5. FirstDigit = IF U!HasPrefix THEN e + 2 ELSE e
  BY DEF FirstDigit
<1>6. U!BaseMeant = IF U!HasPrefix THEN 16
                    ELSE IF U!IsPrefix(<<"0">>, U!Body) THEN 8 ELSE 10
  BY <1>2 DEF U!BaseMeant
<1>7. \A n : U!At(n) = IF n <= Len(v1) THEN v1[n] ELSE "NUL"
  BY DEF U!At
<1>8. U!At(e) = "0" <=> e <= Len(v1) /\ v1[e] = "0"
  BY <1>7
<1>9. U!At(e + 1) = "x" <=> e + 1 <= Len(v1) /\ v1[e + 1] = "x"
  BY <1>7
<1>10. CASE U!At(e) # "0"
  <2>1. v3' = e /\ v2' = 10 /\ U!Reads(e)
    BY <1>1, <1>2, <1>10 DEF U!BaseOfText
  <2>2. v8' \in Nat /\ v8' <= Len(v1) + 1
    BY <1>3, <2>1, ReadsIs
  <2>3. ~U!HasPrefix
    BY <1>3, <1>4, <1>8, <1>10
  <2>4. v3' = FirstDigit /\ v2' = U!BaseMeant
    BY <1>4, <1>5, <1>6, <1>8, <1>10, <2>1, <2>3
  <2>5. v2' \in 2 .. 36 /\ v2' \in TextBases \cup {8, 10, 16} /\ v3' \in Nat /\ v3' >= 1
        /\ v3' <= Len(v1) + 1
    BY <1>3, <2>1
  <2> QED BY <1>1, <2>2, <2>4, <2>5, DigitsBegin
<1>11. CASE U!At(e) = "0" /\ U!At(e + 1) = "x"
  <2>1. v3' = e + 2 /\ v2' = 16 /\ U!Reads(e + 1)
    BY <1>1, <1>2, <1>11 DEF U!BaseOfText
  <2>2. U!HasPrefix /\ e + 1 <= Len(v1)
    BY <1>4, <1>8, <1>9, <1>11
  <2>3. v8' \in Nat /\ v8' <= Len(v1) + 1
    <3>1. e + 1 \in Nat /\ e + 1 <= Len(v1) + 1
      BY <1>3, <2>2
    <3> QED BY <1>3, <2>1, <3>1, ReadsIs
  <2>4. v3' = FirstDigit /\ v2' = U!BaseMeant
    BY <1>5, <1>6, <2>1, <2>2
  <2>5. v2' \in 2 .. 36 /\ v2' \in TextBases \cup {8, 10, 16} /\ v3' \in Nat /\ v3' >= 1
        /\ v3' <= Len(v1) + 1
    BY <1>3, <2>1, <2>2
  <2> QED BY <1>1, <2>3, <2>4, <2>5, DigitsBegin
<1>12. CASE U!At(e) = "0" /\ U!At(e + 1) # "x"
  <2>1. v3' = e + 1 /\ v2' = 8 /\ U!Reads(e + 1)
    BY <1>1, <1>2, <1>12 DEF U!BaseOfText
  <2>2. ~U!HasPrefix /\ e <= Len(v1) /\ v1[e] = "0"
    BY <1>4, <1>8, <1>9, <1>12
  <2>3. v8' \in Nat /\ v8' <= Len(v1) + 1
    <3>1. e + 1 \in Nat /\ e + 1 <= Len(v1) + 1
      BY <1>3, <2>2
    <3> QED BY <1>3, <2>1, <3>1, ReadsIs
  <2>4. v3' = FirstDigit + 1 /\ v2' = U!BaseMeant /\ FirstDigit = e
    BY <1>4, <1>5, <1>6, <2>1, <2>2
  <2>5. v2' \in 2 .. 36 /\ v2' \in TextBases \cup {8, 10, 16} /\ v3' \in Nat /\ v3' >= 1
        /\ v3' <= Len(v1) + 1
    BY <1>3, <2>1, <2>2
  <2> QED BY <1>1, <2>2, <2>3, <2>4, <2>5, DigitsBegin
<1> QED BY <1>10, <1>11, <1>12

\* Taking the base of the call keeps the invariant.
LEMMA GivenBaseHolds ==
  ASSUME StrtoulInv, U!GivenBase
  PROVE  StrtoulInv'
<1> DEFINE e == SignEnd
<1>1. /\ v7 = "prefix" /\ v7' = "digits" /\ v2 # 0 /\ v1' = v1 /\ v4' = v4
      /\ v5' = v5 /\ v6' = v6 /\ v9' = v9 /\ v2' = v2
  BY DEF U!GivenBase
<1>2. v3 = e /\ v9 = v2
  BY <1>1 DEF StrtoulInv, StageInv
<1>3. /\ Len(v1) \in Nat /\ e \in Nat /\ e >= 1 /\ e <= Len(v1) + 1
      /\ v8 \in Nat /\ v8 <= Len(v1) + 1 /\ Len(v1) + 1 \in Nat /\ v9 \in TextBases
      /\ \A n \in 1 .. Len(v1) : v1[n] # "NUL"
  BY StrtoulTypes
<1>4. U!HasPrefix <=> v9 = 16 /\ e + 1 <= Len(v1) /\ v1[e + 1] = "x"
  <2>1. TextInv
    BY DEF StrtoulInv
  <2> QED BY <1>1, <1>2, <2>1, PrefixOfText
<1>5. FirstDigit = IF U!HasPrefix THEN e + 2 ELSE e
  BY DEF FirstDigit
<1>6. v2' = U!BaseMeant
  BY <1>1, <1>2 DEF U!BaseMeant
<1>7. \A n : U!At(n) = IF n <= Len(v1) THEN v1[n] ELSE "NUL"
  BY DEF U!At
<1>8. v2' \in 2 .. 36 /\ v2' \in TextBases \cup {8, 10, 16}
  BY <1>1, <1>2, <1>3, StrtoulFacts
<1>9. U!At(e) = "NUL" <=> e > Len(v1)
  BY <1>3, <1>7
<1>10. U!At(e + 1) = "x" <=> e + 1 <= Len(v1) /\ v1[e + 1] = "x"
  BY <1>7
<1>11. v8' \in Nat /\ v8' <= Len(v1) + 1
  <2>1. v8' = v8 \/ U!Reads(e) \/ (U!At(e) # "NUL" /\ U!Reads(e + 1))
    <3>1. IF v2 # 16 THEN UNCHANGED v8
          ELSE IF U!At(v3) = "NUL" THEN U!Reads(v3) ELSE U!Reads(v3 + 1)
      BY DEF U!GivenBase
    <3>2. IF v2 # 16 THEN UNCHANGED v8
          ELSE IF U!At(e) = "NUL" THEN U!Reads(e) ELSE U!Reads(e + 1)
      BY <1>2, <3>1
    <3> QED BY <3>2
  <2>2. CASE v8' = v8
    BY <1>3, <2>2
  <2>3. CASE U!Reads(e)
    BY <1>3, <2>3, ReadsIs
  <2>4. CASE U!At(e) # "NUL" /\ U!Reads(e + 1)
    <3>1. e + 1 \in Nat /\ e + 1 <= Len(v1) + 1
      BY <1>3, <1>9, <2>4
    <3> QED BY <1>3, <2>4, <3>1, ReadsIs
  <2> QED BY <2>1, <2>2, <2>3, <2>4
<1>12. CASE v2 = 16 /\ U!At(e) # "NUL" /\ U!At(e + 1) = "x"
  <2>1. v3' = e + 2 /\ e + 1 <= Len(v1)
    BY <1>2, <1>10, <1>12 DEF U!GivenBase
  <2>2. v3' \in Nat /\ v3' >= 1 /\ v3' <= Len(v1) + 1
    BY <1>3, <2>1
  <2>3. v3' = FirstDigit
    BY <1>2, <1>4, <1>5, <1>10, <1>12, <2>1
  <2> QED BY <1>1, <1>6, <1>8, <1>11, <2>2, <2>3, DigitsBegin
<1>13. CASE ~(v2 = 16 /\ U!At(e) # "NUL" /\ U!At(e + 1) = "x")
  <2>1. v3' = e
    BY <1>2, <1>13 DEF U!GivenBase
  <2>2. ~U!HasPrefix
    BY <1>2, <1>3, <1>4, <1>9, <1>10, <1>13
  <2>3. v3' = FirstDigit /\ v3' \in Nat /\ v3' >= 1 /\ v3' <= Len(v1) + 1
    BY <1>3, <1>5, <2>1, <2>2
  <2> QED BY <1>1, <1>6, <1>8, <1>11, <2>3, DigitsBegin
<1> QED BY <1>12, <1>13

\* What is known while the digits are read.
LEMMA WhileDigits ==
  ASSUME StrtoulInv, v7 = "digits"
  PROVE  /\ v2 \in Nat /\ v2 >= 2 /\ v2 <= 36 /\ v2 = U!BaseMeant /\ v6 = 0
         /\ v5 = IF v1 # << >> /\ v1[1] = "-" THEN -1 ELSE 1
         /\ U!At(v3) = "NUL" <=> v3 = Len(v1) + 1
         /\ v3 <= Len(v1) => U!At(v3) = v1[v3] /\ v1[v3] \in U!Characters
<1>1. v2 \in 2 .. 36 /\ v2 = U!BaseMeant
  BY DEF StrtoulInv, ValueInv
<1>2. v6 = 0 /\ v5 = IF v1 # << >> /\ v1[1] = "-" THEN -1 ELSE 1
  BY DEF StrtoulInv, StageInv
<1>3. /\ MaxLen \in Nat /\ Len(v1) \in Nat /\ Len(v1) <= MaxLen
      /\ v3 \in Nat /\ v3 >= 1 /\ v3 <= Len(v1) + 1
      /\ \A n \in 1 .. Len(v1) : v1[n] \in U!Characters /\ v1[n] # "NUL"
  BY StrtoulTypes
<1>4. U!At(v3) = IF v3 <= Len(v1) THEN v1[v3] ELSE "NUL"
  BY DEF U!At
<1>5. v3 <= Len(v1) => v3 \in 1 .. Len(v1)
  BY <1>3
<1>6. v3 <= Len(v1) <=> ~(v3 = Len(v1) + 1)
  BY <1>3
<1>7. U!At(v3) = "NUL" <=> v3 = Len(v1) + 1
  BY <1>3, <1>4, <1>5, <1>6
<1>8. v3 <= Len(v1) => U!At(v3) = v1[v3] /\ v1[v3] \in U!Characters
  BY <1>3, <1>4, <1>5
<1>9. v2 \in Nat /\ v2 >= 2 /\ v2 <= 36
  BY <1>1
<1> QED BY <1>1, <1>2, <1>7, <1>8, <1>9

\* What was read is a number.
LEMMA ReadIsNumber ==
  ASSUME StrtoulInv, v7 \in {"digits", "done"}
  PROVE  /\ ReadSoFar \in Nat /\ v2 \in Nat
         /\ v3 - FirstDigit \in Nat /\ v3 - FirstDigit <= Len(U!Worths)
<1>1. v2 \in Nat /\ v3 >= FirstDigit
  <2>1. v2 \in 2 .. 36 /\ v3 >= FirstDigit
    BY DEF StrtoulInv, ValueInv
  <2> QED BY <2>1
<1>2. Len(v1) \in Nat /\ v3 \in Nat /\ v3 <= Len(v1) + 1 /\ FirstDigit \in Nat
  BY StrtoulTypes
<1>3. U!Worths \in Seq(Nat) /\ Len(U!Worths) = Len(v1) + 1 - FirstDigit
  BY DigitsAre DEF StrtoulInv
<1>4. v3 - FirstDigit \in Nat /\ v3 - FirstDigit <= Len(U!Worths)
  BY <1>1, <1>2, <1>3
<1>5. SubSeq(U!Worths, 1, v3 - FirstDigit) \in Seq(Nat)
  BY <1>3, <1>4, ReadGrows
<1>6. ReadSoFar \in Nat
  BY <1>1, <1>5, ValueOfAppend DEF ReadSoFar
<1> QED BY <1>1, <1>4, <1>6

\* A digit that follows what was read.
LEMMA NextDigit ==
  ASSUME StrtoulInv, v7 = "digits", v3 <= Len(v1)
  PROVE  /\ v3 - FirstDigit \in Nat /\ v3 - FirstDigit < Len(U!Worths)
         /\ U!Worths[v3 - FirstDigit + 1] = U!DigitValue[v1[v3]]
<1>1. /\ Len(v1) \in Nat /\ v3 \in Nat /\ FirstDigit \in Nat /\ FirstDigit >= 1
  BY StrtoulTypes
<1>2. v3 >= FirstDigit
  BY DEF StrtoulInv, ValueInv
<1>3. /\ Len(U!Worths) = Len(v1) + 1 - FirstDigit
      /\ \A n \in 1 .. Len(U!Worths) : U!Worths[n] = U!DigitValue[v1[FirstDigit + n - 1]]
  BY DigitsAre DEF StrtoulInv
<1>4. /\ v3 - FirstDigit + 1 \in 1 .. Len(U!Worths)
      /\ FirstDigit + (v3 - FirstDigit + 1) - 1 = v3
      /\ v3 - FirstDigit \in Nat /\ v3 - FirstDigit < Len(U!Worths)
  BY <1>1, <1>2, <1>3
<1>5. U!Worths[v3 - FirstDigit + 1] = U!DigitValue[v1[FirstDigit + (v3 - FirstDigit + 1) - 1]]
  BY <1>3, <1>4
<1> QED BY <1>4, <1>5

\* One more digit: the value times the base plus the digit is what all digits
\* are worth.
LEMMA DigitIsRead ==
  ASSUME StrtoulInv, U!Digit
  PROVE  StrtoulInv'
<1> DEFINE d == U!DigitValue[v1[v3]]
<1>1. /\ v7 = "digits" /\ U!IsDigitOf(U!At(v3), v2) /\ U!Reads(v3)
      /\ v4' = (v4 * v2 + U!DigitValue[U!At(v3)]) % IntMod /\ v3' = v3 + 1
      /\ v1' = v1 /\ v2' = v2 /\ v5' = v5 /\ v6' = v6 /\ v7' = v7 /\ v9' = v9
  BY DEF U!Digit
<1>2. /\ MaxLen \in Nat /\ Len(v1) \in Nat /\ Len(v1) <= MaxLen /\ Len(v1) + 1 \in Nat
      /\ v3 \in Nat /\ v3 >= 1 /\ v3 <= Len(v1) + 1 /\ v8 \in Nat /\ v8 <= Len(v1) + 1
      /\ v4 \in Nat /\ FirstDigit \in Nat
  BY StrtoulTypes
<1>3. /\ v2 \in Nat /\ v2 >= 2 /\ v2 <= 36 /\ v2 = U!BaseMeant /\ v6 = 0
      /\ v5 = IF v1 # << >> /\ v1[1] = "-" THEN -1 ELSE 1
      /\ U!At(v3) = "NUL" <=> v3 = Len(v1) + 1
      /\ v3 <= Len(v1) => U!At(v3) = v1[v3] /\ v1[v3] \in U!Characters
  BY <1>1, WhileDigits
<1>4. v3 <= Len(v1)
  BY <1>1, <1>2, <1>3 DEF U!IsDigitOf
<1>5. d \in Nat /\ d < v2 /\ v4' = (v4 * v2 + d) % IntMod
  <2>1. U!At(v3) = v1[v3] /\ d \in Nat
    BY <1>3, <1>4, WorthOfCharacter
  <2> QED BY <1>1, <2>1 DEF U!IsDigitOf
<1>6. IntMod \in Nat /\ IntMod > 0
  BY StrtoulFacts
<1>7. v8' \in Nat /\ v8' <= Len(v1) + 1
  BY <1>1, <1>2, ReadsIs
<1>8. v4' \in 0 .. IntMod - 1
  <2> HIDE DEF d
  <2>1. v4 * v2 + d \in Nat
    BY <1>2, <1>3, <1>5
  <2> QED BY <1>5, <1>6, <2>1
<1>10. /\ FirstDigit' = FirstDigit /\ U!Worths' = U!Worths /\ SignEnd' = SignEnd
       /\ U!BaseMeant' = U!BaseMeant /\ TextInv'
  BY <1>1, SameReference DEF StrtoulInv
<1>11. U!TypeOK'
  <2>1. v3' \in 1 .. MaxLen + 1
    BY <1>1, <1>2, <1>4
  <2> QED BY <1>1, <1>8, <2>1 DEF StrtoulInv, U!TypeOK
<1>12. StageInv'
  BY <1>1, <1>2, <1>3, <1>4, <1>7 DEF StageInv
<1>13. /\ v3' >= FirstDigit /\ \A n \in 1 .. v3' - FirstDigit : U!Worths[n] < v2
       /\ v4' = ValueOf(SubSeq(U!Worths, 1, v3' - FirstDigit), v2) % IntMod
  <2> DEFINE m == v3 - FirstDigit
  <2>1. m \in Nat /\ m < Len(U!Worths) /\ U!Worths[m + 1] = d
    BY <1>1, <1>4, NextDigit
  <2>2. /\ v3 >= FirstDigit /\ \A n \in 1 .. m : U!Worths[n] < v2
        /\ v4 = ValueOf(SubSeq(U!Worths, 1, m), v2) % IntMod
    BY <1>1 DEF StrtoulInv, ValueInv, ReadSoFar
  <2>3. U!Worths \in Seq(Nat)
    BY DigitsAre DEF StrtoulInv
  <2>4. v3' - FirstDigit = m + 1 /\ v3' >= FirstDigit
    BY <1>1, <1>2, <2>2
  <2> HIDE DEF m, d
  <2>5. /\ SubSeq(U!Worths, 1, m) \in Seq(Nat)
        /\ SubSeq(U!Worths, 1, m + 1) = Append(SubSeq(U!Worths, 1, m), U!Worths[m + 1])
    <3>1. m <= Len(U!Worths)
      BY <2>1, <2>3
    <3> QED BY <2>1, <2>3, <3>1, ReadGrows
  <2>6. PICK x : x = ValueOf(SubSeq(U!Worths, 1, m), v2)
    OBVIOUS
  <2>7. x \in Nat /\ ValueOf(SubSeq(U!Worths, 1, m + 1), v2) = x * v2 + d
    <3>1. /\ ValueOf(SubSeq(U!Worths, 1, m), v2) \in Nat
          /\ ValueOf(Append(SubSeq(U!Worths, 1, m), d), v2)
               = ValueOf(SubSeq(U!Worths, 1, m), v2) * v2 + d
      BY <1>3, <1>5, <2>5, ValueOfAppend
    <3> QED BY <2>1, <2>5, <2>6, <3>1
  <2>8. v4' = (x * v2 + d) % IntMod
    <3>1. ((x % IntMod) * v2 + d) % IntMod = (x * v2 + d) % IntMod
      <4>1. x \in Int /\ v2 \in Int /\ d \in Int /\ IntMod \in Nat /\ IntMod > 0
        BY <1>3, <1>5, <1>6, <2>7
      <4> QED BY ONLY <4>1, ReducedFirst, Zenon
    <3>2. v4 = x % IntMod
      BY <2>2, <2>6
    <3> QED BY ONLY <1>5, <3>1, <3>2
  <2>9. \A n \in 1 .. m + 1 : U!Worths[n] < v2
    <3> TAKE n \in 1 .. m + 1
    <3>1. n = m + 1 \/ n \in 1 .. m
      BY <2>1
    <3> QED BY <1>5, <2>1, <2>2, <3>1
  <2> QED BY <2>4, <2>7, <2>8, <2>9
<1>14. ValueInv'
  <2>1. v2 \in 2 .. 36
    BY <1>3
  <2> QED BY <1>1, <1>3, <1>10, <1>13, <2>1 DEF ValueInv, ReadSoFar
<1> QED BY <1>10, <1>11, <1>12, <1>14 DEF StrtoulInv

\* At a character that is no digit its place is stored and the loop ends.
LEMMA NoDigitHolds ==
  ASSUME StrtoulInv, U!NoDigit
  PROVE  StrtoulInv'
<1>1. /\ v7 = "digits" /\ U!At(v3) # "NUL" /\ ~U!IsDigitOf(U!At(v3), v2) /\ U!Reads(v3)
      /\ v4' = (v4 * v2) % IntMod /\ v6' = v3 /\ v7' = "done"
      /\ v1' = v1 /\ v2' = v2 /\ v3' = v3 /\ v5' = v5 /\ v9' = v9
  BY DEF U!NoDigit
<1>2. /\ MaxLen \in Nat /\ Len(v1) \in Nat /\ Len(v1) <= MaxLen /\ Len(v1) + 1 \in Nat
      /\ v3 \in Nat /\ v3 >= 1 /\ v3 <= Len(v1) + 1 /\ v8 \in Nat /\ v8 <= Len(v1) + 1
      /\ v4 \in Nat
  BY StrtoulTypes
<1>3. /\ v2 \in Nat /\ v2 >= 2 /\ v2 <= 36 /\ v2 = U!BaseMeant /\ v6 = 0
      /\ v5 = IF v1 # << >> /\ v1[1] = "-" THEN -1 ELSE 1
      /\ U!At(v3) = "NUL" <=> v3 = Len(v1) + 1
      /\ v3 <= Len(v1) => U!At(v3) = v1[v3] /\ v1[v3] \in U!Characters
  BY <1>1, WhileDigits
<1>4. v3 <= Len(v1) /\ U!At(v3) = v1[v3]
  BY <1>1, <1>2, <1>3
<1>5. IntMod \in Nat /\ IntMod > 0
  BY StrtoulFacts
<1>6. v4' \in 0 .. IntMod - 1
  <2>1. v4 * v2 \in Nat
    BY <1>2, <1>3
  <2> QED BY <1>1, <1>5, <2>1
<1>7. v4' = (ReadSoFar * v2) % IntMod
  <2>1. PICK x : x = ReadSoFar
    OBVIOUS
  <2>2. x \in Nat /\ v4 = x % IntMod
    BY <1>1, <2>1, ReadIsNumber DEF StrtoulInv, ValueInv
  <2>3. ((x % IntMod) * v2 + 0) % IntMod = (x * v2 + 0) % IntMod
    <3>1. 0 \in Int /\ x \in Int /\ v2 \in Int /\ IntMod \in Nat /\ IntMod > 0
      BY <1>3, <1>5, <2>2
    <3> QED BY ONLY <3>1, ReducedFirst, Zenon
  <2>4. (x % IntMod) * v2 + 0 = v4 * v2 /\ x * v2 + 0 = x * v2
    <3>1. v4 * v2 \in Nat /\ x * v2 \in Nat
      BY <1>2, <1>3, <2>2
    <3> QED BY <2>2, <3>1
  <2> QED BY <1>1, <2>1, <2>3, <2>4
<1>8. v8' \in Nat /\ v8' <= Len(v1) + 1
  BY <1>1, <1>2, ReadsIs
<1>9. /\ FirstDigit' = FirstDigit /\ U!Worths' = U!Worths /\ SignEnd' = SignEnd
      /\ U!BaseMeant' = U!BaseMeant /\ TextInv'
  BY <1>1, SameReference DEF StrtoulInv
<1>10. U!TypeOK'
  <2>1. v6' \in 0 .. MaxLen
    BY <1>1, <1>2, <1>4
  <2> QED BY <1>1, <1>6, <2>1 DEF StrtoulInv, U!TypeOK
<1>11. StageInv'
  BY <1>1, <1>2, <1>3, <1>8 DEF StageInv
<1>12. ~U!IsDigitOf(v1'[v3'], v2')
  BY <1>1, <1>4 DEF U!IsDigitOf, U!DigitValue, U!Characters
<1>13. v3 >= FirstDigit /\ \A n \in 1 .. v3 - FirstDigit : U!Worths[n] < v2
  BY <1>1 DEF StrtoulInv, ValueInv
<1>14. ReadSoFar' = ReadSoFar
  BY <1>1, <1>9 DEF ReadSoFar
<1>15. ValueInv'
  <2>1. v2 \in 2 .. 36 /\ v6' # 0
    BY <1>1, <1>2, <1>3
  <2> QED BY <1>1, <1>3, <1>4, <1>7, <1>9, <1>12, <1>13, <1>14, <2>1 DEF ValueInv
<1> QED BY <1>9, <1>10, <1>11, <1>15 DEF StrtoulInv

\* At the end of the text all digits were read.
LEMMA EndOfTextHolds ==
  ASSUME StrtoulInv, U!EndOfText
  PROVE  StrtoulInv'
<1>1. /\ v7 = "digits" /\ U!At(v3) = "NUL" /\ U!Reads(v3) /\ v7' = "done"
      /\ v1' = v1 /\ v2' = v2 /\ v3' = v3 /\ v4' = v4 /\ v5' = v5 /\ v6' = v6 /\ v9' = v9
  BY DEF U!EndOfText
<1>2. /\ MaxLen \in Nat /\ Len(v1) \in Nat /\ Len(v1) <= MaxLen /\ Len(v1) + 1 \in Nat
      /\ v3 \in Nat /\ v3 >= 1 /\ v3 <= Len(v1) + 1 /\ v8 \in Nat /\ v8 <= Len(v1) + 1
      /\ v4 \in Nat
  BY StrtoulTypes
<1>3. /\ v2 \in Nat /\ v2 >= 2 /\ v2 <= 36 /\ v2 = U!BaseMeant /\ v6 = 0
      /\ v5 = IF v1 # << >> /\ v1[1] = "-" THEN -1 ELSE 1
      /\ U!At(v3) = "NUL" <=> v3 = Len(v1) + 1
  BY <1>1, WhileDigits
<1>4. v3 = Len(v1) + 1
  BY <1>1, <1>3
<1>6. v8' \in Nat /\ v8' <= Len(v1) + 1
  BY <1>1, <1>2, ReadsIs
<1>7. /\ FirstDigit' = FirstDigit /\ U!Worths' = U!Worths /\ SignEnd' = SignEnd
      /\ U!BaseMeant' = U!BaseMeant /\ TextInv'
  BY <1>1, SameReference DEF StrtoulInv
<1>8. U!TypeOK'
  BY <1>1 DEF StrtoulInv, U!TypeOK
<1>9. StageInv'
  BY <1>1, <1>2, <1>3, <1>6 DEF StageInv
<1>10. /\ v3 >= FirstDigit /\ \A n \in 1 .. v3 - FirstDigit : U!Worths[n] < v2
       /\ v4 = ReadSoFar % IntMod
  BY <1>1 DEF StrtoulInv, ValueInv
<1>11. ReadSoFar' = ReadSoFar
  BY <1>1, <1>7 DEF ReadSoFar
<1>12. ValueInv'
  <2>1. v2 \in 2 .. 36
    BY <1>3
  <2> QED BY <1>1, <1>3, <1>4, <1>7, <1>10, <1>11, <2>1 DEF ValueInv
<1> QED BY <1>7, <1>8, <1>9, <1>12 DEF StrtoulInv

\* Every step of strtoul() keeps the invariant.
LEMMA StrtoulNext == StrtoulInv /\ [U!Next]_(U!vars) => StrtoulInv'
<1> SUFFICES ASSUME StrtoulInv, [U!Next]_(U!vars) PROVE StrtoulInv'
  OBVIOUS
<1>1. CASE U!Next
  BY <1>1, SignHolds, BaseOfTextHolds, GivenBaseHolds, DigitIsRead, NoDigitHolds,
     EndOfTextHolds DEF U!Next
<1>2. CASE UNCHANGED U!vars
  <2>1. /\ v1' = v1 /\ v2' = v2 /\ v3' = v3 /\ v4' = v4 /\ v5' = v5 /\ v6' = v6
        /\ v7' = v7 /\ v8' = v8 /\ v9' = v9
    BY <1>2 DEF U!vars
  <2>2. /\ FirstDigit' = FirstDigit /\ U!Worths' = U!Worths /\ SignEnd' = SignEnd
        /\ U!BaseMeant' = U!BaseMeant /\ TextInv'
    BY <2>1, SameReference DEF StrtoulInv
  <2>3. U!TypeOK' /\ StageInv'
    BY <2>1, <2>2 DEF StrtoulInv, U!TypeOK, StageInv
  <2>4. ReadSoFar' = ReadSoFar
    BY <2>1, <2>2 DEF ReadSoFar
  <2>5. U!IsDigitOf(v1[v3], v2)' <=> U!IsDigitOf(v1[v3], v2)
    BY <2>1 DEF U!IsDigitOf, U!DigitValue, U!Characters
  <2>6. ValueInv'
    BY <2>1, <2>2, <2>4, <2>5 DEF StrtoulInv, ValueInv
  <2> QED BY <2>2, <2>3, <2>6 DEF StrtoulInv
<1> QED BY <1>1, <1>2

\* What is taken off the range of a number, below it.
LEMMA Wraps ==
  ASSUME NEW x \in Nat, NEW m \in Nat, x < m
  PROVE  x % m = x /\ (-x) % m = IF x = 0 THEN 0 ELSE m - x
<1>1. x % m = x
  OBVIOUS
<1>2. CASE x = 0
  BY <1>2
<1>3. CASE x # 0
  <2>1. m - x \in Nat /\ (m - x) % m = m - x
    BY <1>3
  <2>2. -x = (-1) * m + (m - x)
    OBVIOUS
  <2>3. (-x) % m = m - x
    BY <1>3, <2>2
  <2> QED BY <2>1, <1>3, <2>3
<1> QED BY <1>1, <1>2, <1>3

\* A number that an int can hold is the same as an unsigned long.
LEMMA FitsIntoInt ==
  ASSUME NEW x \in Int, x < IntMod \div 2, -x <= IntMod \div 2
  PROVE  U!SignExtended(x % IntMod) = x % ULong
<1>1. /\ IntMod \in Nat /\ IntMod > 0 /\ ULong \in Nat /\ ULong >= IntMod
  BY StrtoulFacts
<1>2. PICK h \in Nat : IntMod \div 2 = h /\ IntMod = 2 * h
  <2>1. IntMod \div 2 \in Nat /\ IntMod = 2 * (IntMod \div 2)
    BY StrtoulFacts
  <2> QED BY <2>1
<1>3. CASE x >= 0
  <2>1. x \in Nat /\ x < IntMod /\ x < ULong
    BY <1>1, <1>2, <1>3
  <2>2. x % IntMod = x /\ x % ULong = x
    BY <1>1, <2>1, Wraps
  <2> QED BY <2>2 DEF U!SignExtended
<1>4. CASE x < 0
  <2>1. PICK y \in Nat : y = -x /\ x = -y /\ y # 0
    BY <1>4
  <2>2. y <= h /\ y < IntMod /\ y < ULong
    BY <1>1, <1>2, <2>1
  <2>3. x % IntMod = IntMod - y /\ x % ULong = ULong - y
    BY <1>1, <2>1, <2>2, Wraps
  <2>4. ~(IntMod - y < h) /\ (IntMod - y) + (ULong - IntMod) = ULong - y
    BY <1>1, <1>2, <2>1, <2>2
  <2> QED BY <1>2, <2>3, <2>4 DEF U!SignExtended
<1> QED BY <1>3, <1>4

\* The number ends where the digits that were read do.
LEMMA EndsWhereRead ==
  ASSUME StrtoulInv, v7 = "done", NEW k \in 0 .. Len(U!Worths), U!EndsAfter(k)
  PROVE  k = v3 - FirstDigit /\ (k = Len(U!Worths) <=> v6 = 0)
<1>1. /\ Len(v1) \in Nat /\ v3 \in Nat /\ FirstDigit \in Nat /\ FirstDigit >= 1
      /\ FirstDigit <= Len(v1) + 1
      /\ \A n \in 1 .. Len(v1) : v1[n] \in U!Characters /\ v1[n] # "NUL"
  BY StrtoulTypes
<1>2. /\ U!Worths \in Seq(Nat) /\ Len(U!Worths) = Len(v1) + 1 - FirstDigit
      /\ \A n \in 1 .. Len(U!Worths) : U!Worths[n] = U!DigitValue[v1[FirstDigit + n - 1]]
  BY DigitsAre DEF StrtoulInv
<1>3. /\ v2 \in Nat /\ v2 = U!BaseMeant /\ v3 >= FirstDigit
      /\ \A n \in 1 .. v3 - FirstDigit : U!Worths[n] < v2
      /\ v6 = 0 => v3 = Len(v1) + 1
      /\ v6 # 0 => v6 = v3 /\ v3 <= Len(v1) /\ ~U!IsDigitOf(v1[v3], v2)
  <2>1. v2 \in Nat
    BY ReadIsNumber
  <2> QED BY <2>1 DEF StrtoulInv, ValueInv
<1>4. PICK m, l : m = v3 - FirstDigit /\ l = Len(U!Worths)
  OBVIOUS
<1>5. m \in Nat /\ l \in Nat /\ k \in Nat /\ k <= l /\ m <= l /\ (v6 = 0 => m = l) /\ (v6 # 0 => m < l)
  BY <1>1, <1>2, <1>3, <1>4
<1>6. /\ \A n \in 1 .. m : U!Worths[n] < v2
      /\ \A n \in 1 .. k : U!Worths[n] < v2
      /\ k < l => ~(U!Worths[k + 1] < v2)
  <2>1. \A n \in 1 .. l : U!Worths[n] \in Nat
    BY <1>2, <1>4, ElementOfSeq
  <2>2. k < l => U!Worths[k + 1] >= v2 /\ U!Worths[k + 1] \in Nat
    <3>1. k < l => k + 1 \in 1 .. l
      BY <1>5
    <3> QED BY <1>3, <1>4, <2>1, <3>1 DEF U!EndsAfter
  <2> QED BY <1>3, <1>4, <2>2 DEF U!EndsAfter
<1>7. ~(k < m)
  <2>1. k < m => k + 1 \in 1 .. m /\ k < l
    BY <1>5
  <2> QED BY <1>6, <2>1
<1>8. ~(m < k)
  <2> SUFFICES ASSUME m < k PROVE FALSE
    OBVIOUS
  <2>1. PICK n : n = m + 1
    OBVIOUS
  <2>2. n \in 1 .. k /\ n \in 1 .. l /\ m < l /\ FirstDigit + n - 1 = v3 /\ v3 \in 1 .. Len(v1)
    BY <1>1, <1>2, <1>3, <1>4, <1>5, <2>1
  <2>3. v6 # 0
    BY <1>5, <2>2
  <2>4. U!Worths[n] = U!DigitValue[v1[v3]]
    <3>1. U!Worths[n] = U!DigitValue[v1[FirstDigit + n - 1]]
      BY <1>2, <1>4, <2>2
    <3> QED BY <2>2, <3>1
  <2>5. ~(U!DigitValue[v1[v3]] < v2)
    BY <1>1, <1>3, <2>2, <2>3 DEF U!IsDigitOf
  <2> QED BY <1>6, <2>2, <2>4, <2>5
<1>9. k = m
  BY <1>5, <1>7, <1>8
<1> QED BY <1>4, <1>5, <1>9

\* What is returned: the number that was read with its sign, or that times the
\* base when there is text behind it.
LEMMA WhatIsReturned ==
  ASSUME StrtoulInv, v7 = "done", NEW k \in 0 .. Len(U!Worths), U!EndsAfter(k)
  PROVE  /\ U!Number(k) \in Int
         /\ v6 = 0 => U!Returned = U!SignExtended(U!Number(k) % IntMod)
         /\ v6 # 0 => U!Returned = U!SignExtended((U!Number(k) * U!BaseMeant) % IntMod)
<1>1. k = v3 - FirstDigit
  BY EndsWhereRead
<1>2. PICK x, b : x = ReadSoFar /\ b = v2
  OBVIOUS
<1>3. x \in Nat /\ b \in Nat /\ b = U!BaseMeant /\ IntMod \in Nat /\ IntMod > 0
  BY <1>2, ReadIsNumber, StrtoulFacts DEF StrtoulInv, ValueInv
<1>4. v5 \in {-1, 1} /\ v5 = IF v1 # << >> /\ v1[1] = "-" THEN -1 ELSE 1
  BY DEF StrtoulInv, StageInv
<1>5. U!Number(k) = v5 * x
  BY <1>1, <1>2, <1>3, <1>4, SameNumeralsInTexts DEF U!Number, ReadSoFar
<1>6. \A y \in Nat : v4 = y % IntMod => (v4 * v5) % IntMod = (v5 * y) % IntMod
  <2> TAKE y \in Nat
  <2> HAVE v4 = y % IntMod
  <2>1. ((y % IntMod) * v5 + 0) % IntMod = (y * v5 + 0) % IntMod
    <3>1. 0 \in Int /\ v5 \in Int /\ y \in Int
      BY <1>4
    <3> QED BY <1>3, <3>1, ReducedFirst
  <2>2. (y % IntMod) * v5 + 0 = v4 * v5 /\ y * v5 + 0 = v5 * y
    <3>1. v4 \in Int /\ v5 \in Int
      BY <1>3, <1>4
    <3> QED BY <3>1
  <2> QED BY <2>1, <2>2
<1>7. v6 = 0 => v4 = x % IntMod
  BY <1>2 DEF StrtoulInv, ValueInv
<1>8. v6 # 0 => v4 = (x * b) % IntMod
  BY <1>2 DEF StrtoulInv, ValueInv
<1>9. x * b \in Nat /\ v5 * (x * b) = (v5 * x) * b /\ v5 * x \in Int
  BY <1>3, <1>4
<1>10. v6 = 0 => (v4 * v5) % IntMod = U!Number(k) % IntMod
  BY <1>3, <1>5, <1>6, <1>7
<1>11. v6 # 0 => (v4 * v5) % IntMod = (U!Number(k) * U!BaseMeant) % IntMod
  BY <1>3, <1>5, <1>6, <1>8, <1>9
<1> QED BY <1>5, <1>9, <1>10, <1>11 DEF U!Returned

\* strtoul() converts every text that is a number to its value if an int can hold
\* it, for any bound on its length, bases up to 36 and range of the result; it
\* reads nothing behind the end of the text; what is returned for larger numbers
\* and with text behind the number is known, and that *endptr is the first
\* character that is no digit but is not written where there is none.
THEOREM NumbersAreConvertedHolds == SpecAny => []NumbersAreConverted
<1> DEFINE Inv == what = "strtoul" => StrtoulInv
<1>1. InitAny => Inv
  BY StrtoulInit DEF InitAny
<1>2. Inv /\ [NextAny]_<<what, vars, general>> => Inv'
  <2> SUFFICES ASSUME Inv, [NextAny]_<<what, vars, general>>, what' = "strtoul"
               PROVE  StrtoulInv'
    OBVIOUS
  <2>1. CASE NextAny
    <3>1. what = "strtoul" /\ U!Next
      BY <2>1 DEF NextAny
    <3> QED BY <3>1, StrtoulNext
  <2>2. CASE UNCHANGED <<what, vars, general>>
    <3>1. what = "strtoul" /\ UNCHANGED U!vars
      BY <2>2 DEF general, U!vars
    <3> QED BY <3>1, StrtoulNext
  <2> QED BY <2>1, <2>2
<1>3. Inv => NumbersAreConverted
  <2> SUFFICES ASSUME StrtoulInv
               PROVE  /\ U!TypeOK /\ U!ReadsStayInTheText
                      /\ U!IntsAreConverted /\ U!NumberEndsAtEndptr
    BY DEF NumbersAreConverted
  <2>1. U!TypeOK /\ U!ReadsStayInTheText
    BY DEF StrtoulInv, StageInv, U!ReadsStayInTheText
  <2>2. U!Worths \in Seq(Nat) /\ Len(U!Worths) \in Nat /\ Len(U!Worths) = Len(v1) + 1 - FirstDigit
    <3>1. U!Worths \in Seq(Nat) /\ Len(U!Worths) = Len(v1) + 1 - FirstDigit
      BY DigitsAre DEF StrtoulInv
    <3> QED BY <3>1
  <2>3. U!IntsAreConverted
    <3> DEFINE l == Len(U!Worths)
               number == U!Number(l)
    <3> SUFFICES ASSUME v7 = "done", U!EndsAfter(l),
                        number < IntMod \div 2, -number <= IntMod \div 2
                 PROVE  U!Returned = number % ULong
      BY DEF U!IntsAreConverted
    <3>1. l \in 0 .. Len(U!Worths)
      BY <2>2
    <3>2. v6 = 0
      BY <3>1, EndsWhereRead
    <3>3. number \in Int /\ U!Returned = U!SignExtended(number % IntMod)
      BY <3>1, <3>2, WhatIsReturned
    <3> HIDE DEF number
    <3> QED BY <3>3, FitsIntoInt
  <2>4. U!NumberEndsAtEndptr
    <3> SUFFICES ASSUME v7 = "done", NEW k \in 0 .. Len(U!Worths), U!EndsAfter(k)
                 PROVE  IF k = Len(U!Worths)
                        THEN v6 = 0 /\ U!Returned = U!SignExtended(U!Number(k) % IntMod)
                        ELSE /\ v6 = Len(v1) - Len(U!Worths) + k + 1
                             /\ U!Returned
                                  = U!SignExtended((U!Number(k) * U!BaseMeant) % IntMod)
      BY DEF U!NumberEndsAtEndptr
    <3>1. k = v3 - FirstDigit /\ (k = Len(U!Worths) <=> v6 = 0)
      BY EndsWhereRead
    <3>2. v6 # 0 => v6 = Len(v1) - Len(U!Worths) + k + 1
      <4>1. Len(v1) \in Nat /\ v3 \in Nat /\ FirstDigit \in Nat
        BY StrtoulTypes
      <4>2. v6 # 0 => v6 = v3
        BY DEF StrtoulInv, ValueInv
      <4> QED BY <2>2, <3>1, <4>1, <4>2
    <3> QED BY <3>1, <3>2, WhatIsReturned
  <2> QED BY <2>1, <2>3, <2>4
<1> QED BY <1>1, <1>2, <1>3, PTL DEF SpecAny

(***************************************************************************)
(* TtyFormat: v1 is the directives, v2 the length of a string, v3 pc, v4   *)
(* fmt, v5 the accuracy, v6 the arguments taken, v7 s, v8 out.             *)
(***************************************************************************)
\* The characters of a format.
FormatCharacters ==
  {"%", ".", "s", "l"} \cup Flags \cup Simple \cup LongLong \cup Unknown \cup DOMAIN F!Digit

\* The characters of each directive, what each of them means, and what there is
\* of either before the k-th.
Texts == [n \in DOMAIN v1 |-> v1[n].prefix \o v1[n].letter]

Meanings == [n \in DOMAIN v1 |-> F!Meaning(v1[n], F!ArgumentsBefore(n))]

Before(q, k) == F!FlattenSeq(SubSeq(q, 1, k - 1))

\* A prefix p has its width from position e on, which ends before position m.
IsOpening(p, e, m) ==
  /\ p \in Seq(FormatCharacters) /\ m \in e .. Len(p) + 1 /\ p[1] = "%"
  /\ e = 2 \/ (e = 3 /\ p[2] \in Flags)
  /\ \A n \in e .. m - 1 : p[n] \in DOMAIN F!Digit
  /\ m <= Len(p) => p[m] = "."
  /\ \A n \in m + 1 .. Len(p) : p[n] \in DOMAIN F!Digit

\* The digits of the accuracy, before position i.
DigitsBefore(p, m, i) == [n \in 1 .. i - 1 - m |-> F!Digit[p[m + n]]]

\* Only the last directive may be cut off.
AskedInv ==
  /\ v1 \in Seq(F!Directives \cup F!CutOff) /\ v2 \in Nat
  /\ \A n \in 1 .. Len(v1) - 1 : v1[n] \in F!Directives

\* Where the program is in a directive d whose i-th character is the next one.
InDirective(d, i) ==
  /\ v3 = "text" => i = 1
  /\ v3 # "text" => d.prefix # << >>
  /\ v3 = "width" =>
       \E e \in 2 .. 3, m \in 2 .. Len(d.prefix) + 1 :
         IsOpening(d.prefix, e, m) /\ i \in e .. m
  /\ v3 = "accuracy" =>
       \E e \in 2 .. 3, m \in 2 .. Len(d.prefix) + 1 :
         /\ IsOpening(d.prefix, e, m) /\ i \in m .. Len(d.prefix) + 1
         /\ m <= Len(d.prefix) => i > m
         /\ v5 = IF i > m THEN ValueOf(DigitsBefore(d.prefix, m, i), 10) ELSE 0
  /\ v3 = "conversion" => i = Len(d.prefix) + 1 /\ v5 = F!AccuracyOf(d.prefix)
  /\ v3 = "long" => i = Len(d.prefix) + 2 /\ d.letter # << >> /\ d.letter[1] = "l"
  /\ v3 = "longlong" => /\ i = Len(d.prefix) + 3
                        /\ Len(d.letter) > 1 /\ d.letter[1] = "l" /\ d.letter[2] = "l"
  /\ v3 \in {"string", "cut"} =>
       i = Len(d.prefix) + 1 /\ d.letter = <<"s">> /\ v7 <= v2 + 1
  /\ v3 = "string" => F!AccuracyOf(d.prefix) = 0
  /\ v3 = "cut" => F!AccuracyOf(d.prefix) # 0 /\ v5 + v7 = F!AccuracyOf(d.prefix) + 1
  /\ v3 \notin {"end", "beyond"}

\* What was written and taken so far, of the arguments after the n-th.
SoFar(g, n) ==
  IF v3 \in {"string", "cut"}
  THEN v6 = n + 1 /\ v8 = g \o [m \in 1 .. v7 - 1 |-> <<"s", v6, m>>]
  ELSE v6 = n /\ v8 = g

\* The program is in the k-th directive, or behind the last one.
InDirectiveNo(k) ==
  /\ SoFar(Before(Meanings, k), F!ArgumentsBefore(k))
  /\ IF k > Len(v1) THEN /\ IF F!EndsBehindLong THEN v3 = "beyond" ELSE v3 \in {"text", "end"}
                         /\ v4 = Len(Before(Texts, k)) + IF v3 = "beyond" THEN 2 ELSE 1
                    ELSE /\ v4 > Len(Before(Texts, k))
                         /\ InDirective(v1[k], v4 - Len(Before(Texts, k)))

FormatInv == F!TypeOK /\ AskedInv /\ \E k \in 1 .. Len(v1) + 1 : InDirectiveNo(k)

(***************************************************************************)
(* What sequences are one after the other.                                 *)
(***************************************************************************)
IsFlatten(f, q) ==
  f = [n \in 1 .. Len(q) |-> IF n = 1 THEN q[n] ELSE f[n - 1] \o q[n]]

FlattenOf(q) == CHOOSE f : IsFlatten(f, q)

\* The recursive function that puts sequences one after the other exists.
LEMMA FlattenExists ==
  ASSUME NEW Elements, NEW q \in Seq(Seq(Elements))
  PROVE  \E f : IsFlatten(f, q)
<1> DEFINE V == Seq(Elements)
           Part(n) == IF n + 1 <= Len(q) THEN q[n + 1] ELSE << >>
           step == [n \in Nat |-> [v \in V |-> v \o Part(n)]]
<1>1. Len(q) \in Nat /\ \A n \in 1 .. Len(q) : q[n] \in V
  BY ElementOfSeq
<1>2. ASSUME NEW n \in Nat PROVE Part(n) \in V
  <2>1. CASE n + 1 <= Len(q)
    <3>1. n + 1 \in 1 .. Len(q)
      BY <1>1, <2>1
    <3> QED BY <1>1, <2>1, <3>1
  <2>2. CASE ~(n + 1 <= Len(q))
    BY <2>2
  <2> QED BY <2>1, <2>2
<1> HIDE DEF Part
<1>3. step \in [Nat -> [V -> V]] /\ \A n \in Nat : \A v \in V : step[n][v] = v \o Part(n)
  <2>1. ASSUME NEW n \in Nat, NEW v \in V PROVE v \o Part(n) \in V
    BY <1>2, ConcatProperties
  <2> HIDE DEF V
  <2> QED BY <2>1
<1>4. << >> \in V
  OBVIOUS
<1> HIDE DEF step, V
<1>5. PICK g : Computes(g, V, << >>, step)
  BY <1>3, <1>4, AllExist
<1> DEFINE f == [n \in 1 .. Len(q) |-> g[n]]
<1>6. ASSUME NEW n \in 1 .. Len(q)
      PROVE  f[n] = IF n = 1 THEN q[n] ELSE f[n - 1] \o q[n]
  <2>1. n - 1 \in Nat /\ (n - 1) + 1 = n /\ n <= Len(q)
    BY <1>1
  <2>2. g[n] = g[n - 1] \o Part(n - 1) /\ g[n - 1] \in V
    BY <1>3, <1>5, <2>1 DEF Computes
  <2>3. Part(n - 1) = q[n]
    BY <2>1 DEF Part
  <2>4. CASE n = 1
    <3>1. g[n - 1] = << >>
      BY <1>5, <2>4 DEF Computes
    <3>2. << >> \o q[n] = q[n]
      BY <1>1, ConcatEmptySeq DEF V
    <3> QED BY <2>2, <2>3, <2>4, <3>1, <3>2
  <2>5. CASE n # 1
    <3>1. n - 1 \in 1 .. Len(q)
      BY <1>1, <2>5
    <3>2. f[n] = g[n] /\ f[n - 1] = g[n - 1]
      BY <3>1
    <3> QED BY <2>2, <2>3, <2>5, <3>2
  <2> QED BY <2>4, <2>5
<1>7. IsFlatten(f, q)
  BY <1>6 DEF IsFlatten
<1> QED BY <1>7

\* What sequences are up to each of them.
Flattens(f, q, Elements) ==
  /\ f \in [0 .. Len(q) -> Seq(Elements)] /\ f[0] = << >>
  /\ \A n \in 1 .. Len(q) : f[n] = f[n - 1] \o q[n]
  /\ F!FlattenSeq(q) = f[Len(q)]

\* The equations of that function, and that its last value is FlattenSeq().
LEMMA FlattenIs ==
  ASSUME NEW Elements, NEW q \in Seq(Seq(Elements))
  PROVE  \E f : Flattens(f, q, Elements)
<1> DEFINE g == FlattenOf(q)
           f == [n \in 0 .. Len(q) |-> IF n = 0 THEN << >> ELSE g[n]]
<1>1. Len(q) \in Nat /\ \A n \in 1 .. Len(q) : q[n] \in Seq(Elements)
  BY ElementOfSeq
<1>2. F!FlattenSeq(q) = IF Len(q) = 0 THEN q ELSE g[Len(q)]
  BY DEF F!FlattenSeq, FlattenOf, IsFlatten
<1>3. IsFlatten(g, q)
  BY FlattenExists DEF FlattenOf
<1> HIDE DEF g
<1>4. \A n \in 1 .. Len(q) : g[n] = IF n = 1 THEN q[n] ELSE g[n - 1] \o q[n]
  BY <1>3 DEF IsFlatten
<1>5. f[0] = << >> /\ \A n \in 1 .. Len(q) : f[n] = g[n]
  BY <1>1
<1>6. \A n \in 1 .. Len(q) : f[n] = f[n - 1] \o q[n]
  <2> HIDE DEF f
  <2> TAKE n \in 1 .. Len(q)
  <2>1. CASE n = 1
    <3>1. f[n - 1] = << >> /\ << >> \o q[n] = q[n]
      BY <1>1, <1>5, <2>1, ConcatEmptySeq
    <3> QED BY <1>4, <1>5, <2>1, <3>1
  <2>2. CASE n # 1
    <3>1. n - 1 \in 1 .. Len(q)
      BY <1>1, <2>2
    <3> QED BY <1>4, <1>5, <2>2, <3>1
  <2> QED BY <2>1, <2>2
<1>7. F!FlattenSeq(q) = f[Len(q)]
  <2>1. CASE Len(q) = 0
    <3>1. q = << >>
      BY <2>1
    <3> QED BY <1>2, <1>5, <2>1, <3>1
  <2>2. CASE Len(q) # 0
    <3>1. Len(q) \in 1 .. Len(q)
      BY <1>1, <2>2
    <3> QED BY <1>2, <1>5, <2>2, <3>1
  <2> QED BY <2>1, <2>2
<1>8. DOMAIN f = 0 .. Len(q) /\ f = [n \in 0 .. Len(q) |-> f[n]]
  OBVIOUS
<1> HIDE DEF f
<1>9. \A n \in 0 .. Len(q) : f[n] \in Seq(Elements)
  <2> DEFINE Bad == {n \in Nat : n <= Len(q) /\ f[n] \notin Seq(Elements)}
  <2>1. SUFFICES ASSUME Bad # {} PROVE FALSE
    BY <1>1
  <2>2. PICK m \in Bad : \A k \in Bad : m <= k
    <3>1. Bad \in SUBSET Nat
      OBVIOUS
    <3> HIDE DEF Bad
    <3> QED BY <2>1, <3>1, LeastOf
  <2>3. m # 0
    <3>1. f[0] \in Seq(Elements)
      BY <1>5, EmptySeq
    <3> QED BY <3>1
  <2>4. m \in 1 .. Len(q) /\ m - 1 \in Nat /\ f[m - 1] \in Seq(Elements)
    BY <1>1, <2>2, <2>3
  <2>5. f[m] = f[m - 1] \o q[m] /\ q[m] \in Seq(Elements)
    BY <1>1, <1>6, <2>4
  <2>6. f[m] \in Seq(Elements)
    BY <2>4, <2>5, ConcatProperties
  <2> QED BY <2>6
<1>10. f \in [0 .. Len(q) -> Seq(Elements)]
  BY <1>8, <1>9
<1>11. Flattens(f, q, Elements)
  BY <1>5, <1>6, <1>7, <1>10 DEF Flattens
<1> QED BY <1>11

\* The first k sequences, one after the other.
LEMMA FlattenOfFirst ==
  ASSUME NEW Elements, NEW q \in Seq(Seq(Elements)), NEW f, Flattens(f, q, Elements),
         NEW k \in Nat, k <= Len(q)
  PROVE  F!FlattenSeq(SubSeq(q, 1, k)) = f[k]
<1> DEFINE u == SubSeq(q, 1, k)
<1>1. u \in Seq(Seq(Elements)) /\ Len(u) = k /\ \A n \in 1 .. k : u[n] = q[n]
  <2>1. \A n \in 1 .. k : q[n] \in Seq(Elements)
    <3> TAKE n \in 1 .. k
    <3>1. n \in 1 .. Len(q)
      OBVIOUS
    <3> QED BY <3>1, ElementOfSeq
  <2>2. /\ u \in Seq(Seq(Elements)) /\ Len(u) = IF 1 <= k THEN k - 1 + 1 ELSE 0
        /\ \A n \in 1 .. k - 1 + 1 : u[n] = q[1 + n - 1]
    BY <2>1, SubSeqProperties
  <2> HIDE DEF u
  <2> QED BY <2>2
<1> HIDE DEF u
<1>2. PICK g : Flattens(g, u, Elements)
  BY <1>1, FlattenIs
<1>3. /\ g[0] = << >> /\ \A n \in 1 .. k : g[n] = g[n - 1] \o u[n]
      /\ F!FlattenSeq(u) = g[k]
  BY <1>1, <1>2 DEF Flattens
<1>4. f[0] = << >> /\ \A n \in 1 .. Len(q) : f[n] = f[n - 1] \o q[n]
  BY DEF Flattens
<1>5. Len(q) \in Nat
  OBVIOUS
<1>6. f[k] = g[k]
  <2> DEFINE Bad == {n \in Nat : n <= k /\ f[n] # g[n]}
  <2>1. SUFFICES ASSUME Bad # {} PROVE FALSE
    OBVIOUS
  <2>2. PICK m \in Bad : \A n \in Bad : m <= n
    <3>1. Bad \in SUBSET Nat
      OBVIOUS
    <3> HIDE DEF Bad
    <3> QED BY <2>1, <3>1, LeastOf
  <2>3. m # 0
    BY <1>3, <1>4
  <2>4. m \in 1 .. k /\ m \in 1 .. Len(q) /\ m - 1 \in Nat /\ f[m - 1] = g[m - 1]
    BY <1>5, <2>2, <2>3
  <2>5. f[m] = f[m - 1] \o q[m] /\ g[m] = g[m - 1] \o u[m] /\ u[m] = q[m]
    BY <1>1, <1>3, <1>4, <2>4
  <2> QED BY <2>2, <2>4, <2>5
<1> QED BY <1>3, <1>6 DEF u

\* What is before each of some sequences: nothing, and then one more of them
\* at a time.
LEMMA BeforeIs ==
  ASSUME NEW Elements, NEW q \in Seq(Seq(Elements))
  PROVE  /\ Before(q, 1) = << >> /\ Before(q, Len(q) + 1) = F!FlattenSeq(q)
         /\ \A k \in 1 .. Len(q) + 1 : Before(q, k) \in Seq(Elements)
         /\ \A k \in 1 .. Len(q) : Before(q, k + 1) = Before(q, k) \o q[k]
<1>1. PICK f : Flattens(f, q, Elements)
  BY FlattenIs
<1>2. Len(q) \in Nat
  OBVIOUS
<1>3. ASSUME NEW k \in 1 .. Len(q) + 1 PROVE Before(q, k) = f[k - 1]
  <2>1. k - 1 \in Nat /\ k - 1 <= Len(q)
    BY <1>2
  <2> QED BY <1>1, <2>1, FlattenOfFirst DEF Before
<1>4. Before(q, 1) = << >>
  <2>1. 1 \in 1 .. Len(q) + 1 /\ 1 - 1 = 0
    BY <1>2
  <2>2. Before(q, 1) = f[1 - 1]
    BY <1>3, <2>1
  <2> QED BY <1>1, <2>1, <2>2 DEF Flattens
<1>5. Before(q, Len(q) + 1) = F!FlattenSeq(q)
  <2>1. Len(q) + 1 \in 1 .. Len(q) + 1 /\ Len(q) + 1 - 1 = Len(q)
    BY <1>2
  <2>2. Before(q, Len(q) + 1) = f[Len(q) + 1 - 1]
    BY <1>3, <2>1
  <2> QED BY <1>1, <2>1, <2>2 DEF Flattens
<1>6. ASSUME NEW k \in 1 .. Len(q) + 1 PROVE Before(q, k) \in Seq(Elements)
  <2>1. k - 1 \in 0 .. Len(q)
    BY <1>2
  <2> QED BY <1>1, <1>3, <2>1 DEF Flattens
<1>7. ASSUME NEW k \in 1 .. Len(q) PROVE Before(q, k + 1) = Before(q, k) \o q[k]
  <2>1. k \in 1 .. Len(q) + 1 /\ k + 1 \in 1 .. Len(q) + 1 /\ k + 1 - 1 = k
    BY <1>2
  <2>2. Before(q, k + 1) = f[k + 1 - 1] /\ Before(q, k) = f[k - 1]
    BY <1>3, <2>1
  <2>3. f[k] = f[k - 1] \o q[k]
    BY <1>1 DEF Flattens
  <2> QED BY <2>1, <2>2, <2>3
<1> QED BY <1>4, <1>5, <1>6, <1>7

\* What was before stays where it was.
LEMMA BeforeStays ==
  ASSUME NEW Elements, NEW q \in Seq(Seq(Elements)),
         NEW k \in 1 .. Len(q) + 1, NEW j \in k .. Len(q) + 1
  PROVE  /\ Len(Before(q, k)) <= Len(Before(q, j))
         /\ \A n \in 1 .. Len(Before(q, k)) : Before(q, j)[n] = Before(q, k)[n]
<1> DEFINE Good(i) == /\ Len(Before(q, k)) <= Len(Before(q, i))
                      /\ \A n \in 1 .. Len(Before(q, k)) : Before(q, i)[n] = Before(q, k)[n]
           Bad == {i \in Nat : k <= i /\ i <= Len(q) + 1 /\ ~Good(i)}
<1>1. /\ \A i \in 1 .. Len(q) + 1 : Before(q, i) \in Seq(Elements)
      /\ \A i \in 1 .. Len(q) : Before(q, i + 1) = Before(q, i) \o q[i]
      /\ Len(q) \in Nat /\ k \in Nat /\ k >= 1
  BY BeforeIs
<1>2. Len(Before(q, k)) \in Nat
  BY <1>1
<1>3. SUFFICES ASSUME Bad # {} PROVE FALSE
  BY <1>1
<1>4. PICK m \in Bad : \A i \in Bad : m <= i
  <2>1. Bad \in SUBSET Nat
    OBVIOUS
  <2> HIDE DEF Bad
  <2> QED BY <1>3, <2>1, LeastOf
<1>5. m # k
  BY <1>2, <1>4
<1>6. m - 1 \in Nat /\ k <= m - 1 /\ m - 1 \in 1 .. Len(q) /\ m - 1 + 1 = m
  BY <1>1, <1>4, <1>5
<1>7. Good(m - 1)
  BY <1>1, <1>4, <1>6
<1>8. Before(q, m) = Before(q, m - 1) \o q[m - 1]
  BY <1>1, <1>6
<1>9. Before(q, m - 1) \in Seq(Elements) /\ q[m - 1] \in Seq(Elements)
  BY <1>1, <1>6, ElementOfSeq
<1> DEFINE a == Before(q, m - 1)
           b == q[m - 1]
<1>10. /\ Len(a \o b) = Len(a) + Len(b)
       /\ \A n \in 1 .. Len(a) + Len(b) : (a \o b)[n] = IF n <= Len(a) THEN a[n] ELSE b[n - Len(a)]
  BY <1>9, ConcatProperties
<1>11. Len(a) \in Nat /\ Len(b) \in Nat
  BY <1>9
<1>12. Good(m)
  <2>1. /\ Len(Before(q, k)) <= Len(a)
        /\ \A n \in 1 .. Len(Before(q, k)) : a[n] = Before(q, k)[n]
    BY <1>7
  <2>2. Before(q, m) = a \o b
    BY <1>8
  <2> HIDE DEF a, b
  <2>3. Len(Before(q, k)) <= Len(Before(q, m))
    BY <1>2, <1>10, <1>11, <2>1, <2>2
  <2>4. \A n \in 1 .. Len(Before(q, k)) : Before(q, m)[n] = Before(q, k)[n]
    <3> TAKE n \in 1 .. Len(Before(q, k))
    <3>1. n \in 1 .. Len(a) + Len(b) /\ n <= Len(a)
      BY <1>2, <1>11, <2>1
    <3> QED BY <1>10, <2>1, <2>2, <3>1
  <2> QED BY <2>3, <2>4
<1> QED BY <1>4, <1>12

(***************************************************************************)
(* The directives of a format, and its characters.                         *)
(***************************************************************************)
LEMMA FormatFacts ==
  /\ Numbers \subseteq Seq(DOMAIN F!Digit) /\ Lengths \subseteq Nat /\ MaxDirectives \in Nat
  /\ \A c \in DOMAIN F!Digit : F!Digit[c] \in Nat /\ c \notin Flags /\ c \notin {".", "%", "NUL"}
  /\ \A c \in Flags : c \notin {".", "%", "NUL"}
  /\ \A c \in Simple \cup LongLong \cup Unknown \cup {"s", "l", "%"} :
       c \notin Flags /\ c \notin DOMAIN F!Digit /\ c \notin {".", "NUL"}
  /\ \A c \in Simple : c \notin {"s", "l", "%"}
  /\ \A c \in Unknown : c \notin Simple /\ c \notin LongLong /\ c \notin {"s", "l", "%"}
  /\ "NUL" \notin FormatCharacters
<1>1. /\ Simple \subseteq {"c", "u", "d", "p", "X", "x"}
      /\ LongLong \subseteq {"d", "u", "x"} /\ Flags \subseteq {"+", "-", "#"}
      /\ Numbers \subseteq Seq(DOMAIN F!Digit)
      /\ \A c \in Unknown :
           c \notin {"NUL", "%", "+", "-", "#", ".", "s", "l",
                     "c", "u", "d", "p", "X", "x"} \cup DOMAIN F!Digit
      /\ MaxDirectives \in Nat /\ Lengths \subseteq Nat
  BY SequentialAssumption DEF F!TtyFormatAssumption
<1>2. DOMAIN F!Digit = {"0", "1", "2"} /\ \A c \in DOMAIN F!Digit : F!Digit[c] \in Nat
  BY DEF F!Digit
<1>3. \A c \in DOMAIN F!Digit : c \notin Flags /\ c \notin {".", "%", "NUL"}
  BY <1>1, <1>2
<1>4. \A c \in Flags : c \notin {".", "%", "NUL"}
  BY <1>1
<1>5. ASSUME NEW c \in Simple \cup LongLong \cup {"s", "l", "%"}
      PROVE  c \notin Flags /\ c \notin DOMAIN F!Digit /\ c \notin {".", "NUL"}
  <2>1. c \in {"c", "u", "d", "p", "X", "x", "s", "l", "%"}
    BY <1>1
  <2> QED BY <1>1, <1>2, <2>1
<1>6. ASSUME NEW c \in Unknown
      PROVE  c \notin Flags /\ c \notin DOMAIN F!Digit /\ c \notin {".", "NUL"}
  BY <1>1, <1>2
<1>7. \A c \in Simple : c \notin {"s", "l", "%"}
  BY <1>1
<1>8. \A c \in Unknown : c \notin Simple /\ c \notin LongLong /\ c \notin {"s", "l", "%"}
  BY <1>1
<1>9. "NUL" \notin FormatCharacters
  BY <1>1, <1>2 DEF FormatCharacters
<1> QED BY <1>1, <1>2, <1>3, <1>4, <1>5, <1>6, <1>7, <1>8, <1>9

\* The shape of a prefix.
LEMMA OpeningIs ==
  ASSUME NEW p \in F!Openings
  PROVE  \E e \in 2 .. 3, m \in 2 .. Len(p) + 1 : IsOpening(p, e, m)
<1> DEFINE K == FormatCharacters
<1>1. PICK f \in {<< >>} \cup {<<c>> : c \in Flags}, w \in Numbers, x \in F!Dots :
        p = <<"%">> \o f \o w \o x
  <2>1. \E f \in {<< >>} \cup {<<c>> : c \in Flags}, w \in Numbers, x \in F!Dots :
          p = F!Opening(f, w, x)
    BY DEF F!Openings
  <2> QED BY <2>1 DEF F!Opening
<1>2. /\ Flags \subseteq K /\ DOMAIN F!Digit \subseteq K /\ "%" \in K /\ "." \in K
  BY DEF FormatCharacters
<1>3. f \in Seq(K) /\ (f = << >> \/ (Len(f) = 1 /\ f[1] \in Flags))
  <2>1. CASE f = << >>
    BY <2>1, EmptySeq
  <2>2. CASE f # << >>
    <3>1. PICK c \in Flags : f = <<c>>
      BY <2>2
    <3>2. <<c>> \in Seq(K) /\ Len(<<c>>) = 1 /\ <<c>>[1] = c
      BY <1>2
    <3> QED BY <3>1, <3>2
  <2> QED BY <2>1, <2>2
<1>4. w \in Seq(K) /\ Len(w) \in Nat /\ \A n \in 1 .. Len(w) : w[n] \in DOMAIN F!Digit
  <2>1. w \in Seq(DOMAIN F!Digit)
    BY FormatFacts
  <2> QED BY <1>2, <2>1, SeqMonotonic, ElementOfSeq
<1>5. x \in Seq(K) /\ (x = << >> \/ /\ Len(x) > 0 /\ x[1] = "."
                                    /\ \A n \in 2 .. Len(x) : x[n] \in DOMAIN F!Digit)
  <2>1. CASE x = << >>
    BY <2>1, EmptySeq
  <2>2. CASE x # << >>
    <3>1. PICK n \in Numbers : x = <<".">> \o n
      BY <2>2 DEF F!Dots
    <3>2. n \in Seq(DOMAIN F!Digit) /\ n \in Seq(K)
      <4>1. n \in Seq(DOMAIN F!Digit)
        BY FormatFacts
      <4> QED BY <1>2, <4>1, SeqMonotonic
    <3> DEFINE y == <<".">>
    <3>3. y \in Seq(K) /\ Len(y) = 1 /\ y[1] = "."
      BY <1>2
    <3> HIDE DEF y, K
    <3>4. /\ y \o n \in Seq(K) /\ Len(y \o n) = Len(y) + Len(n)
          /\ \A j \in 1 .. Len(y) + Len(n) :
               (y \o n)[j] = IF j <= Len(y) THEN y[j] ELSE n[j - Len(y)]
      BY <3>2, <3>3, ConcatProperties
    <3>5. x = y \o n
      BY <3>1 DEF y
    <3>6. Len(n) \in Nat
      BY <3>2
    <3>7. ASSUME NEW j \in 2 .. Len(x) PROVE x[j] \in DOMAIN F!Digit
      <4>1. j \in 1 .. Len(y) + Len(n) /\ ~(j <= Len(y)) /\ j - Len(y) \in 1 .. Len(n)
        BY <3>3, <3>4, <3>5, <3>6
      <4>2. x[j] = n[j - Len(y)]
        BY <3>4, <3>5, <4>1
      <4> QED BY <3>2, <4>1, <4>2, ElementOfSeq
    <3>8. x \in Seq(K) /\ Len(x) > 0 /\ x[1] = "."
      <4>1. 1 \in 1 .. Len(y) + Len(n) /\ 1 <= Len(y)
        BY <3>3, <3>6
      <4> QED BY <3>3, <3>4, <3>5, <3>6, <4>1
    <3> QED BY <3>7, <3>8
  <2> QED BY <2>1, <2>2
<1> DEFINE y == <<"%">>
           a == y \o f
           b == a \o w
<1>6. y \in Seq(K) /\ Len(y) = 1 /\ y[1] = "%"
  BY <1>2
<1> HIDE DEF y, K
<1>7. /\ a \in Seq(K) /\ Len(a) = Len(y) + Len(f)
      /\ \A j \in 1 .. Len(y) + Len(f) : a[j] = IF j <= Len(y) THEN y[j] ELSE f[j - Len(y)]
  BY <1>3, <1>6, ConcatProperties
<1>71. a \in Seq(K)
  BY <1>7
<1>8. p = b \o x
  BY <1>1 DEF y
<1> HIDE DEF a
<1>9. /\ b \in Seq(K) /\ Len(b) = Len(a) + Len(w)
      /\ \A j \in 1 .. Len(a) + Len(w) : b[j] = IF j <= Len(a) THEN a[j] ELSE w[j - Len(a)]
  BY <1>4, <1>71, ConcatProperties
<1> HIDE DEF b
<1>91. b \in Seq(K)
  BY <1>9
<1>10. /\ p \in Seq(K) /\ Len(p) = Len(b) + Len(x)
       /\ \A j \in 1 .. Len(b) + Len(x) : p[j] = IF j <= Len(b) THEN b[j] ELSE x[j - Len(b)]
  BY <1>5, <1>8, <1>91, ConcatProperties
<1>11. Len(f) \in {0, 1} /\ Len(w) \in Nat /\ Len(x) \in Nat /\ Len(a) = 1 + Len(f)
  BY <1>3, <1>4, <1>5, <1>6, <1>7
<1> DEFINE e == Len(a) + 1
           m == Len(b) + 1
<1>12. /\ e \in 2 .. 3 /\ m \in 2 .. Len(p) + 1 /\ m \in e .. Len(p) + 1
       /\ e = 2 <=> Len(f) = 0
  <2>1. Len(b) = Len(a) + Len(w) /\ Len(p) = Len(b) + Len(x)
    BY <1>9, <1>10
  <2>2. PICK l1, l2, l3, l4, l5 : /\ l1 = Len(a) /\ l2 = Len(b) /\ l3 = Len(p)
                                  /\ l4 = Len(w) /\ l5 = Len(x)
    OBVIOUS
  <2>3. l1 \in {1, 2} /\ l4 \in Nat /\ l5 \in Nat /\ l2 = l1 + l4 /\ l3 = l2 + l5
    <3>1. l1 \in {1, 2}
      <4>1. CASE Len(f) = 0
        BY <1>11, <2>2, <4>1
      <4>2. CASE Len(f) = 1
        BY <1>11, <2>2, <4>2
      <4> QED BY <1>11, <4>1, <4>2
    <3>2. l4 \in Nat /\ l5 \in Nat
      BY <1>11, <2>2
    <3>3. l2 = l1 + l4 /\ l3 = l2 + l5
      BY <2>1, <2>2
    <3> QED BY <3>1, <3>2, <3>3
  <2>4. (l1 + 1 = 2) <=> (Len(f) = 0)
    BY <1>11, <2>2
  <2>5. l1 + 1 \in 2 .. 3 /\ l2 + 1 \in 2 .. l3 + 1 /\ l2 + 1 \in l1 + 1 .. l3 + 1
    BY <2>3
  <2> QED BY <2>2, <2>4, <2>5
<1>13. p[1] = "%"
  <2>1. 1 \in 1 .. Len(b) + Len(x) /\ 1 <= Len(b) /\ 1 \in 1 .. Len(a) + Len(w) /\ 1 <= Len(a)
        /\ 1 \in 1 .. Len(y) + Len(f) /\ 1 <= Len(y)
    BY <1>6, <1>9, <1>11
  <2> QED BY <1>6, <1>7, <1>9, <1>10, <2>1
<1>14. e = 3 => p[2] \in Flags
  <2> SUFFICES ASSUME Len(f) = 1 PROVE p[2] \in Flags
    BY <1>11, <1>12
  <2>1. /\ 2 \in 1 .. Len(b) + Len(x) /\ 2 <= Len(b) /\ 2 \in 1 .. Len(a) + Len(w)
        /\ 2 <= Len(a) /\ 2 \in 1 .. Len(y) + Len(f) /\ ~(2 <= Len(y)) /\ 2 - Len(y) = 1
    BY <1>6, <1>9, <1>11
  <2>2. f[1] \in Flags
    BY <1>3
  <2> QED BY <1>7, <1>9, <1>10, <2>1, <2>2
<1>15. ASSUME NEW n \in e .. m - 1 PROVE p[n] \in DOMAIN F!Digit
  <2>1. /\ n \in 1 .. Len(b) + Len(x) /\ n <= Len(b) /\ n \in 1 .. Len(a) + Len(w)
        /\ ~(n <= Len(a)) /\ n - Len(a) \in 1 .. Len(w)
    BY <1>9, <1>11
  <2> QED BY <1>4, <1>9, <1>10, <2>1
<1>16. ASSUME m <= Len(p) PROVE p[m] = "."
  <2>1. Len(x) > 0 /\ m \in 1 .. Len(b) + Len(x) /\ ~(m <= Len(b)) /\ m - Len(b) = 1
    BY <1>9, <1>10, <1>11, <1>16
  <2>2. x[1] = "."
    BY <1>5, <2>1
  <2> QED BY <1>10, <2>1, <2>2
<1>17. ASSUME NEW n \in m + 1 .. Len(p) PROVE p[n] \in DOMAIN F!Digit
  <2>1. /\ Len(x) > 0 /\ n \in 1 .. Len(b) + Len(x) /\ ~(n <= Len(b))
        /\ n - Len(b) \in 2 .. Len(x)
    BY <1>9, <1>10, <1>11
  <2>2. x[n - Len(b)] \in DOMAIN F!Digit
    BY <1>5, <2>1
  <2> QED BY <1>10, <2>1, <2>2
<1> HIDE DEF e, m
<1>18. IsOpening(p, e, m)
  BY <1>10, <1>12, <1>13, <1>14, <1>15, <1>16, <1>17 DEF IsOpening, K
<1> QED BY <1>12, <1>18

\* The accuracy is what the digits behind the dot are worth.
LEMMA AccuracyIs ==
  ASSUME NEW p, NEW e \in 2 .. 3, NEW m \in 2 .. Len(p) + 1, IsOpening(p, e, m)
  PROVE  /\ Len(p) \in Nat /\ F!AccuracyOf(p) \in Nat
         /\ \A i \in m + 1 .. Len(p) + 1 : DigitsBefore(p, m, i) \in Seq(Nat)
         /\ \A i \in m + 1 .. Len(p) :
              DigitsBefore(p, m, i + 1) = Append(DigitsBefore(p, m, i), F!Digit[p[i]])
         /\ DigitsBefore(p, m, m + 1) = << >>
         /\ F!AccuracyOf(p) = IF m > Len(p) THEN 0
                              ELSE ValueOf(DigitsBefore(p, m, Len(p) + 1), 10)
<1>1. /\ p \in Seq(FormatCharacters) /\ Len(p) \in Nat /\ m \in e .. Len(p) + 1 /\ p[1] = "%"
      /\ e = 2 \/ (e = 3 /\ p[2] \in Flags)
      /\ \A n \in e .. m - 1 : p[n] \in DOMAIN F!Digit
      /\ m <= Len(p) => p[m] = "."
      /\ \A n \in m + 1 .. Len(p) : p[n] \in DOMAIN F!Digit
  BY DEF IsOpening
<1>2. m \in Nat /\ m >= 2 /\ DOMAIN p = 1 .. Len(p)
  BY <1>1
<1>3. \A n \in m + 1 .. Len(p) : F!Digit[p[n]] \in Nat
  BY <1>1, FormatFacts
<1>4. ASSUME NEW i \in m + 1 .. Len(p) + 1
      PROVE  /\ DigitsBefore(p, m, i) \in Seq(Nat) /\ Len(DigitsBefore(p, m, i)) = i - 1 - m
             /\ \A n \in 1 .. i - 1 - m : DigitsBefore(p, m, i)[n] = F!Digit[p[m + n]]
  <2>1. i - 1 - m \in Nat
    BY <1>1, <1>2
  <2>2. \A n \in 1 .. i - 1 - m : F!Digit[p[m + n]] \in Nat
    <3> TAKE n \in 1 .. i - 1 - m
    <3>1. m + n \in m + 1 .. Len(p)
      BY <1>1, <1>2
    <3> QED BY <1>3, <3>1
  <2> DEFINE D == [n \in 1 .. i - 1 - m |-> F!Digit[p[m + n]]]
  <2>3. D \in [1 .. i - 1 - m -> Nat] /\ \A n \in 1 .. i - 1 - m : D[n] = F!Digit[p[m + n]]
    BY <2>2
  <2>4. DigitsBefore(p, m, i) = D
    BY DEF DigitsBefore
  <2> HIDE DEF D
  <2>5. PICK l \in Nat : l = i - 1 - m
    BY <2>1
  <2>6. D \in [1 .. l -> Nat]
    BY <2>3, <2>5
  <2>7. D \in Seq(Nat) /\ Len(D) = l
    BY <2>5, <2>6
  <2> QED BY <2>3, <2>4, <2>5, <2>7
<1>5. ASSUME NEW i \in m + 1 .. Len(p)
      PROVE  DigitsBefore(p, m, i + 1) = Append(DigitsBefore(p, m, i), F!Digit[p[i]])
  <2>0. PICK k \in Int : k = i + 1
    BY <1>2
  <2> DEFINE a == DigitsBefore(p, m, k)
             b == DigitsBefore(p, m, i)
             c == Append(b, F!Digit[p[i]])
  <2>1. i \in m + 1 .. Len(p) + 1 /\ k \in m + 1 .. Len(p) + 1
    BY <1>1, <1>2, <2>0
  <2>2. /\ a \in Seq(Nat) /\ Len(a) = k - 1 - m
        /\ \A n \in 1 .. k - 1 - m : a[n] = F!Digit[p[m + n]]
    BY <1>4, <2>1
  <2>3. /\ b \in Seq(Nat) /\ Len(b) = i - 1 - m
        /\ \A n \in 1 .. i - 1 - m : b[n] = F!Digit[p[m + n]]
    BY <1>4, <2>1
  <2>4. F!Digit[p[i]] \in Nat
    BY <1>3
  <2> HIDE DEF a, b
  <2>5. /\ c \in Seq(Nat) /\ Len(c) = Len(b) + 1 /\ c[Len(b) + 1] = F!Digit[p[i]]
        /\ \A n \in 1 .. Len(b) : c[n] = b[n]
    BY <2>3, <2>4
  <2> HIDE DEF c
  <2>6. i - m \in Nat /\ Len(b) = i - m - 1 /\ Len(a) = i - m
    BY <1>1, <1>2, <2>0, <2>2, <2>3
  <2>7. Len(c) = Len(a)
    BY <2>5, <2>6
  <2>8. ASSUME NEW n \in 1 .. Len(a) PROVE a[n] = c[n]
    <3>1. a[n] = F!Digit[p[m + n]]
      BY <2>2, <2>6
    <3>2. CASE n = Len(b) + 1
      <4>1. m + n = i
        BY <1>1, <1>2, <2>6, <3>2
      <4> QED BY <2>5, <3>1, <3>2, <4>1
    <3>3. CASE n # Len(b) + 1
      <4>1. n \in 1 .. Len(b) /\ n \in 1 .. i - 1 - m
        BY <1>1, <1>2, <2>6, <3>3
      <4> QED BY <2>3, <2>5, <3>1, <4>1
    <3> QED BY <3>2, <3>3
  <2>9. a = c
    BY <2>2, <2>5, <2>7, <2>8, SeqEqual
  <2> QED BY <2>0, <2>9 DEF a, b, c
<1>6. DigitsBefore(p, m, m + 1) = << >>
  <2>1. m + 1 - 1 - m = 0
    BY <1>2
  <2>2. DigitsBefore(p, m, m + 1) = [n \in 1 .. 0 |-> F!Digit[p[m + n]]]
    BY <2>1 DEF DigitsBefore
  <2> QED BY <2>2
<1>7. ASSUME NEW n \in DOMAIN p PROVE p[n] = "." <=> n = m
  <2>1. n \in 1 .. Len(p)
    BY <1>2
  <2>2. CASE n = m
    BY <1>1, <2>1, <2>2
  <2>3. CASE n < m
    <3>1. n = 1 \/ (n = 2 /\ e = 3) \/ n \in e .. m - 1
      <4>1. n \in Nat /\ n >= 1 /\ n <= m - 1 /\ (e = 2 \/ e = 3)
        BY <1>2, <2>1, <2>3
      <4> QED BY <1>2, <4>1
    <3>2. p[n] = "%" \/ p[n] \in Flags \/ p[n] \in DOMAIN F!Digit
      BY <1>1, <3>1
    <3> QED BY <2>3, <1>2, <2>1, <3>2, FormatFacts
  <2>4. CASE n > m
    <3>1. n \in m + 1 .. Len(p)
      BY <1>2, <2>1, <2>4
    <3> QED BY <1>1, <1>2, <2>1, <2>4, <3>1, FormatFacts
  <2> QED BY <1>2, <2>1, <2>2, <2>3, <2>4
<1> DEFINE dots == {n \in DOMAIN p : p[n] = "."}
<1>8. F!AccuracyOf(p) = IF dots = {} THEN 0
        ELSE ValueOf([n \in 1 .. Len(p) - F!Max(dots) |-> F!Digit[p[F!Max(dots) + n]]], 10)
  <2>1. \A s, b : F!ValueOf(s, b) = ValueOf(s, b)
    BY DEF F!ValueOf, F!RaisedTo, ValueOf, RaisedTo
  <2> QED BY <2>1 DEF F!AccuracyOf
<1>9. dots = IF m > Len(p) THEN {} ELSE {m}
  BY <1>1, <1>2, <1>7
<1> HIDE DEF dots
<1>10. CASE m > Len(p)
  BY <1>1, <1>4, <1>5, <1>6, <1>8, <1>9, <1>10
<1>11. CASE ~(m > Len(p))
  <2>1. dots = {m}
    BY <1>9, <1>11
  <2>2. F!Max(dots) = m
    BY <1>2, <2>1 DEF F!Max
  <2>3. Len(p) - m = Len(p) + 1 - 1 - m
    <3>1. \A l, k \in Nat : l - k = l + 1 - 1 - k
      OBVIOUS
    <3>2. Len(p) \in Nat /\ m \in Nat
      BY <1>1, <1>2
    <3> QED BY <3>1, <3>2
  <2>4. F!AccuracyOf(p) = ValueOf(DigitsBefore(p, m, Len(p) + 1), 10)
    <3>1. F!AccuracyOf(p)
            = ValueOf([n \in 1 .. Len(p) - F!Max(dots) |-> F!Digit[p[F!Max(dots) + n]]], 10)
      BY <1>8, <2>1
    <3>2. F!AccuracyOf(p) = ValueOf([n \in 1 .. Len(p) - m |-> F!Digit[p[m + n]]], 10)
      BY <2>2, <3>1
    <3>3. F!AccuracyOf(p) = ValueOf([n \in 1 .. Len(p) + 1 - 1 - m |-> F!Digit[p[m + n]]], 10)
      BY <2>3, <3>2
    <3> QED BY <3>3 DEF DigitsBefore
  <2>5. Len(p) + 1 \in m + 1 .. Len(p) + 1
    BY <1>1, <1>2, <1>11
  <2>6. DigitsBefore(p, m, Len(p) + 1) \in Seq(Nat)
    BY <1>4, <2>5
  <2>7. F!AccuracyOf(p) \in Nat
    <3>1. 10 \in Nat /\ 0 \in Nat
      OBVIOUS
    <3> QED BY <2>4, <2>6, <3>1, ValueOfAppend
  <2> QED BY <1>1, <1>4, <1>5, <1>6, <1>11, <2>4, <2>7
<1> QED BY <1>10, <1>11

\* Tuples of one, two and three elements.
LEMMA TuplesAre ==
  ASSUME NEW Elements, NEW a \in Elements, NEW b \in Elements, NEW c \in Elements
  PROVE  /\ <<a>> \in Seq(Elements) /\ Len(<<a>>) = 1 /\ <<a>>[1] = a
         /\ <<a, b>> \in Seq(Elements) /\ Len(<<a, b>>) = 2 /\ <<a, b>>[1] = a /\ <<a, b>>[2] = b
         /\ <<a, b, c>> \in Seq(Elements) /\ Len(<<a, b, c>>) = 3
         /\ <<a, b, c>>[1] = a /\ <<a, b, c>>[2] = b /\ <<a, b, c>>[3] = c
  OBVIOUS

\* The letters of a conversion.
LEMMA LettersAre ==
  ASSUME NEW x \in F!Letters
  PROVE  /\ x \in Seq(FormatCharacters) /\ Len(x) \in 1 .. 3
         /\ Len(x) = 1 => x = <<x[1]>> /\ x[1] \in Simple \cup {"s", "%"} \cup Unknown
         /\ Len(x) = 2 => x = <<"l", x[2]>> /\ x[1] = "l" /\ x[2] \in Unknown
         /\ Len(x) = 3 => /\ x = <<"l", "l", x[3]>> /\ x[1] = "l" /\ x[2] = "l"
                          /\ x[3] \in LongLong \cup Unknown
<1>1. \/ x \in {<<c>> : c \in Simple \cup {"s", "%"} \cup Unknown}
      \/ x \in {<<"l", c>> : c \in Unknown}
      \/ x \in {<<"l", "l", c>> : c \in LongLong \cup Unknown}
  BY DEF F!Letters
<1>2. Simple \cup {"s", "%", "l"} \cup Unknown \cup LongLong \subseteq FormatCharacters
  BY DEF FormatCharacters
<1>3. CASE x \in {<<c>> : c \in Simple \cup {"s", "%"} \cup Unknown}
  <2>1. PICK c \in Simple \cup {"s", "%"} \cup Unknown : x = <<c>>
    BY <1>3
  <2>2. x \in Seq(FormatCharacters) /\ Len(x) = 1 /\ x[1] = c
    BY <1>2, <2>1, TuplesAre
  <2> QED BY <2>1, <2>2
<1>4. CASE x \in {<<"l", c>> : c \in Unknown}
  <2>1. PICK c \in Unknown : x = <<"l", c>>
    BY <1>4
  <2>2. x \in Seq(FormatCharacters) /\ Len(x) = 2 /\ x[1] = "l" /\ x[2] = c
    BY <1>2, <2>1, TuplesAre
  <2> QED BY <2>1, <2>2
<1>5. CASE x \in {<<"l", "l", c>> : c \in LongLong \cup Unknown}
  <2>1. PICK c \in LongLong \cup Unknown : x = <<"l", "l", c>>
    BY <1>5
  <2>2. x \in Seq(FormatCharacters) /\ Len(x) = 3 /\ x[1] = "l" /\ x[2] = "l" /\ x[3] = c
    BY <1>2, <2>1, TuplesAre
  <2> QED BY <2>1, <2>2
<1> QED BY <1>1, <1>3, <1>4, <1>5

\* What is cut off behind an l is no letters, and has no conversion.
LEMMA OnlyLongIs ==
  ASSUME NEW x \in F!OnlyLong
  PROVE  /\ x \notin F!Letters /\ x # << >> /\ x[1] = "l" /\ x \in Seq(FormatCharacters)
         /\ (x = <<"l">> /\ Len(x) = 1) \/ (x = <<"l", "l">> /\ Len(x) = 2 /\ x[2] = "l")
<1>1. (x = <<"l">> /\ Len(x) = 1) \/ (x = <<"l", "l">> /\ Len(x) = 2 /\ x[2] = "l")
  BY DEF F!OnlyLong
<1>2. x[1] = "l"
  BY DEF F!OnlyLong
<1>3. x # << >>
  BY <1>1
<1>4. x \in Seq(FormatCharacters)
  <2>1. "l" \in FormatCharacters
    BY DEF FormatCharacters
  <2>2. <<"l">> \in Seq(FormatCharacters) /\ <<"l", "l">> \in Seq(FormatCharacters)
    BY <2>1, TuplesAre
  <2> QED BY <1>1, <2>2
<1>5. x \notin F!Letters
  <2>1. "l" \notin Simple \cup {"s", "%"} \cup Unknown
    BY FormatFacts
  <2> SUFFICES ASSUME x \in F!Letters PROVE FALSE
    OBVIOUS
  <2>2. /\ Len(x) = 1 => x[1] \in Simple \cup {"s", "%"} \cup Unknown
        /\ Len(x) = 2 => x[2] \in Unknown
    BY LettersAre
  <2> QED BY <1>1, <1>2, <2>1, <2>2
<1> QED BY <1>1, <1>2, <1>3, <1>4, <1>5

\* Which directives take an argument, by their letters.
LEMMA TakesIs ==
  ASSUME NEW d, d.prefix # << >>, NEW x, x = d.letter,
         x = << >> \/ x \in F!Letters \/ x \in F!OnlyLong
  PROVE  F!TakesArgument(d) <=> \/ Len(x) = 1 /\ x[1] \in Simple \cup {"s"}
                                \/ Len(x) = 3 /\ x[3] \in LongLong
<1>1. F!TakesArgument(d) <=> \/ x \in {<<c>> : c \in Simple \cup {"s"}}
                             \/ x \in {<<"l", "l", c>> : c \in LongLong}
  BY DEF F!TakesArgument
<1>2. x \in {<<c>> : c \in Simple \cup {"s"}} => Len(x) = 1 /\ x[1] \in Simple \cup {"s"}
  OBVIOUS
<1>3. x \in {<<"l", "l", c>> : c \in LongLong} => Len(x) = 3 /\ x[3] \in LongLong
  OBVIOUS
<1>4. CASE x = << >>
  <2>1. Len(x) = 0
    BY <1>4
  <2> QED BY <1>1, <1>2, <1>3, <2>1
<1>5. CASE x \in F!Letters
  <2>1. Len(x) = 1 /\ x[1] \in Simple \cup {"s"} => x \in {<<c>> : c \in Simple \cup {"s"}}
    BY <1>5, LettersAre
  <2>2. Len(x) = 3 /\ x[3] \in LongLong => x \in {<<"l", "l", c>> : c \in LongLong}
    BY <1>5, LettersAre
  <2> QED BY <1>1, <1>2, <1>3, <2>1, <2>2
<1>6. CASE x \in F!OnlyLong
  <2>1. x[1] = "l" /\ Len(x) \in {1, 2}
    BY <1>6, OnlyLongIs
  <2>2. "l" \notin Simple \cup {"s"}
    BY FormatFacts
  <2> QED BY <1>1, <1>2, <1>3, <2>1, <2>2
<1> QED BY <1>4, <1>5, <1>6

\* What a directive is; only the last one may have no letter.
IsDirective(d, k) ==
  \/ /\ d.prefix = << >>
     /\ d.letter = <<d.letter[1]>> /\ d.letter[1] \in Unknown
  \/ /\ d.prefix \in F!Openings
     /\ \/ d.letter \in F!Letters
        \/ (d.letter = << >> \/ d.letter \in F!OnlyLong) /\ k = Len(v1)

\* Every element of the list is a directive, and only the last one is cut
\* off.
LEMMA DirectiveIs ==
  ASSUME AskedInv, NEW k \in 1 .. Len(v1)
  PROVE  IsDirective(v1[k], k)
<1>1. /\ v1 \in Seq(F!Directives \cup F!CutOff) /\ Len(v1) \in Nat
      /\ \A n \in 1 .. Len(v1) - 1 : v1[n] \in F!Directives
  BY DEF AskedInv
<1>2. v1[k] \in F!Directives \cup F!CutOff
  BY <1>1, ElementOfSeq
<1>3. ASSUME v1[k] \in {[prefix |-> << >>, letter |-> <<c>>] : c \in Unknown}
      PROVE  IsDirective(v1[k], k)
  <2>1. PICK c \in Unknown : v1[k] = [prefix |-> << >>, letter |-> <<c>>]
    BY <1>3
  <2>2. v1[k].prefix = << >> /\ v1[k].letter = <<c>> /\ <<c>>[1] = c
    BY <2>1
  <2> QED BY <2>2 DEF IsDirective
<1>4. ASSUME v1[k] \in [prefix : F!Openings, letter : F!Letters]
      PROVE  IsDirective(v1[k], k)
  <2>1. v1[k].prefix \in F!Openings /\ v1[k].letter \in F!Letters
    BY <1>4
  <2> QED BY <2>1 DEF IsDirective
<1>5. ASSUME v1[k] \notin F!Directives PROVE IsDirective(v1[k], k)
  <2>1. k = Len(v1)
    BY <1>1, <1>5
  <2>2. v1[k] \in [prefix : F!Openings, letter : {<< >>} \cup F!OnlyLong]
    BY <1>2, <1>5 DEF F!CutOff
  <2>3. v1[k].prefix \in F!Openings /\ v1[k].letter \in {<< >>} \cup F!OnlyLong
    BY <2>2
  <2> QED BY <2>1, <2>3 DEF IsDirective
<1> QED BY <1>3, <1>4, <1>5 DEF F!Directives

\* The two parts of a directive, and both together.
LEMMA PartsAre ==
  ASSUME NEW d, NEW k, IsDirective(d, k)
  PROVE  /\ d.prefix \in Seq(FormatCharacters) /\ d.letter \in Seq(FormatCharacters)
         /\ Len(d.prefix) \in Nat /\ Len(d.letter) \in 0 .. 3
         /\ d.prefix \o d.letter \in Seq(FormatCharacters)
         /\ Len(d.prefix \o d.letter) = Len(d.prefix) + Len(d.letter)
         /\ \A i \in 1 .. Len(d.prefix) : (d.prefix \o d.letter)[i] = d.prefix[i]
         /\ \A i \in 1 .. Len(d.letter) :
              (d.prefix \o d.letter)[Len(d.prefix) + i] = d.letter[i]
         /\ d.prefix # << >> => d.prefix \in F!Openings
         /\ d.letter = << >> \/ d.letter \in F!OnlyLong => k = Len(v1)
<1>1. d.prefix \in Seq(FormatCharacters) /\ d.letter \in Seq(FormatCharacters)
      /\ Len(d.letter) \in 0 .. 3
  <2>1. CASE d.prefix = << >> /\ d.letter = <<d.letter[1]>> /\ d.letter[1] \in Unknown
    <3>1. d.letter[1] \in FormatCharacters
      BY <2>1 DEF FormatCharacters
    <3> DEFINE c == d.letter[1]
    <3>2. d.letter = <<c>>
      BY <2>1
    <3>3. c \in FormatCharacters
      BY <3>1
    <3> HIDE DEF c
    <3>4. <<c>> \in Seq(FormatCharacters) /\ Len(<<c>>) = 1
      BY <3>3, TuplesAre
    <3> QED BY <2>1, <3>2, <3>4, EmptySeq
  <2>2. CASE /\ d.prefix \in F!Openings
             /\ d.letter \in F!Letters \/ d.letter = << >> \/ d.letter \in F!OnlyLong
    <3>1. d.prefix \in Seq(FormatCharacters)
      BY <2>2, OpeningIs DEF IsOpening
    <3>2. d.letter \in F!Letters => d.letter \in Seq(FormatCharacters) /\ Len(d.letter) \in 1 .. 3
      BY LettersAre
    <3>3. d.letter = << >> => d.letter \in Seq(FormatCharacters) /\ Len(d.letter) = 0
      BY EmptySeq
    <3>4. d.letter \in F!OnlyLong => d.letter \in Seq(FormatCharacters) /\ Len(d.letter) \in 1 .. 2
      BY OnlyLongIs
    <3> QED BY <2>2, <3>1, <3>2, <3>3, <3>4
  <2> QED BY <2>1, <2>2 DEF IsDirective
<1>2. Len(d.prefix) \in Nat
  BY <1>1
<1> DEFINE p == d.prefix
           x == d.letter
<1>3. p \in Seq(FormatCharacters) /\ x \in Seq(FormatCharacters)
  BY <1>1
<1>4. /\ p \o x \in Seq(FormatCharacters) /\ Len(p \o x) = Len(p) + Len(x)
      /\ \A i \in 1 .. Len(p) + Len(x) :
           (p \o x)[i] = IF i <= Len(p) THEN p[i] ELSE x[i - Len(p)]
  <2> HIDE DEF p, x
  <2> QED BY <1>3, ConcatProperties
<1>5. Len(p) \in Nat /\ Len(x) \in Nat
  BY <1>3
<1>6. \A i \in 1 .. Len(p) : (p \o x)[i] = p[i]
  <2> HIDE DEF p, x
  <2> QED BY <1>4, <1>5
<1>7. \A i \in 1 .. Len(x) : (p \o x)[Len(p) + i] = x[i]
  <2> HIDE DEF p, x
  <2> TAKE i \in 1 .. Len(x)
  <2>1. Len(p) + i \in 1 .. Len(p) + Len(x) /\ ~(Len(p) + i <= Len(p)) /\ Len(p) + i - Len(p) = i
    BY <1>5
  <2> QED BY <1>4, <2>1
<1>8. /\ d.prefix # << >> => d.prefix \in F!Openings
      /\ d.letter = << >> \/ d.letter \in F!OnlyLong => k = Len(v1)
  <2>1. d.letter = <<d.letter[1]>> => d.letter # << >>
    OBVIOUS
  <2>2. d.letter \in F!Letters => d.letter # << >>
    <3>1. d.letter \in F!Letters => Len(d.letter) \in 1 .. 3
      BY LettersAre
    <3>2. Len(<< >>) = 0
      OBVIOUS
    <3> QED BY <3>1, <3>2
  <2>3. d.letter \in F!OnlyLong => d.letter \notin F!Letters /\ d.letter[1] \notin Unknown
    BY OnlyLongIs, FormatFacts
  <2> QED BY <2>1, <2>2, <2>3 DEF IsDirective
<1> QED BY <1>1, <1>2, <1>4, <1>6, <1>7, <1>8

\* The format is the texts of its directives, one after the other.
LEMMA TextsAre ==
  ASSUME AskedInv
  PROVE  /\ Texts \in Seq(Seq(FormatCharacters)) /\ Len(Texts) = Len(v1) /\ Len(v1) \in Nat
         /\ \A k \in 1 .. Len(v1) : Texts[k] = v1[k].prefix \o v1[k].letter
         /\ F!format = Before(Texts, Len(v1) + 1) /\ F!format \in Seq(FormatCharacters)
<1>1. v1 \in Seq(F!Directives \cup F!CutOff) /\ Len(v1) \in Nat /\ DOMAIN v1 = 1 .. Len(v1)
  BY DEF AskedInv
<1>2. \A k \in 1 .. Len(v1) : v1[k].prefix \o v1[k].letter \in Seq(FormatCharacters)
  BY DirectiveIs, PartsAre
<1> DEFINE K == Seq(FormatCharacters)
<1>3. Texts = [k \in 1 .. Len(v1) |-> v1[k].prefix \o v1[k].letter]
  BY <1>1 DEF Texts
<1>4. \A k \in 1 .. Len(v1) : v1[k].prefix \o v1[k].letter \in K
  BY <1>2
<1> HIDE DEF K
<1>5. PICK l \in Nat : l = Len(v1)
  BY <1>1
<1>6. Texts \in [1 .. l -> K] /\ \A k \in 1 .. l : Texts[k] = v1[k].prefix \o v1[k].letter
  BY <1>3, <1>4, <1>5
<1>7. Texts \in Seq(K) /\ Len(Texts) = l
  BY <1>6
<1>8. F!format = F!FlattenSeq(Texts)
  BY DEF F!format, Texts
<1>9. F!format = Before(Texts, Len(v1) + 1) /\ F!format \in Seq(FormatCharacters)
  <2>1. /\ Before(Texts, Len(Texts) + 1) = F!FlattenSeq(Texts)
        /\ \A k \in 1 .. Len(Texts) + 1 : Before(Texts, k) \in Seq(FormatCharacters)
    BY <1>7, BeforeIs DEF K
  <2>2. Len(Texts) + 1 \in 1 .. Len(Texts) + 1
    BY <1>5, <1>7
  <2> QED BY <1>5, <1>7, <1>8, <2>1, <2>2
<1> QED BY <1>1, <1>5, <1>6, <1>7, <1>9 DEF K

\* The characters of the k-th directive in the format.
LEMMA CharacterAt ==
  ASSUME AskedInv, NEW k \in 1 .. Len(v1), NEW d, d = v1[k],
         NEW t, t = Len(Before(Texts, k))
  PROVE  /\ t \in Nat
         /\ Len(Before(Texts, k + 1)) = t + Len(d.prefix) + Len(d.letter)
         /\ Len(Before(Texts, k + 1)) <= Len(F!format)
         /\ \A i \in 1 .. Len(d.prefix) : F!At(t + i) = d.prefix[i]
         /\ \A i \in 1 .. Len(d.letter) : F!At(t + Len(d.prefix) + i) = d.letter[i]
         /\ k = Len(v1) => /\ Len(F!format) = t + Len(d.prefix) + Len(d.letter)
                           /\ F!At(t + Len(d.prefix) + Len(d.letter) + 1) = "NUL"
<1>1. /\ Texts \in Seq(Seq(FormatCharacters)) /\ Len(Texts) = Len(v1) /\ Len(v1) \in Nat
      /\ Texts[k] = d.prefix \o d.letter
      /\ F!format = Before(Texts, Len(v1) + 1) /\ F!format \in Seq(FormatCharacters)
  BY TextsAre
<1> DEFINE a == Before(Texts, k)
           b == Before(Texts, k + 1)
           x == d.prefix \o d.letter
           lp == Len(d.prefix)
           ll == Len(d.letter)
<1>2. IsDirective(d, k)
  BY DirectiveIs
<1>3. /\ x \in Seq(FormatCharacters) /\ lp \in Nat /\ ll \in Nat /\ Len(x) = lp + ll
      /\ \A i \in 1 .. lp : x[i] = d.prefix[i]
      /\ \A i \in 1 .. ll : x[lp + i] = d.letter[i]
  <2>1. x \in Seq(FormatCharacters) /\ Len(x) = lp + ll
    BY <1>2, PartsAre
  <2>2. lp \in Nat /\ ll \in 0 .. 3
    BY <1>2, PartsAre
  <2>3. \A i \in 1 .. lp : x[i] = d.prefix[i]
    BY <1>2, PartsAre
  <2>4. \A i \in 1 .. ll : x[lp + i] = d.letter[i]
    BY <1>2, PartsAre
  <2> HIDE DEF x, lp, ll
  <2>5. ll \in Nat
    BY <2>2
  <2> QED BY <2>1, <2>2, <2>3, <2>4, <2>5
<1>4. a \in Seq(FormatCharacters) /\ b = a \o x
  <2>1. k \in 1 .. Len(Texts) + 1 /\ k \in 1 .. Len(Texts)
    BY <1>1
  <2> QED BY <1>1, <2>1, BeforeIs
<1>6. /\ Len(b) <= Len(F!format)
      /\ \A n \in 1 .. Len(b) : F!format[n] = b[n]
  <2>1. k + 1 \in 1 .. Len(Texts) + 1 /\ Len(v1) + 1 \in k + 1 .. Len(Texts) + 1
    BY <1>1
  <2> QED BY <1>1, <2>1, BeforeStays
<1>7. t = Len(a)
  OBVIOUS
<1>8. k = Len(v1) => F!format = b
  BY <1>1
<1> HIDE DEF x, a, b, lp, ll
<1>9. /\ Len(b) = t + Len(x) /\ t \in Nat
      /\ \A n \in 1 .. t + Len(x) : b[n] = IF n <= t THEN a[n] ELSE x[n - t]
  BY <1>3, <1>4, <1>7, ConcatProperties
<1>10. Len(F!format) \in Nat /\ Len(b) = t + lp + ll
  BY <1>1, <1>3, <1>9
<1>11. ASSUME NEW i \in 1 .. lp + ll PROVE F!At(t + i) = x[i]
  <2>1. t + i \in 1 .. t + Len(x) /\ ~(t + i <= t) /\ t + i - t = i /\ t + i \in 1 .. Len(b)
        /\ t + i <= Len(F!format)
    BY <1>3, <1>6, <1>9, <1>10
  <2>2. F!format[t + i] = x[i]
    BY <1>6, <1>9, <2>1
  <2> QED BY <2>1, <2>2 DEF F!At
<1>12. ASSUME NEW i \in 1 .. lp PROVE F!At(t + i) = d.prefix[i]
  <2>1. i \in 1 .. lp + ll
    BY <1>3
  <2> QED BY <1>3, <1>11, <2>1
<1>13. ASSUME NEW i \in 1 .. ll PROVE F!At(t + lp + i) = d.letter[i]
  <2>1. lp + i \in 1 .. lp + ll /\ t + lp + i = t + (lp + i)
    <3>1. lp \in Nat /\ ll \in Nat /\ t \in Nat
      BY <1>3, <1>9
    <3> QED BY <3>1
  <2>2. F!At(t + lp + i) = F!At(t + (lp + i))
    BY <2>1
  <2> QED BY <1>3, <1>11, <2>1, <2>2
<1>14. ASSUME k = Len(v1)
       PROVE  Len(F!format) = t + lp + ll /\ F!At(t + lp + ll + 1) = "NUL"
  <2>1. Len(F!format) = t + lp + ll
    BY <1>8, <1>10, <1>14
  <2>2. ~(t + lp + ll + 1 <= Len(F!format))
    BY <1>3, <1>9, <2>1
  <2> QED BY <2>1, <2>2 DEF F!At
<1> QED BY <1>6, <1>9, <1>10, <1>12, <1>13, <1>14 DEF b, lp, ll

\* Behind the last directive.
LEMMA BehindAll ==
  ASSUME AskedInv, NEW t, t = Len(Before(Texts, Len(v1) + 1))
  PROVE  t \in Nat /\ t = Len(F!format) /\ F!At(t + 1) = "NUL"
<1>1. F!format = Before(Texts, Len(v1) + 1) /\ F!format \in Seq(FormatCharacters)
  BY TextsAre
<1>2. t = Len(F!format) /\ t \in Nat
  BY <1>1
<1>3. ~(t + 1 <= t)
  BY <1>2
<1> QED BY <1>2, <1>3 DEF F!At

\* What is written: a character, or a conversion and its argument.
Outputs == Seq(FormatCharacters \cup {"ll", "NUL"} \cup Nat)

\* Characters that are printed as they stand are output.
LEMMA CharactersAre ==
  ASSUME NEW w, w \in Seq(FormatCharacters) \/ w \in Seq(FormatCharacters \cup {"NUL"})
  PROVE  F!Characters(w) \in Seq(Outputs)
<1> DEFINE K == FormatCharacters \cup {"ll", "NUL"} \cup Nat
           f == [n \in 1 .. Len(w) |-> <<w[n]>>]
<1>1. F!Characters(w) = f
  BY DEF F!Characters
<1>2. \A n \in 1 .. Len(w) : w[n] \in K
  <2>1. w \in Seq(FormatCharacters) => \A n \in 1 .. Len(w) : w[n] \in FormatCharacters
    BY ElementOfSeq
  <2>2. w \in Seq(FormatCharacters \cup {"NUL"})
          => \A n \in 1 .. Len(w) : w[n] \in FormatCharacters \cup {"NUL"}
    BY ElementOfSeq
  <2> QED BY <2>1, <2>2
<1> HIDE DEF K
<1>3. \A n \in 1 .. Len(w) : <<w[n]>> \in Seq(K)
  BY <1>2
<1> DEFINE V == Seq(K)
<1>4. \A n \in 1 .. Len(w) : <<w[n]>> \in V
  BY <1>3
<1> HIDE DEF V
<1>5. PICK l \in Nat : l = Len(w)
  OBVIOUS
<1>6. f \in [1 .. l -> V]
  BY <1>4, <1>5
<1> HIDE DEF f
<1>7. f \in Seq(V)
  BY <1>6
<1> QED BY <1>1, <1>7 DEF V, K, Outputs

\* What is kept after a %.
LEMMA JoinedTwo ==
  ASSUME NEW Elements, NEW a \in Elements, NEW b \in Elements
  PROVE  <<a>> \o <<b>> = <<a, b>> /\ Append(<<a>>, b) = <<a, b>>
<1>1. <<a>> \o <<b>> = <<a, b>>
  <2> DEFINE v == <<a>> \o <<b>>
             w == <<a, b>>
  <2>1. v \in Seq(Elements) /\ Len(v) = 2
    OBVIOUS
  <2>2. v[1] = a /\ v[2] = b
    OBVIOUS
  <2>3. w \in Seq(Elements) /\ Len(w) = 2 /\ w[1] = a /\ w[2] = b
    OBVIOUS
  <2> HIDE DEF v, w
  <2>4. \A i \in 1 .. 2 : v[i] = w[i]
    BY <2>2, <2>3
  <2>5. v = w
    BY <2>1, <2>3, <2>4, SeqEqual
  <2> QED BY <2>5 DEF v, w
<1>2. Append(<<a>>, b) = <<a, b>>
  <2> DEFINE v == Append(<<a>>, b)
             w == <<a, b>>
  <2>1. v \in Seq(Elements) /\ Len(v) = 2
    OBVIOUS
  <2>2. v[1] = a /\ v[2] = b
    OBVIOUS
  <2>3. w \in Seq(Elements) /\ Len(w) = 2 /\ w[1] = a /\ w[2] = b
    OBVIOUS
  <2> HIDE DEF v, w
  <2>4. \A i \in 1 .. 2 : v[i] = w[i]
    BY <2>2, <2>3
  <2>5. v = w
    BY <2>1, <2>3, <2>4, SeqEqual
  <2> QED BY <2>5 DEF v, w
<1> QED BY <1>1, <1>2

\* One element and two more.
LEMMA JoinedThree ==
  ASSUME NEW Elements, NEW a \in Elements, NEW b \in Elements, NEW c \in Elements
  PROVE  <<a>> \o <<b, c>> = <<a, b, c>> /\ Append(<<a, b>>, c) = <<a, b, c>>
<1>1. <<a>> \o <<b, c>> = <<a, b, c>>
  <2> DEFINE v == <<a>> \o <<b, c>>
             w == <<a, b, c>>
  <2>1. v \in Seq(Elements) /\ Len(v) = 3
    OBVIOUS
  <2>2. v[1] = a /\ v[2] = b /\ v[3] = c
    OBVIOUS
  <2>3. w \in Seq(Elements) /\ Len(w) = 3 /\ w[1] = a /\ w[2] = b /\ w[3] = c
    OBVIOUS
  <2> HIDE DEF v, w
  <2>4. \A i \in 1 .. 3 : v[i] = w[i]
    BY <2>2, <2>3
  <2>5. v = w
    BY <2>1, <2>3, <2>4, SeqEqual
  <2> QED BY <2>5 DEF v, w
<1>2. Append(<<a, b>>, c) = <<a, b, c>>
  <2> DEFINE v == Append(<<a, b>>, c)
             w == <<a, b, c>>
  <2>1. v \in Seq(Elements) /\ Len(v) = 3
    OBVIOUS
  <2>2. v[1] = a /\ v[2] = b /\ v[3] = c
    OBVIOUS
  <2>3. w \in Seq(Elements) /\ Len(w) = 3 /\ w[1] = a /\ w[2] = b /\ w[3] = c
    OBVIOUS
  <2> HIDE DEF v, w
  <2>4. \A i \in 1 .. 3 : v[i] = w[i]
    BY <2>2, <2>3
  <2>5. v = w
    BY <2>1, <2>3, <2>4, SeqEqual
  <2> QED BY <2>5 DEF v, w
<1> QED BY <1>1, <1>2

\* One element and three more.
LEMMA JoinedFour ==
  ASSUME NEW Elements, NEW a \in Elements, NEW b \in Elements, NEW c \in Elements,
         NEW d \in Elements
  PROVE  <<a>> \o <<b, c, d>> = <<a, b, c, d>> /\ <<a, b, c, d>> \in Seq(Elements)
<1>1. <<a>> \o <<b, c, d>> = <<a, b, c, d>>
  <2> DEFINE v == <<a>> \o <<b, c, d>>
             w == <<a, b, c, d>>
  <2>1. v \in Seq(Elements) /\ Len(v) = 4
    OBVIOUS
  <2>2. v[1] = a /\ v[2] = b /\ v[3] = c /\ v[4] = d
    OBVIOUS
  <2>3. w \in Seq(Elements) /\ Len(w) = 4 /\ w[1] = a /\ w[2] = b /\ w[3] = c /\ w[4] = d
    OBVIOUS
  <2> HIDE DEF v, w
  <2>4. \A i \in 1 .. 4 : v[i] = w[i]
    BY <2>2, <2>3
  <2>5. v = w
    BY <2>1, <2>3, <2>4, SeqEqual
  <2> QED BY <2>5 DEF v, w
<1>2. <<a, b, c, d>> \in Seq(Elements)
  OBVIOUS
<1> QED BY <1>1, <1>2

\* How many characters of its argument a %s prints.
Printed(p) ==
  LET a == F!AccuracyOf(p)
  IN  IF a = 0 \/ a > v2 THEN v2 ELSE a

\* How many characters of a string are printed: all, or no more than the
\* accuracy if one is given.
LEMMA PrintedIs ==
  ASSUME NEW p \in F!Openings, v2 \in Nat
  PROVE  /\ F!AccuracyOf(p) \in Nat /\ Printed(p) \in Nat
         /\ Printed(p) = IF F!AccuracyOf(p) = 0 THEN v2 ELSE F!Min({F!AccuracyOf(p), v2})
<1>1. F!AccuracyOf(p) \in Nat
  BY OpeningIs, AccuracyIs
<1>2. ASSUME NEW a \in Nat PROVE F!Min({a, v2}) = IF a > v2 THEN v2 ELSE a
  <2> DEFINE l == IF a > v2 THEN v2 ELSE a
  <2>1. l \in {a, v2} /\ \A n \in {a, v2} : l <= n
    OBVIOUS
  <2>2. \A n \in {a, v2} : (\A j \in {a, v2} : n <= j) => n = l
    OBVIOUS
  <2>3. F!Min({a, v2}) = CHOOSE n \in {a, v2} : \A j \in {a, v2} : n <= j
    BY DEF F!Min
  <2> HIDE DEF l
  <2>4. F!Min({a, v2}) = l
    BY <2>1, <2>2, <2>3
  <2> QED BY <2>4 DEF l
<1> QED BY <1>1, <1>2 DEF Printed

\* What a directive means, and whether it takes an argument, by its letter.
IsMeaning(d, n) ==
  LET x == d.letter
      w == F!Meaning(d, n)
      takes == F!TakesArgument(d)
  IN  /\ d.prefix = << >> => w = <<<<x[1]>>>> /\ ~takes
      /\ x = << >> => w = << >> /\ ~takes
      /\ d.prefix # << >> /\ x = <<"l">> =>
           w = F!Characters(<<"%", "l", "NUL">>) /\ ~takes
      /\ d.prefix # << >> /\ x = <<"l", "l">> =>
           w = F!Characters(<<"%", "l", "l", "NUL">>) /\ ~takes
      /\ d.prefix # << >> /\ x \in F!Letters /\ Len(x) = 1 =>
           IF x[1] \in Simple THEN w = <<<<x[1], n + 1>>>> /\ takes
           ELSE IF x[1] = "s"
           THEN w = [m \in 1 .. Printed(d.prefix) |-> <<"s", n + 1, m>>] /\ takes
           ELSE w = F!Characters(<<"%", x[1]>>) /\ ~takes
      /\ d.prefix # << >> /\ x \in F!Letters /\ Len(x) = 2 =>
           w = F!Characters(<<"%", "l", x[2]>>) /\ ~takes
      /\ d.prefix # << >> /\ x \in F!Letters /\ Len(x) = 3 =>
           IF x[3] \in LongLong THEN w = <<<<"ll", x[3], n + 1>>>> /\ takes
           ELSE w = F!Characters(<<"%", "l", "l", x[3]>>) /\ ~takes

\* What a directive means, by its letters.
LEMMA MeaningIs ==
  ASSUME NEW d, NEW k, IsDirective(d, k), v2 \in Nat, NEW n \in Nat
  PROVE  IsMeaning(d, n) /\ F!Meaning(d, n) \in Seq(Outputs)
<1> DEFINE K == FormatCharacters \cup {"ll", "NUL"} \cup Nat
           w == F!Meaning(d, n)
<1>1. FormatCharacters \subseteq K /\ "ll" \in K /\ n + 1 \in K /\ \A c \in FormatCharacters : c \in K
  OBVIOUS
<1>2. Outputs = Seq(K)
  BY DEF Outputs
<1>3. /\ "%" \in FormatCharacters /\ "l" \in FormatCharacters /\ "s" \in FormatCharacters
      /\ "s" \in K
  BY DEF FormatCharacters
<1>4. \A c \in Nat : c \in K
  OBVIOUS
<1> HIDE DEF K, w
<1>5. ASSUME NEW y \in Outputs PROVE <<y>> \in Seq(Outputs)
  BY TuplesAre
<1>6. CASE d.prefix = << >>
  <2>1. d.prefix \notin F!Openings
    <3>1. ASSUME NEW p \in F!Openings PROVE p # << >>
      <4>1. PICK e \in 2 .. 3, m \in 2 .. Len(p) + 1 : IsOpening(p, e, m)
        BY OpeningIs
      <4>2. Len(p) \in Nat /\ m \in e .. Len(p) + 1
        BY <4>1 DEF IsOpening
      <4>3. Len(p) # 0
        BY <4>2
      <4>4. Len(<< >>) = 0
        OBVIOUS
      <4> QED BY <4>3, <4>4
    <3> QED BY <1>6, <3>1
  <2>2. PICK c \in Unknown : d.letter = <<c>>
    BY <2>1 DEF IsDirective
  <2>3. c \in FormatCharacters
    BY DEF FormatCharacters
  <2>4. <<c>> \in Seq(FormatCharacters) /\ Len(<<c>>) = 1 /\ <<c>>[1] = c
    BY <2>3, TuplesAre
  <2>5. w = F!Characters(<<c>>)
    BY <1>6, <2>2 DEF w, F!Meaning
  <2>6. F!Characters(<<c>>) = <<<<c>>>>
    BY <2>4 DEF F!Characters
  <2>7. ~F!TakesArgument(d)
    BY <1>6 DEF F!TakesArgument
  <2>8. <<c>> # << >>
    OBVIOUS
  <2>9. w \in Seq(Outputs)
    BY <2>4, <2>5, CharactersAre
  <2> QED BY <1>6, <2>2, <2>4, <2>5, <2>6, <2>7, <2>8, <2>9 DEF w, IsMeaning
<1>7. CASE d.prefix # << >> /\ d.letter = << >>
  <2>1. ~F!TakesArgument(d)
    <3>1. Len(d.letter) = 0
      BY <1>7
    <3> QED BY <1>7, <3>1, TakesIs
  <2>2. w = << >> /\ w \in Seq(Outputs)
    BY <1>7, EmptySeq DEF w, F!Meaning
  <2>3. Len(d.letter) = 0
    BY <1>7
  <2> QED BY <1>7, <2>1, <2>2, <2>3 DEF w, IsMeaning
<1>9. CASE d.prefix # << >> /\ d.letter \in F!OnlyLong
  <2> DEFINE x == d.letter
  <2>1. /\ x # << >> /\ x \notin F!Letters
        /\ (x = <<"l">> /\ Len(x) = 1) \/ (x = <<"l", "l">> /\ Len(x) = 2)
    BY <1>9, OnlyLongIs
  <2>2. ~F!TakesArgument(d)
    <3>1. "l" \notin Simple \cup {"s"} /\ x[1] = "l"
      BY <1>9, OnlyLongIs, FormatFacts
    <3>2. F!TakesArgument(d) <=> \/ Len(x) = 1 /\ x[1] \in Simple \cup {"s"}
                                 \/ Len(x) = 3 /\ x[3] \in LongLong
      BY <1>9, TakesIs
    <3> HIDE DEF x
    <3> QED BY <2>1, <3>1, <3>2
  <2>3. w = F!Characters(<<"%">> \o Append(x, "NUL"))
    BY <1>9, <2>1 DEF w, F!Meaning
  <2> DEFINE E == FormatCharacters \cup {"NUL"}
  <2>4. "%" \in E /\ "l" \in E /\ "NUL" \in E
    BY <1>3
  <2> HIDE DEF x, E
  <2>5. CASE x = <<"l">>
    <3>1. Append(x, "NUL") = <<"l", "NUL">>
      BY <2>4, <2>5, JoinedTwo
    <3>2. w = F!Characters(<<"%", "l", "NUL">>) /\ <<"%", "l", "NUL">> \in Seq(E)
      BY <2>3, <2>4, <3>1, JoinedThree, TuplesAre
    <3>3. x # <<"l", "l">>
      <4>1. Len(<<"l">>) = 1 /\ Len(<<"l", "l">>) = 2
        OBVIOUS
      <4> QED BY <2>5, <4>1
    <3>4. w \in Seq(Outputs)
      BY <3>2, CharactersAre DEF E
    <3> QED BY <1>9, <2>1, <2>2, <2>5, <3>2, <3>3, <3>4 DEF w, x, IsMeaning
  <2>6. CASE x = <<"l", "l">>
    <3>1. Append(x, "NUL") = <<"l", "l", "NUL">>
      BY <2>4, <2>6, JoinedThree
    <3>2. w = F!Characters(<<"%", "l", "l", "NUL">>) /\ <<"%", "l", "l", "NUL">> \in Seq(E)
      BY <2>3, <2>4, <3>1, JoinedFour
    <3>3. x # <<"l">>
      <4>1. Len(<<"l">>) = 1 /\ Len(<<"l", "l">>) = 2
        OBVIOUS
      <4> QED BY <2>6, <4>1
    <3>4. w \in Seq(Outputs)
      BY <3>2, CharactersAre DEF E
    <3> QED BY <1>9, <2>1, <2>2, <2>6, <3>2, <3>3, <3>4 DEF w, x, IsMeaning
  <2> QED BY <2>1, <2>5, <2>6
<1>8. CASE d.prefix # << >> /\ d.letter # << >> /\ d.letter \notin F!OnlyLong
  <2> DEFINE x == d.letter
  <2>1. x \in F!Letters /\ d.prefix \in F!Openings
    BY <1>8 DEF IsDirective
  <2>2. F!TakesArgument(d) <=> \/ Len(x) = 1 /\ x[1] \in Simple \cup {"s"}
                               \/ Len(x) = 3 /\ x[3] \in LongLong
    BY <1>8, <2>1, TakesIs
  <2>3. w = IF ~F!TakesArgument(d) THEN F!Characters(<<"%">> \o x)
            ELSE IF Len(x) = 3 THEN <<<<"ll", x[3], n + 1>>>>
            ELSE IF x # <<"s">> THEN <<<<x[1], n + 1>>>>
            ELSE LET a == F!AccuracyOf(d.prefix)
                 IN  [m \in 1 .. IF a = 0 THEN v2 ELSE F!Min({a, v2}) |-> <<"s", n + 1, m>>]
    BY <1>8 DEF w, F!Meaning
  <2>0. x # <<"l">> /\ x # <<"l", "l">>
    BY <1>8 DEF F!OnlyLong
  <2>4. /\ x \in Seq(FormatCharacters) /\ Len(x) \in 1 .. 3
        /\ Len(x) = 1 => x = <<x[1]>> /\ x[1] \in Simple \cup {"s", "%"} \cup Unknown
        /\ Len(x) = 2 => x = <<"l", x[2]>> /\ x[1] = "l" /\ x[2] \in Unknown
        /\ Len(x) = 3 => /\ x = <<"l", "l", x[3]>> /\ x[1] = "l" /\ x[2] = "l"
                         /\ x[3] \in LongLong \cup Unknown
    BY <2>1, LettersAre
  <2>5. /\ Simple \subseteq FormatCharacters /\ Unknown \subseteq FormatCharacters
        /\ LongLong \subseteq FormatCharacters
    BY DEF FormatCharacters
  <2>6. Len(x) # 0
    BY <2>4
  <2> HIDE DEF x
  <2>7. CASE Len(x) = 1
    <3>1. PICK c \in Simple \cup {"s", "%"} \cup Unknown : c = x[1]
      BY <2>4, <2>7
    <3>2. x = <<c>> /\ c \in FormatCharacters /\ c \in K
      BY <1>1, <1>3, <2>4, <2>5, <2>7, <3>1
    <3>3. <<"%">> \o x = <<"%", c>> /\ <<"%", c>> \in Seq(FormatCharacters)
      BY <1>3, <3>2, JoinedTwo, TuplesAre
    <3>4. CASE c \in Simple
      <4>1. x # <<"s">>
        <5>1. c # "s"
          BY <3>4, FormatFacts
        <5>2. <<c>>[1] = c /\ <<"s">>[1] = "s"
          OBVIOUS
        <5> QED BY <3>2, <5>1, <5>2
      <4>2. w = <<<<c, n + 1>>>> /\ F!TakesArgument(d)
        BY <2>2, <2>3, <2>7, <3>1, <3>4, <4>1
      <4>3. <<c, n + 1>> \in Outputs
        BY <1>1, <1>2, <3>2, TuplesAre
      <4> QED BY <1>5, <1>8, <2>0, <2>1, <2>7, <3>1, <3>4, <4>2, <4>3 DEF w, x, IsMeaning
    <3>5. CASE c = "s"
      <4>1. x = <<"s">> /\ c \notin Simple
        BY <3>2, <3>5, FormatFacts
      <4>2. F!TakesArgument(d)
        BY <2>2, <2>7, <3>1, <3>5
      <4>20. Printed(d.prefix) = IF F!AccuracyOf(d.prefix) = 0 THEN v2
                                ELSE F!Min({F!AccuracyOf(d.prefix), v2})
        BY <2>1, PrintedIs
      <4>21. w = LET a == F!AccuracyOf(d.prefix)
                 IN  [m \in 1 .. IF a = 0 THEN v2 ELSE F!Min({a, v2}) |-> <<"s", n + 1, m>>]
        BY <2>3, <2>7, <4>1, <4>2
      <4>22. w = [m \in 1 .. Printed(d.prefix) |-> <<"s", n + 1, m>>]
        BY <4>20, <4>21
      <4>3. PICK l \in Nat : l = Printed(d.prefix)
        BY <2>1, PrintedIs
      <4>4. ASSUME NEW m \in 1 .. l PROVE <<"s", n + 1, m>> \in Outputs
        <5>1. m \in K
          BY <1>4
        <5> QED BY <1>1, <1>2, <1>3, <5>1, TuplesAre
      <4>5. w \in [1 .. l -> Outputs]
        BY <4>22, <4>3, <4>4
      <4>6. w \in Seq(Outputs)
        BY <4>5
      <4> QED BY <1>8, <2>0, <2>1, <2>7, <3>1, <3>5, <4>1, <4>2, <4>22, <4>6 DEF w, x, IsMeaning
    <3>6. CASE c \notin Simple \cup {"s"}
      <4>0. ~F!TakesArgument(d)
        BY <2>2, <2>7, <3>1, <3>6
      <4>1. w = F!Characters(<<"%", c>>) /\ ~F!TakesArgument(d)
        BY <2>3, <3>3, <4>0
      <4>2. w \in Seq(Outputs)
        BY <3>3, <4>1, CharactersAre
      <4> QED BY <1>8, <2>0, <2>1, <2>7, <3>1, <3>6, <4>1, <4>2 DEF w, x, IsMeaning
    <3> QED BY <3>4, <3>5, <3>6
  <2>8. CASE Len(x) = 2
    <3>1. PICK c \in Unknown : c = x[2]
      BY <2>4, <2>8
    <3>2. x = <<"l", c>> /\ c \in FormatCharacters
      BY <2>4, <2>5, <2>8, <3>1
    <3>3. <<"%">> \o x = <<"%", "l", c>> /\ <<"%", "l", c>> \in Seq(FormatCharacters)
      BY <1>3, <3>2, JoinedThree, TuplesAre
    <3>4. w = F!Characters(<<"%", "l", c>>) /\ ~F!TakesArgument(d)
      <4>1. ~F!TakesArgument(d)
        BY <2>2, <2>8
      <4> QED BY <2>3, <3>3, <4>1
    <3>5. w \in Seq(Outputs)
      BY <3>3, <3>4, CharactersAre
    <3> QED BY <1>8, <2>0, <2>1, <2>8, <3>1, <3>4, <3>5 DEF w, x, IsMeaning
  <2>9. CASE Len(x) = 3
    <3>1. PICK c \in LongLong \cup Unknown : c = x[3]
      BY <2>4, <2>9
    <3>2. x = <<"l", "l", c>> /\ c \in FormatCharacters /\ c \in K
      BY <1>1, <2>4, <2>5, <2>9, <3>1
    <3>3. <<"%">> \o x = <<"%", "l", "l", c>> /\ <<"%", "l", "l", c>> \in Seq(FormatCharacters)
      BY <1>3, <3>2, JoinedFour
    <3>4. CASE c \in LongLong
      <4>1. w = <<<<"ll", c, n + 1>>>> /\ F!TakesArgument(d)
        BY <2>2, <2>3, <2>9, <3>1, <3>4
      <4>2. <<"ll", c, n + 1>> \in Outputs
        BY <1>1, <1>2, <3>2, TuplesAre
      <4> QED BY <1>5, <1>8, <2>0, <2>1, <2>9, <3>1, <3>4, <4>1, <4>2 DEF w, x, IsMeaning
    <3>5. CASE c \notin LongLong
      <4>0. ~F!TakesArgument(d)
        BY <2>2, <2>9, <3>1, <3>5
      <4>1. w = F!Characters(<<"%", "l", "l", c>>) /\ ~F!TakesArgument(d)
        BY <2>3, <3>3, <4>0
      <4>2. w \in Seq(Outputs)
        BY <3>3, <4>1, CharactersAre
      <4> QED BY <1>8, <2>0, <2>1, <2>9, <3>1, <3>5, <4>1, <4>2 DEF w, x, IsMeaning
    <3> QED BY <3>4, <3>5
  <2> QED BY <2>4, <2>7, <2>8, <2>9
<1> QED BY <1>6, <1>7, <1>8, <1>9

\* How many arguments the directives before one take.
LEMMA ArgumentsAre ==
  ASSUME AskedInv
  PROVE  /\ F!ArgumentsBefore(1) = 0
         /\ \A k \in 1 .. Len(v1) + 1 : F!ArgumentsBefore(k) \in 0 .. k - 1
         /\ \A k \in 1 .. Len(v1) :
              F!ArgumentsBefore(k + 1)
                = F!ArgumentsBefore(k) + IF F!TakesArgument(v1[k]) THEN 1 ELSE 0
<1> DEFINE A(k) == {m \in 1 .. k - 1 : F!TakesArgument(v1[m])}
<1>1. \A k : F!ArgumentsBefore(k) = Cardinality(A(k))
  <2>1. \A M : F!Cardinality(M) = Cardinality(M)
    BY DEF F!Cardinality, Cardinality
  <2> QED BY <2>1 DEF F!ArgumentsBefore
<1>2. Len(v1) \in Nat
  BY DEF AskedInv
<1>3. ASSUME NEW k \in Nat \ {0}
      PROVE  IsFiniteSet(A(k)) /\ Cardinality(A(k)) \in 0 .. k - 1
  <2>1. IsFiniteSet(1 .. k - 1) /\ Cardinality(1 .. k - 1) = k - 1
    <3>1. 1 \in Int /\ k - 1 \in Int
      OBVIOUS
    <3>2. IsFiniteSet(1 .. k - 1)
          /\ Cardinality(1 .. k - 1) = IF 1 > k - 1 THEN 0 ELSE (k - 1) - 1 + 1
      BY <3>1, FS_Interval
    <3> QED BY <3>2
  <2>2. A(k) \in SUBSET (1 .. k - 1)
    OBVIOUS
  <2> HIDE DEF A
  <2>3. /\ IsFiniteSet(A(k)) /\ Cardinality(A(k)) <= Cardinality(1 .. k - 1)
    BY <2>1, <2>2, FS_Subset
  <2>4. Cardinality(A(k)) \in Nat
    BY <2>3, FS_CardinalityType
  <2> QED BY <2>1, <2>3, <2>4
<1>4. Cardinality(A(1)) = 0
  <2>1. A(1) = {}
    OBVIOUS
  <2> HIDE DEF A
  <2> QED BY <2>1, FS_EmptySet
<1>5. ASSUME NEW k \in 1 .. Len(v1)
      PROVE  Cardinality(A(k + 1)) = Cardinality(A(k)) + IF F!TakesArgument(v1[k]) THEN 1 ELSE 0
  <2>1. k \in Nat \ {0} /\ 1 .. k + 1 - 1 = (1 .. k - 1) \cup {k} /\ k \notin 1 .. k - 1
    BY <1>2
  <2>2. CASE F!TakesArgument(v1[k])
    <3>1. A(k + 1) = A(k) \cup {k} /\ k \notin A(k)
      BY <2>1, <2>2
    <3> HIDE DEF A
    <3>2. Cardinality(A(k + 1)) = Cardinality(A(k)) + 1
      BY <1>3, <2>1, <3>1, FS_AddElement
    <3> QED BY <2>2, <3>2
  <2>3. CASE ~F!TakesArgument(v1[k])
    <3>1. A(k + 1) = A(k)
      BY <2>1, <2>3
    <3>2. Cardinality(A(k)) \in Nat
      BY <1>3, <2>1
    <3> HIDE DEF A
    <3> QED BY <2>3, <3>1, <3>2
  <2> QED BY <2>2, <2>3
<1> HIDE DEF A
<1>6. \A k \in 1 .. Len(v1) + 1 : k \in Nat \ {0}
  BY <1>2
<1> QED BY <1>1, <1>3, <1>4, <1>5, <1>6

\* The list of what the directives mean.
LEMMA MeaningsAre ==
  ASSUME AskedInv
  PROVE  /\ Meanings \in Seq(Seq(Outputs)) /\ Len(Meanings) = Len(v1)
         /\ \A k \in 1 .. Len(v1) : Meanings[k] = F!Meaning(v1[k], F!ArgumentsBefore(k))
<1> DEFINE K == Seq(Outputs)
           M(k) == F!Meaning(v1[k], F!ArgumentsBefore(k))
<1>1. Len(v1) \in Nat /\ DOMAIN v1 = 1 .. Len(v1) /\ v2 \in Nat
  BY DEF AskedInv
<1>2. ASSUME NEW k \in 1 .. Len(v1) PROVE M(k) \in K
  <2>1. k \in 1 .. Len(v1) + 1
    BY <1>1
  <2>2. F!ArgumentsBefore(k) \in Nat
    BY <2>1, ArgumentsAre
  <2> QED BY <1>1, <2>2, DirectiveIs, MeaningIs
<1>3. Meanings = [k \in 1 .. Len(v1) |-> M(k)]
  BY <1>1 DEF Meanings
<1>4. \A k \in 1 .. Len(v1) : M(k) = F!Meaning(v1[k], F!ArgumentsBefore(k))
  OBVIOUS
<1> HIDE DEF K, M
<1>5. PICK l \in Nat : l = Len(v1)
  BY <1>1
<1>6. Meanings \in [1 .. l -> K] /\ \A k \in 1 .. l : Meanings[k] = M(k)
  BY <1>2, <1>3, <1>5
<1>7. Meanings \in Seq(K) /\ Len(Meanings) = l
  BY <1>6
<1> QED BY <1>4, <1>5, <1>6, <1>7 DEF K

(***************************************************************************)
(* Where the program is: in the k-th directive, d, with t characters and   *)
(* n arguments before it, which printed g, at the i-th character of d.     *)
(***************************************************************************)
Here(k, d, t, g, n) ==
  /\ k \in 1 .. Len(v1) /\ d = v1[k]
  /\ t = Len(Before(Texts, k)) /\ g = Before(Meanings, k) /\ n = F!ArgumentsBefore(k)

IsAt(k, d, t, g, n, i) ==
  /\ Here(k, d, t, g, n)
  /\ i \in Nat \ {0} /\ v4 = t + i /\ InDirective(d, i) /\ SoFar(g, n)

\* What is known there.
LEMMA HereIs ==
  ASSUME AskedInv, NEW k, NEW d, NEW t, NEW g, NEW n, Here(k, d, t, g, n)
  PROVE  /\ k \in Nat /\ k <= Len(v1) /\ t \in Nat /\ n \in Nat /\ n < Len(v1)
         /\ g \in Seq(Outputs) /\ IsDirective(d, k)
         /\ d.prefix \in Seq(FormatCharacters) /\ Len(d.prefix) \in Nat
         /\ d.letter \in Seq(FormatCharacters) /\ Len(d.letter) \in 0 .. 3
         /\ d.prefix # << >> => d.prefix \in F!Openings
         /\ IsMeaning(d, n) /\ F!Meaning(d, n) \in Seq(Outputs)
         /\ Len(Before(Texts, k + 1)) = t + Len(d.prefix) + Len(d.letter)
         /\ Before(Meanings, k + 1) = g \o F!Meaning(d, n)
         /\ F!ArgumentsBefore(k + 1) = n + IF F!TakesArgument(d) THEN 1 ELSE 0
<1>1. /\ k \in 1 .. Len(v1) /\ d = v1[k]
      /\ t = Len(Before(Texts, k)) /\ g = Before(Meanings, k) /\ n = F!ArgumentsBefore(k)
  BY DEF Here
<1>2. Len(v1) \in Nat /\ v2 \in Nat
  BY DEF AskedInv
<1>3. k \in Nat /\ k <= Len(v1) /\ k \in 1 .. Len(v1) + 1
  BY <1>1, <1>2
<1>4. n \in 0 .. k - 1
  BY <1>1, <1>3, ArgumentsAre
<1>5. n \in Nat /\ n < Len(v1)
  BY <1>2, <1>3, <1>4
<1>6. F!ArgumentsBefore(k + 1) = n + IF F!TakesArgument(d) THEN 1 ELSE 0
  BY <1>1, ArgumentsAre
<1>7. t \in Nat /\ Len(Before(Texts, k + 1)) = t + Len(d.prefix) + Len(d.letter)
  BY <1>1, CharacterAt
<1>8. IsDirective(d, k)
  BY <1>1, DirectiveIs
<1>9. IsMeaning(d, n) /\ F!Meaning(d, n) \in Seq(Outputs)
  BY <1>2, <1>5, <1>8, MeaningIs
<1>10. g \in Seq(Outputs) /\ Before(Meanings, k + 1) = g \o F!Meaning(d, n)
  <2>1. /\ Meanings \in Seq(Seq(Outputs)) /\ Len(Meanings) = Len(v1)
        /\ Meanings[k] = F!Meaning(d, n)
    BY <1>1, MeaningsAre
  <2>2. k \in 1 .. Len(Meanings) + 1 /\ k \in 1 .. Len(Meanings)
    BY <1>1, <1>3, <2>1
  <2>3. Before(Meanings, k) \in Seq(Outputs)
        /\ Before(Meanings, k + 1) = Before(Meanings, k) \o Meanings[k]
    BY <2>1, <2>2, BeforeIs
  <2> QED BY <1>1, <2>1, <2>3
<1>11. /\ d.prefix \in Seq(FormatCharacters) /\ Len(d.prefix) \in Nat
       /\ d.letter \in Seq(FormatCharacters) /\ Len(d.letter) \in 0 .. 3
       /\ d.prefix # << >> => d.prefix \in F!Openings
  BY <1>8, PartsAre
<1> QED BY <1>3, <1>5, <1>6, <1>7, <1>8, <1>9, <1>10, <1>11

\* The characters of the format at the place of a directive are those of the
\* directive.
LEMMA CharacterHere ==
  ASSUME AskedInv, NEW k, NEW d, NEW t, NEW g, NEW n, Here(k, d, t, g, n)
  PROVE  /\ \A i \in 1 .. Len(d.prefix) : F!At(t + i) = d.prefix[i]
         /\ \A i \in 1 .. Len(d.letter) : F!At(t + Len(d.prefix) + i) = d.letter[i]
         /\ k = Len(v1) => F!At(t + Len(d.prefix) + Len(d.letter) + 1) = "NUL"
<1>1. k \in 1 .. Len(v1) /\ d = v1[k] /\ t = Len(Before(Texts, k))
  BY DEF Here
<1>2. \A i \in 1 .. Len(d.prefix) : F!At(t + i) = d.prefix[i]
  BY <1>1, CharacterAt
<1>3. \A i \in 1 .. Len(d.letter) : F!At(t + Len(d.prefix) + i) = d.letter[i]
  BY <1>1, CharacterAt
<1>4. k = Len(v1) => F!At(t + Len(d.prefix) + Len(d.letter) + 1) = "NUL"
  BY <1>1, CharacterAt
<1> QED BY <1>2, <1>3, <1>4

\* At each step the program looks at the end of the format or at a character
\* of a directive.
LEMMA Situation ==
  ASSUME FormatInv, v3 \notin {"end", "beyond"}
  PROVE  \/ v3 = "text" /\ F!At(v4) = "NUL"
         \/ \E k, d, t, g, n, i : IsAt(k, d, t, g, n, i)
<1>1. AskedInv /\ F!TypeOK
  BY DEF FormatInv
<1>2. PICK k \in 1 .. Len(v1) + 1 : InDirectiveNo(k)
  BY DEF FormatInv
<1>3. Len(v1) \in Nat
  BY <1>1 DEF AskedInv
<1>4. CASE k > Len(v1)
  <2>1. k = Len(v1) + 1
    BY <1>2, <1>3, <1>4
  <2>2. v3 = "text" /\ v4 = Len(Before(Texts, Len(v1) + 1)) + 1
    <3>1. v3 = "text"
      BY <1>2, <1>4 DEF InDirectiveNo
    <3> QED BY <1>2, <1>4, <2>1, <3>1 DEF InDirectiveNo
  <2> QED BY <1>1, <2>2, BehindAll
<1>5. CASE ~(k > Len(v1))
  <2> DEFINE t == Len(Before(Texts, k))
             g == Before(Meanings, k)
             n == F!ArgumentsBefore(k)
             i == v4 - t
  <2>1. k \in 1 .. Len(v1)
    BY <1>2, <1>3, <1>5
  <2>2. SoFar(g, n) /\ v4 > t /\ InDirective(v1[k], i)
    BY <1>2, <1>5 DEF InDirectiveNo
  <2>3. Here(k, v1[k], t, g, n)
    BY <2>1 DEF Here
  <2>4. t \in Nat
    BY <1>1, <2>3, HereIs
  <2>5. v4 \in Nat
    BY <1>1 DEF F!TypeOK
  <2> HIDE DEF t
  <2>6. i \in Nat \ {0} /\ v4 = t + i
    BY <2>2, <2>4, <2>5
  <2> HIDE DEF i, g, n
  <2>7. IsAt(k, v1[k], t, g, n, i)
    BY <2>2, <2>3, <2>6 DEF IsAt
  <2> QED BY <2>7
<1> QED BY <1>4, <1>5

\* The formats and their meaning stay.
LEMMA AskedStays ==
  ASSUME AskedInv, v1' = v1, v2' = v2
  PROVE  /\ AskedInv' /\ Texts' = Texts /\ Meanings' = Meanings
         /\ \A k : F!ArgumentsBefore(k)' = F!ArgumentsBefore(k)
         /\ F!EndsBehindLong' = F!EndsBehindLong
<1>1. AskedInv'
  BY DEF AskedInv
<1>2. Texts' = Texts
  BY DEF Texts
<1>3. Meanings' = Meanings
  BY DEF Meanings, F!Meaning, F!ArgumentsBefore
<1>4. \A k : F!ArgumentsBefore(k)' = F!ArgumentsBefore(k)
  BY DEF F!ArgumentsBefore
<1>5. F!EndsBehindLong' = F!EndsBehindLong
  BY DEF F!EndsBehindLong
<1> QED BY <1>1, <1>2, <1>3, <1>4, <1>5

\* A step to the j-th character of the same directive.
LEMMA SameDirective ==
  ASSUME AskedInv, v1' = v1, v2' = v2, F!TypeOK',
         NEW k, NEW d, NEW t, NEW g, NEW n, Here(k, d, t, g, n),
         NEW j \in Nat \ {0}, v4' = t + j, InDirective(d, j)', SoFar(g, n)'
  PROVE  FormatInv'
<1>1. /\ AskedInv' /\ Texts' = Texts /\ Meanings' = Meanings
      /\ F!ArgumentsBefore(k)' = F!ArgumentsBefore(k)
  BY AskedStays
<1>2. /\ k \in 1 .. Len(v1) /\ d = v1[k]
      /\ t = Len(Before(Texts, k)) /\ g = Before(Meanings, k) /\ n = F!ArgumentsBefore(k)
      /\ t \in Nat /\ Len(v1) \in Nat
  BY HereIs DEF Here, AskedInv
<1>3. Before(Texts, k)' = Before(Texts, k) /\ Before(Meanings, k)' = Before(Meanings, k)
  BY <1>1 DEF Before
<1>4. k \in 1 .. Len(v1)' + 1 /\ ~(k > Len(v1)')
  BY <1>2
<1>5. v4' > t /\ v4' - t = j
  BY <1>2
<1>6. InDirectiveNo(k)'
  <2>1. SoFar(Before(Meanings, k), F!ArgumentsBefore(k))'
    BY <1>1, <1>2, <1>3 DEF SoFar
  <2>2. v4' > Len(Before(Texts, k)')
    BY <1>2, <1>3, <1>5
  <2>3. InDirective(v1[k], v4 - Len(Before(Texts, k)))'
    <3>1. v1'[k] = d /\ v4' - Len(Before(Texts, k)') = j
      BY <1>2, <1>3, <1>5
    <3> QED BY <3>1 DEF InDirective
  <2> QED BY <1>4, <2>1, <2>2, <2>3 DEF InDirectiveNo
<1> QED BY <1>1, <1>4, <1>6 DEF FormatInv

\* A step behind the directive; the program is at its end only behind the last
\* one, and behind the end only if that ends within %l or %ll.
LEMMA NextDirective ==
  ASSUME AskedInv, v1' = v1, v2' = v2, F!TypeOK',
         NEW k, NEW d, NEW t, NEW g, NEW n, Here(k, d, t, g, n),
         IF d.letter \in F!OnlyLong THEN v3' = "beyond"
         ELSE v3' = "text" \/ (v3' = "end" /\ k = Len(v1)),
         v4' = t + Len(d.prefix) + Len(d.letter) + IF v3' = "beyond" THEN 2 ELSE 1,
         v6' = n + IF F!TakesArgument(d) THEN 1 ELSE 0,
         v8' = g \o F!Meaning(d, n)
  PROVE  FormatInv'
<1>1. /\ AskedInv' /\ Texts' = Texts /\ Meanings' = Meanings
      /\ F!ArgumentsBefore(k + 1)' = F!ArgumentsBefore(k + 1)
      /\ F!EndsBehindLong' = F!EndsBehindLong
  BY AskedStays
<1>2. /\ k \in 1 .. Len(v1) /\ Len(v1) \in Nat
      /\ Len(Before(Texts, k + 1)) = t + Len(d.prefix) + Len(d.letter)
      /\ Len(d.prefix) \in Nat /\ Len(d.letter) \in Nat /\ t \in Nat
      /\ Before(Meanings, k + 1) = g \o F!Meaning(d, n)
      /\ F!ArgumentsBefore(k + 1) = n + IF F!TakesArgument(d) THEN 1 ELSE 0
  <2>1. k \in 1 .. Len(v1) /\ Len(v1) \in Nat
    BY DEF Here, AskedInv
  <2>2. Len(d.letter) \in 0 .. 3
    BY HereIs
  <2>3. Len(d.letter) \in Nat
    BY <2>2
  <2>4. /\ Len(Before(Texts, k + 1)) = t + Len(d.prefix) + Len(d.letter)
        /\ Len(d.prefix) \in Nat /\ t \in Nat
    BY HereIs
  <2>5. /\ Before(Meanings, k + 1) = g \o F!Meaning(d, n)
        /\ F!ArgumentsBefore(k + 1) = n + IF F!TakesArgument(d) THEN 1 ELSE 0
    BY HereIs
  <2> QED BY <2>1, <2>3, <2>4, <2>5
<1>3. /\ Before(Texts, k + 1)' = Before(Texts, k + 1)
      /\ Before(Meanings, k + 1)' = Before(Meanings, k + 1)
  BY <1>1 DEF Before
<1>4. k + 1 \in 1 .. Len(v1)' + 1
  BY <1>2
<1>5. v4' = Len(Before(Texts, k + 1)') + IF v3' = "beyond" THEN 2 ELSE 1
  BY <1>2, <1>3
<1>6. SoFar(Before(Meanings, k + 1), F!ArgumentsBefore(k + 1))'
  BY <1>1, <1>2, <1>3 DEF SoFar
<1>7. InDirectiveNo(k + 1)'
  <2>1. CASE k = Len(v1)
    <3>1. k + 1 > Len(v1)'
      BY <1>2, <2>1
    <3>2. F!EndsBehindLong <=> d.letter \in F!OnlyLong
      <4>1. d = v1[Len(v1)] /\ v1 # << >>
        BY <1>2, <2>1 DEF Here
      <4> QED BY <4>1 DEF F!EndsBehindLong
    <3>3. IF F!EndsBehindLong' THEN v3' = "beyond" ELSE v3' \in {"text", "end"}
      BY <1>1, <3>2
    <3> QED BY <1>5, <1>6, <3>1, <3>3 DEF InDirectiveNo
  <2>2. CASE k # Len(v1)
    <3>1. ~(k + 1 > Len(v1)')
      BY <1>2, <2>2
    <3>2. v3' = "text"
      BY <1>2, <2>2, HereIs, PartsAre
    <3>3. v4' > Len(Before(Texts, k + 1)') /\ v4' - Len(Before(Texts, k + 1)') = 1
      <4>1. PICK l : l = Len(Before(Texts, k + 1)')
        OBVIOUS
      <4>2. l \in Nat
        <5>1. l = t + Len(d.prefix) + Len(d.letter)
          BY <1>2, <1>3, <4>1
        <5>2. \A a, b, c \in Nat : a + b + c \in Nat
          OBVIOUS
        <5>3. t \in Nat /\ Len(d.prefix) \in Nat /\ Len(d.letter) \in Nat
          BY <1>2
        <5> QED BY <5>1, <5>2, <5>3
      <4>3. v4' = l + 1
        BY <1>5, <3>2, <4>1
      <4>4. v4' > l /\ v4' - l = 1
        BY <4>2, <4>3
      <4> QED BY <4>1, <4>4
    <3>4. InDirective(v1[k + 1], v4 - Len(Before(Texts, k + 1)))'
      BY <3>2, <3>3 DEF InDirective
    <3> QED BY <1>6, <3>1, <3>3, <3>4 DEF InDirectiveNo
  <2> QED BY <2>1, <2>2
<1> QED BY <1>1, <1>4, <1>7 DEF FormatInv

\* Initially the program is at the first character of the first directive.
LEMMA FormatInit ==
  ASSUME F!Init
  PROVE  FormatInv
<1> DEFINE V == F!Directives \cup F!CutOff
<1>1. PICK n \in 0 .. MaxDirectives :
        v1 \in [1 .. n -> F!Directives]
               \cup {Append(a, d) : a \in [1 .. n - 1 -> F!Directives],
                                    d \in IF n = 0 THEN {} ELSE F!CutOff}
  BY DEF F!Init
<1>2. v2 \in Lengths /\ v3 = "text" /\ v4 = 1 /\ v5 = 0 /\ v6 = 0 /\ v7 = 1 /\ v8 = << >>
  BY DEF F!Init
<1>3. n \in Nat /\ v2 \in Nat
  BY <1>1, <1>2, FormatFacts
<1>4. /\ v1 \in Seq(V) /\ Len(v1) \in Nat
      /\ \A j \in 1 .. Len(v1) - 1 : v1[j] \in F!Directives
  <2>1. CASE v1 \in [1 .. n -> F!Directives]
    <3>1. \A j \in 1 .. n : v1[j] \in F!Directives
      BY <2>1
    <3>2. v1 \in [1 .. n -> V]
      BY <2>1, <3>1
    <3> HIDE DEF V
    <3>3. v1 \in Seq(V) /\ Len(v1) = n
      BY <1>3, <3>2
    <3> QED BY <1>3, <3>1, <3>3
  <2>2. CASE n # 0 /\ v1 \in {Append(a, d) : a \in [1 .. n - 1 -> F!Directives], d \in F!CutOff}
    <3>1. PICK a \in [1 .. n - 1 -> F!Directives], d \in F!CutOff : v1 = Append(a, d)
      BY <2>2
    <3>2. \A j \in 1 .. n - 1 : a[j] \in F!Directives
      BY <3>1
    <3>3. a \in [1 .. n - 1 -> V] /\ d \in V
      BY <3>1, <3>2
    <3>4. PICK l \in Nat : l = n - 1
      BY <1>3, <2>2
    <3> HIDE DEF V
    <3>5. a \in Seq(V) /\ Len(a) = l
      BY <3>3, <3>4
    <3>6. /\ v1 \in Seq(V) /\ Len(v1) = l + 1
          /\ \A j \in 1 .. l : v1[j] = a[j]
      BY <3>1, <3>3, <3>5, AppendProperties
    <3>7. \A j \in 1 .. l : v1[j] \in F!Directives
      BY <3>2, <3>4, <3>6
    <3> QED BY <3>4, <3>6, <3>7
  <2> QED BY <1>1, <2>1, <2>2
<1>5. AskedInv
  BY <1>3, <1>4 DEF AskedInv
<1>6. F!TypeOK
  BY <1>2, <1>4 DEF F!TypeOK
<1>7. /\ Before(Texts, 1) = << >> /\ Before(Meanings, 1) = << >>
      /\ F!ArgumentsBefore(1) = 0
  BY <1>5, TextsAre, MeaningsAre, ArgumentsAre, BeforeIs
<1>8. Len(Before(Texts, 1)) = 0
  BY <1>7
<1>9. SoFar(Before(Meanings, 1), F!ArgumentsBefore(1))
  BY <1>2, <1>7 DEF SoFar
<1>10. InDirectiveNo(1)
  <2>1. v4 > Len(Before(Texts, 1)) /\ v4 - Len(Before(Texts, 1)) = 1
        /\ v4 = Len(Before(Texts, 1)) + 1
    BY <1>2, <1>8
  <2>2. InDirective(v1[1], v4 - Len(Before(Texts, 1)))
    BY <1>2, <2>1 DEF InDirective
  <2>3. 1 > Len(v1) => ~F!EndsBehindLong
    <3>1. 1 > Len(v1) => v1 = << >>
      BY <1>4
    <3> QED BY <3>1 DEF F!EndsBehindLong
  <2> QED BY <1>2, <1>9, <2>1, <2>2, <2>3 DEF InDirectiveNo
<1>11. 1 \in 1 .. Len(v1) + 1
  BY <1>4
<1> QED BY <1>5, <1>6, <1>10, <1>11 DEF FormatInv

\* The character behind a prefix belongs to none.
LEMMA AfterPrefix ==
  ASSUME AskedInv, NEW k, NEW d, NEW t, NEW g, NEW n, Here(k, d, t, g, n),
         d.prefix # << >>, NEW c, c = F!At(t + Len(d.prefix) + 1)
  PROVE  /\ c \notin Flags /\ c \notin DOMAIN F!Digit /\ c # "."
         /\ d.letter = << >> => c = "NUL" /\ k = Len(v1)
         /\ d.letter # << >> => /\ d.letter \in F!Letters \cup F!OnlyLong
                               /\ c = d.letter[1] /\ c # "NUL"
<1>1. CASE d.letter = << >>
  <2>2. k = Len(v1)
    BY <1>1, HereIs, PartsAre
  <2>1. c = "NUL"
    <3>1. F!At(t + Len(d.prefix) + Len(d.letter) + 1) = "NUL"
      BY <2>2, CharacterHere
    <3>2. Len(d.letter) = 0 /\ t \in Nat /\ Len(d.prefix) \in Nat
      BY <1>1, HereIs
    <3>3. t + Len(d.prefix) + Len(d.letter) + 1 = t + Len(d.prefix) + 1
      BY <3>2
    <3> QED BY <3>1, <3>3
  <2>3. "NUL" \notin DOMAIN F!Digit
    BY FormatFacts
  <2>4. "NUL" \notin Flags
    BY FormatFacts
  <2> QED BY <1>1, <2>1, <2>2, <2>3, <2>4
<1>2. CASE d.letter # << >>
  <2>1. d.letter \in F!Letters \cup F!OnlyLong
    BY <1>2, HereIs DEF IsDirective
  <2> DEFINE x == d.letter
  <2>2. /\ Len(x) \in 1 .. 3
        /\ Len(x) = 1 => x[1] \in Simple \cup {"s", "%"} \cup Unknown \cup {"l"}
        /\ Len(x) = 2 => x[1] = "l"
        /\ Len(x) = 3 => x[1] = "l"
    <3>1. d.letter \in F!OnlyLong => x[1] = "l" /\ Len(x) \in 1 .. 2
      BY OnlyLongIs
    <3> QED BY <2>1, <3>1, LettersAre
  <2>3. x[1] \in Simple \cup LongLong \cup Unknown \cup {"s", "l", "%"}
    <3> HIDE DEF x
    <3> QED BY <2>2
  <2>4. c = x[1]
    <3>1. 1 \in 1 .. Len(x)
      <4> HIDE DEF x
      <4> QED BY <2>2
    <3>2. \A i \in 1 .. Len(d.letter) : F!At(t + Len(d.prefix) + i) = d.letter[i]
      BY CharacterHere
    <3> QED BY <3>1, <3>2
  <2> HIDE DEF x
  <2>5. c \notin Flags /\ c \notin DOMAIN F!Digit /\ c \notin {".", "NUL"}
    BY <2>3, <2>4, FormatFacts
  <2> QED BY <1>2, <2>1, <2>4, <2>5 DEF x
<1> QED BY <1>1, <1>2

\* The i-th character of a directive d is in a prefix with its width from e to m.
PrefixHere(d, t, e, m, i) ==
  /\ d.prefix # << >> /\ m \in Nat /\ e \in Nat /\ e <= m /\ m <= Len(d.prefix) + 1
  /\ Len(d.prefix) \in Nat
  /\ i = 1 => F!At(t + i) = "%"
  /\ i = 2 => (F!At(t + i) \in Flags <=> e = 3)
  /\ i >= e /\ i < m => F!At(t + i) \in DOMAIN F!Digit
  /\ i = m => F!At(t + i) \notin DOMAIN F!Digit /\ (F!At(t + i) = "." <=> m <= Len(d.prefix))
  /\ i > m /\ i <= Len(d.prefix) =>
       F!At(t + i) = d.prefix[i] /\ F!At(t + i) \in DOMAIN F!Digit
  /\ i = Len(d.prefix) + 1 => F!At(t + i) \notin DOMAIN F!Digit

\* Which character of a directive's flags, width and accuracy the i-th one
\* is.
LEMMA InPrefix ==
  ASSUME AskedInv, NEW k, NEW d, NEW t, NEW g, NEW n, Here(k, d, t, g, n),
         NEW e \in 2 .. 3, NEW m, IsOpening(d.prefix, e, m), NEW i \in Nat \ {0}
  PROVE  PrefixHere(d, t, e, m, i)
<1> DEFINE p == d.prefix
<1>1. /\ p \in Seq(FormatCharacters) /\ m \in e .. Len(p) + 1 /\ p[1] = "%"
      /\ e = 2 \/ (e = 3 /\ p[2] \in Flags)
      /\ \A j \in e .. m - 1 : p[j] \in DOMAIN F!Digit
      /\ m <= Len(p) => p[m] = "."
      /\ \A j \in m + 1 .. Len(p) : p[j] \in DOMAIN F!Digit
  BY DEF IsOpening
<1>2. /\ Len(p) \in Nat /\ e \in Nat /\ m \in Nat /\ e <= m /\ m <= Len(p) + 1
      /\ e >= 2 /\ e <= 3 /\ t \in Nat
  <2>1. Len(p) \in Nat /\ t \in Nat
    BY HereIs
  <2> HIDE DEF p
  <2> QED BY <1>1, <2>1
<1>3. p # << >>
  <2> HIDE DEF p
  <2>1. Len(p) # 0
    BY <1>2
  <2>2. Len(<< >>) = 0
    OBVIOUS
  <2> QED BY <2>1, <2>2
<1> DEFINE c == F!At(t + i)
<1>4. i \in 1 .. Len(p) => c = p[i]
  BY CharacterHere
<1>5. i = Len(p) + 1 => c \notin Flags /\ c \notin DOMAIN F!Digit /\ c # "."
  <2> SUFFICES ASSUME i = Len(p) + 1
               PROVE  c \notin Flags /\ c \notin DOMAIN F!Digit /\ c # "."
    OBVIOUS
  <2>1. t + i = t + Len(p) + 1
    <3> HIDE DEF p
    <3> QED BY <1>2
  <2>2. c = F!At(t + Len(d.prefix) + 1)
    BY <2>1
  <2> QED BY <1>3, <2>2, AfterPrefix
<1> HIDE DEF p, c
<1>6. i = 1 => c = "%"
  BY <1>1, <1>2, <1>4
<1>7. i = 2 => (c \in Flags <=> e = 3)
  <2> SUFFICES ASSUME i = 2 PROVE c \in Flags <=> e = 3
    OBVIOUS
  <2>1. CASE e = 3
    <3>1. i \in 1 .. Len(p)
      BY <1>2, <2>1
    <3> QED BY <1>1, <1>4, <2>1, <3>1
  <2>2. CASE e # 3
    <3>0. e = 2
      BY <1>1, <2>2
    <3>1. CASE m > 2
      <4>1. i \in 1 .. Len(p) /\ i \in e .. m - 1
        BY <1>2, <3>0, <3>1
      <4>2. c \in DOMAIN F!Digit
        BY <1>1, <1>4, <4>1
      <4> QED BY <2>2, <4>2, FormatFacts
    <3>2. CASE m = 2 /\ m <= Len(p)
      <4>1. i \in 1 .. Len(p) /\ c = "."
        BY <1>1, <1>2, <1>4, <3>2
      <4> QED BY <2>2, <4>1, FormatFacts
    <3>3. CASE m = 2 /\ ~(m <= Len(p))
      <4>1. i = Len(p) + 1
        BY <1>2, <3>3
      <4> QED BY <1>5, <2>2, <4>1
    <3> QED BY <1>2, <3>0, <3>1, <3>2, <3>3
  <2> QED BY <2>1, <2>2
<1>8. i >= e /\ i < m => c \in DOMAIN F!Digit
  <2> SUFFICES ASSUME i >= e, i < m PROVE c \in DOMAIN F!Digit
    OBVIOUS
  <2>1. i \in e .. m - 1 /\ i \in 1 .. Len(p)
    BY <1>2
  <2> QED BY <1>1, <1>4, <2>1
<1>9. i = m => c \notin DOMAIN F!Digit /\ (c = "." <=> m <= Len(p))
  <2> SUFFICES ASSUME i = m PROVE c \notin DOMAIN F!Digit /\ (c = "." <=> m <= Len(p))
    OBVIOUS
  <2>1. CASE m <= Len(p)
    <3>1. i \in 1 .. Len(p)
      BY <1>2, <2>1
    <3>2. c = "."
      BY <1>1, <1>4, <2>1, <3>1
    <3> QED BY <2>1, <3>2, FormatFacts
  <2>2. CASE ~(m <= Len(p))
    <3>1. i = Len(p) + 1
      BY <1>2, <2>2
    <3> QED BY <1>5, <2>2, <3>1
  <2> QED BY <2>1, <2>2
<1>10. i > m /\ i <= Len(p) => c = p[i] /\ c \in DOMAIN F!Digit
  <2> SUFFICES ASSUME i > m, i <= Len(p) PROVE c = p[i] /\ c \in DOMAIN F!Digit
    OBVIOUS
  <2>1. i \in m + 1 .. Len(p) /\ i \in 1 .. Len(p)
    BY <1>2
  <2> QED BY <1>1, <1>4, <2>1
<1> QED BY <1>2, <1>3, <1>5, <1>6, <1>7, <1>8, <1>9, <1>10 DEF p, c, PrefixHere

\* The first character of a directive says whether it is a conversion.
LEMMA FirstCharacter ==
  ASSUME AskedInv, NEW k, NEW d, NEW t, NEW g, NEW n, Here(k, d, t, g, n)
  PROVE  /\ d.prefix = << >> => /\ d.letter = <<d.letter[1]>> /\ Len(d.letter) = 1
                               /\ Len(d.prefix) = 0 /\ F!At(t + 1) = d.letter[1]
                               /\ F!At(t + 1) \in Unknown
         /\ d.prefix # << >> =>
              /\ F!At(t + 1) = "%"
              /\ \E e \in 2 .. 3, m \in 2 .. Len(d.prefix) + 1 : IsOpening(d.prefix, e, m)
<1>1. CASE d.prefix # << >>
  <2>1. d.prefix \in F!Openings
    BY <1>1, HereIs
  <2>2. PICK e \in 2 .. 3, m \in 2 .. Len(d.prefix) + 1 : IsOpening(d.prefix, e, m)
    BY <2>1, OpeningIs
  <2>3. 1 \in Nat \ {0}
    OBVIOUS
  <2>4. PrefixHere(d, t, e, m, 1)
    BY <2>2, <2>3, InPrefix
  <2>5. F!At(t + 1) = "%"
    BY <2>4 DEF PrefixHere
  <2> QED BY <1>1, <2>2, <2>5
<1>2. CASE d.prefix = << >>
  <2>1. d.prefix \notin F!Openings
    <3> SUFFICES ASSUME d.prefix \in F!Openings PROVE FALSE
      OBVIOUS
    <3>1. PICK e \in 2 .. 3, m \in 2 .. Len(d.prefix) + 1 : IsOpening(d.prefix, e, m)
      BY OpeningIs
    <3>2. 1 \in Nat \ {0}
      OBVIOUS
    <3>3. PrefixHere(d, t, e, m, 1)
      BY <3>1, <3>2, InPrefix
    <3> QED BY <1>2, <3>3 DEF PrefixHere
  <2>2. d.letter = <<d.letter[1]>> /\ d.letter[1] \in Unknown
    BY <2>1, HereIs DEF IsDirective
  <2>3. Len(<<d.letter[1]>>) = 1 /\ Len(d.prefix) = 0
    BY <1>2
  <2>4. 1 \in 1 .. Len(d.letter) /\ Len(d.letter) = 1
    <3>1. Len(d.letter) = 1
      BY <2>2, <2>3
    <3> QED BY <3>1
  <2>5. F!At(t + Len(d.prefix) + 1) = d.letter[1]
    BY <2>4, CharacterHere
  <2>6. t + Len(d.prefix) + 1 = t + 1
    <3>1. t \in Nat
      BY HereIs
    <3> QED BY <2>3, <3>1
  <2> QED BY <1>2, <2>2, <2>3, <2>4, <2>5, <2>6
<1> QED BY <1>1, <1>2

\* What a step does not change.
LEMMA FormatTypes ==
  ASSUME FormatInv
  PROVE  /\ AskedInv /\ F!TypeOK /\ Len(v1) \in Nat /\ v2 \in Nat
         /\ v4 \in Nat \ {0} /\ v5 \in Nat /\ v7 \in Nat \ {0} /\ v6 \in 0 .. Len(v1)
  BY DEF FormatInv, AskedInv, F!TypeOK

\* Where the program is when it looks at a character that is not the last.
LEMMA Somewhere ==
  ASSUME FormatInv, v3 \notin {"text", "end", "beyond"} \/ (v3 = "text" /\ F!At(v4) # "NUL")
  PROVE  \E k, d, t, g, n, i : IsAt(k, d, t, g, n, i)
  BY Situation

\* A character outside of a conversion is printed as it stands.
LEMMA FormatText ==
  ASSUME FormatInv, F!Text
  PROVE  FormatInv'
<1>1. /\ v3 = "text" /\ F!At(v4) \notin {"%", "NUL"}
      /\ v8' = Append(v8, <<F!At(v4)>>) /\ v4' = v4 + 1
      /\ v1' = v1 /\ v2' = v2 /\ v3' = v3 /\ v5' = v5 /\ v6' = v6 /\ v7' = v7
  BY DEF F!Text
<1>2. PICK k, d, t, g, n, i : IsAt(k, d, t, g, n, i)
  BY <1>1, Somewhere
<1>3. /\ Here(k, d, t, g, n) /\ i \in Nat \ {0} /\ v4 = t + i /\ i = 1 /\ v6 = n /\ v8 = g
  BY <1>1, <1>2 DEF IsAt, InDirective, SoFar
<1>4. AskedInv /\ v4 \in Nat
  BY FormatTypes
<1>5. F!TypeOK'
  BY <1>1, <1>4, FormatTypes DEF F!TypeOK
<1>6. /\ d.prefix = << >> /\ Len(d.prefix) = 0 /\ Len(d.letter) = 1
      /\ F!At(v4) = d.letter[1]
  BY <1>1, <1>3, <1>4, FirstCharacter
<1>7. /\ IsMeaning(d, n) /\ g \in Seq(Outputs) /\ n \in Nat /\ t \in Nat
      /\ IsDirective(d, k) /\ F!Meaning(d, n) \in Seq(Outputs)
  BY <1>3, <1>4, HereIs
<1>8. /\ F!Meaning(d, n) = <<<<d.letter[1]>>>> /\ ~F!TakesArgument(d)
  BY <1>6, <1>7 DEF IsMeaning
<1>11. v8' = g \o F!Meaning(d, n)
  <2> DEFINE y == <<d.letter[1]>>
  <2>1. v8' = Append(g, y) /\ F!Meaning(d, n) = <<y>>
    BY <1>1, <1>3, <1>6, <1>8
  <2>2. y \in Outputs
    <3>1. F!Meaning(d, n)[1] = y /\ Len(F!Meaning(d, n)) = 1
      BY <2>1
    <3> HIDE DEF y
    <3> QED BY <1>7, <3>1, ElementOfSeq
  <2> HIDE DEF y
  <2>3. Append(g, y) = g \o <<y>>
    BY <1>7, <2>2, AppendIsConcat
  <2> QED BY <2>1, <2>3
<1>12. v4' = t + Len(d.prefix) + Len(d.letter) + 1
  BY <1>1, <1>3, <1>6, <1>7
<1>14. d.letter \notin F!OnlyLong
  <2>1. d.letter[1] \in Unknown
    BY <1>3, <1>4, <1>6, FirstCharacter
  <2> QED BY <2>1, OnlyLongIs, FormatFacts
<1>13. v6' = n + IF F!TakesArgument(d) THEN 1 ELSE 0
  BY <1>1, <1>3, <1>7, <1>8
<1> QED BY <1>1, <1>3, <1>4, <1>5, <1>11, <1>12, <1>13, <1>14, NextDirective

\* At the end of the format every directive was followed.
LEMMA FormatEnd ==
  ASSUME FormatInv, F!End
  PROVE  FormatInv'
<1>1. /\ v3 = "text" /\ F!At(v4) = "NUL" /\ v3' = "end"
      /\ v1' = v1 /\ v2' = v2 /\ v4' = v4 /\ v5' = v5 /\ v6' = v6 /\ v7' = v7 /\ v8' = v8
  BY DEF F!End
<1>2. AskedInv /\ Len(v1) \in Nat
  BY FormatTypes
<1>3. PICK k \in 1 .. Len(v1) + 1 : InDirectiveNo(k)
  BY DEF FormatInv
<1>4. k > Len(v1)
  <2> SUFFICES ASSUME ~(k > Len(v1)) PROVE FALSE
    OBVIOUS
  <2> DEFINE t == Len(Before(Texts, k))
             g == Before(Meanings, k)
             n == F!ArgumentsBefore(k)
             d == v1[k]
  <2>1. Here(k, d, t, g, n)
    BY <1>2, <1>3 DEF Here
  <2>2. v4 > t /\ InDirective(d, v4 - t)
    BY <1>3 DEF InDirectiveNo
  <2> HIDE DEF t, g, n, d
  <2>3. t \in Nat /\ v4 \in Nat
    BY <1>2, <2>1, HereIs, FormatTypes
  <2>4. v4 - t = 1
    BY <1>1, <2>2 DEF InDirective
  <2>5. v4 = t + 1
    BY <2>3, <2>4
  <2>6. F!At(t + 1) = "%" \/ F!At(t + 1) \in Unknown
    BY <1>2, <2>1, FirstCharacter
  <2> QED BY <1>1, <2>5, <2>6, FormatFacts
<1>5. /\ AskedInv' /\ Texts' = Texts /\ Meanings' = Meanings
      /\ F!ArgumentsBefore(k)' = F!ArgumentsBefore(k)
      /\ F!EndsBehindLong' = F!EndsBehindLong
  BY <1>1, <1>2, AskedStays
<1>6. F!TypeOK'
  BY <1>1, FormatTypes DEF F!TypeOK
<1>7. InDirectiveNo(k)'
  <2>1. /\ v4 = Len(Before(Texts, k)) + 1 /\ ~F!EndsBehindLong
        /\ SoFar(Before(Meanings, k), F!ArgumentsBefore(k))
    BY <1>1, <1>3, <1>4 DEF InDirectiveNo
  <2>2. Before(Texts, k)' = Before(Texts, k) /\ Before(Meanings, k)' = Before(Meanings, k)
    BY <1>5 DEF Before
  <2>3. SoFar(Before(Meanings, k), F!ArgumentsBefore(k))'
    BY <1>1, <1>5, <2>1, <2>2 DEF SoFar
  <2>4. k > Len(v1)' /\ v3' = "end" /\ v4' = Len(Before(Texts, k)') + 1 /\ ~F!EndsBehindLong'
    BY <1>1, <1>4, <1>5, <2>1, <2>2
  <2> QED BY <2>3, <2>4 DEF InDirectiveNo
<1>8. k \in 1 .. Len(v1)' + 1
  BY <1>1, <1>3
<1> QED BY <1>5, <1>6, <1>7, <1>8 DEF FormatInv

\* Behind the % that begins a conversion a flag is skipped.
LEMMA FormatFlag ==
  ASSUME FormatInv, F!Flag
  PROVE  FormatInv'
<1>1. /\ v3 = "text" /\ F!At(v4) = "%" /\ v3' = "width"
      /\ v4' = IF F!At(v4 + 1) \in Flags THEN v4 + 2 ELSE v4 + 1
      /\ v1' = v1 /\ v2' = v2 /\ v5' = v5 /\ v6' = v6 /\ v7' = v7 /\ v8' = v8
  BY DEF F!Flag
<1>2. PICK k, d, t, g, n, i : IsAt(k, d, t, g, n, i)
  BY <1>1, Somewhere
<1>3. /\ Here(k, d, t, g, n) /\ v4 = t + i /\ i = 1 /\ v6 = n /\ v8 = g
  BY <1>1, <1>2 DEF IsAt, InDirective, SoFar
<1>4. AskedInv /\ v4 \in Nat \ {0} /\ t \in Nat
  BY <1>3, FormatTypes, HereIs
<1>5. F!TypeOK'
  BY <1>1, <1>4, FormatTypes DEF F!TypeOK
<1>6. d.prefix # << >>
  <2>1. F!At(t + 1) = "%"
    BY <1>1, <1>3
  <2>2. F!At(t + 1) \notin Unknown
    BY <2>1, FormatFacts
  <2> QED BY <1>3, <1>4, <2>2, FirstCharacter
<1>7. PICK e \in 2 .. 3, m \in 2 .. Len(d.prefix) + 1 : IsOpening(d.prefix, e, m)
  BY <1>3, <1>4, <1>6, FirstCharacter
<1>70. PrefixHere(d, t, e, m, 2)
  <2>1. 2 \in Nat \ {0}
    OBVIOUS
  <2> QED BY <1>3, <1>4, <1>7, <2>1, InPrefix
<1>8. m \in Nat /\ e \in Nat /\ e <= m /\ (e = 2 \/ e = 3)
  BY <1>7, <1>70 DEF PrefixHere
<1>9. F!At(v4 + 1) \in Flags <=> e = 3
  <2>1. F!At(t + 2) \in Flags <=> e = 3
    BY <1>70 DEF PrefixHere
  <2>2. v4 + 1 = t + 2
    BY <1>3, <1>4
  <2> QED BY <2>1, <2>2
<1>10. v4' = t + e
  BY <1>1, <1>3, <1>4, <1>8, <1>9
<1>11. InDirective(d, e)'
  <2>1. e \in e .. m
    BY <1>8
  <2> QED BY <1>1, <1>6, <1>7, <2>1 DEF InDirective
<1>12. SoFar(g, n)'
  BY <1>1, <1>3 DEF SoFar
<1>13. e \in Nat \ {0}
  BY <1>8
<1> QED BY <1>1, <1>3, <1>4, <1>5, <1>10, <1>11, <1>12, <1>13, SameDirective

\* Skipping the width, and the dot behind it, keeps the invariant.
LEMMA FormatWidthAndDot ==
  ASSUME FormatInv, F!WidthAndDot
  PROVE  FormatInv'
<1>1. /\ v3 = "width"
      /\ IF F!At(v4) \in DOMAIN F!Digit THEN v4' = v4 + 1 /\ v3' = v3 /\ v5' = v5
         ELSE /\ v4' = IF F!At(v4) = "." THEN v4 + 1 ELSE v4
              /\ v3' = "accuracy" /\ v5' = 0
      /\ v1' = v1 /\ v2' = v2 /\ v6' = v6 /\ v7' = v7 /\ v8' = v8
  BY DEF F!WidthAndDot, F!IsDigit, F!NewAccuracy
<1>2. PICK k, d, t, g, n, i : IsAt(k, d, t, g, n, i)
  BY <1>1, Somewhere
<1>3. /\ Here(k, d, t, g, n) /\ i \in Nat \ {0} /\ v4 = t + i /\ v6 = n /\ v8 = g
      /\ d.prefix # << >>
  BY <1>1, <1>2 DEF IsAt, InDirective, SoFar
<1>4. AskedInv /\ v4 \in Nat \ {0} /\ t \in Nat
  BY <1>3, FormatTypes, HereIs
<1>5. F!TypeOK'
  BY <1>1, <1>4, FormatTypes DEF F!TypeOK
<1>6. PICK e \in 2 .. 3, m \in 2 .. Len(d.prefix) + 1 : IsOpening(d.prefix, e, m) /\ i \in e .. m
  BY <1>1, <1>2 DEF IsAt, InDirective
<1>7. /\ m \in Nat /\ e \in Nat /\ e <= m /\ m <= Len(d.prefix) + 1 /\ Len(d.prefix) \in Nat
      /\ i >= e /\ i < m => F!At(t + i) \in DOMAIN F!Digit
      /\ i = m => F!At(t + i) \notin DOMAIN F!Digit /\ (F!At(t + i) = "." <=> m <= Len(d.prefix))
  <2>1. PrefixHere(d, t, e, m, i)
    BY <1>3, <1>4, <1>6, InPrefix
  <2> QED BY <2>1 DEF PrefixHere
<1>8. SoFar(g, n)'
  BY <1>1, <1>3 DEF SoFar
<1>9. CASE i < m
  <2>1. v4' = v4 + 1 /\ v3' = "width"
    BY <1>1, <1>3, <1>6, <1>7, <1>9
  <2>2. i + 1 \in e .. m /\ i + 1 \in Nat \ {0} /\ v4' = t + (i + 1)
    BY <1>3, <1>4, <1>6, <1>7, <1>9, <2>1
  <2>3. InDirective(d, i + 1)'
    BY <1>3, <1>6, <2>1, <2>2 DEF InDirective
  <2> QED BY <1>1, <1>3, <1>4, <1>5, <1>8, <2>2, <2>3, SameDirective
<1>10. CASE i = m /\ m <= Len(d.prefix)
  <2>1. v4' = v4 + 1 /\ v3' = "accuracy" /\ v5' = 0
    BY <1>1, <1>3, <1>7, <1>10
  <2>2. i + 1 \in m .. Len(d.prefix) + 1 /\ i + 1 > m /\ i + 1 \in Nat \ {0} /\ v4' = t + (i + 1)
    BY <1>3, <1>4, <1>7, <1>10, <2>1
  <2>3. ValueOf(DigitsBefore(d.prefix, m, i + 1), 10) = 0
    <3>1. DigitsBefore(d.prefix, m, m + 1) = << >>
      BY <1>6, AccuracyIs
    <3> QED BY <1>10, <3>1, ValueOfNothing
  <2>4. InDirective(d, i + 1)'
    BY <1>3, <1>6, <2>1, <2>2, <2>3 DEF InDirective
  <2> QED BY <1>1, <1>3, <1>4, <1>5, <1>8, <2>2, <2>4, SameDirective
<1>11. CASE i = m /\ ~(m <= Len(d.prefix))
  <2>1. v4' = t + i /\ v3' = "accuracy" /\ v5' = 0
    BY <1>1, <1>3, <1>7, <1>11
  <2>2. i \in m .. Len(d.prefix) + 1 /\ ~(i > m)
    BY <1>7, <1>11
  <2>3. InDirective(d, i)'
    BY <1>3, <1>6, <1>11, <2>1, <2>2 DEF InDirective
  <2> QED BY <1>1, <1>3, <1>4, <1>5, <1>8, <2>1, <2>3, SameDirective
<1>12. i < m \/ i = m
  BY <1>6, <1>7
<1> QED BY <1>9, <1>10, <1>11, <1>12

\* One more digit of the accuracy: it is what the digits behind the dot are
\* worth.
LEMMA FormatAccuracy ==
  ASSUME FormatInv, F!Accuracy
  PROVE  FormatInv'
<1>1. /\ v3 = "accuracy"
      /\ IF F!At(v4) \in DOMAIN F!Digit
         THEN v4' = v4 + 1 /\ v5' = v5 * 10 + F!Digit[F!At(v4)] /\ v3' = v3
         ELSE v3' = "conversion" /\ v4' = v4 /\ v5' = v5
      /\ v1' = v1 /\ v2' = v2 /\ v6' = v6 /\ v7' = v7 /\ v8' = v8
  BY DEF F!Accuracy, F!IsDigit
<1>2. PICK k, d, t, g, n, i : IsAt(k, d, t, g, n, i)
  BY <1>1, Somewhere
<1>3. /\ Here(k, d, t, g, n) /\ i \in Nat \ {0} /\ v4 = t + i /\ v6 = n /\ v8 = g
      /\ d.prefix # << >>
  BY <1>1, <1>2 DEF IsAt, InDirective, SoFar
<1>4. AskedInv /\ v4 \in Nat \ {0} /\ t \in Nat /\ v5 \in Nat
  BY <1>3, FormatTypes, HereIs
<1>5. F!TypeOK'
  <2>1. F!At(v4) \in DOMAIN F!Digit => F!Digit[F!At(v4)] \in Nat
    BY FormatFacts
  <2>2. v5' \in Nat /\ v4' \in Nat \ {0}
    BY <1>1, <1>4, <2>1
  <2>3. v3' \in {"accuracy", "conversion"}
    BY <1>1
  <2> QED BY <1>1, <2>2, <2>3, FormatTypes DEF F!TypeOK
<1>6. PICK e \in 2 .. 3, m \in 2 .. Len(d.prefix) + 1 :
        /\ IsOpening(d.prefix, e, m) /\ i \in m .. Len(d.prefix) + 1
        /\ m <= Len(d.prefix) => i > m
        /\ v5 = IF i > m THEN ValueOf(DigitsBefore(d.prefix, m, i), 10) ELSE 0
  BY <1>1, <1>2 DEF IsAt, InDirective
<1>7. /\ m \in Nat /\ e \in Nat /\ e <= m /\ m <= Len(d.prefix) + 1 /\ Len(d.prefix) \in Nat
      /\ i > m /\ i <= Len(d.prefix) =>
           F!At(t + i) = d.prefix[i] /\ F!At(t + i) \in DOMAIN F!Digit
      /\ i = Len(d.prefix) + 1 => F!At(t + i) \notin DOMAIN F!Digit
  <2>1. PrefixHere(d, t, e, m, i)
    BY <1>3, <1>4, <1>6, InPrefix
  <2> QED BY <2>1 DEF PrefixHere
<1>8. SoFar(g, n)'
  <2>1. v3' \in {"accuracy", "conversion"}
    BY <1>1
  <2> QED BY <1>1, <1>3, <2>1 DEF SoFar
<1>9. CASE i <= Len(d.prefix)
  <2>1. i > m /\ i \in m + 1 .. Len(d.prefix) /\ i \in m + 1 .. Len(d.prefix) + 1
    BY <1>3, <1>6, <1>7, <1>9
  <2>2. v4' = v4 + 1 /\ v5' = v5 * 10 + F!Digit[d.prefix[i]] /\ v3' = "accuracy"
        /\ F!Digit[d.prefix[i]] \in Nat
    BY <1>1, <1>3, <1>7, <1>9, <2>1, FormatFacts
  <2>3. i + 1 \in m .. Len(d.prefix) + 1 /\ i + 1 > m /\ i + 1 \in Nat \ {0} /\ v4' = t + (i + 1)
    <3>1. i \in Nat /\ i > m /\ i <= Len(d.prefix) /\ Len(d.prefix) \in Nat /\ m \in Nat
      BY <1>3, <1>7, <1>9, <2>1
    <3>2. v4' = v4 + 1 /\ v4 = t + i /\ t \in Nat
      BY <1>3, <1>4, <2>2
    <3>3. v4' = t + (i + 1)
      BY <3>1, <3>2
    <3> QED BY <3>1, <3>3
  <2>4. v5' = ValueOf(DigitsBefore(d.prefix, m, i + 1), 10)
    <3>1. /\ DigitsBefore(d.prefix, m, i) \in Seq(Nat)
          /\ DigitsBefore(d.prefix, m, i + 1)
               = Append(DigitsBefore(d.prefix, m, i), F!Digit[d.prefix[i]])
      BY <1>6, <2>1, AccuracyIs
    <3>2. 10 \in Nat
      OBVIOUS
    <3>3. ValueOf(DigitsBefore(d.prefix, m, i + 1), 10)
            = ValueOf(DigitsBefore(d.prefix, m, i), 10) * 10 + F!Digit[d.prefix[i]]
      <4>1. PICK c \in Nat : c = F!Digit[d.prefix[i]]
        BY <2>2
      <4>2. PICK b \in Seq(Nat) : b = DigitsBefore(d.prefix, m, i)
        BY <3>1
      <4>3. ValueOf(Append(b, c), 10) = ValueOf(b, 10) * 10 + c
        BY <3>2, ValueOfAppend
      <4> QED BY <3>1, <4>1, <4>2, <4>3
    <3>4. v5 = ValueOf(DigitsBefore(d.prefix, m, i), 10)
      BY <1>6, <2>1
    <3> QED BY <2>2, <3>3, <3>4
  <2>5. InDirective(d, i + 1)'
    BY <1>3, <1>6, <2>2, <2>3, <2>4 DEF InDirective
  <2> QED BY <1>1, <1>3, <1>4, <1>5, <1>8, <2>3, <2>5, SameDirective
<1>10. CASE ~(i <= Len(d.prefix))
  <2>1. i = Len(d.prefix) + 1
    BY <1>3, <1>6, <1>7, <1>10
  <2>2. v3' = "conversion" /\ v4' = t + i /\ v5' = v5
    BY <1>1, <1>3, <1>7, <2>1
  <2>3. v5 = F!AccuracyOf(d.prefix)
    <3>1. F!AccuracyOf(d.prefix) = IF m > Len(d.prefix) THEN 0
                                   ELSE ValueOf(DigitsBefore(d.prefix, m, Len(d.prefix) + 1), 10)
      BY <1>6, AccuracyIs
    <3>2. i > m <=> ~(m > Len(d.prefix))
      BY <1>7, <2>1
    <3>3. CASE i > m
      BY <1>6, <2>1, <3>1, <3>2, <3>3
    <3>4. CASE ~(i > m)
      BY <1>6, <3>1, <3>2, <3>4
    <3> QED BY <3>3, <3>4
  <2>4. InDirective(d, i)'
    BY <1>3, <2>1, <2>2, <2>3 DEF InDirective
  <2> QED BY <1>1, <1>3, <1>4, <1>5, <1>8, <2>2, <2>4, SameDirective
<1> QED BY <1>9, <1>10

\* What is written at the end of what was written.
LEMMA WrittenOnce ==
  ASSUME NEW g \in Seq(Outputs), NEW y, <<y>> \in Seq(Outputs)
  PROVE  Append(g, y) = g \o <<y>>
<1>1. y \in Outputs
  <2>1. Len(<<y>>) = 1 /\ <<y>>[1] = y
    OBVIOUS
  <2> QED BY <2>1, ElementOfSeq
<1> QED BY <1>1, AppendIsConcat

\* The letters that are read one by one.
LEMMA LetterHere ==
  ASSUME AskedInv, NEW k, NEW d, NEW t, NEW g, NEW n, Here(k, d, t, g, n),
         d.prefix # << >>, d.letter # << >>, NEW i \in 1 .. 3, i <= Len(d.letter)
  PROVE  /\ F!At(t + Len(d.prefix) + i) = d.letter[i]
         /\ d.letter \in F!Letters \cup F!OnlyLong /\ Len(d.letter) \in Nat
         /\ t \in Nat /\ Len(d.prefix) \in Nat
<1>1. d.letter \in F!Letters \cup F!OnlyLong
  BY HereIs DEF IsDirective
<1>2. Len(d.letter) \in Nat /\ t \in Nat /\ Len(d.prefix) \in Nat
  <2>1. Len(d.letter) \in 0 .. 3
    BY HereIs
  <2>2. Len(d.letter) \in Nat
    BY <2>1
  <2> QED BY <2>2, HereIs
<1>3. i \in 1 .. Len(d.letter)
  BY <1>2
<1>4. F!At(t + Len(d.prefix) + i) = d.letter[i]
  BY <1>3, CharacterHere
<1> QED BY <1>1, <1>2, <1>4

\* A letter takes the next argument, an l goes on; what is no conversion is
\* printed, and of what is cut off nothing is.
LEMMA FormatConversion ==
  ASSUME FormatInv, F!Conversion
  PROVE  FormatInv'
<1>0. PICK c : c = F!At(v4)
  OBVIOUS
<1>1. /\ v3 = "conversion" /\ v1' = v1 /\ v2' = v2 /\ v5' = v5
      /\ \/ /\ c = "NUL" /\ v3' = "end"
            /\ v4' = v4 /\ v6' = v6 /\ v7' = v7 /\ v8' = v8
         \/ /\ c = "s" /\ v3' = (IF v5 = 0 THEN "string" ELSE "cut") /\ v7' = 1
            /\ v6' = v6 + 1 /\ v4' = v4 /\ v8' = v8
         \/ /\ c = "l" /\ v3' = "long" /\ v4' = v4 + 1
            /\ v6' = v6 /\ v7' = v7 /\ v8' = v8
         \/ /\ c \notin {"NUL", "s", "l"} /\ v3' = "text" /\ v4' = v4 + 1 /\ v7' = v7
            /\ IF c \in Simple THEN v6' = v6 + 1 /\ v8' = Append(v8, Append(<<c>>, v6 + 1))
               ELSE v8' = v8 \o F!Characters(<<"%", c>>) /\ v6' = v6
  BY <1>0 DEF F!Conversion, F!Convert, F!Keep, F!TakesNext
<1>2. PICK k, d, t, g, n, i : IsAt(k, d, t, g, n, i)
  BY <1>1, Somewhere
<1>3. /\ Here(k, d, t, g, n) /\ v4 = t + i /\ i = Len(d.prefix) + 1 /\ v6 = n /\ v8 = g
      /\ v5 = F!AccuracyOf(d.prefix) /\ d.prefix # << >> /\ i \in Nat \ {0}
  BY <1>1, <1>2 DEF IsAt, InDirective, SoFar
<1>4. /\ AskedInv /\ v4 \in Nat \ {0} /\ t \in Nat /\ v5 \in Nat /\ v2 \in Nat
      /\ k \in Nat /\ k <= Len(v1) /\ n \in Nat /\ n < Len(v1) /\ Len(v1) \in Nat
      /\ g \in Seq(Outputs) /\ Len(d.prefix) \in Nat /\ v7 \in Nat \ {0}
      /\ IsMeaning(d, n) /\ F!Meaning(d, n) \in Seq(Outputs)
  <2>1. AskedInv /\ v4 \in Nat \ {0} /\ v5 \in Nat /\ v7 \in Nat \ {0}
        /\ Len(v1) \in Nat /\ v2 \in Nat
    BY FormatTypes
  <2>2. /\ t \in Nat /\ k \in Nat /\ k <= Len(v1) /\ n \in Nat /\ n < Len(v1)
        /\ g \in Seq(Outputs) /\ Len(d.prefix) \in Nat
    BY <1>3, <2>1, HereIs
  <2>3. IsMeaning(d, n) /\ F!Meaning(d, n) \in Seq(Outputs)
    BY <1>3, <2>1, HereIs
  <2> QED BY <2>1, <2>2, <2>3
<1>5. v4 = t + Len(d.prefix) + 1 /\ c = F!At(t + Len(d.prefix) + 1)
  <2>1. v4 = t + Len(d.prefix) + 1
    BY <1>3, <1>4
  <2> QED BY <1>0, <2>1
<1>6. /\ d.letter = << >> => c = "NUL" /\ k = Len(v1)
      /\ d.letter # << >> => /\ d.letter \in F!Letters \cup F!OnlyLong
                            /\ c = d.letter[1] /\ c # "NUL"
  BY <1>3, <1>4, <1>5, AfterPrefix
<1>7. CASE c = "NUL"
  <2>1. /\ v3' = "end" /\ v4' = v4 /\ v6' = v6 /\ v7' = v7 /\ v8' = v8
    BY <1>1, <1>7
  <2>2. d.letter = << >> /\ k = Len(v1) /\ d.letter \notin F!OnlyLong
    BY <1>6, <1>7, OnlyLongIs
  <2>3. Len(d.letter) = 0
    BY <2>2
  <2>4. F!Meaning(d, n) = << >> /\ ~F!TakesArgument(d)
    BY <1>4, <2>2 DEF IsMeaning
  <2>5. F!TypeOK'
    BY <1>1, <1>4, <2>1, FormatTypes DEF F!TypeOK
  <2>6. v8' = g \o F!Meaning(d, n)
    BY <1>3, <1>4, <2>1, <2>4, ConcatEmptySeq
  <2>7. v4' = t + Len(d.prefix) + Len(d.letter) + 1
    <3>1. t + Len(d.prefix) + 0 + 1 = t + Len(d.prefix) + 1
      BY <1>4
    <3> QED BY <1>5, <2>1, <2>3, <3>1
  <2>8. v6' = n + IF F!TakesArgument(d) THEN 1 ELSE 0
    BY <1>3, <1>4, <2>1, <2>4
  <2> QED BY <1>1, <1>3, <1>4, <2>1, <2>2, <2>5, <2>6, <2>7, <2>8, NextDirective
<1>8. CASE c # "NUL"
  <2>0. d.letter # << >> /\ c = d.letter[1]
    BY <1>6, <1>8
  <2> DEFINE x == d.letter
  <2>10. c # "l" => d.letter \in F!Letters /\ d.letter \notin F!OnlyLong
    BY <1>6, <2>0, OnlyLongIs
  <2>1. c # "l" =>
        /\ Len(x) \in 1 .. 3
        /\ Len(x) = 1 => x = <<x[1]>> /\ x[1] \in Simple \cup {"s", "%"} \cup Unknown
        /\ Len(x) = 2 => x[1] = "l"
        /\ Len(x) = 3 => x[1] = "l"
    BY <2>10, LettersAre
  <2>2. c = x[1]
    BY <2>0
  <2>3. c # "l" => Len(x) = 1
    <3> HIDE DEF x
    <3> QED BY <2>1, <2>2
  <2>4. c # "l" => x = <<c>>
    <3> HIDE DEF x
    <3> QED BY <2>1, <2>2, <2>3
  <2>5. CASE c = "s"
    <3>1. /\ v3' = (IF v5 = 0 THEN "string" ELSE "cut") /\ v7' = 1
          /\ v6' = v6 + 1 /\ v4' = v4 /\ v8' = v8
      BY <1>1, <2>5
    <3>2. d.letter = <<"s">>
      BY <2>3, <2>4, <2>5
    <3>3. F!TypeOK'
      BY <1>1, <1>3, <1>4, <3>1 DEF F!TypeOK
    <3>4. InDirective(d, i)'
      BY <1>1, <1>3, <1>4, <3>1, <3>2 DEF InDirective
    <3>5. SoFar(g, n)'
      <4>1. [m \in 1 .. v7' - 1 |-> <<"s", v6', m>>] = << >>
        <5>1. v7' - 1 = 0
          BY <3>1
        <5>2. [m \in 1 .. 0 |-> <<"s", v6', m>>] = << >>
          OBVIOUS
        <5> QED BY <5>1, <5>2
      <4>2. g \o << >> = g
        BY <1>4, ConcatEmptySeq
      <4> QED BY <1>3, <3>1, <4>1, <4>2 DEF SoFar
    <3> QED BY <1>1, <1>3, <1>4, <3>1, <3>3, <3>4, <3>5, SameDirective
  <2>6. CASE c = "l"
    <3>1. v3' = "long" /\ v4' = v4 + 1 /\ v6' = v6 /\ v7' = v7 /\ v8' = v8
      BY <1>1, <2>6
    <3>2. F!TypeOK'
      BY <1>1, <1>4, <3>1, FormatTypes DEF F!TypeOK
    <3>3. i + 1 = Len(d.prefix) + 2 /\ i + 1 \in Nat \ {0} /\ v4' = t + (i + 1)
      BY <1>3, <1>4, <3>1
    <3>4. InDirective(d, i + 1)'
      BY <1>3, <2>0, <2>6, <3>1, <3>3 DEF InDirective
    <3>5. SoFar(g, n)'
      BY <1>3, <3>1 DEF SoFar
    <3> QED BY <1>1, <1>3, <1>4, <3>1, <3>2, <3>3, <3>4, <3>5, SameDirective
  <2>7. CASE c \notin {"s", "l"}
    <3>1. /\ v3' = "text" /\ v4' = v4 + 1 /\ v7' = v7
          /\ c \in Simple => v6' = v6 + 1 /\ v8' = Append(v8, Append(<<c>>, v6 + 1))
          /\ c \notin Simple => v8' = v8 \o F!Characters(<<"%", c>>) /\ v6' = v6
      BY <1>1, <1>8, <2>7
    <3>2. Len(x) = 1 /\ x[1] = c
      BY <2>2, <2>3, <2>7
    <3>3. v4' = t + Len(d.prefix) + Len(d.letter) + 1
      <4>1. v4' = t + Len(d.prefix) + 1 + 1
        BY <1>5, <3>1
      <4> QED BY <3>2, <4>1
    <3>4. CASE c \in Simple
      <4>1. F!Meaning(d, n) = <<<<c, n + 1>>>> /\ F!TakesArgument(d)
        BY <1>3, <1>4, <2>7, <2>10, <3>2, <3>4 DEF IsMeaning
      <4>2. v6' = n + 1 /\ v8' = Append(g, Append(<<c>>, n + 1))
        BY <1>3, <3>1, <3>4
      <4>3. Append(<<c>>, n + 1) = <<c, n + 1>>
        <5>1. c \in {c, n + 1} /\ n + 1 \in {c, n + 1}
          OBVIOUS
        <5> QED BY <5>1, JoinedTwo
      <4>4. v8' = g \o F!Meaning(d, n)
        <5>1. PICK y : y = <<c, n + 1>>
          OBVIOUS
        <5>2. <<y>> \in Seq(Outputs) /\ F!Meaning(d, n) = <<y>> /\ v8' = Append(g, y)
          BY <1>4, <4>1, <4>2, <4>3, <5>1
        <5> QED BY <1>4, <5>2, WrittenOnce
      <4>5. F!TypeOK'
        BY <1>1, <1>4, <3>1, <4>2 DEF F!TypeOK
      <4>6. v6' = n + IF F!TakesArgument(d) THEN 1 ELSE 0
        BY <4>1, <4>2
      <4> QED BY <1>1, <1>3, <1>4, <2>7, <2>10, <3>1, <3>3, <4>4, <4>5, <4>6, NextDirective
    <3>5. CASE c \notin Simple
      <4>1. F!Meaning(d, n) = F!Characters(<<"%", c>>) /\ ~F!TakesArgument(d)
        BY <1>3, <1>4, <2>7, <2>10, <3>2, <3>5 DEF IsMeaning
      <4>2. v6' = n /\ v8' = g \o F!Meaning(d, n)
        BY <1>3, <3>1, <3>5, <4>1
      <4>3. F!TypeOK'
        BY <1>1, <1>4, <3>1, <4>2 DEF F!TypeOK
      <4>4. v6' = n + IF F!TakesArgument(d) THEN 1 ELSE 0
        BY <1>4, <4>1, <4>2
      <4> QED BY <1>1, <1>3, <1>4, <2>7, <2>10, <3>1, <3>3, <4>2, <4>3, <4>4, NextDirective
    <3> QED BY <3>4, <3>5
  <2> QED BY <2>5, <2>6, <2>7
<1> QED BY <1>7, <1>8

\* Behind an l there is a second one, or both characters are printed.
LEMMA FormatLong ==
  ASSUME FormatInv, F!Long
  PROVE  FormatInv'
<1>0. PICK c : c = F!At(v4)
  OBVIOUS
<1>1. /\ v3 = "long" /\ v4' = v4 + 1
      /\ v1' = v1 /\ v2' = v2 /\ v5' = v5 /\ v7' = v7 /\ v6' = v6
      /\ IF c = "l" THEN v3' = "longlong" /\ v8' = v8
                    ELSE /\ v3' = (IF c = "NUL" THEN "beyond" ELSE "text")
                         /\ v8' = v8 \o F!Characters(<<"%", "l", c>>)
  BY <1>0 DEF F!Long, F!Keep, F!AfterLong
<1>2. PICK k, d, t, g, n, i : IsAt(k, d, t, g, n, i)
  BY <1>1, Somewhere
<1>3. /\ Here(k, d, t, g, n) /\ v4 = t + i /\ i = Len(d.prefix) + 2 /\ v6 = n /\ v8 = g
      /\ d.prefix # << >> /\ d.letter # << >> /\ d.letter[1] = "l" /\ i \in Nat \ {0}
  BY <1>1, <1>2 DEF IsAt, InDirective, SoFar
<1>4. /\ AskedInv /\ v4 \in Nat \ {0} /\ t \in Nat /\ v5 \in Nat
      /\ n \in Nat /\ Len(d.prefix) \in Nat /\ v7 \in Nat \ {0} /\ IsMeaning(d, n)
  <2>1. AskedInv /\ v4 \in Nat \ {0} /\ v5 \in Nat /\ v7 \in Nat \ {0}
    BY FormatTypes
  <2>2. t \in Nat /\ n \in Nat /\ Len(d.prefix) \in Nat /\ IsMeaning(d, n)
    BY <1>3, <2>1, HereIs
  <2> QED BY <2>1, <2>2
<1>5. F!TypeOK'
  <2>1. v3' \in {"longlong", "text", "beyond"}
    BY <1>1
  <2> QED BY <1>1, <1>4, <2>1, FormatTypes DEF F!TypeOK
<1> DEFINE x == d.letter
<1>6. x \in F!Letters \cup F!OnlyLong
  BY <1>3, <1>4, HereIs DEF IsDirective
<1>7. /\ x \in F!Letters => Len(x) \in {2, 3} /\ x \notin F!OnlyLong
      /\ x \in F!Letters /\ Len(x) = 2 => x[2] \in Unknown
      /\ x \in F!Letters /\ Len(x) = 3 => x[2] = "l"
  <2>1. x \in F!Letters =>
        /\ Len(x) \in 1 .. 3
        /\ Len(x) = 1 => x[1] \in Simple \cup {"s", "%"} \cup Unknown
        /\ Len(x) = 2 => x[2] \in Unknown
        /\ Len(x) = 3 => x[2] = "l"
    BY LettersAre
  <2>2. x[1] = "l" /\ "l" \notin Simple \cup {"s", "%"} \cup Unknown
    BY <1>3, FormatFacts
  <2>3. x \in F!Letters => x \notin F!OnlyLong
    BY OnlyLongIs
  <2> HIDE DEF x
  <2> QED BY <2>1, <2>2, <2>3
<1>10. Len(x) \in {2, 3} => c = x[2]
  <2> SUFFICES ASSUME Len(x) \in {2, 3} PROVE c = x[2]
    OBVIOUS
  <2>1. 2 \in 1 .. 3 /\ 2 <= Len(d.letter)
    OBVIOUS
  <2>2. F!At(t + Len(d.prefix) + 2) = d.letter[2]
    BY <1>3, <1>4, <2>1, LetterHere
  <2>3. t + Len(d.prefix) + 2 = v4
    BY <1>3, <1>4
  <2> QED BY <1>0, <2>2, <2>3
<1>11. CASE Len(x) # 1 /\ x[2] = "l"
  <2>0. Len(x) \in {2, 3}
    BY <1>6, <1>7, <1>11, OnlyLongIs
  <2>1. c = "l" /\ v3' = "longlong" /\ v8' = v8
    BY <1>1, <1>10, <1>11, <2>0
  <2>2. i + 1 = Len(d.prefix) + 3 /\ i + 1 \in Nat \ {0} /\ v4' = t + (i + 1)
    BY <1>1, <1>3, <1>4
  <2>3. Len(d.letter) > 1 /\ d.letter[1] = "l" /\ d.letter[2] = "l"
    BY <1>3, <1>11, <2>0
  <2>4. InDirective(d, i + 1)'
    BY <1>3, <2>1, <2>2, <2>3 DEF InDirective
  <2>5. SoFar(g, n)'
    BY <1>1, <1>3, <2>1 DEF SoFar
  <2> QED BY <1>1, <1>3, <1>4, <1>5, <2>2, <2>4, <2>5, SameDirective
<1>12. CASE x \in F!Letters /\ x[2] # "l"
  <2>0. Len(x) = 2 /\ x[2] \in Unknown /\ c = x[2]
    BY <1>7, <1>10, <1>12
  <2>1. c \notin {"l", "NUL"}
    BY <2>0, FormatFacts
  <2>2. v3' = "text" /\ v8' = g \o F!Characters(<<"%", "l", c>>)
    BY <1>1, <1>3, <2>1
  <2>3. F!Meaning(d, n) = F!Characters(<<"%", "l", c>>) /\ ~F!TakesArgument(d)
    BY <1>3, <1>4, <1>12, <2>0 DEF IsMeaning
  <2>4. v8' = g \o F!Meaning(d, n) /\ v6' = n + IF F!TakesArgument(d) THEN 1 ELSE 0
    BY <1>1, <1>3, <1>4, <2>2, <2>3
  <2>5. v4' = t + Len(d.prefix) + Len(d.letter) + 1
    <3>1. v4' = t + Len(d.prefix) + 2 + 1
      BY <1>1, <1>3, <1>4
    <3> QED BY <2>0, <3>1
  <2> QED BY <1>1, <1>3, <1>4, <1>5, <1>7, <1>12, <2>2, <2>4, <2>5, NextDirective
<1>13. CASE x = <<"l">>
  <2>1. Len(x) = 1 /\ x \in F!OnlyLong
    BY <1>13 DEF F!OnlyLong
  <2>2. c = "NUL"
    <3>1. k = Len(v1)
      BY <1>3, <1>4, <2>1, HereIs, PartsAre
    <3>2. F!At(t + Len(d.prefix) + Len(d.letter) + 1) = "NUL"
      BY <1>3, <1>4, <3>1, CharacterHere
    <3>3. t + Len(d.prefix) + Len(d.letter) + 1 = v4
      BY <1>3, <1>4, <2>1
    <3> QED BY <1>0, <3>2, <3>3
  <2>3. v3' = "beyond" /\ v8' = g \o F!Characters(<<"%", "l", "NUL">>)
    BY <1>1, <1>3, <2>2
  <2>4. F!Meaning(d, n) = F!Characters(<<"%", "l", "NUL">>) /\ ~F!TakesArgument(d)
    BY <1>3, <1>4, <1>13 DEF IsMeaning
  <2>5. v8' = g \o F!Meaning(d, n) /\ v6' = n + IF F!TakesArgument(d) THEN 1 ELSE 0
    BY <1>1, <1>3, <1>4, <2>3, <2>4
  <2>6. v4' = t + Len(d.prefix) + Len(d.letter) + 2
    <3>1. v4' = t + Len(d.prefix) + 1 + 2
      BY <1>1, <1>3, <1>4
    <3> QED BY <2>1, <3>1
  <2> QED BY <1>1, <1>3, <1>4, <1>5, <2>1, <2>3, <2>5, <2>6, NextDirective
<1> QED
  <2>1. x \in F!OnlyLong => x = <<"l">> \/ (Len(x) # 1 /\ x[2] = "l")
    BY OnlyLongIs
  <2> QED BY <1>6, <1>7, <1>11, <1>12, <1>13, <2>1

\* Behind ll the letter takes the next argument and prints it, or all is
\* printed.
LEMMA FormatLongLong ==
  ASSUME FormatInv, F!LongLongConversion
  PROVE  FormatInv'
<1>0. PICK c : c = F!At(v4)
  OBVIOUS
<1>1. /\ v3 = "longlong" /\ v4' = v4 + 1 /\ v3' = (IF c = "NUL" THEN "beyond" ELSE "text")
      /\ v1' = v1 /\ v2' = v2 /\ v5' = v5 /\ v7' = v7
      /\ IF c \in LongLong THEN v6' = v6 + 1 /\ v8' = Append(v8, Append(<<"ll", c>>, v6 + 1))
         ELSE v8' = v8 \o F!Characters(<<"%", "l", "l", c>>) /\ v6' = v6
  BY <1>0 DEF F!LongLongConversion, F!AfterLong, F!Keep, F!Convert, F!TakesNext
<1>2. PICK k, d, t, g, n, i : IsAt(k, d, t, g, n, i)
  BY <1>1, Somewhere
<1>3. /\ Here(k, d, t, g, n) /\ v4 = t + i /\ i = Len(d.prefix) + 3 /\ v6 = n /\ v8 = g
      /\ d.prefix # << >> /\ Len(d.letter) > 1 /\ d.letter[1] = "l" /\ d.letter[2] = "l"
  BY <1>1, <1>2 DEF IsAt, InDirective, SoFar
<1>4. /\ AskedInv /\ v4 \in Nat \ {0} /\ t \in Nat /\ v5 \in Nat /\ Len(v1) \in Nat
      /\ n \in Nat /\ n < Len(v1) /\ Len(d.prefix) \in Nat /\ v7 \in Nat \ {0}
      /\ IsMeaning(d, n) /\ F!Meaning(d, n) \in Seq(Outputs) /\ g \in Seq(Outputs)
  <2>1. AskedInv /\ v4 \in Nat \ {0} /\ v5 \in Nat /\ v7 \in Nat \ {0} /\ Len(v1) \in Nat
    BY FormatTypes
  <2>2. t \in Nat /\ n \in Nat /\ n < Len(v1) /\ Len(d.prefix) \in Nat /\ g \in Seq(Outputs)
    BY <1>3, <2>1, HereIs
  <2>3. IsMeaning(d, n) /\ F!Meaning(d, n) \in Seq(Outputs)
    BY <1>3, <2>1, HereIs
  <2> QED BY <2>1, <2>2, <2>3
<1> DEFINE x == d.letter
<1>5. x \in F!Letters \cup F!OnlyLong
  <2>1. d.letter # << >>
    <3>1. Len(<< >>) = 0
      OBVIOUS
    <3> QED BY <1>3, <3>1
  <2> QED BY <1>3, <1>4, <2>1, HereIs DEF IsDirective
<1>20. "NUL" \notin LongLong
  BY FormatFacts
<1>12. CASE x \in F!OnlyLong
  <2>1. Len(x) = 2 /\ x = <<"l", "l">>
    BY <1>3, <1>12, OnlyLongIs
  <2>2. c = "NUL"
    <3>1. k = Len(v1)
      BY <1>3, <1>4, <1>12, HereIs, PartsAre
    <3>2. F!At(t + Len(d.prefix) + Len(d.letter) + 1) = "NUL"
      BY <1>3, <1>4, <3>1, CharacterHere
    <3>3. t + Len(d.prefix) + Len(d.letter) + 1 = v4
      BY <1>3, <1>4, <2>1
    <3> QED BY <1>0, <3>2, <3>3
  <2>3. v3' = "beyond" /\ v6' = n /\ v8' = g \o F!Characters(<<"%", "l", "l", "NUL">>)
    BY <1>1, <1>3, <1>20, <2>2
  <2>4. F!Meaning(d, n) = F!Characters(<<"%", "l", "l", "NUL">>) /\ ~F!TakesArgument(d)
    BY <1>3, <1>4, <2>1 DEF IsMeaning
  <2>5. v8' = g \o F!Meaning(d, n) /\ v6' = n + IF F!TakesArgument(d) THEN 1 ELSE 0
    BY <1>4, <2>3, <2>4
  <2>6. v4' = t + Len(d.prefix) + Len(d.letter) + 2
    <3>1. v4' = t + Len(d.prefix) + 2 + 2
      BY <1>1, <1>3, <1>4
    <3> QED BY <2>1, <3>1
  <2>7. F!TypeOK'
    BY <1>1, <1>4, <2>3 DEF F!TypeOK
  <2> QED BY <1>1, <1>3, <1>4, <1>12, <2>3, <2>5, <2>6, <2>7, NextDirective
<1>13. CASE x \notin F!OnlyLong
  <2>1. x \in F!Letters
    BY <1>5, <1>13
  <2>2. /\ Len(x) \in 1 .. 3
        /\ Len(x) = 2 => x[2] \in Unknown
        /\ Len(x) = 3 => x[3] \in LongLong \cup Unknown
    BY <2>1, LettersAre
  <2>3. Len(x) = 3
    <3>1. Len(x) > 1 /\ x[2] = "l"
      BY <1>3
    <3> HIDE DEF x
    <3>2. "l" \notin Unknown
      BY FormatFacts
    <3> QED BY <2>2, <3>1, <3>2
  <2>4. c = x[3]
    <3>1. 3 \in 1 .. 3 /\ 3 <= Len(d.letter) /\ d.letter # << >>
      <4>1. Len(<< >>) = 0
        OBVIOUS
      <4> QED BY <2>3, <4>1
    <3>2. F!At(t + Len(d.prefix) + 3) = d.letter[3]
      BY <1>3, <1>4, <3>1, LetterHere
    <3>3. t + Len(d.prefix) + 3 = v4
      BY <1>3, <1>4
    <3> QED BY <1>0, <3>2, <3>3
  <2>5. v4' = t + Len(d.prefix) + Len(d.letter) + 1
    <3>1. v4' = t + Len(d.prefix) + 3 + 1
      BY <1>1, <1>3, <1>4
    <3> QED BY <2>3, <3>1
  <2>6. v3' = "text"
    <3>1. c # "NUL"
      BY <2>2, <2>3, <2>4, FormatFacts
    <3> QED BY <1>1, <3>1
  <2>7. CASE c \in LongLong
    <3>1. F!Meaning(d, n) = <<<<"ll", c, n + 1>>>> /\ F!TakesArgument(d)
      BY <1>3, <1>4, <2>1, <2>3, <2>4, <2>7 DEF IsMeaning
    <3>2. v6' = n + 1 /\ v8' = Append(g, Append(<<"ll", c>>, n + 1))
      BY <1>1, <1>3, <2>7
    <3>3. Append(<<"ll", c>>, n + 1) = <<"ll", c, n + 1>>
      <4>1. "ll" \in {"ll", c, n + 1} /\ c \in {"ll", c, n + 1} /\ n + 1 \in {"ll", c, n + 1}
        OBVIOUS
      <4> QED BY <4>1, JoinedThree
    <3>4. v8' = g \o F!Meaning(d, n)
      <4>1. PICK y : y = <<"ll", c, n + 1>>
        OBVIOUS
      <4>2. <<y>> \in Seq(Outputs) /\ F!Meaning(d, n) = <<y>> /\ v8' = Append(g, y)
        BY <1>4, <3>1, <3>2, <3>3, <4>1
      <4> QED BY <1>4, <4>2, WrittenOnce
    <3>5. F!TypeOK'
      BY <1>1, <1>4, <3>2 DEF F!TypeOK
    <3>6. v6' = n + IF F!TakesArgument(d) THEN 1 ELSE 0
      BY <3>1, <3>2
    <3> QED BY <1>1, <1>3, <1>4, <1>13, <2>5, <2>6, <3>4, <3>5, <3>6, NextDirective
  <2>8. CASE c \notin LongLong
    <3>1. F!Meaning(d, n) = F!Characters(<<"%", "l", "l", c>>) /\ ~F!TakesArgument(d)
      BY <1>3, <1>4, <2>1, <2>3, <2>4, <2>8 DEF IsMeaning
    <3>2. v6' = n /\ v8' = g \o F!Meaning(d, n)
      BY <1>1, <1>3, <2>8, <3>1
    <3>3. F!TypeOK'
      BY <1>1, <1>4, <3>2 DEF F!TypeOK
    <3>4. v6' = n + IF F!TakesArgument(d) THEN 1 ELSE 0
      BY <1>4, <3>1, <3>2
    <3> QED BY <1>1, <1>3, <1>4, <1>13, <2>5, <2>6, <3>2, <3>3, <3>4, NextDirective
  <2> QED BY <2>7, <2>8
<1> QED BY <1>12, <1>13

\* One character more of a string.
LEMMA StringGrows ==
  ASSUME NEW a, NEW j \in Nat
  PROVE  LET w(l) == [m \in 1 .. l |-> <<"s", a, m>>]
         IN  w(j + 1) = Append(w(j), <<"s", a, j + 1>>)
<1> DEFINE w(l) == [m \in 1 .. l |-> <<"s", a, m>>]
           E == {<<"s", a, m>> : m \in Nat}
           y == <<"s", a, j + 1>>
<1>1. ASSUME NEW l \in Nat
      PROVE  w(l) \in Seq(E) /\ Len(w(l)) = l /\ \A m \in 1 .. l : w(l)[m] = <<"s", a, m>>
  <2>1. \A m \in 1 .. l : <<"s", a, m>> \in E
    OBVIOUS
  <2>2. w(l) \in [1 .. l -> E]
    BY <2>1
  <2> HIDE DEF E
  <2> QED BY <2>2
<1>2. y \in E
  OBVIOUS
<1>3. j + 1 \in Nat
  OBVIOUS
<1>4. \A m \in 1 .. j + 1 : w(j + 1)[m] = <<"s", a, m>>
  BY <1>1, <1>3
<1>5. w(j) \in Seq(E) /\ Len(w(j)) = j /\ w(j + 1) \in Seq(E) /\ Len(w(j + 1)) = j + 1
  BY <1>1, <1>3
<1>6. \A m \in 1 .. j : w(j)[m] = <<"s", a, m>>
  BY <1>1
<1>7. y = <<"s", a, j + 1>>
  OBVIOUS
<1> HIDE DEF w, E, y
<1>8. /\ Append(w(j), y) \in Seq(E) /\ Len(Append(w(j), y)) = j + 1
      /\ \A m \in 1 .. j : Append(w(j), y)[m] = w(j)[m]
      /\ Append(w(j), y)[j + 1] = y
  BY <1>2, <1>5, AppendProperties
<1>9. ASSUME NEW m \in 1 .. j + 1 PROVE Append(w(j), y)[m] = w(j + 1)[m]
  <2>1. CASE m = j + 1
    BY <1>4, <1>7, <1>8, <2>1
  <2>2. CASE m # j + 1
    <3>1. m \in 1 .. j
      BY <2>2
    <3> QED BY <1>4, <1>6, <1>8, <3>1
  <2> QED BY <2>1, <2>2
<1>10. Append(w(j), y) = w(j + 1)
  BY <1>5, <1>8, <1>9, SeqEqual
<1> QED BY <1>10 DEF w, y

\* A string is printed up to its end or the accuracy, whichever comes first.
LEMMA FormatString ==
  ASSUME FormatInv, F!String
  PROVE  FormatInv'
<1>1. /\ v3 \in {"string", "cut"} /\ v1' = v1 /\ v2' = v2 /\ v6' = v6
      /\ IF (v3 = "cut" /\ v5 = 0) \/ v7 > v2
         THEN v3' = "text" /\ v4' = v4 + 1 /\ v5' = v5 /\ v7' = v7 /\ v8' = v8
         ELSE /\ v8' = Append(v8, <<"s", v6, v7>>) /\ v7' = v7 + 1
              /\ v5' = (IF v3 = "cut" THEN v5 - 1 ELSE v5) /\ v3' = v3 /\ v4' = v4
  BY DEF F!String, F!StringEnds
<1>2. PICK k, d, t, g, n, i : IsAt(k, d, t, g, n, i)
  BY <1>1, Somewhere
<1> DEFINE w(l) == [m \in 1 .. l |-> <<"s", n + 1, m>>]
           a == F!AccuracyOf(d.prefix)
<1>3. /\ Here(k, d, t, g, n) /\ v4 = t + i /\ i = Len(d.prefix) + 1 /\ v6 = n + 1
      /\ i \in Nat \ {0} /\ v8 = g \o w(v7 - 1)
      /\ d.prefix # << >> /\ d.letter = <<"s">> /\ v7 <= v2 + 1
      /\ v3 = "string" => a = 0
      /\ v3 = "cut" => a # 0 /\ v5 + v7 = a + 1
  BY <1>1, <1>2 DEF IsAt, InDirective, SoFar
<1>4. /\ AskedInv /\ v4 \in Nat \ {0} /\ t \in Nat /\ v5 \in Nat /\ v2 \in Nat
      /\ n \in Nat /\ n < Len(v1) /\ Len(v1) \in Nat
      /\ g \in Seq(Outputs) /\ Len(d.prefix) \in Nat /\ v7 \in Nat \ {0}
      /\ IsMeaning(d, n) /\ F!Meaning(d, n) \in Seq(Outputs)
      /\ d.prefix \in F!Openings
  <2>1. AskedInv /\ v4 \in Nat \ {0} /\ v5 \in Nat /\ v7 \in Nat \ {0}
        /\ Len(v1) \in Nat /\ v2 \in Nat
    BY FormatTypes
  <2>2. /\ t \in Nat /\ n \in Nat /\ n < Len(v1)
        /\ g \in Seq(Outputs) /\ Len(d.prefix) \in Nat /\ d.prefix \in F!Openings
    BY <1>3, <2>1, HereIs
  <2>3. IsMeaning(d, n) /\ F!Meaning(d, n) \in Seq(Outputs)
    BY <1>3, <2>1, HereIs
  <2> QED BY <2>1, <2>2, <2>3
<1>5. a \in Nat /\ Printed(d.prefix) = IF a = 0 \/ a > v2 THEN v2 ELSE a
  BY <1>4, PrintedIs DEF Printed
<1>6. /\ Len(d.letter) = 1 /\ d.letter[1] = "s"
      /\ d.letter \in F!Letters /\ d.letter \notin F!OnlyLong
  <2>1. <<"s">>[1] = "s" /\ Len(<<"s">>) = 1
    OBVIOUS
  <2>2. d.letter \notin F!OnlyLong
    BY <1>3, <2>1, OnlyLongIs
  <2>3. d.letter \in F!Letters
    BY <1>3 DEF F!Letters
  <2> QED BY <1>3, <2>1, <2>2, <2>3
<1>7. F!Meaning(d, n) = w(Printed(d.prefix)) /\ F!TakesArgument(d)
  <2>1. "s" \notin Simple
    BY FormatFacts
  <2> QED BY <1>3, <1>4, <1>6, <2>1 DEF IsMeaning
<1> HIDE DEF a
<1>8. CASE (v3 = "cut" /\ v5 = 0) \/ v7 > v2
  <2>1. v3' = "text" /\ v4' = v4 + 1 /\ v5' = v5 /\ v7' = v7 /\ v8' = v8
    BY <1>1, <1>8
  <2>2. F!TypeOK'
    <3>1. v3' \in {"text", "width", "accuracy", "conversion", "long", "longlong",
                   "string", "cut", "end", "beyond"}
      BY <2>1
    <3> HIDE DEF w
    <3>2. v6' \in 0 .. Len(v1)
      BY <1>1, <1>3, <1>4
    <3>3. v4' \in Nat \ {0} /\ v5' \in Nat /\ v7' \in Nat \ {0}
      BY <1>4, <2>1
    <3> QED BY <1>1, <3>1, <3>2, <3>3 DEF F!TypeOK
  <2>3. v7 - 1 = Printed(d.prefix)
    <3> HIDE DEF w
    <3>1. v7 \in Nat /\ v2 \in Nat /\ v5 \in Nat /\ a \in Nat /\ v7 <= v2 + 1
      BY <1>3, <1>4, <1>5
    <3>2. CASE v3 = "string"
      <4>1. a = 0 /\ v7 > v2
        BY <1>3, <1>8, <3>2
      <4>2. v7 - 1 = v2
        BY <3>1, <4>1
      <4> QED BY <1>5, <4>1, <4>2
    <3>3. CASE v3 = "cut"
      <4>1. a # 0 /\ v5 + v7 = a + 1 /\ (v5 = 0 \/ v7 > v2)
        BY <1>3, <1>8, <3>3
      <4>2. v7 - 1 = IF a > v2 THEN v2 ELSE a
        BY <3>1, <4>1
      <4> QED BY <1>5, <4>1, <4>2
    <3> QED BY <1>1, <3>2, <3>3
  <2>4. v8' = g \o F!Meaning(d, n)
    <3> HIDE DEF w
    <3>1. w(v7 - 1) = F!Meaning(d, n)
      BY <1>7, <2>3
    <3> QED BY <1>3, <2>1, <3>1
  <2>5. v4' = t + Len(d.prefix) + Len(d.letter) + 1
    <3>1. v4' = t + Len(d.prefix) + 1 + 1
      <4>1. v4 = t + i /\ i = Len(d.prefix) + 1 /\ v4' = v4 + 1
        BY <1>3, <2>1
      <4>2. t \in Nat /\ Len(d.prefix) \in Nat
        BY <1>4
      <4> QED BY <4>1, <4>2
    <3> QED BY <1>6, <3>1
  <2>6. v6' = n + IF F!TakesArgument(d) THEN 1 ELSE 0
    BY <1>1, <1>3, <1>7
  <2> QED BY <1>1, <1>3, <1>4, <1>6, <2>1, <2>2, <2>4, <2>5, <2>6, NextDirective
<1>9. CASE ~((v3 = "cut" /\ v5 = 0) \/ v7 > v2)
  <2>1. /\ v8' = Append(v8, <<"s", v6, v7>>) /\ v7' = v7 + 1
        /\ v5' = (IF v3 = "cut" THEN v5 - 1 ELSE v5) /\ v3' = v3 /\ v4' = v4
    BY <1>1, <1>9
  <2>2. /\ v5' \in Nat /\ v7' \in Nat \ {0} /\ v7' <= v2 + 1
        /\ v3 = "cut" => v5' + v7' = a + 1
    <3> HIDE DEF w
    <3> QED BY <1>3, <1>4, <1>5, <1>9, <2>1
  <2>3. F!TypeOK'
    BY <1>1, <1>3, <1>4, <2>1, <2>2 DEF F!TypeOK
  <2>4. InDirective(d, i)'
    BY <1>1, <1>3, <2>1, <2>2 DEF InDirective, a
  <2>5. v8' = g \o w(v7' - 1)
    <3>1. PICK j \in Nat : j = v7 - 1
      BY <1>4
    <3>2. v7 = j + 1 /\ v7' - 1 = j + 1
      BY <1>4, <2>1, <3>1
    <3>3. w(j + 1) = Append(w(j), <<"s", n + 1, j + 1>>)
      BY StringGrows
    <3> DEFINE E == Outputs \cup {<<"s", n + 1, m>> : m \in Nat}
    <3>4. g \in Seq(E) /\ w(j) \in Seq(E) /\ <<"s", n + 1, j + 1>> \in E
      <4>1. \A m \in 1 .. j : <<"s", n + 1, m>> \in E
        OBVIOUS
      <4>2. w(j) \in [1 .. j -> E]
        BY <4>1
      <4>3. Outputs \subseteq E /\ <<"s", n + 1, j + 1>> \in E
        OBVIOUS
      <4> HIDE DEF E
      <4>4. w(j) \in Seq(E)
        BY <4>2
      <4>5. g \in Seq(E)
        BY <1>4, <4>3
      <4> QED BY <4>3, <4>4, <4>5
    <3>5. v8' = Append(g \o w(j), <<"s", n + 1, j + 1>>)
      BY <1>3, <2>1, <3>1, <3>2
    <3> HIDE DEF w, E
    <3>6. Append(g \o w(j), <<"s", n + 1, j + 1>>) = g \o Append(w(j), <<"s", n + 1, j + 1>>)
      <4>1. PICK b, y : b = w(j) /\ y = <<"s", n + 1, j + 1>>
        OBVIOUS
      <4>2. g \o Append(b, y) = Append(g \o b, y)
        BY <3>4, <4>1, AppendAfterConcat
      <4> QED BY <4>1, <4>2
    <3> QED BY <3>2, <3>3, <3>5, <3>6
  <2>6. SoFar(g, n)'
    BY <1>1, <1>3, <2>1, <2>5 DEF SoFar
  <2> QED BY <1>1, <1>3, <1>4, <2>1, <2>3, <2>4, <2>6, SameDirective
<1> QED BY <1>8, <1>9

\* Every step through the format keeps the invariant.
LEMMA FormatNext ==
  ASSUME FormatInv, F!Next \/ UNCHANGED F!vars
  PROVE  FormatInv'
<1>1. CASE UNCHANGED F!vars
  <2>1. /\ v1' = v1 /\ v2' = v2 /\ v3' = v3 /\ v4' = v4 /\ v5' = v5 /\ v6' = v6
        /\ v7' = v7 /\ v8' = v8
    BY <1>1 DEF F!vars
  <2>2. AskedInv
    BY FormatTypes
  <2>3. /\ AskedInv' /\ Texts' = Texts /\ Meanings' = Meanings
        /\ \A k : F!ArgumentsBefore(k)' = F!ArgumentsBefore(k)
        /\ F!EndsBehindLong' = F!EndsBehindLong
    BY <2>1, <2>2, AskedStays
  <2>4. F!TypeOK'
    BY <2>1, FormatTypes DEF F!TypeOK
  <2>5. PICK k \in 1 .. Len(v1) + 1 : InDirectiveNo(k)
    BY DEF FormatInv
  <2>6. Before(Texts, k)' = Before(Texts, k) /\ Before(Meanings, k)' = Before(Meanings, k)
    BY <2>3 DEF Before
  <2>7. InDirectiveNo(k)'
    <3>1. SoFar(Before(Meanings, k), F!ArgumentsBefore(k))'
      BY <2>1, <2>3, <2>5, <2>6 DEF InDirectiveNo, SoFar
    <3>2. CASE k > Len(v1)
      BY <2>1, <2>3, <2>5, <2>6, <3>1, <3>2 DEF InDirectiveNo
    <3>3. CASE ~(k > Len(v1))
      <4>1. v4 > Len(Before(Texts, k)) /\ InDirective(v1[k], v4 - Len(Before(Texts, k)))
        BY <2>5, <3>3 DEF InDirectiveNo
      <4>2. InDirective(v1[k], v4 - Len(Before(Texts, k)))'
        BY <2>1, <2>6, <4>1 DEF InDirective
      <4> QED BY <2>1, <2>6, <3>1, <3>3, <4>1, <4>2 DEF InDirectiveNo
    <3> QED BY <3>2, <3>3
  <2> QED BY <2>1, <2>3, <2>4, <2>5, <2>7 DEF FormatInv
<1>2. CASE F!Next
  BY <1>2, FormatText, FormatEnd, FormatFlag, FormatWidthAndDot, FormatAccuracy,
     FormatConversion, FormatLong, FormatLongLong, FormatString DEF F!Next
<1> QED BY <1>1, <1>2

\* At the end, what is printed is what the directives mean.
LEMMA FormatIsPrinted ==
  ASSUME FormatInv
  PROVE  F!PrintsWhatWasAsked
<1> SUFFICES ASSUME v3 \in {"end", "beyond"}
             PROVE  v8 = F!FlattenSeq([n \in DOMAIN v1 |->
                                         F!Meaning(v1[n], F!ArgumentsBefore(n))])
  BY DEF F!PrintsWhatWasAsked
<1>1. AskedInv /\ Len(v1) \in Nat
  BY FormatTypes
<1>2. PICK k \in 1 .. Len(v1) + 1 : InDirectiveNo(k)
  BY DEF FormatInv
<1>3. k = Len(v1) + 1
  <2>1. k > Len(v1)
    BY <1>2 DEF InDirectiveNo, InDirective
  <2> QED BY <1>1, <1>2, <2>1
<1>4. v8 = Before(Meanings, k)
  BY <1>2 DEF InDirectiveNo, SoFar
<1>5. Meanings \in Seq(Seq(Outputs)) /\ Len(Meanings) = Len(v1)
  BY <1>1, MeaningsAre
<1>6. Before(Meanings, Len(Meanings) + 1) = F!FlattenSeq(Meanings)
  BY <1>5, BeforeIs
<1> QED BY <1>3, <1>4, <1>5, <1>6 DEF Meanings

\* No string is read beyond its end; the format is only when it ends behind an l.
LEMMA FormatIsInBounds ==
  ASSUME FormatInv
  PROVE  F!ReadsInBounds
<1>1. AskedInv /\ Len(v1) \in Nat /\ v4 \in Nat
  BY FormatTypes
<1>2. PICK k \in 1 .. Len(v1) + 1 : InDirectiveNo(k)
  BY DEF FormatInv
<1>3. CASE k > Len(v1)
  <2>1. k = Len(v1) + 1
    BY <1>1, <1>2, <1>3
  <2>2. /\ IF F!EndsBehindLong THEN v3 = "beyond" ELSE v3 \in {"text", "end"}
        /\ v4 = Len(Before(Texts, Len(v1) + 1)) + IF v3 = "beyond" THEN 2 ELSE 1
    BY <1>2, <1>3, <2>1 DEF InDirectiveNo
  <2>3. F!format = Before(Texts, Len(v1) + 1) /\ Len(F!format) \in Nat
    BY <1>1, TextsAre
  <2>4. /\ v3 # "beyond" => v4 <= Len(F!format) + 1
        /\ v3 = "beyond" => v4 = Len(F!format) + 2
    BY <2>2, <2>3
  <2> QED BY <2>2, <2>4 DEF F!ReadsInBounds
<1>4. CASE ~(k > Len(v1))
  <2> DEFINE t == Len(Before(Texts, k))
             g == Before(Meanings, k)
             n == F!ArgumentsBefore(k)
             d == v1[k]
             i == v4 - t
  <2>1. Here(k, d, t, g, n) /\ k \in 1 .. Len(v1)
    BY <1>1, <1>2, <1>4 DEF Here
  <2>2. v4 > t /\ InDirective(d, i)
    BY <1>2, <1>4 DEF InDirectiveNo
  <2>3. t = Len(Before(Texts, k)) /\ d = v1[k]
    OBVIOUS
  <2> HIDE DEF t, g, n, d
  <2>4. /\ t \in Nat /\ Len(d.prefix) \in Nat
        /\ Len(Before(Texts, k + 1)) = t + Len(d.prefix) + Len(d.letter)
    BY <1>1, <2>1, HereIs
  <2>5. Len(Before(Texts, k + 1)) <= Len(F!format)
    BY <1>1, <2>1, <2>3, CharacterAt
  <2>6. Len(d.letter) \in Nat /\ Len(F!format) \in Nat
    <3>1. Len(d.letter) \in 0 .. 3
      BY <1>1, <2>1, HereIs
    <3>2. F!format \in Seq(FormatCharacters)
      BY <1>1, TextsAre
    <3> QED BY <3>1, <3>2
  <2>7. v3 \in {"string", "cut"} => v7 <= v2 + 1
    BY <2>2 DEF InDirective
  <2>70. PICK p, x : p = Len(d.prefix) /\ x = Len(d.letter)
    OBVIOUS
  <2>71. p \in Nat /\ x \in Nat
    BY <2>4, <2>6, <2>70
  <2>8. i <= p + x + 1
    <3> HIDE DEF i
    <3>1. CASE v3 = "text"
      <4>1. i = 1
        BY <2>2, <3>1 DEF InDirective
      <4> QED BY <2>71, <4>1
    <3>2. CASE v3 = "width"
      <4>1. PICK e \in 2 .. 3, m \in 2 .. p + 1 : i \in e .. m
        BY <2>2, <2>70, <3>2 DEF InDirective
      <4> QED BY <2>71, <4>1
    <3>3. CASE v3 = "accuracy"
      <4>1. PICK e \in 2 .. 3, m \in 2 .. p + 1 : i \in m .. p + 1
        BY <2>2, <2>70, <3>3 DEF InDirective
      <4> QED BY <2>71, <4>1
    <3>4. CASE v3 \in {"conversion", "string", "cut"}
      <4>1. i = p + 1
        BY <2>2, <2>70, <3>4 DEF InDirective
      <4> QED BY <2>71, <4>1
    <3>5. CASE v3 = "long"
      <4>1. i = Len(d.prefix) + 2 /\ d.letter # << >>
        BY <2>2, <3>5 DEF InDirective
      <4>2. d.letter \in Seq(FormatCharacters)
        BY <1>1, <2>1, HereIs
      <4>3. Len(d.letter) # 0
        BY <4>1, <4>2
      <4>4. x >= 1 /\ i = p + 2
        BY <2>70, <2>71, <4>1, <4>3
      <4> QED BY <2>71, <4>4
    <3>6. CASE v3 = "longlong"
      <4>1. i = p + 3 /\ x > 1
        BY <2>2, <2>70, <3>6 DEF InDirective
      <4> QED BY <2>71, <4>1
    <3>7. v3 \in {"text", "width", "accuracy", "conversion", "long", "longlong", "string", "cut"}
      BY <2>2 DEF InDirective, FormatInv, F!TypeOK
    <3> QED BY <3>1, <3>2, <3>3, <3>4, <3>5, <3>6, <3>7
  <2>9. v4 <= Len(F!format) + 1
    <3>1. v4 = t + i
      BY <1>1, <2>4
    <3>2. i \in Int
      BY <1>1, <2>4
    <3> HIDE DEF i
    <3>3. PICK l, u : l = Len(F!format) /\ u = Len(Before(Texts, k + 1))
      OBVIOUS
    <3>4. l \in Nat /\ u = t + p + x /\ u <= l /\ t \in Nat
      BY <2>4, <2>5, <2>6, <2>70, <3>3
    <3>5. v4 <= l + 1
      BY <2>8, <2>71, <3>1, <3>2, <3>4
    <3> QED BY <3>3, <3>5
  <2>10. v3 \notin {"end", "beyond"}
    BY <2>2 DEF InDirective
  <2> QED BY <2>7, <2>9, <2>10 DEF F!ReadsInBounds
<1> QED BY <1>3, <1>4

\* For all flags, widths, accuracies, letters and lengths, and any number of
\* directives: Cvprintf_sub() prints what a format asks for, each directive with
\* its own argument and accuracy (flags and widths have no effect), reads no
\* string argument beyond its end, and the format beyond its end exactly when
\* that is behind %l or %ll.
THEOREM FormatIsFollowedHolds == SpecAny => []FormatIsFollowed
<1> DEFINE Inv == what = "format" => FormatInv
<1>1. InitAny => Inv
  BY FormatInit DEF InitAny
<1>2. Inv /\ [NextAny]_<<what, vars, general>> => Inv'
  <2> SUFFICES ASSUME Inv, [NextAny]_<<what, vars, general>>, what' = "format"
               PROVE  FormatInv'
    OBVIOUS
  <2>1. CASE NextAny
    <3>1. what = "format" /\ F!Next
      BY <2>1 DEF NextAny
    <3> QED BY <3>1, FormatNext
  <2>2. CASE UNCHANGED <<what, vars, general>>
    <3>1. what = "format" /\ UNCHANGED F!vars
      BY <2>2 DEF general, F!vars
    <3> QED BY <3>1, FormatNext
  <2> QED BY <2>1, <2>2
<1>3. Inv => FormatIsFollowed
  <2> SUFFICES ASSUME FormatInv PROVE F!TypeOK /\ F!PrintsWhatWasAsked /\ F!ReadsInBounds
    BY DEF FormatIsFollowed
  <2> QED BY FormatIsPrinted, FormatIsInBounds DEF FormatInv
<1> QED BY <1>1, <1>2, <1>3, PTL DEF SpecAny
=============================================================================
