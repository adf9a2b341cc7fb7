---------------------------- MODULE SharedProofs ----------------------------
(***************************************************************************)
(* Theorems about what threads and handlers share, for any threads, CPUs,  *)
(* sizes: RingBuffer and Queue implement BoundedFifo, a container of Queue *)
(* has one owner, a reader of an ObjectList sees the list without a lock,  *)
(* every CPU of PthreadCtrl has a number of its own, and an IntSpinLock is *)
(* held once, with the interrupts of its holder off.                       *)
(***************************************************************************)
EXTENDS MCShared, ListLemmas

-----------------------------------------------------------------------------
(***************************************************************************)
(* RingBuffer implements BoundedFifo for every number of slots S > 1 and   *)
(* every type of items.  The inductive invariant is TypeOK with its last   *)
(* part: the slots between head and tail hold items.                       *)
(***************************************************************************)
LEMMA FollowingWraps ==
  ASSUME NEW i \in 0 .. S - 1
  PROVE  Following(i) = IF i = S - 1 THEN 0 ELSE i + 1
<1>1. CASE i = S - 1
  BY <1>1, RingBufferAssumption DEF Following
<1>2. CASE i # S - 1
  <2>1. i + 1 \in 0 .. S - 1
    BY <1>2, RingBufferAssumption
  <2> QED BY <1>2, <2>1, RingBufferAssumption DEF Following
<1> QED BY <1>1, <1>2

-----------------------------------------------------------------------------
(***************************************************************************)
(* How the operations move the window of used slots.                       *)
(***************************************************************************)
Indices == head \in 0 .. S - 1 /\ tail \in 0 .. S - 1

LEMMA UsedIsBounded ==
  ASSUME Indices
  PROVE  /\ Used \in 0 .. S - 1
         /\ Used = 0 <=> head = tail
         /\ Used = S - 1 <=> Following(tail) = head
         /\ \A i \in 1 .. Used : Slot(i) \in 0 .. S - 1
<1>1. Following(tail) = IF tail = S - 1 THEN 0 ELSE tail + 1
  BY FollowingWraps DEF Indices
<1> QED BY <1>1, RingBufferAssumption DEF Indices, Used, Slot

\* A slot in use is not the next one to be written.
LEMMA SlotsAreNotTail ==
  ASSUME Indices, NEW i \in 1 .. Used
  PROVE  Slot(i) # tail
BY RingBufferAssumption DEF Indices, Used, Slot

LEMMA TailMoves ==
  ASSUME Indices, Following(tail) # head, tail' = Following(tail), head' = head
  PROVE  /\ Indices' /\ Used' = Used + 1
         /\ Slot(Used + 1) = tail
         /\ \A i \in 1 .. Used + 1 : Slot(i)' = Slot(i)
<1>1. Following(tail) = IF tail = S - 1 THEN 0 ELSE tail + 1
  BY FollowingWraps DEF Indices
<1> QED BY <1>1, RingBufferAssumption DEF Indices, Used, Slot

LEMMA HeadMoves ==
  ASSUME Indices, head # tail, head' = Following(head), tail' = tail
  PROVE  /\ Indices' /\ Used \in Nat /\ Used' = Used - 1
         /\ Slot(1) = head
         /\ \A i \in 1 .. Used - 1 : Slot(i)' = Slot(i + 1)
<1>1. Following(head) = IF head = S - 1 THEN 0 ELSE head + 1
  BY FollowingWraps DEF Indices
<1> QED BY <1>1, RingBufferAssumption DEF Indices, Used, Slot

-----------------------------------------------------------------------------
(***************************************************************************)
(* Type correctness.                                                       *)
(***************************************************************************)
LEMMA InitTypeOK == Init => TypeOK
<1> SUFFICES ASSUME Init PROVE TypeOK
  OBVIOUS
<1>1. Used = 0
  BY DEF Init, Used
<1> QED BY <1>1, RingBufferAssumption DEF Init, TypeOK

LEMMA PushKeepsType ==
  ASSUME TypeOK, NEW x \in T, NEW t \in Threads, Push(t, x)
  PROVE  TypeOK'
<1> Indices
  BY DEF TypeOK, Indices
<1>1. CASE Following(tail) # head
  <2>1. /\ buffer' = [buffer EXCEPT ![tail] = x]
        /\ tail' = Following(tail) /\ head' = head
    BY <1>1 DEF Push
  <2>2. /\ Indices' /\ Used' = Used + 1 /\ Slot(Used + 1) = tail
        /\ \A i \in 1 .. Used + 1 : Slot(i)' = Slot(i)
    BY <1>1, <2>1, TailMoves
  <2>3. ASSUME NEW i \in 1 .. Used'
        PROVE  buffer'[Slot(i)'] \in T
    <3>1. CASE i = Used + 1
      BY <2>1, <2>2, <3>1, UsedIsBounded DEF TypeOK
    <3>2. CASE i \in 1 .. Used
      BY <2>1, <2>2, <3>2, UsedIsBounded, SlotsAreNotTail DEF TypeOK
    <3> QED BY <2>2, <3>1, <3>2, UsedIsBounded
  <2> QED BY <2>1, <2>2, <2>3 DEF TypeOK, Indices
<1>2. CASE Following(tail) = head
  BY <1>2 DEF Push, TypeOK, Used, Slot
<1> QED BY <1>1, <1>2

LEMMA PopKeepsType ==
  ASSUME TypeOK, NEW t \in Threads, Pop(t)
  PROVE  TypeOK'
<1> Indices
  BY DEF TypeOK, Indices
<1>1. CASE head # tail
  <2>1. head' = Following(head) /\ tail' = tail /\ buffer' = buffer
    BY <1>1 DEF Pop
  <2>2. /\ Indices' /\ Used \in Nat /\ Used' = Used - 1
        /\ \A i \in 1 .. Used - 1 : Slot(i)' = Slot(i + 1)
    BY <1>1, <2>1, HeadMoves
  <2>3. ASSUME NEW i \in 1 .. Used'
        PROVE  buffer'[Slot(i)'] \in T
    <3>1. i \in 1 .. Used - 1 /\ i + 1 \in 1 .. Used
      BY <2>2
    <3> QED BY <2>1, <2>2, <3>1 DEF TypeOK
  <2> QED BY <2>1, <2>2, <2>3 DEF TypeOK, Indices
<1>2. CASE head = tail
  BY <1>2 DEF Pop, TypeOK, Used, Slot
<1> QED BY <1>1, <1>2

LEMMA NextKeepsType == TypeOK /\ [Next]_vars => TypeOK'
<1> SUFFICES ASSUME TypeOK, [Next]_vars PROVE TypeOK'
  OBVIOUS
<1>1. ASSUME UNCHANGED <<buffer, head, tail>> PROVE TypeOK'
  BY <1>1 DEF TypeOK, Used, Slot
<1>2. ASSUME NEW t \in Threads, IsFull(t) \/ IsEmpty(t) PROVE TypeOK'
  BY <1>1, <1>2 DEF IsFull, IsEmpty
<1>3. CASE UNCHANGED vars
  BY <1>1, <1>3 DEF vars
<1> QED BY <1>2, <1>3, PushKeepsType, PopKeepsType DEF Next

\* Head and tail stay in the array and every slot between them holds an item
\* that was written: Pop() never returns the content of an unused slot.
THEOREM TypeCorrect == Spec => []TypeOK
<1> QED BY InitTypeOK, NextKeepsType, PTL DEF Spec

-----------------------------------------------------------------------------
(***************************************************************************)
(* The refinement.                                                         *)
(***************************************************************************)
LEMMA ContentIsSequence ==
  ASSUME TypeOK
  PROVE  /\ content \in Seq(T) /\ Len(content) = Used
         /\ \A i \in 1 .. Used : content[i] = buffer[Slot(i)]
<1> Indices
  BY DEF TypeOK, Indices
<1>1. Used \in Nat /\ \A i \in 1 .. Used : buffer[Slot(i)] \in T
  BY UsedIsBounded, RingBufferAssumption DEF TypeOK
<1> QED BY <1>1 DEF content

\* The number of slots between any two indices.
LEMMA WindowIsNatural ==
  \A h, t \in 0 .. S - 1 : (IF h <= t THEN t - h ELSE t - h + S) \in Nat
BY RingBufferAssumption

\* ContentIsSequence of the next state.
LEMMA ContentIsSequenceNext ==
  ASSUME TypeOK'
  PROVE  /\ content' \in Seq(T) /\ Len(content') = Used'
         /\ \A i \in 1 .. Used' : content'[i] = buffer'[Slot(i)']
<1>1. Used' \in Nat
  <2>1. Indices'
    BY DEF TypeOK, Indices
  <2> QED BY <2>1, WindowIsNatural DEF Indices, Used
<1>2. \A i \in 1 .. Used' : buffer'[Slot(i)'] \in T
  BY DEF TypeOK
<1> QED BY <1>1, <1>2 DEF content

LEMMA PushRefines ==
  ASSUME TypeOK, TypeOK', NEW t \in Threads, NEW x \in T, Push(t, x)
  PROVE  F!Push(t, x)
<1> Indices
  BY DEF TypeOK, Indices
<1>1. CASE Following(tail) # head
  <2>1. /\ buffer' = [buffer EXCEPT ![tail] = x]
        /\ tail' = Following(tail) /\ head' = head
        /\ answer' = [answer EXCEPT ![t] = "true"]
    BY <1>1 DEF Push, Answer
  <2>2. /\ Used' = Used + 1 /\ Slot(Used + 1) = tail
        /\ \A i \in 1 .. Used + 1 : Slot(i)' = Slot(i)
    BY <1>1, <2>1, TailMoves
  <2>3. Len(content) < S - 1
    BY <1>1, UsedIsBounded, ContentIsSequence, RingBufferAssumption
  <2>4. /\ content' \in Seq(T) /\ Len(content') = Used + 1
        /\ \A i \in 1 .. Used + 1 : content'[i] = buffer'[Slot(i)']
    BY <2>2, ContentIsSequenceNext
  <2>5. content' = Append(content, x)
    <3>1. Used \in Nat /\ content \in Seq(T) /\ Len(content) = Used
      BY UsedIsBounded, ContentIsSequence, RingBufferAssumption
    <3>2. buffer'[tail] = x
      BY <2>1 DEF TypeOK
    <3>3. content'[Used + 1] = x
      BY <2>2, <2>4, <3>1, <3>2
    <3>4. ASSUME NEW i \in 1 .. Used
          PROVE  content'[i] = content[i]
      <4>1. i \in 1 .. Used + 1 /\ content'[i] = buffer'[Slot(i)]
        BY <2>2, <2>4, <3>1
      <4>2. Slot(i) # tail /\ Slot(i) \in 0 .. S - 1
        BY SlotsAreNotTail, UsedIsBounded
      <4> QED BY <2>1, <4>1, <4>2, ContentIsSequence DEF TypeOK
    <3> QED BY <2>4, <3>1, <3>3, <3>4
  <2> QED BY <2>1, <2>3, <2>5 DEF F!Push, F!Answer
<1>2. CASE Following(tail) = head
  <2>1. UNCHANGED <<buffer, head, tail>> /\ answer' = [answer EXCEPT ![t] = "false"]
    BY <1>2 DEF Push, Answer
  <2>2. UNCHANGED content
    BY <2>1 DEF content, Used, Slot
  <2>3. Len(content) = S - 1
    BY <1>2, UsedIsBounded, ContentIsSequence
  <2> QED BY <2>1, <2>2, <2>3 DEF F!Push, F!Answer
<1> QED BY <1>1, <1>2

LEMMA PopRefines ==
  ASSUME TypeOK, TypeOK', NEW t \in Threads, Pop(t)
  PROVE  F!Pop(t)
<1> Indices
  BY DEF TypeOK, Indices
<1>1. CASE head # tail
  <2>1. /\ head' = Following(head) /\ tail' = tail /\ buffer' = buffer
        /\ answer' = [answer EXCEPT ![t] = buffer[head]]
    BY <1>1 DEF Pop, Answer
  <2>2. /\ Used' = Used - 1 /\ Slot(1) = head
        /\ \A i \in 1 .. Used - 1 : Slot(i)' = Slot(i + 1)
    BY <1>1, <2>1, HeadMoves
  <2>3. Used \in 1 .. S - 1
    BY <1>1, UsedIsBounded, RingBufferAssumption
  <2>4. content # <<>> /\ Head(content) = buffer[head]
    BY <2>2, <2>3, ContentIsSequence
  <2>5. /\ content' \in Seq(T) /\ Len(content') = Used - 1
        /\ \A i \in 1 .. Used - 1 : content'[i] = buffer[Slot(i + 1)]
    <3>1. /\ content' \in Seq(T) /\ Len(content') = Used'
          /\ \A i \in 1 .. Used' : content'[i] = buffer'[Slot(i)']
      BY ContentIsSequenceNext
    <3> QED BY <2>1, <2>2, <3>1
  <2>6. content' = Tail(content)
    <3>1. Len(Tail(content)) = Used - 1 /\ Tail(content) \in Seq(T)
      BY <2>3, <2>4, ContentIsSequence
    <3>2. ASSUME NEW i \in 1 .. Used - 1
          PROVE  content'[i] = Tail(content)[i]
      BY <2>3, <2>4, <2>5, ContentIsSequence
    <3> QED BY <2>5, <3>1, <3>2
  <2> QED BY <2>1, <2>4, <2>6 DEF F!Pop, F!Answer
<1>2. CASE head = tail
  <2>1. UNCHANGED <<buffer, head, tail>> /\ answer' = [answer EXCEPT ![t] = "false"]
    BY <1>2 DEF Pop, Answer
  <2>2. UNCHANGED content
    BY <2>1 DEF content, Used, Slot
  <2>3. content = <<>>
    BY <1>2, UsedIsBounded, ContentIsSequence
  <2> QED BY <2>1, <2>2, <2>3 DEF F!Pop, F!Answer
<1> QED BY <1>1, <1>2

\* Every history of RingBuffer is one of a first-in first-out queue that takes
\* S - 1 items, for every S > 1: nothing is lost, overwritten, repeated or
\* reordered, and the answers of the four operations are true.
THEOREM Refinement == Spec => ImplementsBoundedFifo
<1>1. Init => F!Init
  <2> SUFFICES ASSUME Init PROVE F!Init
    OBVIOUS
  <2>1. Used = 0 /\ answer = [t \in Threads |-> "true"]
    BY DEF Init, Used
  <2>2. content = <<>>
    BY <2>1, InitTypeOK, ContentIsSequence
  <2> QED BY <2>1, <2>2 DEF F!Init
<1>2. TypeOK /\ TypeOK' /\ [Next]_vars => [F!Next]_<<content, answer>>
  <2> SUFFICES ASSUME TypeOK, TypeOK', [Next]_vars
               PROVE  [F!Next]_<<content, answer>>
    OBVIOUS
  <2>1. ASSUME UNCHANGED <<buffer, head, tail>> PROVE UNCHANGED content
    BY <2>1 DEF content, Used, Slot
  <2>2. Indices
    BY DEF TypeOK, Indices
  <2>3. Len(content) = S - 1 <=> Following(tail) = head
    BY <2>2, UsedIsBounded, ContentIsSequence
  <2>4. content = <<>> <=> head = tail
    BY <2>2, UsedIsBounded, ContentIsSequence
  <2>5. ASSUME NEW t \in Threads, IsFull(t) PROVE F!IsFull(t)
    BY <2>1, <2>3, <2>5 DEF IsFull, F!IsFull, Answer, F!Answer
  <2>6. ASSUME NEW t \in Threads, IsEmpty(t) PROVE F!IsEmpty(t)
    BY <2>1, <2>4, <2>6 DEF IsEmpty, F!IsEmpty, Answer, F!Answer
  <2>7. CASE UNCHANGED vars
    BY <2>1, <2>7 DEF vars
  <2> QED BY <2>5, <2>6, <2>7, PushRefines, PopRefines DEF Next, F!Next
<1> QED BY <1>1, <1>2, TypeCorrect, PTL DEF Spec, ImplementsBoundedFifo, F!Spec

-----------------------------------------------------------------------------
(***************************************************************************)
(* PthreadCtrl.  Whoever looks at _thread_ids finds its own id at its own  *)
(* place or nowhere: a place holds what it held in the beginning until its *)
(* thread writes it, which it does before it calls GetId().  Only the main *)
(* thread calls GetId() before that, and gets 0 from the end of the loop.  *)
(***************************************************************************)
\* The thread has written its id.
HasWritten(t) == \/ t # 0 /\ pPc[t] \in {"run", "scan"}
                 \/ t = 0 /\ pMade > 0

IdsInv ==
  /\ \A t \in P!AllThreads : pPc[t] = "start" => t \in P!Members \ {0}
  /\ \A t \in P!Members : ids[t] \in Garbage \cup {t}
  /\ \A t \in P!Members : HasWritten(t) => ids[t] = t
  /\ \A t \in P!Members : pPc[t] = "scan" => \/ pI[t] <= t
                                             \/ t = 0 /\ pMade = 0

CpusInv == P!TypeOK /\ IdsInv /\ P!EachCpuHasItsNumber

LEMMA PthreadFacts ==
  /\ cpu_nums \in Nat \ {0} /\ 0 \in P!Members /\ P!Members \subseteq P!AllThreads
  /\ P!Members = 0 .. cpu_nums - 1
  /\ \A t \in P!AllThreads : t \notin Garbage
  /\ \A t \in P!AllThreads : t \in P!Members \/ t \in Outsiders
  /\ \A t \in Outsiders : t \notin P!Members
  BY SharedAssumption DEF P!PthreadCtrlAssumption, P!Members, P!AllThreads

LEMMA CpusInvInit == P!Init => CpusInv
  BY PthreadFacts DEF P!Init, CpusInv, P!TypeOK, IdsInv, HasWritten,
     P!EachCpuHasItsNumber

LEMMA CpusInvNext == CpusInv /\ [P!Next]_(P!vars) => CpusInv'
<1> SUFFICES ASSUME CpusInv, [P!Next]_(P!vars) PROVE CpusInv'
  OBVIOUS
<1> USE PthreadFacts DEF CpusInv, IdsInv, HasWritten, P!TypeOK, P!EachCpuHasItsNumber
<1>1. CASE P!SetupMain
  BY <1>1 DEF P!SetupMain
<1>2. CASE P!MakeThread
  BY <1>2 DEF P!MakeThread, P!PoolSize
<1>3. ASSUME NEW t \in P!AllThreads, P!ThreadStarts(t) PROVE CpusInv'
  <2>1. P!TypeOK'
    BY <1>3 DEF P!ThreadStarts
  <2>2. IdsInv'
    BY <1>3 DEF P!ThreadStarts
  <2>3. P!EachCpuHasItsNumber'
    BY <1>3 DEF P!ThreadStarts
  <2> QED BY <2>1, <2>2, <2>3
<1>4. ASSUME NEW t \in P!AllThreads, P!GetId(t) PROVE CpusInv'
  <2>1. P!TypeOK' /\ P!EachCpuHasItsNumber'
    BY <1>4 DEF P!GetId
  <2>2. IdsInv'
    BY <1>4 DEF P!GetId
  <2> QED BY <2>1, <2>2
<1>5. ASSUME NEW t \in P!AllThreads, P!Scan(t) PROVE CpusInv'
  <2>1. pPc[t] = "scan" /\ pI[t] \in 0 .. cpu_nums /\ UNCHANGED <<ids, pMade>>
    BY <1>5 DEF P!Scan
  <2>2. t \in P!Members => /\ pI[t] # cpu_nums \/ t = 0
                           /\ ids[t] = t \/ (t = 0 /\ pMade = 0)
    BY <2>1
  <2>3. ASSUME NEW n \in 0 .. cpu_nums - 1, n = (IF t \in P!Members THEN t ELSE 0),
               P!Returns(t, n), UNCHANGED pI
        PROVE  CpusInv'
    <3>1. P!TypeOK' /\ P!EachCpuHasItsNumber'
      BY <2>1, <2>3 DEF P!Returns
    <3>2. IdsInv'
      BY <2>1, <2>3 DEF P!Returns
    <3> QED BY <3>1, <3>2
  <2>4. CASE pI[t] = cpu_nums
    <3>1. 0 = (IF t \in P!Members THEN t ELSE 0) /\ 0 \in 0 .. cpu_nums - 1
      BY <2>2, <2>4
    <3> QED BY <1>5, <2>3, <2>4, <3>1 DEF P!Scan
  <2>5. CASE pI[t] # cpu_nums /\ ids[pI[t]] = t
    <3>1. pI[t] = t /\ t \in P!Members
      BY <2>1, <2>5
    <3> QED BY <1>5, <2>3, <2>5, <3>1 DEF P!Scan
  <2>6. CASE pI[t] # cpu_nums /\ ids[pI[t]] # t
    <3>1. pI' = [pI EXCEPT ![t] = @ + 1] /\ UNCHANGED <<pPc, pRet>>
      BY <1>5, <2>6 DEF P!Scan
    <3>2. pI[t] + 1 \in 0 .. cpu_nums
      BY <2>1, <2>6
    <3>3. t \in P!Members => pI[t] + 1 <= t \/ (t = 0 /\ pMade = 0)
      BY <2>1, <2>2, <2>6
    <3>4. P!TypeOK' /\ P!EachCpuHasItsNumber'
      BY <2>1, <3>1, <3>2
    <3>5. IdsInv'
      BY <2>1, <3>1, <3>2, <3>3
    <3> QED BY <3>4, <3>5
  <2> QED BY <2>4, <2>5, <2>6
<1>6. CASE UNCHANGED P!vars
  BY <1>6 DEF P!vars
<1> QED BY <1>1, <1>2, <1>3, <1>4, <1>5, <1>6 DEF P!Next

-----------------------------------------------------------------------------
(***************************************************************************)
(* Queue.  The containers of the list are a chain s from the guard to      *)
(* _last; each container is in the list, free or in the hands of one       *)
(* thread, whose program counter tells what the container holds.           *)
(***************************************************************************)
IsList(next, last, s) ==
  /\ s \in Seq(Containers)
  /\ IsChain(next, Null, First, s)
  /\ last = End(First, s)

Owned(free, held, s) ==
  /\ Members(s) \cap free = {}
  /\ \A t \in QueueThreads : held[t] \notin Members(s) \cup free
  /\ \A n \in Containers : \/ n \in Members(s) \cup free
                           \/ \E t \in QueueThreads : n = held[t]

HeldInv ==
  /\ \A t, u \in QueueThreads : qHeld[t] = qHeld[u] /\ qHeld[t] # Null => t = u
  /\ \A t \in QueueThreads :
       /\ qPc[t] # "failed"
       /\ qHeld[t] = Null <=> qPc[t] = "idle"
       /\ qPc[t] = "link" => qNext[qHeld[t]] = Null
       /\ qPc[t] \in {"link", "read"} => qData[qHeld[t]] \in T

ListInv(s) ==
  IsList(qNext, qLast, s) /\ Owned(qFree, qHeld, s) /\ AllHold(s, qData, T)

QueueInv == Q!TypeOK /\ HeldInv /\ \E s : ListInv(s)

LEMMA QueueFacts ==
  /\ First \notin Containers /\ Null \notin Containers \cup {First}
  /\ Unset \notin Containers \cup {First} /\ Null # Unset
  /\ Null \notin T /\ Unset \notin T /\ IsFiniteSet(Containers)
  /\ Q!Nodes = Containers \cup {First}
<1>1. IsFiniteSet(Containers)
  BY SharedAssumption DEF Q!QueueAssumption, Q!IsFiniteSet, IsFiniteSet
<1> QED BY <1>1, SharedAssumption DEF Q!QueueAssumption, Q!Nodes

\* The chain is what following the links yields.
LEMMA ListIsChain ==
  ASSUME NEW next, NEW last, NEW s, IsList(next, last, s),
         DOMAIN next = Containers \cup {First}
  PROVE  /\ Chain(next, Null, First, Cardinality(Containers)) = s
         /\ Len(s) \in 0 .. Cardinality(Containers)
<1>1. /\ s \in Seq(Containers) /\ IsChain(next, Null, First, s) /\ Len(s) \in Nat
      /\ First \in DOMAIN next /\ Containers \subseteq DOMAIN next
  BY DEF IsList
<1>2. Cardinality(Containers) \in Nat /\ Len(s) <= Cardinality(Containers)
  BY <1>1, QueueFacts, ChainIsShort, FS_CardinalityType
<1>3. Chain(next, Null, First, Cardinality(Containers)) = s
  BY <1>1, <1>2, ChainIs
<1> QED BY <1>1, <1>2, <1>3

\* The beginning and the end of the list.
LEMMA EndsOfList ==
  ASSUME NEW s, IsList(qNext, qLast, s)
  PROVE  /\ qNext[qLast] = Null
         /\ s = << >> <=> qLast = First
         /\ s # << >> => /\ Len(s) \in Nat /\ qLast = s[Len(s)]
                         /\ s[1] \in Members(s) /\ qNext[First] = s[1]
                         /\ s[1] = Head(s) /\ s[1] \in Containers
         /\ qLast \in {First} \cup Members(s)
<1>1. /\ s \in Seq(Containers) /\ IsChain(qNext, Null, First, s)
      /\ qLast = NodeAt(First, s, Len(s)) /\ Len(s) \in Nat /\ DOMAIN s = 1 .. Len(s)
  BY DEF IsList, End
<1>2. qNext[qLast] = Null
  BY <1>1 DEF IsChain, End
<1>3. CASE Len(s) = 0
  BY <1>1, <1>2, <1>3 DEF NodeAt
<1>4. CASE Len(s) # 0
  <2>1. 1 \in 1 .. Len(s) /\ Len(s) \in 1 .. Len(s) /\ 0 \in 0 .. Len(s) - 1
    BY <1>1, <1>4
  <2>2. qLast = s[Len(s)] /\ NodeAt(First, s, 0) = First
    BY <1>1, <1>4 DEF NodeAt
  <2>3. qNext[First] = s[1]
    <3>1. qNext[NodeAt(First, s, 0)] = s[0 + 1]
      BY <1>1, <2>1 DEF IsChain
    <3> QED BY <2>2, <3>1
  <2>4. \A i \in 1 .. Len(s) : s[i] \in Containers /\ s[i] \in Members(s)
    BY <1>1 DEF Members
  <2>5. s # << >> /\ s[1] = Head(s)
    BY <1>1, <1>4
  <2> QED BY <1>1, <1>2, <2>1, <2>2, <2>3, <2>4, <2>5, QueueFacts
<1> QED BY <1>3, <1>4

LEMMA QueueInvInit == Q!Init => QueueInv /\ QueueFifo!Init
<1> SUFFICES ASSUME Q!Init PROVE QueueInv /\ QueueFifo!Init
  OBVIOUS
<1> USE QueueFacts
<1>1. Q!TypeOK /\ HeldInv
  BY DEF Q!Init, Q!TypeOK, Q!Labels, HeldInv
<1>2. IsList(qNext, qLast, << >>)
  BY DEF Q!Init, IsList, IsChain, End, NodeAt
<1>3. Owned(qFree, qHeld, << >>) /\ AllHold(<< >>, qData, T)
  BY DEF Q!Init, Owned, AllHold, Members
<1>4. queued = << >>
  <2>1. chain = << >>
    BY <1>1, <1>2, ListIsChain DEF chain, Q!TypeOK
  <2> QED BY <2>1 DEF queued
<1>5. decided = [t \in QueueThreads |-> "true"]
  BY DEF Q!Init, decided
<1> QED BY <1>1, <1>2, <1>3, <1>4, <1>5 DEF QueueInv, ListInv, QueueFifo!Init

\* What the proof of a step shows: the list u after it, and what is queued
\* then.
LEMMA NextList ==
  ASSUME Q!TypeOK', HeldInv', NEW u, IsList(qNext', qLast', u),
         Owned(qFree', qHeld', u), AllHold(u, qData', T)
  PROVE  /\ QueueInv' /\ queued' = Content(u, qData')
         /\ Len(u) <= Cardinality(Containers)
<1>1. QueueInv'
  BY DEF QueueInv, ListInv
<1>2. DOMAIN qNext' = Containers \cup {First}
  BY QueueFacts DEF Q!TypeOK
<1>3. Chain(qNext', Null, First, Cardinality(Containers)) = u
      /\ Len(u) <= Cardinality(Containers)
  BY <1>2, ListIsChain
<1>4. chain' = u
  BY <1>3 DEF chain
<1> QED BY <1>1, <1>3, <1>4 DEF queued, Content

LEMMA QueueNext ==
  ASSUME QueueInv, [Q!Next]_(Q!vars)
  PROVE  QueueInv' /\ [QueueFifo!Next]_<<queued, decided>>
<1> USE QueueFacts
<1> PICK s : ListInv(s)
  BY DEF QueueInv
<1> DEFINE Goal == QueueInv' /\ [QueueFifo!Next]_<<queued, decided>>
<1>1. /\ Q!TypeOK /\ HeldInv /\ IsList(qNext, qLast, s) /\ s \in Seq(Containers)
      /\ Owned(qFree, qHeld, s) /\ AllHold(s, qData, T)
      /\ IsChain(qNext, Null, First, s)
  BY DEF QueueInv, ListInv, IsList
<1>2. queued = Content(s, qData) /\ Len(s) \in 0 .. Cardinality(Containers)
  <2>1. /\ chain = s /\ Len(s) \in 0 .. Cardinality(Containers)
    BY <1>1, ListIsChain DEF chain, Q!TypeOK
  <2> QED BY <2>1 DEF queued, Content
<1>3. Members(s) \subseteq Containers
  BY <1>1, MembersOf
<1>4. ASSUME NEW t \in QueueThreads, NEW x \in T, Q!PushAlloc(t, x) PROVE Goal
  <2>1. PICK c \in qFree : /\ qFree' = qFree \ {c}
                           /\ qData' = [qData EXCEPT ![c] = x]
                           /\ qNext' = [qNext EXCEPT ![c] = Null]
                           /\ qHeld' = [qHeld EXCEPT ![t] = c]
    BY <1>4 DEF Q!PushAlloc, Q!Hold
  <2>2. /\ qPc[t] = "idle" /\ qPc' = [qPc EXCEPT ![t] = "link"]
        /\ UNCHANGED <<qLast, qAnswer>>
    BY <1>4 DEF Q!PushAlloc, Q!Goto
  <2>3. /\ c \in Containers /\ c # First /\ c # Null /\ c \notin Members(s)
        /\ \A u \in QueueThreads : qHeld[u] # c
    BY <1>1, <1>3 DEF Q!TypeOK, Owned
  <2>4. Q!TypeOK'
    BY <1>1, <2>1, <2>2, <2>3 DEF Q!TypeOK, Q!Labels
  <2>5. HeldInv'
    BY <1>1, <2>1, <2>2, <2>3 DEF Q!TypeOK, HeldInv
  <2>6. IsList(qNext', qLast', s)
    <3>1. \A m \in {First} \cup Members(s) : qNext'[m] = qNext[m]
      BY <2>1, <2>3
    <3>2. IsChain(qNext', Null, First, s)
      BY <1>1, <3>1, ChainStays
    <3> QED BY <1>1, <2>2, <3>2 DEF IsList
  <2>7. Owned(qFree', qHeld', s) /\ AllHold(s, qData', T)
    BY <1>1, <1>3, <2>1, <2>2, <2>3 DEF Owned, AllHold, Q!TypeOK, HeldInv
  <2>8. queued' = queued
    <3>1. \A m \in Members(s) : qData'[m] = qData[m]
      BY <2>1, <2>3
    <3> QED BY <1>1, <1>2, <2>4, <2>5, <2>6, <2>7, <3>1, NextList, ContentStays
  <2>9. decided' = decided
    BY <1>1, <2>1, <2>2, <2>3 DEF decided, Q!TypeOK, HeldInv
  <2> QED BY <2>4, <2>5, <2>6, <2>7, <2>8, <2>9, NextList
<1>5. ASSUME NEW t \in QueueThreads, Q!PushLink(t) PROVE Goal
  <2> DEFINE c == qHeld[t]
  <2>1. qNext[qLast] = Null /\ qLast \in {First} \cup Members(s)
    BY <1>1, EndsOfList
  <2>2. /\ qPc[t] = "link" /\ qPc' = [qPc EXCEPT ![t] = "idle"]
        /\ qNext' = [qNext EXCEPT ![qLast] = c] /\ qLast' = c
        /\ qHeld' = [qHeld EXCEPT ![t] = Null]
        /\ qAnswer' = [qAnswer EXCEPT ![t] = "true"]
        /\ UNCHANGED <<qData, qFree>>
    BY <1>5, <2>1 DEF Q!PushLink, Q!Goto, Q!Hold, Q!Answer
  <2>3. /\ c \in Containers /\ c # First /\ c # Null /\ c \notin Members(s)
        /\ c \notin qFree /\ qNext[c] = Null /\ qData[c] \in T
        /\ qLast \in Containers \cup {First} /\ qLast # c
    BY <1>1, <1>3, <2>1, <2>2 DEF Q!TypeOK, HeldInv, Owned
  <2>4. PICK u : u = Append(s, c)
    OBVIOUS
  <2>5. u \in Seq(Containers) /\ Members(u) = Members(s) \cup {c}
    BY <1>1, <2>3, <2>4, MembersOfAppend
  <2>6. Q!TypeOK'
    BY <1>1, <2>2, <2>3 DEF Q!TypeOK, Q!Labels
  <2>7. HeldInv'
    <3>1. \A r \in QueueThreads : qHeld[r] # qLast \/ qPc[r] = "idle"
      BY <1>1, <2>1 DEF Owned, HeldInv, Q!TypeOK
    <3> QED BY <1>1, <2>2, <2>3, <3>1 DEF Q!TypeOK, HeldInv
  <2>8. IsList(qNext', qLast', u)
    <3>1. /\ qNext'[End(First, s)] = c /\ qNext'[c] = Null
          /\ \A m \in ({First} \cup Members(s)) \ {End(First, s)} : qNext'[m] = qNext[m]
      BY <1>1, <2>2, <2>3 DEF IsList, Q!TypeOK
    <3>2. IsChain(qNext', Null, First, Append(s, c))
      <4> HIDE DEF c
      <4> QED BY <1>1, <2>3, <3>1, ChainGrows
    <3>3. End(First, Append(s, c)) = c
      BY <1>1, <2>3 DEF End, NodeAt
    <3> QED BY <2>2, <2>4, <2>5, <3>2, <3>3 DEF IsList
  <2>9. Owned(qFree', qHeld', u) /\ AllHold(u, qData', T)
    <3>1. AllHold(u, qData', T)
      BY <1>1, <2>2, <2>3, <2>5 DEF AllHold
    <3>2. Members(u) \cap qFree' = {}
      BY <1>1, <2>2, <2>3, <2>5 DEF Owned
    <3>3. ASSUME NEW r \in QueueThreads PROVE qHeld'[r] \notin Members(u) \cup qFree'
      <4>1. CASE r = t
        <5>1. qHeld'[r] = Null
          BY <1>1, <2>2, <4>1 DEF Q!TypeOK
        <5> QED BY <1>1, <1>3, <2>2, <2>3, <2>5, <5>1 DEF Q!TypeOK
      <4>2. CASE r # t
        <5>1. qHeld'[r] = qHeld[r] /\ qHeld[r] # c
          BY <1>1, <2>2, <2>3, <4>2 DEF Q!TypeOK, HeldInv
        <5>2. qHeld[r] \notin Members(s) \cup qFree
          BY <1>1 DEF Owned
        <5> QED BY <2>2, <2>5, <5>1, <5>2
      <4> QED BY <4>1, <4>2
    <3>4. ASSUME NEW n \in Containers, n \notin Members(u) \cup qFree'
          PROVE  \E r \in QueueThreads : n = qHeld'[r]
      <4>1. PICK r \in QueueThreads : n = qHeld[r]
        BY <1>1, <2>2, <2>5, <3>4 DEF Owned
      <4>2. r # t
        BY <2>5, <3>4, <4>1
      <4> QED BY <1>1, <2>2, <4>1, <4>2 DEF Q!TypeOK
    <3> QED BY <3>1, <3>2, <3>3, <3>4 DEF Owned
  <2>10. /\ queued' = Append(queued, qData[c])
         /\ Len(queued) < Cardinality(Containers)
    <3>1. queued' = Content(u, qData) /\ Len(u) <= Cardinality(Containers)
      BY <2>2, <2>6, <2>7, <2>8, <2>9, NextList
    <3>2. queued' = Append(Content(s, qData), qData[c])
      <4> HIDE DEF c
      <4> QED BY <1>1, <2>3, <2>4, <3>1, ContentOfAppend
    <3>3. Len(u) = Len(s) + 1 /\ Len(queued) = Len(s)
      BY <1>1, <1>2, <2>4, ContentIs
    <3>4. Cardinality(Containers) \in Nat
      BY FS_CardinalityType
    <3> QED BY <1>2, <3>1, <3>2, <3>3, <3>4
  <2>11. decided' = [decided EXCEPT ![t] = "true"]
    BY <1>1, <2>2, <2>3 DEF decided, Q!TypeOK
  <2>12. QueueFifo!Push(t, qData[c])
    BY <2>10, <2>11 DEF QueueFifo!Push, QueueFifo!Answer
  <2>13. QueueInv'
    BY <2>6, <2>7, <2>8, <2>9, NextList
  <2> QED BY <2>3, <2>12, <2>13 DEF QueueFifo!Next
<1>6. ASSUME NEW t \in QueueThreads, Q!PopUnlink(t) PROVE Goal
  <2> DEFINE c == qNext[First]
  <2>1. /\ s # << >> /\ Len(s) \in Nat /\ qLast = s[Len(s)] /\ c = s[1]
        /\ s[1] = Head(s) /\ c \in Members(s) /\ c \in Containers
    BY <1>1, <1>6, EndsOfList DEF Q!PopUnlink, Q!Empty
  <2>2. /\ qPc[t] = "idle" /\ qPc' = [qPc EXCEPT ![t] = "read"]
        /\ qNext' = [qNext EXCEPT ![First] = qNext[c]]
        /\ qLast' = IF qLast = c THEN First ELSE qLast
        /\ qHeld' = [qHeld EXCEPT ![t] = c]
        /\ UNCHANGED <<qAnswer, qData, qFree>>
    BY <1>6, <2>1 DEF Q!PopUnlink, Q!Goto, Q!Hold
  <2>3. /\ c # First /\ c # Null /\ c \notin qFree /\ qData[c] \in T
        /\ \A r \in QueueThreads : qHeld[r] # c /\ qHeld[r] # First
    BY <1>1, <2>1 DEF Owned, AllHold, Q!TypeOK
  <2>4. PICK u : u = Tail(s)
    OBVIOUS
  <2>5. /\ u = Without(s, 1) /\ u \in Seq(Containers) /\ Len(u) = Len(s) - 1
        /\ Members(u) = Members(s) \ {c} /\ 1 \in 1 .. Len(s)
    <3>1. u = Without(s, 1) /\ 1 \in 1 .. Len(s)
      BY <1>1, <2>1, <2>4, WithoutFirst
    <3>2. Members(u) = Members(s) \ {s[1]}
      BY <1>1, <3>1, MembersWithout
    <3>3. u \in Seq(Containers) /\ Len(u) = Len(s) - 1
      BY <1>1, <2>1, <2>4
    <3> QED BY <2>1, <3>1, <3>2, <3>3
  <2>6. Q!TypeOK'
    <3>1. qNext[c] \in Containers \cup {Null}
      BY <1>1, <2>1, <2>3 DEF Q!TypeOK
    <3> QED BY <1>1, <2>1, <2>2, <2>3, <3>1 DEF Q!TypeOK, Q!Labels
  <2>7. HeldInv'
    BY <1>1, <2>1, <2>2, <2>3 DEF Q!TypeOK, HeldInv
  <2>8. IsList(qNext', qLast', u)
    <3>1. NodeAt(First, s, 1 - 1) = First
      BY DEF NodeAt
    <3>2. /\ qNext'[First] = qNext[s[1]]
          /\ \A m \in ({First} \cup Members(s)) \ {s[1], First} : qNext'[m] = qNext[m]
      BY <1>1, <2>1, <2>2 DEF Q!TypeOK
    <3>3. IsChain(qNext', Null, First, Without(s, 1))
      <4>1. qNext'[NodeAt(First, s, 1 - 1)] = qNext[s[1]]
        BY <3>1, <3>2
      <4>2. \A m \in ({First} \cup Members(s)) \ {s[1], NodeAt(First, s, 1 - 1)} :
              qNext'[m] = qNext[m]
        BY <3>1, <3>2
      <4> QED BY <1>1, <2>5, <4>1, <4>2, ChainShrinks
    <3>4. qLast' = End(First, u)
      <4>1. CASE Len(s) = 1
        BY <2>1, <2>2, <2>5, <4>1 DEF End, NodeAt
      <4>2. CASE Len(s) # 1
        <5>1. Len(s) \in 0 .. Len(s) /\ 1 \in 0 .. Len(s) /\ Len(s) # 0
          BY <2>1, <2>5, <4>2
        <5>2. NodeAt(First, s, Len(s)) = s[Len(s)] /\ NodeAt(First, s, 1) = s[1]
          BY <5>1 DEF NodeAt
        <5>3. s[Len(s)] # s[1]
          BY <1>1, <4>2, <5>1, <5>2, ChainIsInjective
        <5>4. u[Len(u)] = s[Len(s)] /\ Len(u) # 0
          BY <1>1, <2>1, <2>4, <2>5, <4>2
        <5> QED BY <2>1, <2>2, <5>3, <5>4 DEF End, NodeAt
      <4> QED BY <4>1, <4>2
    <3> QED BY <2>5, <3>3, <3>4 DEF IsList
  <2>9. Owned(qFree', qHeld', u) /\ AllHold(u, qData', T)
    BY <1>1, <2>1, <2>2, <2>3, <2>5 DEF Owned, AllHold, Q!TypeOK, HeldInv
  <2>10. queued # << >> /\ queued' = Tail(queued) /\ Head(queued) = qData[c]
    <3>1. queued' = Content(u, qData)
      BY <2>2, <2>6, <2>7, <2>8, <2>9, NextList
    <3>2. /\ Content(Tail(s), qData) = Tail(Content(s, qData))
          /\ Content(s, qData) # << >>
          /\ Head(Content(s, qData)) = qData[Head(s)]
      BY <1>1, <2>1, ContentOfTail
    <3> QED BY <1>2, <2>1, <2>4, <3>1, <3>2
  <2>11. decided' = [decided EXCEPT ![t] = qData[c]]
    BY <1>1, <2>2, <2>3 DEF decided, Q!TypeOK
  <2>12. QueueFifo!Pop(t)
    BY <2>10, <2>11 DEF QueueFifo!Pop, QueueFifo!Answer
  <2>13. QueueInv'
    BY <2>6, <2>7, <2>8, <2>9, NextList
  <2> QED BY <2>12, <2>13 DEF QueueFifo!Next
<1>7. ASSUME NEW t \in QueueThreads, Q!PopRead(t) PROVE Goal
  <2>1. /\ qPc[t] = "read" /\ qPc' = [qPc EXCEPT ![t] = "free"]
        /\ qAnswer' = [qAnswer EXCEPT ![t] = qData[qHeld[t]]]
        /\ UNCHANGED <<qData, qNext, qLast, qFree, qHeld>>
    BY <1>7 DEF Q!PopRead, Q!Goto, Q!Answer, Q!memory
  <2>2. Q!TypeOK'
    BY <1>1, <2>1 DEF Q!TypeOK, Q!Labels, HeldInv
  <2>3. HeldInv'
    BY <1>1, <2>1 DEF Q!TypeOK, HeldInv
  <2>4. /\ IsList(qNext', qLast', s) /\ Owned(qFree', qHeld', s)
        /\ AllHold(s, qData', T)
    BY <1>1, <2>1
  <2>5. QueueInv' /\ queued' = queued
    BY <1>2, <2>1, <2>2, <2>3, <2>4, NextList
  <2>6. decided' = decided
    BY <1>1, <2>1 DEF decided, Q!TypeOK
  <2> QED BY <2>5, <2>6
<1>8. ASSUME NEW t \in QueueThreads, Q!PopFree(t) PROVE Goal
  <2> DEFINE c == qHeld[t]
  <2>1. /\ qPc[t] = "free" /\ qPc' = [qPc EXCEPT ![t] = "idle"]
        /\ qFree' = qFree \cup {c} /\ qData' = [qData EXCEPT ![c] = Unset]
        /\ qNext' = [qNext EXCEPT ![c] = Unset]
        /\ qHeld' = [qHeld EXCEPT ![t] = Null]
        /\ UNCHANGED <<qLast, qAnswer>>
    BY <1>8 DEF Q!PopFree, Q!Goto, Q!Hold
  <2>2. /\ c \in Containers /\ c # First /\ c # Null /\ c \notin Members(s)
        /\ \A r \in QueueThreads : r # t => qHeld[r] # c
    BY <1>1, <2>1 DEF Q!TypeOK, HeldInv, Owned
  <2>3. Q!TypeOK'
    BY <1>1, <2>1, <2>2 DEF Q!TypeOK, Q!Labels
  <2>4. HeldInv'
    BY <1>1, <2>1, <2>2 DEF Q!TypeOK, HeldInv
  <2>5. IsList(qNext', qLast', s)
    <3>1. \A m \in {First} \cup Members(s) : qNext'[m] = qNext[m]
      BY <2>1, <2>2
    <3>2. IsChain(qNext', Null, First, s)
      BY <1>1, <3>1, ChainStays
    <3> QED BY <1>1, <2>1, <3>2 DEF IsList
  <2>6. \A m \in Members(s) : qData'[m] = qData[m]
    BY <2>1, <2>2
  <2>7. Owned(qFree', qHeld', s) /\ AllHold(s, qData', T)
    <3>1. AllHold(s, qData', T) /\ Members(s) \cap qFree' = {}
      BY <1>1, <2>1, <2>2, <2>6 DEF AllHold, Owned
    <3>2. ASSUME NEW r \in QueueThreads PROVE qHeld'[r] \notin Members(s) \cup qFree'
      <4>1. CASE r = t
        <5>1. qHeld'[r] = Null
          BY <1>1, <2>1, <4>1 DEF Q!TypeOK
        <5> QED BY <1>1, <1>3, <2>1, <2>2, <5>1 DEF Q!TypeOK
      <4>2. CASE r # t
        <5>1. qHeld'[r] = qHeld[r] /\ qHeld[r] # c
          BY <1>1, <2>1, <2>2, <4>2 DEF Q!TypeOK
        <5> QED BY <1>1, <2>1, <5>1 DEF Owned
      <4> QED BY <4>1, <4>2
    <3>3. ASSUME NEW n \in Containers, n \notin Members(s) \cup qFree'
          PROVE  \E r \in QueueThreads : n = qHeld'[r]
      <4>1. PICK r \in QueueThreads : n = qHeld[r]
        BY <1>1, <2>1, <3>3 DEF Owned
      <4>2. r # t
        BY <2>1, <3>3, <4>1
      <4> QED BY <1>1, <2>1, <4>1, <4>2 DEF Q!TypeOK
    <3> QED BY <3>1, <3>2, <3>3 DEF Owned
  <2>8. QueueInv' /\ queued' = Content(s, qData')
    BY <2>3, <2>4, <2>5, <2>7, NextList
  <2>9. queued' = queued
    BY <1>1, <1>2, <2>6, <2>8, ContentStays
  <2>10. decided' = decided
    BY <1>1, <2>1, <2>2 DEF decided, Q!TypeOK, HeldInv
  <2> QED BY <2>8, <2>9, <2>10
<1>9. queued = << >> <=> qLast = First
  <2>1. s = << >> <=> qLast = First
    BY <1>1, EndsOfList
  <2>2. queued \in Seq(T) /\ Len(queued) = Len(s)
    BY <1>1, <1>2, ContentIs
  <2> QED BY <1>1, <2>1, <2>2
<1>10. ASSUME NEW t \in QueueThreads, Q!PopEmpty(t) \/ Q!IsEmpty(t) PROVE Goal
  <2>1. /\ qPc[t] = "idle" /\ UNCHANGED <<qData, qNext, qFree, qLast, qPc, qHeld>>
        /\ \E b \in {"true", "false"} : qAnswer' = [qAnswer EXCEPT ![t] = b]
    BY <1>10 DEF Q!PopEmpty, Q!IsEmpty, Q!Answer, Q!memory
  <2>2. Q!TypeOK'
    BY <1>1, <2>1 DEF Q!TypeOK
  <2>3. HeldInv'
    BY <1>1, <2>1 DEF HeldInv
  <2>4. /\ IsList(qNext', qLast', s) /\ Owned(qFree', qHeld', s)
        /\ AllHold(s, qData', T)
    BY <1>1, <2>1
  <2>5. QueueInv' /\ queued' = queued
    BY <1>2, <2>1, <2>2, <2>3, <2>4, NextList
  <2>6. decided' = [decided EXCEPT ![t] = qAnswer'[t]]
    BY <1>1, <2>1 DEF decided, Q!TypeOK
  <2>7. qAnswer'[t] = IF queued = << >> /\ Q!PopEmpty(t) THEN "false"
                      ELSE IF queued = << >> THEN "true" ELSE "false"
    BY <1>1, <1>9, <1>10 DEF Q!PopEmpty, Q!IsEmpty, Q!Answer, Q!Empty, Q!TypeOK
  <2>8. QueueFifo!Pop(t) \/ QueueFifo!IsEmpty(t)
    <3>1. CASE Q!PopEmpty(t)
      BY <1>9, <2>5, <2>6, <2>7, <3>1
         DEF Q!PopEmpty, Q!Empty, QueueFifo!Pop, QueueFifo!Answer
    <3>2. CASE Q!IsEmpty(t) /\ ~Q!PopEmpty(t)
      BY <2>5, <2>6, <2>7, <3>2 DEF QueueFifo!IsEmpty, QueueFifo!Answer
    <3> QED BY <1>10, <3>1, <3>2
  <2> QED BY <2>5, <2>8 DEF QueueFifo!Next
<1>11. ASSUME UNCHANGED Q!vars PROVE Goal
  <2>1. /\ UNCHANGED <<qData, qNext, qFree, qLast, qPc, qHeld, qAnswer>>
    BY <1>11 DEF Q!vars, Q!memory
  <2>2. Q!TypeOK'
    BY <1>1, <2>1 DEF Q!TypeOK
  <2>3. HeldInv'
    BY <1>1, <2>1 DEF HeldInv
  <2>4. /\ IsList(qNext', qLast', s) /\ Owned(qFree', qHeld', s)
        /\ AllHold(s, qData', T)
    BY <1>1, <2>1
  <2>5. QueueInv' /\ queued' = queued
    BY <1>2, <2>1, <2>2, <2>3, <2>4, NextList
  <2>6. decided' = decided
    BY <2>1 DEF decided
  <2> QED BY <2>5, <2>6
<1> QED
  <2> HIDE DEF Goal
  <2>1. ASSUME Q!Next PROVE Goal
    BY <1>4, <1>5, <1>6, <1>7, <1>8, <1>10, <2>1 DEF Q!Next
  <2>2. Q!Next \/ UNCHANGED Q!vars
    OBVIOUS
  <2>3. Goal
    BY <1>11, <2>1, <2>2
  <2> QED BY <2>3 DEF Goal

-----------------------------------------------------------------------------
(***************************************************************************)
(* ObjectList.  The list is a chain s that only grows.  A container that   *)
(* was made is in it or is the one of a writer that has not linked it; a   *)
(* reader has come through a beginning of it.                              *)
(***************************************************************************)
InLock == {"link", "last", "unlock"}

WritersInv(s) ==
  /\ \A t, u \in Writers : lC[t] = lC[u] /\ lC[t] # Null => t = u
  /\ \A t \in Writers :
       /\ lPc[t] # "failed"
       /\ lPc[t] \in InLock <=> lLock = t
       /\ lC[t] = Null <=> lPc[t] = "idle"
       /\ lC[t] # Null => lC[t] \in lMade
       /\ lPc[t] \in {"lock", "link"} => lC[t] \notin Members(s) /\ lNext[lC[t]] = Null
       /\ lPc[t] \in {"last", "unlock"} => lC[t] = End(First, s)

GrownList(s) ==
  /\ s \in Seq(Containers)
  /\ IsChain(lNext, Null, First, s)
  /\ Members(s) \subseteq lMade
  /\ L!Returned \subseteq Members(s)
  /\ (\A t \in Writers : lPc[t] # "last") => lLast = End(First, s)

IsBeginning(p, s) ==
  Len(p) <= Len(s) /\ \A k \in 1 .. Len(p) : p[k] = s[k]

Walked(p, n, due, s) ==
  /\ IsBeginning(p, s)
  /\ n # Null => n = NodeAt(First, s, Len(p)) /\ due \subseteq Members(s)
  /\ n = Null => due \subseteq Members(p)

ReadersInv(s) == \A r \in Readers : Walked(seen[r], at[r], owed[r], s)

ObjectsInv ==
  L!TypeOK /\ \E s : GrownList(s) /\ WritersInv(s) /\ ReadersInv(s)

LEMMA ObjectListFacts ==
  /\ First \notin Containers /\ Null \notin Containers \cup {First}
  /\ Null \notin Writers /\ IsFiniteSet(Containers)
  /\ L!Nodes = Containers \cup {First}
<1>1. IsFiniteSet(Containers)
  BY SharedAssumption DEF L!ObjectListAssumption, L!IsFiniteSet, IsFiniteSet
<1> QED BY <1>1, SharedAssumption DEF L!ObjectListAssumption, L!Nodes

\* What the readers walk along is what the invariant speaks of.
LEMMA ObjectListIsChain ==
  ASSUME NEW s \in Seq(Containers), IsChain(lNext, Null, First, s),
         DOMAIN lNext = Containers \cup {First}
  PROVE  L!list = s
<1>1. L!list = Chain(lNext, Null, First, Cardinality(Containers))
  BY DEF L!list, L!Chain, Chain, L!Cardinality, Cardinality
<1>2. Cardinality(Containers) \in Nat /\ Len(s) <= Cardinality(Containers)
  BY ObjectListFacts, ChainIsShort, FS_CardinalityType
<1> QED BY <1>1, <1>2, ChainIs

LEMMA ObjectsInvInit == L!Init => ObjectsInv
<1> SUFFICES ASSUME L!Init PROVE ObjectsInv
  OBVIOUS
<1> USE ObjectListFacts
<1>1. L!TypeOK
  BY DEF L!Init, L!TypeOK
<1>2. Members(<< >>) = {}
  BY DEF Members
<1>3. GrownList(<< >>)
  BY <1>2 DEF L!Init, GrownList, IsChain, End, NodeAt, L!Returned
<1>4. WritersInv(<< >>)
  BY <1>2 DEF L!Init, WritersInv, InLock
<1>5. ReadersInv(<< >>)
  BY <1>2 DEF L!Init, ReadersInv, Walked, IsBeginning
<1> QED BY <1>1, <1>3, <1>4, <1>5 DEF ObjectsInv

\* The last node of a list is the guard or one of its members.
LEMMA EndOfList ==
  ASSUME NEW s \in Seq(Containers)
  PROVE  /\ End(First, s) \in {First} \cup Members(s)
         /\ \A k \in 0 .. Len(s) : NodeAt(First, s, k) \in {First} \cup Members(s)
<1>1. DOMAIN s = 1 .. Len(s) /\ Len(s) \in Nat
  OBVIOUS
<1>2. \A k \in 0 .. Len(s) : k = 0 \/ k \in 1 .. Len(s)
  BY <1>1
<1>3. \A k \in 0 .. Len(s) : NodeAt(First, s, k) \in {First} \cup Members(s)
  BY <1>1, <1>2 DEF NodeAt, Members
<1> QED BY <1>1, <1>3 DEF End

\* A reader that is not through goes on to the next container of the list, or
\* it has seen all of it.
LEMMA WalkGoesOn ==
  ASSUME NEW s \in Seq(Containers), IsChain(lNext, Null, First, s),
         NEW p \in Seq(Containers), NEW n, NEW due, n # Null,
         Walked(p, n, due, s)
  PROVE  Walked(IF lNext[n] = Null THEN p ELSE Append(p, lNext[n]),
                lNext[n], due, s)
<1>1. /\ Len(p) \in Nat /\ Len(s) \in Nat /\ IsBeginning(p, s)
      /\ n = NodeAt(First, s, Len(p)) /\ due \subseteq Members(s)
      /\ DOMAIN s = 1 .. Len(s) /\ DOMAIN p = 1 .. Len(p)
  BY DEF Walked
<1>2. CASE Len(p) = Len(s)
  <2>1. lNext[n] = Null
    BY <1>1, <1>2 DEF IsChain, End
  <2>2. Members(p) = Members(s)
    BY <1>1, <1>2 DEF IsBeginning, Members
  <2> QED BY <1>1, <2>1, <2>2 DEF Walked
<1>3. CASE Len(p) # Len(s)
  <2>1. Len(p) \in 0 .. Len(s) - 1 /\ Len(p) + 1 \in 1 .. Len(s)
    <3>1. Len(p) <= Len(s)
      BY <1>1 DEF IsBeginning
    <3>2. \A j, l \in Nat : j <= l /\ j # l => j \in 0 .. l - 1 /\ j + 1 \in 1 .. l
      OBVIOUS
    <3> QED BY <1>1, <1>3, <3>1, <3>2
  <2>2. lNext[n] = s[Len(p) + 1] /\ lNext[n] # Null /\ lNext[n] \in Containers
    BY <1>1, <2>1 DEF IsChain
  <2>3. PICK q : q = Append(p, lNext[n])
    OBVIOUS
  <2>4. /\ Len(q) = Len(p) + 1 /\ q[Len(p) + 1] = s[Len(p) + 1]
        /\ \A k \in 1 .. Len(p) : q[k] = p[k]
    BY <2>2, <2>3
  <2>5. \A k \in 1 .. Len(p) + 1 : k = Len(p) + 1 \/ k \in 1 .. Len(p)
    BY <1>1
  <2>6. IsBeginning(q, s)
    BY <1>1, <2>1, <2>4, <2>5 DEF IsBeginning
  <2>7. lNext[n] = NodeAt(First, s, Len(q))
    BY <1>1, <2>2, <2>4 DEF NodeAt
  <2> QED BY <1>1, <2>2, <2>3, <2>6, <2>7 DEF Walked
<1> QED BY <1>2, <1>3

\* A list that grows at its end leaves what the readers know of it true.
LEMMA WalkStays ==
  ASSUME NEW s \in Seq(Containers), NEW d \in Containers, NEW p, NEW n, NEW due,
         p \in Seq(Containers), Walked(p, n, due, s)
  PROVE  Walked(p, n, due, Append(s, d))
<1>1. PICK u : u = Append(s, d)
  OBVIOUS
<1>2. /\ Len(u) = Len(s) + 1 /\ \A k \in 1 .. Len(s) : u[k] = s[k]
      /\ Members(u) = Members(s) \cup {d} /\ Len(p) \in Nat /\ Len(s) \in Nat
  BY <1>1, MembersOfAppend
<1>3. Len(p) <= Len(s) /\ \A k \in 1 .. Len(p) : k \in 1 .. Len(s) /\ p[k] = s[k]
  BY <1>2 DEF Walked, IsBeginning
<1>4. IsBeginning(p, u)
  BY <1>2, <1>3 DEF IsBeginning
<1>5. NodeAt(First, u, Len(p)) = NodeAt(First, s, Len(p))
  <2>1. Len(p) = 0 \/ Len(p) \in 1 .. Len(s)
    BY <1>2, <1>3
  <2> QED BY <1>2, <2>1 DEF NodeAt
<1>6. Walked(p, n, due, u)
  BY <1>2, <1>4, <1>5 DEF Walked
<1> QED BY <1>1, <1>6

LEMMA ObjectsInvNext ==
  ASSUME ObjectsInv, [L!Next]_(L!vars)
  PROVE  ObjectsInv'
<1> USE ObjectListFacts
<1> PICK s : GrownList(s) /\ WritersInv(s) /\ ReadersInv(s)
  BY DEF ObjectsInv
<1>1. /\ L!TypeOK /\ s \in Seq(Containers) /\ IsChain(lNext, Null, First, s)
      /\ Members(s) \subseteq lMade /\ Members(s) \subseteq Containers
      /\ WritersInv(s) /\ ReadersInv(s) /\ L!Returned \subseteq Members(s)
      /\ End(First, s) \in {First} \cup Members(s)
      /\ lNext[End(First, s)] = Null
  BY EndOfList, MembersOf DEF ObjectsInv, GrownList, IsChain
<1>2. ASSUME NEW t \in Writers, L!Make(t) PROVE ObjectsInv'
  <2>1. /\ lPc[t] = "idle" /\ lPc' = [lPc EXCEPT ![t] = "lock"]
        /\ UNCHANGED <<lLast, lLock, at, seen, owed>>
    BY <1>2 DEF L!Make, L!Goto
  <2>2. PICK n \in Containers \ lMade :
               /\ lMade' = lMade \cup {n} /\ lC' = [lC EXCEPT ![t] = n]
               /\ lNext' = [lNext EXCEPT ![n] = Null]
    BY <1>2 DEF L!Make
  <2>3. n \notin Members(s) /\ n # First /\ n # Null /\ \A u \in Writers : lC[u] # n
    BY <1>1 DEF WritersInv, L!TypeOK
  <2>4. L!TypeOK'
    BY <1>1, <2>1, <2>2 DEF L!TypeOK
  <2>5. GrownList(s)'
    <3>1. \A m \in {First} \cup Members(s) : lNext'[m] = lNext[m]
      BY <2>2, <2>3
    <3>2. IsChain(lNext', Null, First, s)
      BY <1>1, <3>1, ChainStays
    <3>3. L!Returned' \subseteq Members(s)
      BY <1>1, <2>1, <2>2, <2>3 DEF L!Returned, L!TypeOK, WritersInv
    <3>4. (\A u \in Writers : lPc'[u] # "last") => lLast' = End(First, s)
      BY <1>1, <2>1 DEF GrownList, L!TypeOK
    <3> QED BY <1>1, <2>2, <3>2, <3>3, <3>4 DEF GrownList
  <2>6. WritersInv(s)'
    BY <1>1, <2>1, <2>2, <2>3 DEF L!TypeOK, WritersInv, InLock
  <2>7. ReadersInv(s)'
    BY <1>1, <2>1 DEF ReadersInv
  <2> QED BY <2>4, <2>5, <2>6, <2>7 DEF ObjectsInv
<1>3. ASSUME NEW t \in Writers, L!Lock(t) PROVE ObjectsInv'
  <2>1. /\ lPc[t] = "lock" /\ lPc' = [lPc EXCEPT ![t] = "link"]
        /\ lLock = Null /\ lLock' = t
        /\ UNCHANGED <<lNext, lLast, lMade, lC, at, seen, owed>>
    BY <1>3 DEF L!Lock, L!Goto
  <2>2. L!TypeOK'
    BY <1>1, <2>1 DEF L!TypeOK
  <2>3. GrownList(s)'
    BY <1>1, <2>1 DEF GrownList, L!Returned, L!TypeOK
  <2>4. WritersInv(s)'
    BY <1>1, <2>1 DEF L!TypeOK, WritersInv, InLock
  <2>5. ReadersInv(s)'
    BY <1>1, <2>1 DEF ReadersInv
  <2> QED BY <2>2, <2>3, <2>4, <2>5 DEF ObjectsInv
<1>4. ASSUME NEW t \in Writers, L!Link(t) PROVE ObjectsInv'
  <2>1. lPc[t] = "link" /\ UNCHANGED <<lLast, lMade, lLock, lC, at, seen, owed>>
    BY <1>4 DEF L!Link, L!Goto
  <2>2. /\ \A u \in Writers : lPc[u] # "last" /\ (u # t => lPc[u] \notin InLock)
        /\ lLast = End(First, s)
    BY <1>1, <2>1 DEF WritersInv, GrownList, InLock
  <2>3. lNext' = [lNext EXCEPT ![lLast] = lC[t]] /\ lPc' = [lPc EXCEPT ![t] = "last"]
    BY <1>1, <1>4, <2>2 DEF L!Link, L!Goto
  <2>4. /\ lC[t] \in Containers /\ lC[t] # First /\ lC[t] # Null
        /\ lC[t] \notin Members(s) /\ lNext[lC[t]] = Null /\ lC[t] \in lMade
        /\ lC[t] # lLast
    BY <1>1, <2>1, <2>2 DEF WritersInv, L!TypeOK
  <2>5. PICK u : u = Append(s, lC[t])
    OBVIOUS
  <2>6. u \in Seq(Containers) /\ Members(u) = Members(s) \cup {lC[t]}
        /\ End(First, u) = lC[t]
    <3>1. u \in Seq(Containers) /\ Len(u) = Len(s) + 1 /\ u[Len(u)] = lC[t]
          /\ Len(s) \in Nat
      BY <1>1, <2>4, <2>5
    <3>2. Members(u) = Members(s) \cup {lC[t]}
      BY <1>1, <2>4, <2>5, MembersOfAppend
    <3> QED BY <3>1, <3>2 DEF End, NodeAt
  <2>7. L!TypeOK'
    BY <1>1, <2>1, <2>3, <2>4 DEF L!TypeOK
  <2>8. GrownList(u)'
    <3>1. /\ lNext'[End(First, s)] = lC[t] /\ lNext'[lC[t]] = Null
          /\ \A m \in ({First} \cup Members(s)) \ {End(First, s)} : lNext'[m] = lNext[m]
      BY <1>1, <2>2, <2>3, <2>4 DEF L!TypeOK
    <3>2. IsChain(lNext', Null, First, Append(s, lC[t]))
      BY <1>1, <2>4, <3>1, ChainGrows
    <3>3. Members(u) \subseteq lMade' /\ L!Returned' \subseteq Members(u)
      BY <1>1, <2>1, <2>4, <2>6 DEF L!Returned
    <3>4. lPc'[t] = "last"
      BY <1>1, <2>3 DEF L!TypeOK
    <3> QED BY <2>5, <2>6, <3>2, <3>3, <3>4 DEF GrownList
  <2>9. WritersInv(u)'
    <3>1. \A r \in Writers : r # t => (lC[r] # lC[t] /\ lC[r] # lLast) \/ lC[r] = Null
      BY <1>1, <2>1, <2>2, <2>4 DEF WritersInv, L!TypeOK, InLock
    <3>2. ASSUME NEW r \in Writers, r # t
          PROVE  /\ lPc'[r] = lPc[r]
                 /\ lPc[r] \in {"lock", "link"}
                      => lC[r] \notin Members(u) /\ lNext'[lC[r]] = Null
                 /\ lPc[r] \notin {"last", "unlock"}
      <4>1. lPc'[r] = lPc[r] /\ lPc[r] \notin {"last", "unlock", "link"}
        BY <1>1, <2>2, <2>3, <3>2 DEF L!TypeOK, InLock
      <4>2. ASSUME lPc[r] = "lock"
            PROVE  lC[r] \notin Members(u) /\ lNext'[lC[r]] = Null
        <5>1. /\ lC[r] \notin Members(s) /\ lNext[lC[r]] = Null /\ lC[r] # lC[t]
              /\ lC[r] \in Containers /\ lC[r] # lLast
          BY <1>1, <2>2, <2>4, <3>2, <4>2 DEF WritersInv, L!TypeOK
        <5> QED BY <1>1, <2>3, <2>6, <5>1 DEF L!TypeOK
      <4> QED BY <4>1, <4>2
    <3>3. lPc'[t] = "last" /\ lC'[t] = End(First, u)
      BY <1>1, <2>1, <2>3, <2>6 DEF L!TypeOK
    <3>4. \A r \in Writers : r = t \/ (r # t /\ lPc'[r] = lPc[r])
      BY <3>2
    <3>5. \A r \in Writers :
            /\ lPc'[r] # "failed"
            /\ lPc'[r] \in InLock <=> lLock' = r
            /\ lC'[r] = Null <=> lPc'[r] = "idle"
            /\ lC'[r] # Null => lC'[r] \in lMade'
      BY <1>1, <2>1, <3>3, <3>4 DEF WritersInv, InLock
    <3>6. \A r \in Writers :
            /\ lPc'[r] \in {"lock", "link"} => lC'[r] \notin Members(u) /\ lNext'[lC'[r]] = Null
            /\ lPc'[r] \in {"last", "unlock"} => lC'[r] = End(First, u)
      BY <2>1, <3>2, <3>3, <3>4
    <3>7. \A r, v \in Writers : lC'[r] = lC'[v] /\ lC'[r] # Null => r = v
      BY <1>1, <2>1 DEF WritersInv
    <3> QED BY <3>5, <3>6, <3>7 DEF WritersInv
  <2>10. ReadersInv(u)'
    <3>1. ASSUME NEW r \in Readers PROVE Walked(seen[r], at[r], owed[r], u)
      BY <1>1, <2>4, <2>5, WalkStays DEF ReadersInv, L!TypeOK
    <3> QED BY <2>1, <3>1 DEF ReadersInv
  <2> QED BY <2>7, <2>8, <2>9, <2>10 DEF ObjectsInv
<1>5. ASSUME NEW t \in Writers, L!SetLast(t) PROVE ObjectsInv'
  <2>1. /\ lPc[t] = "last" /\ lPc' = [lPc EXCEPT ![t] = "unlock"] /\ lLast' = lC[t]
        /\ UNCHANGED <<lNext, lMade, lLock, lC, at, seen, owed>>
    BY <1>5 DEF L!SetLast, L!Goto, L!NewLast
  <2>2. lC[t] = End(First, s) /\ lC[t] \in Containers
    BY <1>1, <2>1 DEF WritersInv, L!TypeOK
  <2>3. L!TypeOK'
    BY <1>1, <2>1, <2>2 DEF L!TypeOK
  <2>4. GrownList(s)'
    BY <1>1, <2>1, <2>2 DEF GrownList, L!Returned
  <2>5. WritersInv(s)'
    BY <1>1, <2>1 DEF L!TypeOK, WritersInv, InLock
  <2>6. ReadersInv(s)'
    BY <1>1, <2>1 DEF ReadersInv
  <2> QED BY <2>3, <2>4, <2>5, <2>6 DEF ObjectsInv
<1>6. ASSUME NEW t \in Writers, L!Unlock(t) PROVE ObjectsInv'
  <2>1. /\ lPc[t] = "unlock" /\ lPc' = [lPc EXCEPT ![t] = "idle"]
        /\ lC' = [lC EXCEPT ![t] = Null] /\ lLock' = Null
        /\ UNCHANGED <<lNext, lLast, lMade, at, seen, owed>>
    BY <1>6 DEF L!Unlock, L!Goto
  <2>2. lC[t] \in Members(s) /\ \A u \in Writers : u # t => lPc[u] \notin InLock
    BY <1>1, <2>1 DEF WritersInv, L!TypeOK, InLock
  <2>3. L!TypeOK'
    BY <1>1, <2>1 DEF L!TypeOK
  <2>4. GrownList(s)'
    <3>1. L!Returned' \subseteq Members(s)
      BY <1>1, <2>1, <2>2 DEF L!Returned, L!TypeOK
    <3>2. lLast' = End(First, s)
      BY <1>1, <2>1, <2>2 DEF GrownList, InLock
    <3> QED BY <1>1, <2>1, <3>1, <3>2 DEF GrownList
  <2>5. WritersInv(s)'
    BY <1>1, <2>1, <2>2 DEF L!TypeOK, WritersInv, InLock
  <2>6. ReadersInv(s)'
    BY <1>1, <2>1 DEF ReadersInv
  <2> QED BY <2>3, <2>4, <2>5, <2>6 DEF ObjectsInv
<1>7. ASSUME UNCHANGED <<lNext, lLast, lMade, lLock, lPc, lC>>,
             L!TypeOK', ReadersInv(s)'
      PROVE  ObjectsInv'
  <2>1. GrownList(s)' /\ WritersInv(s)'
    BY <1>7 DEF GrownList, WritersInv, L!Returned
  <2> QED BY <1>7, <2>1 DEF ObjectsInv
<1>8. ASSUME NEW r \in Readers, L!Begin(r) PROVE ObjectsInv'
  <2>1. /\ at' = [at EXCEPT ![r] = First] /\ seen' = [seen EXCEPT ![r] = << >>]
        /\ owed' = [owed EXCEPT ![r] = L!Returned]
        /\ UNCHANGED <<lNext, lLast, lMade, lLock, lPc, lC>>
    BY <1>8 DEF L!Begin, L!GetBegin
  <2>2. L!TypeOK'
    BY <1>1, <2>1 DEF L!TypeOK, L!Returned
  <2>3. Walked(<< >>, First, L!Returned, s)
    BY <1>1 DEF Walked, IsBeginning, NodeAt
  <2>4. ReadersInv(s)'
    BY <1>1, <2>1, <2>3 DEF ReadersInv, L!TypeOK
  <2> QED BY <1>7, <2>1, <2>2, <2>4
<1>9. ASSUME NEW r \in Readers, L!Read(r) PROVE ObjectsInv'
  <2> DEFINE n == lNext[at[r]]
             q == IF n = Null THEN seen[r] ELSE Append(seen[r], n)
  <2>1. /\ at[r] # Null /\ at' = [at EXCEPT ![r] = n]
        /\ UNCHANGED <<lNext, lLast, lMade, lLock, lPc, lC, owed>>
    BY <1>9 DEF L!Read, L!GetNext
  <2>2. seen' = [seen EXCEPT ![r] = q]
    BY <1>1, <1>9, <2>1 DEF L!Read, L!TypeOK
  <2>3. at[r] \in L!Nodes /\ n \in Containers \cup {Null} /\ seen[r] \in Seq(Containers)
    BY <1>1, <2>1 DEF L!TypeOK
  <2>4. Walked(q, n, owed[r], s)
    <3>1. Walked(seen[r], at[r], owed[r], s)
      BY <1>1 DEF ReadersInv
    <3> QED BY <1>1, <2>1, <2>3, <3>1, WalkGoesOn
  <2>5. q \in Seq(Containers)
    BY <2>3
  <2> HIDE DEF n, q
  <2>6. L!TypeOK'
    BY <1>1, <2>1, <2>2, <2>3, <2>5 DEF L!TypeOK
  <2>7. ReadersInv(s)'
    BY <1>1, <2>1, <2>2, <2>4 DEF ReadersInv, L!TypeOK
  <2> QED BY <1>7, <2>1, <2>6, <2>7
<1>10. CASE UNCHANGED L!vars
  <2>1. UNCHANGED <<lNext, lLast, lMade, lLock, lPc, lC, at, seen, owed>>
    BY <1>10 DEF L!vars
  <2>2. L!TypeOK' /\ ReadersInv(s)'
    BY <1>1, <2>1 DEF L!TypeOK, ReadersInv
  <2> QED BY <1>7, <2>1, <2>2
<1> QED BY <1>2, <1>3, <1>4, <1>5, <1>6, <1>8, <1>9, <1>10 DEF L!Next, L!Step

-----------------------------------------------------------------------------
(***************************************************************************)
(* IntSpinLock, for any number of CPUs and of locks that are nested, any   *)
(* depth of handlers and any even width of the counter: each lock is held  *)
(* once; who has one by Lock() is not interrupted, and no assertion fails, *)
(* until another CPU's value misleads the holder of an outer lock.         *)
(***************************************************************************)
LEMMA IntSpinLockFacts ==
  /\ Cpus \subseteq Nat /\ Locks \subseteq Nat
  /\ Handled \subseteq Cpus /\ MaxDepth \in Nat
  /\ FlagMod \in Nat \ {0} /\ FlagMod % 2 = 0 /\ Trying \in BOOLEAN
  BY SharedAssumption DEF I!IntSpinLockAssumption

\* The counter stays in its range, and adding one flips its parity even where
\* it wraps, because the modulus is even.
LEMMA IntSuccFlipsParity ==
  ASSUME NEW n \in 0 .. FlagMod - 1
  PROVE  /\ I!Succ(n) \in 0 .. FlagMod - 1
         /\ I!Odd(I!Succ(n)) <=> ~I!Odd(n)
<1>1. FlagMod \in Nat \ {0} /\ FlagMod % 2 = 0
  BY IntSpinLockFacts
<1>2. CASE n + 1 < FlagMod
  <2>1. I!Succ(n) = n + 1
    BY <1>1, <1>2 DEF I!Succ
  <2> QED
    BY <1>1, <1>2, <2>1 DEF I!Odd
<1>3. CASE n + 1 = FlagMod
  <2>1. I!Succ(n) = 0
    BY <1>1, <1>3 DEF I!Succ
  <2> QED
    BY <1>1, <1>3, <2>1 DEF I!Odd
<1> QED
  BY <1>1, <1>2, <1>3

LEMMA IntZeroIsEven == 0 \in 0 .. FlagMod - 1 /\ ~I!Odd(0)
  BY IntSpinLockFacts DEF I!Odd

\* A context is its CPU and its level; nobody is no CPU and no lock.
LEMMA ContextFacts ==
  /\ \A x \in I!Contexts : x[1] \in Cpus /\ x[2] \in I!Levels /\ x = <<x[1], x[2]>>
  /\ \A d \in Cpus, k \in I!Levels : <<d, k>> \in I!Contexts
  /\ Cpus \subseteq Nat /\ I!Levels \subseteq Nat /\ 0 \in I!Levels
  /\ I!Nobody = -1 /\ I!Nobody \notin Cpus /\ I!Nobody \notin Locks
  BY IntSpinLockFacts DEF I!Contexts, I!Levels, I!Nobody

\* Two contexts that their CPU executes, on the same CPU, are the same.
LEMMA OneRunsPerCpu ==
  ASSUME NEW x \in I!Contexts, NEW y \in I!Contexts, I!Running(x), I!Running(y), x[1] = y[1]
  PROVE  x = y
  BY ContextFacts DEF I!Running

Entering == {"assert", "get", "disable", "cli", "cas", "retry"}
Leaving == {"ul_id", "ul_flag"}

\* In the middle of a call, it is known of which lock.
ArgIsLock ==
  \A x \in I!Contexts : iPc[x] \in Entering \cup Leaving \cup {"setid", "try", "ul_enable"}
                          => iArg[x] \in Locks

\* Who has just got a lock or is about to release it holds it; who does not
\* have it yet, or not any more, does not hold it.
HoldersAreInside ==
  \A x \in I!Contexts :
    /\ iPc[x] = "setid" => iHow[x][iArg[x]] = "lock"
    /\ iPc[x] \in Leaving => I!Holds(x, iArg[x])
    /\ iPc[x] \in Entering \cup {"try", "ul_enable"} => ~I!Holds(x, iArg[x])

\* Locks are taken in their order and released in the reverse one.
NestedInOrder ==
  \A x \in I!Contexts :
    /\ iPc[x] \in Entering => \A m \in Locks : I!Holds(x, m) => m < iArg[x]
    /\ iPc[x] \in Leaving => \A m \in I!Outside(x, iArg[x]) :
                               iHow[x][iArg[x]] = "lock" /\ m < iArg[x]
    /\ iPc[x] = "ul_enable" => \A m \in I!Outside(x, iArg[x]) : m < iArg[x]

\* The compare-and-swap of Lock() is only tried on an even value.
EvenBeforeCas ==
  \A x \in I!Contexts : iPc[x] \in {"disable", "cli", "cas"} => ~I!Odd(iReg[x])

\* The parity of _flag says whether the lock is held.
ParityIsHeld ==
  \A l \in Locks : I!Odd(flag[l]) <=> \E x \in I!Contexts : I!Holds(x, l)

\* A handler that has not been called yet has done nothing.
AboveIsIdle ==
  \A x \in I!Contexts : x[2] > level[x[1]] => iPc[x] = "idle" /\ I!HoldsNone(x)

\* Between cli and the compare-and-swap, a context is what its CPU executes and
\* cannot be interrupted.
SwappersRun == \A x \in I!Contexts : iPc[x] = "cas" => I!Running(x) /\ ~intr[x[1]]

\* So is one that has a lock by Lock(), unless it was misled.
HoldersRun ==
  \A x \in I!Contexts \ misled, l \in Locks :
    iHow[x][l] = "lock" => I!Running(x) /\ ~intr[x[1]]

\* Who took l, or is taking it, inside of another lock has found the interrupts
\* off, and no other context of its CPU has written since: if l remembers that
\* they were on, then it is for another CPU.
InnerRemembersOff ==
  \A x \in I!Contexts \ misled, l, m \in Locks :
    /\ iHow[x][m] = "lock" /\ m < l
    /\ \/ iHow[x][l] = "lock"
       \/ iArg[x] = l /\ iPc[x] \in {"cli", "cas", "retry", "ul_enable"}
    => by[l] # x[1]

\* _id is the number of a CPU only while that CPU has the lock by Lock().
IdIsOfHolder ==
  \A l \in Locks :
    id[l] # I!Nobody =>
      \E x \in I!Contexts : /\ x[1] = id[l] /\ iHow[x][l] = "lock"
                            /\ ~(iArg[x] = l /\ iPc[x] \in {"setid", "ul_flag"})

\* Where an assertion has failed, a context below was misled, and it cannot go
\* on.
FailedAboveMisled ==
  \A x \in I!Contexts :
    iPc[x] = "failed" => \E y \in misled : y[1] = x[1] /\ y[2] <= x[2]

\* The inductive invariant.  Interrupts stay off for a holder because only what
\* its CPU executes, which is the holder, sets the flag of the CPU again.
HoldInv == /\ I!MutualExclusion /\ ParityIsHeld /\ ArgIsLock /\ HoldersAreInside
           /\ NestedInOrder /\ EvenBeforeCas
RunInv == /\ AboveIsIdle /\ SwappersRun /\ HoldersRun /\ InnerRemembersOff
ClaimInv == IdIsOfHolder /\ FailedAboveMisled
IntLockInv == I!TypeOK /\ HoldInv /\ RunInv /\ ClaimInv

LEMMA IntLockInvInit == I!Init => IntLockInv
<1> SUFFICES ASSUME I!Init PROVE IntLockInv
  OBVIOUS
<1> USE IntZeroIsEven, ContextFacts DEF I!Init
<1>1. I!TypeOK
  BY DEF I!TypeOK
<1>2. HoldInv
  BY DEF HoldInv, I!MutualExclusion, ParityIsHeld, ArgIsLock, HoldersAreInside,
         NestedInOrder, EvenBeforeCas, I!Holds, Entering, Leaving
<1>3. RunInv /\ ClaimInv
  BY DEF RunInv, ClaimInv, AboveIsIdle, SwappersRun, HoldersRun, InnerRemembersOff,
         I!HoldsNone, I!Holds, IdIsOfHolder, FailedAboveMisled
<1> QED BY <1>1, <1>2, <1>3 DEF IntLockInv

\* What Acquire() does to the lock l and to nothing else.
LEMMA AcquireFacts ==
  ASSUME I!TypeOK, NEW x \in I!Contexts, NEW l \in Locks, NEW w \in {"lock", "try"},
         I!Acquire(x, l, w)
  PROVE  /\ flag' \in [Locks -> 0 .. FlagMod - 1]
         /\ iHow' \in [I!Contexts -> [Locks -> {"no", "lock", "try"}]]
         /\ flag'[l] = I!Succ(iReg[x]) /\ iHow'[x][l] = w
         /\ \A m \in Locks \ {l} : flag'[m] = flag[m]
         /\ \A y \in I!Contexts, m \in Locks :
              y # x \/ m # l => iHow'[y][m] = iHow[y][m]
<1>1. I!Succ(iReg[x]) \in 0 .. FlagMod - 1
  BY IntSuccFlipsParity DEF I!TypeOK
<1>2. iHow[x] \in [Locks -> {"no", "lock", "try"}]
  BY DEF I!TypeOK
<1>3. [iHow[x] EXCEPT ![l] = w] \in [Locks -> {"no", "lock", "try"}]
  BY <1>2
<1>4. iHow' = [iHow EXCEPT ![x] = [iHow[x] EXCEPT ![l] = w]]
  BY DEF I!Acquire, I!TypeOK
<1> QED
  BY <1>1, <1>2, <1>3, <1>4 DEF I!Acquire, I!TypeOK

\* The type invariant.
LEMMA IntTypeNext ==
  ASSUME IntLockInv, [I!Next]_(I!vars)
  PROVE  I!TypeOK'
<1> USE IntSuccFlipsParity, IntZeroIsEven, ContextFacts DEF IntLockInv, I!TypeOK, I!Goto, I!Running, HoldInv, ArgIsLock, Entering, Leaving
<1>1. ASSUME NEW d \in Cpus, I!Interrupt(d) PROVE I!TypeOK'
  <2>1. level[d] + 1 \in I!Levels
    BY <1>1, IntSpinLockFacts DEF I!Interrupt, I!Levels
  <2>2. <<d, level[d] + 1>> \in I!Contexts
    BY <2>1
  <2> QED
    BY <1>1, <2>1, <2>2 DEF I!Interrupt
<1>2. ASSUME NEW d \in Cpus, I!Iret(d) PROVE I!TypeOK'
  <2>1. level[d] - 1 \in I!Levels
    BY <1>2, IntSpinLockFacts DEF I!Iret, I!Levels
  <2> QED
    BY <1>2, <2>1 DEF I!Iret
<1>3. ASSUME NEW x \in I!Contexts, NEW l \in Locks, I!Lock(x, l) PROVE I!TypeOK'
  BY <1>3 DEF I!Lock
<1>4. ASSUME NEW x \in I!Contexts, NEW l \in Locks, I!TryGet(x, l) PROVE I!TypeOK'
  BY <1>4 DEF I!TryGet
<1>5. ASSUME NEW x \in I!Contexts, NEW l \in Locks, I!UnlockEnter(x, l) PROVE I!TypeOK'
  BY <1>5 DEF I!UnlockEnter
<1>6. ASSUME NEW x \in I!Contexts, I!Assert(x) PROVE I!TypeOK'
  BY <1>6 DEF I!Assert
<1>7. ASSUME NEW x \in I!Contexts, I!Get(x) PROVE I!TypeOK'
  BY <1>7 DEF I!Get
<1>8. ASSUME NEW x \in I!Contexts, I!DisableInt(x) PROVE I!TypeOK'
  BY <1>8 DEF I!DisableInt
<1>9. ASSUME NEW x \in I!Contexts, I!Cli(x) PROVE I!TypeOK'
  BY <1>9 DEF I!Cli
<1>10. ASSUME NEW x \in I!Contexts, I!SetFlag(x) PROVE I!TypeOK'
  <2>1. /\ flag' \in [Locks -> 0 .. FlagMod - 1]
        /\ iHow' \in [I!Contexts -> [Locks -> {"no", "lock", "try"}]]
    BY <1>10, AcquireFacts DEF I!SetFlag
  <2> QED
    BY <1>10, <2>1 DEF I!SetFlag
<1>11. ASSUME NEW x \in I!Contexts, I!Retry(x) PROVE I!TypeOK'
  BY <1>11 DEF I!Retry, I!EnableInt
<1>12. ASSUME NEW x \in I!Contexts, I!SetId(x) PROVE I!TypeOK'
  BY <1>12 DEF I!SetId
<1>13. ASSUME NEW x \in I!Contexts, I!TryCas(x) PROVE I!TypeOK'
  <2>1. /\ flag' \in [Locks -> 0 .. FlagMod - 1]
        /\ iHow' \in [I!Contexts -> [Locks -> {"no", "lock", "try"}]]
    BY <1>13, AcquireFacts DEF I!TryCas
  <2> QED
    BY <1>13, <2>1 DEF I!TryCas
<1>14. ASSUME NEW x \in I!Contexts, I!UnlockId(x) PROVE I!TypeOK'
  BY <1>14 DEF I!UnlockId
<1>15. ASSUME NEW x \in I!Contexts, I!UnlockFlag(x) PROVE I!TypeOK'
  BY <1>15 DEF I!UnlockFlag
<1>16. ASSUME NEW x \in I!Contexts, I!UnlockEnable(x) PROVE I!TypeOK'
  BY <1>16 DEF I!UnlockEnable, I!EnableInt
<1>17. ASSUME NEW x \in I!Contexts, I!Stopped(x) PROVE I!TypeOK'
  BY <1>17 DEF I!Stopped, I!vars
<1>18. CASE UNCHANGED I!vars
  BY <1>18 DEF I!vars
<1> QED
  BY <1>1, <1>2, <1>3, <1>4, <1>5, <1>6, <1>7, <1>8, <1>9, <1>10, <1>11, <1>12, <1>13, <1>14, <1>15, <1>16, <1>17, <1>18 DEF I!Next, I!Step

\* Who holds what.
LEMMA HoldInvNext ==
  ASSUME IntLockInv, [I!Next]_(I!vars)
  PROVE  HoldInv'
<1> USE IntSuccFlipsParity, IntZeroIsEven, ContextFacts DEF IntLockInv, I!TypeOK, I!Goto, I!Running, HoldInv, I!MutualExclusion, ParityIsHeld, ArgIsLock, HoldersAreInside, NestedInOrder, EvenBeforeCas, I!Holds, I!Outside, I!HoldsNone, Entering, Leaving
<1>1. ASSUME NEW d \in Cpus, I!Interrupt(d) PROVE HoldInv'
  BY <1>1, IntTypeNext DEF I!Interrupt
<1>2. ASSUME NEW d \in Cpus, I!Iret(d) PROVE HoldInv'
  BY <1>2, IntTypeNext DEF I!Iret
<1>3. ASSUME NEW x \in I!Contexts, NEW l \in Locks, I!Lock(x, l) PROVE HoldInv'
  <2>1. ~I!Holds(x, l)
    BY <1>3, IntSpinLockFacts DEF I!Lock
  <2>2. I!MutualExclusion' /\ ParityIsHeld' /\ ArgIsLock' /\ EvenBeforeCas'
    BY <1>3, IntTypeNext DEF I!Lock
  <2>3. HoldersAreInside'
    BY <1>3, <2>1, IntTypeNext DEF I!Lock
  <2>4. NestedInOrder'
    BY <1>3, IntTypeNext DEF I!Lock
  <2> QED
    BY <2>2, <2>3, <2>4
<1>4. ASSUME NEW x \in I!Contexts, NEW l \in Locks, I!TryGet(x, l) PROVE HoldInv'
  BY <1>4, IntTypeNext DEF I!TryGet
<1>5. ASSUME NEW x \in I!Contexts, NEW l \in Locks, I!UnlockEnter(x, l) PROVE HoldInv'
  BY <1>5, IntTypeNext DEF I!UnlockEnter
<1>6. ASSUME NEW x \in I!Contexts, I!Assert(x) PROVE HoldInv'
  BY <1>6, IntTypeNext DEF I!Assert
<1>7. ASSUME NEW x \in I!Contexts, I!Get(x) PROVE HoldInv'
  BY <1>7, IntTypeNext DEF I!Get
<1>8. ASSUME NEW x \in I!Contexts, I!DisableInt(x) PROVE HoldInv'
  BY <1>8, IntTypeNext DEF I!DisableInt
<1>9. ASSUME NEW x \in I!Contexts, I!Cli(x) PROVE HoldInv'
  BY <1>9, IntTypeNext DEF I!Cli
<1>10. ASSUME NEW x \in I!Contexts, I!SetFlag(x) PROVE HoldInv'
  <2>1. iArg[x] \in Locks
    BY <1>10 DEF I!SetFlag
  <2>2. CASE I!CasSucceeds(x)
    <3>1. /\ flag'[iArg[x]] = I!Succ(iReg[x]) /\ iHow'[x][iArg[x]] = "lock"
          /\ \A m \in Locks \ {iArg[x]} : flag'[m] = flag[m]
          /\ \A y \in I!Contexts, m \in Locks :
               y # x \/ m # iArg[x] => iHow'[y][m] = iHow[y][m]
      BY <1>10, <2>1, <2>2, AcquireFacts DEF I!SetFlag
    <3>2. ~I!Odd(flag[iArg[x]]) /\ I!Odd(flag'[iArg[x]])
      BY <1>10, <2>1, <2>2, <3>1 DEF I!SetFlag, I!CasSucceeds
    <3>3. \A y \in I!Contexts : ~I!Holds(y, iArg[x])
      BY <2>1, <3>2
    <3>4. I!MutualExclusion'
      BY <3>1, <3>3
    <3>5. ParityIsHeld'
      <4> SUFFICES ASSUME NEW m \in Locks
                   PROVE  I!Odd(flag'[m]) <=> \E y \in I!Contexts : iHow'[y][m] # "no"
        BY DEF ParityIsHeld, I!Holds
      <4>1. CASE m = iArg[x]
        BY <3>1, <3>2, <4>1
      <4>2. CASE m # iArg[x]
        <5>1. flag'[m] = flag[m] /\ \A y \in I!Contexts : iHow'[y][m] = iHow[y][m]
          BY <3>1, <4>2
        <5> QED BY ONLY <5>1, ParityIsHeld, m \in Locks DEF ParityIsHeld, I!Holds
      <4> QED BY <4>1, <4>2
    <3>6. ArgIsLock' /\ EvenBeforeCas'
      BY <1>10, IntTypeNext DEF I!SetFlag
    <3>7. HoldersAreInside'
      BY <1>10, <2>1, <2>2, <3>1, <3>3, IntTypeNext DEF I!SetFlag
    <3>8. NestedInOrder'
      BY <1>10, <2>1, <2>2, <3>1, <3>3, IntTypeNext DEF I!SetFlag
    <3> QED
      BY <3>4, <3>5, <3>6, <3>7, <3>8
  <2>3. CASE ~(I!CasSucceeds(x))
    BY <1>10, <2>1, <2>3, IntTypeNext DEF I!SetFlag
  <2> QED
    BY <2>2, <2>3
<1>11. ASSUME NEW x \in I!Contexts, I!Retry(x) PROVE HoldInv'
  BY <1>11, IntTypeNext DEF I!Retry, I!EnableInt
<1>12. ASSUME NEW x \in I!Contexts, I!SetId(x) PROVE HoldInv'
  BY <1>12, IntTypeNext DEF I!SetId
<1>13. ASSUME NEW x \in I!Contexts, I!TryCas(x) PROVE HoldInv'
  <2>1. iArg[x] \in Locks
    BY <1>13 DEF I!TryCas
  <2>2. CASE ~I!Odd(iReg[x]) /\ I!CasSucceeds(x)
    <3>1. /\ flag'[iArg[x]] = I!Succ(iReg[x]) /\ iHow'[x][iArg[x]] = "try"
          /\ \A m \in Locks \ {iArg[x]} : flag'[m] = flag[m]
          /\ \A y \in I!Contexts, m \in Locks :
               y # x \/ m # iArg[x] => iHow'[y][m] = iHow[y][m]
      BY <1>13, <2>1, <2>2, AcquireFacts DEF I!TryCas
    <3>2. ~I!Odd(flag[iArg[x]]) /\ I!Odd(flag'[iArg[x]])
      BY <1>13, <2>1, <2>2, <3>1 DEF I!TryCas, I!CasSucceeds
    <3>3. \A y \in I!Contexts : ~I!Holds(y, iArg[x])
      BY <2>1, <3>2
    <3>4. I!MutualExclusion'
      BY <3>1, <3>3
    <3>5. ParityIsHeld'
      <4> SUFFICES ASSUME NEW m \in Locks
                   PROVE  I!Odd(flag'[m]) <=> \E y \in I!Contexts : iHow'[y][m] # "no"
        BY DEF ParityIsHeld, I!Holds
      <4>1. CASE m = iArg[x]
        BY <3>1, <3>2, <4>1
      <4>2. CASE m # iArg[x]
        <5>1. flag'[m] = flag[m] /\ \A y \in I!Contexts : iHow'[y][m] = iHow[y][m]
          BY <3>1, <4>2
        <5> QED BY ONLY <5>1, ParityIsHeld, m \in Locks DEF ParityIsHeld, I!Holds
      <4> QED BY <4>1, <4>2
    <3>6. ArgIsLock' /\ EvenBeforeCas'
      BY <1>13, IntTypeNext DEF I!TryCas
    <3>7. HoldersAreInside'
      BY <1>13, <2>1, <2>2, <3>1, <3>3, IntTypeNext DEF I!TryCas
    <3>8. NestedInOrder'
      BY <1>13, <2>1, <2>2, <3>1, <3>3, IntTypeNext DEF I!TryCas
    <3> QED
      BY <3>4, <3>5, <3>6, <3>7, <3>8
  <2>3. CASE ~(~I!Odd(iReg[x]) /\ I!CasSucceeds(x))
    BY <1>13, <2>1, <2>3, IntTypeNext DEF I!TryCas
  <2> QED
    BY <2>2, <2>3
<1>14. ASSUME NEW x \in I!Contexts, I!UnlockId(x) PROVE HoldInv'
  BY <1>14, IntTypeNext DEF I!UnlockId
<1>15. ASSUME NEW x \in I!Contexts, I!UnlockFlag(x) PROVE HoldInv'
  BY <1>15, IntTypeNext DEF I!UnlockFlag
<1>16. ASSUME NEW x \in I!Contexts, I!UnlockEnable(x) PROVE HoldInv'
  BY <1>16, IntTypeNext DEF I!UnlockEnable, I!EnableInt
<1>17. ASSUME NEW x \in I!Contexts, I!Stopped(x) PROVE HoldInv'
  BY <1>17, IntTypeNext DEF I!Stopped, I!vars
<1>18. CASE UNCHANGED I!vars
  BY <1>18 DEF I!vars
<1> QED
  BY <1>1, <1>2, <1>3, <1>4, <1>5, <1>6, <1>7, <1>8, <1>9, <1>10, <1>11, <1>12, <1>13, <1>14, <1>15, <1>16, <1>17, <1>18 DEF I!Next, I!Step

\* Who is executed.
LEMMA RunInvNext ==
  ASSUME IntLockInv, [I!Next]_(I!vars)
  PROVE  RunInv'
<1> USE IntSuccFlipsParity, IntZeroIsEven, ContextFacts DEF IntLockInv, I!TypeOK, I!Goto, I!Running, HoldInv, I!MutualExclusion, ParityIsHeld, ArgIsLock, HoldersAreInside, NestedInOrder, EvenBeforeCas, I!Holds, I!Outside, I!HoldsNone, Entering, Leaving, RunInv, AboveIsIdle, SwappersRun, HoldersRun, InnerRemembersOff
<1>1. ASSUME NEW d \in Cpus, I!Interrupt(d) PROVE RunInv'
  BY <1>1, OneRunsPerCpu, IntTypeNext DEF I!Interrupt
<1>2. ASSUME NEW d \in Cpus, I!Iret(d) PROVE RunInv'
  <2>1. PICK k \in I!Levels : level[d] = k
    OBVIOUS
  <2>2. /\ k > 0 /\ level' = [level EXCEPT ![d] = k - 1]
        /\ iPc[<<d, k>>] = "idle" /\ I!HoldsNone(<<d, k>>)
    BY <1>2, <2>1 DEF I!Iret
  <2>3. \A y \in I!Contexts : I!Running(y) /\ y[1] = d => y = <<d, k>>
    BY <2>1
  <2>4. \A y \in I!Contexts : y[1] # d => level'[y[1]] = level[y[1]]
    BY <2>2
  <2>5. AboveIsIdle'
    <3> SUFFICES ASSUME NEW y \in I!Contexts, y[2] > level'[y[1]]
                 PROVE  iPc'[y] = "idle" /\ I!HoldsNone(y)'
      OBVIOUS
    <3>1. CASE y[1] # d
      BY <1>2, <2>4, <3>1 DEF I!Iret
    <3>2. CASE y[1] = d
      <4>1. y[2] > k - 1 /\ y[2] \in Int /\ k \in Int
        BY <2>1, <2>2, <3>2
      <4>2. CASE y[2] = k
        <5>1. y = <<d, k>>
          BY ONLY <3>2, <4>2, ContextFacts, y \in I!Contexts
        <5> QED BY <1>2, <2>2, <5>1 DEF I!Iret
      <4>3. CASE y[2] > k
        BY <1>2, <2>1, <3>2, <4>3 DEF I!Iret
      <4>4. y[2] = k \/ y[2] > k
        BY ONLY <4>1
      <4> QED BY <4>2, <4>3, <4>4
    <3> QED BY <3>1, <3>2
  <2>6. SwappersRun'
    <3> SUFFICES ASSUME NEW y \in I!Contexts, iPc'[y] = "cas"
                 PROVE  level'[y[1]] = y[2] /\ ~intr'[y[1]]
      OBVIOUS
    <3>1. iPc[y] = "cas" /\ I!Running(y) /\ ~intr[y[1]]
      BY <1>2 DEF I!Iret
    <3>2. y[1] # d
      BY <2>2, <2>3, <3>1
    <3> QED BY <1>2, <2>4, <3>1, <3>2 DEF I!Iret
  <2>8. HoldersRun'
    <3> SUFFICES ASSUME NEW y \in I!Contexts \ misled', NEW l \in Locks, iHow'[y][l] = "lock"
                 PROVE  level'[y[1]] = y[2] /\ ~intr'[y[1]]
      OBVIOUS
    <3>1. iHow[y][l] = "lock" /\ I!Running(y) /\ ~intr[y[1]]
      BY <1>2 DEF I!Iret
    <3>2. y[1] # d
      BY <2>2, <2>3, <3>1
    <3> QED BY <1>2, <2>4, <3>1, <3>2 DEF I!Iret
  <2>7. InnerRemembersOff'
    BY <1>2 DEF I!Iret
  <2> QED BY <2>5, <2>6, <2>7, <2>8
<1>3. ASSUME NEW x \in I!Contexts, NEW l \in Locks, I!Lock(x, l) PROVE RunInv'
  BY <1>3, OneRunsPerCpu, IntTypeNext DEF I!Lock
<1>4. ASSUME NEW x \in I!Contexts, NEW l \in Locks, I!TryGet(x, l) PROVE RunInv'
  BY <1>4, OneRunsPerCpu, IntTypeNext DEF I!TryGet
<1>5. ASSUME NEW x \in I!Contexts, NEW l \in Locks, I!UnlockEnter(x, l) PROVE RunInv'
  BY <1>5, OneRunsPerCpu, IntTypeNext DEF I!UnlockEnter
<1>6. ASSUME NEW x \in I!Contexts, I!Assert(x) PROVE RunInv'
  BY <1>6, OneRunsPerCpu, IntTypeNext DEF I!Assert
<1>7. ASSUME NEW x \in I!Contexts, I!Get(x) PROVE RunInv'
  BY <1>7, OneRunsPerCpu, IntTypeNext DEF I!Get
<1>8. ASSUME NEW x \in I!Contexts, I!DisableInt(x) PROVE RunInv'
  BY <1>8, OneRunsPerCpu, IntTypeNext DEF I!DisableInt
<1>9. ASSUME NEW x \in I!Contexts, I!Cli(x) PROVE RunInv'
  BY <1>9, OneRunsPerCpu, IntTypeNext DEF I!Cli
<1>10. ASSUME NEW x \in I!Contexts, I!SetFlag(x) PROVE RunInv'
  <2>1. iArg[x] \in Locks
    BY <1>10 DEF I!SetFlag
  <2>2. CASE I!CasSucceeds(x)
    <3>1. /\ iHow'[x][iArg[x]] = "lock"
          /\ \A y \in I!Contexts, m \in Locks :
               y # x \/ m # iArg[x] => iHow'[y][m] = iHow[y][m]
      BY <1>10, <2>1, <2>2, AcquireFacts DEF I!SetFlag
    <3>2. AboveIsIdle' /\ SwappersRun'
      BY <1>10, <2>1, <3>1, IntTypeNext DEF I!SetFlag
    <3>3. HoldersRun'
      <4> SUFFICES ASSUME NEW y \in I!Contexts \ misled', NEW m \in Locks, iHow'[y][m] = "lock"
                   PROVE  level'[y[1]] = y[2] /\ ~intr'[y[1]]
        OBVIOUS
      <4>1. misled' = misled /\ level' = level /\ intr' = intr
        BY <1>10 DEF I!SetFlag
      <4>2. CASE y = x /\ m = iArg[x]
        BY <1>10, <4>1, <4>2 DEF I!SetFlag
      <4>3. CASE ~(y = x /\ m = iArg[x])
        <5>1. iHow[y][m] = "lock"
          BY <3>1, <4>3
        <5> QED BY <4>1, <5>1
      <4> QED BY <4>2, <4>3
    <3>4. InnerRemembersOff'
      <4> SUFFICES ASSUME NEW y \in I!Contexts \ misled', NEW k \in Locks, NEW m \in Locks,
                          iHow'[y][m] = "lock", m < k,
                          \/ iHow'[y][k] = "lock"
                          \/ /\ iArg'[y] = k
                             /\ iPc'[y] \in {"cli", "cas", "retry", "ul_enable"}
                   PROVE  by'[k] # y[1]
        OBVIOUS
      <4>1. misled' = misled /\ by' = by /\ iArg' = iArg /\ iPc[x] = "cas" /\ iPc'[x] = "setid"
            /\ \A z \in I!Contexts : z # x => iPc'[z] = iPc[z]
        BY <1>10, <2>2 DEF I!SetFlag
      <4>2. CASE y # x
        <5>1. iHow[y][m] = "lock" /\ iHow'[y][k] = iHow[y][k] /\ iPc'[y] = iPc[y]
          BY <3>1, <4>1, <4>2
        <5> QED BY <4>1, <5>1
      <4>3. CASE y = x
        <5>1. iHow'[x][k] = "lock"
          BY <4>1, <4>3
        <5>2. m # iArg[x]
          <6>1. SUFFICES ASSUME m = iArg[x] PROVE FALSE
            OBVIOUS
          <6>2. k # iArg[x]
            BY <6>1, IntSpinLockFacts
          <6>3. iHow[x][k] = "lock"
            BY <3>1, <5>1, <6>2
          <6>4. k < iArg[x]
            BY <4>1, <6>3
          <6> QED BY <6>1, <6>4, IntSpinLockFacts
        <5>3. iHow[x][m] = "lock"
          BY <3>1, <4>3, <5>2
        <5>4. iHow[x][k] = "lock" \/ (iArg[x] = k /\ iPc[x] = "cas")
          BY <3>1, <4>1, <5>1
        <5> QED BY <4>1, <4>3, <5>3, <5>4
      <4> QED BY <4>2, <4>3
    <3> QED
      BY <3>2, <3>3, <3>4
  <2>3. CASE ~(I!CasSucceeds(x))
    BY <1>10, <2>1, <2>3, IntTypeNext DEF I!SetFlag
  <2> QED
    BY <2>2, <2>3
<1>11. ASSUME NEW x \in I!Contexts, I!Retry(x) PROVE RunInv'
  BY <1>11, OneRunsPerCpu, IntTypeNext DEF I!Retry, I!EnableInt
<1>12. ASSUME NEW x \in I!Contexts, I!SetId(x) PROVE RunInv'
  BY <1>12, OneRunsPerCpu, IntTypeNext DEF I!SetId
<1>13. ASSUME NEW x \in I!Contexts, I!TryCas(x) PROVE RunInv'
  <2>1. iArg[x] \in Locks
    BY <1>13 DEF I!TryCas
  <2>2. CASE ~I!Odd(iReg[x]) /\ I!CasSucceeds(x)
    <3>1. /\ iHow'[x][iArg[x]] = "try"
          /\ \A y \in I!Contexts, m \in Locks :
               y # x \/ m # iArg[x] => iHow'[y][m] = iHow[y][m]
      BY <1>13, <2>1, <2>2, AcquireFacts DEF I!TryCas
    <3>2. AboveIsIdle' /\ SwappersRun'
      BY <1>13, <2>1, <3>1, IntTypeNext DEF I!TryCas
    <3>3. HoldersRun'
      <4> SUFFICES ASSUME NEW y \in I!Contexts \ misled', NEW m \in Locks, iHow'[y][m] = "lock"
                   PROVE  level'[y[1]] = y[2] /\ ~intr'[y[1]]
        OBVIOUS
      <4>1. misled' = misled /\ level' = level /\ intr' = intr
        BY <1>13 DEF I!TryCas
      <4>2. CASE y = x /\ m = iArg[x]
        BY <3>1, <4>2
      <4>3. CASE ~(y = x /\ m = iArg[x])
        <5>1. iHow[y][m] = "lock"
          BY <3>1, <4>3
        <5> QED BY <4>1, <5>1
      <4> QED BY <4>2, <4>3
    <3>4. InnerRemembersOff'
      BY <1>13, <2>1, <2>2, <3>1, IntTypeNext DEF I!TryCas
    <3> QED
      BY <3>2, <3>3, <3>4
  <2>3. CASE ~(~I!Odd(iReg[x]) /\ I!CasSucceeds(x))
    BY <1>13, <2>1, <2>3, IntTypeNext DEF I!TryCas
  <2> QED
    BY <2>2, <2>3
<1>14. ASSUME NEW x \in I!Contexts, I!UnlockId(x) PROVE RunInv'
  BY <1>14, OneRunsPerCpu, IntTypeNext DEF I!UnlockId
<1>15. ASSUME NEW x \in I!Contexts, I!UnlockFlag(x) PROVE RunInv'
  BY <1>15, OneRunsPerCpu, IntTypeNext DEF I!UnlockFlag
<1>16. ASSUME NEW x \in I!Contexts, I!UnlockEnable(x) PROVE RunInv'
  BY <1>16, OneRunsPerCpu, IntTypeNext DEF I!UnlockEnable, I!EnableInt
<1>17. ASSUME NEW x \in I!Contexts, I!Stopped(x) PROVE RunInv'
  BY <1>17, OneRunsPerCpu, IntTypeNext DEF I!Stopped, I!vars
<1>18. CASE UNCHANGED I!vars
  BY <1>18 DEF I!vars
<1> QED
  BY <1>1, <1>2, <1>3, <1>4, <1>5, <1>6, <1>7, <1>8, <1>9, <1>10, <1>11, <1>12, <1>13, <1>14, <1>15, <1>16, <1>17, <1>18 DEF I!Next, I!Step

\* What is claimed.
LEMMA ClaimInvNext ==
  ASSUME IntLockInv, [I!Next]_(I!vars)
  PROVE  ClaimInv'
<1> USE IntSuccFlipsParity, IntZeroIsEven, ContextFacts DEF IntLockInv, I!TypeOK, I!Goto, I!Running, HoldInv, I!MutualExclusion, ParityIsHeld, ArgIsLock, HoldersAreInside, NestedInOrder, EvenBeforeCas, I!Holds, I!Outside, I!HoldsNone, Entering, Leaving, RunInv, AboveIsIdle, SwappersRun, HoldersRun, InnerRemembersOff, ClaimInv, IdIsOfHolder, FailedAboveMisled
<1>1. ASSUME NEW d \in Cpus, I!Interrupt(d) PROVE ClaimInv'
  BY <1>1, OneRunsPerCpu, IntTypeNext DEF I!Interrupt
<1>2. ASSUME NEW d \in Cpus, I!Iret(d) PROVE ClaimInv'
  BY <1>2, OneRunsPerCpu, IntTypeNext DEF I!Iret
<1>3. ASSUME NEW x \in I!Contexts, NEW l \in Locks, I!Lock(x, l) PROVE ClaimInv'
  BY <1>3, OneRunsPerCpu, IntTypeNext DEF I!Lock
<1>4. ASSUME NEW x \in I!Contexts, NEW l \in Locks, I!TryGet(x, l) PROVE ClaimInv'
  BY <1>4, OneRunsPerCpu, IntTypeNext DEF I!TryGet
<1>5. ASSUME NEW x \in I!Contexts, NEW l \in Locks, I!UnlockEnter(x, l) PROVE ClaimInv'
  BY <1>5, OneRunsPerCpu, IntTypeNext DEF I!UnlockEnter
<1>6. ASSUME NEW x \in I!Contexts, I!Assert(x) PROVE ClaimInv'
  <2>1. iArg[x] \in Locks /\ ~I!Holds(x, iArg[x])
    BY <1>6 DEF I!Assert
  <2>2. IdIsOfHolder'
    BY <1>6, IntTypeNext DEF I!Assert
  <2>3. ASSUME id[iArg[x]] = x[1]
        PROVE  \E y \in misled : y[1] = x[1] /\ y[2] <= x[2]
    <3>1. PICK y \in I!Contexts : y[1] = x[1] /\ iHow[y][iArg[x]] = "lock"
      BY <2>1, <2>3
    <3>2. y # x
      BY <2>1, <3>1
    <3>3. y \in misled
      <4>1. I!Running(x)
        BY <1>6 DEF I!Assert
      <4>2. y \notin misled => I!Running(y)
        BY <2>1, <3>1
      <4> QED BY ONLY <3>1, <3>2, <4>1, <4>2, OneRunsPerCpu, x \in I!Contexts, y \in I!Contexts
    <3>4. ~(y[2] > level[y[1]])
      BY <2>1, <3>1
    <3>5. y[2] <= x[2]
      BY <1>6, <3>1, <3>4 DEF I!Assert
    <3> QED BY <3>1, <3>3, <3>5
  <2>4. FailedAboveMisled'
    BY <1>6, <2>3, IntTypeNext DEF I!Assert
  <2> QED BY <2>2, <2>4
<1>7. ASSUME NEW x \in I!Contexts, I!Get(x) PROVE ClaimInv'
  BY <1>7, OneRunsPerCpu, IntTypeNext DEF I!Get
<1>8. ASSUME NEW x \in I!Contexts, I!DisableInt(x) PROVE ClaimInv'
  BY <1>8, OneRunsPerCpu, IntTypeNext DEF I!DisableInt
<1>9. ASSUME NEW x \in I!Contexts, I!Cli(x) PROVE ClaimInv'
  BY <1>9, OneRunsPerCpu, IntTypeNext DEF I!Cli
<1>10. ASSUME NEW x \in I!Contexts, I!SetFlag(x) PROVE ClaimInv'
  BY <1>10, OneRunsPerCpu, IntTypeNext DEF I!SetFlag, I!CasSucceeds, I!Acquire
<1>11. ASSUME NEW x \in I!Contexts, I!Retry(x) PROVE ClaimInv'
  BY <1>11, OneRunsPerCpu, IntTypeNext DEF I!Retry, I!EnableInt
<1>12. ASSUME NEW x \in I!Contexts, I!SetId(x) PROVE ClaimInv'
  BY <1>12, OneRunsPerCpu, IntTypeNext DEF I!SetId
<1>13. ASSUME NEW x \in I!Contexts, I!TryCas(x) PROVE ClaimInv'
  BY <1>13, OneRunsPerCpu, IntTypeNext DEF I!TryCas, I!CasSucceeds, I!Acquire
<1>14. ASSUME NEW x \in I!Contexts, I!UnlockId(x) PROVE ClaimInv'
  BY <1>14, OneRunsPerCpu, IntTypeNext DEF I!UnlockId
<1>15. ASSUME NEW x \in I!Contexts, I!UnlockFlag(x) PROVE ClaimInv'
  <2>1. iArg[x] \in Locks /\ I!Holds(x, iArg[x])
    BY <1>15 DEF I!UnlockFlag
  <2>2. \A y \in I!Contexts, m \in Locks :
          y # x \/ m # iArg[x] => iHow'[y][m] = iHow[y][m]
    BY <1>15 DEF I!UnlockFlag
  <2>3. IdIsOfHolder'
    BY <1>15, <2>1, <2>2, IntTypeNext DEF I!UnlockFlag
  <2>4. FailedAboveMisled'
    <3> SUFFICES ASSUME NEW y \in I!Contexts, iPc'[y] = "failed"
                 PROVE  \E z \in misled' : z[1] = y[1] /\ z[2] <= y[2]
      OBVIOUS
    <3>1. iPc[x] = "ul_flag" /\ iPc[y] = "failed" /\ I!Running(x)
      BY <1>15 DEF I!UnlockFlag
    <3>2. PICK z \in misled : z[1] = y[1] /\ z[2] <= y[2]
      BY <3>1
    <3>3. ~(y[2] > level[y[1]])
      BY <3>1
    <3>4. z # x
      <4> SUFFICES ASSUME z = x PROVE FALSE
        OBVIOUS
      <4>1. x[1] = y[1] /\ x[2] <= y[2] /\ ~(y[2] > x[2])
        BY <3>1, <3>2, <3>3
      <4>2. x[2] \in Nat /\ y[2] \in Nat
        BY ONLY ContextFacts, x \in I!Contexts, y \in I!Contexts
      <4>3. x[2] = y[2]
        BY ONLY <4>1, <4>2
      <4>4. x = y
        BY ONLY <4>1, <4>3, ContextFacts, x \in I!Contexts, y \in I!Contexts
      <4> QED BY <3>1, <4>4
    <3>5. z \in misled'
      BY <1>15, <3>2, <3>4 DEF I!UnlockFlag
    <3> QED BY <3>2, <3>5
  <2> QED BY <2>3, <2>4
<1>16. ASSUME NEW x \in I!Contexts, I!UnlockEnable(x) PROVE ClaimInv'
  BY <1>16, OneRunsPerCpu, IntTypeNext DEF I!UnlockEnable, I!EnableInt
<1>17. ASSUME NEW x \in I!Contexts, I!Stopped(x) PROVE ClaimInv'
  BY <1>17, OneRunsPerCpu, IntTypeNext DEF I!Stopped, I!vars
<1>18. CASE UNCHANGED I!vars
  BY <1>18 DEF I!vars
<1> QED
  BY <1>1, <1>2, <1>3, <1>4, <1>5, <1>6, <1>7, <1>8, <1>9, <1>10, <1>11, <1>12, <1>13, <1>14, <1>15, <1>16, <1>17, <1>18 DEF I!Next, I!Step

LEMMA IntLockInvNext == IntLockInv /\ [I!Next]_(I!vars) => IntLockInv'
  BY IntTypeNext, HoldInvNext, RunInvNext, ClaimInvNext DEF IntLockInv

LEMMA IntLockInvHolds == I!Spec => []IntLockInv
  BY IntLockInvInit, IntLockInvNext, PTL DEF I!Spec

-----------------------------------------------------------------------------
(***************************************************************************)
(* The five share no state: a behaviour of the run is one of each.         *)
(***************************************************************************)
LEMMA EachOnItsOwn ==
  SpecAny => Spec /\ Q!Spec /\ L!Spec /\ P!Spec /\ I!Spec
<1>1. InitAny => Init /\ Q!Init /\ L!Init /\ P!Init /\ I!Init
  BY DEF InitAny
<1>2. [NextAny]_<<what, vars, queueVars, listVars, threadVars, lockVars>>
        => /\ [Next]_vars /\ [Q!Next]_(Q!vars) /\ [L!Next]_(L!vars)
           /\ [P!Next]_(P!vars) /\ [I!Next]_(I!vars)
  BY DEF NextAny, vars, queueVars, listVars, threadVars, lockVars, Q!vars,
     Q!memory, L!vars, P!vars, I!vars
<1> QED BY <1>1, <1>2, PTL DEF SpecAny, Spec, Q!Spec, L!Spec, P!Spec, I!Spec

\* GetId() gives each CPU its own number, whatever the other threads write
\* into _thread_ids meanwhile, for any number of CPUs and of other threads and
\* for any content of the memory that holds no thread id.
THEOREM EachCpuHasItsNumberHolds == SpecAny => []EachCpuHasItsNumber
<1>1. CpusInv => EachCpuHasItsNumber
  BY DEF CpusInv, EachCpuHasItsNumber
<1> QED BY <1>1, CpusInvInit, CpusInvNext, EachOnItsOwn, PTL DEF P!Spec
\* Push() fills its container before the lock and Pop() reads and frees its
\* own after it: no other thread, and not the list, has it meanwhile, and the
\* assertions on the list hold, for any threads and any memory.
THEOREM EachContainerHasOneOwnerHolds == SpecAny => []EachContainerHasOneOwner
<1>1. QueueInv => EachContainerHasOneOwner
  <2> SUFFICES ASSUME QueueInv PROVE EachContainerHasOneOwner
    OBVIOUS
  <2>1. PICK s : ListInv(s)
    BY DEF QueueInv
  <2>2. /\ Q!TypeOK /\ HeldInv /\ Owned(qFree, qHeld, s)
        /\ s \in Seq(Containers) /\ IsChain(qNext, Null, First, s)
    BY <2>1 DEF QueueInv, ListInv, IsList
  <2>3. Members(s) \subseteq Containers
    BY <2>2, MembersOf
  <2>4. (Q!Nodes \ qFree) \ Q!InHand = {First} \cup Members(s)
    BY <2>2, <2>3, QueueFacts DEF Q!InHand, Q!TypeOK, Owned
  <2>5. Q!InList = Members(s)
    BY <2>2, <2>4, FollowersAreMembers DEF Q!InList
  <2>6. Q!NoKassertFails
    BY <2>2 DEF Q!NoKassertFails, HeldInv
  <2>7. Q!EachContainerHasOneOwner
    <3>1. \A r, t \in QueueThreads : qHeld[r] = qHeld[t] /\ qHeld[r] # Null => r = t
      BY <2>2 DEF HeldInv
    <3>2. /\ Q!InHand \cap (qFree \cup Q!InList) = {} /\ Q!InList \cap qFree = {}
      BY <2>2, <2>5 DEF Q!InHand, Owned
    <3>3. qFree \cup Q!InHand \cup Q!InList = Containers
      BY <2>2, <2>3, <2>5, QueueFacts DEF Q!InHand, Owned, Q!TypeOK
    <3> QED BY <3>1, <3>2, <3>3 DEF Q!EachContainerHasOneOwner
  <2> QED BY <2>2, <2>6, <2>7 DEF EachContainerHasOneOwner
<1> QED BY <1>1, QueueInvInit, QueueNext, EachOnItsOwn, PTL DEF Q!Spec

\* Queue is a first-in first-out queue, for any threads, items and memory:
\* Push() takes effect where it links its container, Pop() where it takes one
\* out, and an IsEmpty() that takes no lock answers what is true then.
THEOREM QueueRefinement == SpecAny => QueueImplementsBoundedFifo
  BY QueueInvInit, QueueNext, EachOnItsOwn, PTL
     DEF Q!Spec, QueueImplementsBoundedFifo, QueueFifo!Spec
\* A reader that takes no lock sees a beginning of the list in its order, and
\* everything that was in it when the reader began, for any number of writers,
\* readers and containers; the assertion of PushBack() holds.
THEOREM ReadersSeeTheListHolds == SpecAny => []ReadersSeeTheList
<1>1. ObjectsInv => ReadersSeeTheList
  <2> SUFFICES ASSUME ObjectsInv PROVE ReadersSeeTheList
    OBVIOUS
  <2>1. PICK s : GrownList(s) /\ WritersInv(s) /\ ReadersInv(s)
    BY DEF ObjectsInv
  <2>2. /\ L!TypeOK /\ s \in Seq(Containers) /\ IsChain(lNext, Null, First, s)
        /\ Members(s) \subseteq lMade
    BY <2>1 DEF ObjectsInv, GrownList
  <2>3. L!list = s
    BY <2>2, ObjectListFacts, ObjectListIsChain DEF L!TypeOK
  <2>4. L!NoKassertFails
    BY <2>1 DEF L!NoKassertFails, WritersInv
  <2>5. ASSUME NEW r \in Readers
        PROVE  /\ L!IsPrefix(seen[r], s) /\ L!IsInjective(seen[r])
               /\ L!ToSet(seen[r]) \subseteq lMade
               /\ L!ToSet(seen[r]) = Members(seen[r])
    <3>1. PICK p : p = seen[r]
      OBVIOUS
    <3>2. p \in Seq(Containers) /\ IsBeginning(p, s)
      BY <2>1, <2>2, <3>1 DEF L!TypeOK, ReadersInv, Walked
    <3>3. /\ Len(p) \in Nat /\ Len(s) \in Nat /\ Len(p) <= Len(s)
          /\ \A k \in 1 .. Len(p) : p[k] = s[k] /\ k \in 1 .. Len(s) /\ k \in 0 .. Len(s)
          /\ DOMAIN p = 1 .. Len(p) /\ DOMAIN s = 1 .. Len(s)
      BY <2>2, <3>2 DEF IsBeginning
    <3>4. L!IsPrefix(p, s)
      <4>1. /\ SubSeq(s, 1, Len(p)) \in Seq(Containers)
            /\ Len(SubSeq(s, 1, Len(p))) = Len(p)
            /\ \A k \in 1 .. Len(p) : SubSeq(s, 1, Len(p))[k] = s[k]
        BY <2>2, <3>3
      <4>2. SubSeq(s, 1, Len(p)) = p
        BY <3>2, <3>3, <4>1, SameSequence
      <4>3. SubSeq(p, 1, Len(p)) = p
        BY <3>2
      <4> QED BY <3>3, <4>2, <4>3 DEF L!IsPrefix
    <3>5. L!IsInjective(p)
      <4>1. \A k \in 1 .. Len(p) : NodeAt(First, s, k) = p[k]
        BY <3>3 DEF NodeAt
      <4>2. \A j, k \in 1 .. Len(p) : p[j] = p[k] => j = k
        BY <2>2, <3>3, <4>1, ChainIsInjective
      <4> QED BY <3>3, <4>2 DEF L!IsInjective
    <3>6. L!ToSet(p) = Members(p) /\ Members(p) \subseteq Members(s)
      BY <3>3 DEF L!ToSet, Members
    <3> QED BY <2>2, <3>1, <3>4, <3>5, <3>6
  <2>6. L!ReaderSeesTheBeginning
    BY <2>3, <2>5 DEF L!ReaderSeesTheBeginning
  <2>7. L!ReaderMissesNothing
    BY <2>1, <2>5 DEF L!ReaderMissesNothing, ReadersInv, Walked
  <2> QED BY <2>2, <2>4, <2>6, <2>7 DEF ReadersSeeTheList
<1> QED BY <1>1, ObjectsInvInit, ObjectsInvNext, EachOnItsOwn, PTL DEF L!Spec

\* Each lock is held at most once, by programs and handlers of any CPUs, however
\* they are nested, and no assertion fails on a CPU where nobody was misled.
THEOREM IntMutualExclusionHolds == SpecAny => []MutualExclusion
<1>1. IntLockInv => MutualExclusion
  BY DEF IntLockInv, HoldInv, ClaimInv, FailedAboveMisled, I!NoSpuriousAssert,
         MutualExclusion
<1> QED
  BY <1>1, IntLockInvHolds, EachOnItsOwn, PTL

\* Who has a lock by Lock() is not interrupted on its CPU, however the locks are
\* nested, unless another CPU has set _did_stop_interrupt of a lock that this
\* one tried or took inside of it.
THEOREM InterruptsOffHolds == SpecAny => []InterruptsOffUnlessMisled
<1>1. IntLockInv => InterruptsOffUnlessMisled
  BY DEF IntLockInv, RunInv, HoldersRun, I!InterruptsOffUnlessMisled,
         InterruptsOffUnlessMisled
<1> QED
  BY <1>1, IntLockInvHolds, EachOnItsOwn, PTL
=============================================================================
