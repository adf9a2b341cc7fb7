-------------------------- MODULE ListLemmas --------------------------
(***************************************************************************)
(* What following the links of a list yields, and what the ways to change  *)
(* them do to it.  Induction along a list is by the least place that is an *)
(* exception.                                                              *)
(***************************************************************************)
EXTENDS LinkedList, FiniteSetTheorems, SequenceTheorems, WellFoundedInduction,
        TLAPS

\* Every set of numbers that is not empty has a least element.
LEMMA LeastOf ==
  ASSUME NEW T \in SUBSET Nat, T # {}
  PROVE  \E m \in T : \A k \in T : m <= k
<1>1. PICK m \in T : \A k \in T : ~ (<<k, m>> \in OpToRel(<, Nat))
  BY NatLessThanWellFounded, WFMin
<1>2. \A k \in T : ~(k < m)
  BY <1>1 DEF OpToRel
<1> QED BY <1>2

LEMMA GreatestOf ==
  ASSUME NEW b \in Nat, NEW T \in SUBSET (0 .. b), T # {}
  PROVE  \E m \in T : \A k \in T : k <= m
<1> DEFINE D == {b - k : k \in T}
<1>1. D \in SUBSET Nat /\ D # {}
  <2>1. \A k \in T : k \in 0 .. b /\ b - k \in Nat
    OBVIOUS
  <2>2. D # {}
    OBVIOUS
  <2> QED BY <2>1, <2>2
<1>2. PICK d \in D : \A k \in D : d <= k
  <2> HIDE DEF D
  <2> QED BY <1>1, LeastOf
<1>3. PICK m \in T : d = b - m
  OBVIOUS
<1>4. ASSUME NEW k \in T PROVE k <= m
  <2>1. b - k \in D
    OBVIOUS
  <2>2. b - m <= b - k
    BY <1>2, <1>3, <2>1
  <2> QED BY <2>2
<1> QED BY <1>4

-----------------------------------------------------------------------------
\* The places of two lists behind the same guard hold the same nodes.
LEMMA ChainsAgree ==
  ASSUME NEW next, NEW null, NEW n, NEW S, NEW s \in Seq(S), NEW u \in Seq(S),
         IsChain(next, null, n, s), IsChain(next, null, n, u),
         NEW i \in 1 .. Len(s)
  PROVE  i <= Len(u) /\ s[i] = u[i]
<1> DEFINE Bad == {k \in 1 .. Len(s) : ~(k <= Len(u) /\ s[k] = u[k])}
<1>1. SUFFICES Bad = {}
  OBVIOUS
<1>2. SUFFICES ASSUME Bad # {} PROVE FALSE
  OBVIOUS
<1>3. PICK m \in Bad : \A k \in Bad : m <= k
  <2>1. Bad \in SUBSET Nat
    OBVIOUS
  <2> HIDE DEF Bad
  <2> QED BY <1>2, <2>1, LeastOf
<1>4. m - 1 \in 0 .. Len(s) - 1 /\ m - 1 <= Len(u)
      /\ NodeAt(n, s, m - 1) = NodeAt(n, u, m - 1)
  BY <1>3 DEF NodeAt
<1>5. next[NodeAt(n, s, m - 1)] = s[m] /\ s[m] # null
  BY <1>4 DEF IsChain
<1>6. m - 1 # Len(u)
  BY <1>4, <1>5 DEF IsChain, End
<1>7. m - 1 \in 0 .. Len(u) - 1
  BY <1>4, <1>6
<1>8. next[NodeAt(n, u, m - 1)] = u[m]
  BY <1>7 DEF IsChain
<1> QED BY <1>4, <1>5, <1>7, <1>8

LEMMA ChainIsUnique ==
  ASSUME NEW next, NEW null, NEW n, NEW S, NEW s \in Seq(S), NEW u \in Seq(S),
         IsChain(next, null, n, s), IsChain(next, null, n, u)
  PROVE  s = u
<1>1. Len(s) <= Len(u) /\ Len(u) <= Len(s)
  <2>1. Len(s) > 0 => Len(s) <= Len(u)
    BY ChainsAgree
  <2>2. Len(u) > 0 => Len(u) <= Len(s)
    BY ChainsAgree
  <2> QED BY <2>1, <2>2
<1>2. \A i \in 1 .. Len(s) : s[i] = u[i]
  BY ChainsAgree
<1> QED BY <1>1, <1>2

\* No node comes twice, and a guard that is not null does not come again.
LEMMA ChainIsInjective ==
  ASSUME NEW next, NEW null, NEW n, NEW S, NEW s \in Seq(S),
         IsChain(next, null, n, s),
         NEW i \in 0 .. Len(s), NEW j \in 0 .. Len(s),
         NodeAt(n, s, i) = NodeAt(n, s, j)
  PROVE  i = j
<1> DEFINE P(k, m) == k < m /\ NodeAt(n, s, k) = NodeAt(n, s, m)
           Bad == {m \in 0 .. Len(s) : \E k \in 0 .. Len(s) : P(k, m)}
<1>1. SUFFICES Bad = {}
  OBVIOUS
<1>2. SUFFICES ASSUME Bad # {} PROVE FALSE
  OBVIOUS
<1>3. PICK m \in Bad : \A k \in Bad : k <= m
  <2>1. Bad \in SUBSET (0 .. Len(s)) /\ Len(s) \in Nat
    OBVIOUS
  <2> HIDE DEF Bad
  <2> QED BY <1>2, <2>1, GreatestOf
<1>4. PICK k \in 0 .. Len(s) : P(k, m)
  OBVIOUS
<1>5. next[NodeAt(n, s, k)] = s[k + 1] /\ s[k + 1] # null
  BY <1>4 DEF IsChain
<1>6. CASE m = Len(s)
  BY <1>4, <1>5, <1>6 DEF IsChain, End
<1>7. CASE m # Len(s)
  <2>1. next[NodeAt(n, s, m)] = s[m + 1]
    BY <1>7 DEF IsChain
  <2>2. P(k + 1, m + 1)
    BY <1>4, <1>5, <2>1 DEF NodeAt
  <2>3. m + 1 \in Bad
    BY <1>4, <1>7, <2>2
  <2> QED BY <1>3, <2>3
<1> QED BY <1>6, <1>7

\* A list in a finite memory is not longer than the memory.
LEMMA ChainIsShort ==
  ASSUME NEW next, NEW null, NEW n, NEW S, IsFiniteSet(S), NEW s \in Seq(S),
         IsChain(next, null, n, s)
  PROVE  Len(s) <= Cardinality(S)
<1>1. \A i, j \in 1 .. Len(s) : s[i] = s[j] => i = j
  BY ChainIsInjective DEF NodeAt
<1>2. s \in Injection(1 .. Len(s), S)
  BY <1>1 DEF Injection, IsInjective
<1>3. Cardinality(1 .. Len(s)) <= Cardinality(S)
  BY <1>2, FS_Injection
<1>4. Cardinality(1 .. Len(s)) = Len(s)
  <2>1. Len(s) \in Int /\ 1 \in Int /\ Len(s) >= 0
    OBVIOUS
  <2>2. Cardinality(1 .. Len(s)) = IF 1 > Len(s) THEN 0 ELSE Len(s) - 1 + 1
    BY <2>1, FS_Interval
  <2> QED BY <2>1, <2>2
<1> QED BY <1>3, <1>4

\* One step of the recursion of Chain(), and the functions that satisfy it.
ChainStep(next, null, k, g) ==
  [m \in DOMAIN next |-> IF k = 0 \/ next[m] = null THEN << >>
                         ELSE <<next[m]>> \o g[next[m]]]

IsBehind(next, null, max, f) ==
  f = [k \in 0 .. max |-> ChainStep(next, null, k, f[k - 1])]

LEMMA BehindExists ==
  ASSUME NEW next, NEW null, NEW max \in Nat
  PROVE  \E f : IsBehind(next, null, max, f)
<1> DEFINE Bad == {k \in Nat : ~ \E f : IsBehind(next, null, k, f)}
<1>1. SUFFICES ASSUME Bad # {} PROVE FALSE
  OBVIOUS
<1>2. PICK k \in Bad : \A j \in Bad : k <= j
  <2>1. Bad \in SUBSET Nat
    OBVIOUS
  <2> HIDE DEF Bad
  <2> QED BY <1>1, <2>1, LeastOf
<1>3. CASE k = 0
  <2> DEFINE f == [j \in 0 .. 0 |-> [m \in DOMAIN next |-> << >>]]
  <2>1. \A j \in 0 .. 0 : f[j] = ChainStep(next, null, j, f[j - 1])
    BY DEF ChainStep
  <2>2. IsBehind(next, null, k, f)
    BY <1>3, <2>1 DEF IsBehind
  <2> QED BY <2>2
<1>4. CASE k # 0
  <2>1. k - 1 \in Nat /\ k - 1 \notin Bad
    BY <1>2, <1>4
  <2>2. PICK f : IsBehind(next, null, k - 1, f)
    BY <2>1
  <2> DEFINE h == [j \in 0 .. k |->
                     IF j = k THEN ChainStep(next, null, k, f[k - 1]) ELSE f[j]]
  <2>3. ASSUME NEW j \in 0 .. k PROVE h[j] = ChainStep(next, null, j, h[j - 1])
    <3>1. CASE j = k
      BY <1>4, <3>1
    <3>2. CASE j # k
      <4>1. j \in 0 .. k - 1 /\ h[j] = f[j]
        BY <3>2
      <4>2. f[j] = ChainStep(next, null, j, f[j - 1])
        BY <2>2, <4>1 DEF IsBehind
      <4>3. CASE j = 0
        BY <4>1, <4>2, <4>3 DEF ChainStep
      <4>4. CASE j # 0
        BY <4>1, <4>2, <4>4
      <4> QED BY <4>3, <4>4
    <3> QED BY <3>1, <3>2
  <2>4. IsBehind(next, null, k, h)
    BY <2>3 DEF IsBehind
  <2> QED BY <2>4
<1> QED BY <1>3, <1>4

\* Chain() finds the list, if there is one that is not too long.
LEMMA ChainIs ==
  ASSUME NEW next, NEW null, NEW n \in DOMAIN next,
         NEW S, S \subseteq DOMAIN next, NEW s \in Seq(S),
         IsChain(next, null, n, s), NEW max \in Nat, Len(s) <= max
  PROVE  Chain(next, null, n, max) = s
<1> DEFINE behind == CHOOSE f : IsBehind(next, null, max, f)
           Rest(i) == SubSeq(s, i + 1, Len(s))
           Bad == {i \in 0 .. Len(s) : behind[max - i][NodeAt(n, s, i)] # Rest(i)}
<1>1. \A k \in 0 .. max : behind[k] = ChainStep(next, null, k, behind[k - 1])
  <2>1. IsBehind(next, null, max, behind)
    BY BehindExists
  <2> HIDE DEF behind
  <2> QED BY <2>1 DEF IsBehind
<1>2. Chain(next, null, n, max) = behind[max][n]
  BY DEF Chain, IsBehind, ChainStep
<1> HIDE DEF behind
<1>3. Bad = {}
  <2>1. SUFFICES ASSUME Bad # {} PROVE FALSE
    OBVIOUS
  <2>2. PICK i \in Bad : \A j \in Bad : j <= i
    <3>1. Bad \in SUBSET (0 .. Len(s)) /\ Len(s) \in Nat
      OBVIOUS
    <3> HIDE DEF Bad
    <3> QED BY <2>1, <3>1, GreatestOf
  <2> DEFINE m == NodeAt(n, s, i)
  <2>3. m \in DOMAIN next /\ max - i \in 0 .. max
    BY DEF NodeAt
  <2>4. behind[max - i][m] = IF max - i = 0 \/ next[m] = null THEN << >>
                              ELSE <<next[m]>> \o behind[(max - i) - 1][next[m]]
    BY <1>1, <2>3 DEF ChainStep
  <2>5. CASE i = Len(s)
    <3>1. next[m] = null /\ Rest(i) = << >>
      BY <2>5 DEF IsChain, End
    <3> QED BY <2>4, <3>1
  <2>6. CASE i # Len(s)
    <3>1. i + 1 \in 0 .. Len(s) /\ i + 1 \notin Bad
      BY <2>2, <2>6
    <3>2. /\ next[m] = s[i + 1] /\ s[i + 1] # null /\ NodeAt(n, s, i + 1) = s[i + 1]
          /\ max - i # 0 /\ (max - i) - 1 = max - (i + 1)
      BY <2>6 DEF IsChain, NodeAt
    <3>3. behind[max - i][m] = <<s[i + 1]>> \o Rest(i + 1)
      BY <2>4, <3>1, <3>2
    <3>4. <<s[i + 1]>> \o Rest(i + 1) = Rest(i)
      BY <2>6
    <3> QED BY <3>3, <3>4
  <2> QED BY <2>5, <2>6
<1>4. behind[max - 0][NodeAt(n, s, 0)] = Rest(0) /\ Rest(0) = s
  BY <1>3
<1>5. NodeAt(n, s, 0) = n /\ max - 0 = max
  BY DEF NodeAt
<1> QED BY <1>2, <1>4, <1>5

-----------------------------------------------------------------------------
\* What does not change the links of its nodes leaves a list alone.
LEMMA ChainStays ==
  ASSUME NEW next, NEW next2, NEW null, NEW n, NEW S, NEW s \in Seq(S),
         IsChain(next, null, n, s),
         \A m \in {n} \cup Members(s) : next2[m] = next[m]
  PROVE  IsChain(next2, null, n, s)
<1>1. \A i \in 0 .. Len(s) : NodeAt(n, s, i) \in {n} \cup Members(s)
  BY DEF NodeAt, Members
<1> QED BY <1>1 DEF IsChain, End

\* A node is linked behind the last one.
LEMMA ChainGrows ==
  ASSUME NEW next, NEW next2, NEW null, NEW n, NEW S, NEW s \in Seq(S),
         IsChain(next, null, n, s),
         NEW c \in S, c # null, c # n, c \notin Members(s),
         next2[End(n, s)] = c, next2[c] = null,
         \A m \in ({n} \cup Members(s)) \ {End(n, s)} : next2[m] = next[m]
  PROVE  IsChain(next2, null, n, Append(s, c))
<1> DEFINE u == Append(s, c)
<1>1. /\ u \in Seq(S) /\ Len(u) = Len(s) + 1 /\ u[Len(u)] = c
      /\ \A i \in 1 .. Len(s) : u[i] = s[i]
  OBVIOUS
<1>2. \A i \in 0 .. Len(s) : NodeAt(n, u, i) = NodeAt(n, s, i)
  BY <1>1 DEF NodeAt
<1> HIDE DEF u
<1>3. End(n, u) = c
  BY <1>1 DEF End, NodeAt
<1>4. ASSUME NEW i \in 0 .. Len(u) - 1
      PROVE  next2[NodeAt(n, u, i)] = u[i + 1]
  <2>1. CASE i = Len(s)
    BY <1>1, <1>2, <2>1 DEF End
  <2>2. CASE i # Len(s)
    <3>1. i \in 0 .. Len(s) - 1 /\ Len(s) \in 0 .. Len(s)
      BY <1>1, <2>2
    <3>2. NodeAt(n, s, i) # End(n, s)
      BY <2>2, <3>1, ChainIsInjective DEF End
    <3>3. NodeAt(n, s, i) \in {n} \cup Members(s)
      BY <3>1 DEF NodeAt, Members
    <3> QED BY <1>1, <1>2, <3>1, <3>2, <3>3 DEF IsChain
  <2> QED BY <2>1, <2>2
<1>5. \A i \in 1 .. Len(u) : u[i] # null
  BY <1>1 DEF IsChain
<1>6. IsChain(next2, null, n, u)
  BY <1>3, <1>4, <1>5 DEF IsChain
<1> QED BY <1>6 DEF u

LEMMA WithoutIs ==
  ASSUME NEW S, NEW s \in Seq(S), NEW i \in 1 .. Len(s)
  PROVE  /\ Without(s, i) \in Seq(S) /\ Len(Without(s, i)) = Len(s) - 1
         /\ \A k \in 1 .. Len(s) - 1 :
              Without(s, i)[k] = IF k < i THEN s[k] ELSE s[k + 1]
<1>1. /\ SubSeq(s, 1, i - 1) \in Seq(S) /\ Len(SubSeq(s, 1, i - 1)) = i - 1
      /\ SubSeq(s, i + 1, Len(s)) \in Seq(S)
      /\ Len(SubSeq(s, i + 1, Len(s))) = Len(s) - i
      /\ \A k \in 1 .. i - 1 : SubSeq(s, 1, i - 1)[k] = s[k]
      /\ \A k \in 1 .. Len(s) - i : SubSeq(s, i + 1, Len(s))[k] = s[i + k]
  OBVIOUS
<1> DEFINE a == SubSeq(s, 1, i - 1)
           b == SubSeq(s, i + 1, Len(s))
           u == a \o b
<1>2. /\ a \in Seq(S) /\ Len(a) = i - 1 /\ b \in Seq(S) /\ Len(b) = Len(s) - i
      /\ \A k \in 1 .. i - 1 : a[k] = s[k]
      /\ \A k \in 1 .. Len(s) - i : b[k] = s[i + k]
  BY <1>1
<1> HIDE DEF a, b
<1>3. /\ u \in Seq(S) /\ Len(u) = Len(a) + Len(b)
      /\ \A k \in 1 .. Len(a) + Len(b) :
           u[k] = IF k <= Len(a) THEN a[k] ELSE b[k - Len(a)]
  BY <1>2, ConcatProperties
<1> HIDE DEF u
<1>4. \A k \in 1 .. Len(s) - 1 : u[k] = IF k < i THEN s[k] ELSE s[k + 1]
  <2> TAKE k \in 1 .. Len(s) - 1
  <2> k \in 1 .. Len(a) + Len(b)
    BY <1>2
  <2>1. CASE k < i
    <3>1. k <= Len(a) /\ k \in 1 .. i - 1
      BY <1>2, <2>1
    <3> QED BY <1>2, <1>3, <2>1, <3>1
  <2>2. CASE k >= i
    <3>1. k - (i - 1) \in 1 .. Len(s) - i /\ i + (k - (i - 1)) = k + 1
      BY <2>2
    <3>2. u[k] = b[k - (i - 1)]
      BY <1>2, <1>3, <2>2
    <3>3. b[k - (i - 1)] = s[i + (k - (i - 1))]
      BY <1>2, <3>1
    <3>4. u[k] = s[k + 1]
      BY <3>1, <3>2, <3>3
    <3> QED BY <2>2, <3>4
  <2> QED BY <2>1, <2>2
<1>5. u = Without(s, i)
  BY DEF Without, u, a, b
<1>6. Len(u) = Len(s) - 1
  BY <1>2, <1>3
<1> QED BY <1>3, <1>4, <1>5, <1>6

\* A node is taken out: the one before it is linked to the one behind it.
LEMMA ChainShrinks ==
  ASSUME NEW next, NEW next2, NEW null, NEW n, NEW S, NEW s \in Seq(S),
         IsChain(next, null, n, s), NEW i \in 1 .. Len(s),
         next2[NodeAt(n, s, i - 1)] = next[s[i]],
         \A m \in ({n} \cup Members(s)) \ {s[i], NodeAt(n, s, i - 1)} :
           next2[m] = next[m]
  PROVE  IsChain(next2, null, n, Without(s, i))
<1> DEFINE u == Without(s, i)
<1>1. /\ u \in Seq(S) /\ Len(u) = Len(s) - 1
      /\ \A k \in 1 .. Len(s) - 1 : u[k] = IF k < i THEN s[k] ELSE s[k + 1]
  BY WithoutIs
<1> HIDE DEF u
<1>2. \A k \in 0 .. Len(u) :
        NodeAt(n, u, k) = IF k < i THEN NodeAt(n, s, k) ELSE s[k + 1]
  BY <1>1 DEF NodeAt
<1>3. \A k \in 0 .. Len(s) : k \notin {i - 1, i} =>
         next2[NodeAt(n, s, k)] = next[NodeAt(n, s, k)]
  <2> TAKE k \in 0 .. Len(s)
  <2> HAVE k \notin {i - 1, i}
  <2>1. NodeAt(n, s, k) \in {n} \cup Members(s)
    BY DEF NodeAt, Members
  <2>2. NodeAt(n, s, i) = s[i] /\ i \in 0 .. Len(s) /\ i - 1 \in 0 .. Len(s)
    BY DEF NodeAt
  <2>3. NodeAt(n, s, k) \notin {s[i], NodeAt(n, s, i - 1)}
    BY <2>2, ChainIsInjective
  <2> QED BY <2>1, <2>3
<1>4. ASSUME NEW k \in 0 .. Len(u) - 1
      PROVE  next2[NodeAt(n, u, k)] = u[k + 1]
  <2>1. CASE k < i - 1
    BY <1>1, <1>2, <1>3, <2>1 DEF IsChain
  <2>2. CASE k = i - 1
    BY <1>1, <1>2, <2>2 DEF IsChain, NodeAt
  <2>3. CASE k > i - 1
    <3>1. NodeAt(n, u, k) = NodeAt(n, s, k + 1) /\ u[k + 1] = s[k + 2]
      BY <1>1, <1>2, <2>3 DEF NodeAt
    <3>2. next2[NodeAt(n, s, k + 1)] = next[NodeAt(n, s, k + 1)]
      BY <1>1, <1>3, <2>3
    <3> QED BY <1>1, <3>1, <3>2 DEF IsChain
  <2> QED BY <2>1, <2>2, <2>3
<1>5. \A k \in 1 .. Len(u) : u[k] # null
  BY <1>1 DEF IsChain
<1>6. next2[End(n, u)] = null
  <2>1. CASE i = Len(s)
    BY <1>1, <1>2, <2>1 DEF IsChain, End, NodeAt
  <2>2. CASE i # Len(s)
    <3>1. End(n, u) = End(n, s)
      BY <1>1, <1>2, <2>2 DEF End, NodeAt
    <3> QED BY <1>3, <2>2, <3>1 DEF IsChain, End
  <2> QED BY <2>1, <2>2
<1>7. IsChain(next2, null, n, u)
  BY <1>4, <1>5, <1>6 DEF IsChain
<1> QED BY <1>7 DEF u

\* What the operations do to the set of the nodes.
LEMMA MembersOf ==
  ASSUME NEW S, NEW s \in Seq(S)
  PROVE  /\ Members(s) \subseteq S
         /\ \A c \in S : Members(Append(s, c)) = Members(s) \cup {c}
         /\ s = << >> <=> Members(s) = {}
<1>1. Members(s) \subseteq S
  BY DEF Members
<1>2. ASSUME NEW c \in S PROVE Members(Append(s, c)) = Members(s) \cup {c}
  <2>1. /\ Len(Append(s, c)) = Len(s) + 1 /\ Append(s, c)[Len(s) + 1] = c
        /\ \A i \in 1 .. Len(s) : Append(s, c)[i] = s[i]
        /\ DOMAIN Append(s, c) = 1 .. Len(s) + 1
    OBVIOUS
  <2>2. c \in Members(Append(s, c)) /\ Members(s) \subseteq Members(Append(s, c))
    BY <2>1 DEF Members
  <2>3. Members(Append(s, c)) \subseteq Members(s) \cup {c}
    BY <2>1 DEF Members
  <2> QED BY <2>2, <2>3
<1>3. s = << >> <=> Members(s) = {}
  BY DEF Members
<1> QED BY <1>1, <1>2, <1>3

LEMMA MembersWithout ==
  ASSUME NEW next, NEW null, NEW n, NEW S, NEW s \in Seq(S),
         IsChain(next, null, n, s), NEW i \in 1 .. Len(s)
  PROVE  Members(Without(s, i)) = Members(s) \ {s[i]}
<1> DEFINE u == Without(s, i)
<1>1. /\ u \in Seq(S) /\ Len(u) = Len(s) - 1
      /\ \A k \in 1 .. Len(s) - 1 : u[k] = IF k < i THEN s[k] ELSE s[k + 1]
  BY WithoutIs
<1> HIDE DEF u
<1>2. \A k \in 1 .. Len(s) : s[k] = s[i] => k = i
  BY ChainIsInjective DEF NodeAt
<1>3. ASSUME NEW k \in 1 .. Len(u) PROVE u[k] \in Members(s) \ {s[i]}
  BY <1>1, <1>2 DEF Members
<1>4. ASSUME NEW k \in 1 .. Len(s), k # i PROVE s[k] \in Members(u)
  <2>1. CASE k < i
    BY <1>1, <2>1 DEF Members
  <2>2. CASE k > i
    <3>1. k - 1 \in 1 .. Len(u) /\ u[k - 1] = s[k]
      BY <1>1, <2>2
    <3> QED BY <1>1, <3>1 DEF Members
  <2> QED BY <1>4, <2>1, <2>2
<1>5. Members(u) \subseteq Members(s) \ {s[i]}
  BY <1>1, <1>3 DEF Members
<1>6. Members(s) \ {s[i]} \subseteq Members(u)
  BY <1>4 DEF Members
<1> QED BY <1>5, <1>6 DEF u

-----------------------------------------------------------------------------
(***************************************************************************)
(* Two lists, one after the other.                                         *)
(***************************************************************************)
LEMMA SameSequence ==
  ASSUME NEW S, NEW a \in Seq(S), NEW b \in Seq(S), Len(a) = Len(b),
         \A k \in 1 .. Len(a) : a[k] = b[k]
  PROVE  a = b
  OBVIOUS

LEMMA MembersOfConcat ==
  ASSUME NEW S, NEW a \in Seq(S), NEW b \in Seq(S)
  PROVE  Members(a \o b) = Members(a) \cup Members(b)
<1> DEFINE u == a \o b
<1>1. /\ u \in Seq(S) /\ Len(u) = Len(a) + Len(b)
      /\ \A k \in 1 .. Len(a) + Len(b) :
           u[k] = IF k <= Len(a) THEN a[k] ELSE b[k - Len(a)]
  BY ConcatProperties
<1> HIDE DEF u
<1>2. \A k \in 1 .. Len(u) : u[k] \in Members(a) \cup Members(b)
  BY <1>1 DEF Members
<1>3. \A k \in 1 .. Len(a) : a[k] = u[k] /\ k \in 1 .. Len(u)
  BY <1>1
<1>4. ASSUME NEW k \in 1 .. Len(b) PROVE b[k] \in Members(u)
  <2>1. Len(a) + k \in 1 .. Len(u) /\ ~(Len(a) + k <= Len(a))
        /\ (Len(a) + k) - Len(a) = k
    BY <1>1
  <2>2. u[Len(a) + k] = b[k]
    BY <1>1, <2>1
  <2> QED BY <1>1, <2>1, <2>2 DEF Members
<1>5. Members(u) = Members(a) \cup Members(b)
  <2>1. Members(u) \subseteq Members(a) \cup Members(b)
    BY <1>1, <1>2 DEF Members
  <2>2. \A k \in 1 .. Len(a) : a[k] \in Members(u)
    BY <1>1, <1>3 DEF Members
  <2>3. Members(a) \subseteq Members(u) /\ Members(b) \subseteq Members(u)
    <3>1. /\ DOMAIN a = 1 .. Len(a) /\ DOMAIN b = 1 .. Len(b)
      OBVIOUS
    <3>2. \A x \in Members(a) : \E k \in 1 .. Len(a) : x = a[k]
      BY <3>1 DEF Members
    <3>3. \A x \in Members(b) : \E k \in 1 .. Len(b) : x = b[k]
      BY <3>1 DEF Members
    <3> QED BY <1>4, <2>2, <3>2, <3>3
  <2> QED BY <2>1, <2>3
<1> QED BY <1>5 DEF u

LEMMA AppendAfterConcat ==
  ASSUME NEW S, NEW a \in Seq(S), NEW b \in Seq(S), NEW c \in S
  PROVE  a \o Append(b, c) = Append(a \o b, c)
<1>1. Append(b, c) = b \o <<c>> /\ Append(a \o b, c) = (a \o b) \o <<c>>
  BY AppendIsConcat, ConcatProperties
<1> QED BY <1>1, ConcatAssociative

LEMMA WithoutInFirst ==
  ASSUME NEW S, NEW a \in Seq(S), NEW b \in Seq(S), NEW i \in 1 .. Len(a)
  PROVE  Without(a \o b, i) = Without(a, i) \o b
<1> DEFINE u == a \o b
           v == Without(a, i)
<1>1. /\ u \in Seq(S) /\ Len(u) = Len(a) + Len(b)
      /\ \A k \in 1 .. Len(a) + Len(b) :
           u[k] = IF k <= Len(a) THEN a[k] ELSE b[k - Len(a)]
  BY ConcatProperties
<1>2. /\ v \in Seq(S) /\ Len(v) = Len(a) - 1
      /\ \A k \in 1 .. Len(a) - 1 : v[k] = IF k < i THEN a[k] ELSE a[k + 1]
  BY WithoutIs
<1> HIDE DEF u, v
<1>3. /\ v \o b \in Seq(S) /\ Len(v \o b) = Len(v) + Len(b)
      /\ \A k \in 1 .. Len(v) + Len(b) :
           (v \o b)[k] = IF k <= Len(v) THEN v[k] ELSE b[k - Len(v)]
  BY <1>2, ConcatProperties
<1>4. /\ Without(u, i) \in Seq(S) /\ Len(Without(u, i)) = Len(u) - 1
      /\ \A k \in 1 .. Len(u) - 1 :
           Without(u, i)[k] = IF k < i THEN u[k] ELSE u[k + 1]
  <2>1. i \in 1 .. Len(u)
    BY <1>1
  <2> QED BY <1>1, <2>1, WithoutIs
<1>5. ASSUME NEW k \in 1 .. Len(u) - 1 PROVE Without(u, i)[k] = (v \o b)[k]
  <2>1. k \in 1 .. Len(v) + Len(b) /\ k \in 1 .. Len(a) + Len(b)
        /\ k + 1 \in 1 .. Len(a) + Len(b)
    BY <1>1, <1>2
  <2>2. CASE k < i
    <3>1. k <= Len(a) /\ k \in 1 .. Len(a) - 1 /\ k <= Len(v)
      BY <1>2, <2>2
    <3>2. Without(u, i)[k] = u[k] /\ u[k] = a[k]
      BY <1>1, <1>4, <2>1, <2>2, <3>1
    <3>3. (v \o b)[k] = v[k] /\ v[k] = a[k]
      BY <1>2, <1>3, <2>1, <2>2, <3>1
    <3> QED BY <3>2, <3>3
  <2>3. CASE k >= i /\ k < Len(a)
    <3>1. ~(k < i) /\ k + 1 <= Len(a) /\ k \in 1 .. Len(a) - 1 /\ k <= Len(v)
      BY <1>2, <2>3
    <3>2. Without(u, i)[k] = u[k + 1] /\ u[k + 1] = a[k + 1]
      BY <1>1, <1>4, <2>1, <3>1
    <3>3. (v \o b)[k] = v[k] /\ v[k] = a[k + 1]
      BY <1>2, <1>3, <2>1, <3>1
    <3> QED BY <3>2, <3>3
  <2>4. CASE k >= Len(a)
    <3>1. (k + 1) - Len(a) = k - Len(v)
      BY <1>2, <2>4
    <3>2. u[k + 1] = b[(k + 1) - Len(a)] /\ (v \o b)[k] = b[k - Len(v)]
      BY <1>1, <1>2, <1>3, <2>1, <2>4
    <3>3. Without(u, i)[k] = u[k + 1]
      BY <1>4, <2>4
    <3> QED BY <3>1, <3>2, <3>3
  <2>5. k < i \/ (k >= i /\ k < Len(a)) \/ k >= Len(a)
    BY <1>1
  <2> QED BY <2>2, <2>3, <2>4, <2>5
<1>6. Without(u, i) = v \o b
  <2>1. Len(Without(u, i)) = Len(v \o b)
    BY <1>1, <1>2, <1>3, <1>4
  <2>2. Len(Without(u, i)) = Len(u) - 1
    BY <1>4
  <2> QED BY <1>3, <1>4, <1>5, <2>1, <2>2, SameSequence
<1> QED BY <1>6 DEF u, v

LEMMA WithoutInSecond ==
  ASSUME NEW S, NEW a \in Seq(S), NEW b \in Seq(S), NEW i \in 1 .. Len(b)
  PROVE  /\ Len(a) + i \in 1 .. Len(a \o b) /\ (a \o b)[Len(a) + i] = b[i]
         /\ Without(a \o b, Len(a) + i) = a \o Without(b, i)
<1> DEFINE u == a \o b
           v == Without(b, i)
           j == Len(a) + i
<1>1. /\ u \in Seq(S) /\ Len(u) = Len(a) + Len(b)
      /\ \A k \in 1 .. Len(a) + Len(b) :
           u[k] = IF k <= Len(a) THEN a[k] ELSE b[k - Len(a)]
  BY ConcatProperties
<1>2. /\ v \in Seq(S) /\ Len(v) = Len(b) - 1
      /\ \A k \in 1 .. Len(b) - 1 : v[k] = IF k < i THEN b[k] ELSE b[k + 1]
  BY WithoutIs
<1>3. j \in 1 .. Len(a) + Len(b) /\ j - Len(a) = i /\ ~(j <= Len(a))
  OBVIOUS
<1> HIDE DEF u, v, j
<1>4. u[j] = b[i]
  BY <1>1, <1>3
<1>5. /\ a \o v \in Seq(S) /\ Len(a \o v) = Len(a) + Len(v)
      /\ \A k \in 1 .. Len(a) + Len(v) :
           (a \o v)[k] = IF k <= Len(a) THEN a[k] ELSE v[k - Len(a)]
  BY <1>2, ConcatProperties
<1>6. /\ Without(u, j) \in Seq(S) /\ Len(Without(u, j)) = Len(u) - 1
      /\ \A k \in 1 .. Len(u) - 1 :
           Without(u, j)[k] = IF k < j THEN u[k] ELSE u[k + 1]
  BY <1>1, <1>3, WithoutIs
<1>7. ASSUME NEW k \in 1 .. Len(u) - 1 PROVE Without(u, j)[k] = (a \o v)[k]
  <2>1. k \in 1 .. Len(a) + Len(v) /\ k \in 1 .. Len(a) + Len(b)
        /\ k + 1 \in 1 .. Len(a) + Len(b)
    BY <1>1, <1>2
  <2>2. CASE k <= Len(a)
    <3>1. k < j
      BY <1>3, <2>2
    <3>2. Without(u, j)[k] = u[k] /\ u[k] = a[k] /\ (a \o v)[k] = a[k]
      BY <1>1, <1>5, <1>6, <2>1, <2>2, <3>1
    <3> QED BY <3>2
  <2>3. CASE k > Len(a)
    <3>1. k - Len(a) \in 1 .. Len(b) - 1 /\ (k + 1) - Len(a) = (k - Len(a)) + 1
          /\ (k - Len(a) < i <=> k < j)
      BY <1>1, <1>2, <1>3, <2>3
    <3>2. v[k - Len(a)] = IF k < j THEN b[k - Len(a)] ELSE b[(k - Len(a)) + 1]
      BY <1>2, <3>1
    <3>3. (a \o v)[k] = v[k - Len(a)]
      BY <1>5, <2>1, <2>3
    <3>4. u[k] = b[k - Len(a)] /\ u[k + 1] = b[(k - Len(a)) + 1]
      BY <1>1, <2>1, <2>3, <3>1
    <3> QED BY <1>6, <3>2, <3>3, <3>4
  <2>4. k <= Len(a) \/ k > Len(a)
    BY <1>1
  <2> QED BY <2>2, <2>3, <2>4
<1>8. Without(u, j) = a \o v
  <2>1. Len(Without(u, j)) = Len(a \o v)
    BY <1>1, <1>2, <1>5, <1>6
  <2>2. Len(Without(u, j)) = Len(u) - 1
    BY <1>6
  <2> QED BY <1>5, <1>6, <1>7, <2>1, <2>2, SameSequence
<1> QED BY <1>1, <1>3, <1>4, <1>8 DEF u, v, j

LEMMA WithoutFirst ==
  ASSUME NEW S, NEW s \in Seq(S), s # << >>
  PROVE  Without(s, 1) = Tail(s) /\ 1 \in 1 .. Len(s) /\ Head(s) = s[1]
<1>1. 1 \in 1 .. Len(s) /\ Head(s) = s[1]
  OBVIOUS
<1>2. /\ Tail(s) \in Seq(S) /\ Len(Tail(s)) = Len(s) - 1
      /\ \A k \in 1 .. Len(s) - 1 : Tail(s)[k] = s[k + 1]
  OBVIOUS
<1>3. /\ Without(s, 1) \in Seq(S) /\ Len(Without(s, 1)) = Len(s) - 1
      /\ \A k \in 1 .. Len(s) - 1 : Without(s, 1)[k] = s[k + 1]
  BY <1>1, WithoutIs
<1>4. Without(s, 1) = Tail(s)
  BY <1>2, <1>3
<1> QED BY <1>1, <1>4

-----------------------------------------------------------------------------
(***************************************************************************)
(* The queues of TaskFifo: f[c] holds the tasks that wait on CPU c.  Every *)
(* task waits at most once, and on its own CPU, home[t].                   *)
(***************************************************************************)
NoDuplicates(q) == \A i, j \in DOMAIN q : q[i] = q[j] => i = j

Queues(f, Cpus, Tasks, home) ==
  /\ f \in [Cpus -> Seq(Tasks)]
  /\ \A c \in Cpus : NoDuplicates(f[c])
  /\ \A c \in Cpus : \A t \in Members(f[c]) : c = home[t]

Queued(f, t) == \E c \in DOMAIN f : t \in Members(f[c])

Appended(f, c, t) == [f EXCEPT ![c] = Append(@, t)]
Taken(f, c) == [f EXCEPT ![c] = Tail(@)]
IsNext(f, c, t) == f[c] # << >> /\ t = Head(f[c])

LEMMA QueuesStart ==
  ASSUME NEW f, NEW Cpus, NEW Tasks, NEW home, f = [c \in Cpus |-> << >>]
  PROVE  Queues(f, Cpus, Tasks, home) /\ \A t : ~Queued(f, t)
  BY DEF Queues, Queued, Members, NoDuplicates

LEMMA MembersOfAppend ==
  ASSUME NEW S, NEW q \in Seq(S), NEW e \in S
  PROVE  /\ Append(q, e) \in Seq(S)
         /\ Members(Append(q, e)) = Members(q) \cup {e}
         /\ NoDuplicates(q) /\ e \notin Members(q) => NoDuplicates(Append(q, e))
<1>1. /\ DOMAIN Append(q, e) = 1 .. Len(q) + 1
      /\ Append(q, e)[Len(q) + 1] = e
      /\ \A i \in 1 .. Len(q) : Append(q, e)[i] = q[i]
      /\ Append(q, e) \in Seq(S)
  OBVIOUS
<1>2. DOMAIN q = 1 .. Len(q) /\ Len(q) \in Nat
  OBVIOUS
<1>3. \A i \in 1 .. Len(q) + 1 : i \in 1 .. Len(q) \/ i = Len(q) + 1
  BY <1>2
<1>4. 1 .. Len(q) \subseteq 1 .. Len(q) + 1 /\ Len(q) + 1 \in 1 .. Len(q) + 1
  BY <1>2
<1>5. Members(Append(q, e)) = Members(q) \cup {e}
  BY <1>1, <1>2, <1>3, <1>4 DEF Members
<1>6. ASSUME NoDuplicates(q), e \notin Members(q) PROVE NoDuplicates(Append(q, e))
  BY <1>1, <1>2, <1>3, <1>6 DEF Members, NoDuplicates
<1> QED BY <1>1, <1>5, <1>6

LEMMA MembersOfTail ==
  ASSUME NEW S, NEW q \in Seq(S), q # << >>
  PROVE  /\ Tail(q) \in Seq(S) /\ Head(q) \in S
         /\ Members(q) = Members(Tail(q)) \cup {Head(q)}
         /\ NoDuplicates(q)
              => NoDuplicates(Tail(q)) /\ Head(q) \notin Members(Tail(q))
<1>1. /\ \A i \in 1 .. Len(Tail(q)) : /\ i + 1 \in 1 .. Len(q)
                                     /\ Tail(q)[i] = q[i + 1]
      /\ DOMAIN Tail(q) = 1 .. Len(Tail(q))
      /\ DOMAIN q = 1 .. Len(q)
      /\ 1 \in 1 .. Len(q) /\ Head(q) = q[1]
      /\ Tail(q) \in Seq(S) /\ Head(q) \in S
  OBVIOUS
<1>2. \A i, j \in 1 .. Len(Tail(q)) : i + 1 # 1 /\ (i + 1 = j + 1 => i = j)
  OBVIOUS
<1>3. ASSUME NEW i \in 1 .. Len(q), i # 1 PROVE q[i] \in Members(Tail(q))
  <2>1. i - 1 \in 1 .. Len(Tail(q)) /\ Tail(q)[i - 1] = q[i]
    BY <1>3
  <2> QED BY <1>1, <2>1 DEF Members
<1>4. Members(q) = Members(Tail(q)) \cup {Head(q)}
  BY <1>1, <1>3 DEF Members
<1>5. NoDuplicates(q) => NoDuplicates(Tail(q))
  BY <1>1, <1>2 DEF NoDuplicates
<1>6. NoDuplicates(q) => Head(q) \notin Members(Tail(q))
  BY <1>1, <1>2 DEF NoDuplicates, Members
<1> QED BY <1>1, <1>4, <1>5, <1>6

\* What registering a task that does not wait does to the queues.
LEMMA QueuesAppend ==
  ASSUME NEW f, NEW Cpus, NEW Tasks, NEW home, NEW t,
         Queues(f, Cpus, Tasks, home), t \in Tasks, home[t] \in Cpus,
         ~Queued(f, t)
  PROVE  /\ Queues(Appended(f, home[t], t), Cpus, Tasks, home)
         /\ \A u : Queued(Appended(f, home[t], t), u) <=> Queued(f, u) \/ u = t
<1> DEFINE c == home[t]
           g == Appended(f, c, t)
<1>1. f[c] \in Seq(Tasks) /\ NoDuplicates(f[c]) /\ DOMAIN f = Cpus
      /\ t \notin Members(f[c])
  BY DEF Queues, Queued
<1>2. /\ g \in [Cpus -> Seq(Tasks)] /\ DOMAIN g = Cpus
      /\ g[c] = Append(f[c], t)
      /\ \A d \in Cpus : d # c => g[d] = f[d]
  BY <1>1 DEF Queues, Appended
<1>3. Members(g[c]) = Members(f[c]) \cup {t} /\ NoDuplicates(g[c])
  BY <1>1, <1>2, MembersOfAppend
<1> HIDE DEF g
<1>4. Queues(g, Cpus, Tasks, home)
  BY <1>2, <1>3 DEF Queues
<1>5. \A u : Queued(g, u) <=> Queued(f, u) \/ u = t
  BY <1>1, <1>2, <1>3 DEF Queued
<1> QED BY <1>4, <1>5 DEF g

\* What taking the task that waits longest does to them.
LEMMA QueuesTail ==
  ASSUME NEW f, NEW Cpus, NEW Tasks, NEW home, NEW c, NEW t,
         Queues(f, Cpus, Tasks, home), c \in Cpus, IsNext(f, c, t)
  PROVE  /\ Queues(Taken(f, c), Cpus, Tasks, home)
         /\ t \in Tasks /\ home[t] = c /\ Queued(f, t)
         /\ \A u : Queued(Taken(f, c), u) <=> Queued(f, u) /\ u # t
<1> DEFINE g == Taken(f, c)
<1>1. /\ f[c] \in Seq(Tasks) /\ NoDuplicates(f[c]) /\ DOMAIN f = Cpus
      /\ f[c] # << >> /\ t = Head(f[c])
  BY DEF Queues, IsNext
<1>2. /\ t \in Tasks /\ Members(f[c]) = Members(Tail(f[c])) \cup {t}
      /\ NoDuplicates(Tail(f[c])) /\ t \notin Members(Tail(f[c]))
      /\ Tail(f[c]) \in Seq(Tasks)
  BY <1>1, MembersOfTail
<1>3. /\ g \in [Cpus -> Seq(Tasks)] /\ DOMAIN g = Cpus
      /\ g[c] = Tail(f[c])
      /\ \A d \in Cpus : d # c => g[d] = f[d]
  BY <1>1, <1>2 DEF Queues, Taken
<1> HIDE DEF g
<1>4. home[t] = c /\ Queued(f, t)
  BY <1>1, <1>2 DEF Queues, Queued
<1>5. Queues(g, Cpus, Tasks, home)
  BY <1>2, <1>3 DEF Queues
<1>6. \A d \in Cpus : t \notin Members(g[d])
  BY <1>2, <1>3, <1>4 DEF Queues
<1>7. \A u : Queued(g, u) <=> Queued(f, u) /\ u # t
  BY <1>1, <1>2, <1>3, <1>6 DEF Queued
<1> QED BY <1>2, <1>4, <1>5, <1>7 DEF g

\* Registering: a task that waits already is left where it is.
Joins(f, g, c, t) == \/ Queued(f, t) /\ g = f
                     \/ ~Queued(f, t) /\ g = Appended(f, c, t)

LEMMA QueuesJoin ==
  ASSUME NEW f, NEW g, NEW Cpus, NEW Tasks, NEW home, NEW t,
         Queues(f, Cpus, Tasks, home), t \in Tasks, home[t] \in Cpus,
         Joins(f, g, home[t], t)
  PROVE  /\ Queues(g, Cpus, Tasks, home)
         /\ \A u : Queued(g, u) <=> Queued(f, u) \/ u = t
<1>1. CASE Queued(f, t) /\ g = f
  BY <1>1
<1>2. CASE ~Queued(f, t) /\ g = Appended(f, home[t], t)
  BY <1>2, QueuesAppend
<1> QED BY <1>1, <1>2 DEF Joins

\* Taking a task out at any place.
LEMMA MembersOfWithout ==
  ASSUME NEW S, NEW q \in Seq(S), NoDuplicates(q), NEW i \in 1 .. Len(q)
  PROVE  /\ Without(q, i) \in Seq(S) /\ NoDuplicates(Without(q, i))
         /\ Members(Without(q, i)) = Members(q) \ {q[i]}
<1>1. PICK u : u = Without(q, i)
  OBVIOUS
<1>2. /\ u \in Seq(S) /\ Len(u) = Len(q) - 1 /\ Len(q) \in Nat
      /\ \A k \in 1 .. Len(q) - 1 : u[k] = IF k < i THEN q[k] ELSE q[k + 1]
      /\ DOMAIN q = 1 .. Len(q) /\ DOMAIN u = 1 .. Len(u)
  BY <1>1, WithoutIs
<1>3. \A j, k \in 1 .. Len(q) : q[j] = q[k] => j = k
  BY <1>2 DEF NoDuplicates
<1>4. NoDuplicates(u)
  <2>1. ASSUME NEW j \in 1 .. Len(u), NEW k \in 1 .. Len(u), u[j] = u[k]
        PROVE  j = k
    <3>1. /\ j \in 1 .. Len(q) - 1 /\ k \in 1 .. Len(q) - 1
          /\ j \in 1 .. Len(q) /\ k \in 1 .. Len(q)
          /\ j + 1 \in 1 .. Len(q) /\ k + 1 \in 1 .. Len(q)
      BY <1>2
    <3>2. (IF j < i THEN q[j] ELSE q[j + 1]) = (IF k < i THEN q[k] ELSE q[k + 1])
      BY <1>2, <2>1, <3>1
    <3> QED BY <1>3, <3>1, <3>2
  <2> QED BY <1>2, <2>1 DEF NoDuplicates
<1>5. ASSUME NEW k \in 1 .. Len(u) PROVE u[k] \in Members(q) \ {q[i]}
  <2>1. k \in 1 .. Len(q) - 1 /\ k \in 1 .. Len(q) /\ k + 1 \in 1 .. Len(q)
    BY <1>2
  <2>2. u[k] = IF k < i THEN q[k] ELSE q[k + 1]
    BY <1>2, <2>1
  <2>3. ~(k < i) => k + 1 # i
    BY <2>1
  <2>4. k < i => k # i
    BY <2>1
  <2>5. q[k] \in Members(q) /\ q[k + 1] \in Members(q)
    BY <1>2, <2>1 DEF Members
  <2>6. CASE k < i
    BY <1>3, <2>1, <2>2, <2>4, <2>5, <2>6
  <2>7. CASE ~(k < i)
    BY <1>3, <2>1, <2>2, <2>3, <2>5, <2>7
  <2> QED BY <2>6, <2>7
<1>6. ASSUME NEW k \in 1 .. Len(q), k # i PROVE q[k] \in Members(u)
  <2>1. CASE k < i
    <3>1. k \in 1 .. Len(q) - 1 /\ k \in DOMAIN u
      BY <1>2, <2>1
    <3>2. u[k] = q[k]
      BY <1>2, <2>1, <3>1
    <3> QED BY <3>1, <3>2 DEF Members
  <2>2. CASE ~(k < i)
    <3>1. k - 1 \in 1 .. Len(q) - 1 /\ k - 1 \in DOMAIN u /\ ~(k - 1 < i)
          /\ (k - 1) + 1 = k
      BY <1>2, <1>6, <2>2
    <3>2. u[k - 1] = q[k]
      BY <1>2, <3>1
    <3> QED BY <3>1, <3>2 DEF Members
  <2> QED BY <2>1, <2>2
<1>7. Members(u) \subseteq Members(q) \ {q[i]}
  BY <1>2, <1>5 DEF Members
<1>8. Members(q) \ {q[i]} \subseteq Members(u)
  BY <1>2, <1>6 DEF Members
<1> QED BY <1>1, <1>2, <1>4, <1>7, <1>8

\* Removing: a task that does not wait is left alone.
Leaves(f, g, t) ==
  \/ ~Queued(f, t) /\ g = f
  \/ \E c \in DOMAIN f : \E i \in DOMAIN f[c] :
       f[c][i] = t /\ g = [f EXCEPT ![c] = Without(@, i)]

LEMMA QueuesLeave ==
  ASSUME NEW f, NEW g, NEW Cpus, NEW Tasks, NEW home, NEW t,
         Queues(f, Cpus, Tasks, home), Leaves(f, g, t)
  PROVE  /\ Queues(g, Cpus, Tasks, home)
         /\ ~Queued(g, t)
         /\ \A u : u = t \/ (Queued(g, u) <=> Queued(f, u))
<1>1. CASE ~Queued(f, t) /\ g = f
  BY <1>1
<1>2. ASSUME NEW c \in DOMAIN f, NEW i \in DOMAIN f[c],
             f[c][i] = t, g = [f EXCEPT ![c] = Without(@, i)]
      PROVE  /\ Queues(g, Cpus, Tasks, home)
             /\ ~Queued(g, t)
             /\ \A u : u = t \/ (Queued(g, u) <=> Queued(f, u))
  <2>1. /\ f \in [Cpus -> Seq(Tasks)] /\ DOMAIN f = Cpus /\ c \in Cpus
        /\ f[c] \in Seq(Tasks) /\ NoDuplicates(f[c]) /\ i \in 1 .. Len(f[c])
    BY <1>2 DEF Queues
  <2>2. PICK q : q = Without(f[c], i)
    OBVIOUS
  <2>3. /\ q \in Seq(Tasks) /\ NoDuplicates(q)
        /\ Members(q) = Members(f[c]) \ {t} /\ t \in Members(f[c])
    <3>1. t \in Members(f[c])
      BY <1>2 DEF Members
    <3> QED BY <1>2, <2>1, <2>2, <3>1, MembersOfWithout
  <2>4. /\ g \in [Cpus -> Seq(Tasks)] /\ DOMAIN g = Cpus /\ g[c] = q
        /\ \A d \in Cpus : d # c => g[d] = f[d]
    BY <1>2, <2>1, <2>2, <2>3
  <2>5. Queues(g, Cpus, Tasks, home)
    BY <2>1, <2>3, <2>4 DEF Queues
  <2>6. \A d \in Cpus : t \notin Members(g[d])
    BY <2>1, <2>3, <2>4 DEF Queues
  <2>7. ~Queued(g, t)
    BY <2>1, <2>4, <2>6 DEF Queued
  <2>8. ASSUME NEW u, u # t PROVE Queued(g, u) <=> Queued(f, u)
    BY <2>1, <2>3, <2>4, <2>8 DEF Queued
  <2> QED BY <2>5, <2>7, <2>8
<1> QED BY <1>1, <1>2 DEF Leaves

-----------------------------------------------------------------------------
(***************************************************************************)
(* What the links of a list lead to, and what its nodes hold.              *)
(***************************************************************************)
\* The nodes of a list are those that the guard and they themselves lead to.
LEMMA FollowersAreMembers ==
  ASSUME NEW next, NEW null, NEW n, NEW S, NEW s \in Seq(S),
         IsChain(next, null, n, s)
  PROVE  {next[m] : m \in {n} \cup Members(s)} \ {null} = Members(s)
<1>1. DOMAIN s = 1 .. Len(s) /\ Len(s) \in Nat
  OBVIOUS
<1>2. ASSUME NEW m \in {n} \cup Members(s), next[m] # null
      PROVE  next[m] \in Members(s)
  <2>1. PICK i \in Nat : i <= Len(s) /\ m = NodeAt(n, s, i)
    <3>1. CASE m = n
      BY <1>1, <3>1 DEF NodeAt
    <3>2. CASE m \in Members(s)
      <4>1. PICK i \in 1 .. Len(s) : m = s[i]
        BY <1>1, <3>2 DEF Members
      <4> QED BY <4>1 DEF NodeAt
    <3> QED BY <3>1, <3>2
  <2>2. i # Len(s)
    BY <1>2, <2>1 DEF IsChain, End
  <2>3. i \in 0 .. Len(s) - 1 /\ i + 1 \in 1 .. Len(s)
    <3>1. \A j, l \in Nat : j <= l /\ j # l => j \in 0 .. l - 1 /\ j + 1 \in 1 .. l
      OBVIOUS
    <3>2. i \in Nat /\ Len(s) \in Nat /\ i <= Len(s)
      BY <1>1, <2>1
    <3> QED BY ONLY <2>2, <3>1, <3>2
  <2>4. next[m] = s[i + 1]
    BY <2>1, <2>3 DEF IsChain
  <2> QED BY <1>1, <2>3, <2>4 DEF Members
<1>3. ASSUME NEW c \in Members(s)
      PROVE  c # null /\ \E m \in {n} \cup Members(s) : c = next[m]
  <2>1. PICK i \in 1 .. Len(s) : c = s[i]
    BY <1>1 DEF Members
  <2>2. i - 1 \in 0 .. Len(s) - 1 /\ (i - 1) + 1 = i
    BY <1>1
  <2>3. next[NodeAt(n, s, i - 1)] = s[(i - 1) + 1] /\ s[i] # null
    BY <2>2 DEF IsChain
  <2>4. NodeAt(n, s, i - 1) \in {n} \cup Members(s)
    BY <1>1, <2>2 DEF NodeAt, Members
  <2> QED BY <2>1, <2>2, <2>3, <2>4
<1> QED BY <1>2, <1>3

AllHold(s, data, V) == \A m \in Members(s) : data[m] \in V

Content(s, data) == [k \in DOMAIN s |-> data[s[k]]]

LEMMA ContentIs ==
  ASSUME NEW S, NEW V, NEW data, NEW s \in Seq(S),
         AllHold(s, data, V)
  PROVE  /\ Content(s, data) \in Seq(V) /\ Len(Content(s, data)) = Len(s)
         /\ \A k \in 1 .. Len(s) : Content(s, data)[k] = data[s[k]]
<1>1. DOMAIN s = 1 .. Len(s) /\ Len(s) \in Nat
  OBVIOUS
<1>2. \A k \in 1 .. Len(s) : data[s[k]] \in V
  BY <1>1 DEF Members, AllHold
<1> QED BY <1>1, <1>2 DEF Content

\* It depends on the nodes of the list only.
LEMMA ContentStays ==
  ASSUME NEW S, NEW data, NEW data2, NEW s \in Seq(S),
         \A c \in Members(s) : data2[c] = data[c]
  PROVE  Content(s, data2) = Content(s, data)
  BY DEF Content, Members

LEMMA ContentOfAppend ==
  ASSUME NEW S, NEW V, NEW data, NEW s \in Seq(S), NEW c \in S,
         AllHold(s, data, V), data[c] \in V
  PROVE  Content(Append(s, c), data) = Append(Content(s, data), data[c])
<1> DEFINE u == Append(s, c)
           p == Content(s, data)
           q == Content(u, data)
<1>1. /\ u \in Seq(S) /\ Len(u) = Len(s) + 1 /\ u[Len(s) + 1] = c
      /\ \A k \in 1 .. Len(s) : u[k] = s[k]
  OBVIOUS
<1>2. AllHold(u, data, V)
  BY MembersOfAppend DEF AllHold
<1> HIDE DEF u
<1>3. p \in Seq(V) /\ Len(p) = Len(s) /\ \A k \in 1 .. Len(s) : p[k] = data[s[k]]
  BY ContentIs
<1>4. q \in Seq(V) /\ Len(q) = Len(u) /\ \A k \in 1 .. Len(u) : q[k] = data[u[k]]
  BY <1>1, <1>2, ContentIs
<1> HIDE DEF p, q
<1>5. /\ Append(p, data[c]) \in Seq(V) /\ Len(Append(p, data[c])) = Len(s) + 1
      /\ Append(p, data[c])[Len(s) + 1] = data[c]
      /\ \A k \in 1 .. Len(s) : Append(p, data[c])[k] = p[k]
  BY <1>3
<1>6. ASSUME NEW k \in 1 .. Len(q) PROVE q[k] = Append(p, data[c])[k]
  <2>1. k \in 1 .. Len(s) \/ k = Len(s) + 1
    BY <1>1, <1>4
  <2>2. CASE k \in 1 .. Len(s)
    BY <1>1, <1>3, <1>4, <1>5, <2>2
  <2>3. CASE k = Len(s) + 1
    BY <1>1, <1>4, <1>5, <2>3
  <2> QED BY <2>1, <2>2, <2>3
<1>7. q = Append(p, data[c])
  BY <1>1, <1>4, <1>5, <1>6, SameSequence
<1> QED BY <1>7 DEF p, q, u

LEMMA ContentOfTail ==
  ASSUME NEW S, NEW V, NEW data, NEW s \in Seq(S), s # << >>,
         AllHold(s, data, V)
  PROVE  /\ Content(Tail(s), data) = Tail(Content(s, data))
         /\ Content(s, data) # << >>
         /\ Head(Content(s, data)) = data[Head(s)]
<1> DEFINE u == Tail(s)
           p == Content(s, data)
           q == Content(u, data)
<1>1. /\ u \in Seq(S) /\ Len(u) = Len(s) - 1 /\ Head(s) = s[1] /\ Len(s) \in Nat \ {0}
      /\ \A k \in 1 .. Len(s) - 1 : u[k] = s[k + 1]
  OBVIOUS
<1>2. AllHold(u, data, V)
  BY MembersOfTail DEF AllHold
<1> HIDE DEF u
<1>3. p \in Seq(V) /\ Len(p) = Len(s) /\ \A k \in 1 .. Len(s) : p[k] = data[s[k]]
  BY ContentIs
<1>4. q \in Seq(V) /\ Len(q) = Len(u) /\ \A k \in 1 .. Len(u) : q[k] = data[u[k]]
  BY <1>1, <1>2, ContentIs
<1> HIDE DEF p, q
<1>5. /\ p # << >> /\ Head(p) = p[1] /\ 1 \in 1 .. Len(s)
      /\ Tail(p) \in Seq(V) /\ Len(Tail(p)) = Len(s) - 1
      /\ \A k \in 1 .. Len(s) - 1 : Tail(p)[k] = p[k + 1]
  BY <1>1, <1>3
<1>6. ASSUME NEW k \in 1 .. Len(q) PROVE q[k] = Tail(p)[k]
  <2>1. k \in 1 .. Len(s) - 1 /\ k + 1 \in 1 .. Len(s)
    BY <1>1, <1>4
  <2> QED BY <1>1, <1>3, <1>4, <1>5, <2>1
<1>7. q = Tail(p)
  BY <1>1, <1>4, <1>5, <1>6, SameSequence
<1>8. Head(p) = data[Head(s)]
  BY <1>1, <1>3, <1>5
<1> QED BY <1>5, <1>7, <1>8 DEF p, q, u
=============================================================================
