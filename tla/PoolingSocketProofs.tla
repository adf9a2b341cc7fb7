------------------------ MODULE PoolingSocketProofs ------------------------
(***************************************************************************)
(* Theorems about PoolingSocket, for any tables, depth of the buffers,     *)
(* threads, hosts and answers of the sockets: packets are conserved, every *)
(* packet that is put back finds room, the tables agree with select(), and *)
(* the table of UDP clients is never full when Poll() receives.            *)
(***************************************************************************)
EXTENDS PoolingSocket, ListLemmas

KindOf == [p \in Packets |-> p[1]]

\* The places a packet can be in.
With(a, p) == mine[a][p[1]] = p
Somewhere(p) == \/ Queued(buffered, p) \/ Queued(reserved, p)
                \/ hand = p \/ \E a \in Apps : With(a, p)

\* It is in one of them at most.
InOnePlace(p) ==
  /\ ~(Queued(buffered, p) /\ Queued(reserved, p))
  /\ hand = p => ~Queued(buffered, p) /\ ~Queued(reserved, p)
  /\ \A a \in Apps : With(a, p) =>
       /\ ~Queued(buffered, p) /\ ~Queued(reserved, p) /\ hand # p
       /\ \A b \in Apps : With(b, p) => b = a

\* What is anywhere was allocated, and no packet for receiving disappears.
Numbered(p) ==
  /\ Somewhere(p) => p[2] <= made[p[1]]
  /\ p[1] = "rx" /\ p[2] <= made["rx"] => Somewhere(p)

\* The packets of kind k that were not lost.
Live(k) == {p \in Packets : p[1] = k /\ Somewhere(p)}

\* Each kind has at most as many packets as a buffer has room for, so what is
\* not in a buffer fits into it.
FewPackets == \A k \in Kinds : Cardinality(Live(k)) <= Depth - 1

\* The packet Poll() works on, by where it is.
HandInv ==
  /\ pc \in {"data", "from", "enter"} => hand \in Packets /\ hand[1] = "rx"
  /\ pc \in {"send", "write"} => hand \in Packets /\ hand[1] = "tx"
  /\ pc \in {"accept", "read", "recv", "pop"} => hand = Null

KindsAreRight ==
  /\ Queues(buffered, Kinds, Packets, KindOf)
  /\ Queues(reserved, Kinds, Packets, KindOf)
  /\ \A a \in Apps, k \in Kinds : mine[a][k] # Null => mine[a][k][1] = k

PacketInv ==
  /\ KindsAreRight /\ HandInv /\ FewPackets /\ ~failed
  /\ \A p \in Packets : InOnePlace(p) /\ Numbered(p)

\* The slot Poll() works on.
SlotInv ==
  /\ pc = "read" => slot <= TcpMax
  /\ pc = "data" => slot \in TcpSlots
  /\ pc \in {"from", "enter"} =>
       slot \in UdpSlots /\ ("register" \notin Usage => ~udp[slot].enabled)

\* While no address is registered by hand, senders are entered one at a time,
\* so that their times to live differ and the oldest is cleared before all slots
\* are taken.
TtlInv ==
  /\ \A i \in UdpSlots : udp[i].enabled => udp[i].ttl >= 1
  /\ "register" \notin Usage =>
       /\ \A a \in Apps : chosen[a] = -1
       /\ \A i \in UdpSlots : udp[i].enabled => udp[i].ttl < UdpMax
       /\ \A i, j \in UdpSlots :
            udp[i].enabled /\ udp[j].enabled /\ udp[i].ttl = udp[j].ttl => i = j

Numbers == {-1} \cup TcpSlots \cup {Offset + i : i \in UdpSlots}

\* The type invariant without the buffers, for which PacketInv answers.
Types ==
  /\ made \in [Kinds -> 0 .. MaxPackets]
  /\ adr \in [Packets -> Numbers]
  /\ tcp \in [TcpSlots -> Peers \cup {Null}] /\ fds \subseteq Peers
  /\ udp \in [UdpSlots -> [addr : Peers \cup {Null}, enabled : BOOLEAN,
                           ttl : 0 .. kDefaultTtlValue]]
  /\ pc \in {"accept", "read", "data", "recv", "from", "enter", "pop", "send",
             "write"}
  /\ slot \in 0 .. TcpMax + UdpMax
  /\ hand \in Packets \cup {Null} /\ residue \in Int
  /\ known \in [Apps -> Numbers]
  /\ mine \in [Apps -> [Kinds -> Packets \cup {Null}]]
  /\ chosen \in [Apps -> {-1} \cup UdpSlots]
  /\ failed \in BOOLEAN

\* The inductive invariant.
SocketInv == Types /\ PacketInv /\ SlotInv /\ TtlInv /\ WatchedAreTheClients

-----------------------------------------------------------------------------
LEMMA SocketFacts ==
  /\ TcpMax \in Nat /\ UdpMax \in Nat /\ UdpMax > 0 /\ Offset \in Nat
  /\ Depth \in Nat /\ Depth > 0 /\ Length \in Nat /\ WriteResults \subseteq Int
  /\ MaxPackets = 2 * (Depth - 1) /\ MaxPackets \in Nat
  /\ Null \notin Peers /\ Null \notin Packets
  /\ KindOf \in [Packets -> Kinds] /\ \A p \in Packets : KindOf[p] = p[1]
  /\ \A p \in Packets : /\ p[1] \in Kinds /\ p[2] \in 1 .. MaxPackets
                        /\ p = <<p[1], p[2]>>
  /\ \A k \in Kinds, j \in 1 .. MaxPackets : <<k, j>> \in Packets
  /\ Kinds = {"tx", "rx"}
  BY PoolingSocketAssumption DEF MaxPackets, Packets, KindOf, Kinds

LEMMA PacketsAreFinite == IsFiniteSet(Packets)
<1>0. 1 \in Int /\ MaxPackets \in Int
  BY SocketFacts
<1>1. IsFiniteSet(1 .. MaxPackets)
  BY <1>0, FS_Interval
<1>2. IsFiniteSet({"tx"})
  BY FS_Singleton
<1>3. IsFiniteSet({"tx"} \cup {"rx"})
  BY <1>2, FS_AddElement
<1>4. {"tx", "rx"} = {"tx"} \cup {"rx"}
  OBVIOUS
<1>5. IsFiniteSet({"tx", "rx"})
  BY <1>3, <1>4
<1>6. IsFiniteSet({"tx", "rx"} \X (1 .. MaxPackets))
  BY <1>1, <1>5, FS_Product
<1> QED BY <1>6 DEF Packets

\* A sequence without duplicates has as many members as places.
LEMMA LenIsBounded ==
  ASSUME NEW S, NEW s \in Seq(S), NoDuplicates(s),
         NEW L, IsFiniteSet(L), Members(s) \subseteq L
  PROVE  Len(s) <= Cardinality(L)
<1>0. Len(s) \in Nat /\ Cardinality(L) \in Nat
  BY FS_CardinalityType
<1>1. SUFFICES ASSUME Len(s) > Cardinality(L) PROVE FALSE
  BY <1>0
<1>2. IsFiniteSet(1 .. Len(s)) /\ Cardinality(1 .. Len(s)) = Len(s)
  <2>1. 1 \in Int /\ Len(s) \in Int
    BY <1>0
  <2>2. /\ IsFiniteSet(1 .. Len(s))
        /\ Cardinality(1 .. Len(s)) = IF 1 > Len(s) THEN 0 ELSE Len(s) - 1 + 1
    BY <2>1, FS_Interval
  <2> QED BY <1>0, <2>2
<1>3. s \in [1 .. Len(s) -> L]
  BY DEF Members
<1>4. PICK i, j \in 1 .. Len(s) : i # j /\ s[i] = s[j]
  <2> HIDE DEF Members
  <2> QED BY <1>1, <1>2, <1>3, FS_PigeonHole
<1> QED BY <1>4 DEF NoDuplicates

\* What is somewhere but not in a buffer fits into it.
LEMMA HasRoom ==
  ASSUME PacketInv, NEW f, f = buffered \/ f = reserved, NEW x \in Packets,
         Somewhere(x), ~Queued(f, x)
  PROVE  Room(f[x[1]])
<1> DEFINE k == x[1]
           s == f[k]
<1>1. k \in Kinds /\ Depth \in Nat
  BY SocketFacts
<1>2. /\ f \in [Kinds -> Seq(Packets)] /\ NoDuplicates(s)
      /\ \A p \in Members(s) : k = KindOf[p]
  BY <1>1 DEF PacketInv, KindsAreRight, Queues
<1>3. /\ s \in Seq(Packets) /\ Members(s) \subseteq Packets
      /\ \A p \in Members(s) : Queued(f, p)
  BY <1>1, <1>2, MembersOf DEF Queued
<1>4. x \notin Members(s)
  BY <1>3
<1>5. Members(s) \cup {x} \subseteq Live(k)
  BY <1>2, <1>3, SocketFacts DEF Live, Somewhere
<1>6. IsFiniteSet(Live(k)) /\ Cardinality(Live(k)) <= Depth - 1
  BY <1>1, PacketsAreFinite, FS_Subset DEF Live, PacketInv, FewPackets
<1>7. Append(s, x) \in Seq(Packets) /\ NoDuplicates(Append(s, x))
      /\ Members(Append(s, x)) = Members(s) \cup {x}
  BY <1>2, <1>3, <1>4, MembersOfAppend
<1>8. Len(Append(s, x)) <= Cardinality(Live(k))
  BY <1>5, <1>6, <1>7, LenIsBounded
<1>9. Len(Append(s, x)) = Len(s) + 1 /\ Len(s) \in Nat
  BY <1>3
<1>10. Cardinality(Live(k)) \in Nat
  BY <1>6, FS_CardinalityType
<1> QED BY <1>1, <1>6, <1>8, <1>9, <1>10 DEF Room

\* Every buffer keeps within its bounds.
LEMMA BuffersFit ==
  ASSUME PacketInv
  PROVE  /\ buffered \in [Kinds -> Seq(Packets)] /\ reserved \in [Kinds -> Seq(Packets)]
         /\ \A k \in Kinds : Len(buffered[k]) < Depth /\ Len(reserved[k]) < Depth
<1>1. ASSUME NEW f, f = buffered \/ f = reserved, NEW k \in Kinds
      PROVE  f[k] \in Seq(Packets) /\ Len(f[k]) < Depth
  <2>1. /\ f \in [Kinds -> Seq(Packets)] /\ NoDuplicates(f[k])
        /\ \A p \in Members(f[k]) : k = KindOf[p]
    BY <1>1 DEF PacketInv, KindsAreRight, Queues
  <2>2. /\ Members(f[k]) \subseteq Packets
        /\ \A p \in Members(f[k]) : Queued(f, p)
    BY <2>1, MembersOf DEF Queued
  <2>3. Members(f[k]) \subseteq Live(k)
    BY <1>1, <2>1, <2>2, SocketFacts DEF Live, Somewhere
  <2>4. IsFiniteSet(Live(k)) /\ Cardinality(Live(k)) <= Depth - 1
    BY PacketsAreFinite, FS_Subset DEF Live, PacketInv, FewPackets
  <2>5. Len(f[k]) <= Cardinality(Live(k))
    BY <2>1, <2>3, <2>4, LenIsBounded
  <2>6. Cardinality(Live(k)) \in Nat /\ Len(f[k]) \in Nat /\ Depth \in Nat
    BY <2>1, <2>4, FS_CardinalityType, SocketFacts
  <2> QED BY <2>1, <2>4, <2>5, <2>6
<1>2. buffered \in [Kinds -> Seq(Packets)] /\ reserved \in [Kinds -> Seq(Packets)]
  BY DEF PacketInv, KindsAreRight, Queues
<1> QED BY <1>1, <1>2

-----------------------------------------------------------------------------
(***************************************************************************)
(* A step moves one packet at most.                                        *)
(***************************************************************************)
Stays(p) ==
  /\ Queued(buffered', p) <=> Queued(buffered, p)
  /\ Queued(reserved', p) <=> Queued(reserved, p)
  /\ hand' = p <=> hand = p
  /\ \A a \in Apps : With(a, p)' <=> With(a, p)

\* Only a packet for a client that has gone disappears.
Kept(p) == Somewhere(p)' \/ (p[1] = "tx" /\ ~IsValidClientIndex(adr[p]))

NothingIsLost == \A p \in Packets : Somewhere(p) => Kept(p)

LEMMA OneMoves ==
  ASSUME PacketInv, NEW x \in Packets, Somewhere(x),
         KindsAreRight', HandInv', ~failed', made' = made,
         \A p \in Packets : p = x \/ Stays(p),
         InOnePlace(x)', Kept(x)
  PROVE  PacketInv' /\ NothingIsLost
<1>1. \A p \in Packets : p = x \/ (Somewhere(p)' <=> Somewhere(p))
  BY DEF Stays, Somewhere
<1>2. \A p \in Packets : InOnePlace(p)'
  <2> SUFFICES ASSUME NEW p \in Packets, p # x PROVE InOnePlace(p)'
    OBVIOUS
  <2>1. InOnePlace(p) /\ Stays(p)
    BY DEF PacketInv
  <2> QED BY <2>1 DEF InOnePlace, Stays
<1>3. \A p \in Packets : Numbered(p)'
  BY <1>1, SocketFacts DEF PacketInv, Numbered, Kept
<1>4. FewPackets'
  <2> SUFFICES ASSUME NEW k \in Kinds PROVE Cardinality(Live(k)') <= Depth - 1
    BY DEF FewPackets
  <2>1. Live(k)' \subseteq Live(k)
    BY <1>1 DEF Live
  <2>2. IsFiniteSet(Live(k)) /\ Cardinality(Live(k)) <= Depth - 1
    BY PacketsAreFinite, FS_Subset DEF Live, PacketInv, FewPackets
  <2>3. /\ Cardinality(Live(k)') <= Cardinality(Live(k))
        /\ Cardinality(Live(k)') \in Nat /\ Cardinality(Live(k)) \in Nat
    BY <2>1, <2>2, FS_Subset, FS_CardinalityType
  <2> QED BY <2>2, <2>3, SocketFacts
<1>5. NothingIsLost
  BY <1>1 DEF NothingIsLost, Kept
<1> QED BY <1>2, <1>3, <1>4, <1>5 DEF PacketInv

LEMMA NothingMoves ==
  ASSUME PacketInv, UNCHANGED <<buffered, reserved, made, hand, mine, failed>>,
         HandInv'
  PROVE  PacketInv' /\ NothingIsLost
<1>1. \A p \in Packets : Somewhere(p)' <=> Somewhere(p)
  BY DEF Somewhere, With
<1>2. \A p \in Packets : InOnePlace(p)' /\ Numbered(p)'
  BY <1>1 DEF PacketInv, InOnePlace, Numbered, With
<1>3. \A k \in Kinds : Live(k)' = Live(k)
  BY <1>1 DEF Live
<1>4. FewPackets' /\ KindsAreRight'
  BY <1>3 DEF PacketInv, FewPackets, KindsAreRight
<1>5. NothingIsLost
  BY <1>1 DEF NothingIsLost, Kept
<1> QED BY <1>2, <1>4, <1>5 DEF PacketInv

-----------------------------------------------------------------------------
(***************************************************************************)
(* The ways of a packet.                                                   *)
(***************************************************************************)
\* f with x taken out, or put in, is g.
IsWithout(f, x, g) ==
  /\ Queues(g, Kinds, Packets, KindOf) /\ Queued(f, x) /\ ~Queued(g, x)
  /\ \A u \in Packets : u = x \/ (Queued(g, u) <=> Queued(f, u))
IsWith(f, x, g) ==
  /\ Queues(g, Kinds, Packets, KindOf) /\ Queued(g, x)
  /\ \A u \in Packets : u = x \/ (Queued(g, u) <=> Queued(f, u))

LEMMA TakeOut ==
  ASSUME NEW f, Queues(f, Kinds, Packets, KindOf), NEW k \in Kinds, f[k] # << >>,
         NEW x, x = Head(f[k]), NEW g, g = [f EXCEPT ![k] = Tail(@)]
  PROVE  x \in Packets /\ x[1] = k /\ IsWithout(f, x, g)
<1>1. IsNext(f, k, x) /\ g = Taken(f, k)
  BY DEF IsNext, Taken
<1>2. /\ Queues(Taken(f, k), Kinds, Packets, KindOf)
      /\ x \in Packets /\ KindOf[x] = k /\ Queued(f, x)
      /\ \A u : Queued(Taken(f, k), u) <=> Queued(f, u) /\ u # x
  BY <1>1, QueuesTail
<1>3. ~Queued(g, x)
  BY <1>1, <1>2
<1>4. \A u : u = x \/ (Queued(g, u) <=> Queued(f, u))
  BY <1>1, <1>2
<1> QED BY <1>1, <1>2, <1>3, <1>4, SocketFacts DEF IsWithout

LEMMA PutIn ==
  ASSUME NEW f, Queues(f, Kinds, Packets, KindOf), NEW x \in Packets,
         ~Queued(f, x), NEW k, k = x[1], Room(f[k]),
         NEW g, g = [f EXCEPT ![k] = PushTo(@, x)]
  PROVE  IsWith(f, x, g)
<1>1. k \in Kinds /\ KindOf[x] = k /\ DOMAIN f = Kinds
  BY SocketFacts DEF Queues
<1>2. g = Appended(f, KindOf[x], x)
  BY <1>1 DEF Appended, PushTo
<1>3. /\ Queues(Appended(f, KindOf[x], x), Kinds, Packets, KindOf)
      /\ \A u : Queued(Appended(f, KindOf[x], x), u) <=> Queued(f, u) \/ u = x
  BY <1>1, QueuesAppend
<1> QED BY <1>2, <1>3 DEF IsWith

\* Poll() takes a free packet to receive into ...
LEMMA PollTakesFree ==
  ASSUME PacketInv, hand = Null, reserved["rx"] # << >>,
         hand' = Head(reserved["rx"]), reserved' = [reserved EXCEPT !["rx"] = Tail(@)],
         UNCHANGED <<buffered, made, mine, failed>>, pc' \in {"data", "from"}
  PROVE  PacketInv' /\ NothingIsLost
<1>1. PICK x : x = hand'
  OBVIOUS
<1>2. "rx" \in Kinds /\ KindsAreRight /\ ~failed
  BY SocketFacts DEF PacketInv
<1>3. /\ x \in Packets /\ x[1] = "rx"
      /\ IsWithout(reserved, x, reserved')
  <2>1. Queues(reserved, Kinds, Packets, KindOf) /\ x = Head(reserved["rx"])
    BY <1>1, <1>2 DEF KindsAreRight
  <2> QED BY <1>2, <2>1, TakeOut
<1>4. Somewhere(x) /\ Somewhere(x)' /\ InOnePlace(x)
  BY <1>1, <1>3 DEF Somewhere, PacketInv, IsWithout
<1>5. InOnePlace(x)'
  BY <1>1, <1>3, <1>4 DEF InOnePlace, With, IsWithout
<1>6. KindsAreRight' /\ HandInv'
  BY <1>1, <1>2, <1>3 DEF KindsAreRight, HandInv, IsWithout
<1>7. \A p \in Packets : p = x \/ Stays(p)
  BY <1>1, <1>3, SocketFacts DEF Stays, With, IsWithout
<1> QED BY <1>2, <1>3, <1>4, <1>5, <1>6, <1>7, OneMoves DEF Kept

\* ... or a packet to send.
LEMMA PollTakesToSend ==
  ASSUME PacketInv, hand = Null, buffered["tx"] # << >>,
         hand' = Head(buffered["tx"]), buffered' = [buffered EXCEPT !["tx"] = Tail(@)],
         UNCHANGED <<reserved, made, mine, failed>>, pc' = "send"
  PROVE  PacketInv' /\ NothingIsLost
<1>1. PICK x : x = hand'
  OBVIOUS
<1>2. "tx" \in Kinds /\ KindsAreRight /\ ~failed
  BY SocketFacts DEF PacketInv
<1>3. /\ x \in Packets /\ x[1] = "tx"
      /\ IsWithout(buffered, x, buffered')
  <2>1. Queues(buffered, Kinds, Packets, KindOf) /\ x = Head(buffered["tx"])
    BY <1>1, <1>2 DEF KindsAreRight
  <2> QED BY <1>2, <2>1, TakeOut
<1>4. Somewhere(x) /\ Somewhere(x)' /\ InOnePlace(x)
  BY <1>1, <1>3 DEF Somewhere, PacketInv, IsWithout
<1>5. InOnePlace(x)'
  BY <1>1, <1>3, <1>4 DEF InOnePlace, With, IsWithout
<1>6. KindsAreRight' /\ HandInv'
  BY <1>1, <1>2, <1>3 DEF KindsAreRight, HandInv, IsWithout
<1>7. \A p \in Packets : p = x \/ Stays(p)
  BY <1>1, <1>3, SocketFacts DEF Stays, With, IsWithout
<1> QED BY <1>2, <1>3, <1>4, <1>5, <1>6, <1>7, OneMoves DEF Kept

\* Poll() gives back the packet it has.
LEMMA PollPutsBack ==
  ASSUME PacketInv, hand \in Packets, NEW k, k = hand[1], Reuse(k, hand), hand' = Null,
         UNCHANGED <<buffered, made, mine>>, pc' \in {"accept", "read", "recv", "pop"}
  PROVE  PacketInv' /\ NothingIsLost
<1>1. PICK x : x = hand
  OBVIOUS
<1>2. x \in Packets /\ KindsAreRight /\ Somewhere(x) /\ InOnePlace(x)
  BY <1>1 DEF PacketInv, Somewhere
<1>3. ~Queued(reserved, x) /\ ~Queued(buffered, x) /\ \A a \in Apps : ~With(a, x)
  BY <1>1, <1>2 DEF InOnePlace
<1>4. Room(reserved[k])
  BY <1>1, <1>2, <1>3, HasRoom
<1>5. ~failed' /\ reserved' = [reserved EXCEPT ![k] = PushTo(@, x)]
  BY <1>1, <1>4 DEF Reuse
<1>6. IsWith(reserved, x, reserved')
  <2>1. Queues(reserved, Kinds, Packets, KindOf)
    BY <1>2 DEF KindsAreRight
  <2> QED BY <1>1, <1>2, <1>3, <1>4, <1>5, <2>1, PutIn
<1>7. InOnePlace(x)' /\ Somewhere(x)'
  BY <1>2, <1>3, <1>6, SocketFacts DEF InOnePlace, With, Somewhere, IsWith
<1>8. KindsAreRight' /\ HandInv'
  BY <1>2, <1>6 DEF KindsAreRight, HandInv, IsWith
<1>9. \A p \in Packets : p = x \/ Stays(p)
  BY <1>1, <1>6, SocketFacts DEF Stays, With, IsWith
<1> QED BY <1>2, <1>5, <1>7, <1>8, <1>9, OneMoves DEF Kept

\* Poll() hands over a packet it has received: although the result of the push is
\* ignored, there is room.
LEMMA PollHandsOver ==
  ASSUME PacketInv, hand \in Packets, hand[1] = "rx", hand' = Null,
         buffered' = [buffered EXCEPT !["rx"] = PushTo(@, hand)],
         UNCHANGED <<reserved, made, mine, failed>>, pc' \in {"read", "pop"}
  PROVE  PacketInv' /\ NothingIsLost
<1>1. PICK x : x = hand
  OBVIOUS
<1>2. x \in Packets /\ KindsAreRight /\ Somewhere(x) /\ InOnePlace(x) /\ ~failed
  BY <1>1 DEF PacketInv, Somewhere
<1>3. ~Queued(reserved, x) /\ ~Queued(buffered, x) /\ \A a \in Apps : ~With(a, x)
  BY <1>1, <1>2 DEF InOnePlace
<1>4. Room(buffered[x[1]])
  BY <1>2, <1>3, HasRoom
<1>5. IsWith(buffered, x, buffered')
  <2>1. /\ Queues(buffered, Kinds, Packets, KindOf) /\ x[1] = "rx"
        /\ buffered' = [buffered EXCEPT !["rx"] = PushTo(@, x)]
    BY <1>1, <1>2 DEF KindsAreRight
  <2> QED BY <1>2, <1>3, <1>4, <2>1, PutIn
<1>6. InOnePlace(x)' /\ Somewhere(x)'
  BY <1>2, <1>3, <1>5, SocketFacts DEF InOnePlace, With, Somewhere, IsWith
<1>7. KindsAreRight' /\ HandInv'
  BY <1>2, <1>5 DEF KindsAreRight, HandInv, IsWith
<1>8. \A p \in Packets : p = x \/ Stays(p)
  BY <1>1, <1>5, SocketFacts DEF Stays, With, IsWith
<1> QED BY <1>2, <1>6, <1>7, <1>8, OneMoves DEF Kept

\* The only packet that disappears: its client has gone.
LEMMA PollDrops ==
  ASSUME PacketInv, TransmitDrop
  PROVE  PacketInv' /\ NothingIsLost
<1>1. PICK x : x = hand
  OBVIOUS
<1>2. /\ UNCHANGED <<buffered, reserved, made, mine, failed>>
      /\ pc = "send" /\ pc' = "accept" /\ hand' = Null /\ ~IsValidClientIndex(adr[x])
  BY <1>1 DEF TransmitDrop, buffers, threads
<1>3. /\ x \in Packets /\ x[1] = "tx" /\ KindsAreRight /\ Somewhere(x)
      /\ InOnePlace(x) /\ ~failed
  BY <1>1, <1>2 DEF PacketInv, HandInv, Somewhere
<1>4. ~Queued(reserved, x) /\ ~Queued(buffered, x) /\ \A a \in Apps : ~With(a, x)
  BY <1>1, <1>3 DEF InOnePlace, IsWith
<1>5. InOnePlace(x)' /\ KindsAreRight' /\ HandInv'
  BY <1>2, <1>3, <1>4 DEF InOnePlace, With, KindsAreRight, HandInv, IsWith
<1>6. \A p \in Packets : p = x \/ Stays(p)
  BY <1>1, <1>2, SocketFacts DEF Stays, With
<1> QED BY <1>2, <1>3, <1>5, <1>6, OneMoves DEF Kept

\* A thread takes a packet ...
LEMMA GetTxPacketMoves ==
  ASSUME PacketInv, mine \in [Apps -> [Kinds -> Packets \cup {Null}]],
         NEW a \in Apps, GetTxPacket(a)
  PROVE  PacketInv' /\ NothingIsLost
<1>1. /\ UNCHANGED <<buffered, made, hand, pc, failed>>
      /\ mine[a]["tx"] = Null /\ reserved["tx"] # << >>
      /\ mine' = [mine EXCEPT ![a]["tx"] = Head(reserved["tx"])]
      /\ reserved' = [reserved EXCEPT !["tx"] = Tail(@)]
  BY DEF GetTxPacket, poll, Popped
<1>2. PICK x : x = Head(reserved["tx"])
  OBVIOUS
<1>3. "tx" \in Kinds /\ KindsAreRight /\ ~failed /\ HandInv
  BY SocketFacts DEF PacketInv
<1>4. x \in Packets /\ x[1] = "tx" /\ IsWithout(reserved, x, reserved')
  <2>1. Queues(reserved, Kinds, Packets, KindOf) /\ x = Head(reserved["tx"])
    BY <1>2, <1>3 DEF KindsAreRight
  <2> QED BY <1>1, <1>3, <2>1, TakeOut
<1>5. \A b \in Apps, j \in Kinds :
        mine'[b][j] = IF b = a /\ j = "tx" THEN x ELSE mine[b][j]
  BY <1>1, <1>2, <1>3
<1>6. Somewhere(x) /\ InOnePlace(x)
  BY <1>4 DEF Somewhere, PacketInv, IsWithout
<1>7. /\ ~Queued(reserved, x) \/ ~Queued(buffered, x)
      /\ hand # x /\ \A b \in Apps : ~With(b, x)
  BY <1>4, <1>6 DEF InOnePlace, IsWithout
<1>8. With(a, x)' /\ \A b \in Apps : b = a \/ ~With(b, x)'
  BY <1>3, <1>4, <1>5, <1>7 DEF With
<1>9. InOnePlace(x)' /\ Somewhere(x)'
  BY <1>1, <1>4, <1>6, <1>7, <1>8 DEF InOnePlace, Somewhere, IsWithout
<1>10. KindsAreRight' /\ HandInv'
  BY <1>1, <1>3, <1>4, <1>5 DEF KindsAreRight, HandInv, IsWithout
<1>11. \A p \in Packets : p = x \/ Stays(p)
  <2> SUFFICES ASSUME NEW p \in Packets, p # x PROVE Stays(p)
    OBVIOUS
  <2>1. \A b \in Apps : With(b, p)' <=> With(b, p)
    BY <1>1, <1>5, SocketFacts DEF With
  <2> QED BY <1>1, <1>4, <2>1 DEF Stays, IsWithout
<1> QED BY <1>1, <1>3, <1>4, <1>6, <1>9, <1>10, <1>11, OneMoves DEF Kept

LEMMA ReceivePacketMoves ==
  ASSUME PacketInv, mine \in [Apps -> [Kinds -> Packets \cup {Null}]],
         NEW a \in Apps, ReceivePacket(a)
  PROVE  PacketInv' /\ NothingIsLost
<1>1. /\ UNCHANGED <<reserved, made, hand, pc, failed>>
      /\ mine[a]["rx"] = Null /\ buffered["rx"] # << >>
      /\ mine' = [mine EXCEPT ![a]["rx"] = Head(buffered["rx"])]
      /\ buffered' = [buffered EXCEPT !["rx"] = Tail(@)]
  BY DEF ReceivePacket, poll, Popped
<1>2. PICK x : x = Head(buffered["rx"])
  OBVIOUS
<1>3. "rx" \in Kinds /\ KindsAreRight /\ ~failed /\ HandInv
  BY SocketFacts DEF PacketInv
<1>4. x \in Packets /\ x[1] = "rx" /\ IsWithout(buffered, x, buffered')
  <2>1. Queues(buffered, Kinds, Packets, KindOf) /\ x = Head(buffered["rx"])
    BY <1>2, <1>3 DEF KindsAreRight
  <2> QED BY <1>1, <1>3, <2>1, TakeOut
<1>5. \A b \in Apps, j \in Kinds :
        mine'[b][j] = IF b = a /\ j = "rx" THEN x ELSE mine[b][j]
  BY <1>1, <1>2, <1>3
<1>6. Somewhere(x) /\ InOnePlace(x)
  BY <1>4 DEF Somewhere, PacketInv, IsWithout
<1>7. /\ ~Queued(reserved, x) \/ ~Queued(buffered, x)
      /\ hand # x /\ \A b \in Apps : ~With(b, x)
  BY <1>4, <1>6 DEF InOnePlace, IsWithout
<1>8. With(a, x)' /\ \A b \in Apps : b = a \/ ~With(b, x)'
  BY <1>3, <1>4, <1>5, <1>7 DEF With
<1>9. InOnePlace(x)' /\ Somewhere(x)'
  BY <1>1, <1>4, <1>6, <1>7, <1>8 DEF InOnePlace, Somewhere, IsWithout
<1>10. KindsAreRight' /\ HandInv'
  BY <1>1, <1>3, <1>4, <1>5 DEF KindsAreRight, HandInv, IsWithout
<1>11. \A p \in Packets : p = x \/ Stays(p)
  <2> SUFFICES ASSUME NEW p \in Packets, p # x PROVE Stays(p)
    OBVIOUS
  <2>1. \A b \in Apps : With(b, p)' <=> With(b, p)
    BY <1>1, <1>5, SocketFacts DEF With
  <2> QED BY <1>1, <1>4, <2>1 DEF Stays, IsWithout
<1> QED BY <1>1, <1>3, <1>4, <1>6, <1>9, <1>10, <1>11, OneMoves DEF Kept

\* ... gives it back ...
LEMMA ReuseBufferMoves ==
  ASSUME PacketInv, mine \in [Apps -> [Kinds -> Packets \cup {Null}]],
         NEW a \in Apps, NEW k \in Kinds, ReuseBuffer(a, k)
  PROVE  PacketInv' /\ NothingIsLost
<1>1. PICK x : x = mine[a][k]
  OBVIOUS
<1>2. k \in Kinds /\ KindsAreRight /\ HandInv /\ ~failed
  BY SocketFacts DEF PacketInv
<1>3. /\ x # Null /\ Reuse(k, x) /\ mine' = [mine EXCEPT ![a][k] = Null]
      /\ UNCHANGED <<buffered, made, hand, pc>>
  BY <1>1 DEF ReuseBuffer, poll
<1>4. x \in Packets /\ x[1] = k /\ Somewhere(x) /\ InOnePlace(x) /\ With(a, x)
  BY <1>1, <1>2, <1>3 DEF KindsAreRight, PacketInv, Somewhere, With
<1>5. /\ ~Queued(reserved, x) /\ ~Queued(buffered, x) /\ hand # x
      /\ \A b \in Apps : With(b, x) => b = a
  BY <1>4 DEF InOnePlace
<1>6. Room(reserved[k])
  BY <1>4, <1>5, HasRoom
<1>7. reserved' = [reserved EXCEPT ![k] = PushTo(@, x)] /\ ~failed'
  BY <1>3, <1>6 DEF Reuse
<1>8. IsWith(reserved, x, reserved')
  <2>1. Queues(reserved, Kinds, Packets, KindOf)
    BY <1>2 DEF KindsAreRight
  <2> QED BY <1>4, <1>5, <1>6, <1>7, <2>1, PutIn
<1>9. \A b \in Apps, j \in Kinds :
        mine'[b][j] = IF b = a /\ j = k THEN Null ELSE mine[b][j]
  BY <1>2, <1>3
<1>10. \A b \in Apps : ~With(b, x)'
  BY <1>2, <1>4, <1>5, <1>9, SocketFacts DEF With
<1>11. InOnePlace(x)' /\ Somewhere(x)'
  BY <1>3, <1>5, <1>8, <1>10 DEF InOnePlace, Somewhere, IsWith
<1>12. KindsAreRight' /\ HandInv'
  BY <1>2, <1>3, <1>8, <1>9 DEF KindsAreRight, HandInv, IsWith
<1>13. \A p \in Packets : p = x \/ Stays(p)
  <2> SUFFICES ASSUME NEW p \in Packets, p # x PROVE Stays(p)
    OBVIOUS
  <2>1. \A b \in Apps : With(b, p)' <=> With(b, p)
    BY <1>1, <1>9, SocketFacts DEF With
  <2> QED BY <1>3, <1>8, <2>1 DEF Stays, IsWith
<1> QED BY <1>3, <1>4, <1>7, <1>11, <1>12, <1>13, OneMoves DEF Kept

\* ... or hands it over to Poll().
LEMMA TransmitPacketMoves ==
  ASSUME PacketInv, mine \in [Apps -> [Kinds -> Packets \cup {Null}]],
         NEW a \in Apps, TransmitPacket(a),
         Accepts(known[a])
  PROVE  PacketInv' /\ NothingIsLost
<1>1. PICK x : x = mine[a]["tx"]
  OBVIOUS
<1>2. "tx" \in Kinds /\ KindsAreRight /\ HandInv /\ ~failed
  BY SocketFacts DEF PacketInv
<1>3. /\ x # Null /\ mine' = [mine EXCEPT ![a]["tx"] = Null]
      /\ buffered' = [buffered EXCEPT !["tx"] = PushTo(@, x)]
      /\ UNCHANGED <<reserved, made, hand, pc, failed>>
  BY <1>1 DEF TransmitPacket, poll
<1>4. x \in Packets /\ x[1] = "tx" /\ Somewhere(x) /\ InOnePlace(x) /\ With(a, x)
  BY <1>1, <1>2, <1>3 DEF KindsAreRight, PacketInv, Somewhere, With
<1>5. /\ ~Queued(reserved, x) /\ ~Queued(buffered, x) /\ hand # x
      /\ \A b \in Apps : With(b, x) => b = a
  BY <1>4 DEF InOnePlace
<1>6. Room(buffered["tx"])
  BY <1>4, <1>5, HasRoom
<1>7. buffered' = [buffered EXCEPT !["tx"] = PushTo(@, x)] /\ ~failed'
  BY <1>2, <1>3
<1>8. IsWith(buffered, x, buffered')
  <2>1. Queues(buffered, Kinds, Packets, KindOf)
    BY <1>2 DEF KindsAreRight
  <2> QED BY <1>4, <1>5, <1>6, <1>7, <2>1, PutIn
<1>9. \A b \in Apps, j \in Kinds :
        mine'[b][j] = IF b = a /\ j = "tx" THEN Null ELSE mine[b][j]
  BY <1>2, <1>3
<1>10. \A b \in Apps : ~With(b, x)'
  BY <1>2, <1>4, <1>5, <1>9, SocketFacts DEF With
<1>11. InOnePlace(x)' /\ Somewhere(x)'
  BY <1>3, <1>5, <1>8, <1>10 DEF InOnePlace, Somewhere, IsWith
<1>12. KindsAreRight' /\ HandInv'
  BY <1>2, <1>3, <1>8, <1>9 DEF KindsAreRight, HandInv, IsWith
<1>13. \A p \in Packets : p = x \/ Stays(p)
  <2> SUFFICES ASSUME NEW p \in Packets, p # x PROVE Stays(p)
    OBVIOUS
  <2>1. \A b \in Apps : With(b, p)' <=> With(b, p)
    BY <1>1, <1>9, SocketFacts DEF With
  <2> QED BY <1>3, <1>8, <2>1 DEF Stays, IsWith
<1> QED BY <1>3, <1>4, <1>7, <1>11, <1>12, <1>13, OneMoves DEF Kept

-----------------------------------------------------------------------------
(***************************************************************************)
(* Open() fills the buffers of free packets.                               *)
(***************************************************************************)
MayFill(k, s, n) ==
  /\ s \in Seq(Packets) /\ NoDuplicates(s) /\ Len(s) <= Depth - 1
  /\ n \in Nat /\ n + (Depth - 1 - Len(s)) <= MaxPackets
  /\ \A p \in Members(s) : p[1] = k /\ p[2] <= n

LEMMA FillIs ==
  ASSUME NEW k \in Kinds, NEW s, NEW n, MayFill(k, s, n), NEW t, t = Fill(k, s, n)
  PROVE  /\ t \in Seq(Packets) /\ NoDuplicates(t) /\ Len(t) = Depth - 1
         /\ \A p \in Members(t) : p[1] = k
         /\ \A p \in Packets : p[1] # k \/
              (p \in Members(t) <=>
                p \in Members(s) \/ (n < p[2] /\ p[2] <= n + (Depth - 1 - Len(s))))
<1> DEFINE m == Len(s)
           d == Depth - 1 - m
           e == [j \in 1 .. d |-> <<k, n + j>>]
<1>1. /\ s \in Seq(Packets) /\ m \in Nat /\ d \in Nat /\ n \in Nat
      /\ m + d = Depth - 1 /\ DOMAIN s = 1 .. m
      /\ n + d <= MaxPackets /\ MaxPackets \in Nat
  BY SocketFacts DEF MayFill
<1>2. t = s \o e
  BY SocketFacts DEF Fill
<1>3. Len(s) = m
  OBVIOUS
<1> HIDE DEF m, d
<1>4. e \in Seq(Packets) /\ Len(e) = d /\ \A j \in 1 .. d : e[j] = <<k, n + j>>
  <2>1. \A j \in 1 .. d : n + j \in 1 .. MaxPackets
    BY <1>1
  <2>2. \A j \in 1 .. d : <<k, n + j>> \in Packets
    BY <2>1, SocketFacts
  <2>3. e \in [1 .. d -> Packets]
    BY <2>2
  <2> QED BY <1>1, <2>3
<1> HIDE DEF e
<1>5. /\ t \in Seq(Packets) /\ Len(t) = m + d /\ DOMAIN t = 1 .. m + d
      /\ \A j \in 1 .. m : t[j] = s[j]
      /\ \A j \in 1 .. d : t[m + j] = e[j]
  <2>1. \A j \in 1 .. m + d : t[j] = IF j <= m THEN s[j] ELSE e[j - m]
    BY <1>1, <1>2, <1>3, <1>4
  <2>2. s \o e \in Seq(Packets) /\ Len(s \o e) = Len(s) + Len(e)
    <3>1. s \in Seq(Packets) /\ e \in Seq(Packets)
      BY <1>1, <1>4
    <3> QED BY ONLY <3>1
  <2>3. \A j \in 1 .. m : j \in 1 .. m + d /\ j <= m
    BY <1>1
  <2>4. \A j \in 1 .. d : m + j \in 1 .. m + d /\ ~(m + j <= m) /\ (m + j) - m = j
    BY <1>1
  <2>5. Len(t) = m + d /\ DOMAIN t = 1 .. Len(t)
    BY <1>2, <1>3, <1>4, <2>2
  <2> QED BY <1>2, <2>1, <2>2, <2>3, <2>4, <2>5
<1>6. \A j \in 1 .. m + d : j \in 1 .. m \/ (j - m \in 1 .. d /\ j = m + (j - m))
  BY <1>1
<1>7. \A j \in 1 .. m : s[j] \in Members(s) /\ s[j][2] <= n
  BY <1>1 DEF Members, MayFill
<1>8. \A j \in 1 .. d : t[m + j] = <<k, n + j>> /\ t[m + j][2] = n + j
  BY <1>4, <1>5
<1>9. NoDuplicates(t)
  <2> SUFFICES ASSUME NEW i \in 1 .. m + d, NEW j \in 1 .. m + d, t[i] = t[j]
               PROVE  i = j
    BY <1>5 DEF NoDuplicates
  <2>1. CASE i \in 1 .. m /\ j \in 1 .. m
    BY <1>1, <1>5, <2>1 DEF MayFill, NoDuplicates
  <2>2. CASE i \in 1 .. m /\ j - m \in 1 .. d
    <3>1. t[i] = s[i] /\ j = m + (j - m)
      BY <1>1, <1>5, <2>2
    <3>2. t[i][2] <= n /\ t[j][2] = n + (j - m)
      BY <1>7, <1>8, <2>2, <3>1
    <3> QED BY <1>1, <2>2, <3>2
  <2>3. CASE i - m \in 1 .. d /\ j \in 1 .. m
    <3>1. t[j] = s[j] /\ i = m + (i - m)
      BY <1>1, <1>5, <2>3
    <3>2. t[j][2] <= n /\ t[i][2] = n + (i - m)
      BY <1>7, <1>8, <2>3, <3>1
    <3> QED BY <1>1, <2>3, <3>2
  <2>4. CASE i - m \in 1 .. d /\ j - m \in 1 .. d
    <3>1. i = m + (i - m) /\ j = m + (j - m)
      BY <1>1
    <3>2. t[i][2] = n + (i - m) /\ t[j][2] = n + (j - m)
      BY <1>8, <2>4, <3>1
    <3> QED BY <1>1, <2>4, <3>2
  <2> QED BY <1>6, <2>1, <2>2, <2>3, <2>4
<1>10. Members(t) = Members(s) \cup Members(e)
  BY <1>1, <1>2, <1>4, MembersOfConcat
<1>11. \A p : p \in Members(e) <=> \E j \in 1 .. d : p = <<k, n + j>>
  <2>1. DOMAIN e = 1 .. d
    BY <1>1, <1>4
  <2> QED BY <1>4, <2>1 DEF Members
<1>12. \A p \in Members(t) : p[1] = k
  BY <1>10, <1>11 DEF MayFill
<1>13. ASSUME NEW p \in Packets, p[1] = k
       PROVE  p \in Members(e) <=> n < p[2] /\ p[2] <= n + d
  <2>1. p = <<k, p[2]>> /\ p[2] \in Nat
    BY <1>13, SocketFacts
  <2>2. ASSUME n < p[2], p[2] <= n + d PROVE p \in Members(e)
    <3>1. p[2] - n \in 1 .. d /\ p = <<k, n + (p[2] - n)>>
      BY <1>1, <2>1, <2>2
    <3> QED BY <1>11, <3>1
  <2>3. ASSUME p \in Members(e) PROVE n < p[2] /\ p[2] <= n + d
    <3>1. PICK j \in 1 .. d : p = <<k, n + j>>
      BY <1>11, <2>3
    <3> QED BY <1>1, <3>1
  <2> QED BY <2>2, <2>3
<1> QED BY <1>1, <1>5, <1>9, <1>10, <1>12, <1>13 DEF d, m

\* A sequence has as many places as members, or more.
LEMMA FewMembers ==
  ASSUME NEW S, NEW s \in Seq(S)
  PROVE  IsFiniteSet(Members(s)) /\ Cardinality(Members(s)) <= Len(s)
<1>1. 1 \in Int /\ Len(s) \in Int /\ Len(s) \in Nat
  OBVIOUS
<1>2. /\ IsFiniteSet(1 .. Len(s))
      /\ Cardinality(1 .. Len(s)) = IF 1 > Len(s) THEN 0 ELSE Len(s) - 1 + 1
  BY <1>1, FS_Interval
<1>3. Cardinality(1 .. Len(s)) = Len(s)
  BY <1>1, <1>2
<1>4. s \in Surjection(1 .. Len(s), Members(s))
  BY DEF Surjection, Members
<1> QED BY <1>2, <1>3, <1>4, FS_Surjection

LEMMA FillAll ==
  ASSUME NEW s, NEW n, \A k \in Kinds : MayFill(k, s[k], n[k]),
         NEW f, f = [k \in Kinds |-> Fill(k, s[k], n[k])]
  PROVE  /\ Queues(f, Kinds, Packets, KindOf)
         /\ \A p \in Packets : Queued(f, p) <=>
              \/ p \in Members(s[p[1]])
              \/ n[p[1]] < p[2] /\ p[2] <= n[p[1]] + (Depth - 1 - Len(s[p[1]]))
         /\ \A k \in Kinds :
              Cardinality({p \in Packets : p[1] = k /\ Queued(f, p)}) <= Depth - 1
<1>1. ASSUME NEW k \in Kinds
      PROVE  /\ f[k] \in Seq(Packets) /\ NoDuplicates(f[k]) /\ Len(f[k]) = Depth - 1
             /\ \A p \in Members(f[k]) : p[1] = k
             /\ \A p \in Packets : p[1] # k \/
                  (p \in Members(f[k]) <=>
                    \/ p \in Members(s[k])
                    \/ n[k] < p[2] /\ p[2] <= n[k] + (Depth - 1 - Len(s[k])))
  BY FillIs
<1>2. DOMAIN f = Kinds /\ f \in [Kinds -> Seq(Packets)]
  BY <1>1
<1>3. Queues(f, Kinds, Packets, KindOf)
  <2>1. \A k \in Kinds : \A p \in Members(f[k]) : p \in Packets /\ k = KindOf[p]
    BY <1>1, MembersOf, SocketFacts
  <2> QED BY <1>1, <1>2, <2>1 DEF Queues
<1>4. \A p \in Packets : Queued(f, p) <=> p \in Members(f[p[1]])
  BY <1>1, <1>2, SocketFacts DEF Queued
<1>5. ASSUME NEW k \in Kinds
      PROVE  Cardinality({p \in Packets : p[1] = k /\ Queued(f, p)}) <= Depth - 1
  <2> DEFINE L == {p \in Packets : p[1] = k /\ Queued(f, p)}
  <2>1. L \subseteq Members(f[k])
    BY <1>4
  <2>2. IsFiniteSet(Members(f[k])) /\ Cardinality(Members(f[k])) <= Depth - 1
    BY <1>1, FewMembers
  <2>3. /\ Cardinality(L) <= Cardinality(Members(f[k]))
        /\ Cardinality(L) \in Nat /\ Cardinality(Members(f[k])) \in Nat
    <3> HIDE DEF L
    <3> QED BY <2>1, <2>2, FS_Subset, FS_CardinalityType
  <2> QED BY <2>2, <2>3, SocketFacts
<1> QED BY <1>1, <1>3, <1>4, <1>5, SocketFacts

LEMMA PacketInvInit == Init => PacketInv
<1> SUFFICES ASSUME Init PROVE PacketInv
  OBVIOUS
<1>1. PICK s : s = [k \in Kinds |-> << >>]
  OBVIOUS
<1>2. PICK n : n = [k \in Kinds |-> 0]
  OBVIOUS
<1>3. \A k \in Kinds : Members(s[k]) = {} /\ Len(s[k]) = 0 /\ n[k] = 0
  BY <1>1, <1>2 DEF Members
<1>4. ASSUME NEW k \in Kinds PROVE MayFill(k, s[k], n[k])
  <2>1. s[k] \in Seq(Packets) /\ NoDuplicates(s[k])
    BY <1>1 DEF NoDuplicates
  <2>2. /\ Len(s[k]) <= Depth - 1 /\ n[k] \in Nat
        /\ n[k] + (Depth - 1 - Len(s[k])) <= MaxPackets
    <3>1. 0 <= Depth - 1 /\ 0 + (Depth - 1 - 0) <= MaxPackets
      BY SocketFacts
    <3>2. Len(s[k]) = 0 /\ n[k] = 0
      BY <1>3
    <3> QED BY <3>1, <3>2
  <2>3. \A p \in Members(s[k]) : p[1] = k /\ p[2] <= n[k]
    BY <1>3
  <2> QED BY <2>1, <2>2, <2>3 DEF MayFill
<1>5. reserved = [k \in Kinds |-> Fill(k, s[k], n[k])]
  BY <1>1, <1>2 DEF Init
<1>6. /\ Queues(reserved, Kinds, Packets, KindOf)
      /\ \A p \in Packets : Queued(reserved, p) <=>
           \/ p \in Members(s[p[1]])
           \/ n[p[1]] < p[2] /\ p[2] <= n[p[1]] + (Depth - 1 - Len(s[p[1]]))
      /\ \A k \in Kinds :
           Cardinality({p \in Packets : p[1] = k /\ Queued(reserved, p)}) <= Depth - 1
  BY <1>4, <1>5, FillAll
<1>7. Queues(buffered, Kinds, Packets, KindOf) /\ \A p : ~Queued(buffered, p)
  BY QueuesStart DEF Init
<1>8. /\ hand = Null /\ pc = "accept" /\ ~failed
      /\ \A k \in Kinds : made[k] = Depth - 1
      /\ \A a \in Apps, k \in Kinds : mine[a][k] = Null
  BY DEF Init
<1>9. ASSUME NEW p \in Packets
      PROVE  /\ Queued(reserved, p) <=> p[2] <= Depth - 1
             /\ Somewhere(p) <=> Queued(reserved, p)
             /\ InOnePlace(p) /\ Numbered(p)
  <2>1. /\ p[1] \in Kinds /\ p[2] \in Nat /\ 0 < p[2] /\ p # Null
        /\ Depth - 1 \in Nat
    BY SocketFacts
  <2>2. Queued(reserved, p) <=> p[2] <= Depth - 1
    <3>1. PICK k \in Kinds : k = p[1]
      BY <2>1
    <3>2. Members(s[k]) = {} /\ Len(s[k]) = 0 /\ n[k] = 0
      BY <1>3
    <3>3. Queued(reserved, p) <=> 0 < p[2] /\ p[2] <= 0 + (Depth - 1 - 0)
      BY <1>6, <3>1, <3>2
    <3> QED BY <2>1, <3>3
  <2>3. \A a \in Apps : ~With(a, p)
    BY <1>8, <2>1 DEF With
  <2>4. Somewhere(p) <=> Queued(reserved, p)
    BY <1>7, <1>8, <2>1, <2>3 DEF Somewhere
  <2> QED BY <1>7, <1>8, <2>1, <2>2, <2>3, <2>4 DEF InOnePlace, Numbered
<1>10. \A k \in Kinds : Live(k) = {p \in Packets : p[1] = k /\ Queued(reserved, p)}
  BY <1>9 DEF Live
<1>11. FewPackets
  BY <1>6, <1>10 DEF FewPackets
<1>12. KindsAreRight /\ HandInv
  BY <1>6, <1>7, <1>8 DEF KindsAreRight, HandInv
<1> QED BY <1>8, <1>9, <1>11, <1>12 DEF PacketInv

LEMMA ReopenMoves ==
  ASSUME PacketInv, Reopen
  PROVE  PacketInv' /\ NothingIsLost
<1>1. /\ pc = "accept" /\ pc' = "accept" /\ hand' = hand /\ mine' = mine
      /\ buffered' = buffered /\ failed' = failed
      /\ \A k \in Kinds : /\ buffered[k] = << >> /\ made[k] = Depth - 1
                          /\ \A a \in Apps : mine[a][k] = Null
      /\ reserved' = [k \in Kinds |-> Fill(k, reserved[k], made[k])]
      /\ made' = [k \in Kinds |-> made[k] + Depth - 1 - Len(reserved[k])]
  BY DEF Reopen, poll, threads
<1>2. KindsAreRight /\ HandInv /\ ~failed /\ hand = Null
  BY <1>1 DEF PacketInv, HandInv
<1>3. \A k \in Kinds : /\ reserved[k] \in Seq(Packets) /\ NoDuplicates(reserved[k])
                       /\ Len(reserved[k]) < Depth /\ Len(reserved[k]) \in Nat
                       /\ Members(reserved[k]) \subseteq Packets
                       /\ \A p \in Members(reserved[k]) : p[1] = k
  <2> SUFFICES ASSUME NEW k \in Kinds
               PROVE  /\ reserved[k] \in Seq(Packets) /\ NoDuplicates(reserved[k])
                      /\ Len(reserved[k]) < Depth /\ Len(reserved[k]) \in Nat
                      /\ Members(reserved[k]) \subseteq Packets
                      /\ \A p \in Members(reserved[k]) : p[1] = k
    OBVIOUS
  <2>1. /\ reserved[k] \in Seq(Packets) /\ NoDuplicates(reserved[k])
        /\ \A p \in Members(reserved[k]) : k = KindOf[p]
    BY <1>2 DEF KindsAreRight, Queues
  <2>2. Members(reserved[k]) \subseteq Packets
    BY <2>1, MembersOf
  <2> QED BY <2>1, <2>2, BuffersFit, SocketFacts
<1>4. \A p \in Packets : Queued(reserved, p) <=> p \in Members(reserved[p[1]])
  <2>1. DOMAIN reserved = Kinds
    BY <1>2 DEF KindsAreRight, Queues
  <2> QED BY <1>3, <2>1, SocketFacts DEF Queued
<1>5. ASSUME NEW p \in Packets
      PROVE  /\ ~Queued(buffered, p) /\ hand # p /\ \A a \in Apps : ~With(a, p)
             /\ Somewhere(p) <=> Queued(reserved, p)
  <2>1. ~Queued(buffered, p)
    <3>1. DOMAIN buffered = Kinds
      BY <1>2 DEF KindsAreRight, Queues
    <3> QED BY <1>1, <3>1 DEF Queued, Members
  <2>2. hand # p /\ \A a \in Apps : ~With(a, p)
    <3>1. p # Null /\ p[1] \in Kinds
      BY SocketFacts
    <3>2. \A a \in Apps : mine[a][p[1]] = Null
      BY <1>1, <3>1
    <3> QED BY <1>2, <3>1, <3>2 DEF With
  <2> QED BY <2>1, <2>2 DEF Somewhere
<1>6. ASSUME NEW k \in Kinds PROVE MayFill(k, reserved[k], made[k])
  <2>1. \A p \in Members(reserved[k]) : p[1] = k /\ p[2] <= made[k]
    <3> SUFFICES ASSUME NEW p \in Members(reserved[k])
                 PROVE  p[1] = k /\ p[2] <= made[k]
      OBVIOUS
    <3>1. p \in Packets /\ p[1] = k
      BY <1>3
    <3>2. Somewhere(p)
      BY <1>4, <1>5, <3>1
    <3> QED BY <3>1, <3>2 DEF PacketInv, Numbered
  <2>2. made[k] = Depth - 1 /\ Len(reserved[k]) <= Depth - 1
    <3>1. made[k] = Depth - 1
      BY <1>1
    <3>2. Len(reserved[k]) < Depth /\ Len(reserved[k]) \in Nat /\ Depth \in Nat
      BY <1>3, SocketFacts
    <3> QED BY <3>1, <3>2
  <2>3. made[k] + (Depth - 1 - Len(reserved[k])) <= MaxPackets
    BY <1>3, <2>2, SocketFacts
  <2> QED BY <1>3, <2>1, <2>2, <2>3, SocketFacts DEF MayFill
<1>7. /\ Queues(reserved', Kinds, Packets, KindOf)
      /\ \A p \in Packets : Queued(reserved', p) <=>
           \/ p \in Members(reserved[p[1]])
           \/ /\ made[p[1]] < p[2]
              /\ p[2] <= made[p[1]] + (Depth - 1 - Len(reserved[p[1]]))
      /\ \A k \in Kinds :
           Cardinality({p \in Packets : p[1] = k /\ Queued(reserved', p)}) <= Depth - 1
  BY <1>1, <1>6, FillAll
<1>8. ASSUME NEW p \in Packets
      PROVE  /\ Somewhere(p)' <=> Queued(reserved', p)
             /\ Somewhere(p) => Somewhere(p)'
             /\ InOnePlace(p)' /\ Numbered(p)'
  <2>1. ~Queued(buffered', p) /\ hand' # p /\ \A a \in Apps : ~With(a, p)'
    BY <1>1, <1>5 DEF With
  <2>2. Somewhere(p)' <=> Queued(reserved', p)
    BY <2>1 DEF Somewhere
  <2>3. Somewhere(p) => Somewhere(p)'
    BY <1>4, <1>5, <1>7, <2>2
  <2>4. InOnePlace(p)'
    BY <2>1 DEF InOnePlace
  <2>5. Numbered(p)'
    <3>1. PICK k \in Kinds : k = p[1]
      BY SocketFacts
    <3>2. /\ made'[k] = made[k] + (Depth - 1 - Len(reserved[k]))
          /\ made[k] \in Nat /\ Depth - 1 - Len(reserved[k]) \in Nat /\ p[2] \in Nat
      <4>1. /\ made[k] = Depth - 1 /\ Len(reserved[k]) \in Nat
            /\ Len(reserved[k]) < Depth /\ p[2] \in Nat /\ Depth \in Nat
            /\ made'[k] = made[k] + Depth - 1 - Len(reserved[k])
        <5>1. /\ made[k] = Depth - 1
              /\ made'[k] = made[k] + Depth - 1 - Len(reserved[k])
          BY <1>1
        <5>2. Len(reserved[k]) \in Nat /\ Len(reserved[k]) < Depth
          BY <1>3
        <5> QED BY <5>1, <5>2, SocketFacts
      <4> QED BY <4>1
    <3>3. Numbered(p)
      BY DEF PacketInv
    <3>4. ASSUME Somewhere(p)' PROVE p[2] <= made'[k]
      <4>1. CASE p \in Members(reserved[k])
        <5>1. p[2] <= made[k]
          BY <1>4, <1>5, <3>1, <3>3, <4>1 DEF Numbered
        <5> QED BY <3>2, <5>1
      <4> QED BY <1>7, <2>2, <3>1, <3>2, <3>4, <4>1
    <3>5. ASSUME k = "rx", p[2] <= made'[k] PROVE Somewhere(p)'
      <4>1. CASE p[2] <= made[k]
        BY <2>3, <3>1, <3>3, <3>5, <4>1 DEF Numbered
      <4>2. CASE made[k] < p[2]
        BY <1>7, <2>2, <3>1, <3>2, <3>5, <4>2
      <4> QED BY <3>2, <4>1, <4>2
    <3> QED BY <3>1, <3>4, <3>5 DEF Numbered
  <2> QED BY <2>2, <2>3, <2>4, <2>5
<1>9. \A k \in Kinds : Live(k)' = {p \in Packets : p[1] = k /\ Queued(reserved', p)}
  BY <1>8 DEF Live
<1>10. FewPackets'
  BY <1>7, <1>9 DEF FewPackets
<1>11. KindsAreRight' /\ HandInv'
  BY <1>1, <1>2, <1>7 DEF KindsAreRight, HandInv
<1> QED BY <1>1, <1>2, <1>8, <1>10, <1>11 DEF PacketInv, NothingIsLost, Kept

-----------------------------------------------------------------------------
(***************************************************************************)
(* Every step conserves the packets.                                       *)
(***************************************************************************)
LEMMA PollMoves ==
  ASSUME PacketInv, Poll
  PROVE  PacketInv' /\ NothingIsLost
<1> USE DEF buffers, threads
<1>1. HandInv /\ ~failed
  BY DEF PacketInv
<1>2. CASE Accept \/ ReadEnds \/ ReadSkip \/ RecvSkip \/ TransmitNothing
  <2>1. UNCHANGED <<buffered, reserved, made, hand, mine, failed>> /\ HandInv'
    BY <1>1, <1>2 DEF Accept, ReadEnds, ReadSkip, RecvSkip, TransmitNothing, HandInv
  <2> QED BY <2>1, NothingMoves
<1>3. CASE TransmitTcp \/ Write
  <2>1. UNCHANGED <<buffered, reserved, made, hand, mine, failed>> /\ HandInv'
    BY <1>1, <1>3 DEF TransmitTcp, Write, HandInv
  <2> QED BY <2>1, NothingMoves
<1>4. CASE ReadTake \/ RecvTake
  <2>1. /\ hand = Null /\ reserved["rx"] # << >> /\ hand' = Head(reserved["rx"])
        /\ reserved' = [reserved EXCEPT !["rx"] = Tail(@)]
        /\ UNCHANGED <<buffered, made, mine, failed>> /\ pc' \in {"data", "from"}
    BY <1>1, <1>4 DEF ReadTake, RecvTake, HandInv
  <2> QED BY <2>1, PollTakesFree
<1>5. CASE ReadResult
  <2>1. /\ hand \in Packets /\ hand[1] = "rx" /\ hand' = Null /\ pc' = "read"
        /\ UNCHANGED <<made, mine>>
    BY <1>1, <1>5 DEF ReadResult, HandInv
  <2>2. CASE /\ buffered' = [buffered EXCEPT !["rx"] = PushTo(@, hand)]
             /\ UNCHANGED <<reserved, failed>>
    BY <2>1, <2>2, PollHandsOver
  <2>3. CASE Reuse("rx", hand) /\ UNCHANGED buffered
    BY <2>1, <2>3, PollPutsBack
  <2> QED BY <1>5, <2>2, <2>3 DEF ReadResult, ReadReuse
<1>6. CASE RecvFrom
  <2>1. /\ hand \in Packets /\ hand[1] = "rx" /\ pc = "from"
        /\ UNCHANGED <<buffered, made, mine>>
    BY <1>1, <1>6 DEF RecvFrom, HandInv
  <2>2. CASE pc' = "enter" /\ UNCHANGED <<reserved, hand, failed>>
    <3>1. HandInv'
      BY <2>1, <2>2 DEF HandInv
    <3> QED BY <2>1, <2>2, <3>1, NothingMoves
  <2>3. CASE Reuse("rx", hand) /\ pc' = "pop" /\ hand' = Null
    BY <2>1, <2>3, PollPutsBack
  <2> QED BY <1>6, <2>2, <2>3 DEF RecvFrom
<1>7. CASE RecvEnter
  <2>1. /\ hand \in Packets /\ hand[1] = "rx" /\ hand' = Null /\ pc' = "pop"
        /\ buffered' = [buffered EXCEPT !["rx"] = PushTo(@, hand)]
        /\ UNCHANGED <<reserved, made, mine, failed>>
    BY <1>1, <1>7 DEF RecvEnter, HandInv
  <2> QED BY <2>1, PollHandsOver
<1>8. CASE TransmitPop
  <2>1. /\ hand = Null /\ buffered["tx"] # << >> /\ hand' = Head(buffered["tx"])
        /\ buffered' = [buffered EXCEPT !["tx"] = Tail(@)]
        /\ UNCHANGED <<reserved, made, mine, failed>> /\ pc' = "send"
    BY <1>1, <1>8 DEF TransmitPop, HandInv
  <2> QED BY <2>1, PollTakesToSend
<1>9. CASE TransmitUdp \/ WriteEnds
  <2>1. /\ hand \in Packets /\ hand[1] = "tx" /\ Reuse("tx", hand) /\ hand' = Null
        /\ UNCHANGED <<buffered, made, mine>> /\ pc' = "accept"
    BY <1>1, <1>9 DEF TransmitUdp, WriteEnds, WriteReuse, HandInv
  <2> QED BY <2>1, PollPutsBack
<1>10. CASE TransmitDrop
  BY <1>10, PollDrops
<1> QED BY <1>2, <1>3, <1>4, <1>5, <1>6, <1>7, <1>8, <1>9, <1>10 DEF Poll

LEMMA ThreadMoves ==
  ASSUME PacketInv, mine \in [Apps -> [Kinds -> Packets \cup {Null}]],
         NEW a \in Apps, App(a)
  PROVE  PacketInv' /\ NothingIsLost
<1>1. HandInv
  BY DEF PacketInv
<1>2. ASSUME TransmitPacket(a), ~Accepts(known[a]) PROVE PacketInv' /\ NothingIsLost
  <2>1. UNCHANGED <<buffered, reserved, made, hand, mine, failed>> /\ HandInv'
    BY <1>1, <1>2 DEF TransmitPacket, poll, HandInv
  <2> QED BY <2>1, NothingMoves
<1>3. CASE RegisterChoose(a) \/ RegisterUdpAddress(a)
  <2>1. UNCHANGED <<buffered, reserved, made, hand, mine, failed>> /\ HandInv'
    BY <1>1, <1>3 DEF RegisterChoose, RegisterUdpAddress, buffers, poll, HandInv
  <2> QED BY <2>1, NothingMoves
<1> QED BY <1>2, <1>3, GetTxPacketMoves, ReceivePacketMoves, ReuseBufferMoves,
           TransmitPacketMoves DEF App

LEMMA PacketsStep ==
  ASSUME PacketInv, mine \in [Apps -> [Kinds -> Packets \cup {Null}]], [Next]_vars
  PROVE  PacketInv' /\ NothingIsLost
<1>1. CASE Next
  BY <1>1, PollMoves, ReopenMoves, ThreadMoves DEF Next
<1>2. CASE UNCHANGED vars
  <2>1. UNCHANGED <<buffered, reserved, made, hand, mine, failed>> /\ HandInv'
    BY <1>2 DEF vars, buffers, poll, threads, PacketInv, HandInv
  <2> QED BY <2>1, NothingMoves
<1> QED BY <1>1, <1>2

-----------------------------------------------------------------------------
(***************************************************************************)
(* The tables.                                                             *)
(***************************************************************************)
LEMMA TypesAre == ASSUME PacketInv PROVE TypeOK <=> Types
BY BuffersFit DEF TypeOK, Types, Numbers

LEMMA FirstIs ==
  ASSUME NEW S, S \subseteq Nat
  PROVE  IF S = {} THEN First(S) = -1 ELSE First(S) \in S /\ First(S) # -1
<1>1. CASE S = {}
  BY <1>1 DEF First
<1>2. CASE S # {}
  <2>1. \E i \in S : \A j \in S : i <= j
    BY <1>2, LeastOf
  <2>2. First(S) \in S
    BY <1>2, <2>1 DEF First
  <2>3. First(S) # -1
    <3>1. \A i \in Nat : i # -1
      OBVIOUS
    <3> QED BY <2>2, <3>1
  <2> QED BY <1>2, <2>2, <2>3
<1> QED BY <1>1, <1>2

LEMMA FreeTcpSlot ==
  \/ GetAvailableTcpClientIndex = -1
  \/ GetAvailableTcpClientIndex \in TcpSlots /\ tcp[GetAvailableTcpClientIndex] = Null
<1>1. {i \in TcpSlots : tcp[i] = Null} \subseteq Nat
  BY SocketFacts DEF TcpSlots
<1> QED BY <1>1, FirstIs DEF GetAvailableTcpClientIndex

LEMMA FreeUdpSlot ==
  \/ /\ GetAvailableUdpClientIndex = -1
     /\ \A i \in UdpSlots : udp[i].enabled
  \/ /\ GetAvailableUdpClientIndex \in UdpSlots /\ GetAvailableUdpClientIndex # -1
     /\ ~udp[GetAvailableUdpClientIndex].enabled
<1>1. {i \in UdpSlots : ~udp[i].enabled} \subseteq Nat
  BY SocketFacts DEF UdpSlots
<1> QED BY <1>1, FirstIs DEF GetAvailableUdpClientIndex

LEMMA SlotFacts ==
  /\ \A i \in TcpSlots : i \in Nat /\ i + 1 <= TcpMax /\ i # -1 /\ i \in 0 .. TcpMax + UdpMax
  /\ \A i \in UdpSlots : i \in Nat /\ i < UdpMax /\ i # -1 /\ i \in 0 .. TcpMax + UdpMax
  /\ \A n \in Nat : n < TcpMax => n \in TcpSlots
  /\ \A n \in Nat : n <= TcpMax => n \in 0 .. TcpMax + UdpMax
  /\ TcpSlots \subseteq Numbers /\ -1 \in Numbers
  /\ \A i \in UdpSlots : Offset + i \in Numbers
  /\ kDefaultTtlValue = UdpMax
  BY SocketFacts DEF TcpSlots, UdpSlots, Numbers, kDefaultTtlValue

\* What RecvEnter makes of each slot.
Entered(i) ==
  /\ udp'[i].addr = udp[i].addr
  /\ udp'[i].enabled = IF i = slot THEN UdpMax > 1
                       ELSE udp[i].enabled /\ udp[i].ttl > 1
  /\ udp'[i].ttl = IF i = slot THEN UdpMax - 1
                   ELSE IF udp[i].enabled THEN udp[i].ttl - 1 ELSE udp[i].ttl

LEMMA RecvEnterEnters ==
  ASSUME Types, TtlInv, slot \in UdpSlots, RecvEnter
  PROVE  /\ \A i \in UdpSlots : Entered(i)
         /\ udp' \in [UdpSlots -> [addr : Peers \cup {Null}, enabled : BOOLEAN,
                                   ttl : 0 .. kDefaultTtlValue]]
<1>1. PICK u : u = [udp EXCEPT ![slot].ttl = kDefaultTtlValue, ![slot].enabled = TRUE]
  OBVIOUS
<1>2. /\ u \in [UdpSlots -> [addr : Peers \cup {Null}, enabled : BOOLEAN,
                             ttl : 0 .. kDefaultTtlValue]]
      /\ \A i \in UdpSlots : u[i].addr = udp[i].addr
      /\ u[slot].enabled /\ u[slot].ttl = UdpMax
      /\ \A i \in UdpSlots : i = slot \/ u[i] = udp[i]
  <2>1. /\ udp \in [UdpSlots -> [addr : Peers \cup {Null}, enabled : BOOLEAN,
                                ttl : 0 .. kDefaultTtlValue]]
        /\ kDefaultTtlValue \in 0 .. kDefaultTtlValue
        /\ kDefaultTtlValue = UdpMax
    BY SocketFacts DEF Types, kDefaultTtlValue
  <2>2. u = [udp EXCEPT ![slot] =
               [udp[slot] EXCEPT !.ttl = kDefaultTtlValue, !.enabled = TRUE]]
    BY <1>1, <2>1
  <2>3. PICK r : r = [udp[slot] EXCEPT !.ttl = kDefaultTtlValue, !.enabled = TRUE]
    OBVIOUS
  <2>4. /\ r \in [addr : Peers \cup {Null}, enabled : BOOLEAN, ttl : 0 .. kDefaultTtlValue]
        /\ r.addr = udp[slot].addr /\ r.enabled /\ r.ttl = UdpMax
    BY <2>1, <2>3
  <2> HIDE <1>1
  <2> QED BY <2>1, <2>2, <2>3, <2>4
<1>3. udp' = Refreshed(u)
  BY <1>1 DEF RecvEnter
<1>4. \A i \in UdpSlots : udp'[i] =
        IF u[i].enabled
        THEN [u[i] EXCEPT !.ttl = @ - 1, !.enabled = u[i].ttl > 1] ELSE u[i]
  BY <1>3 DEF Refreshed
<1>5. \A i \in UdpSlots : u[i].enabled => u[i].ttl >= 1
  BY <1>2, SocketFacts DEF TtlInv
<1>6. ASSUME NEW i \in UdpSlots
      PROVE  /\ udp'[i] \in [addr : Peers \cup {Null}, enabled : BOOLEAN,
                             ttl : 0 .. kDefaultTtlValue]
             /\ udp'[i].addr = u[i].addr
             /\ udp'[i].enabled = (u[i].enabled /\ u[i].ttl > 1)
             /\ udp'[i].ttl = IF u[i].enabled THEN u[i].ttl - 1 ELSE u[i].ttl
  <2>1. /\ u[i] \in [addr : Peers \cup {Null}, enabled : BOOLEAN,
                     ttl : 0 .. kDefaultTtlValue]
        /\ u[i].enabled => u[i].ttl >= 1
    BY <1>2, <1>5
  <2>2. CASE u[i].enabled
    <3>1. udp'[i] = [u[i] EXCEPT !.ttl = @ - 1, !.enabled = u[i].ttl > 1]
      BY <1>4, <2>2
    <3>2. u[i].ttl - 1 \in 0 .. kDefaultTtlValue
      BY <2>1, <2>2, SocketFacts DEF kDefaultTtlValue
    <3>3. PICK e \in BOOLEAN : e = (u[i].ttl > 1)
      <4>1. CASE u[i].ttl > 1
        <5>1. TRUE = (u[i].ttl > 1)
          BY <4>1
        <5> QED BY <5>1
      <4>2. CASE ~(u[i].ttl > 1)
        <5>1. FALSE = (u[i].ttl > 1)
          BY <4>2
        <5> QED BY <5>1
      <4> QED BY <4>1, <4>2
    <3>4. udp'[i] = [u[i] EXCEPT !.ttl = u[i].ttl - 1, !.enabled = e]
      BY <2>1, <3>1, <3>3
    <3> QED BY <2>1, <2>2, <3>2, <3>3, <3>4
  <2>3. CASE ~u[i].enabled
    BY <1>4, <2>1, <2>3
  <2> QED BY <2>2, <2>3
<1>7. udp' \in [UdpSlots -> [addr : Peers \cup {Null}, enabled : BOOLEAN,
                             ttl : 0 .. kDefaultTtlValue]]
  BY <1>3, <1>6 DEF Refreshed
<1>8. \A i \in UdpSlots : Entered(i)
  BY <1>2, <1>6 DEF Entered
<1> QED BY <1>7, <1>8

UdpTypes ==
  udp \in [UdpSlots -> [addr : Peers \cup {Null}, enabled : BOOLEAN,
                        ttl : 0 .. kDefaultTtlValue]]
UdpInv == UdpTypes /\ TtlInv

\* The UDP table is not changed, or its only change is in slots that are free.
LEMMA UdpStays ==
  ASSUME Types, TtlInv, UNCHANGED chosen,
         udp' = udp \/ \E h \in Peers : udp' = [udp EXCEPT ![slot].addr = h],
         udp' = udp \/ (slot \in UdpSlots /\ ("register" \notin Usage => ~udp[slot].enabled))
  PROVE  UdpInv' /\ ("register" \notin Usage => AddressesStay)
<1>1. UdpTypes
  BY DEF Types, UdpTypes
<1>2. CASE udp' = udp
  BY <1>1, <1>2 DEF UdpInv, UdpTypes, TtlInv, AddressesStay
<1>3. ASSUME NEW h \in Peers, udp' = [udp EXCEPT ![slot].addr = h], slot \in UdpSlots,
             "register" \notin Usage => ~udp[slot].enabled
      PROVE  UdpInv' /\ ("register" \notin Usage => AddressesStay)
  <2>1. PICK r : r = [udp[slot] EXCEPT !.addr = h]
    OBVIOUS
  <2>2. /\ r \in [addr : Peers \cup {Null}, enabled : BOOLEAN, ttl : 0 .. kDefaultTtlValue]
        /\ r.enabled = udp[slot].enabled /\ r.ttl = udp[slot].ttl
    BY <1>1, <1>3, <2>1 DEF UdpTypes
  <2>3. udp' = [udp EXCEPT ![slot] = r]
    BY <1>1, <1>3, <2>1 DEF UdpTypes
  <2>4. UdpTypes'
    BY <1>1, <1>3, <2>2, <2>3 DEF UdpTypes, kDefaultTtlValue
  <2>5. \A i \in UdpSlots : /\ udp'[i].enabled = udp[i].enabled
                            /\ udp'[i].ttl = udp[i].ttl
                            /\ i = slot \/ udp'[i] = udp[i]
    BY <1>1, <1>3, <2>2, <2>3 DEF UdpTypes
  <2>6. TtlInv'
    BY <2>5 DEF TtlInv
  <2>7. "register" \notin Usage => AddressesStay
    BY <1>3, <2>5 DEF AddressesStay
  <2> QED BY <2>4, <2>6, <2>7 DEF UdpInv
<1> QED BY <1>2, <1>3

LEMMA RecvEnterKeepsOrder ==
  ASSUME Types, TtlInv, SlotInv, RecvEnter
  PROVE  UdpInv' /\ AddressesStay
<1>1. slot \in UdpSlots
  BY DEF SlotInv, RecvEnter
<1>2. \A i \in UdpSlots : Entered(i)
  BY <1>1, RecvEnterEnters
<1>3. UdpTypes'
  BY <1>1, RecvEnterEnters DEF UdpTypes, kDefaultTtlValue
<1>4. \A i \in UdpSlots : udp[i].ttl \in Nat /\ udp[i].ttl <= UdpMax
  BY SocketFacts DEF Types, kDefaultTtlValue
<1>5. \A a \in Apps : chosen'[a] = chosen[a]
  BY DEF RecvEnter, threads
<1>6. \A i \in UdpSlots : udp'[i].enabled => udp'[i].ttl >= 1 /\ udp'[i].ttl < UdpMax
  <2> SUFFICES ASSUME NEW i \in UdpSlots, udp'[i].enabled
               PROVE  udp'[i].ttl >= 1 /\ udp'[i].ttl < UdpMax
    OBVIOUS
  <2>1. CASE i = slot
    <3>1. UdpMax > 1 /\ udp'[i].ttl = UdpMax - 1
      BY <1>2, <2>1 DEF Entered
    <3> QED BY <3>1, SocketFacts
  <2>2. CASE i # slot
    <3>1. udp[i].enabled /\ udp[i].ttl > 1 /\ udp'[i].ttl = udp[i].ttl - 1
      BY <1>2, <2>2 DEF Entered
    <3> QED BY <1>4, <3>1, SocketFacts
  <2> QED BY <2>1, <2>2
<1>7. ASSUME "register" \notin Usage, NEW i \in UdpSlots, NEW j \in UdpSlots,
             udp'[i].enabled, udp'[j].enabled, udp'[i].ttl = udp'[j].ttl
      PROVE  i = j
  <2>1. /\ \A k \in UdpSlots : udp[k].enabled => udp[k].ttl < UdpMax
        /\ udp[i].enabled /\ udp[j].enabled /\ udp[i].ttl = udp[j].ttl => i = j
    BY <1>7 DEF TtlInv
  <2>2. \A k \in UdpSlots : k # slot /\ udp'[k].enabled =>
          udp[k].enabled /\ udp'[k].ttl = udp[k].ttl - 1
    BY <1>2 DEF Entered
  <2>3. udp'[slot].ttl = UdpMax - 1
    BY <1>1, <1>2 DEF Entered
  <2>4. CASE i = slot \/ j = slot
    BY <1>1, <1>4, <1>7, <2>1, <2>2, <2>3, <2>4, SocketFacts
  <2>5. CASE i # slot /\ j # slot
    BY <1>4, <1>7, <2>1, <2>2, <2>5
  <2> QED BY <2>4, <2>5
<1>8. TtlInv'
  BY <1>5, <1>6, <1>7 DEF TtlInv
<1>9. AddressesStay
  BY <1>2 DEF AddressesStay, Entered
<1> QED BY <1>3, <1>8, <1>9 DEF UdpInv

LEMMA UdpStep ==
  ASSUME Types, TtlInv, SlotInv, [Next]_vars
  PROVE  UdpInv' /\ ("register" \notin Usage => AddressesStay)
<1> USE DEF tables, threads
<1>1. CASE UNCHANGED <<udp, chosen>>
  BY <1>1, UdpStays
<1>2. CASE RecvFrom
  <2>1. /\ slot \in UdpSlots /\ ("register" \notin Usage => ~udp[slot].enabled)
        /\ UNCHANGED chosen
        /\ udp' = udp \/ \E h \in Peers : udp' = [udp EXCEPT ![slot].addr = h]
    BY <1>2 DEF RecvFrom, SlotInv
  <2> QED BY <2>1, UdpStays
<1>3. CASE RecvEnter
  BY <1>3, RecvEnterKeepsOrder
<1>4. ASSUME NEW a \in Apps, RegisterChoose(a)
      PROVE  UdpInv' /\ ("register" \notin Usage => AddressesStay)
  <2>1. "register" \in Usage /\ udp' = udp
    BY <1>4 DEF RegisterChoose
  <2> QED BY <2>1 DEF UdpInv, UdpTypes, TtlInv, Types
<1>5. ASSUME NEW a \in Apps, RegisterUdpAddress(a)
      PROVE  UdpInv' /\ ("register" \notin Usage => AddressesStay)
  <2>1. PICK h \in Peers : udp' = [udp EXCEPT ![chosen[a]] =
                 [addr |-> h, enabled |-> TRUE, ttl |-> kDefaultTtlValue]]
    BY <1>5 DEF RegisterUdpAddress
  <2>2. chosen[a] # -1 /\ chosen[a] \in UdpSlots
    BY <1>5 DEF RegisterUdpAddress, Types
  <2>3. "register" \in Usage
    BY <2>2 DEF TtlInv
  <2>4. /\ UdpTypes' /\ udp'[chosen[a]].ttl = UdpMax
        /\ \A i \in UdpSlots : i = chosen[a] \/ udp'[i] = udp[i]
    BY <2>1, <2>2, SocketFacts DEF Types, UdpTypes, kDefaultTtlValue
  <2>5. TtlInv'
    BY <2>2, <2>3, <2>4, SocketFacts DEF TtlInv
  <2> QED BY <2>3, <2>4, <2>5 DEF UdpInv
<1>6. CASE Reopen
  <2>1. udp' = [i \in UdpSlots |-> [udp[i] EXCEPT !.enabled = FALSE]] /\ chosen' = chosen
    BY <1>6 DEF Reopen
  <2>2. \A i \in UdpSlots :
          /\ udp'[i] \in [addr : Peers \cup {Null}, enabled : BOOLEAN,
                          ttl : 0 .. kDefaultTtlValue]
          /\ ~udp'[i].enabled
    BY <2>1 DEF Types
  <2>3. UdpTypes'
    BY <2>1, <2>2 DEF UdpTypes, kDefaultTtlValue
  <2> QED BY <2>1, <2>2, <2>3 DEF UdpInv, TtlInv, AddressesStay
<1>7. [Next]_vars => \/ UNCHANGED <<udp, chosen>> \/ RecvFrom \/ RecvEnter \/ Reopen
                     \/ \E a \in Apps : RegisterChoose(a) \/ RegisterUdpAddress(a)
  <2>1. Poll => UNCHANGED <<udp, chosen>> \/ RecvFrom \/ RecvEnter
    BY DEF Poll, Accept, ReadEnds, ReadSkip, ReadTake, ReadResult, RecvSkip, RecvTake,
           TransmitNothing, TransmitPop, TransmitUdp, TransmitTcp, TransmitDrop,
           Write, WriteEnds
  <2>2. \A a \in Apps : App(a) =>
          UNCHANGED <<udp, chosen>> \/ RegisterChoose(a) \/ RegisterUdpAddress(a)
    BY DEF App, GetTxPacket, TransmitPacket, ReceivePacket, ReuseBuffer
  <2> QED BY <2>1, <2>2 DEF Next, vars
<1> QED BY <1>1, <1>2, <1>3, <1>4, <1>5, <1>6, <1>7

\* select() watches the clients of the table.
TcpTypes == tcp \in [TcpSlots -> Peers \cup {Null}] /\ fds \subseteq Peers

LEMMA TcpStep ==
  ASSUME Types, SlotInv, WatchedAreTheClients, [Next]_vars
  PROVE  TcpTypes' /\ WatchedAreTheClients'
<1> USE DEF tables
<1>1. TcpTypes /\ Null \notin Peers
  BY SocketFacts DEF Types, TcpTypes
<1>2. CASE UNCHANGED <<tcp, fds>>
  BY <1>1, <1>2 DEF TcpTypes, WatchedAreTheClients
<1>3. ASSUME NEW i \in TcpSlots, tcp[i] = Null, NEW h \in Peers,
             \A j \in TcpSlots : h # tcp[j],
             tcp' = [tcp EXCEPT ![i] = h], fds' = fds \cup {h}
      PROVE  TcpTypes' /\ WatchedAreTheClients'
  <2>1. \A j \in TcpSlots : tcp'[j] = IF j = i THEN h ELSE tcp[j]
    BY <1>1, <1>3 DEF TcpTypes
  <2>2. TcpTypes'
    BY <1>1, <1>3 DEF TcpTypes
  <2>3. fds' = {tcp'[j] : j \in TcpSlots} \ {Null}
    BY <1>1, <1>3, <2>1 DEF WatchedAreTheClients
  <2>4. \A j, k \in TcpSlots : tcp'[j] = tcp'[k] /\ tcp'[j] # Null => j = k
    BY <1>3, <2>1 DEF WatchedAreTheClients
  <2> QED BY <2>2, <2>3, <2>4 DEF WatchedAreTheClients
<1>4. ASSUME NEW i \in TcpSlots, tcp' = [tcp EXCEPT ![i] = Null],
             fds' = fds \ {tcp[i]}
      PROVE  TcpTypes' /\ WatchedAreTheClients'
  <2>1. \A j \in TcpSlots : tcp'[j] = IF j = i THEN Null ELSE tcp[j]
    BY <1>1, <1>4 DEF TcpTypes
  <2>2. TcpTypes'
    BY <1>1, <1>4 DEF TcpTypes
  <2>3. fds' = {tcp'[j] : j \in TcpSlots} \ {Null}
    BY <1>1, <1>4, <2>1 DEF WatchedAreTheClients
  <2>4. \A j, k \in TcpSlots : tcp'[j] = tcp'[k] /\ tcp'[j] # Null => j = k
    BY <2>1 DEF WatchedAreTheClients
  <2> QED BY <2>2, <2>3, <2>4 DEF WatchedAreTheClients
<1>5. ASSUME tcp' = [i \in TcpSlots |-> Null], fds' = {}
      PROVE  TcpTypes' /\ WatchedAreTheClients'
  BY <1>5 DEF TcpTypes, WatchedAreTheClients
<1>6. Accept =>
        \/ UNCHANGED <<tcp, fds>>
        \/ \E i \in TcpSlots, h \in Peers :
             /\ tcp[i] = Null /\ \A j \in TcpSlots : h # tcp[j]
             /\ tcp' = [tcp EXCEPT ![i] = h] /\ fds' = fds \cup {h}
  BY FreeTcpSlot DEF Accept
<1>7. ReadResult =>
        \/ UNCHANGED <<tcp, fds>>
        \/ \E i \in TcpSlots : tcp' = [tcp EXCEPT ![i] = Null] /\ fds' = fds \ {tcp[i]}
  BY DEF ReadResult, SlotInv, Unwatch
<1>8. Reopen => tcp' = [i \in TcpSlots |-> Null] /\ fds' = {}
  BY DEF Reopen
<1>9. Poll => UNCHANGED <<tcp, fds>> \/ Accept \/ ReadResult
  BY DEF Poll, ReadEnds, ReadSkip, ReadTake, RecvSkip, RecvTake, RecvFrom, RecvEnter,
         TransmitNothing, TransmitPop, TransmitUdp, TransmitTcp, TransmitDrop,
         Write, WriteEnds
<1>10. \A a \in Apps : App(a) => UNCHANGED <<tcp, fds>>
  BY DEF App, GetTxPacket, TransmitPacket, ReceivePacket, ReuseBuffer,
         RegisterChoose, RegisterUdpAddress
<1>11. CASE Accept
  BY <1>2, <1>3, <1>6, <1>11
<1>12. CASE ReadResult
  BY <1>2, <1>4, <1>7, <1>12
<1>13. CASE Reopen
  BY <1>5, <1>8, <1>13
<1> QED BY <1>2, <1>9, <1>10, <1>11, <1>12, <1>13 DEF Next, vars

\* Poll() works on a slot of the table.
LEMMA SlotStep ==
  ASSUME Types, SlotInv, TtlInv, [Next]_vars
  PROVE  SlotInv' /\ slot' \in 0 .. TcpMax + UdpMax
<1> USE DEF tables
<1>1. slot \in 0 .. TcpMax + UdpMax
  BY DEF Types
<1>2. CASE UNCHANGED <<pc, slot, udp>>
  BY <1>1, <1>2 DEF SlotInv
<1>3. CASE pc' \in {"recv", "pop", "send", "accept", "write"} /\ (slot' = slot \/ slot' = 0)
  BY <1>1, <1>3, SocketFacts DEF SlotInv
<1>4. CASE pc' = "read" /\ slot' = 0
  BY <1>4, SocketFacts DEF SlotInv
<1>5. CASE ReadSkip \/ ReadResult
  <2>1. slot \in TcpSlots /\ slot' = slot + 1 /\ pc' = "read"
    BY <1>5 DEF ReadSkip, ReadResult, SlotInv
  <2>2. slot + 1 <= TcpMax /\ slot + 1 \in Nat
    BY <2>1, SlotFacts
  <2> QED BY <2>1, <2>2, SlotFacts DEF SlotInv
<1>6. CASE ReadTake
  BY <1>1, <1>6 DEF ReadTake, SlotInv
<1>7. CASE RecvTake
  <2>1. slot' \in UdpSlots /\ ~udp[slot'].enabled /\ udp' = udp /\ pc' = "from"
    BY <1>7, FreeUdpSlot DEF RecvTake
  <2> QED BY <2>1, SlotFacts DEF SlotInv
<1>8. CASE RecvFrom /\ pc' = "enter"
  <2>1. /\ slot \in UdpSlots /\ slot' = slot
        /\ "register" \notin Usage => ~udp[slot].enabled
    BY <1>8 DEF RecvFrom, SlotInv
  <2>2. PICK h \in Peers : udp' = [udp EXCEPT ![slot].addr = h]
    BY <1>8 DEF RecvFrom
  <2>3. udp'[slot].enabled = udp[slot].enabled
    BY <2>1, <2>2 DEF Types
  <2> QED BY <1>1, <1>8, <2>1, <2>3 DEF SlotInv
<1>9. ASSUME NEW a \in Apps, RegisterUdpAddress(a)
      PROVE  SlotInv' /\ slot' \in 0 .. TcpMax + UdpMax
  <2>1. "register" \in Usage
    BY <1>9 DEF RegisterUdpAddress, TtlInv
  <2> QED BY <1>1, <1>9, <2>1 DEF RegisterUdpAddress, poll, SlotInv
<1>10. \A a \in Apps : App(a) => UNCHANGED <<pc, slot, udp>> \/ RegisterUdpAddress(a)
  BY DEF App, GetTxPacket, TransmitPacket, ReceivePacket, ReuseBuffer,
         RegisterChoose, poll
<1>11. CASE Poll
  <2>1. CASE Accept \/ ReadEnds \/ RecvSkip \/ RecvEnter \/ TransmitNothing
    BY <1>3, <1>4, <2>1 DEF Accept, ReadEnds, RecvSkip, RecvEnter, TransmitNothing
  <2>2. CASE TransmitPop \/ TransmitUdp \/ TransmitTcp \/ TransmitDrop \/ WriteEnds
    BY <1>3, <2>2 DEF TransmitPop, TransmitUdp, TransmitTcp, TransmitDrop, WriteEnds
  <2>3. CASE Write
    BY <1>2, <2>3 DEF Write
  <2>4. CASE RecvFrom /\ pc' = "pop"
    BY <1>3, <2>4 DEF RecvFrom
  <2>5. RecvFrom => pc' = "enter" \/ pc' = "pop"
    BY DEF RecvFrom
  <2> QED BY <1>5, <1>6, <1>7, <1>8, <1>11, <2>1, <2>2, <2>3, <2>4, <2>5 DEF Poll
<1>12. CASE Reopen
  BY <1>3, <1>12 DEF Reopen, poll
<1>13. CASE UNCHANGED vars
  BY <1>2, <1>13 DEF vars, poll
<1> QED BY <1>2, <1>9, <1>10, <1>11, <1>12, <1>13 DEF Next

\* The other variables keep their types.
HeadsArePackets == \A k \in Kinds : /\ buffered[k] # << >> => Head(buffered[k]) \in Packets
                                    /\ reserved[k] # << >> => Head(reserved[k]) \in Packets

LEMMA HeadsAre == ASSUME PacketInv PROVE HeadsArePackets
BY BuffersFit DEF HeadsArePackets

LEMMA MadeStep ==
  ASSUME PacketInv, Types, [Next]_vars
  PROVE  made' \in [Kinds -> 0 .. MaxPackets]
<1>1. [Next]_vars => UNCHANGED made \/ Reopen
  BY DEF Next, vars, buffers, Poll, Accept, ReadEnds, ReadSkip, ReadTake, ReadResult,
         RecvSkip, RecvTake, RecvFrom, RecvEnter, TransmitNothing, TransmitPop,
         TransmitUdp, TransmitTcp, TransmitDrop, Write, WriteEnds, App, GetTxPacket,
         TransmitPacket, ReceivePacket, ReuseBuffer, RegisterChoose, RegisterUdpAddress
<1>2. CASE UNCHANGED made
  BY <1>2 DEF Types
<1>3. CASE Reopen
  <2>1. made' = [k \in Kinds |-> made[k] + Depth - 1 - Len(reserved[k])]
    BY <1>3 DEF Reopen
  <2>2. ASSUME NEW k \in Kinds
        PROVE  made[k] + Depth - 1 - Len(reserved[k]) \in 0 .. MaxPackets
    <3>1. made[k] = Depth - 1
      BY <1>3 DEF Reopen
    <3>2. Len(reserved[k]) \in Nat /\ Len(reserved[k]) < Depth
      BY BuffersFit
    <3>3. /\ (Depth - 1) + Depth - 1 - Len(reserved[k]) >= 0
          /\ (Depth - 1) + Depth - 1 - Len(reserved[k]) <= MaxPackets
      BY <3>2, SocketFacts
    <3>4. (Depth - 1) + Depth - 1 - Len(reserved[k]) \in Int
      BY <3>2, SocketFacts
    <3> QED BY <3>1, <3>3, <3>4, SocketFacts
  <2> QED BY <2>1, <2>2
<1> QED BY <1>1, <1>2, <1>3

LEMMA AdrStep ==
  ASSUME PacketInv, Types, SlotInv, [Next]_vars
  PROVE  adr' \in [Packets -> Numbers]
<1>1. adr \in [Packets -> Numbers] /\ known \in [Apps -> Numbers] /\ HandInv
  BY DEF Types, PacketInv
<1>2. CASE UNCHANGED adr
  BY <1>1, <1>2
<1>3. ASSUME NEW p, NEW n \in Numbers, adr' = [adr EXCEPT ![p] = n]
      PROVE  adr' \in [Packets -> Numbers]
  BY <1>1, <1>3
<1>4. \A k, p : Reuse(k, p) => adr' = [adr EXCEPT ![p] = -1]
  BY DEF Reuse
<1>5. CASE ReadResult
  <2>1. slot \in Numbers
    BY <1>5, SlotFacts DEF ReadResult, SlotInv
  <2> QED BY <1>3, <1>4, <1>5, <2>1, SlotFacts DEF ReadResult, ReadReuse
<1>6. CASE RecvFrom
  <2>1. Offset + slot \in Numbers
    BY <1>6, SlotFacts DEF RecvFrom, SlotInv
  <2> QED BY <1>3, <1>4, <1>6, <2>1, SlotFacts DEF RecvFrom
<1>7. CASE TransmitUdp \/ WriteEnds \/ \E a \in Apps, k \in Kinds : ReuseBuffer(a, k)
  BY <1>3, <1>4, <1>7, SlotFacts DEF TransmitUdp, WriteEnds, WriteReuse, ReuseBuffer
<1>8. ASSUME NEW a \in Apps, TransmitPacket(a) PROVE adr' \in [Packets -> Numbers]
  <2>1. known[a] \in Numbers
    BY <1>1
  <2> QED BY <1>3, <1>8, <2>1 DEF TransmitPacket
<1>9. Poll => UNCHANGED adr \/ ReadResult \/ RecvFrom \/ TransmitUdp \/ WriteEnds
  BY DEF Poll, Accept, ReadEnds, ReadSkip, ReadTake, RecvSkip, RecvTake, RecvEnter,
         TransmitNothing, TransmitPop, TransmitTcp, TransmitDrop, Write
<1>10. \A a \in Apps : App(a) => \/ UNCHANGED adr \/ TransmitPacket(a)
                                 \/ \E k \in Kinds : ReuseBuffer(a, k)
  BY DEF App, GetTxPacket, ReceivePacket, RegisterChoose, RegisterUdpAddress
<1>11. Reopen => UNCHANGED adr
  BY DEF Reopen
<1> QED BY <1>2, <1>5, <1>6, <1>7, <1>8, <1>9, <1>10, <1>11 DEF Next, vars

LEMMA ThreadsStep ==
  ASSUME PacketInv, Types, SlotInv, [Next]_vars
  PROVE  /\ known' \in [Apps -> Numbers]
         /\ mine' \in [Apps -> [Kinds -> Packets \cup {Null}]]
         /\ chosen' \in [Apps -> {-1} \cup UdpSlots]
<1> DEFINE Thread == /\ known' \in [Apps -> Numbers]
                     /\ mine' \in [Apps -> [Kinds -> Packets \cup {Null}]]
                     /\ chosen' \in [Apps -> {-1} \cup UdpSlots]
<1>1. /\ known \in [Apps -> Numbers] /\ chosen \in [Apps -> {-1} \cup UdpSlots]
      /\ mine \in [Apps -> [Kinds -> Packets \cup {Null}]]
      /\ adr \in [Packets -> Numbers]
  BY DEF Types
<1>2. HeadsArePackets /\ "tx" \in Kinds /\ "rx" \in Kinds
  BY HeadsAre, SocketFacts
<1>3. CASE UNCHANGED threads
  BY <1>1, <1>3 DEF threads
<1>4. ASSUME NEW a \in Apps, NEW k \in Kinds, NEW p \in Packets \cup {Null},
             mine' = [mine EXCEPT ![a][k] = p], chosen' = chosen,
             known' = known \/ \E n \in Numbers : known' = [known EXCEPT ![a] = n]
      PROVE  Thread
  BY <1>1, <1>4
<1>5. \A a \in Apps : GetTxPacket(a) => Thread
  BY <1>2, <1>4 DEF GetTxPacket, HeadsArePackets
<1>6. \A a \in Apps : ReceivePacket(a) => Thread
  BY <1>1, <1>2, <1>4 DEF ReceivePacket, HeadsArePackets
<1>7. \A a \in Apps, k \in Kinds : ReuseBuffer(a, k) => Thread
  BY <1>4 DEF ReuseBuffer
<1>8. \A a \in Apps : TransmitPacket(a) => Thread
  BY <1>1, <1>2, <1>4 DEF TransmitPacket
<1>9. \A a \in Apps : RegisterChoose(a) => Thread
  BY <1>1, FreeUdpSlot DEF RegisterChoose
<1>10. ASSUME NEW a \in Apps, RegisterUdpAddress(a) PROVE Thread
  <2>1. Offset + chosen[a] \in Numbers
    BY <1>1, <1>10, SlotFacts DEF RegisterUdpAddress
  <2> QED BY <1>1, <1>10, <2>1 DEF RegisterUdpAddress
<1>11. Poll \/ Reopen => UNCHANGED threads
  BY DEF Reopen, Poll, Accept, ReadEnds, ReadSkip, ReadTake, ReadResult, RecvSkip,
         RecvTake, RecvFrom, RecvEnter, TransmitNothing, TransmitPop, TransmitUdp,
         TransmitTcp, TransmitDrop, Write, WriteEnds
<1> HIDE DEF Thread
<1>12. Thread
  BY <1>3, <1>5, <1>6, <1>7, <1>8, <1>9, <1>10, <1>11 DEF Next, App, vars, Thread
<1> QED BY <1>12 DEF Thread

LEMMA PollTypesStep ==
  ASSUME PacketInv, PacketInv', Types, [Next]_vars
  PROVE  /\ pc' \in {"accept", "read", "data", "recv", "from", "enter", "pop",
                     "send", "write"}
         /\ hand' \in Packets \cup {Null} /\ residue' \in Int /\ failed' \in BOOLEAN
<1>1. /\ pc \in {"accept", "read", "data", "recv", "from", "enter", "pop", "send",
                 "write"}
      /\ residue \in Int /\ failed \in BOOLEAN
  BY DEF Types
<1>2. pc' \in {"accept", "read", "data", "recv", "from", "enter", "pop", "send", "write"}
  <2>1. Poll => pc' = pc \/ pc' \in {"accept", "read", "data", "recv", "from",
                                     "enter", "pop", "send", "write"}
    BY DEF Poll, Accept, ReadEnds, ReadSkip, ReadTake, ReadResult, RecvSkip, RecvTake,
           RecvFrom, RecvEnter, TransmitNothing, TransmitPop, TransmitUdp, TransmitTcp,
           TransmitDrop, Write, WriteEnds
  <2>2. (Reopen \/ \E a \in Apps : App(a)) => pc' = pc
    BY DEF Reopen, App, GetTxPacket, TransmitPacket, ReceivePacket, ReuseBuffer,
           RegisterChoose, RegisterUdpAddress, poll
  <2> QED BY <1>1, <2>1, <2>2 DEF Next, vars, poll
<1>3. hand' \in Packets \cup {Null}
  BY <1>2 DEF PacketInv, HandInv
<1>4. residue' \in Int
  <2>1. CASE TransmitTcp
    BY <2>1, SocketFacts DEF TransmitTcp
  <2>2. CASE Write
    BY <1>1, <2>2, SocketFacts DEF Write
  <2>3. Poll => UNCHANGED residue \/ TransmitTcp \/ Write
    BY DEF Poll, Accept, ReadEnds, ReadSkip, ReadTake, ReadResult, RecvSkip, RecvTake,
           RecvFrom, RecvEnter, TransmitNothing, TransmitPop, TransmitUdp,
           TransmitDrop, WriteEnds
  <2>4. (Reopen \/ \E a \in Apps : App(a)) => UNCHANGED residue
    BY DEF Reopen, App, GetTxPacket, TransmitPacket, ReceivePacket, ReuseBuffer,
           RegisterChoose, RegisterUdpAddress, poll
  <2> QED BY <1>1, <2>1, <2>2, <2>3, <2>4 DEF Next, vars, poll
<1>5. failed' \in BOOLEAN
  <2>1. \A k, p : Reuse(k, p) => failed' \in BOOLEAN
    BY DEF Reuse, Room
  <2>2. Poll => UNCHANGED failed \/ failed' \in BOOLEAN
    BY <2>1 DEF Poll, Accept, ReadEnds, ReadSkip, ReadTake, ReadResult, ReadReuse,
           RecvSkip, RecvTake, RecvFrom, RecvEnter, TransmitNothing, TransmitPop,
           TransmitUdp, TransmitTcp, TransmitDrop, Write, WriteEnds, WriteReuse
  <2>3. (Reopen \/ \E a \in Apps : App(a)) => UNCHANGED failed \/ failed' \in BOOLEAN
    BY <2>1 DEF Reopen, App, GetTxPacket, TransmitPacket, ReceivePacket, ReuseBuffer,
           RegisterChoose, RegisterUdpAddress
  <2> QED BY <1>1, <2>2, <2>3 DEF Next, vars
<1> QED BY <1>2, <1>3, <1>4, <1>5

-----------------------------------------------------------------------------
LEMMA SocketInvInit == Init => SocketInv
<1> SUFFICES ASSUME Init PROVE SocketInv
  OBVIOUS
<1>1. PacketInv
  BY PacketInvInit
<1>2. SlotInv /\ TtlInv /\ WatchedAreTheClients
  BY DEF Init, SlotInv, TtlInv, NoClient, WatchedAreTheClients
<1>3. Types
  <2>1. /\ -1 \in Numbers /\ Depth - 1 \in 0 .. MaxPackets
        /\ 0 \in 0 .. kDefaultTtlValue /\ 0 \in 0 .. TcpMax + UdpMax
    BY SocketFacts, SlotFacts
  <2>2. /\ made \in [Kinds -> 0 .. MaxPackets] /\ adr \in [Packets -> Numbers]
        /\ known \in [Apps -> Numbers] /\ chosen \in [Apps -> {-1} \cup UdpSlots]
        /\ mine \in [Apps -> [Kinds -> Packets \cup {Null}]]
    BY <2>1 DEF Init
  <2>3. udp \in [UdpSlots -> [addr : Peers \cup {Null}, enabled : BOOLEAN,
                              ttl : 0 .. kDefaultTtlValue]]
    BY <2>1 DEF Init, NoClient
  <2>4. /\ tcp \in [TcpSlots -> Peers \cup {Null}] /\ fds \subseteq Peers
        /\ slot \in 0 .. TcpMax + UdpMax
    BY <2>1 DEF Init
  <2>5. pc = "accept" /\ hand = Null /\ residue = 0 /\ failed = FALSE
    BY DEF Init
  <2>6. /\ pc \in {"accept", "read", "data", "recv", "from", "enter", "pop", "send",
                   "write"}
        /\ hand \in Packets \cup {Null} /\ residue \in Int
    BY <2>5
  <2>7. failed \in BOOLEAN
    BY <2>5, Zenon
  <2> HIDE <2>1, <2>5
  <2> QED BY <2>2, <2>3, <2>4, <2>6, <2>7 DEF Types
<1> QED BY <1>1, <1>2, <1>3 DEF SocketInv

LEMMA SocketInvStep ==
  ASSUME SocketInv, [Next]_vars
  PROVE  /\ SocketInv' /\ NothingIsLost
         /\ "register" \notin Usage => AddressesStay
<1>1. PacketInv /\ Types /\ SlotInv /\ TtlInv /\ WatchedAreTheClients
  BY DEF SocketInv
<1>2. PacketInv' /\ NothingIsLost
  <2>1. mine \in [Apps -> [Kinds -> Packets \cup {Null}]]
    BY <1>1 DEF Types
  <2> QED BY <1>1, <2>1, PacketsStep
<1>3. UdpInv' /\ ("register" \notin Usage => AddressesStay)
  BY <1>1, UdpStep
<1>4. TcpTypes' /\ WatchedAreTheClients'
  BY <1>1, TcpStep
<1>5. SlotInv' /\ slot' \in 0 .. TcpMax + UdpMax
  BY <1>1, SlotStep
<1>6. Types'
  <2>1. made' \in [Kinds -> 0 .. MaxPackets] /\ adr' \in [Packets -> Numbers]
    BY <1>1, MadeStep, AdrStep
  <2>2. /\ known' \in [Apps -> Numbers]
        /\ mine' \in [Apps -> [Kinds -> Packets \cup {Null}]]
        /\ chosen' \in [Apps -> {-1} \cup UdpSlots]
    BY <1>1, ThreadsStep
  <2>3. /\ pc' \in {"accept", "read", "data", "recv", "from", "enter", "pop",
                    "send", "write"}
        /\ hand' \in Packets \cup {Null} /\ residue' \in Int /\ failed' \in BOOLEAN
    BY <1>1, <1>2, PollTypesStep
  <2> QED BY <1>3, <1>4, <1>5, <2>1, <2>2, <2>3 DEF Types, UdpInv, UdpTypes, TcpTypes,
             Numbers, kDefaultTtlValue
<1> QED BY <1>2, <1>3, <1>4, <1>5, <1>6 DEF SocketInv, UdpInv

\* The invariant, of which the theorems below are consequences.
THEOREM SocketInvariant == Spec => []SocketInv
<1>1. Init => SocketInv
  BY SocketInvInit
<1>2. SocketInv /\ [Next]_vars => SocketInv'
  BY SocketInvStep
<1> QED BY <1>1, <1>2, PTL DEF Spec

-----------------------------------------------------------------------------
(***************************************************************************)
(* Owners is the set of the places of a packet.                            *)
(***************************************************************************)
LEMMA InIs ==
  ASSUME NEW b, Queues(b, Kinds, Packets, KindOf), NEW p \in Packets,
         \A k \in Kinds : Len(b[k]) < Depth
  PROVE  /\ In(b, p) # {} <=> Queued(b, p)
         /\ \A x, y \in In(b, p) : x = y
<1>1. /\ DOMAIN b = Kinds /\ Depth \in Nat
      /\ \A k \in Kinds : /\ b[k] \in Seq(Packets) /\ NoDuplicates(b[k])
                          /\ \A u \in Members(b[k]) : u[1] = k
  <2> SUFFICES ASSUME NEW k \in Kinds
               PROVE  /\ b[k] \in Seq(Packets) /\ NoDuplicates(b[k])
                      /\ \A u \in Members(b[k]) : u[1] = k
    BY SocketFacts DEF Queues
  <2>1. /\ b[k] \in Seq(Packets) /\ NoDuplicates(b[k])
        /\ \A u \in Members(b[k]) : k = KindOf[u]
    BY DEF Queues
  <2>2. Members(b[k]) \subseteq Packets
    BY <2>1, MembersOf
  <2> QED BY <2>1, <2>2, SocketFacts
<1>2. ASSUME NEW k \in Kinds, NEW j \in DOMAIN b[k]
      PROVE  j \in 1 .. Depth /\ b[k][j] \in Members(b[k])
  <2>1. b[k] \in Seq(Packets) /\ Len(b[k]) < Depth /\ Len(b[k]) \in Nat
    BY <1>1
  <2>2. j \in 1 .. Len(b[k])
    BY <1>2, <2>1
  <2> QED BY <1>1, <2>1, <2>2 DEF Members
<1>3. ASSUME Queued(b, p) PROVE In(b, p) # {}
  <2>1. PICK k \in Kinds : p \in Members(b[k])
    BY <1>1, <1>3 DEF Queued
  <2>2. PICK j \in DOMAIN b[k] : b[k][j] = p
    BY <1>1, <2>1 DEF Members
  <2>3. <<k, j>> \in Kinds \X (1 .. Depth)
    BY <1>2, <2>2
  <2>4. <<k, j>> \in In(b, p)
    BY <2>2, <2>3 DEF In
  <2> QED BY <2>4
<1>4. ASSUME NEW x \in In(b, p)
      PROVE  /\ x[1] = p[1] /\ x[1] \in Kinds /\ x = <<x[1], x[2]>>
             /\ x[2] \in DOMAIN b[p[1]] /\ b[p[1]][x[2]] = p /\ Queued(b, p)
  <2>1. /\ x \in Kinds \X (1 .. Depth)
        /\ x[2] \in DOMAIN b[x[1]] /\ b[x[1]][x[2]] = p
    BY <1>4 DEF In
  <2>2. x[1] \in Kinds /\ x = <<x[1], x[2]>>
    BY <2>1
  <2>3. p \in Members(b[x[1]])
    BY <1>2, <2>1, <2>2
  <2> QED BY <1>1, <2>1, <2>2, <2>3 DEF Queued
<1>5. ASSUME NEW x \in In(b, p), NEW y \in In(b, p) PROVE x = y
  <2>1. x[2] = y[2]
    BY <1>1, <1>4 DEF NoDuplicates
  <2> QED BY <1>4, <2>1
<1> QED BY <1>3, <1>4, <1>5

LEMMA OwnersAre ==
  ASSUME PacketInv, NEW p \in Packets
  PROVE  /\ Owners(p) # {} <=> Somewhere(p)
         /\ Cardinality(Owners(p)) <= 1
<1>1. /\ In(buffered, p) # {} <=> Queued(buffered, p)
      /\ \A x, y \in In(buffered, p) : x = y
      /\ In(reserved, p) # {} <=> Queued(reserved, p)
      /\ \A x, y \in In(reserved, p) : x = y
  BY BuffersFit, InIs DEF PacketInv, KindsAreRight
<1>2. \A o : o \in Owners(p) <=>
        \/ \E x \in In(buffered, p) : o = <<"buffered", x>>
        \/ \E x \in In(reserved, p) : o = <<"reserved", x>>
        \/ \E a \in Apps : With(a, p) /\ o = <<"mine", a>>
        \/ hand = p /\ o = <<"Poll", 0>>
  BY DEF Owners, With
<1>3. Owners(p) # {} <=> Somewhere(p)
  <2>1. ASSUME Somewhere(p) PROVE Owners(p) # {}
    BY <1>1, <1>2, <2>1 DEF Somewhere
  <2>2. ASSUME NEW o \in Owners(p) PROVE Somewhere(p)
    BY <1>1, <1>2, <2>2 DEF Somewhere
  <2> QED BY <2>1, <2>2
<1>4. ASSUME NEW o \in Owners(p), NEW q \in Owners(p) PROVE o = q
  <2>1. InOnePlace(p)
    BY DEF PacketInv
  <2> QED BY <1>1, <1>2, <1>4, <2>1 DEF InOnePlace
<1>5. Cardinality(Owners(p)) <= 1
  <2>1. CASE Owners(p) = {}
    BY <2>1, FS_EmptySet
  <2>2. CASE Owners(p) # {}
    <3>1. PICK o : o \in Owners(p)
      BY <2>2
    <3>2. Owners(p) = {o}
      BY <1>4, <3>1
    <3>3. Cardinality({o}) = 1
      BY FS_Singleton
    <3>4. Cardinality(Owners(p)) = 1
      BY <3>2, <3>3
    <3> QED BY <3>4
  <2> QED BY <2>1, <2>2
<1> QED BY <1>3, <1>5

-----------------------------------------------------------------------------
\* Poll() never reads into, or sends, a packet that a thread uses or that waits in
\* a buffer; no packet for receiving is lost, whatever read() and recvfrom()
\* answer; every packet that is put back finds room, and the results of the pushes
\* that the code ignores are all true.
THEOREM PacketsAreConservedHolds == Spec => []PacketsAreConserved
<1>1. SocketInv => PacketsAreConserved
  <2> SUFFICES ASSUME SocketInv PROVE PacketsAreConserved
    OBVIOUS
  <2>1. PacketInv /\ Types /\ TypeOK
    BY TypesAre DEF SocketInv
  <2>2. NoPacketHasTwoOwners
    BY <2>1, OwnersAre DEF NoPacketHasTwoOwners
  <2>3. ReceivePacketsAreConserved
    <3> SUFFICES ASSUME NEW j \in 1 .. made["rx"] PROVE Owners(<<"rx", j>>) # {}
      BY DEF ReceivePacketsAreConserved
    <3>1. made["rx"] \in 0 .. MaxPackets /\ "rx" \in Kinds
      BY <2>1, SocketFacts DEF Types
    <3>2. j \in 1 .. MaxPackets /\ j <= made["rx"]
      BY <3>1, SocketFacts
    <3>3. <<"rx", j>> \in Packets
      BY <3>1, <3>2, SocketFacts
    <3>4. Somewhere(<<"rx", j>>)
      BY <2>1, <3>2, <3>3 DEF PacketInv, Numbered
    <3> QED BY <2>1, <3>3, <3>4, OwnersAre
  <2>4. NoKassertFails
    BY <2>1 DEF PacketInv, NoKassertFails
  <2> QED BY <2>1, <2>2, <2>3, <2>4 DEF PacketsAreConserved
<1> QED BY <1>1, SocketInvariant, PTL

\* Of UdpMax slots one is free: their times to live are below UdpMax and differ.
LEMMA OneSlotIsFree ==
  ASSUME Types, TtlInv, "register" \notin Usage
  PROVE  UdpTableIsNeverFull
<1> SUFFICES ASSUME GetAvailableUdpClientIndex = -1 PROVE FALSE
  BY DEF UdpTableIsNeverFull
<1>1. \A i \in UdpSlots : udp[i].enabled
  BY FreeUdpSlot
<1>2. PICK f : f = [i \in UdpSlots |-> udp[i].ttl]
  OBVIOUS
<1>3. \A i \in UdpSlots : /\ f[i] = udp[i].ttl /\ f[i] \in Nat
                          /\ f[i] >= 1 /\ f[i] < UdpMax
  BY <1>1, <1>2, SocketFacts DEF Types, TtlInv, kDefaultTtlValue
<1>4. f \in [UdpSlots -> 1 .. UdpMax - 1]
  BY <1>2, <1>3, SocketFacts
<1>5. /\ IsFiniteSet(UdpSlots) /\ Cardinality(UdpSlots) = UdpMax
      /\ IsFiniteSet(1 .. UdpMax - 1) /\ Cardinality(1 .. UdpMax - 1) = UdpMax - 1
  <2>1. 0 \in Int /\ 1 \in Int /\ UdpMax - 1 \in Int /\ UdpMax - 1 >= 0
    BY SocketFacts
  <2>2. /\ IsFiniteSet(0 .. UdpMax - 1) /\ IsFiniteSet(1 .. UdpMax - 1)
        /\ Cardinality(0 .. UdpMax - 1) =
             IF 0 > UdpMax - 1 THEN 0 ELSE (UdpMax - 1) - 0 + 1
        /\ Cardinality(1 .. UdpMax - 1) =
             IF 1 > UdpMax - 1 THEN 0 ELSE (UdpMax - 1) - 1 + 1
    BY <2>1, FS_Interval
  <2> QED BY <2>1, <2>2, SocketFacts DEF UdpSlots
<1>6. Cardinality(1 .. UdpMax - 1) < Cardinality(UdpSlots)
  BY <1>5, SocketFacts
<1>7. PICK i, j \in UdpSlots : i # j /\ f[i] = f[j]
  BY <1>4, <1>5, <1>6, FS_PigeonHole
<1> QED BY <1>1, <1>3, <1>7 DEF TtlInv

\* select() is asked about the clients of the table, each in one slot, and as long
\* as no thread registers an address Poll() always finds a free slot to receive.
THEOREM TablesAreRightHolds == Spec => []TablesAreRight
<1>1. SocketInv => TablesAreRight
  BY TypesAre, OneSlotIsFree DEF SocketInv, TablesAreRight
<1> QED BY <1>1, SocketInvariant, PTL

\* Only a packet for a client that has gone between TransmitPacket() and Poll()
\* disappears, and the host behind a number changes only after it was cleared.
THEOREM NothingIsTakenAwayHolds == Spec => NothingIsTakenAway
<1>1. ASSUME SocketInv, PacketInv', TypeOK', [Next]_vars 
      PROVE  [OnlyGoneClientsCostPackets /\ ("register" \notin Usage => AddressesStay)]_vars
  <2>1. PacketInv /\ PacketInv'
    BY <1>1 DEF SocketInv
  <2>2. NothingIsLost /\ ("register" \notin Usage => AddressesStay)
    BY <1>1, SocketInvStep
  <2>3. OnlyGoneClientsCostPackets
    <3> SUFFICES ASSUME NEW p \in {"tx"} \X (1 .. MaxPackets),
                        Owners(p) # {}, Owners(p)' = {}
                 PROVE  ~IsValidClientIndex(adr[p])
      BY DEF OnlyGoneClientsCostPackets
    <3>1. p \in Packets
      BY DEF Packets
    <3>2. Somewhere(p)
      BY <2>1, <3>1, OwnersAre
    <3>3. ~Somewhere(p)'
      <4>1. In(buffered', p) = {} /\ In(reserved', p) = {} /\ hand' # p
        <5>1. ASSUME NEW x \in In(buffered', p) PROVE FALSE
          <6>1. <<"buffered", x>> \in Owners(p)'
            BY <5>1 DEF Owners, In
          <6> QED BY <6>1
        <5>2. ASSUME NEW x \in In(reserved', p) PROVE FALSE
          <6>1. <<"reserved", x>> \in Owners(p)'
            BY <5>2 DEF Owners, In
          <6> QED BY <6>1
        <5>3. ASSUME hand' = p PROVE FALSE
          <6>1. <<"Poll", 0>> \in Owners(p)'
            BY <5>3 DEF Owners
          <6> QED BY <6>1
        <5> QED BY <5>1, <5>2, <5>3
      <4>2. \A a \in Apps : ~With(a, p)'
        <5> SUFFICES ASSUME NEW a \in Apps, With(a, p)' PROVE FALSE
          OBVIOUS
        <5>1. <<"mine", a>> \in Owners(p)'
          BY DEF Owners, With
        <5> QED BY <5>1
      <4>3. Queues(buffered', Kinds, Packets, KindOf) /\ Queues(reserved', Kinds, Packets, KindOf)
        BY <2>1 DEF PacketInv, KindsAreRight
      <4>4. ~Queued(buffered', p) /\ ~Queued(reserved', p)
        BY <1>1, <3>1, <4>1, <4>3, InIs DEF TypeOK
      <4> QED BY <4>1, <4>2, <4>4 DEF Somewhere
    <3> QED BY <2>2, <3>1, <3>2, <3>3 DEF NothingIsLost, Kept
  <2> QED BY <2>2, <2>3
<1>2. SocketInv /\ PacketInv' /\ TypeOK' /\ [Next]_vars =>
        [OnlyGoneClientsCostPackets /\ ("register" \notin Usage => AddressesStay)]_vars
  BY <1>1
<1>3. SocketInv => PacketInv /\ TypeOK
  BY TypesAre DEF SocketInv
<1> QED BY <1>2, <1>3, SocketInvariant, PTL DEF Spec, NothingIsTakenAway
=============================================================================
