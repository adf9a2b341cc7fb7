---------------------------- MODULE PoolingSocket ----------------------------
(***************************************************************************)
(* PoolingSocket of rlib/net/psocket.{h,cc}.  Poll(), a polling on CPU 0,  *)
(* accepts clients, moves received packets from _rx_reserved to            *)
(* _rx_buffered and packets to be sent from _tx_buffered to _tx_reserved.  *)
(* Other threads take packets from the two buffers and put them back, and  *)
(* register UDP clients.                                                   *)
(*                                                                         *)
(* A ring buffer is a bounded sequence (module RingBuffer).  Poll() is one *)
(* step per call on a buffer or a socket, since these and the client table *)
(* are all it shares with the threads.  Clients are known by the slot of   *)
(* their table; who really is behind a slot is a member of Peers.          *)
(***************************************************************************)
EXTENDS Integers, Sequences, FiniteSets

CONSTANTS
  TcpMax, UdpMax,  \* kMaxClientNumber, of the one table and of the other
  Offset,          \* kUdpAddressOffset
  Depth,           \* kPoolDepth
  Length,          \* of every packet that is sent
  WriteResults,    \* what write() may return
  Apps,            \* the threads that use the socket
  Peers,           \* remote hosts; a host has at most one connection
  Usage,           \* what the threads do besides, see RegisterChoose and Reopen
  Null             \* no packet, no host

TcpSlots == 0 .. TcpMax - 1
UdpSlots == 0 .. UdpMax - 1
kDefaultTtlValue == UdpMax
MaxPackets == 2 * (Depth - 1)          \* bound: one Open() after Close()
Packets == {"tx", "rx"} \X (1 .. MaxPackets)

ASSUME PoolingSocketAssumption ==
  /\ TcpMax \in Nat /\ UdpMax \in Nat \ {0} /\ Offset \in Nat
  /\ TcpMax <= Offset /\ Depth \in Nat \ {0} /\ Length \in Nat \ {0}
  /\ WriteResults \subseteq Int
  /\ Usage \subseteq {"register", "reopen"}
  /\ Null \notin Peers \cup Packets

VARIABLES
  buffered, reserved,  \* the buffers of the packets to send and of the received
  adr,                 \* of a packet: the number of its client
  made,                \* how many packets were allocated
  tcp,                 \* _tcp_client: the host behind each slot, or Null
  fds,                 \* _fds
  udp,                 \* _udp_client
  pc,                  \* where Poll() is
  slot,                \* i or index in Poll()
  hand,                \* packet in Poll()
  residue,             \* the bytes that are left to write
  known,               \* the number of a client that a thread knows
  mine,                \* the packet of each kind that a thread has in its hands
  chosen,              \* index in RegisterUdpAddress() of each thread
  failed               \* a kassert has failed

buffers == <<buffered, reserved, made>>
tables == <<tcp, fds, udp>>
poll == <<pc, slot, hand, residue>>
threads == <<known, mine, chosen>>
vars == <<buffers, adr, tables, poll, threads, failed>>

\* InitPacketBuffer() fills _tx_reserved and _rx_reserved with new packets.
Fill(k, s, n) == s \o [j \in 1 .. Depth - 1 - Len(s) |-> <<k, n + j>>]

Kinds == {"tx", "rx"}
NoClient == [addr |-> Null, enabled |-> FALSE, ttl |-> 0]

Init ==
  /\ buffered = [k \in Kinds |-> <<>>]
  /\ reserved = [k \in Kinds |-> Fill(k, <<>>, 0)]
  /\ made = [k \in Kinds |-> Depth - 1]
  /\ adr = [p \in Packets |-> -1]
  /\ tcp = [i \in TcpSlots |-> Null]
  /\ fds = {}
  /\ udp = [i \in UdpSlots |-> NoClient]
  /\ pc = "accept" /\ slot = 0 /\ hand = Null /\ residue = 0
  /\ known = [a \in Apps |-> -1]
  /\ mine = [a \in Apps |-> [k \in Kinds |-> Null]]
  /\ chosen = [a \in Apps |-> -1]
  /\ failed = FALSE

IsValidTcpClientIndex(n) == n \in TcpSlots /\ tcp[n] # Null
IsValidUdpClientIndex(n) == n - Offset \in UdpSlots /\ udp[n - Offset].enabled
IsValidClientIndex(n) == IsValidTcpClientIndex(n) \/ IsValidUdpClientIndex(n)

\* The first index in a set, or -1.
First(S) == IF S = {} THEN -1 ELSE CHOOSE i \in S : \A j \in S : i <= j
GetAvailableTcpClientIndex == First({i \in TcpSlots : tcp[i] = Null})

GetAvailableUdpClientIndex == First({i \in UdpSlots : ~udp[i].enabled})

\* RingBuffer::Push() leaves a full buffer as it is and returns false ...
Room(s) == Len(s) < Depth - 1

\* Mutant: the newest comes out first.
PushTo_Front(s, p) == IF Room(s) THEN <<p>> \o s ELSE s

PushTo(s, p) == IF Room(s) THEN Append(s, p) ELSE s

\* ... which ReuseRxBuffer() and ReuseTxBuffer() do not accept.  The number
\* stays in the packet, but is written before it is read again: it is dropped.
Reuse(k, p) ==
  /\ reserved' = [reserved EXCEPT ![k] = PushTo(@, p)]
  /\ failed' = ~Room(reserved[k])
  /\ adr' = [adr EXCEPT ![p] = -1]

-----------------------------------------------------------------------------
(***************************************************************************)
(* Poll()                                                                  *)
(***************************************************************************)

\* listen() and accept() fail, or a host connects.  (accept() returns 0 only in
\* a program that has closed its standard input: the slot would then hold a
\* client that select() is never asked about.)
Accept ==
  /\ pc = "accept"
  /\ pc' = "read" /\ slot' = 0
  /\ LET i == GetAvailableTcpClientIndex
     IN  \/ UNCHANGED <<tcp, fds>>
         \/ /\ i # -1
            /\ \E h \in Peers \ {tcp[j] : j \in TcpSlots} :
                 /\ tcp' = [tcp EXCEPT ![i] = h]
                 /\ fds' = fds \cup {h}
  /\ UNCHANGED <<buffers, adr, udp, hand, residue, threads, failed>>

\* The loop over the clients ends, or select() fails.
ReadEnds ==
  /\ pc = "read" /\ slot \in {0, TcpMax}
  /\ pc' = "recv" /\ slot' = 0
  /\ UNCHANGED <<buffers, adr, tables, hand, residue, threads, failed>>

\* The client is not used or not ready, or there is no packet to read it into.
ReadSkip ==
  /\ pc = "read" /\ slot \in TcpSlots
  /\ slot' = slot + 1
  /\ UNCHANGED <<buffers, adr, tables, pc, hand, residue, threads, failed>>

\* select() says that there is something to read from a client, and
\* GetRxPacket() answers.
ReadTake ==
  /\ pc = "read" /\ slot \in TcpSlots
  /\ tcp[slot] \in fds
  /\ reserved["rx"] # <<>>
  /\ pc' = "data"
  /\ hand' = Head(reserved["rx"])
  /\ reserved' = [reserved EXCEPT !["rx"] = Tail(@)]
  /\ UNCHANGED <<buffered, made, adr, tables, slot, residue, threads,
                 failed>>

\* Mutant: the packet is not given back when read() has failed.
ReadReuse_Forgotten(p) == UNCHANGED <<reserved, adr, failed>>

ReadReuse(p) == Reuse("rx", p)

Unwatch(h) == fds \ {h}

ReadResult ==
  /\ pc = "data"
  /\ pc' = "read" /\ slot' = slot + 1 /\ hand' = Null
  /\ \/ /\ adr' = [adr EXCEPT ![hand] = slot]
        /\ buffered' = [buffered EXCEPT !["rx"] = PushTo(@, hand)]
        /\ UNCHANGED <<reserved, tcp, fds, failed>>
     \/ /\ ReadReuse(hand)
        /\ \/ UNCHANGED <<tcp, fds>>              \* read() returned -1
           \/ /\ tcp' = [tcp EXCEPT ![slot] = Null]
              /\ fds' = Unwatch(tcp[slot])        \* read() returned 0
        /\ UNCHANGED buffered
  /\ UNCHANGED <<made, udp, residue, threads>>

\* There is no free slot, or no packet to receive into.
RecvSkip ==
  /\ pc = "recv"
  /\ GetAvailableUdpClientIndex = -1 \/ reserved["rx"] = <<>>
  /\ pc' = "pop"
  /\ UNCHANGED <<buffers, adr, tables, slot, hand, residue, threads, failed>>

RecvTake ==
  /\ pc = "recv"
  /\ GetAvailableUdpClientIndex # -1 /\ reserved["rx"] # <<>>
  /\ pc' = "from"
  /\ slot' = GetAvailableUdpClientIndex
  /\ hand' = Head(reserved["rx"])
  /\ reserved' = [reserved EXCEPT !["rx"] = Tail(@)]
  /\ UNCHANGED <<buffered, made, adr, tables, residue, threads, failed>>

\* recvfrom() writes the address into the slot that was free a moment ago, or
\* it fails.
RecvFrom ==
  /\ pc = "from"
  /\ \/ /\ \E h \in Peers : udp' = [udp EXCEPT ![slot].addr = h]
        /\ adr' = [adr EXCEPT ![hand] = Offset + slot]
        /\ pc' = "enter"
        /\ UNCHANGED <<reserved, hand, failed>>
     \/ /\ Reuse("rx", hand)
        /\ pc' = "pop" /\ hand' = Null
        /\ UNCHANGED udp
  /\ UNCHANGED <<buffered, made, tcp, fds, slot, residue, threads>>

\* Mutant: off by one, a slot is cleared one packet too late.
Refreshed_Late(u) ==
  [i \in UdpSlots |->
     IF u[i].enabled
     THEN [u[i] EXCEPT !.ttl = @ - 1, !.enabled = u[i].ttl > 0] ELSE u[i]]

\* RefreshTtl()
Refreshed(u) ==
  [i \in UdpSlots |->
     IF u[i].enabled
     THEN [u[i] EXCEPT !.ttl = @ - 1, !.enabled = u[i].ttl > 1] ELSE u[i]]

RecvEnter ==
  /\ pc = "enter"
  /\ pc' = "pop" /\ hand' = Null
  /\ udp' = Refreshed([udp EXCEPT ![slot].ttl = kDefaultTtlValue,
                                  ![slot].enabled = TRUE])
  /\ buffered' = [buffered EXCEPT !["rx"] = PushTo(@, hand)]
  /\ UNCHANGED <<reserved, made, adr, tcp, fds, slot, residue, threads,
                 failed>>

TransmitNothing ==
  /\ pc = "pop" /\ buffered["tx"] = <<>>
  /\ pc' = "accept"
  /\ UNCHANGED <<buffers, adr, tables, slot, hand, residue, threads, failed>>

TransmitPop ==
  /\ pc = "pop" /\ buffered["tx"] # <<>>
  /\ pc' = "send"
  /\ hand' = Head(buffered["tx"])
  /\ buffered' = [buffered EXCEPT !["tx"] = Tail(@)]
  /\ UNCHANGED <<reserved, made, adr, tables, slot, residue, threads, failed>>

\* sendto() a UDP client.
TransmitUdp ==
  /\ pc = "send" /\ IsValidUdpClientIndex(adr[hand])
  /\ pc' = "accept" /\ hand' = Null
  /\ Reuse("tx", hand)
  /\ UNCHANGED <<buffered, made, tables, slot, residue, threads>>

TransmitTcp ==
  /\ pc = "send"
  /\ ~IsValidUdpClientIndex(adr[hand]) /\ IsValidTcpClientIndex(adr[hand])
  /\ pc' = "write" /\ residue' = Length
  /\ UNCHANGED <<buffers, adr, tables, slot, hand, threads, failed>>

\* The client has gone: the packet is put nowhere.
TransmitDrop ==
  /\ pc = "send" /\ ~IsValidClientIndex(adr[hand])
  /\ pc' = "accept" /\ hand' = Null
  /\ UNCHANGED <<buffers, adr, tables, slot, residue, threads, failed>>

Write ==
  /\ pc = "write" /\ residue > 0
  /\ \E n \in WriteResults : n <= residue /\ residue' = residue - n
  /\ UNCHANGED <<buffers, adr, tables, pc, slot, hand, threads, failed>>

\* Mutant: the packet is not given back.
WriteReuse_Forgotten(p) == UNCHANGED <<reserved, adr, failed>>

WriteReuse(p) == Reuse("tx", p)

WriteEnds ==
  /\ pc = "write" /\ residue <= 0
  /\ pc' = "accept" /\ hand' = Null
  /\ WriteReuse(hand)
  /\ UNCHANGED <<buffered, made, tables, slot, residue, threads>>

Poll ==
  \/ Accept \/ ReadEnds \/ ReadSkip \/ ReadTake \/ ReadResult
  \/ RecvSkip \/ RecvTake \/ RecvFrom \/ RecvEnter
  \/ TransmitNothing \/ TransmitPop \/ TransmitUdp \/ TransmitTcp
  \/ TransmitDrop \/ Write \/ WriteEnds

-----------------------------------------------------------------------------
(***************************************************************************)
(* The threads                                                             *)
(***************************************************************************)

Popped(s) == Tail(s)

GetTxPacket(a) ==
  /\ mine[a]["tx"] = Null /\ reserved["tx"] # <<>>
  /\ mine' = [mine EXCEPT ![a]["tx"] = Head(reserved["tx"])]
  /\ reserved' = [reserved EXCEPT !["tx"] = Popped(@)]
  /\ UNCHANGED <<buffered, made, adr, tables, poll, known, chosen, failed>>

Accepts(n) == IsValidClientIndex(n) /\ Room(buffered["tx"])

\* A thread sends a packet to the client it knows the number of; when
\* TransmitPacket() returns false the packet stays in its hands.
TransmitPacket(a) ==
  LET p == mine[a]["tx"]
  IN  /\ p # Null /\ known[a] # -1
      /\ adr' = [adr EXCEPT ![p] = known[a]]
      /\ IF Accepts(known[a])
         THEN /\ buffered' = [buffered EXCEPT !["tx"] = PushTo(@, p)]
              /\ mine' = [mine EXCEPT ![a]["tx"] = Null]
         ELSE UNCHANGED <<buffered, mine>>
      /\ UNCHANGED <<reserved, made, tables, poll, known, chosen, failed>>

\* The number of a received packet is what a thread knows.
ReceivePacket(a) ==
  LET p == Head(buffered["rx"])
  IN  /\ mine[a]["rx"] = Null /\ buffered["rx"] # <<>>
      /\ mine' = [mine EXCEPT ![a]["rx"] = p]
      /\ known' = [known EXCEPT ![a] = adr[p]]
      /\ buffered' = [buffered EXCEPT !["rx"] = Popped(@)]
      /\ UNCHANGED <<reserved, made, adr, tables, poll, chosen, failed>>

\* ReuseTxBuffer() and ReuseRxBuffer() of what a thread has in its hands.
ReuseBuffer(a, k) ==
  /\ mine[a][k] # Null
  /\ Reuse(k, mine[a][k])
  /\ mine' = [mine EXCEPT ![a][k] = Null]
  /\ UNCHANGED <<buffered, made, tables, poll, known, chosen>>

\* RegisterUdpAddress() looks for a free slot and then writes it.
RegisterChoose(a) ==
  /\ "register" \in Usage /\ chosen[a] = -1
  /\ chosen' = [chosen EXCEPT ![a] = GetAvailableUdpClientIndex]
  /\ UNCHANGED <<buffers, adr, tables, poll, known, mine, failed>>

RegisterUdpAddress(a) ==
  /\ chosen[a] # -1
  /\ chosen' = [chosen EXCEPT ![a] = -1]
  /\ \E h \in Peers :
       udp' = [udp EXCEPT ![chosen[a]] =
                 [addr |-> h, enabled |-> TRUE, ttl |-> kDefaultTtlValue]]
  /\ known' = [known EXCEPT ![a] = Offset + chosen[a]]
  /\ UNCHANGED <<buffers, adr, tcp, fds, poll, mine, failed>>

\* Close() and Open() once more, between two rounds of Poll(): the tables are
\* cleared, and the buffers of reserved packets are filled up, which replaces
\* what was lost.  No packet is in use: it would be one too many when it comes
\* back, and the kassert on the push would fail.  One step, as seen by a program
\* that calls both from a task of CPU 0, on which Poll() is executed: a Poll()
\* that comes in between elsewhere, with closed sockets or a half-cleared
\* table, is left out.
Reopen ==
  /\ pc = "accept"
  /\ "reopen" \in Usage
  /\ \A k \in Kinds : buffered[k] = <<>> /\ \A a \in Apps : mine[a][k] = Null
  /\ \A k \in Kinds : made[k] = Depth - 1
  /\ tcp' = [i \in TcpSlots |-> Null] /\ fds' = {}
  /\ udp' = [i \in UdpSlots |-> [udp[i] EXCEPT !.enabled = FALSE]]
  /\ reserved' = [k \in Kinds |-> Fill(k, reserved[k], made[k])]
  /\ made' = [k \in Kinds |-> made[k] + Depth - 1 - Len(reserved[k])]
  /\ UNCHANGED <<buffered, adr, poll, threads, failed>>

App(a) ==
  \/ GetTxPacket(a) \/ TransmitPacket(a) \/ ReceivePacket(a)
  \/ \E k \in Kinds : ReuseBuffer(a, k)
  \/ RegisterChoose(a) \/ RegisterUdpAddress(a)

Next == ~failed /\ (Poll \/ Reopen \/ \E a \in Apps : App(a))

Spec == Init /\ [][Next]_vars

\* CPU 0 goes on executing Poll().
FairSpec == Spec /\ WF_vars(~failed /\ Poll)

-----------------------------------------------------------------------------
\* The type invariant.
TypeOK ==
  /\ buffered \in [Kinds -> Seq(Packets)] /\ reserved \in [Kinds -> Seq(Packets)]
  /\ \A k \in Kinds : Len(buffered[k]) < Depth /\ Len(reserved[k]) < Depth
  /\ made \in [Kinds -> 0 .. MaxPackets]
  /\ adr \in [Packets -> {-1} \cup TcpSlots \cup {Offset + i : i \in UdpSlots}]
  /\ tcp \in [TcpSlots -> Peers \cup {Null}] /\ fds \subseteq Peers
  /\ udp \in [UdpSlots -> [addr : Peers \cup {Null}, enabled : BOOLEAN,
                           ttl : 0 .. kDefaultTtlValue]]
  /\ pc \in {"accept", "read", "data", "recv", "from", "enter", "pop", "send",
             "write"}
  /\ slot \in 0 .. TcpMax + UdpMax
  /\ hand \in Packets \cup {Null} /\ residue \in Int
  /\ known \in [Apps -> {-1} \cup TcpSlots \cup {Offset + i : i \in UdpSlots}]
  /\ mine \in [Apps -> [Kinds -> Packets \cup {Null}]]
  /\ chosen \in [Apps -> {-1} \cup UdpSlots]
  /\ failed \in BOOLEAN

\* Where packet p is.
In(b, p) == {x \in Kinds \X (1 .. Depth) :
               x[2] \in DOMAIN b[x[1]] /\ b[x[1]][x[2]] = p}
Owners(p) ==
  ({"buffered"} \X In(buffered, p)) \cup ({"reserved"} \X In(reserved, p))
    \cup ({"mine"} \X {a \in Apps : mine[a][p[1]] = p})
    \cup (IF hand = p THEN {<<"Poll", 0>>} ELSE {})

\* A packet is never in two places: Poll() never reads into, or sends, a packet
\* that a thread still uses or that waits in a buffer.
NoPacketHasTwoOwners == \A p \in Packets : Cardinality(Owners(p)) <= 1

\* The packets for receiving never get fewer, although the result of the push
\* of a received one is ignored: whatever read() and recvfrom() answer, each is
\* in exactly one place.
ReceivePacketsAreConserved ==
  \A j \in 1 .. made["rx"] : Owners(<<"rx", j>>) # {}

\* A packet for sending disappears only when the client it is meant for has
\* gone between TransmitPacket() and Poll().
OnlyGoneClientsCostPackets ==
  \A p \in {"tx"} \X (1 .. MaxPackets) :
    Owners(p) # {} /\ Owners(p)' = {} => ~IsValidClientIndex(adr[p])

\* The buffers have room for every packet that is put back.
NoKassertFails == ~failed

\* select() watches exactly the clients of the table, each in one slot.
WatchedAreTheClients ==
  /\ fds = {tcp[i] : i \in TcpSlots} \ {Null}
  /\ \A i, j \in TcpSlots : tcp[i] = tcp[j] /\ tcp[i] # Null => i = j

\* As long as no address is registered by hand, there is a free slot whenever
\* Poll() is going to receive: of UdpMax packets the oldest sender is cleared.
UdpTableIsNeverFull == pc = "recv" => GetAvailableUdpClientIndex # -1

\* As long as nobody registers addresses, a number means the same host until
\* it is cleared.  (RegisterUdpAddress() may choose the slot Poll() has chosen.)
AddressesStay ==
  \A i \in UdpSlots :
    udp[i].enabled /\ udp'[i].enabled => udp'[i].addr = udp[i].addr

\* No packet is in two places at once, none for receiving is lost, and the
\* buffers of free packets have room for all that are put back: whatever the
\* sockets answer, and although the results of pushes are ignored.
PacketsAreConserved ==
  /\ TypeOK /\ NoPacketHasTwoOwners /\ ReceivePacketsAreConserved
  /\ NoKassertFails

\* select() watches the clients of the table, and as long as nobody registers
\* an address by hand there is a free slot whenever Poll() is going to receive.
TablesAreRight ==
  TypeOK /\ WatchedAreTheClients /\ ("register" \notin Usage => UdpTableIsNeverFull)

\* A packet for sending disappears only with its client; the host behind a
\* number does not change before it is cleared.
NothingIsTakenAway ==
  [][OnlyGoneClientsCostPackets /\ ("register" \notin Usage => AddressesStay)]_vars

\* What a thread transmits is taken by Poll(), whatever is received meanwhile,
\* as long as every write() takes at least a byte (WriteResults > 0): Poll()
\* adds up what it returned until the packet is written, and repeats for ever
\* what returns 0 or -1.
TransmittedPacketsAreTaken ==
  \A p \in {"tx"} \X (1 .. MaxPackets) :
    (\E j \in DOMAIN buffered["tx"] : buffered["tx"][j] = p) ~> hand = p
=============================================================================
