--------------------------- MODULE MCPoolingSocket ---------------------------
(***************************************************************************)
(* Two instances of PoolingSocket for TLC, of which only one, chosen in    *)
(* the initial state, takes steps: more hosts and numbers than packets, so *)
(* that both tables fill up; and deeper buffers, so that packets have an   *)
(* order, with a thread that registers addresses.                          *)
(***************************************************************************)
EXTENDS PoolingSocket

CONSTANTS h1, h2, h3

VARIABLES
  what,                             \* which instance is looked at
  dBuffered, dReserved, dMade, dAdr, dTcp, dFds, dUdp, dPc, dSlot, dHand,
  dResidue, dKnown, dMine, dChosen, dFailed  \* the deeper one

D == INSTANCE PoolingSocket WITH
       UdpMax <- 1, Depth <- 3, Peers <- {h1}, Usage <- {"register"},
       buffered <- dBuffered, reserved <- dReserved, made <- dMade, adr <-
       dAdr, tcp <- dTcp, fds <- dFds, udp <- dUdp, pc <- dPc, slot <-
       dSlot, hand <- dHand, residue <- dResidue, known <- dKnown, mine <-
       dMine, chosen <- dChosen, failed <- dFailed

ASSUME D!PoolingSocketAssumption

deepVars ==
  <<dBuffered, dReserved, dMade, dAdr, dTcp, dFds, dUdp, dPc, dSlot, dHand,
    dResidue, dKnown, dMine, dChosen, dFailed>>

InitAny == what \in {"tables", "packets"} /\ Init /\ D!Init

NextAny ==
  /\ UNCHANGED what
  /\ \/ what = "tables" /\ Next /\ UNCHANGED deepVars
     \/ what = "packets" /\ D!Next /\ UNCHANGED vars

\* CPU 0 goes on executing Poll(); that is only needed for the packets.
FairSpecAny ==
  /\ InitAny /\ [][NextAny]_<<what, vars, deepVars>>
  /\ WF_deepVars(what = "packets" /\ ~dFailed /\ D!Poll)

-----------------------------------------------------------------------------
\* With more packets than one of each kind, none is in two places, none for
\* receiving is lost and every push finds room, and every packet that is
\* transmitted is taken, whatever is received meanwhile, as long as write()
\* takes at least a byte (WriteResults > 0).
DeepBuffersAreServed == []D!PacketsAreConserved /\ D!TransmittedPacketsAreTaken
=============================================================================
