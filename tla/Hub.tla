-------------------------------- MODULE Hub --------------------------------
(***************************************************************************)
(* An Adapter OFT with honest remotes.  OFT takes any packet of an open    *)
(* pathway for possible; here a packet comes only from a remote OFT, which *)
(* gave up as many units for it, and holds no more than arrived there from *)
(* Solana.  The remotes and what is under way are counted in shared        *)
(* decimals.                                                               *)
(***************************************************************************)
EXTENDS OFT, FiniteSets, Functions

(* There are finitely many u32 endpoint ids and 32-byte addresses.         *)
ASSUME HubAssumption == IsFiniteSet(Eids) /\ IsFiniteSet(Addresses)

VARIABLES
    remote,             \* units held at the remotes
    outbound,           \* units on their way to them
    inbound             \* packets on their way from them, not yet verified

remotes == <<remote, outbound, inbound>>

HubInit == /\ Init
           /\ OftType = "Adapter"
           /\ remote = 0 /\ outbound = 0
           /\ inbound = [p \in Packet |-> 0]

(* What send puts on the wire is on its way; the program's other           *)
(* instructions do not concern the remotes.                                *)
Local ==
    /\ \/ Transfer
       \/ \E signer \in Keys : Administer(signer)
       \/ \E signer \in Keys, eid \in Eids : AdministerPeer(signer, eid)
       \/ Tick \/ NextEpoch
       \/ \E amount_ld \in AmountsLd : Donate(amount_ld)
    /\ outbound' = outbound + (wired_out' - wired_out)
    /\ UNCHANGED <<remote, inbound>>

RemoteReceive(units) ==
    /\ units <= outbound
    /\ outbound' = outbound - units
    /\ remote' = remote + units
    /\ UNCHANGED <<vars, inbound>>

RemoteSend(packet) ==
    /\ <<packet.src_eid, packet.sender>> \in Pathways
    /\ packet.amount_sd <= remote
    /\ remote' = remote - packet.amount_sd
    /\ inbound' = [inbound EXCEPT ![packet] = @ + 1]
    /\ UNCHANGED <<vars, outbound>>

(* The endpoint verifies nothing else.                                     *)
Relay(packet) ==
    /\ inbound[packet] > 0
    /\ Verify(packet)
    /\ inbound' = [inbound EXCEPT ![packet] = @ - 1]
    /\ UNCHANGED <<remote, outbound>>

HubNext == \/ Local
           \/ \E units \in 1 .. MaxWired : RemoteReceive(units)
           \/ \E packet \in Packet : RemoteSend(packet) \/ Relay(packet)

HubSpec == HubInit /\ [][HubNext]_<<vars, remotes>>

-----------------------------------------------------------------------------
units_of(packets) == SumFunction([p \in Packet |-> packets[p] * p.amount_sd])

(* What all packets on their way together ask for is there: tvl_ld and the *)
(* escrow never fall short of them, in whatever order they are delivered   *)
(* and whatever the fees were.  Only a pause, the peer or a limiter can    *)
(* hold a genuine packet back.                                             *)
NeverShort ==
    LET owed_ld == sd2ld(Ld2sdRate, units_of(verified) + units_of(inbound))
    IN  owed_ld <= tvl_ld /\ owed_ld <= escrow

=============================================================================
