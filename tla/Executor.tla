------------------------------ MODULE Executor ------------------------------
(***************************************************************************)
(* The OFT program and the executor that delivers to it.  A delivery is    *)
(* two calls: lz_receive_types returns the accounts lz_receive will need,  *)
(* computed from the mint as it is then, and lz_receive takes them as they *)
(* are.  In between the fee's epoch may end, the mint's authority may be   *)
(* handed over, the admin may act, and other packets may be delivered; a   *)
(* delivery that fails leaves the packet at the endpoint and is planned    *)
(* again.                                                                  *)
(*                                                                         *)
(* Of the accounts only two depend on more than the packet: the optional   *)
(* mint_authority, and the account of the composed message, whose address  *)
(* is a hash over the amount received.                                     *)
(***************************************************************************)
EXTENDS OFT

LOCAL INSTANCE FiniteSetsExt

CONSTANTS
    Authorities,        \* who may be the mint's authority
    StoreAuthorities    \* those the oft_store signs for: itself, its multisig

ASSUME ExecutorAssumption == /\ StoreAuthorities \subseteq Authorities
                             /\ NoKey \notin Authorities

VARIABLES
    mint_authority,     \* the mint's COption<Pubkey>, NoKey for None
    plan                \* what the executor holds for each packet

executor == <<mint_authority, plan>>

NoPlan == [made |-> FALSE, mint_authority |-> NoKey, composed_ld |-> None]

ExecutorInit == /\ Init
                /\ mint_authority \in Authorities
                /\ plan = [p \in Packet |-> NoPlan]

(* Mutant: the transfer fee is not deducted.                               *)
planned_gross(amount_ld) == amount_ld

(* lz_receive_types has its own copy of the amount lz_receive composes.    *)
planned_amount(amount_ld) ==
    IF OftType = "Native" THEN amount_ld ELSE post_fee(amount_ld)

(* lz_receive_types: neither the pause, the peer nor a limiter is read, and*)
(* the amount only for a composed message.                                 *)
LzReceiveTypes(packet) ==
    LET amount_ld == sd2ld(Ld2sdRate, packet.amount_sd)
    IN  /\ verified[packet] > 0
        /\ ~plan[packet].made
        /\ packet.compose => amount_ld \in U64
        /\ plan' = [plan EXCEPT ![packet] =
                      [made |-> TRUE, mint_authority |-> mint_authority,
                       composed_ld |-> IF packet.compose
                                         THEN planned_amount(amount_ld) ELSE None]]
        /\ UNCHANGED <<vars, mint_authority>>

(* The planned accounts still pass: the authority is the mint's, a Native  *)
(* OFT has one it can sign for, and the composed message has this address. *)
fits(packet) ==
    LET accounts == plan[packet]
    IN  /\ accounts.made
        /\ accounts.mint_authority \in {NoKey, mint_authority}
        /\ OftType = "Native" => accounts.mint_authority \in StoreAuthorities
        /\ packet.compose =>
              accounts.composed_ld =
                  amount_received(sd2ld(Ld2sdRate, packet.amount_sd))

(* What else lz_receive asks for.                                          *)
executable(packet) ==
    LET amount_ld == sd2ld(Ld2sdRate, packet.amount_sd)
    IN  /\ verified[packet] > 0
        /\ accepts(packet)
        /\ amount_ld \in U64
        /\ may_consume(peer[packet.src_eid].inbound_rate_limiter, amount_ld, now)
        /\ IF OftType = "Adapter" THEN amount_ld <= tvl_ld /\ amount_ld <= escrow
                                  ELSE supply + amount_ld \in U64
        /\ fits(packet)

Execute(packet) ==
    /\ fits(packet)
    /\ LzReceive(packet)
    /\ plan' = [plan EXCEPT ![packet] = NoPlan]
    /\ UNCHANGED mint_authority

(* The delivery fails, in the executor's simulation or on chain.           *)
Discard(packet) ==
    /\ plan[packet].made
    /\ ~executable(packet)
    /\ plan' = [plan EXCEPT ![packet] = NoPlan]
    /\ UNCHANGED <<vars, mint_authority>>

(* The token program's SetAuthority; giving the authority up is final.     *)
SetMintAuthority(authority) ==
    /\ mint_authority # NoKey
    /\ mint_authority' = authority
    /\ UNCHANGED <<vars, plan>>

Deliver(packet) == LzReceiveTypes(packet) \/ Execute(packet) \/ Discard(packet)

-----------------------------------------------------------------------------
(* What anyone but the executor may do here, a bound on fees and admins    *)
(* that the instances set.                                                 *)
Others ==
    /\ \/ \E eid \in Eids, amount_ld \in AmountsLd : Send(eid, amount_ld, 0)
       \/ \E packet \in Packet : Verify(packet)
       \/ \E signer \in Keys :
             \/ \E value \in BOOLEAN : SetPaused(signer, value)
             \/ \E eid \in Eids :
                   \/ \E address \in Addresses \cup {ZeroAddress} :
                         SetPeerAddress(signer, eid, address)
                   \/ \E limiter \in Updated(peer[eid].inbound_rate_limiter) :
                         SetInboundRateLimit(signer, eid, limiter)
       \/ NextEpoch
    /\ UNCHANGED executor

ExecutorNext ==
    \/ \E packet \in Packet : Deliver(packet)
    \/ Others
    \/ Tick /\ UNCHANGED executor
    \/ \E authority \in Authorities \cup {NoKey} : SetMintAuthority(authority)

(* Time passes, and someone keeps delivering: lz_receive is open to every  *)
(* payer.  Nobody else is bound to do anything.                            *)
Fairness ==
    /\ \A packet \in Packet : /\ WF_<<vars, executor>>(LzReceiveTypes(packet))
                              /\ WF_<<vars, executor>>(Execute(packet))
                              /\ WF_<<vars, executor>>(Discard(packet))
    /\ WF_<<vars, executor>>(Tick /\ UNCHANGED executor)

ExecutorSpec == ExecutorInit /\ [][ExecutorNext]_<<vars, executor>> /\ Fairness

-----------------------------------------------------------------------------
(* All that the packets the program would accept now have to get.          *)
Owed == MapThenSumSet(LAMBDA p : verified[p] * sd2ld(Ld2sdRate, p.amount_sd),
                      {p \in Packet : accepts(p)})

(* Nothing but the executor's persistence stands between a packet and its  *)
(* delivery: no pause, the right peer, enough locked or mintable, and an   *)
(* inbound limiter that will have refilled by the end of the clock.        *)
Deliverable(packet) ==
    LET limiter == peer[packet.src_eid].inbound_rate_limiter
    IN  /\ accepts(packet)
        /\ sd2ld(Ld2sdRate, packet.amount_sd) \in U64
        /\ limiter.some => Owed <= level_at(limiter, MaxNow)
        /\ IF OftType = "Adapter" THEN Owed <= tvl_ld
           ELSE supply + Owed \in U64 /\ mint_authority \in StoreAuthorities

(* A verified packet is delivered once the admin, the mint's authority     *)
(* and, for a composed message only, the transfer fee come to rest: however*)
(* often a plan was overtaken before, the next one is made from the same   *)
(* amount lz_receive composes.                                             *)
Delivered ==
    \A packet \in Packet :
        /\ <>[]Deliverable(packet)
        /\ <>[][UNCHANGED mint_authority]_mint_authority
        /\ packet.compose => <>[][UNCHANGED epoch_fee]_epoch_fee
        => (verified[packet] > 0 ~> verified[packet] = 0)

(* A packet above the capacity of its peer's inbound limiter waits for the *)
(* admin: no idle time and no traffic the other way lets it pass.          *)
OversizedWaits ==
    [][\A packet \in Packet :
         LET limiter == peer[packet.src_eid].inbound_rate_limiter
         IN  limiter.some /\ sd2ld(Ld2sdRate, packet.amount_sd) > limiter.capacity
             => verified'[packet] >= verified[packet]]_<<vars, executor>>

(* What overtakes a plan between its two calls: the mint's authority goes  *)
(* to another, a Native OFT could not sign for it anyway, or the transfer  *)
(* fee the composed amount was computed with ends.                         *)
overtaken(packet) ==
    \/ mint_authority' # mint_authority
    \/ OftType = "Native" /\ mint_authority' \notin StoreAuthorities
    \/ OftType = "Adapter" /\ packet.compose /\ epoch_fee' # epoch_fee

(* The accounts lz_receive_types returned pass in lz_receive for as long as*)
(* nothing of that happens: the two copies of the amount agree, and no     *)
(* instruction, no other delivery and no other plan makes them stale.      *)
PlanStands ==
    [][\A packet \in Packet :
         /\ plan[packet].made => fits(packet)
         /\ ~overtaken(packet)
         => (plan'[packet].made => fits(packet)')]_<<vars, executor>>

=============================================================================
