---------------------------- MODULE DeliveryProofs ----------------------------
(***************************************************************************)
(* What surrounds the program adds no behaviour to it: what is proved of   *)
(* OFT holds under the executor and with honest remotes.  From the         *)
(* limiters being sane there, an oversized packet waits for the admin;     *)
(* from the wire being backed there, no genuine packet asks for more than  *)
(* the escrow holds.  And the executor's plans stand until they are        *)
(* overtaken.                                                              *)
(***************************************************************************)
EXTENDS Executor, Hub, OFTProofs, InductionProofs

evars == <<vars, executor>>

(* Every step of the two-call delivery is one of the program's or none.    *)
LEMMA ExecutorStep == [ExecutorNext]_evars => [Next]_vars
<1> SUFFICES ASSUME [ExecutorNext]_evars PROVE [Next]_vars
  OBVIOUS
<1>1. ASSUME NEW packet \in Packet, Deliver(packet) PROVE [Next]_vars
  <2>1. CASE Execute(packet)
    BY <2>1 DEF Execute, Next, Transfer
  <2>2. CASE LzReceiveTypes(packet) \/ Discard(packet)
    BY <2>2 DEF LzReceiveTypes, Discard
  <2> QED
    BY <1>1, <2>1, <2>2 DEF Deliver
<1>2. CASE Others
  <2>1. ASSUME NEW eid \in Eids, NEW amount_ld \in AmountsLd, Send(eid, amount_ld, 0)
        PROVE  Next
    BY <2>1 DEF Next, Transfer
  <2>2. ASSUME NEW signer \in Keys, NEW value \in BOOLEAN, SetPaused(signer, value)
        PROVE  Next
    BY <2>2 DEF Next, Administer
  <2>3. ASSUME NEW signer \in Keys, NEW eid \in Eids,
               NEW address \in Addresses \cup {ZeroAddress},
               SetPeerAddress(signer, eid, address)
        PROVE  Next
    BY <2>3 DEF Next, AdministerPeer
  <2>4. ASSUME NEW signer \in Keys, NEW eid \in Eids,
               NEW limiter \in Updated(peer[eid].inbound_rate_limiter),
               SetInboundRateLimit(signer, eid, limiter)
        PROVE  Next
    BY <2>4 DEF Next, AdministerPeer
  <2>5. ASSUME (\E packet \in Packet : Verify(packet)) \/ NextEpoch PROVE Next
    BY <2>5 DEF Next, Environment
  <2> QED
    BY <1>2, <2>1, <2>2, <2>3, <2>4, <2>5 DEF Others
<1>3. CASE Tick
  BY <1>3 DEF Next, Environment
<1>4. CASE (\E authority \in Authorities \cup {NoKey} : SetMintAuthority(authority))
           \/ UNCHANGED evars
  BY <1>4 DEF SetMintAuthority, evars
<1> QED
  BY <1>1, <1>2, <1>3, <1>4 DEF ExecutorNext

(* What OFTProofs shows of the program holds with an executor too.         *)
LEMMA ExecutorImplementsOFT == ExecutorSpec => Spec
<1>1. ExecutorInit => Init
  BY DEF ExecutorInit
<1>2. [ExecutorNext]_<<vars, executor>> => [Next]_vars
  BY ExecutorStep DEF evars
<1> QED
  BY <1>1, <1>2, PTL DEF ExecutorSpec, Spec

-----------------------------------------------------------------------------
(* What lets a packet go through fits into the limiter's capacity.         *)
LEMMA ConsumedFits ==
    ASSUME NEW l, NEW t, NEW x \in U64, Sane(l, t), l.some, may_consume(l, x, t)
    PROVE  x <= l.capacity
<1>1. x <= level_at(l, t)
  BY ConsumeIsExact
<1>2. level_at(l, t) \in 0 .. l.capacity
  BY LevelRange
<1>3. l.capacity \in Nat /\ x \in Nat
  BY Constants DEF Sane, RateLimiter
<1> QED
  BY <1>1, <1>2, <1>3

Oversized(packet) ==
    LET limiter == peer[packet.src_eid].inbound_rate_limiter
    IN  limiter.some /\ sd2ld(Ld2sdRate, packet.amount_sd) > limiter.capacity

(* Only its own delivery takes a packet from the endpoint.                 *)
LEMMA OversizedStep ==
    ASSUME IInv, [Next]_vars, NEW packet \in Packet, Oversized(packet)
    PROVE  verified'[packet] >= verified[packet]
<1>1. verified \in [Packet -> Nat]
  BY DEF IInv, TypeOK
<1>2. ASSUME NEW other \in Packet, LzReceive(other)
      PROVE  verified'[packet] >= verified[packet]
  <2> DEFINE l == peer[other.src_eid].inbound_rate_limiter
             x == sd2ld(Ld2sdRate, other.amount_sd)
  <2>1. /\ verified' = [verified EXCEPT ![other] = @ - 1]
        /\ may_consume(l, x, now) /\ x \in U64
    BY <1>2 DEF LzReceive
  <2>2. Sane(l, now)
    BY DEF IInv, LimitersSane, Packet
  <2>3. CASE other = packet
    <3>1. l.some /\ x > l.capacity
      BY <2>3 DEF Oversized
    <3>2. x <= l.capacity
      BY <2>1, <2>2, <3>1, ConsumedFits
    <3>3. x \in Nat /\ l.capacity \in Nat
      BY <2>1, <2>2, Constants DEF Sane, RateLimiter
    <3> QED
      BY <3>1, <3>2, <3>3
  <2>4. CASE other # packet
    BY <1>1, <2>1, <2>4
  <2> QED
    BY <2>3, <2>4
<1>3. ASSUME NEW other \in Packet, Verify(other)
      PROVE  verified'[packet] >= verified[packet]
  BY <1>1, <1>3 DEF Verify
<1>4. CASE \/ \E eid \in Eids, amount_ld \in AmountsLd, min_amount_ld \in AmountsLd \cup {0} :
                 Send(eid, amount_ld, min_amount_ld)
           \/ \E signer \in Keys : Administer(signer)
           \/ \E signer \in Keys, eid \in Eids : AdministerPeer(signer, eid)
           \/ Tick \/ NextEpoch
           \/ \E amount_ld \in AmountsLd : Donate(amount_ld)
           \/ UNCHANGED vars
  <2>1. verified' = verified
    BY <1>4 DEF Send, Administer, WithdrawFee, SetPause, SetPaused, SetKey,
       SetDefaultFee, AdministerPeer, SetPeerAddress, SetPeerFee,
       SetEnforcedOptions, SetOutboundRateLimit, SetInboundRateLimit,
       SetPeerConfig, Tick, NextEpoch, Donate, endpoint, vars
  <2> QED
    BY <1>1, <2>1
<1> QED
  BY <1>2, <1>3, <1>4 DEF Next, Transfer, Environment

(* A packet above the capacity of its peer's inbound limiter stays at the  *)
(* endpoint until the admin raises it: no idle time, no traffic the other  *)
(* way and no order of deliveries lets it pass.                            *)
THEOREM OversizedNeverPasses == ExecutorSpec => OversizedWaits
<1> DEFINE P == \A packet \in Packet :
                   Oversized(packet) => verified'[packet] >= verified[packet]
<1>1. ExecutorSpec => []IInv
  BY ExecutorImplementsOFT, IInvAlways, PTL
<1>2. IInv /\ [ExecutorNext]_<<vars, executor>> => [P]_<<vars, executor>>
  BY ExecutorStep, OversizedStep DEF evars
<1>3. P <=> \A packet \in Packet :
               LET limiter == peer[packet.src_eid].inbound_rate_limiter
               IN  limiter.some /\ sd2ld(Ld2sdRate, packet.amount_sd) > limiter.capacity
                   => verified'[packet] >= verified[packet]
  BY DEF Oversized
<1> QED
  BY <1>1, <1>2, <1>3, PTL DEF ExecutorSpec, OversizedWaits

-----------------------------------------------------------------------------
(* The plans: one slot for each packet.                                    *)
PlanInv == plan = [p \in Packet |-> plan[p]]

LEMMA PlanInvAlways == ExecutorSpec => []PlanInv
<1>1. ExecutorInit => PlanInv
  BY DEF ExecutorInit, PlanInv
<1>2. PlanInv /\ [ExecutorNext]_<<vars, executor>> => PlanInv'
  <2> SUFFICES ASSUME PlanInv, [ExecutorNext]_<<vars, executor>> PROVE PlanInv'
    OBVIOUS
  <2>1. ASSUME NEW packet \in Packet, Deliver(packet) PROVE PlanInv'
    BY <2>1 DEF Deliver, LzReceiveTypes, Execute, Discard, PlanInv
  <2>2. CASE \/ Others
             \/ Tick /\ UNCHANGED executor
             \/ \E authority \in Authorities \cup {NoKey} : SetMintAuthority(authority)
             \/ UNCHANGED <<vars, executor>>
    <3>1. plan' = plan
      BY <2>2 DEF Others, SetMintAuthority, executor
    <3> QED
      BY <3>1 DEF PlanInv
  <2> QED
    BY <2>1, <2>2 DEF ExecutorNext
<1> QED
  BY <1>1, <1>2, PTL DEF ExecutorSpec

(* What a delivery's two calls do to the plans.                            *)
LEMMA PlanOfStep ==
    ASSUME PlanInv, [ExecutorNext]_evars, NEW packet \in Packet, plan'[packet].made
    PROVE  plan'[packet] = plan[packet] \/ LzReceiveTypes(packet)
<1>1. ASSUME NEW other \in Packet, LzReceiveTypes(other), other # packet
      PROVE  plan'[packet] = plan[packet]
  BY <1>1 DEF LzReceiveTypes, PlanInv
<1>2. ASSUME NEW other \in Packet, Execute(other) \/ Discard(other)
      PROVE  plan'[packet] = plan[packet]
  <2>1. plan' = [plan EXCEPT ![other] = NoPlan]
    BY <1>2 DEF Execute, Discard
  <2>2. other # packet
    BY <2>1 DEF PlanInv, NoPlan
  <2> QED
    BY <2>1, <2>2 DEF PlanInv
<1>3. CASE \/ Others
           \/ Tick /\ UNCHANGED executor
           \/ \E authority \in Authorities \cup {NoKey} : SetMintAuthority(authority)
           \/ UNCHANGED evars
  BY <1>3 DEF Others, SetMintAuthority, executor, evars
<1> QED
  BY <1>1, <1>2, <1>3 DEF ExecutorNext, Deliver

(* lz_receive_types' copy of the amount is lz_receive's.                   *)
LEMMA CopiesAgree ==
    ASSUME NEW amount_ld PROVE planned_amount(amount_ld) = amount_received(amount_ld)
  BY OFTAssumption DEF planned_amount, amount_received

(* A plan the executor holds still passes when lz_receive comes to use it, *)
(* whatever was done and delivered in between, unless the mint's authority *)
(* or, for an Adapter's composed message, the transfer fee changed; and a  *)
(* plan just made passes, unless a Native OFT could not sign for it.       *)
THEOREM PlanAlwaysStands == ExecutorSpec => PlanStands
<1> DEFINE P == \A packet \in Packet :
                   /\ plan[packet].made => fits(packet)
                   /\ ~overtaken(packet)
                   => (plan'[packet].made => fits(packet)')
<1>1. PlanInv /\ [ExecutorNext]_<<vars, executor>> => [P]_<<vars, executor>>
  <2> SUFFICES ASSUME PlanInv, [ExecutorNext]_evars, NEW packet \in Packet,
                      plan[packet].made => fits(packet), ~overtaken(packet),
                      plan'[packet].made
               PROVE  fits(packet)'
    BY DEF evars
  <2> DEFINE amount_ld == sd2ld(Ld2sdRate, packet.amount_sd)
  <2>1. /\ mint_authority' = mint_authority
        /\ OftType = "Native" => mint_authority \in StoreAuthorities
        /\ OftType = "Adapter" /\ packet.compose => epoch_fee' = epoch_fee
    BY DEF overtaken
  <2>2. packet.compose => amount_received(amount_ld)' = amount_received(amount_ld)
    BY <2>1 DEF amount_received, post_fee
  <2>3. CASE plan'[packet] = plan[packet]
    <3>1. fits(packet)
      BY <2>3
    <3> QED
      BY <2>1, <2>2, <2>3, <3>1 DEF fits
  <2>4. CASE LzReceiveTypes(packet)
    <3>1. plan'[packet] = [made |-> TRUE, mint_authority |-> mint_authority,
                           composed_ld |-> IF packet.compose
                                             THEN planned_amount(amount_ld) ELSE None]
      BY <2>4 DEF LzReceiveTypes, PlanInv
    <3> QED
      BY <2>1, <2>2, <3>1, CopiesAgree DEF fits
  <2> QED
    BY <2>3, <2>4, PlanOfStep
<1> QED
  BY <1>1, PlanInvAlways, PTL DEF ExecutorSpec, PlanStands

-----------------------------------------------------------------------------
(* The hub: honest remotes, and packets counted in shared decimals.        *)
hvars == <<vars, remotes>>

(* There are finitely many packets.                                        *)
LEMMA PacketsFinite == IsFiniteSet(Packet)
<1> DEFINE S == (Eids \X Addresses) \X (AmountsSd \X BOOLEAN)
           f == [t \in S |-> [src_eid |-> t[1][1], sender |-> t[1][2],
                              amount_sd |-> t[2][1], compose |-> t[2][2]]]
<1>1. IsFiniteSet(Eids \X Addresses)
  BY HubAssumption, FS_Product
<1>2. IsFiniteSet(AmountsSd)
  <2>1. AmountsSd \in SUBSET (0 .. U64Max) /\ 0 \in Int /\ U64Max \in Int
    BY Constants
  <2>2. IsFiniteSet(0 .. U64Max)
    BY <2>1, FS_Interval
  <2> QED
    BY <2>1, <2>2, FS_Subset
<1>3. IsFiniteSet(BOOLEAN)
  <2>1. BOOLEAN = {} \cup {TRUE} \cup {FALSE}
    OBVIOUS
  <2>2. IsFiniteSet({} \cup {TRUE})
    BY FS_EmptySet, FS_AddElement
  <2>3. IsFiniteSet(({} \cup {TRUE}) \cup {FALSE})
    BY <2>2, FS_AddElement
  <2> QED
    BY <2>1, <2>3
<1>4. IsFiniteSet(AmountsSd \X BOOLEAN)
  BY <1>2, <1>3, FS_Product
<1>5. IsFiniteSet(S)
  BY <1>1, <1>4, FS_Product
<1>6. f \in [S -> Packet]
  BY DEF Packet
<1>7. ASSUME NEW p \in Packet PROVE \E t \in S : f[t] = p
  <2> DEFINE t == <<<<p.src_eid, p.sender>>, <<p.amount_sd, p.compose>>>>
  <2>1. t \in S
    BY DEF Packet
  <2>2. f[t] = [src_eid |-> p.src_eid, sender |-> p.sender,
                amount_sd |-> p.amount_sd, compose |-> p.compose]
    BY <2>1
  <2>3. f[t] = p
    BY <2>2 DEF Packet
  <2> QED
    BY <2>1, <2>3
<1> HIDE DEF S, f
<1>8. f \in Surjection(S, Packet)
  BY <1>6, <1>7 DEF Surjection
<1> QED
  BY <1>5, <1>8, FS_Surjection

(* A packet's amount is a number of units.                                 *)
LEMMA AmountNat == ASSUME NEW p \in Packet PROVE p.amount_sd \in Nat
<1>1. p.amount_sd \in AmountsSd
  BY DEF Packet
<1>2. p.amount_sd \in 0 .. U64Max /\ U64Max \in Nat
  BY <1>1, Constants
<1> QED
  BY <1>2

(* The units of no packet are none, and one more packet adds its own.      *)
LEMMA UnitsNat ==
    ASSUME NEW packets \in [Packet -> Nat] PROVE units_of(packets) \in Nat
<1> DEFINE f == [p \in Packet |-> packets[p] * p.amount_sd]
<1>1. \A p \in Packet : f[p] \in Nat
  <2> SUFFICES ASSUME NEW p \in Packet PROVE f[p] \in Nat
    OBVIOUS
  <2>1. f[p] = packets[p] * p.amount_sd /\ packets[p] \in Nat /\ p.amount_sd \in Nat
    BY AmountNat
  <2> HIDE DEF f
  <2> QED
    BY <2>1
<1>2. units_of(packets) = SumFunctionOnSet(f, Packet)
  BY DEF units_of, SumFunction
<1> HIDE DEF f
<1> QED
  BY <1>1, <1>2, PacketsFinite, SumNat

(* No packets carry nothing.                                               *)
LEMMA UnitsOfNone ==
    ASSUME NEW packets, packets = [p \in Packet |-> 0] PROVE units_of(packets) = 0
<1> DEFINE f == [p \in Packet |-> packets[p] * p.amount_sd]
<1>1. \A p \in Packet : f[p] = 0
  <2> SUFFICES ASSUME NEW p \in Packet PROVE f[p] = 0
    OBVIOUS
  <2>1. f[p] = 0 * p.amount_sd /\ p.amount_sd \in Nat
    BY AmountNat
  <2> HIDE DEF f
  <2> QED
    BY <2>1
<1>2. units_of(packets) = SumFunctionOnSet(f, Packet)
  BY DEF units_of, SumFunction
<1> HIDE DEF f
<1> QED
  BY <1>1, <1>2, PacketsFinite, SumZero

OneMore(more, packets, packet) ==
    /\ packets \in [Packet -> Nat] /\ more \in [Packet -> Nat]
    /\ more[packet] = packets[packet] + 1
    /\ \A other \in Packet \ {packet} : more[other] = packets[other]

(* One packet more carries its units more.                                 *)
LEMMA UnitsOfOneMore ==
    ASSUME NEW packets, NEW more, NEW packet \in Packet, OneMore(more, packets, packet)
    PROVE  units_of(more) = units_of(packets) + packet.amount_sd
<1> DEFINE f == [p \in Packet |-> packets[p] * p.amount_sd]
           g == [p \in Packet |-> more[p] * p.amount_sd]
<1>1. \A p \in Packet : f[p] \in Int /\ g[p] \in Int
  <2> SUFFICES ASSUME NEW p \in Packet PROVE f[p] \in Int /\ g[p] \in Int
    OBVIOUS
  <2>1. /\ f[p] = packets[p] * p.amount_sd /\ g[p] = more[p] * p.amount_sd
        /\ packets[p] \in Int /\ more[p] \in Int /\ p.amount_sd \in Int
    BY AmountNat DEF OneMore
  <2> HIDE DEF f, g
  <2> QED
    BY <2>1
<1>2. \A p \in Packet \ {packet} : g[p] = f[p]
  BY DEF OneMore
<1>3. g[packet] = f[packet] + packet.amount_sd /\ packet.amount_sd \in Int
  <2>1. /\ f[packet] = packets[packet] * packet.amount_sd
        /\ g[packet] = (packets[packet] + 1) * packet.amount_sd
        /\ packets[packet] \in Int /\ packet.amount_sd \in Int
    BY AmountNat DEF OneMore
  <2> HIDE DEF f, g
  <2> QED
    BY <2>1
<1>4. /\ units_of(packets) = SumFunctionOnSet(f, Packet)
      /\ units_of(more) = SumFunctionOnSet(g, Packet)
  BY DEF units_of, SumFunction
<1> HIDE DEF f, g
<1>5. SumFunctionOnSet(g, Packet) = SumFunctionOnSet(f, Packet) - f[packet] + g[packet]
  BY <1>1, <1>2, PacketsFinite, SumChange
<1>6. SumFunctionOnSet(f, Packet) \in Int
  BY <1>1, PacketsFinite, SumInt
<1> QED
  BY <1>1, <1>3, <1>4, <1>5, <1>6

-----------------------------------------------------------------------------
(* Every unit that went out and did not come back is at a remote or on one *)
(* of the four legs of the way.                                            *)
Counted == /\ remote \in Nat /\ outbound \in Nat /\ inbound \in [Packet -> Nat]
           /\ wired_out = wired_in + remote + outbound
                            + units_of(inbound) + units_of(verified)

HubInv == IInv /\ OftType = "Adapter" /\ Counted

(* Nothing is wired before the first transfer.                             *)
LEMMA HubInvInit == HubInit => HubInv
<1> SUFFICES ASSUME HubInit PROVE HubInv
  OBVIOUS
<1>1. units_of(inbound) = 0 /\ units_of(verified) = 0
  BY UnitsOfNone DEF HubInit, Init
<1>2. inbound \in [Packet -> Nat]
  BY DEF HubInit
<1>3. remote = 0 /\ outbound = 0 /\ wired_out = 0 /\ wired_in = 0
  BY DEF HubInit, Init
<1>4. Counted
  BY <1>1, <1>2, <1>3 DEF Counted
<1> QED
  BY <1>4, IInvInit DEF HubInv, HubInit

(* Every step of the hub is a step of its OFT, or leaves it alone.         *)
LEMMA HubStep == [HubNext]_hvars => [Next]_vars
<1> SUFFICES ASSUME [HubNext]_hvars PROVE [Next]_vars
  OBVIOUS
<1>1. CASE Local
  BY <1>1 DEF Local, Next, Environment
<1>2. ASSUME NEW packet \in Packet, Relay(packet) PROVE [Next]_vars
  BY <1>2 DEF Relay, Next, Environment
<1>3. CASE \/ \E units \in 1 .. MaxWired : RemoteReceive(units)
           \/ \E packet \in Packet : RemoteSend(packet)
           \/ UNCHANGED hvars
  BY <1>3 DEF RemoteReceive, RemoteSend, hvars
<1> QED
  BY <1>1, <1>2, <1>3 DEF HubNext

(* An Adapter with honest remotes is an OFT.                               *)
LEMMA HubImplementsOFT == HubSpec => Spec
<1>1. HubInit => Init
  BY DEF HubInit
<1>2. [HubNext]_<<vars, remotes>> => [Next]_vars
  BY HubStep DEF hvars
<1> QED
  BY <1>1, <1>2, PTL DEF HubSpec, Spec

(* What send puts on the wire.                                             *)
LEMMA SendWires ==
    ASSUME IInv, NEW eid \in Eids, NEW amount_ld \in AmountsLd,
           NEW min_amount_ld, Send(eid, amount_ld, min_amount_ld)
    PROVE  wired_out' - wired_out \in Nat /\ wired_in' = wired_in /\ verified' = verified
<1> DEFINE k == ld2sd(Ld2sdRate, split(eid, amount_ld).amount_received_ld)
<1>1. k \in Nat
  BY SplitOfPeer DEF AddsUp
<1>2. wired_out' = wired_out + k /\ wired_in' = wired_in /\ verified' = verified
  BY DEF Send, endpoint
<1>3. wired_out \in Nat
  BY Numbers
<1> HIDE DEF k
<1> QED
  BY <1>1, <1>2, <1>3

(* lz_receive takes one verified packet and its units.                     *)
LEMMA LzReceiveUnwires ==
    ASSUME IInv, NEW packet \in Packet, LzReceive(packet)
    PROVE  /\ wired_out' = wired_out /\ wired_in' = wired_in + packet.amount_sd
           /\ OneMore(verified, verified', packet)
<1>1. /\ verified[packet] > 0
      /\ verified' = [verified EXCEPT ![packet] = @ - 1]
      /\ wired_out' = wired_out /\ wired_in' = wired_in + packet.amount_sd
  BY DEF LzReceive
<1>2. verified \in [Packet -> Nat]
  BY DEF IInv, TypeOK
<1>3. verified[packet] - 1 \in Nat /\ verified[packet] = (verified[packet] - 1) + 1
  BY <1>1, <1>2
<1>4. /\ verified' \in [Packet -> Nat] /\ verified'[packet] = verified[packet] - 1
      /\ \A other \in Packet \ {packet} : verified'[other] = verified[other]
  BY <1>1, <1>2, <1>3
<1> QED
  BY <1>1, <1>2, <1>3, <1>4 DEF OneMore

(* The instructions of the program.                                        *)
LEMMA LocalStep == ASSUME HubInv, IInv', Local PROVE Counted'
<1>1. /\ remote' = remote /\ inbound' = inbound
      /\ outbound' = outbound + (wired_out' - wired_out)
  BY DEF Local
<1>2. /\ remote \in Nat /\ outbound \in Nat /\ inbound \in [Packet -> Nat]
      /\ verified \in [Packet -> Nat] /\ wired_out \in Nat /\ wired_in \in Nat
      /\ wired_out = wired_in + remote + outbound + units_of(inbound) + units_of(verified)
  BY DEF HubInv, Counted, IInv, TypeOK
<1>3. units_of(inbound) \in Nat /\ units_of(verified) \in Nat
  BY <1>2, UnitsNat
<1>4. units_of(inbound') = units_of(inbound)
  BY <1>1
<1>5. ASSUME wired_out' - wired_out \in Nat, wired_in' = wired_in, verified' = verified
      PROVE  Counted'
  <2>1. wired_out' \in Nat
    BY DEF IInv, TypeOK
  <2>2. units_of(verified') = units_of(verified)
    BY <1>5
  <2>3. /\ outbound' \in Nat
        /\ wired_out' = wired_in' + remote' + outbound' + units_of(inbound')
                          + units_of(verified')
    BY <1>1, <1>2, <1>3, <1>4, <1>5, <2>1, <2>2
  <2> QED
    BY <1>1, <1>2, <2>3 DEF Counted
<1>6. ASSUME NEW packet \in Packet, LzReceive(packet) PROVE Counted'
  <2>1. /\ wired_out' = wired_out /\ wired_in' = wired_in + packet.amount_sd
        /\ OneMore(verified, verified', packet)
    BY <1>6, LzReceiveUnwires DEF HubInv
  <2>2. units_of(verified) = units_of(verified') + packet.amount_sd
    BY <2>1, UnitsOfOneMore
  <2>3. packet.amount_sd \in Nat /\ units_of(verified') \in Nat
    BY <2>1, AmountNat, UnitsNat DEF OneMore
  <2>4. /\ outbound' \in Nat
        /\ wired_out' = wired_in' + remote' + outbound' + units_of(inbound')
                          + units_of(verified')
    BY <1>1, <1>2, <1>3, <1>4, <2>1, <2>2, <2>3
  <2> QED
    BY <1>1, <1>2, <2>4 DEF Counted
<1>7. ASSUME NEW eid \in Eids, NEW amount_ld \in AmountsLd,
             NEW min_amount_ld \in AmountsLd \cup {0}, Send(eid, amount_ld, min_amount_ld)
      PROVE  Counted'
  BY <1>5, <1>7, SendWires DEF HubInv
<1>8. CASE \/ \E signer \in Keys : Administer(signer)
           \/ \E signer \in Keys, eid \in Eids : AdministerPeer(signer, eid)
           \/ Tick \/ NextEpoch
           \/ \E amount_ld \in AmountsLd : Donate(amount_ld)
  <2>1. wired_out' = wired_out /\ wired_in' = wired_in /\ verified' = verified
    BY <1>8 DEF Administer, WithdrawFee, SetPause, SetPaused, SetKey,
       SetDefaultFee, AdministerPeer, SetPeerAddress, SetPeerFee,
       SetEnforcedOptions, SetOutboundRateLimit, SetInboundRateLimit,
       SetPeerConfig, Tick, NextEpoch, Donate, endpoint, history
  <2>2. wired_out' - wired_out \in Nat
    BY <1>2, <2>1
  <2> QED
    BY <1>5, <2>1, <2>2
<1> QED
  BY <1>6, <1>7, <1>8 DEF Local, Transfer

(* The remotes, and the endpoint between them.                             *)
LEMMA RemoteReceiveStep ==
    ASSUME HubInv, NEW units \in 1 .. MaxWired, RemoteReceive(units) PROVE Counted'
<1>1. /\ units <= outbound /\ outbound' = outbound - units /\ remote' = remote + units
      /\ inbound' = inbound /\ wired_out' = wired_out /\ wired_in' = wired_in
      /\ verified' = verified
  BY DEF RemoteReceive, vars, history, endpoint
<1>2. /\ remote \in Nat /\ outbound \in Nat /\ inbound \in [Packet -> Nat]
      /\ verified \in [Packet -> Nat] /\ wired_out \in Nat /\ wired_in \in Nat
      /\ wired_out = wired_in + remote + outbound + units_of(inbound) + units_of(verified)
  BY DEF HubInv, Counted, IInv, TypeOK
<1>3. units_of(inbound) \in Nat /\ units_of(verified) \in Nat /\ units \in Nat
  <2>1. MaxWired \in Nat
    BY OFTAssumption
  <2> QED
    BY <1>2, <2>1, UnitsNat
<1>4. remote' \in Nat /\ outbound' \in Nat /\ remote' + outbound' = remote + outbound
  BY <1>1, <1>2, <1>3
<1>5. units_of(inbound') = units_of(inbound) /\ units_of(verified') = units_of(verified)
  BY <1>1
<1>6. wired_out' = wired_in' + remote' + outbound' + units_of(inbound')
                     + units_of(verified')
  BY <1>1, <1>2, <1>3, <1>4, <1>5
<1> QED
  BY <1>1, <1>2, <1>4, <1>6 DEF Counted

(* A send elsewhere moves units from the balances there to its packet.     *)
LEMMA RemoteSendStep ==
    ASSUME HubInv, NEW packet \in Packet, RemoteSend(packet) PROVE Counted'
<1>1. /\ packet.amount_sd <= remote /\ remote' = remote - packet.amount_sd
      /\ inbound' = [inbound EXCEPT ![packet] = @ + 1]
      /\ outbound' = outbound /\ wired_out' = wired_out /\ wired_in' = wired_in
      /\ verified' = verified
  BY DEF RemoteSend, vars, history, endpoint
<1>2. /\ remote \in Nat /\ outbound \in Nat /\ inbound \in [Packet -> Nat]
      /\ verified \in [Packet -> Nat] /\ wired_out \in Nat /\ wired_in \in Nat
      /\ wired_out = wired_in + remote + outbound + units_of(inbound) + units_of(verified)
  BY DEF HubInv, Counted, IInv, TypeOK
<1>3. OneMore(inbound', inbound, packet)
  <2>1. inbound[packet] + 1 \in Nat
    BY <1>2
  <2>2. /\ inbound' \in [Packet -> Nat] /\ inbound'[packet] = inbound[packet] + 1
        /\ \A other \in Packet \ {packet} : inbound'[other] = inbound[other]
    BY <1>1, <1>2, <2>1
  <2> QED
    BY <1>2, <2>2 DEF OneMore
<1>4. units_of(inbound') = units_of(inbound) + packet.amount_sd
  BY <1>3, UnitsOfOneMore
<1>5. /\ units_of(inbound) \in Nat /\ units_of(verified) \in Nat
      /\ packet.amount_sd \in Nat
  BY <1>2, UnitsNat, AmountNat
<1>6. units_of(verified') = units_of(verified)
  BY <1>1
<1>7. remote' \in Nat /\ remote' + packet.amount_sd = remote
  BY <1>1, <1>2, <1>5
<1> HIDE <1>1
<1>8. wired_out' = wired_out /\ wired_in' = wired_in /\ outbound' = outbound
  BY <1>1
<1>9. wired_out' = wired_in' + remote' + outbound' + units_of(inbound')
                     + units_of(verified')
  BY <1>2, <1>4, <1>5, <1>6, <1>7, <1>8
<1> QED
  BY <1>2, <1>3, <1>7, <1>8, <1>9 DEF Counted, OneMore

(* The endpoint moves a packet from under way to verified.                 *)
LEMMA RelayStep ==
    ASSUME HubInv, NEW packet \in Packet, Relay(packet) PROVE Counted'
<1>1. /\ inbound[packet] > 0 /\ inbound' = [inbound EXCEPT ![packet] = @ - 1]
      /\ verified' = [verified EXCEPT ![packet] = @ + 1]
      /\ remote' = remote /\ outbound' = outbound
      /\ wired_out' = wired_out /\ wired_in' = wired_in
  BY DEF Relay, Verify, history
<1>2. /\ remote \in Nat /\ outbound \in Nat /\ inbound \in [Packet -> Nat]
      /\ verified \in [Packet -> Nat] /\ wired_out \in Nat /\ wired_in \in Nat
      /\ wired_out = wired_in + remote + outbound + units_of(inbound) + units_of(verified)
  BY DEF HubInv, Counted, IInv, TypeOK
<1>3. OneMore(verified', verified, packet)
  <2>1. verified[packet] + 1 \in Nat
    BY <1>2
  <2>2. /\ verified' \in [Packet -> Nat] /\ verified'[packet] = verified[packet] + 1
        /\ \A other \in Packet \ {packet} : verified'[other] = verified[other]
    BY <1>1, <1>2, <2>1
  <2> QED
    BY <1>2, <2>2 DEF OneMore
<1>4. OneMore(inbound, inbound', packet)
  <2>1. inbound[packet] - 1 \in Nat /\ inbound[packet] = (inbound[packet] - 1) + 1
    BY <1>1, <1>2
  <2>2. /\ inbound' \in [Packet -> Nat] /\ inbound'[packet] = inbound[packet] - 1
        /\ \A other \in Packet \ {packet} : inbound'[other] = inbound[other]
    BY <1>1, <1>2, <2>1
  <2> QED
    BY <1>2, <2>1, <2>2 DEF OneMore
<1>5. /\ units_of(verified') = units_of(verified) + packet.amount_sd
      /\ units_of(inbound) = units_of(inbound') + packet.amount_sd
  BY <1>3, <1>4, UnitsOfOneMore
<1>6. /\ units_of(inbound') \in Nat /\ units_of(verified) \in Nat
      /\ packet.amount_sd \in Nat
  BY <1>2, <1>4, UnitsNat, AmountNat DEF OneMore
<1>7. /\ remote' = remote /\ outbound' = outbound
      /\ wired_out' = wired_out /\ wired_in' = wired_in
  BY <1>1
<1> HIDE <1>1
<1>8. wired_out' = wired_in' + remote' + outbound' + units_of(inbound')
                     + units_of(verified')
  BY <1>2, <1>5, <1>6, <1>7
<1> QED
  BY <1>2, <1>4, <1>7, <1>8 DEF Counted, OneMore

(* One step per action; Local ones by what they do to the wire.            *)
LEMMA HubInvNext == HubInv /\ [HubNext]_hvars => HubInv'
<1> SUFFICES ASSUME HubInv, [HubNext]_hvars PROVE HubInv'
  OBVIOUS
<1>1. IInv'
  BY HubStep, IInvNext DEF HubInv
<1>2. CASE UNCHANGED hvars
  <2>1. /\ remote' = remote /\ outbound' = outbound /\ inbound' = inbound
        /\ verified' = verified /\ wired_out' = wired_out /\ wired_in' = wired_in
    BY <1>2 DEF hvars, remotes, vars, history, endpoint
  <2> QED
    BY <1>1, <2>1 DEF HubInv, Counted, units_of
<1>3. CASE HubNext
  <2>1. Counted'
    BY <1>1, <1>3, LocalStep, RemoteReceiveStep, RemoteSendStep, RelayStep DEF HubNext
  <2> QED
    BY <1>1, <2>1 DEF HubInv
<1> QED
  BY <1>2, <1>3

(* The escrow and tvl_ld cover every packet under way: what is wired and   *)
(* not yet back is counted to the unit, and WireIsBacked and EscrowIsExact *)
(* put local decimals behind it.                                           *)
LEMMA HubCovers == HubInv => NeverShort
<1> SUFFICES ASSUME HubInv PROVE NeverShort
  OBVIOUS
<1> DEFINE owed == units_of(verified) + units_of(inbound)
<1>1. /\ remote \in Nat /\ outbound \in Nat
      /\ wired_out = wired_in + remote + outbound + units_of(inbound) + units_of(verified)
  BY DEF HubInv, Counted
<1>2. units_of(verified) \in Nat /\ units_of(inbound) \in Nat
  BY UnitsNat DEF HubInv, Counted, IInv, TypeOK
<1>3. /\ wired_in \in Nat /\ tvl_ld \in Nat /\ fees \in Nat /\ escrow = tvl_ld + fees
  BY Numbers DEF HubInv
<1>4. tvl_ld + Ld2sdRate * wired_in = Ld2sdRate * wired_out
  BY DEF HubInv, IInv, WireIsBacked
<1>5. Ld2sdRate \in Nat
  BY Constants
<1>6. wired_out = wired_in + owed + (remote + outbound)
  BY <1>1, <1>2, <1>3
<1>7. owed \in Nat /\ remote + outbound \in Nat
  BY <1>1, <1>2
<1> HIDE DEF owed
<1>8. /\ Ld2sdRate * wired_out
           = Ld2sdRate * wired_in + Ld2sdRate * owed + Ld2sdRate * (remote + outbound)
      /\ Ld2sdRate * owed = owed * Ld2sdRate
      /\ Ld2sdRate * owed \in Nat /\ Ld2sdRate * wired_in \in Nat
      /\ Ld2sdRate * (remote + outbound) \in Nat
  BY <1>3, <1>5, <1>6, <1>7
<1>9. owed * Ld2sdRate <= tvl_ld
  BY <1>3, <1>4, <1>8
<1>10. owed * Ld2sdRate <= escrow
  BY <1>3, <1>7, <1>5, <1>8, <1>9
<1> QED
  BY <1>9, <1>10 DEF NeverShort, sd2ld, owed

(* With honest remotes no packet waits for tokens: whatever the fees were, *)
(* whoever withdrew them and in whatever order packets arrive, tvl_ld and  *)
(* the escrow hold what all packets on their way ask for together.         *)
THEOREM HubNeverShort == HubSpec => []NeverShort
<1>1. HubInv /\ [HubNext]_<<vars, remotes>> => HubInv'
  BY HubInvNext DEF hvars
<1> QED
  BY <1>1, HubInvInit, HubCovers, PTL DEF HubSpec

=============================================================================
