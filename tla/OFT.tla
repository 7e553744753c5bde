-------------------------------- MODULE OFT --------------------------------
(***************************************************************************)
(* The OFT program (programs/oft/src): one OFTStore with its peers, the    *)
(* token accounts it moves, and the parts of the endpoint it calls.  A     *)
(* Solana transaction is atomic and a failing instruction leaves no trace, *)
(* so each instruction is one action and every error path is a guard.      *)
(*                                                                         *)
(* External, modelled from its use here: the token program (balances and   *)
(* the Token-2022 transfer fee of the epoch), the endpoint (which packets  *)
(* are verified, each cleared at most once; which pathways were opened)    *)
(* and the cluster's clock, which never goes back.                         *)
(***************************************************************************)
EXTENDS OFTMath, RateLimiter

CONSTANTS
    OftType, Ld2sdRate,         \* immutable fields of the OFTStore
    Eids,                       \* endpoint ids of the remote chains
    Addresses, ZeroAddress,     \* remote OApp addresses; [0; 32]
    Pathways,                   \* <<eid, address>> the endpoint has opened
    Keys, NoKey,                \* Solana keys; Option<Pubkey>::None
    InitialAdmin,               \* params.admin of init_oft
    InitialSupply               \* tokens of the mint at init_oft

CONSTANTS                       \* the inputs to try and the bounds on them
    AmountsLd, AmountsSd, FeeBps, TransferFees, LimitParams,
    MaxWired,                   \* shared-decimal units ever sent
    MaxVerified,                \* packets ever verified
    MaxNow                      \* seconds

ASSUME OFTAssumption ==
    /\ OftType \in {"Adapter", "Native"}
    /\ Ld2sdRate \in U64 \ {0}
    /\ ZeroAddress \notin Addresses
    /\ Pathways \subseteq Eids \X Addresses
    /\ InitialAdmin \in Keys /\ NoKey \notin Keys
    /\ InitialSupply \in U64
    /\ AmountsLd \subseteq U64 /\ AmountsSd \subseteq U64
    /\ FeeBps \subseteq Nat
    /\ TransferFees \subseteq TransferFee /\ TransferFees # {}
    /\ LimitParams \subseteq RateLimitParams
    /\ MaxWired \in Nat /\ MaxVerified \in Nat /\ MaxNow \in U64

VARIABLES
    tvl_ld, admin, default_fee_bps, paused, pauser, unpauser,   \* OFTStore
    peer,                       \* PeerConfig of each eid
    held, escrow, withheld,     \* users' tokens, the escrow, withheld fees
    epoch_fee,                  \* the transfer fee of the current epoch
    delegate,                   \* the endpoint's OApp delegate
    verified, nonce,            \* packets not yet cleared; how many ever came
    now,                        \* Clock::unix_timestamp
    report,                     \* the last OFTReceived event and composed amount
    fees,                       \* history: fees (and gifts) not withdrawn
    wired_out, wired_in,        \* history: sd units sent, delivered
    sent_ld, delivered_ld       \* history: the same in ld, by eid

keys     == <<admin, pauser, unpauser, delegate>>
tokens   == <<held, escrow, withheld>>
endpoint == <<verified, nonce>>
history  == <<wired_out, wired_in, sent_ld, delivered_ld>>
vars     == <<tvl_ld, default_fee_bps, paused, peer, epoch_fee, now, report, fees,
              keys, tokens, endpoint, history>>

Packet == [src_eid: Eids, sender: Addresses, amount_sd: AmountsSd,
           compose: BOOLEAN]

PeerConfig == [exists: BOOLEAN,
               peer_address: Addresses \cup {ZeroAddress},
               outbound_rate_limiter: RateLimiter,
               inbound_rate_limiter: RateLimiter,
               fee_bps: (0 .. OneInBasisPoints - 1) \cup {None}]

(* The account that init_if_needed will create.                            *)
NoPeer == [exists |-> FALSE, peer_address |-> ZeroAddress,
           outbound_rate_limiter |-> NoLimiter,
           inbound_rate_limiter |-> NoLimiter, fee_bps |-> None]

supply == held + escrow + withheld

-----------------------------------------------------------------------------
(* init_oft has run.                                                       *)
Init ==
    /\ tvl_ld = 0 /\ admin = InitialAdmin /\ default_fee_bps = 0
    /\ paused = FALSE /\ pauser = NoKey /\ unpauser = NoKey
    /\ delegate = InitialAdmin
    /\ peer = [e \in Eids |-> NoPeer]
    /\ held = InitialSupply /\ escrow = 0 /\ withheld = 0
    /\ epoch_fee \in TransferFees
    /\ verified = [p \in Packet |-> 0] /\ nonce = 0
    /\ now = 0
    /\ report = [credited |-> 0, amount_received_ld |-> 0, composed_ld |-> None]
    /\ fees = 0
    /\ wired_out = 0 /\ wired_in = 0
    /\ sent_ld = [e \in Eids |-> 0] /\ delivered_ld = [e \in Eids |-> 0]

(* transfer_checked: the recipient gets what the transfer fee leaves.      *)
post_fee(amount) == get_post_fee_amount_ld(epoch_fee, amount)

-----------------------------------------------------------------------------
(* send                                                                    *)

split(eid, amount_ld) ==
    compute_fee_and_adjust_amount(amount_ld, OftType, Ld2sdRate, epoch_fee,
                                  default_fee_bps, peer[eid].fee_bps)

(* Mutant: a send consumes from both limiters.                             *)
sent_against_both(p, amount_ld) ==
    [p EXCEPT !.outbound_rate_limiter = try_consume(@, amount_ld, now),
              !.inbound_rate_limiter = try_consume(@, amount_ld, now)]

(* The two limiters when an amount leaves for the peer p.                  *)
sent_to(p, amount_ld) ==
    [p EXCEPT !.outbound_rate_limiter = try_consume(@, amount_ld, now),
              !.inbound_rate_limiter = refill_if_some(@, amount_ld, now)]

(* Mutant: tvl_ld counts the fee as locked.                                *)
LockWithFee(s) ==
    /\ OftType = "Adapter"
    /\ tvl_ld' = tvl_ld + s.amount_received_ld + s.oft_fee_ld
    /\ held' = held - s.amount_sent_ld
    /\ escrow' = escrow + post_fee(s.amount_sent_ld)
    /\ withheld' = withheld + (s.amount_sent_ld - post_fee(s.amount_sent_ld))
    /\ fees' = fees + s.oft_fee_ld

(* Adapter: everything into the escrow, the fee included.                  *)
Lock(s) ==
    /\ OftType = "Adapter"
    /\ tvl_ld + s.amount_received_ld \in U64
    /\ tvl_ld' = tvl_ld + s.amount_received_ld
    /\ held' = held - s.amount_sent_ld
    /\ escrow' = escrow + post_fee(s.amount_sent_ld)
    /\ withheld' = withheld + (s.amount_sent_ld - post_fee(s.amount_sent_ld))
    /\ fees' = fees + s.oft_fee_ld

(* Native: burn all but the fee, which goes to the escrow.                 *)
Burn(s) ==
    /\ OftType = "Native"
    /\ held' = held - s.amount_sent_ld
    /\ escrow' = escrow + post_fee(s.oft_fee_ld)
    /\ withheld' = withheld + (s.oft_fee_ld - post_fee(s.oft_fee_ld))
    /\ fees' = fees + post_fee(s.oft_fee_ld)
    /\ UNCHANGED tvl_ld

Send(eid, amount_ld, min_amount_ld) ==
    LET s == split(eid, amount_ld)
        p == peer[eid]
    IN  /\ ~paused
        /\ p.exists
        /\ s.amount_sent_ld # None
        /\ s.amount_received_ld >= min_amount_ld
        /\ may_consume(p.outbound_rate_limiter, s.amount_received_ld, now)
        /\ <<eid, p.peer_address>> \in Pathways
        /\ s.amount_sent_ld <= held
        /\ wired_out + ld2sd(Ld2sdRate, s.amount_received_ld) <= MaxWired
        /\ Lock(s) \/ Burn(s)
        /\ peer' = [peer EXCEPT ![eid] = sent_to(p, s.amount_received_ld)]
        /\ wired_out' = wired_out + ld2sd(Ld2sdRate, s.amount_received_ld)
        /\ sent_ld' = [sent_ld EXCEPT ![eid] = @ + s.amount_received_ld]
        /\ UNCHANGED <<default_fee_bps, paused, epoch_fee, now, report, keys,
                       endpoint, wired_in, delivered_ld>>

-----------------------------------------------------------------------------
(* lz_receive                                                              *)

(* Mutant: deliveries ignore the pause.                                    *)
accepts_paused(packet) ==
    /\ peer[packet.src_eid].exists
    /\ peer[packet.src_eid].peer_address = packet.sender

(* The accounts and the pause: a packet of the current peer address.       *)
accepts(packet) ==
    /\ ~paused
    /\ peer[packet.src_eid].exists
    /\ peer[packet.src_eid].peer_address = packet.sender

(* Mutant: a delivery gives nothing back to the outbound limiter.          *)
received_only(p, amount_ld) ==
    [p EXCEPT !.inbound_rate_limiter = try_consume(@, amount_ld, now)]

(* The two limiters when an amount arrives from the peer p.                *)
received_from(p, amount_ld) ==
    [p EXCEPT !.inbound_rate_limiter = try_consume(@, amount_ld, now),
              !.outbound_rate_limiter = refill_if_some(@, amount_ld, now)]

(* Mutant: tvl_ld loses only what the recipient gets.                      *)
UnlockNet(amount_ld) ==
    /\ OftType = "Adapter"
    /\ amount_ld <= tvl_ld
    /\ amount_ld <= escrow
    /\ tvl_ld' = tvl_ld - post_fee(amount_ld)
    /\ escrow' = escrow - amount_ld
    /\ held' = held + post_fee(amount_ld)
    /\ withheld' = withheld + (amount_ld - post_fee(amount_ld))

(* Adapter: out of the escrow, and tvl_ld must cover it.                   *)
Unlock(amount_ld) ==
    /\ OftType = "Adapter"
    /\ amount_ld <= tvl_ld
    /\ amount_ld <= escrow
    /\ tvl_ld' = tvl_ld - amount_ld
    /\ escrow' = escrow - amount_ld
    /\ held' = held + post_fee(amount_ld)
    /\ withheld' = withheld + (amount_ld - post_fee(amount_ld))

(* Mutant: the supply may leave the u64 range.                             *)
MintUnbounded(amount_ld) ==
    /\ OftType = "Native"
    /\ held' = held + amount_ld
    /\ UNCHANGED <<tvl_ld, escrow, withheld>>

(* Native: the mint's supply is a u64 too.                                 *)
Mint(amount_ld) ==
    /\ OftType = "Native"
    /\ supply + amount_ld \in U64
    /\ held' = held + amount_ld
    /\ UNCHANGED <<tvl_ld, escrow, withheld>>

(* Mutants: the event forgets the transfer fee; it applies it to a mint.   *)
amount_unlocked(amount_ld) == amount_ld
amount_as_if_unlocked(amount_ld) == post_fee(amount_ld)

(* The amount the OFTReceived event and the composed message carry.        *)
amount_received(amount_ld) ==
    IF OftType = "Adapter" THEN post_fee(amount_ld) ELSE amount_ld

LzReceive(packet) ==
    LET eid == packet.src_eid
        p == peer[eid]
        amount_ld == sd2ld(Ld2sdRate, packet.amount_sd)
    IN  /\ accepts(packet)
        /\ verified[packet] > 0
        /\ amount_ld \in U64
        /\ may_consume(p.inbound_rate_limiter, amount_ld, now)
        /\ verified' = [verified EXCEPT ![packet] = @ - 1]
        /\ peer' = [peer EXCEPT ![eid] = received_from(p, amount_ld)]
        /\ Unlock(amount_ld) \/ Mint(amount_ld)
        /\ report' = [credited |-> held' - held,
                      amount_received_ld |-> amount_received(amount_ld),
                      composed_ld |-> IF packet.compose
                                        THEN amount_received(amount_ld) ELSE None]
        /\ wired_in' = wired_in + packet.amount_sd
        /\ delivered_ld' = [delivered_ld EXCEPT ![eid] = @ + amount_ld]
        /\ UNCHANGED <<default_fee_bps, paused, epoch_fee, now, fees, keys, nonce,
                       wired_out, sent_ld>>

-----------------------------------------------------------------------------
(* The admin's instructions.                                               *)

(* Mutant: the escrow is not held against tvl_ld.                          *)
WithdrawAll(signer, fee_ld) ==
    /\ signer = admin
    /\ escrow >= fee_ld
    /\ escrow' = escrow - fee_ld
    /\ held' = held + post_fee(fee_ld)
    /\ withheld' = withheld + (fee_ld - post_fee(fee_ld))
    /\ fees' = fees - fee_ld
    /\ UNCHANGED <<tvl_ld, default_fee_bps, paused, peer, epoch_fee, now, report,
                   keys, endpoint, history>>

(* withdraw_fee: not held back by a pause.  The subtraction panics when    *)
(* the escrow does not cover tvl_ld.                                       *)
WithdrawFee(signer, fee_ld) ==
    /\ signer = admin
    /\ escrow - tvl_ld \in U64
    /\ escrow - tvl_ld >= fee_ld
    /\ escrow' = escrow - fee_ld
    /\ held' = held + post_fee(fee_ld)
    /\ withheld' = withheld + (fee_ld - post_fee(fee_ld))
    /\ fees' = fees - fee_ld
    /\ UNCHANGED <<tvl_ld, default_fee_bps, paused, peer, epoch_fee, now, report,
                   keys, endpoint, history>>

SetPause(signer, value) ==
    /\ signer = IF value THEN pauser ELSE unpauser
    /\ paused' = value
    /\ UNCHANGED <<tvl_ld, default_fee_bps, peer, epoch_fee, now, report, fees,
                   keys, tokens, endpoint, history>>

(* set_oft_config: Admin, Delegate, Pauser and Unpauser.                   *)
SetKey(signer, key) ==
    /\ signer = admin
    /\ \/ /\ key \in Keys /\ admin' = key
          /\ UNCHANGED <<delegate, pauser, unpauser>>
       \/ /\ key \in Keys /\ delegate' = key
          /\ UNCHANGED <<admin, pauser, unpauser>>
       \/ pauser' = key /\ UNCHANGED <<admin, delegate, unpauser>>
       \/ unpauser' = key /\ UNCHANGED <<admin, delegate, pauser>>
    /\ UNCHANGED <<tvl_ld, default_fee_bps, paused, peer, epoch_fee, now, report,
                   fees, tokens, endpoint, history>>

(* set_oft_config: DefaultFee.                                             *)
SetDefaultFee(signer, fee_bps) ==
    /\ signer = admin
    /\ fee_bps < OneInBasisPoints
    /\ default_fee_bps' = fee_bps
    /\ UNCHANGED <<tvl_ld, paused, peer, epoch_fee, now, report, fees, keys,
                   tokens, endpoint, history>>

(* set_oft_config: Paused.                                                 *)
SetPaused(signer, value) ==
    /\ signer = admin
    /\ paused' = value
    /\ UNCHANGED <<tvl_ld, default_fee_bps, peer, epoch_fee, now, report, fees,
                   keys, tokens, endpoint, history>>

(* set_peer_config creates the PeerConfig if need be and replaces one part *)
(* of it; enforced options, the part that is abstracted, leave the rest.   *)
SetPeerConfig(signer, eid, config) ==
    /\ signer = admin
    /\ peer' = [peer EXCEPT ![eid] = [config EXCEPT !.exists = TRUE]]
    /\ UNCHANGED <<tvl_ld, default_fee_bps, paused, epoch_fee, now, report, fees,
                   keys, tokens, endpoint, history>>

SetPeerAddress(signer, eid, peer_address) ==
    SetPeerConfig(signer, eid, [peer[eid] EXCEPT !.peer_address = peer_address])

SetPeerFee(signer, eid, fee_bps) ==
    /\ fee_bps # None => fee_bps < OneInBasisPoints
    /\ SetPeerConfig(signer, eid, [peer[eid] EXCEPT !.fee_bps = fee_bps])

SetEnforcedOptions(signer, eid) == SetPeerConfig(signer, eid, peer[eid])

SetOutboundRateLimit(signer, eid, limiter) ==
    SetPeerConfig(signer, eid,
                  [peer[eid] EXCEPT !.outbound_rate_limiter = limiter])

SetInboundRateLimit(signer, eid, limiter) ==
    SetPeerConfig(signer, eid,
                  [peer[eid] EXCEPT !.inbound_rate_limiter = limiter])

(* What update_rate_limiter can make of a limiter: None, or the parameters.*)
Updated(limiter) ==
    {NoLimiter} \cup {update_rate_limiter(limiter, params, now) : params \in LimitParams}

-----------------------------------------------------------------------------
(* The environment.                                                        *)

(* The endpoint verifies a packet of an open pathway: any packet a remote  *)
(* OApp may have sent, in any order.                                       *)
Verify(packet) ==
    /\ <<packet.src_eid, packet.sender>> \in Pathways
    /\ nonce < MaxVerified
    /\ nonce' = nonce + 1
    /\ verified' = [verified EXCEPT ![packet] = @ + 1]
    /\ UNCHANGED <<tvl_ld, default_fee_bps, paused, peer, epoch_fee, now, report,
                   fees, keys, tokens, history>>

Tick ==
    /\ now < MaxNow
    /\ now' = now + 1
    /\ UNCHANGED <<tvl_ld, default_fee_bps, paused, peer, epoch_fee, report, fees,
                   keys, tokens, endpoint, history>>

(* The mint's authority had scheduled another transfer fee.                *)
NextEpoch ==
    /\ epoch_fee' \in TransferFees
    /\ UNCHANGED <<tvl_ld, default_fee_bps, paused, peer, now, report, fees,
                   keys, tokens, endpoint, history>>

(* Anyone may transfer tokens to the escrow.                               *)
Donate(amount_ld) ==
    /\ amount_ld <= held
    /\ held' = held - amount_ld
    /\ escrow' = escrow + post_fee(amount_ld)
    /\ withheld' = withheld + (amount_ld - post_fee(amount_ld))
    /\ fees' = fees + post_fee(amount_ld)
    /\ UNCHANGED <<tvl_ld, default_fee_bps, paused, peer, epoch_fee, now, report,
                   keys, endpoint, history>>

-----------------------------------------------------------------------------
Transfer ==
    \/ \E eid \in Eids, amount_ld \in AmountsLd, min_amount_ld \in AmountsLd \cup {0} :
          Send(eid, amount_ld, min_amount_ld)
    \/ \E packet \in Packet : LzReceive(packet)

Administer(signer) ==
    \/ \E fee_ld \in AmountsLd : WithdrawFee(signer, fee_ld)
    \/ \E value \in BOOLEAN : SetPause(signer, value) \/ SetPaused(signer, value)
    \/ \E key \in Keys \cup {NoKey} : SetKey(signer, key)
    \/ \E fee_bps \in FeeBps : SetDefaultFee(signer, fee_bps)

AdministerPeer(signer, eid) ==
    \/ \E peer_address \in Addresses \cup {ZeroAddress} :
          SetPeerAddress(signer, eid, peer_address)
    \/ \E fee_bps \in FeeBps \cup {None} : SetPeerFee(signer, eid, fee_bps)
    \/ SetEnforcedOptions(signer, eid)
    \/ \E limiter \in Updated(peer[eid].outbound_rate_limiter) :
          SetOutboundRateLimit(signer, eid, limiter)
    \/ \E limiter \in Updated(peer[eid].inbound_rate_limiter) :
          SetInboundRateLimit(signer, eid, limiter)

Environment == \/ \E packet \in Packet : Verify(packet)
               \/ Tick
               \/ NextEpoch
               \/ \E amount_ld \in AmountsLd : Donate(amount_ld)

Next == \/ Transfer
        \/ \E signer \in Keys : Administer(signer)
        \/ \E signer \in Keys, eid \in Eids : AdministerPeer(signer, eid)
        \/ Environment

Spec == Init /\ [][Next]_vars

-----------------------------------------------------------------------------
TypeOK ==
    /\ tvl_ld \in U64
    /\ admin \in Keys /\ delegate \in Keys
    /\ pauser \in Keys \cup {NoKey} /\ unpauser \in Keys \cup {NoKey}
    /\ paused \in BOOLEAN
    /\ default_fee_bps \in 0 .. OneInBasisPoints - 1
    /\ peer \in [Eids -> PeerConfig]
    /\ held \in Nat /\ escrow \in Nat /\ withheld \in Nat /\ supply \in U64
    /\ epoch_fee \in TransferFee
    /\ verified \in [Packet -> Nat] /\ nonce \in Nat
    /\ now \in U64
    /\ report \in [credited: U64, amount_received_ld: U64, composed_ld: U64 \cup {None}]
    /\ fees \in Nat
    /\ wired_out \in Nat /\ wired_in \in Nat
    /\ sent_ld \in [Eids -> Nat] /\ delivered_ld \in [Eids -> Nat]

(* The escrow holds exactly what is locked plus the fees not yet withdrawn *)
(* (and what was given away): every rounding of send is undone, no         *)
(* withdrawal or delivery can dip into the other's share, whatever the     *)
(* fees were when tokens came in, and the subtraction of withdraw_fee      *)
(* never underflows.                                                       *)
EscrowIsExact == escrow = tvl_ld + fees

(* What the wire carries is backed: an Adapter holds tvl_ld for exactly the*)
(* shared-decimal units that went out and did not come back, and a Native  *)
(* OFT's supply moves by exactly the units delivered less the units sent.  *)
(* No dust, fee or changed rate leaks into either.                         *)
WireIsBacked ==
    IF OftType = "Adapter"
      THEN /\ tvl_ld + Ld2sdRate * wired_in = Ld2sdRate * wired_out
           /\ supply = InitialSupply
      ELSE /\ tvl_ld = 0
           /\ supply + Ld2sdRate * wired_out = InitialSupply + Ld2sdRate * wired_in

(* The amount the OFTReceived event announces, and the amount a composed   *)
(* message spends, is the amount the recipient was credited with.          *)
ReportIsCredit ==
    /\ report.amount_received_ld = report.credited
    /\ report.composed_ld \in {None, report.credited}

(* While the OFT is paused nothing crosses: no lock, unlock, mint or burn, *)
(* whichever key acts, and packets keep their place at the endpoint.       *)
PausedFreezesFunds ==
    [][paused => /\ UNCHANGED <<tvl_ld, supply, wired_in, wired_out>>
                 /\ \A p \in Packet : verified'[p] >= verified[p]]_vars

(* The limiters of a peer, both directions, are token buckets on what      *)
(* crosses: sends take from the outbound bucket and give to the inbound    *)
(* one, deliveries the other way round, and the program serves neither     *)
(* more nor less than the buckets would.  (TLC wants Spec, quantified over *)
(* eid, with the quantifier inside.)                                       *)
Outbound(eid) ==
    INSTANCE TokenBucket
      WITH open     <- peer[eid].outbound_rate_limiter.some,
           capacity <- peer[eid].outbound_rate_limiter.capacity,
           rate     <- peer[eid].outbound_rate_limiter.refill_per_second,
           level    <- level_at(peer[eid].outbound_rate_limiter, now),
           time     <- now,
           taken    <- sent_ld[eid],
           given    <- delivered_ld[eid]

Inbound(eid) ==
    INSTANCE TokenBucket
      WITH open     <- peer[eid].inbound_rate_limiter.some,
           capacity <- peer[eid].inbound_rate_limiter.capacity,
           rate     <- peer[eid].inbound_rate_limiter.refill_per_second,
           level    <- level_at(peer[eid].inbound_rate_limiter, now),
           time     <- now,
           taken    <- delivered_ld[eid],
           given    <- sent_ld[eid]

OutboundIsBucket ==
    /\ \A eid \in Eids : Outbound(eid)!Init
    /\ [][\A eid \in Eids : [Outbound(eid)!Next]_(Outbound(eid)!vars)]_vars

InboundIsBucket ==
    /\ \A eid \in Eids : Inbound(eid)!Init
    /\ [][\A eid \in Eids : [Inbound(eid)!Next]_(Inbound(eid)!vars)]_vars

=============================================================================
