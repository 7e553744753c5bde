------------------------------- MODULE MCOFT -------------------------------
(* Instances of OFT for TLC.  Each run narrows Next to the instructions it *)
(* is about; the full Next is checked with a single token in motion.       *)
EXTENDS OFT

(* A 100 % fee, a rounded one, a capped one and none, on 4 basis points.   *)
MCTransferFees == {[transfer_fee_basis_points |-> b, maximum_fee |-> m] :
                      <<b, m>> \in {<<0, 0>>, <<1, 9>>, <<3, 2>>, <<4, 1>>}}
NoTransferFees == {[transfer_fee_basis_points |-> 0, maximum_fee |-> 0]}
MCLimitParams == [capacity: {None, 2, 3}, refill_per_second: {None, 1}]
NoLimitParams == {}

CONSTANTS e1, e2, a1, a2
OnePathway == {<<e1, a1>>}

Connect == \E signer \in Keys, eid \in Eids, peer_address \in Addresses :
              SetPeerAddress(signer, eid, peer_address)

(* Value: what crosses, under every fee, with no limiter and no pause.     *)
ValueNext ==
    \/ Transfer
    \/ \E signer \in Keys, fee_ld \in AmountsLd : WithdrawFee(signer, fee_ld)
    \/ \E signer \in Keys, fee_bps \in FeeBps : SetDefaultFee(signer, fee_bps)
    \/ Connect
    \/ (\E packet \in Packet : Verify(packet)) \/ NextEpoch
    \/ \E amount_ld \in AmountsLd : Donate(amount_ld)
ValueSpec == Init /\ [][ValueNext]_vars

(* Limits: both limiters of every peer against the clock, no fees.         *)
LimitsNext ==
    \/ Transfer
    \/ Connect
    \/ \E signer \in Keys, eid \in Eids :
          \/ \E limiter \in Updated(peer[eid].outbound_rate_limiter) :
                SetOutboundRateLimit(signer, eid, limiter)
          \/ \E limiter \in Updated(peer[eid].inbound_rate_limiter) :
                SetInboundRateLimit(signer, eid, limiter)
    \/ (\E packet \in Packet : Verify(packet)) \/ Tick
LimitsSpec == Init /\ [][LimitsNext]_vars

=============================================================================
