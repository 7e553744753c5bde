----------------------------- MODULE OFTProofs -----------------------------
(***************************************************************************)
(* The invariants of OFT, for every u64 range, set of peers, keys, amounts *)
(* and fees, with no bound on what is sent.  TypeOK alone is not inductive:*)
(* that a withdrawal leaves fees a natural needs EscrowIsExact, that an    *)
(* Adapter's supply stays a u64 needs WireIsBacked, and that the limiters  *)
(* stay u64 records needs them not to be from the future.                  *)
(***************************************************************************)
EXTENDS OFT, OperatorProofs

LimitersSane == \A eid \in Eids : /\ Sane(peer[eid].outbound_rate_limiter, now)
                                  /\ Sane(peer[eid].inbound_rate_limiter, now)

IInv == TypeOK /\ LimitersSane /\ EscrowIsExact /\ WireIsBacked /\ ReportIsCredit

(* An account is a PeerConfig with limiters that are not from the future.  *)
SanePeer(p, t) == /\ p \in PeerConfig
                  /\ Sane(p.outbound_rate_limiter, t)
                  /\ Sane(p.inbound_rate_limiter, t)

(* The limiter that is not there is sane at every time.                    *)
LEMMA NoLimiterSane == ASSUME NEW t \in U64 PROVE Sane(NoLimiter, t)
<1>1. t \in Nat /\ 0 \in U64
  BY U64MaxAssumption DEF U64
<1> QED
  BY <1>1 DEF NoLimiter, Sane, RateLimiter

(* Units add up on the wire.                                               *)
LEMMA Distribute ==
    ASSUME NEW r \in Nat, NEW a \in Nat, NEW b \in Nat
    PROVE  r * (a + b) = r * a + b * r /\ r * a \in Nat /\ b * r \in Nat
  OBVIOUS

(* What the constants are, in terms of numbers.                            *)
LEMMA Constants ==
    /\ U64Max \in Nat /\ U64 = 0 .. U64Max /\ OneInBasisPoints \in Nat \ {0}
    /\ Ld2sdRate \in Nat \ {0}
    /\ OftType \in {"Adapter", "Native"}
    /\ InitialSupply \in U64 /\ MaxNow \in U64
    /\ AmountsLd \subseteq U64 /\ AmountsSd \subseteq U64
    /\ InitialAdmin \in Keys
    /\ TransferFees \subseteq TransferFee
  BY U64MaxAssumption, OneInBasisPointsAssumption, OFTAssumption DEF U64

(* What the invariant says of the numbers of a state.                      *)
LEMMA Numbers ==
    ASSUME IInv
    PROVE  /\ tvl_ld \in U64 /\ tvl_ld \in Nat /\ tvl_ld <= U64Max
           /\ held \in Nat /\ escrow \in Nat /\ withheld \in Nat /\ fees \in Nat
           /\ held + escrow + withheld \in Nat
           /\ held + escrow + withheld <= U64Max
           /\ wired_out \in Nat /\ wired_in \in Nat /\ nonce \in Nat
           /\ now \in U64 /\ now \in Nat
           /\ epoch_fee \in TransferFee
           /\ escrow = tvl_ld + fees
           /\ \A eid \in Eids : SanePeer(peer[eid], now)
  BY Constants DEF IInv, TypeOK, EscrowIsExact, LimitersSane, SanePeer, supply

(* init_oft establishes the invariant.                                     *)
LEMMA IInvInit == Init => IInv
<1> SUFFICES ASSUME Init PROVE IInv
  OBVIOUS
<1>1. 0 \in U64 /\ 0 \in Nat /\ InitialSupply \in Nat
  BY Constants
<1>2. SanePeer(NoPeer, now)
  BY <1>1, NoLimiterSane DEF Init, SanePeer, NoPeer, PeerConfig, Sane
<1>3. \A eid \in Eids : SanePeer(peer[eid], now)
  BY <1>2 DEF Init
<1>4. peer \in [Eids -> PeerConfig] /\ LimitersSane
  BY <1>3 DEF Init, SanePeer, LimitersSane
<1>5. supply = InitialSupply
  BY <1>1 DEF Init, supply
<1>6. 0 \in 0 .. OneInBasisPoints - 1
  BY Constants
<1>7. TypeOK
  BY <1>1, <1>4, <1>5, <1>6, Constants DEF Init, TypeOK
<1>8. EscrowIsExact /\ ReportIsCredit
  BY DEF Init, EscrowIsExact, ReportIsCredit
<1>9. WireIsBacked
  BY <1>1, <1>5, Constants DEF Init, WireIsBacked
<1> QED
  BY <1>4, <1>7, <1>8, <1>9 DEF IInv

-----------------------------------------------------------------------------
(* Peers stay peers when one of them is replaced by another sane one and   *)
(* the clock does not go back.                                             *)
LEMMA PeersKept ==
    ASSUME IInv, NEW eid \in Eids, NEW p, SanePeer(p, now),
           peer' = [peer EXCEPT ![eid] = p], now' = now
    PROVE  peer' \in [Eids -> PeerConfig] /\ LimitersSane'
<1>1. \A e \in Eids : SanePeer(peer[e], now)
  BY Numbers
<1>2. peer \in [Eids -> PeerConfig]
  BY DEF IInv, TypeOK
<1>3. peer' \in [Eids -> PeerConfig]
  BY <1>2 DEF SanePeer
<1>4. \A e \in Eids : peer'[e] = IF e = eid THEN p ELSE peer[e]
  BY <1>2
<1>5. \A e \in Eids : SanePeer(peer'[e], now)
  BY <1>1, <1>4
<1> QED
  BY <1>3, <1>5 DEF LimitersSane, SanePeer

(* What the two limiters of a peer become when an amount crosses: consume  *)
(* from one, give back to the other.                                       *)
LEMMA LimitersKept ==
    ASSUME NEW l, NEW m, NEW t, NEW x \in U64, Sane(l, t), Sane(m, t),
           may_consume(l, x, t)
    PROVE  Sane(try_consume(l, x, t), t) /\ Sane(refill_if_some(m, x, t), t)
<1>1. Sane(try_consume(l, x, t), t)
  BY ConsumeIsExact
<1>2. Sane(refill_if_some(m, x, t), t)
  BY RefillIsExact
<1> QED
  BY <1>1, <1>2

(* What compute_fee_and_adjust_amount returns for a peer of the store.     *)
LEMMA SplitOfPeer ==
    ASSUME IInv, NEW eid \in Eids, NEW amount_ld \in AmountsLd
    PROVE  AddsUp(split(eid, amount_ld), amount_ld, OftType, Ld2sdRate, epoch_fee)
<1> DEFINE p == peer[eid]
<1>1. SanePeer(p, now) /\ epoch_fee \in TransferFee
  BY Numbers
<1>2. default_fee_bps \in 0 .. OneInBasisPoints - 1
  BY DEF IInv, TypeOK
<1>3. p.fee_bps \in (0 .. OneInBasisPoints - 1) \cup {None}
  BY <1>1 DEF SanePeer, PeerConfig
<1>4. 0 .. OneInBasisPoints - 1 \subseteq 0 .. OneInBasisPoints
  BY Constants
<1> QED
  BY <1>1, <1>2, <1>3, <1>4, Constants, SplitAddsUp DEF split

(* send: the escrow gains what tvl_ld and fees gain together (Adapter) or  *)
(* the fee (Native), and the wire exactly what tvl_ld gains or the supply  *)
(* loses.                                                                  *)
LEMMA SendStep ==
    ASSUME IInv, NEW eid \in Eids, NEW amount_ld \in AmountsLd,
           NEW min_amount_ld, Send(eid, amount_ld, min_amount_ld)
    PROVE  IInv'
<1> DEFINE s == split(eid, amount_ld)
           p == peer[eid]
           k == ld2sd(Ld2sdRate, s.amount_received_ld)
           q == sent_to(p, s.amount_received_ld)
<1>1. amount_ld \in U64 /\ amount_ld \in Nat /\ U64 = 0 .. U64Max /\ U64Max \in Nat
      /\ amount_ld <= U64Max
  BY Constants
<1>2. p \in PeerConfig /\ SanePeer(p, now) /\ epoch_fee \in TransferFee
  BY Numbers DEF SanePeer
<1>3. AddsUp(s, amount_ld, OftType, Ld2sdRate, epoch_fee)
  BY SplitOfPeer
<1>4. /\ p.exists
      /\ may_consume(p.outbound_rate_limiter, s.amount_received_ld, now)
      /\ s.amount_sent_ld <= held
      /\ Lock(s) \/ Burn(s)
      /\ peer' = [peer EXCEPT ![eid] = q]
      /\ wired_out' = wired_out + k
      /\ sent_ld' = [sent_ld EXCEPT ![eid] = @ + s.amount_received_ld]
      /\ UNCHANGED <<default_fee_bps, paused, epoch_fee, now, report, keys,
                     endpoint, wired_in, delivered_ld>>
  BY DEF Send
<1> HIDE DEF s, k
<1>5. /\ s.amount_received_ld \in Nat /\ s.amount_received_ld <= amount_ld
      /\ s.amount_sent_ld \in Nat /\ s.oft_fee_ld \in Nat
      /\ s.amount_received_ld \in U64 /\ k \in Nat
      /\ k * Ld2sdRate = s.amount_received_ld
  BY <1>1, <1>3 DEF AddsUp, k, sd2ld
<1>6. SanePeer(q, now)
  <2>1. /\ Sane(try_consume(p.outbound_rate_limiter, s.amount_received_ld, now), now)
        /\ Sane(refill_if_some(p.inbound_rate_limiter, s.amount_received_ld, now), now)
    BY <1>2, <1>4, <1>5, LimitersKept DEF SanePeer
  <2> QED
    BY <1>2, <2>1 DEF SanePeer, PeerConfig, Sane, sent_to
<1> HIDE DEF q, p
<1>7. peer' \in [Eids -> PeerConfig] /\ LimitersSane'
  BY <1>4, <1>6, PeersKept
<1>8. Ld2sdRate * wired_out' = Ld2sdRate * wired_out + s.amount_received_ld
      /\ wired_out' \in Nat /\ Ld2sdRate * wired_out \in Nat
  <2>1. wired_out \in Nat /\ wired_out' = wired_out + k /\ Ld2sdRate \in Nat
    BY <1>4, Numbers, Constants
  <2>2. Ld2sdRate * (wired_out + k) = Ld2sdRate * wired_out + k * Ld2sdRate
        /\ Ld2sdRate * wired_out \in Nat
    BY <1>5, <2>1, Distribute
  <2> QED
    BY <1>5, <2>1, <2>2
<1>9. sent_ld' \in [Eids -> Nat]
  BY <1>4, <1>5 DEF IInv, TypeOK
<1>10. ReportIsCredit'
  BY <1>4 DEF IInv, ReportIsCredit
<1>11. Ld2sdRate * wired_in \in Nat /\ wired_in' = wired_in
  BY <1>4, Numbers, Constants, Distribute
<1>12. CASE Lock(s)
  <2> DEFINE post == get_post_fee_amount_ld(epoch_fee, s.amount_sent_ld)
  <2>1. /\ OftType = "Adapter"
        /\ tvl_ld + s.amount_received_ld \in U64
        /\ tvl_ld' = tvl_ld + s.amount_received_ld
        /\ held' = held - s.amount_sent_ld
        /\ escrow' = escrow + post
        /\ withheld' = withheld + (s.amount_sent_ld - post)
        /\ fees' = fees + s.oft_fee_ld
    BY <1>12 DEF Lock, post_fee
  <2>2. post = s.amount_received_ld + s.oft_fee_ld
        /\ s.amount_received_ld + s.oft_fee_ld <= s.amount_sent_ld
    BY <1>3, <2>1 DEF AddsUp
  <2> HIDE DEF post
  <2>3. /\ tvl_ld' \in U64 /\ held' \in Nat /\ escrow' \in Nat
        /\ withheld' \in Nat /\ fees' \in Nat
        /\ held' + escrow' + withheld' = held + escrow + withheld
        /\ escrow' = tvl_ld' + fees'
    BY <1>4, <1>5, <2>1, <2>2, Numbers
  <2>4. supply' = supply
    BY <2>3 DEF supply
  <2>5. TypeOK'
    BY <1>4, <1>7, <1>8, <1>9, <2>3, <2>4 DEF IInv, TypeOK, keys, endpoint
  <2>6. tvl_ld' + Ld2sdRate * wired_in' = Ld2sdRate * wired_out'
    <3>1. tvl_ld + Ld2sdRate * wired_in = Ld2sdRate * wired_out
      BY <2>1 DEF IInv, WireIsBacked
    <3>2. Ld2sdRate * wired_in' = Ld2sdRate * wired_in
      BY <1>11
    <3> DEFINE out == Ld2sdRate * wired_out   out1 == Ld2sdRate * wired_out'
               in == Ld2sdRate * wired_in     in1 == Ld2sdRate * wired_in'
    <3>3. /\ out1 = out + s.amount_received_ld /\ out \in Nat
          /\ in1 = in /\ in \in Nat
          /\ tvl_ld + in = out
      BY <1>8, <1>11, <3>1, <3>2
    <3> HIDE DEF out, out1, in, in1
    <3>4. tvl_ld' + in1 = out1
      BY <1>5, <2>1, <3>3, Numbers
    <3> QED
      BY <3>4 DEF out1, in1
  <2>7. WireIsBacked'
    BY <2>1, <2>4, <2>6 DEF IInv, WireIsBacked
  <2> QED
    BY <1>7, <1>10, <2>3, <2>5, <2>7 DEF IInv, EscrowIsExact
<1>13. CASE Burn(s)
  <2> DEFINE post == get_post_fee_amount_ld(epoch_fee, s.oft_fee_ld)
  <2>1. /\ OftType = "Native" /\ OftType # "Adapter"
        /\ held' = held - s.amount_sent_ld
        /\ escrow' = escrow + post
        /\ withheld' = withheld + (s.oft_fee_ld - post)
        /\ fees' = fees + post
        /\ tvl_ld' = tvl_ld
    BY <1>13 DEF Burn, post_fee
  <2>2. s.amount_sent_ld = s.amount_received_ld + s.oft_fee_ld
    BY <1>3, <2>1 DEF AddsUp
  <2>3. post \in 0 .. s.oft_fee_ld
    BY <1>5, Numbers, TransferFeeIsPart
  <2> HIDE DEF post
  <2>4. /\ held' \in Nat /\ escrow' \in Nat
        /\ withheld' \in Nat /\ fees' \in Nat
        /\ escrow' = tvl_ld' + fees'
        /\ held' + escrow' + withheld' + s.amount_received_ld = held + escrow + withheld
    BY <1>4, <1>5, <2>1, <2>2, <2>3, Numbers
  <2>5. supply' + s.amount_received_ld = supply /\ supply' \in U64
        /\ supply' \in Nat /\ supply \in Nat
    <3>1. /\ supply = held + escrow + withheld
          /\ supply' = held' + escrow' + withheld'
          /\ supply \in Nat /\ supply <= U64Max
      BY Numbers DEF supply
    <3>2. supply' \in Nat /\ supply' + s.amount_received_ld = supply
      BY <2>4, <3>1
    <3> QED
      BY <1>1, <1>5, <3>1, <3>2
  <2>6. TypeOK'
    BY <1>4, <1>7, <1>8, <1>9, <2>1, <2>4, <2>5 DEF IInv, TypeOK, keys, endpoint
  <2>7. supply' + Ld2sdRate * wired_out' = InitialSupply + Ld2sdRate * wired_in'
    <3>1. supply + Ld2sdRate * wired_out = InitialSupply + Ld2sdRate * wired_in
      BY <2>1 DEF IInv, WireIsBacked
    <3>2. Ld2sdRate * wired_in' = Ld2sdRate * wired_in
      BY <1>11
    <3> DEFINE out == Ld2sdRate * wired_out   out1 == Ld2sdRate * wired_out'
               in == Ld2sdRate * wired_in     in1 == Ld2sdRate * wired_in'
    <3>3. /\ out1 = out + s.amount_received_ld /\ out \in Nat
          /\ in1 = in /\ in \in Nat
          /\ supply + out = InitialSupply + in
      BY <1>8, <1>11, <3>1, <3>2
    <3>4. InitialSupply \in Nat
      BY <1>1, Constants
    <3> HIDE DEF out, out1, in, in1
    <3>5. supply' + out1 = InitialSupply + in1
      BY <1>5, <2>5, <3>3, <3>4
    <3> QED
      BY <3>5 DEF out1, in1
  <2>8. WireIsBacked'
    BY <2>1, <2>7 DEF IInv, WireIsBacked
  <2> QED
    BY <1>7, <1>10, <2>4, <2>6, <2>8 DEF IInv, EscrowIsExact
<1> QED
  BY <1>4, <1>12, <1>13

(* lz_receive: the wire gets back exactly what leaves tvl_ld or enters the *)
(* supply, and the recipient is credited with what is announced.           *)
LEMMA LzReceiveStep ==
    ASSUME IInv, NEW packet \in Packet, LzReceive(packet)
    PROVE  IInv'
<1> DEFINE eid == packet.src_eid
           p == peer[eid]
           x == sd2ld(Ld2sdRate, packet.amount_sd)
           post == get_post_fee_amount_ld(epoch_fee, x)
           q == received_from(p, x)
<1>1. /\ U64 = 0 .. U64Max /\ U64Max \in Nat /\ eid \in Eids
      /\ packet.amount_sd \in Nat
  <2>1. eid \in Eids /\ packet.amount_sd \in AmountsSd
    BY DEF Packet
  <2>2. packet.amount_sd \in U64
    BY <2>1, Constants
  <2>3. U64 = 0 .. U64Max /\ U64Max \in Nat
    BY Constants
  <2> QED
    BY <2>1, <2>2, <2>3
<1>2. /\ verified[packet] > 0 /\ x \in U64
      /\ may_consume(p.inbound_rate_limiter, x, now)
      /\ verified' = [verified EXCEPT ![packet] = @ - 1]
      /\ peer' = [peer EXCEPT ![eid] = q]
      /\ Unlock(x) \/ Mint(x)
      /\ report' = [credited |-> held' - held,
                    amount_received_ld |-> amount_received(x),
                    composed_ld |-> IF packet.compose
                                      THEN amount_received(x) ELSE None]
      /\ wired_in' = wired_in + packet.amount_sd
      /\ delivered_ld' = [delivered_ld EXCEPT ![eid] = @ + x]
      /\ UNCHANGED <<default_fee_bps, paused, epoch_fee, now, fees, keys, nonce,
                     wired_out, sent_ld>>
  BY DEF LzReceive
<1>3. x = packet.amount_sd * Ld2sdRate
  BY DEF sd2ld
<1> HIDE DEF x
<1>4. x \in Nat /\ post \in 0 .. x
  BY <1>1, <1>2, Numbers, TransferFeeIsPart
<1>5. SanePeer(q, now)
  <2>1. SanePeer(p, now)
    BY <1>1, Numbers
  <2>2. /\ Sane(try_consume(p.inbound_rate_limiter, x, now), now)
        /\ Sane(refill_if_some(p.outbound_rate_limiter, x, now), now)
    BY <1>2, <2>1, LimitersKept DEF SanePeer
  <2> QED
    BY <2>1, <2>2 DEF SanePeer, PeerConfig, Sane, received_from
<1> HIDE DEF q, p, post
<1>6. peer' \in [Eids -> PeerConfig] /\ LimitersSane'
  BY <1>1, <1>2, <1>5, PeersKept
<1>7. /\ Ld2sdRate * wired_in' = Ld2sdRate * wired_in + x
      /\ wired_in' \in Nat /\ Ld2sdRate * wired_in \in Nat
  <2>1. wired_in \in Nat /\ wired_in' = wired_in + packet.amount_sd
        /\ Ld2sdRate \in Nat
    BY <1>2, Numbers, Constants
  <2>2. /\ Ld2sdRate * (wired_in + packet.amount_sd)
              = Ld2sdRate * wired_in + packet.amount_sd * Ld2sdRate
        /\ Ld2sdRate * wired_in \in Nat
    BY <1>1, <2>1, Distribute
  <2> QED
    BY <1>1, <1>3, <2>1, <2>2
<1>8. Ld2sdRate * wired_out \in Nat /\ wired_out' = wired_out
  BY <1>2, Numbers, Constants, Distribute
<1>9. delivered_ld' \in [Eids -> Nat] /\ verified' \in [Packet -> Nat]
  <2>1. verified[packet] - 1 \in Nat
    BY <1>2 DEF IInv, TypeOK
  <2>2. /\ verified \in [Packet -> Nat] /\ delivered_ld \in [Eids -> Nat]
        /\ verified' = [verified EXCEPT ![packet] = verified[packet] - 1]
        /\ delivered_ld' = [delivered_ld EXCEPT ![eid] = delivered_ld[eid] + x]
    BY <1>2 DEF IInv, TypeOK
  <2>3. verified' \in [Packet -> Nat]
    BY <2>1, <2>2
  <2>4. delivered_ld[eid] + x \in Nat
    BY <1>1, <1>4, <2>2
  <2> QED
    BY <2>2, <2>3, <2>4
<1>10. ASSUME NEW y \in U64, amount_received(x) = y, held' = held + y
       PROVE  /\ report' \in [credited: U64, amount_received_ld: U64,
                               composed_ld: U64 \cup {None}]
              /\ ReportIsCredit'
  <2>1. held' - held = y
    BY <1>1, <1>10, Numbers
  <2>2. /\ report'.credited = y /\ report'.amount_received_ld = y
        /\ report'.composed_ld \in {None, y}
        /\ report' \in [credited: U64, amount_received_ld: U64,
                         composed_ld: U64 \cup {None}]
    BY <1>2, <1>10, <2>1
  <2> QED
    BY <2>2 DEF ReportIsCredit
<1>11. CASE Unlock(x)
  <2>1. /\ OftType = "Adapter"
        /\ x <= tvl_ld /\ x <= escrow
        /\ tvl_ld' = tvl_ld - x
        /\ escrow' = escrow - x
        /\ held' = held + post
        /\ withheld' = withheld + (x - post)
    BY <1>11 DEF Unlock, post_fee, post
  <2>2. /\ tvl_ld' \in U64 /\ held' \in Nat /\ escrow' \in Nat
        /\ withheld' \in Nat
        /\ held' + escrow' + withheld' = held + escrow + withheld
        /\ escrow' = tvl_ld' + fees'
    <3>1. fees' = fees /\ x - post \in Nat /\ post \in Nat
      BY <1>2, <1>4
    <3>2. tvl_ld \in Nat /\ tvl_ld <= U64Max
      BY Numbers
    <3>3. tvl_ld' \in 0 .. U64Max
      BY <1>1, <1>4, <2>1, <3>2
    <3>4. held' \in Nat /\ escrow' \in Nat /\ withheld' \in Nat
      BY <1>4, <2>1, <3>1, Numbers
    <3>5. held' + escrow' + withheld' = held + escrow + withheld
      BY <1>4, <2>1, <3>1, Numbers
    <3>6. escrow' = tvl_ld' + fees'
      BY <1>4, <2>1, <3>1, Numbers
    <3> QED
      BY <1>1, <3>3, <3>4, <3>5, <3>6
  <2>3. supply' = supply
    BY <2>2 DEF supply
  <2>4. post \in U64 /\ amount_received(x) = post
    BY <1>1, <1>2, <1>4, <2>1 DEF amount_received, post_fee, post
  <2>5. /\ report' \in [credited: U64, amount_received_ld: U64,
                         composed_ld: U64 \cup {None}]
        /\ ReportIsCredit'
    BY <1>10, <2>1, <2>4
  <2>6. TypeOK'
    BY <1>2, <1>6, <1>7, <1>9, <2>2, <2>3, <2>5 DEF IInv, TypeOK, keys
  <2>7. tvl_ld' + Ld2sdRate * wired_in' = Ld2sdRate * wired_out'
    <3>1. tvl_ld + Ld2sdRate * wired_in = Ld2sdRate * wired_out
      BY <2>1 DEF IInv, WireIsBacked
    <3>2. Ld2sdRate * wired_out' = Ld2sdRate * wired_out
      BY <1>8
    <3> DEFINE out == Ld2sdRate * wired_out   out1 == Ld2sdRate * wired_out'
               in == Ld2sdRate * wired_in     in1 == Ld2sdRate * wired_in'
    <3>3. /\ in1 = in + x /\ in \in Nat
          /\ out1 = out /\ out \in Nat
          /\ tvl_ld + in = out
      BY <1>7, <1>8, <3>1, <3>2
    <3> HIDE DEF out, out1, in, in1
    <3>4. tvl_ld' + in1 = out1
      BY <1>4, <2>1, <3>3, Numbers
    <3> QED
      BY <3>4 DEF out1, in1
  <2>8. WireIsBacked'
    BY <2>1, <2>3, <2>7 DEF IInv, WireIsBacked
  <2> QED
    BY <1>6, <2>2, <2>5, <2>6, <2>8 DEF IInv, EscrowIsExact
<1>12. CASE Mint(x)
  <2>1. /\ OftType = "Native" /\ OftType # "Adapter"
        /\ supply + x \in U64
        /\ held' = held + x
        /\ tvl_ld' = tvl_ld /\ escrow' = escrow /\ withheld' = withheld
    BY <1>12 DEF Mint
  <2>2. held' \in Nat /\ escrow' = tvl_ld' + fees'
        /\ held' + escrow' + withheld' = held + escrow + withheld + x
    BY <1>2, <1>4, <2>1, Numbers
  <2>3. supply' = supply + x /\ supply \in Nat
    BY <2>2, Numbers DEF supply
  <2>4. amount_received(x) = x
    BY <2>1 DEF amount_received
  <2>5. /\ report' \in [credited: U64, amount_received_ld: U64,
                         composed_ld: U64 \cup {None}]
        /\ ReportIsCredit'
    BY <1>2, <1>10, <2>1, <2>4
  <2>6. TypeOK'
    BY <1>2, <1>6, <1>7, <1>9, <2>1, <2>2, <2>3, <2>5 DEF IInv, TypeOK, keys
  <2>7. supply' + Ld2sdRate * wired_out' = InitialSupply + Ld2sdRate * wired_in'
    <3>1. supply + Ld2sdRate * wired_out = InitialSupply + Ld2sdRate * wired_in
      BY <2>1 DEF IInv, WireIsBacked
    <3>2. Ld2sdRate * wired_out' = Ld2sdRate * wired_out
      BY <1>8
    <3>3. InitialSupply \in Nat
      BY <1>1, Constants
    <3> DEFINE out == Ld2sdRate * wired_out   out1 == Ld2sdRate * wired_out'
               in == Ld2sdRate * wired_in     in1 == Ld2sdRate * wired_in'
    <3>4. /\ in1 = in + x /\ in \in Nat
          /\ out1 = out /\ out \in Nat
          /\ supply + out = InitialSupply + in
      BY <1>7, <1>8, <3>1, <3>2
    <3> HIDE DEF out, out1, in, in1
    <3>5. supply' + out1 = InitialSupply + in1
      BY <1>4, <2>3, <3>3, <3>4
    <3> QED
      BY <3>5 DEF out1, in1
  <2>8. WireIsBacked'
    BY <2>1, <2>7 DEF IInv, WireIsBacked
  <2> QED
    BY <1>6, <2>2, <2>5, <2>6, <2>8 DEF IInv, EscrowIsExact
<1> QED
  BY <1>2, <1>11, <1>12

(* withdraw_fee: the guard leaves what tvl_ld needs, so the fees stay a    *)
(* natural.                                                                *)
LEMMA WithdrawFeeNumbers ==
    ASSUME IInv, NEW signer \in Keys, NEW fee_ld \in AmountsLd,
           WithdrawFee(signer, fee_ld)
    PROVE  /\ held' \in Nat /\ escrow' \in Nat /\ withheld' \in Nat /\ fees' \in Nat
           /\ escrow' = tvl_ld' + fees'
           /\ supply' = supply
<1> DEFINE post == get_post_fee_amount_ld(epoch_fee, fee_ld)
<1>1. fee_ld \in U64 /\ fee_ld \in Nat /\ U64 = 0 .. U64Max /\ U64Max \in Nat
  BY Constants
<1>2. /\ escrow - tvl_ld >= fee_ld
      /\ escrow' = escrow - fee_ld
      /\ held' = held + post
      /\ withheld' = withheld + (fee_ld - post)
      /\ fees' = fees - fee_ld
      /\ UNCHANGED <<tvl_ld, default_fee_bps, paused, peer, epoch_fee, now, report,
                     keys, endpoint, history>>
  BY DEF WithdrawFee, post_fee
<1>3. post \in 0 .. fee_ld
  BY <1>1, Numbers, TransferFeeIsPart
<1> HIDE DEF post
<1>4. /\ held' \in Nat /\ escrow' \in Nat /\ withheld' \in Nat /\ fees' \in Nat
      /\ held' + escrow' + withheld' = held + escrow + withheld
      /\ escrow' = tvl_ld' + fees'
  <2>1. tvl_ld' = tvl_ld /\ fee_ld - post \in Nat /\ post \in Nat
    BY <1>1, <1>2, <1>3
  <2>2. /\ tvl_ld \in Nat /\ held \in Nat /\ escrow \in Nat /\ withheld \in Nat
        /\ fees \in Nat /\ escrow = tvl_ld + fees
    BY Numbers
  <2>3. fee_ld <= fees /\ fees <= escrow
    BY <1>1, <1>2, <2>2
  <2>4. held' \in Nat /\ escrow' \in Nat /\ withheld' \in Nat /\ fees' \in Nat
    BY <1>1, <1>2, <2>1, <2>2, <2>3
  <2>5. held' + escrow' + withheld' = held + escrow + withheld
    BY <1>1, <1>2, <2>1, <2>2
  <2>6. escrow' = tvl_ld' + fees'
    BY <1>1, <1>2, <2>1, Numbers
  <2> QED
    BY <2>4, <2>5, <2>6
<1>5. supply' = supply
  BY <1>4 DEF supply
<1> QED
  BY <1>4, <1>5

(* withdraw_fee moves tokens between the escrow, the admin and the         *)
(* withheld fees only.                                                     *)
LEMMA WithdrawFeeStep ==
    ASSUME IInv, NEW signer \in Keys, NEW fee_ld \in AmountsLd,
           WithdrawFee(signer, fee_ld)
    PROVE  IInv'
<1>1. /\ held' \in Nat /\ escrow' \in Nat /\ withheld' \in Nat /\ fees' \in Nat
      /\ escrow' = tvl_ld' + fees'
      /\ supply' = supply
  BY WithdrawFeeNumbers
<1>2. UNCHANGED <<tvl_ld, default_fee_bps, paused, peer, epoch_fee, now, report,
                  keys, endpoint, history>>
  BY DEF WithdrawFee
<1>3. TypeOK'
  BY <1>1, <1>2 DEF IInv, TypeOK, keys, endpoint, history
<1> QED
  BY <1>1, <1>2, <1>3
  DEF IInv, LimitersSane, EscrowIsExact, WireIsBacked, ReportIsCredit, history

(* set_peer_config: whatever part is replaced, the account stays sane.     *)
LEMMA SetPeerConfigStep ==
    ASSUME IInv, NEW signer \in Keys, NEW eid \in Eids, NEW config,
           SanePeer(config, now), SetPeerConfig(signer, eid, config)
    PROVE  IInv'
<1>1. /\ peer' = [peer EXCEPT ![eid] = [config EXCEPT !.exists = TRUE]]
      /\ UNCHANGED <<tvl_ld, default_fee_bps, paused, epoch_fee, now, report, fees,
                     keys, tokens, endpoint, history>>
  BY DEF SetPeerConfig
<1>2. SanePeer([config EXCEPT !.exists = TRUE], now)
  BY DEF SanePeer, PeerConfig
<1>3. peer' \in [Eids -> PeerConfig] /\ LimitersSane'
  BY <1>1, <1>2, PeersKept
<1>4. supply' = supply
  BY <1>1 DEF supply, tokens
<1> QED
  BY <1>1, <1>3, <1>4 DEF IInv, TypeOK, EscrowIsExact, WireIsBacked,
     ReportIsCredit, keys, tokens, endpoint, history

(* Each instruction that configures a peer leaves the account sane.        *)
LEMMA AdministerPeerStep ==
    ASSUME IInv, NEW signer \in Keys, NEW eid \in Eids,
           AdministerPeer(signer, eid)
    PROVE  IInv'
<1>1. SanePeer(peer[eid], now) /\ now \in U64
  BY Numbers
<1>2. ASSUME NEW limiter, NEW old, Sane(old, now), limiter \in Updated(old)
      PROVE  Sane(limiter, now)
  <2>1. CASE limiter = NoLimiter
    BY <1>1, <2>1, NoLimiterSane
  <2>2. CASE \E params \in LimitParams :
               limiter = update_rate_limiter(old, params, now)
    BY <1>2, <2>2, UpdateIsExact, OFTAssumption
  <2> QED
    BY <1>2, <2>1, <2>2 DEF Updated
<1>3. ASSUME NEW peer_address \in Addresses \cup {ZeroAddress},
             SetPeerAddress(signer, eid, peer_address)
      PROVE  IInv'
  <2>1. SanePeer([peer[eid] EXCEPT !.peer_address = peer_address], now)
    BY <1>1 DEF SanePeer, PeerConfig
  <2> QED
    BY <1>3, <2>1, SetPeerConfigStep DEF SetPeerAddress
<1>4. ASSUME NEW fee_bps \in FeeBps \cup {None}, SetPeerFee(signer, eid, fee_bps)
      PROVE  IInv'
  <2>1. fee_bps # None => fee_bps < OneInBasisPoints /\ fee_bps \in Nat
    BY <1>4, OFTAssumption DEF SetPeerFee
  <2>2. fee_bps \in (0 .. OneInBasisPoints - 1) \cup {None}
    BY <2>1, Constants
  <2>3. SanePeer([peer[eid] EXCEPT !.fee_bps = fee_bps], now)
    BY <1>1, <2>2 DEF SanePeer, PeerConfig
  <2> QED
    BY <1>4, <2>3, SetPeerConfigStep DEF SetPeerFee
<1>5. ASSUME SetEnforcedOptions(signer, eid) PROVE IInv'
  BY <1>1, <1>5, SetPeerConfigStep DEF SetEnforcedOptions
<1>6. ASSUME NEW limiter \in Updated(peer[eid].outbound_rate_limiter),
             SetOutboundRateLimit(signer, eid, limiter)
      PROVE  IInv'
  <2>1. Sane(limiter, now)
    BY <1>1, <1>2 DEF SanePeer
  <2>2. SanePeer([peer[eid] EXCEPT !.outbound_rate_limiter = limiter], now)
    BY <1>1, <2>1 DEF SanePeer, PeerConfig, Sane
  <2> QED
    BY <1>6, <2>2, SetPeerConfigStep DEF SetOutboundRateLimit
<1>7. ASSUME NEW limiter \in Updated(peer[eid].inbound_rate_limiter),
             SetInboundRateLimit(signer, eid, limiter)
      PROVE  IInv'
  <2>1. Sane(limiter, now)
    BY <1>1, <1>2 DEF SanePeer
  <2>2. SanePeer([peer[eid] EXCEPT !.inbound_rate_limiter = limiter], now)
    BY <1>1, <2>1 DEF SanePeer, PeerConfig, Sane
  <2> QED
    BY <1>7, <2>2, SetPeerConfigStep DEF SetInboundRateLimit
<1> QED
  BY <1>3, <1>4, <1>5, <1>6, <1>7 DEF AdministerPeer

(* What moves no tokens and no peer keeps the rest, given the types of     *)
(* what it changes.                                                        *)
LEMMA ElsewhereStep ==
    ASSUME IInv,
           UNCHANGED <<tvl_ld, peer, report, fees, tokens, history>>,
           admin' \in Keys, delegate' \in Keys,
           pauser' \in Keys \cup {NoKey}, unpauser' \in Keys \cup {NoKey},
           paused' \in BOOLEAN, default_fee_bps' \in 0 .. OneInBasisPoints - 1,
           epoch_fee' \in TransferFee, verified' \in [Packet -> Nat],
           nonce' \in Nat, now' \in U64, now <= now'
    PROVE  IInv'
<1>1. supply' = supply
  BY DEF supply, tokens
<1>2. ASSUME NEW l, Sane(l, now) PROVE Sane(l, now')
  <2>1. U64 = 0 .. U64Max /\ U64Max \in Nat
    BY Constants
  <2>2. now' \in U64 /\ l \in RateLimiter /\ l.tokens <= l.capacity
    BY <1>2 DEF Sane
  <2>3. l.last_refill_time \in Nat /\ now \in Nat /\ now' \in Nat
    BY <1>2, <2>1 DEF Sane, RateLimiter
  <2>4. l.last_refill_time <= now'
    BY <1>2, <2>3 DEF Sane
  <2> QED
    BY <2>2, <2>4 DEF Sane
<1>3. LimitersSane'
  BY <1>2 DEF IInv, LimitersSane
<1> QED
  BY <1>1, <1>3 DEF IInv, TypeOK, EscrowIsExact, WireIsBacked, ReportIsCredit,
     tokens, history

(* The admin's instructions on the store.                                  *)
LEMMA AdministerStep ==
    ASSUME IInv, NEW signer \in Keys, Administer(signer)
    PROVE  IInv'
<1>1. /\ admin \in Keys /\ delegate \in Keys
      /\ pauser \in Keys \cup {NoKey} /\ unpauser \in Keys \cup {NoKey}
      /\ paused \in BOOLEAN /\ default_fee_bps \in 0 .. OneInBasisPoints - 1
      /\ epoch_fee \in TransferFee /\ verified \in [Packet -> Nat]
      /\ nonce \in Nat /\ now \in U64
  BY DEF IInv, TypeOK
<1>2. now <= now
  BY Numbers
<1>3. ASSUME NEW fee_ld \in AmountsLd, WithdrawFee(signer, fee_ld) PROVE IInv'
  BY <1>3, WithdrawFeeStep
<1>4. ASSUME NEW value \in BOOLEAN, SetPause(signer, value) \/ SetPaused(signer, value)
      PROVE  IInv'
  BY <1>1, <1>2, <1>4, ElsewhereStep
  DEF SetPause, SetPaused, keys, endpoint
<1>5. ASSUME NEW key \in Keys \cup {NoKey}, SetKey(signer, key) PROVE IInv'
  BY <1>1, <1>2, <1>5, ElsewhereStep DEF SetKey, endpoint
<1>6. ASSUME NEW fee_bps \in FeeBps, SetDefaultFee(signer, fee_bps) PROVE IInv'
  <2>1. fee_bps \in Nat /\ fee_bps < OneInBasisPoints
    BY <1>6, OFTAssumption DEF SetDefaultFee
  <2>2. default_fee_bps' \in 0 .. OneInBasisPoints - 1
    BY <1>6, <2>1, Constants DEF SetDefaultFee
  <2> QED
    BY <1>1, <1>2, <1>6, <2>2, ElsewhereStep DEF SetDefaultFee, keys, endpoint
<1> QED
  BY <1>3, <1>4, <1>5, <1>6 DEF Administer

(* A gift to the escrow is the admin's to withdraw.                        *)
LEMMA DonateNumbers ==
    ASSUME IInv, NEW amount_ld \in AmountsLd, Donate(amount_ld)
    PROVE  /\ held' \in Nat /\ escrow' \in Nat /\ withheld' \in Nat /\ fees' \in Nat
           /\ escrow' = tvl_ld' + fees'
           /\ supply' = supply
<1> DEFINE post == get_post_fee_amount_ld(epoch_fee, amount_ld)
<1>1. amount_ld \in Nat
  <2>1. amount_ld \in U64
    BY Constants
  <2> QED
    BY <2>1, Constants
<1>2. /\ amount_ld <= held
      /\ held' = held - amount_ld
      /\ escrow' = escrow + post
      /\ withheld' = withheld + (amount_ld - post)
      /\ fees' = fees + post
      /\ tvl_ld' = tvl_ld
  BY DEF Donate, post_fee
<1>3. post \in 0 .. amount_ld
  BY <1>1, Numbers, TransferFeeIsPart
<1> HIDE DEF post
<1>4. /\ tvl_ld \in Nat /\ held \in Nat /\ escrow \in Nat /\ withheld \in Nat
      /\ fees \in Nat /\ escrow = tvl_ld + fees
  BY Numbers
<1>5. /\ held' \in Nat /\ escrow' \in Nat /\ withheld' \in Nat /\ fees' \in Nat
      /\ escrow' = tvl_ld' + fees'
  BY <1>1, <1>2, <1>3, <1>4
<1>6. held' + escrow' + withheld' = held + escrow + withheld
  BY <1>1, <1>2, <1>3, <1>4
<1>7. supply' = supply
  BY <1>6 DEF supply
<1> QED
  BY <1>5, <1>7

(* The endpoint, the clock, the mint's authority and gifts.                *)
LEMMA EnvironmentStep ==
    ASSUME IInv, Environment
    PROVE  IInv'
<1>1. /\ admin \in Keys /\ delegate \in Keys
      /\ pauser \in Keys \cup {NoKey} /\ unpauser \in Keys \cup {NoKey}
      /\ paused \in BOOLEAN /\ default_fee_bps \in 0 .. OneInBasisPoints - 1
      /\ epoch_fee \in TransferFee /\ verified \in [Packet -> Nat]
      /\ nonce \in Nat /\ now \in U64
  BY DEF IInv, TypeOK
<1>2. now <= now /\ now \in Nat
  BY Numbers
<1>3. ASSUME NEW packet \in Packet, Verify(packet) PROVE IInv'
  <2>1. nonce' \in Nat /\ verified' \in [Packet -> Nat]
    BY <1>1, <1>3 DEF Verify
  <2> QED
    BY <1>1, <1>2, <1>3, <2>1, ElsewhereStep DEF Verify, keys
<1>4. ASSUME Tick PROVE IInv'
  <2>1. now' = now + 1 /\ now < MaxNow
    BY <1>4 DEF Tick
  <2>2. now' \in U64 /\ now <= now'
    BY <1>2, <2>1, Constants
  <2> QED
    BY <1>1, <1>4, <2>2, ElsewhereStep DEF Tick, keys, endpoint
<1>5. ASSUME NextEpoch PROVE IInv'
  <2>1. epoch_fee' \in TransferFee
    BY <1>5, Constants DEF NextEpoch
  <2> QED
    BY <1>1, <1>2, <1>5, <2>1, ElsewhereStep DEF NextEpoch, keys, endpoint
<1>6. ASSUME NEW amount_ld \in AmountsLd, Donate(amount_ld) PROVE IInv'
  <2>1. /\ held' \in Nat /\ escrow' \in Nat /\ withheld' \in Nat /\ fees' \in Nat
        /\ escrow' = tvl_ld' + fees'
        /\ supply' = supply
    BY <1>6, DonateNumbers
  <2>2. UNCHANGED <<tvl_ld, default_fee_bps, paused, peer, epoch_fee, now, report,
                    keys, endpoint, history>>
    BY <1>6 DEF Donate
  <2>3. TypeOK'
    BY <2>1, <2>2 DEF IInv, TypeOK, keys, endpoint, history
  <2> QED
    BY <2>1, <2>2, <2>3
    DEF IInv, LimitersSane, EscrowIsExact, WireIsBacked, ReportIsCredit, history
<1> QED
  BY <1>3, <1>4, <1>5, <1>6 DEF Environment

(* Every step keeps the invariant.                                         *)
LEMMA IInvNext == IInv /\ [Next]_vars => IInv'
<1> SUFFICES ASSUME IInv, [Next]_vars PROVE IInv'
  OBVIOUS
<1>1. CASE Transfer
  <2>1. ASSUME NEW eid \in Eids, NEW amount_ld \in AmountsLd,
               NEW min_amount_ld \in AmountsLd \cup {0},
               Send(eid, amount_ld, min_amount_ld)
        PROVE  IInv'
    BY <2>1, SendStep
  <2>2. ASSUME NEW packet \in Packet, LzReceive(packet) PROVE IInv'
    BY <2>2, LzReceiveStep
  <2> QED
    BY <1>1, <2>1, <2>2 DEF Transfer
<1>2. CASE \E signer \in Keys : Administer(signer)
  BY <1>2, AdministerStep
<1>3. CASE \E signer \in Keys, eid \in Eids : AdministerPeer(signer, eid)
  BY <1>3, AdministerPeerStep
<1>4. CASE Environment
  BY <1>4, EnvironmentStep
<1>5. CASE UNCHANGED vars
  <2>1. supply' = supply
    BY <1>5 DEF vars, tokens, supply
  <2> QED
    BY <1>5, <2>1 DEF vars, keys, tokens, endpoint, history, IInv, TypeOK,
       LimitersSane, EscrowIsExact, WireIsBacked, ReportIsCredit
<1> QED
  BY <1>1, <1>2, <1>3, <1>4, <1>5 DEF Next

(* The invariant holds in every reachable state.                           *)
LEMMA IInvAlways == Spec => []IInv
  BY IInvInit, IInvNext, PTL DEF Spec

-----------------------------------------------------------------------------
(* Every amount is a u64 and every account well-formed: no instruction that*)
(* passes its guards computes a value the program could not store.         *)
THEOREM OFTTypeCorrect == Spec => []TypeOK
<1>1. IInv => TypeOK
  BY DEF IInv
<1> QED
  BY <1>1, IInvAlways, PTL

(* The escrow is tvl_ld plus the fees not withdrawn, whatever the transfer *)
(* fee was at each lock, unlock and withdrawal.                            *)
THEOREM EscrowAlwaysExact == Spec => []EscrowIsExact
<1>1. IInv => EscrowIsExact
  BY DEF IInv
<1> QED
  BY <1>1, IInvAlways, PTL

(* Adapter: tvl_ld is what went out and did not come back.  Native: the    *)
(* supply moves with the wire and with nothing else.                       *)
THEOREM WireAlwaysBacked == Spec => []WireIsBacked
<1>1. IInv => WireIsBacked
  BY DEF IInv
<1> QED
  BY <1>1, IInvAlways, PTL

(* What lz_receive announces and composes is what it credited.             *)
THEOREM ReportAlwaysCredit == Spec => []ReportIsCredit
<1>1. IInv => ReportIsCredit
  BY DEF IInv
<1> QED
  BY <1>1, IInvAlways, PTL

-----------------------------------------------------------------------------
(* The step PausedFreezesFunds allows.                                     *)
Frozen == /\ UNCHANGED <<tvl_ld, supply, wired_in, wired_out>>
          /\ \A p \in Packet : verified'[p] >= verified[p]

(* No instruction moves value across the bridge, or takes a packet off the *)
(* endpoint, while the store is paused; withdraw_fee, which a pause does   *)
(* not stop, touches neither.                                              *)
LEMMA PausedStep ==
    ASSUME IInv, [Next]_vars, paused
    PROVE  Frozen
<1>1. verified \in [Packet -> Nat]
  BY DEF IInv, TypeOK
<1>2. ASSUME UNCHANGED <<tvl_ld, held, escrow, withheld, wired_in, wired_out, verified>>
      PROVE  Frozen
  BY <1>1, <1>2 DEF Frozen, supply
<1>3. CASE Transfer
  BY <1>3 DEF Transfer, Send, LzReceive, accepts
<1>4. ASSUME NEW signer \in Keys, Administer(signer)
      PROVE  Frozen
  <2>1. ASSUME NEW fee_ld \in AmountsLd, WithdrawFee(signer, fee_ld)
        PROVE  Frozen
    <3>1. supply' = supply
      BY <2>1, WithdrawFeeNumbers
    <3>2. UNCHANGED <<tvl_ld, wired_in, wired_out, verified>>
      BY <2>1 DEF WithdrawFee, endpoint, history
    <3> QED
      BY <1>1, <3>1, <3>2 DEF Frozen
  <2>2. ASSUME NEW value \in BOOLEAN, SetPause(signer, value) \/ SetPaused(signer, value)
        PROVE  Frozen
    BY <1>2, <2>2 DEF SetPause, SetPaused, tokens, endpoint, history
  <2>3. ASSUME NEW key \in Keys \cup {NoKey}, SetKey(signer, key)
        PROVE  Frozen
    BY <1>2, <2>3 DEF SetKey, tokens, endpoint, history
  <2>4. ASSUME NEW fee_bps \in FeeBps, SetDefaultFee(signer, fee_bps)
        PROVE  Frozen
    BY <1>2, <2>4 DEF SetDefaultFee, tokens, endpoint, history
  <2> QED
    BY <1>4, <2>1, <2>2, <2>3, <2>4 DEF Administer
<1>5. ASSUME NEW signer \in Keys, NEW eid \in Eids, AdministerPeer(signer, eid)
      PROVE  Frozen
  <2>1. UNCHANGED <<tvl_ld, tokens, endpoint, history>>
    BY <1>5 DEF AdministerPeer, SetPeerAddress, SetPeerFee, SetEnforcedOptions,
       SetOutboundRateLimit, SetInboundRateLimit, SetPeerConfig
  <2> QED
    BY <1>2, <2>1 DEF tokens, endpoint, history
<1>6. CASE Environment
  <2>1. ASSUME NEW packet \in Packet, Verify(packet)
        PROVE  Frozen
    <3>1. UNCHANGED <<tvl_ld, tokens, history>>
      BY <2>1 DEF Verify
    <3>2. verified' = [verified EXCEPT ![packet] = verified[packet] + 1]
      BY <2>1 DEF Verify
    <3>3. \A p \in Packet : verified'[p] >= verified[p]
      BY <1>1, <3>2
    <3> QED
      BY <3>1, <3>3 DEF Frozen, supply, tokens, history
  <2>2. ASSUME Tick \/ NextEpoch
        PROVE  Frozen
    BY <1>2, <2>2 DEF Tick, NextEpoch, tokens, endpoint, history
  <2>3. ASSUME NEW amount_ld \in AmountsLd, Donate(amount_ld) PROVE Frozen
    <3>1. supply' = supply
      BY <2>3, DonateNumbers
    <3>2. UNCHANGED <<tvl_ld, wired_in, wired_out, verified>>
      BY <2>3 DEF Donate, endpoint, history
    <3> QED
      BY <1>1, <3>1, <3>2 DEF Frozen
  <2> QED
    BY <1>6, <2>1, <2>2, <2>3 DEF Environment
<1>7. CASE UNCHANGED vars
  BY <1>2, <1>7 DEF vars, tokens, endpoint, history
<1> QED
  BY <1>3, <1>4, <1>5, <1>6, <1>7 DEF Next

(* The pause holds whichever key acts.                                     *)
THEOREM PauseFreezesFunds == Spec => PausedFreezesFunds
<1>1. IInv /\ [Next]_vars =>
        [paused => /\ UNCHANGED <<tvl_ld, supply, wired_in, wired_out>>
                   /\ \A p \in Packet : verified'[p] >= verified[p]]_vars
  BY PausedStep DEF Frozen
<1> QED
  BY <1>1, IInvAlways, PTL DEF Spec, PausedFreezesFunds

-----------------------------------------------------------------------------
(* The limiters of a peer as token buckets.  Each direction takes and gives*)
(* as its bucket does when the record is consumed from or refilled.        *)

(* Consuming an outbound limiter is a step of its bucket.                  *)
LEMMA OutboundTakes ==
    ASSUME NEW eid \in Eids, NEW x \in U64,
           Sane(peer[eid].outbound_rate_limiter, now),
           may_consume(peer[eid].outbound_rate_limiter, x, now),
           peer'[eid].outbound_rate_limiter =
              try_consume(peer[eid].outbound_rate_limiter, x, now),
           sent_ld'[eid] = sent_ld[eid] + x, delivered_ld'[eid] = delivered_ld[eid],
           now' = now
    PROVE  Outbound(eid)!Next
<1> DEFINE l == peer[eid].outbound_rate_limiter
           r == try_consume(l, x, now)
<1>1. /\ r.some = l.some /\ r.capacity = l.capacity
      /\ r.refill_per_second = l.refill_per_second
      /\ l.some => x <= level_at(l, now) /\ level_at(r, now) = level_at(l, now) - x
      /\ ~l.some => r = l
  BY ConsumeIsExact
<1>2. peer'[eid].outbound_rate_limiter = r
  OBVIOUS
<1> HIDE DEF r
<1>3. Outbound(eid)!Take
  BY <1>1, <1>2 DEF Outbound!Take, Outbound!U64, U64
<1> QED
  BY <1>3 DEF Outbound!Next

(* Consuming an inbound limiter is a step of its bucket.                   *)
LEMMA InboundTakes ==
    ASSUME NEW eid \in Eids, NEW x \in U64,
           Sane(peer[eid].inbound_rate_limiter, now),
           may_consume(peer[eid].inbound_rate_limiter, x, now),
           peer'[eid].inbound_rate_limiter =
              try_consume(peer[eid].inbound_rate_limiter, x, now),
           delivered_ld'[eid] = delivered_ld[eid] + x, sent_ld'[eid] = sent_ld[eid],
           now' = now
    PROVE  Inbound(eid)!Next
<1> DEFINE l == peer[eid].inbound_rate_limiter
           r == try_consume(l, x, now)
<1>1. /\ r.some = l.some /\ r.capacity = l.capacity
      /\ r.refill_per_second = l.refill_per_second
      /\ l.some => x <= level_at(l, now) /\ level_at(r, now) = level_at(l, now) - x
      /\ ~l.some => r = l
  BY ConsumeIsExact
<1>2. peer'[eid].inbound_rate_limiter = r
  OBVIOUS
<1> HIDE DEF r
<1>3. Inbound(eid)!Take
  BY <1>1, <1>2 DEF Inbound!Take, Inbound!U64, U64
<1> QED
  BY <1>3 DEF Inbound!Next

(* Refilling an outbound limiter is a step of its bucket.                  *)
LEMMA OutboundGives ==
    ASSUME NEW eid \in Eids, NEW x \in U64,
           Sane(peer[eid].outbound_rate_limiter, now),
           peer'[eid].outbound_rate_limiter =
              refill_if_some(peer[eid].outbound_rate_limiter, x, now),
           delivered_ld'[eid] = delivered_ld[eid] + x, sent_ld'[eid] = sent_ld[eid],
           now' = now
    PROVE  Outbound(eid)!Next
<1> DEFINE l == peer[eid].outbound_rate_limiter
           r == refill_if_some(l, x, now)
<1>1. /\ r.some = l.some /\ r.capacity = l.capacity
      /\ r.refill_per_second = l.refill_per_second
      /\ l.some => level_at(r, now) = min(l.capacity, level_at(l, now) + x)
      /\ ~l.some => r = l
  BY RefillIsExact
<1>2. peer'[eid].outbound_rate_limiter = r
  OBVIOUS
<1> HIDE DEF r
<1>3. Outbound(eid)!Give
  BY <1>1, <1>2 DEF Outbound!Give, Outbound!U64, U64, Outbound!min, min
<1> QED
  BY <1>3 DEF Outbound!Next

(* Refilling an inbound limiter is a step of its bucket.                   *)
LEMMA InboundGives ==
    ASSUME NEW eid \in Eids, NEW x \in U64,
           Sane(peer[eid].inbound_rate_limiter, now),
           peer'[eid].inbound_rate_limiter =
              refill_if_some(peer[eid].inbound_rate_limiter, x, now),
           sent_ld'[eid] = sent_ld[eid] + x, delivered_ld'[eid] = delivered_ld[eid],
           now' = now
    PROVE  Inbound(eid)!Next
<1> DEFINE l == peer[eid].inbound_rate_limiter
           r == refill_if_some(l, x, now)
<1>1. /\ r.some = l.some /\ r.capacity = l.capacity
      /\ r.refill_per_second = l.refill_per_second
      /\ l.some => level_at(r, now) = min(l.capacity, level_at(l, now) + x)
      /\ ~l.some => r = l
  BY RefillIsExact
<1>2. peer'[eid].inbound_rate_limiter = r
  OBVIOUS
<1> HIDE DEF r
<1>3. Inbound(eid)!Give
  BY <1>1, <1>2 DEF Inbound!Give, Inbound!U64, U64, Inbound!min, min
<1> QED
  BY <1>3 DEF Inbound!Next

(* A reconfiguration that update_rate_limiter can make, or None.           *)
LEMMA OutboundConfigured ==
    ASSUME NEW eid \in Eids, Sane(peer[eid].outbound_rate_limiter, now),
           peer'[eid].outbound_rate_limiter \in Updated(peer[eid].outbound_rate_limiter),
           UNCHANGED <<now, sent_ld, delivered_ld>>
    PROVE  Outbound(eid)!Next
<1> DEFINE l == peer[eid].outbound_rate_limiter
           r == peer'[eid].outbound_rate_limiter
<1>1. CASE r = NoLimiter
  <2>1. level_at(NoLimiter, now) = 0
    BY DEF NoLimiter, level_at, min, Sane, RateLimiter, U64
  <2>2. Outbound(eid)!Remove
    BY <1>1, <2>1 DEF Outbound!Remove, NoLimiter
  <2> QED
    BY <2>2 DEF Outbound!Next
<1>2. ASSUME NEW params \in LimitParams, r = update_rate_limiter(l, params, now)
      PROVE  Outbound(eid)!Next
  <2> DEFINE u == update_rate_limiter(l, params, now)
  <2>0. /\ Sane(u, now) /\ u.some = TRUE
        /\ \/ level_at(u, now) = u.capacity
           \/ u.capacity = l.capacity /\ level_at(u, now) = level_at(l, now)
    <3>1. params \in RateLimitParams
      BY OFTAssumption
    <3> QED
      BY <3>1, UpdateIsExact
  <2> HIDE DEF u
  <2>1. /\ Sane(r, now) /\ r.some = TRUE
        /\ \/ level_at(r, now) = r.capacity
           \/ r.capacity = l.capacity /\ level_at(r, now) = level_at(l, now)
    BY <1>2, <2>0 DEF u
  <2>2. r.refill_per_second \in U64 /\ r.capacity \in U64
    BY <2>1 DEF Sane, RateLimiter
  <2>3. Outbound(eid)!Configure
    BY <2>1, <2>2 DEF Outbound!Configure, Outbound!U64, U64
  <2> QED
    BY <2>3 DEF Outbound!Next
<1> QED
  BY <1>1, <1>2 DEF Updated

(* set_peer_config of an inbound limiter is a step of its bucket.          *)
LEMMA InboundConfigured ==
    ASSUME NEW eid \in Eids, Sane(peer[eid].inbound_rate_limiter, now),
           peer'[eid].inbound_rate_limiter \in Updated(peer[eid].inbound_rate_limiter),
           UNCHANGED <<now, sent_ld, delivered_ld>>
    PROVE  Inbound(eid)!Next
<1> DEFINE l == peer[eid].inbound_rate_limiter
           r == peer'[eid].inbound_rate_limiter
<1>1. CASE r = NoLimiter
  <2>1. level_at(NoLimiter, now) = 0
    BY DEF NoLimiter, level_at, min, Sane, RateLimiter, U64
  <2>2. Inbound(eid)!Remove
    BY <1>1, <2>1 DEF Inbound!Remove, NoLimiter
  <2> QED
    BY <2>2 DEF Inbound!Next
<1>2. ASSUME NEW params \in LimitParams, r = update_rate_limiter(l, params, now)
      PROVE  Inbound(eid)!Next
  <2> DEFINE u == update_rate_limiter(l, params, now)
  <2>0. /\ Sane(u, now) /\ u.some = TRUE
        /\ \/ level_at(u, now) = u.capacity
           \/ u.capacity = l.capacity /\ level_at(u, now) = level_at(l, now)
    <3>1. params \in RateLimitParams
      BY OFTAssumption
    <3> QED
      BY <3>1, UpdateIsExact
  <2> HIDE DEF u
  <2>1. /\ Sane(r, now) /\ r.some = TRUE
        /\ \/ level_at(r, now) = r.capacity
           \/ r.capacity = l.capacity /\ level_at(r, now) = level_at(l, now)
    BY <1>2, <2>0 DEF u
  <2>2. r.refill_per_second \in U64 /\ r.capacity \in U64
    BY <2>1 DEF Sane, RateLimiter
  <2>3. Inbound(eid)!Configure
    BY <2>1, <2>2 DEF Inbound!Configure, Inbound!U64, U64
  <2> QED
    BY <2>3 DEF Inbound!Next
<1> QED
  BY <1>1, <1>2 DEF Updated

Buckets(eid) == /\ [Outbound(eid)!Next]_(Outbound(eid)!vars)
                /\ [Inbound(eid)!Next]_(Inbound(eid)!vars)

(* What concerns neither the peer nor the clock is no step of its buckets. *)
LEMMA BucketsRest ==
    ASSUME NEW eid \in Eids, peer'[eid] = peer[eid], now' = now,
           sent_ld'[eid] = sent_ld[eid], delivered_ld'[eid] = delivered_ld[eid]
    PROVE  Buckets(eid)
BY DEF Buckets, Outbound!vars, Inbound!vars

(* send consumes one limiter of the peer and refills the other.            *)
LEMMA SendBuckets ==
    ASSUME IInv, NEW eid \in Eids, NEW dst \in Eids, NEW amount_ld \in AmountsLd,
           NEW min_amount_ld, Send(dst, amount_ld, min_amount_ld)
    PROVE  Buckets(eid)
<1> DEFINE x == split(dst, amount_ld).amount_received_ld
<1>1. /\ may_consume(peer[dst].outbound_rate_limiter, x, now)
      /\ peer' = [peer EXCEPT ![dst] = sent_to(peer[dst], x)]
      /\ sent_ld' = [sent_ld EXCEPT ![dst] = @ + x]
      /\ now' = now /\ delivered_ld' = delivered_ld
      /\ split(dst, amount_ld).amount_sent_ld # None
  BY DEF Send
<1>2. x \in U64
  BY <1>1, SplitOfPeer, Constants DEF AddsUp
<1>3. /\ SanePeer(peer[dst], now)
      /\ peer \in [Eids -> PeerConfig] /\ sent_ld \in [Eids -> Nat]
  BY Numbers DEF IInv, TypeOK
<1> HIDE DEF x
<1>4. CASE dst = eid
  <2>1. /\ peer'[eid].outbound_rate_limiter =
              try_consume(peer[eid].outbound_rate_limiter, x, now)
        /\ peer'[eid].inbound_rate_limiter =
              refill_if_some(peer[eid].inbound_rate_limiter, x, now)
    BY <1>1, <1>3, <1>4 DEF sent_to, PeerConfig
  <2>2. Outbound(eid)!Next
    BY <1>1, <1>2, <1>3, <1>4, <2>1, OutboundTakes DEF SanePeer
  <2>3. Inbound(eid)!Next
    BY <1>1, <1>2, <1>3, <1>4, <2>1, InboundGives DEF SanePeer
  <2> QED
    BY <2>2, <2>3 DEF Buckets
<1>5. CASE dst # eid
  BY <1>1, <1>3, <1>5, BucketsRest
<1> QED
  BY <1>4, <1>5

(* lz_receive does the same the other way round.                           *)
LEMMA LzReceiveBuckets ==
    ASSUME IInv, NEW eid \in Eids, NEW packet \in Packet, LzReceive(packet)
    PROVE  Buckets(eid)
<1> DEFINE x == sd2ld(Ld2sdRate, packet.amount_sd)
           src == packet.src_eid
<1>1. /\ may_consume(peer[src].inbound_rate_limiter, x, now)
      /\ peer' = [peer EXCEPT ![src] = received_from(peer[src], x)]
      /\ delivered_ld' = [delivered_ld EXCEPT ![src] = @ + x]
      /\ now' = now /\ sent_ld' = sent_ld
      /\ x \in U64
  BY DEF LzReceive
<1>2. src \in Eids
  BY DEF Packet
<1>3. /\ SanePeer(peer[src], now)
      /\ peer \in [Eids -> PeerConfig] /\ delivered_ld \in [Eids -> Nat]
  BY <1>2, Numbers DEF IInv, TypeOK
<1> HIDE DEF x, src
<1>4. CASE src = eid
  <2>1. /\ peer'[eid].inbound_rate_limiter =
              try_consume(peer[eid].inbound_rate_limiter, x, now)
        /\ peer'[eid].outbound_rate_limiter =
              refill_if_some(peer[eid].outbound_rate_limiter, x, now)
    BY <1>1, <1>3, <1>4 DEF received_from, PeerConfig
  <2>2. Inbound(eid)!Next
    BY <1>1, <1>3, <1>4, <2>1, InboundTakes DEF SanePeer
  <2>3. Outbound(eid)!Next
    BY <1>1, <1>3, <1>4, <2>1, OutboundGives DEF SanePeer
  <2> QED
    BY <2>2, <2>3 DEF Buckets
<1>5. CASE src # eid
  BY <1>1, <1>3, <1>5, BucketsRest
<1> QED
  BY <1>4, <1>5

(* A configuration replaces one limiter of one peer, or none.              *)
LEMMA AdministerPeerBuckets ==
    ASSUME IInv, NEW eid \in Eids, NEW signer \in Keys, NEW at \in Eids,
           AdministerPeer(signer, at)
    PROVE  Buckets(eid)
<1>1. SanePeer(peer[eid], now) /\ peer \in [Eids -> PeerConfig]
      /\ peer[eid] \in PeerConfig
  BY Numbers DEF IInv, TypeOK
<1>2. ASSUME NEW config, SetPeerConfig(signer, at, config)
      PROVE  /\ UNCHANGED <<now, sent_ld, delivered_ld>>
             /\ peer' = [peer EXCEPT ![at] = [config EXCEPT !.exists = TRUE]]
  BY <1>2 DEF SetPeerConfig, history
<1>3. CASE at # eid
  <2>1. \E config : SetPeerConfig(signer, at, config)
    BY DEF AdministerPeer, SetPeerAddress, SetPeerFee, SetEnforcedOptions,
       SetOutboundRateLimit, SetInboundRateLimit
  <2> QED
    BY <1>1, <1>2, <1>3, <2>1, BucketsRest
<1>4. CASE at = eid
  <2> DEFINE o == peer[eid].outbound_rate_limiter
             i == peer[eid].inbound_rate_limiter
             o_new == peer'[eid].outbound_rate_limiter
             i_new == peer'[eid].inbound_rate_limiter
  <2>1. /\ UNCHANGED <<now, sent_ld, delivered_ld>>
        /\ \/ o_new = o /\ i_new = i
           \/ o_new \in Updated(o) /\ i_new = i
           \/ o_new = o /\ i_new \in Updated(i)
    <3>1. ASSUME NEW address, SetPeerAddress(signer, at, address)
          PROVE  UNCHANGED <<now, sent_ld, delivered_ld>> /\ o_new = o /\ i_new = i
      BY <1>1, <1>2, <1>4, <3>1 DEF SetPeerAddress, PeerConfig
    <3>2. ASSUME NEW fee_bps, SetPeerFee(signer, at, fee_bps)
          PROVE  UNCHANGED <<now, sent_ld, delivered_ld>> /\ o_new = o /\ i_new = i
      BY <1>1, <1>2, <1>4, <3>2 DEF SetPeerFee, PeerConfig
    <3>3. ASSUME SetEnforcedOptions(signer, at)
          PROVE  UNCHANGED <<now, sent_ld, delivered_ld>> /\ o_new = o /\ i_new = i
      BY <1>1, <1>2, <1>4, <3>3 DEF SetEnforcedOptions, PeerConfig
    <3>4. ASSUME NEW limiter \in Updated(o), SetOutboundRateLimit(signer, at, limiter)
          PROVE  /\ UNCHANGED <<now, sent_ld, delivered_ld>>
                 /\ o_new = limiter /\ i_new = i
      BY <1>1, <1>2, <1>4, <3>4 DEF SetOutboundRateLimit, PeerConfig
    <3>5. ASSUME NEW limiter \in Updated(i), SetInboundRateLimit(signer, at, limiter)
          PROVE  /\ UNCHANGED <<now, sent_ld, delivered_ld>>
                 /\ o_new = o /\ i_new = limiter
      BY <1>1, <1>2, <1>4, <3>5 DEF SetInboundRateLimit, PeerConfig
    <3> QED
      BY <1>4, <3>1, <3>2, <3>3, <3>4, <3>5 DEF AdministerPeer
  <2>2. [Outbound(eid)!Next]_(Outbound(eid)!vars)
    BY <1>1, <2>1, OutboundConfigured DEF SanePeer, Outbound!vars
  <2>3. [Inbound(eid)!Next]_(Inbound(eid)!vars)
    BY <1>1, <2>1, InboundConfigured DEF SanePeer, Inbound!vars
  <2> QED
    BY <2>2, <2>3 DEF Buckets
<1> QED
  BY <1>3, <1>4

(* A second passes for both limiters of every peer.                        *)
LEMMA TickBuckets ==
    ASSUME IInv, NEW eid \in Eids, Tick
    PROVE  Buckets(eid)
<1>1. /\ Sane(peer[eid].outbound_rate_limiter, now)
      /\ Sane(peer[eid].inbound_rate_limiter, now)
  BY DEF IInv, LimitersSane
<1>2. /\ now' = now + 1 /\ peer' = peer
      /\ sent_ld' = sent_ld /\ delivered_ld' = delivered_ld
  BY DEF Tick, history
<1>3. Outbound(eid)!Tick
  BY <1>1, <1>2, TickIsExact DEF Outbound!Tick, Outbound!min, min
<1>4. Inbound(eid)!Tick
  BY <1>1, <1>2, TickIsExact DEF Inbound!Tick, Inbound!min, min
<1> QED
  BY <1>3, <1>4 DEF Buckets, Outbound!Next, Inbound!Next

(* One step per operation.                                                 *)
LEMMA BucketsNext ==
    ASSUME IInv, [Next]_vars, NEW eid \in Eids
    PROVE  Buckets(eid)
<1>1. CASE Transfer
  BY <1>1, SendBuckets, LzReceiveBuckets DEF Transfer
<1>2. CASE \E signer \in Keys, at \in Eids : AdministerPeer(signer, at)
  BY <1>2, AdministerPeerBuckets
<1>3. CASE Tick
  BY <1>3, TickBuckets
<1>4. CASE \/ \E signer \in Keys : Administer(signer)
           \/ \E packet \in Packet : Verify(packet)
           \/ NextEpoch
           \/ \E amount_ld \in AmountsLd : Donate(amount_ld)
           \/ UNCHANGED vars
  <2>1. UNCHANGED <<peer, now, history>>
    BY <1>4 DEF Administer, WithdrawFee, SetPause, SetPaused, SetKey, SetDefaultFee,
       Verify, NextEpoch, Donate, vars
  <2> QED
    BY <2>1, BucketsRest DEF history
<1> QED
  BY <1>1, <1>2, <1>3, <1>4 DEF Next, Environment

(* The two limiters of every peer, each drawn on by one direction and      *)
(* given to by the other, serve exactly what two token buckets would.      *)
THEOREM OutboundServesAsBucket == Spec => OutboundIsBucket
<1>1. Init => \A eid \in Eids : Outbound(eid)!Init
  <2> SUFFICES ASSUME Init, NEW eid \in Eids PROVE Outbound(eid)!Init
    OBVIOUS
  <2>1. peer[eid].outbound_rate_limiter = NoLimiter /\ now = 0
        /\ sent_ld[eid] = 0 /\ delivered_ld[eid] = 0
    BY DEF Init, NoPeer
  <2>2. level_at(NoLimiter, 0) = 0 /\ 0 \in U64
    BY U64MaxAssumption DEF NoLimiter, level_at, min, U64
  <2> QED
    BY <2>1, <2>2 DEF Outbound!Init, NoLimiter, Outbound!U64, U64
<1> DEFINE P == \A eid \in Eids : [Outbound(eid)!Next]_(Outbound(eid)!vars)
<1>2. IInv /\ [Next]_vars => [P]_vars
  BY BucketsNext DEF Buckets
<1> QED
  BY <1>1, <1>2, IInvAlways, PTL DEF Spec, OutboundIsBucket

(* The same of what comes in.                                              *)
THEOREM InboundServesAsBucket == Spec => InboundIsBucket
<1>1. Init => \A eid \in Eids : Inbound(eid)!Init
  <2> SUFFICES ASSUME Init, NEW eid \in Eids PROVE Inbound(eid)!Init
    OBVIOUS
  <2>1. peer[eid].inbound_rate_limiter = NoLimiter /\ now = 0
        /\ sent_ld[eid] = 0 /\ delivered_ld[eid] = 0
    BY DEF Init, NoPeer
  <2>2. level_at(NoLimiter, 0) = 0 /\ 0 \in U64
    BY U64MaxAssumption DEF NoLimiter, level_at, min, U64
  <2> QED
    BY <2>1, <2>2 DEF Inbound!Init, NoLimiter, Inbound!U64, U64
<1> DEFINE P == \A eid \in Eids : [Inbound(eid)!Next]_(Inbound(eid)!vars)
<1>2. IInv /\ [Next]_vars => [P]_vars
  BY BucketsNext DEF Buckets
<1> QED
  BY <1>1, <1>2, IInvAlways, PTL DEF Spec, InboundIsBucket

=============================================================================
