--------------------------- MODULE OperatorProofs ---------------------------
(***************************************************************************)
(* What the operators of the OFT program guarantee, for every u64 range:   *)
(* the amount arithmetic of OFTMath, for every ld2sd_rate and transfer fee,*)
(* and what the operations of a RateLimiter record do to the level of an   *)
(* eager bucket.                                                           *)
(***************************************************************************)
EXTENDS OFTMath, RateLimiter, TLAPS

(* Division rounds down to the last multiple.                              *)
LEMMA DivisionRange ==
    ASSUME NEW n \in Nat, NEW d \in Nat \ {0}
    PROVE  /\ n \div d \in Nat
           /\ (n \div d) * d <= n
           /\ n < (n \div d) * d + d
  OBVIOUS

(* ceil_div is the least quotient that covers the numerator.               *)
LEMMA CeilDivRange ==
    ASSUME NEW n \in Nat, NEW d \in Nat \ {0}
    PROVE  /\ ceil_div(n, d) \in Nat
           /\ n <= ceil_div(n, d) * d
           /\ ceil_div(n, d) * d < n + d
<1>1. n + d - 1 \in Nat
  OBVIOUS
<1>2. /\ (n + d - 1) \div d \in Nat
      /\ ((n + d - 1) \div d) * d <= n + d - 1
      /\ n + d - 1 < ((n + d - 1) \div d) * d + d
  BY <1>1, DivisionRange
<1>3. \A x \in Nat : x * d \in Nat
  OBVIOUS
<1> QED
  BY <1>2, <1>3 DEF ceil_div

(* Multiplication by a natural is monotone; stated once for the solver.    *)
LEMMA TimesMonotone ==
    ASSUME NEW x \in Int, NEW y \in Int, NEW d \in Nat, x <= y
    PROVE  x * d <= y * d
  OBVIOUS

(* The two bounds of CeilDivRange determine the quotient.                  *)
LEMMA CeilDivUnique ==
    ASSUME NEW n \in Nat, NEW d \in Nat \ {0}, NEW c \in Nat,
           n <= c * d, (c - 1) * d < n
    PROVE  ceil_div(n, d) = c
<1> DEFINE q == ceil_div(n, d)
<1>1. q \in Nat /\ n <= q * d /\ q * d < n + d
  BY CeilDivRange
<1> HIDE DEF q
<1>2. ASSUME q < c PROVE FALSE
  <2>1. q * d <= (c - 1) * d
    BY <1>1, <1>2, TimesMonotone
  <2> QED
    BY <1>1, <2>1
<1>3. ASSUME c < q PROVE FALSE
  <2>1. c * d <= (q - 1) * d
    BY <1>1, <1>3, TimesMonotone
  <2>2. (q - 1) * d = q * d - d
    BY <1>1
  <2>3. c * d \in Nat /\ q * d \in Nat
    BY <1>1
  <2> QED
    BY <1>1, <2>1, <2>2, <2>3
<1> QED
  BY <1>1, <1>2, <1>3 DEF q

-----------------------------------------------------------------------------
(* remove_dust leaves the largest multiple of the rate.                    *)
LEMMA RemoveDust ==
    ASSUME NEW rate \in Nat \ {0}, NEW amount \in Nat
    PROVE  /\ remove_dust(rate, amount) \in 0 .. amount
           /\ remove_dust(rate, amount) = (amount \div rate) * rate
<1>1. amount \div rate \in Nat /\ (amount \div rate) * rate <= amount
  BY DivisionRange
<1>2. amount = (amount \div rate) * rate + (amount % rate)
  OBVIOUS
<1>3. (amount \div rate) * rate \in Nat
  BY <1>1
<1> QED
  BY <1>1, <1>2, <1>3 DEF remove_dust

(* What is free of dust converts to shared decimals and back unchanged.    *)
LEMMA WireIsExact ==
    ASSUME NEW rate \in Nat \ {0}, NEW k \in Nat
    PROVE  /\ ld2sd(rate, k * rate) = k
           /\ sd2ld(rate, k) = k * rate
<1> DEFINE n == k * rate
<1>1. n \in Nat
  OBVIOUS
<1>2. n \div rate \in Nat /\ (n \div rate) * rate <= n /\ n < (n \div rate) * rate + rate
  BY <1>1, DivisionRange
<1>3. ASSUME NEW q \in Nat, q * rate <= k * rate, k * rate < q * rate + rate
      PROVE  q = k
  <2>1. CASE q < k
    <3>1. (q + 1) * rate <= k * rate
      BY <2>1, TimesMonotone
    <3> QED
      BY <1>3, <3>1
  <2>2. CASE k < q
    <3>1. (k + 1) * rate <= q * rate
      BY <2>2, TimesMonotone
    <3> QED
      BY <1>3, <3>1
  <2> QED
    BY <2>1, <2>2
<1> QED
  BY <1>2, <1>3 DEF ld2sd, sd2ld

(* The OFT's own fee is at most the amount it is taken from.               *)
LEMMA FeeIsPart ==
    ASSUME NEW amount \in Nat, NEW default_fee_bps \in 0 .. OneInBasisPoints,
           NEW fee_bps \in (0 .. OneInBasisPoints) \cup {None}
    PROVE  calculate_fee(amount, default_fee_bps, fee_bps) \in 0 .. amount
<1> DEFINE bps == IF fee_bps # None THEN fee_bps ELSE default_fee_bps
           fee == (amount * bps) \div OneInBasisPoints
<1>1. bps \in 0 .. OneInBasisPoints /\ OneInBasisPoints \in Nat \ {0}
  BY OneInBasisPointsAssumption DEF None
<1> HIDE DEF bps
<1>2. amount * bps \in Nat
  BY <1>1
<1>3. fee \in Nat /\ fee * OneInBasisPoints <= amount * bps
  BY <1>1, <1>2, DivisionRange
<1> HIDE DEF fee
<1>4. bps * amount <= OneInBasisPoints * amount
  BY <1>1, TimesMonotone
<1>5. ASSUME amount < fee PROVE FALSE
  <2>1. (amount + 1) * OneInBasisPoints <= fee * OneInBasisPoints
    BY <1>1, <1>3, <1>5, TimesMonotone
  <2> QED
    BY <1>1, <1>3, <1>4, <2>1
<1> QED
  BY <1>3, <1>5 DEF calculate_fee, fee, bps

(* The transfer fee is at most the transfer.                               *)
LEMMA TransferFeeIsPart ==
    ASSUME NEW fee \in TransferFee, NEW amount \in Nat
    PROVE  /\ transfer_fee(fee, amount) \in 0 .. amount
           /\ get_post_fee_amount_ld(fee, amount) \in 0 .. amount
<1> DEFINE bps == fee.transfer_fee_basis_points
           raw == ceil_div(amount * bps, OneInBasisPoints)
<1>1. /\ bps \in 0 .. OneInBasisPoints /\ OneInBasisPoints \in Nat \ {0}
      /\ fee.maximum_fee \in Nat
  BY OneInBasisPointsAssumption, U64MaxAssumption DEF TransferFee, U64
<1> HIDE DEF bps
<1>2. amount * bps \in Nat
  BY <1>1
<1>3. raw \in Nat /\ raw * OneInBasisPoints < amount * bps + OneInBasisPoints
  BY <1>1, <1>2, CeilDivRange
<1> HIDE DEF raw
<1>4. bps * amount <= OneInBasisPoints * amount
  BY <1>1, TimesMonotone
<1>5. ASSUME amount < raw PROVE FALSE
  <2>1. (amount + 1) * OneInBasisPoints <= raw * OneInBasisPoints
    BY <1>1, <1>3, <1>5, TimesMonotone
  <2> QED
    BY <1>1, <1>3, <1>4, <2>1
<1>6. transfer_fee(fee, amount) = min(fee.maximum_fee, raw)
  BY DEF transfer_fee, raw, bps
<1> QED
  BY <1>1, <1>3, <1>5, <1>6 DEF min, get_post_fee_amount_ld

-----------------------------------------------------------------------------
(* The arm of calculate_pre_fee_amount below 100 %: with D the share that  *)
(* is left, raw covers p exactly, and a prefix of it that is cut off by    *)
(* the maximum fee still pays that maximum.                                *)
LEMMA RawPreFee ==
    ASSUME NEW bps \in 1 .. OneInBasisPoints - 1, NEW p \in Nat,
           NEW raw, raw = ceil_div(p * OneInBasisPoints, OneInBasisPoints - bps)
    PROVE  /\ raw \in Nat /\ p <= raw
           /\ ceil_div(raw * bps, OneInBasisPoints) = raw - p
           /\ \A m \in Nat \ {0} : p + m <= raw =>
                  m <= ceil_div((p + m) * bps, OneInBasisPoints)
<1> DEFINE D == OneInBasisPoints - bps
<1>1. OneInBasisPoints \in Nat \ {0} /\ D \in Nat \ {0} /\ D + bps = OneInBasisPoints
  BY OneInBasisPointsAssumption
<1> HIDE DEF D
<1>2. p * OneInBasisPoints \in Nat /\ p * OneInBasisPoints = p * D + p * bps
  BY <1>1
<1>3. /\ raw \in Nat /\ p * OneInBasisPoints <= raw * D
      /\ raw * D < p * OneInBasisPoints + D
  BY <1>1, <1>2, CeilDivRange DEF D
<1>4. raw * OneInBasisPoints = raw * D + raw * bps
  BY <1>1, <1>3
<1>5. p <= raw
  <2> SUFFICES ASSUME raw < p PROVE FALSE
    BY <1>3
  <2>1. (raw + 1) * D <= p * D
    BY <1>1, <1>3, TimesMonotone
  <2>2. p * bps \in Nat
    OBVIOUS
  <2> QED
    BY <1>1, <1>2, <1>3, <2>1, <2>2
<1>6. ceil_div(raw * bps, OneInBasisPoints) = raw - p
  <2>1. raw * bps \in Nat /\ raw - p \in Nat
    BY <1>3, <1>5
  <2>2. (raw - p) * OneInBasisPoints
          = raw * OneInBasisPoints - p * OneInBasisPoints
    BY <1>1, <1>3
  <2>3. raw * bps <= (raw - p) * OneInBasisPoints
    BY <1>1, <1>3, <1>4, <2>1, <2>2
  <2>4. (raw - p - 1) * OneInBasisPoints
          = (raw - p) * OneInBasisPoints - OneInBasisPoints
    BY <1>1, <1>3
  <2>5. (raw - p - 1) * OneInBasisPoints < raw * bps
    BY <1>1, <1>3, <1>4, <2>1, <2>2, <2>4
  <2> QED
    BY <1>1, <2>1, <2>3, <2>5, CeilDivUnique
<1>7. ASSUME NEW m \in Nat \ {0}, p + m <= raw
      PROVE  m <= ceil_div((p + m) * bps, OneInBasisPoints)
  <2> DEFINE c == ceil_div((p + m) * bps, OneInBasisPoints)
  <2>1. (p + m) * bps \in Nat
    OBVIOUS
  <2>2. c \in Nat /\ (p + m) * bps <= c * OneInBasisPoints
    BY <1>1, <2>1, CeilDivRange
  <2> HIDE DEF c
  <2> SUFFICES ASSUME c < m PROVE FALSE
    BY <2>2 DEF c
  <2>3. c <= m - 1
    BY <2>2
  <2>4. c * OneInBasisPoints <= (m - 1) * OneInBasisPoints
    BY <1>1, <2>2, <2>3, TimesMonotone
  <2>5. (p + m - 1) * D <= (raw - 1) * D
    BY <1>1, <1>3, <1>7, TimesMonotone
  <2>6. (raw - 1) * D = raw * D - D
    BY <1>1, <1>3
  <2>7. (p + m - 1) * OneInBasisPoints
          = (p + m - 1) * D + (p + m) * bps - bps
    BY <1>1
  <2>8. (p + m - 1) * OneInBasisPoints
          = p * OneInBasisPoints + (m - 1) * OneInBasisPoints
    BY <1>1
  <2> QED
    BY <1>1, <1>2, <1>3, <2>1, <2>2, <2>4, <2>5, <2>6, <2>7, <2>8
<1> QED
  BY <1>3, <1>5, <1>6, <1>7

(* Whenever calculate_pre_fee_amount succeeds, transferring what it        *)
(* returns makes exactly post_fee_amount arrive, at every fee and cap.     *)
THEOREM PostOfPreFee ==
    ASSUME NEW fee \in TransferFee, NEW p \in U64,
           NEW sent, sent = calculate_pre_fee_amount(fee, p), sent # None
    PROVE  /\ sent \in U64 /\ p <= sent
           /\ get_post_fee_amount_ld(fee, sent) = p
<1> DEFINE bps == fee.transfer_fee_basis_points
           max == fee.maximum_fee
           raw == ceil_div(p * OneInBasisPoints, OneInBasisPoints - bps)
           withheld(x) == ceil_div(x * bps, OneInBasisPoints)
<1>1. /\ bps \in 0 .. OneInBasisPoints /\ OneInBasisPoints \in Nat \ {0}
      /\ max \in U64 /\ U64 \subseteq Nat
  BY OneInBasisPointsAssumption, U64MaxAssumption DEF TransferFee, U64
<1>2. /\ sent = IF bps = 0 \/ p = 0 THEN p
                ELSE IF bps = OneInBasisPoints THEN checked(p + max)
                ELSE IF raw - p >= max THEN checked(p + max) ELSE checked(raw)
      /\ get_post_fee_amount_ld(fee, sent) = sent - min(max, withheld(sent))
  BY DEF calculate_pre_fee_amount, get_post_fee_amount_ld, transfer_fee
<1>3. \A x : checked(x) # None => checked(x) = x /\ x \in U64
  BY DEF checked
<1> HIDE DEF bps, max, raw
<1>4. CASE bps = 0 \/ p = 0
  <2>1. p \in Nat /\ p * bps = 0 /\ sent = p
    BY <1>1, <1>2, <1>4
  <2>2. (0 - 1) * OneInBasisPoints < 0
    BY <1>1
  <2>3. ceil_div(0, OneInBasisPoints) = 0
    BY <1>1, <2>2, CeilDivUnique
  <2> QED
    BY <1>1, <1>2, <2>1, <2>3 DEF min
<1>5. CASE bps = OneInBasisPoints /\ p # 0
  <2>1. sent = p + max /\ sent \in U64 /\ sent \in Nat
    BY <1>1, <1>2, <1>3, <1>5
  <2>2. /\ sent * OneInBasisPoints \in Nat
        /\ (sent - 1) * OneInBasisPoints < sent * OneInBasisPoints
    BY <1>1, <2>1
  <2>3. withheld(sent) = sent
    BY <1>1, <1>5, <2>1, <2>2, CeilDivUnique
  <2> QED
    BY <1>1, <1>2, <2>1, <2>3 DEF min
<1>6. CASE bps # 0 /\ bps # OneInBasisPoints /\ p # 0
  <2>1. /\ raw \in Nat /\ p <= raw
        /\ withheld(raw) = raw - p
        /\ \A m \in Nat \ {0} : p + m <= raw => m <= withheld(p + m)
    BY <1>1, <1>6, RawPreFee DEF raw
  <2>2. CASE raw - p < max
    <3>1. sent = raw /\ sent \in U64
      BY <1>1, <1>2, <1>3, <1>6, <2>1, <2>2
    <3> QED
      BY <1>1, <1>2, <2>1, <2>2, <3>1 DEF min
  <2>3. CASE raw - p >= max
    <3>1. sent = p + max /\ sent \in U64 /\ sent \in Nat /\ sent <= raw
      BY <1>1, <1>2, <1>3, <1>6, <2>1, <2>3
    <3>2. sent * bps \in Nat
      BY <1>1, <3>1
    <3>3. withheld(sent) \in Nat
      BY <1>1, <3>2, CeilDivRange
    <3>4. max <= withheld(sent)
      BY <1>1, <2>1, <3>1, <3>3
    <3> QED
      BY <1>1, <1>2, <3>1, <3>3, <3>4 DEF min
  <2> QED
    BY <1>1, <2>1, <2>2, <2>3
<1> QED
  BY <1>1, <1>4, <1>5, <1>6

(* The inverse succeeds for every amount p that a transfer of amount would *)
(* leave, and never asks for more than amount: what a sender named is      *)
(* enough, and the error return of calculate_pre_fee_amount is never taken.*)
THEOREM PreFeeIsAffordable ==
    ASSUME NEW fee \in TransferFee, NEW amount \in U64,
           NEW p \in 0 .. get_post_fee_amount_ld(fee, amount)
    PROVE  /\ calculate_pre_fee_amount(fee, p) # None
           /\ calculate_pre_fee_amount(fee, p) \in 0 .. amount
<1> DEFINE bps == fee.transfer_fee_basis_points
           max == fee.maximum_fee
           D == OneInBasisPoints - bps
           raw == ceil_div(p * OneInBasisPoints, D)
           w == ceil_div(amount * bps, OneInBasisPoints)
           sent == calculate_pre_fee_amount(fee, p)
<1>1. /\ bps \in 0 .. OneInBasisPoints /\ OneInBasisPoints \in Nat \ {0}
      /\ max \in Nat /\ amount \in Nat /\ U64Max \in Nat /\ amount <= U64Max
      /\ \A x \in 0 .. amount : checked(x) = x /\ x # None
  BY OneInBasisPointsAssumption, U64MaxAssumption
  DEF TransferFee, U64, checked, None
<1>2. /\ sent = IF bps = 0 \/ p = 0 THEN p
                ELSE IF bps = OneInBasisPoints THEN checked(p + max)
                ELSE IF raw - p >= max THEN checked(p + max) ELSE checked(raw)
      /\ get_post_fee_amount_ld(fee, amount) = amount - min(max, w)
  BY DEF calculate_pre_fee_amount, get_post_fee_amount_ld, transfer_fee
<1>3. amount * bps \in Nat
  BY <1>1
<1>4. /\ w \in Nat /\ amount * bps <= w * OneInBasisPoints
      /\ w * OneInBasisPoints < amount * bps + OneInBasisPoints
  BY <1>1, <1>3, CeilDivRange
<1>5. p \in 0 .. amount /\ p <= amount - min(max, w)
  BY <1>1, <1>2, <1>4, TransferFeeIsPart
<1> HIDE DEF bps, max, D, raw, w, sent
<1>6. CASE bps = 0 \/ p = 0
  BY <1>1, <1>2, <1>5, <1>6 DEF sent
<1>7. CASE bps = OneInBasisPoints /\ p # 0
  <2>1. w >= amount
    <3> SUFFICES ASSUME w < amount PROVE FALSE
      BY <1>1, <1>4
    <3>1. w * OneInBasisPoints <= (amount - 1) * OneInBasisPoints
      BY <1>1, <1>4, TimesMonotone
    <3> QED
      BY <1>1, <1>4, <1>7, <3>1
  <2>2. p + max \in 0 .. amount
    BY <1>1, <1>4, <1>5, <1>7, <2>1 DEF min
  <2> QED
    BY <1>1, <1>2, <1>7, <2>2 DEF sent
<1>8. CASE bps # 0 /\ bps # OneInBasisPoints /\ p # 0
  <2>1. bps \in 1 .. OneInBasisPoints - 1 /\ p \in Nat
        /\ D \in Nat \ {0} /\ D + bps = OneInBasisPoints
    BY <1>1, <1>5, <1>8 DEF D
  <2>2. p * OneInBasisPoints \in Nat
    BY <1>1, <2>1
  <2>3. /\ raw \in Nat /\ p <= raw
        /\ raw * D < p * OneInBasisPoints + D
    BY <2>1, <2>2, RawPreFee, CeilDivRange DEF raw, D
  <2>4. CASE max <= w
    <3>1. p + max \in 0 .. amount
      BY <1>1, <1>4, <1>5, <2>1, <2>4 DEF min
    <3>2. raw - p < max => raw \in 0 .. amount
      BY <1>1, <2>1, <2>3, <3>1
    <3> QED
      BY <1>1, <1>2, <1>8, <2>1, <2>3, <3>1, <3>2 DEF sent
  <2>5. CASE w < max
    <3>1. p * OneInBasisPoints <= (amount - w) * OneInBasisPoints
      BY <1>1, <1>4, <1>5, <2>1, <2>5, TimesMonotone DEF min
    <3>2. (amount - w) * OneInBasisPoints
            = amount * D + amount * bps - w * OneInBasisPoints
      BY <1>1, <1>4, <2>1
    <3>3. raw * D < amount * D + D
      BY <1>1, <1>3, <1>4, <2>1, <2>2, <2>3, <3>1, <3>2
    <3>4. raw <= amount
      <4> SUFFICES ASSUME amount < raw PROVE FALSE
        BY <1>1, <2>3
      <4>1. (amount + 1) * D <= raw * D
        BY <1>1, <2>1, <2>3, TimesMonotone
      <4> QED
        BY <1>1, <2>1, <2>3, <3>3, <4>1
    <3>5. raw - p >= max => p + max \in 0 .. amount
      BY <1>1, <2>1, <2>3, <3>4
    <3>6. raw \in 0 .. amount
      BY <2>3, <3>4
    <3> QED
      BY <1>1, <1>2, <1>8, <2>1, <2>3, <3>5, <3>6 DEF sent
  <2> QED
    BY <1>1, <1>4, <2>4, <2>5
<1> QED
  BY <1>1, <1>6, <1>7, <1>8 DEF sent

-----------------------------------------------------------------------------
(* What a split s of amount promises its callers: it stays within amount,  *)
(* the wire carries amount_received_ld without loss, and what arrives in   *)
(* the escrow (Adapter) or leaves the sender (Native) is the part on the   *)
(* wire plus the fee.                                                      *)
AddsUp(s, amount, oft_type, rate, fee) ==
    /\ s.amount_sent_ld \in 0 .. amount
    /\ s.amount_received_ld \in 0 .. amount
    /\ s.oft_fee_ld \in 0 .. amount
    /\ s.amount_received_ld + s.oft_fee_ld <= s.amount_sent_ld
    /\ sd2ld(rate, ld2sd(rate, s.amount_received_ld)) = s.amount_received_ld
    /\ ld2sd(rate, s.amount_received_ld) \in Nat
    /\ oft_type = "Adapter" =>
          get_post_fee_amount_ld(fee, s.amount_sent_ld)
              = s.amount_received_ld + s.oft_fee_ld
    /\ oft_type # "Adapter" =>
          s.amount_sent_ld = s.amount_received_ld + s.oft_fee_ld

(* compute_fee_and_adjust_amount keeps those promises for every amount,    *)
(* oft_store, peer and mint.                                               *)
THEOREM SplitAddsUp ==
    ASSUME NEW amount \in U64, NEW oft_type, NEW rate \in Nat \ {0},
           NEW fee \in TransferFee,
           NEW default_fee_bps \in 0 .. OneInBasisPoints,
           NEW fee_bps \in (0 .. OneInBasisPoints) \cup {None}
    PROVE  AddsUp(compute_fee_and_adjust_amount(amount, oft_type, rate, fee,
                                                default_fee_bps, fee_bps),
                  amount, oft_type, rate, fee)
<1> DEFINE s == compute_fee_and_adjust_amount(amount, oft_type, rate, fee,
                                              default_fee_bps, fee_bps)
           left == IF oft_type = "Adapter" THEN get_post_fee_amount_ld(fee, amount)
                                           ELSE amount
           dedusted == remove_dust(rate, left)
           bps_fee == calculate_fee(dedusted, default_fee_bps, fee_bps)
           kept == remove_dust(rate, bps_fee)
<1>1. amount \in Nat /\ U64 \subseteq Nat /\ U64 = 0 .. U64Max /\ U64Max \in Nat
  BY U64MaxAssumption DEF U64
<1>2. left \in 0 .. amount /\ left \in Nat
  <2>1. get_post_fee_amount_ld(fee, amount) \in 0 .. amount
    BY <1>1, TransferFeeIsPart
  <2> QED
    BY <1>1, <2>1
<1>3. /\ s.amount_received_ld = dedusted - kept
      /\ s.oft_fee_ld = kept
      /\ s.amount_sent_ld = IF oft_type = "Adapter"
                              THEN calculate_pre_fee_amount(fee, dedusted)
                              ELSE dedusted
  BY DEF compute_fee_and_adjust_amount
<1> HIDE DEF s, left
<1>4. /\ dedusted \in 0 .. left /\ dedusted = (left \div rate) * rate
      /\ dedusted \in Nat
  <2>1. dedusted \in 0 .. left /\ dedusted = (left \div rate) * rate
    BY <1>2, RemoveDust
  <2> QED
    BY <1>2, <2>1
<1> HIDE DEF dedusted
<1>5. bps_fee \in 0 .. dedusted /\ bps_fee \in Nat
  <2>1. bps_fee \in 0 .. dedusted
    BY <1>4, FeeIsPart
  <2> QED
    BY <1>4, <2>1
<1> HIDE DEF bps_fee
<1>6. kept \in 0 .. bps_fee /\ kept = (bps_fee \div rate) * rate
  BY <1>5, RemoveDust
<1> HIDE DEF kept
<1>7. dedusted - kept \in 0 .. amount /\ kept \in 0 .. amount
  BY <1>1, <1>2, <1>4, <1>5, <1>6
<1>8. /\ sd2ld(rate, ld2sd(rate, dedusted - kept)) = dedusted - kept
      /\ ld2sd(rate, dedusted - kept) \in Nat
  <2> DEFINE k == left \div rate - bps_fee \div rate
  <2>1. left \div rate \in Nat /\ bps_fee \div rate \in Nat
    BY <1>1, <1>2, <1>4, <1>5, DivisionRange
  <2>2. dedusted - kept = k * rate
    BY <1>4, <1>6, <2>1
  <2>3. k \in Nat
    <3> SUFFICES ASSUME k < 0 PROVE FALSE
      BY <2>1
    <3>1. k * rate <= (0 - 1) * rate
      BY <2>1, TimesMonotone
    <3> QED
      BY <1>7, <2>2, <3>1
  <2> HIDE DEF k
  <2> QED
    BY <2>2, <2>3, WireIsExact
<1>9. ASSUME oft_type = "Adapter" PROVE AddsUp(s, amount, oft_type, rate, fee)
  <2>1. left = get_post_fee_amount_ld(fee, amount) /\ dedusted \in U64
    BY <1>1, <1>2, <1>4, <1>9 DEF left
  <2>2. s.amount_sent_ld # None /\ s.amount_sent_ld \in 0 .. amount
    BY <1>3, <1>4, <1>9, <2>1, PreFeeIsAffordable
  <2>3. /\ dedusted <= s.amount_sent_ld
        /\ get_post_fee_amount_ld(fee, s.amount_sent_ld) = dedusted
    BY <1>3, <1>9, <2>1, <2>2, PostOfPreFee
  <2> QED
    BY <1>1, <1>2, <1>3, <1>4, <1>5, <1>6, <1>7, <1>8, <1>9, <2>2, <2>3 DEF AddsUp
<1>10. ASSUME oft_type # "Adapter" PROVE AddsUp(s, amount, oft_type, rate, fee)
  BY <1>1, <1>2, <1>3, <1>4, <1>5, <1>6, <1>7, <1>8, <1>10 DEF left, AddsUp
<1> QED
  BY <1>9, <1>10 DEF s

-----------------------------------------------------------------------------
(* A record between two touches: within its capacity, not in the future.   *)
Sane(l, t) == /\ l \in RateLimiter /\ t \in U64
              /\ l.tokens <= l.capacity /\ l.last_refill_time <= t

(* refill turns the record into the eager level plus the extra tokens,     *)
(* clamped: the saturating additions never cut more than the capacity does.*)
LEMMA RefillIsEager ==
    ASSUME NEW l, NEW t, NEW x \in U64, Sane(l, t)
    PROVE  LET r == refill(l, x, t) IN
           /\ r \in RateLimiter
           /\ r.tokens = min(l.capacity, level_at(l, t) + x)
           /\ r.last_refill_time = t
           /\ r.some = l.some /\ r.capacity = l.capacity
           /\ r.refill_per_second = l.refill_per_second
<1> DEFINE r == refill(l, x, t)
           credit == (t - l.last_refill_time) * l.refill_per_second
           elapsed == IF t > l.last_refill_time THEN t - l.last_refill_time ELSE 0
<1>1. /\ U64Max \in Nat /\ t \in Nat /\ x \in Nat /\ x <= U64Max
      /\ l.capacity \in 0 .. U64Max /\ l.tokens \in 0 .. l.capacity
      /\ l.refill_per_second \in 0 .. U64Max /\ l.last_refill_time \in 0 .. t
      /\ t <= U64Max
  BY U64MaxAssumption DEF Sane, RateLimiter, U64
<1>2. elapsed = t - l.last_refill_time /\ t - l.last_refill_time \in Nat
  BY <1>1
<1>3. credit \in Nat
  BY <1>1, <1>2
<1>4. r = [l EXCEPT
             !.tokens = min(l.capacity, saturating(l.tokens
                           + saturating(x + saturating(credit)))),
             !.last_refill_time = t]
  BY <1>2 DEF refill
<1> HIDE DEF r, credit, elapsed
<1>5. min(l.capacity, saturating(l.tokens + saturating(x + saturating(credit))))
        = min(l.capacity, l.tokens + x + credit)
  BY <1>1, <1>3 DEF min, saturating
<1>6. min(l.capacity, l.tokens + x + credit)
        = min(l.capacity, level_at(l, t) + x)
  BY <1>1, <1>3 DEF min, level_at, credit
<1>7. min(l.capacity, l.tokens + x + credit) \in U64
  BY <1>1, <1>3 DEF min, U64
<1> QED
  <2>1. r \in RateLimiter
    BY <1>4, <1>5, <1>7 DEF Sane, RateLimiter
  <2>2. /\ r.tokens = min(l.capacity, level_at(l, t) + x)
        /\ r.last_refill_time = t
        /\ r.some = l.some /\ r.capacity = l.capacity
        /\ r.refill_per_second = l.refill_per_second
    BY <1>4, <1>5, <1>6 DEF Sane, RateLimiter
  <2> QED
    BY <2>1, <2>2 DEF r

(* The level lies between zero and the capacity, and a record touched at t *)
(* shows it.                                                               *)
LEMMA LevelRange ==
    ASSUME NEW l, NEW t, Sane(l, t)
    PROVE  /\ level_at(l, t) \in 0 .. l.capacity
           /\ l.last_refill_time = t => level_at(l, t) = l.tokens
<1>1. /\ l.capacity \in Nat /\ l.tokens \in 0 .. l.capacity
      /\ l.refill_per_second \in Nat /\ t - l.last_refill_time \in Nat
  BY U64MaxAssumption DEF Sane, RateLimiter, U64
<1>2. (t - l.last_refill_time) * l.refill_per_second \in Nat
  BY <1>1
<1>3. t - l.last_refill_time = 0
        => (t - l.last_refill_time) * l.refill_per_second = 0
  BY <1>1
<1>4. l.last_refill_time = t => t - l.last_refill_time = 0
  BY U64MaxAssumption DEF Sane, U64
<1> QED
  BY <1>1, <1>2, <1>3, <1>4 DEF level_at, min

(* try_consume takes the amount off the level and nothing else.            *)
LEMMA ConsumeIsExact ==
    ASSUME NEW l, NEW t, NEW x \in U64, Sane(l, t), may_consume(l, x, t)
    PROVE  LET r == try_consume(l, x, t) IN
           /\ Sane(r, t)
           /\ r.some = l.some /\ r.capacity = l.capacity
           /\ r.refill_per_second = l.refill_per_second
           /\ l.some => x <= level_at(l, t) /\ level_at(r, t) = level_at(l, t) - x
           /\ ~l.some => r = l
<1> DEFINE r == try_consume(l, x, t)
           f == refill(l, 0, t)
<1>1. CASE ~l.some
  BY <1>1 DEF try_consume
<1>2. CASE l.some
  <2>1. 0 \in U64 /\ x \in Nat /\ U64 = 0 .. U64Max /\ U64Max \in Nat
    BY U64MaxAssumption DEF U64
  <2>2. /\ f \in RateLimiter
        /\ f.tokens = min(l.capacity, level_at(l, t) + 0)
        /\ f.last_refill_time = t
        /\ f.some = l.some /\ f.capacity = l.capacity
        /\ f.refill_per_second = l.refill_per_second
    BY <2>1, RefillIsEager
  <2>3. level_at(l, t) \in 0 .. l.capacity /\ l.capacity \in U64
    BY LevelRange DEF Sane, RateLimiter
  <2>4. f.tokens = level_at(l, t)
    BY <2>1, <2>2, <2>3 DEF min
  <2>5. x <= level_at(l, t) /\ r = [f EXCEPT !.tokens = f.tokens - x]
    BY <1>2, <2>4 DEF may_consume, try_consume
  <2> HIDE DEF r, f
  <2>6. level_at(l, t) - x \in U64 /\ level_at(l, t) - x <= l.capacity
    BY <2>1, <2>3, <2>5
  <2>7. /\ r \in RateLimiter /\ r.tokens = level_at(l, t) - x
        /\ r.last_refill_time = t
        /\ r.some = l.some /\ r.capacity = l.capacity
        /\ r.refill_per_second = l.refill_per_second
    BY <2>2, <2>4, <2>5, <2>6 DEF RateLimiter
  <2>8. Sane(r, t)
    BY <2>1, <2>6, <2>7 DEF Sane
  <2>9. level_at(r, t) = level_at(l, t) - x
    BY <2>7, <2>8, LevelRange
  <2> QED
    BY <1>2, <2>5, <2>7, <2>8, <2>9 DEF r
<1> QED
  BY <1>1, <1>2 DEF Sane, RateLimiter

(* A refill adds the amount to the level, up to the capacity.              *)
LEMMA RefillIsExact ==
    ASSUME NEW l, NEW t, NEW x \in U64, Sane(l, t)
    PROVE  LET r == refill_if_some(l, x, t) IN
           /\ Sane(r, t)
           /\ r.some = l.some /\ r.capacity = l.capacity
           /\ r.refill_per_second = l.refill_per_second
           /\ l.some => level_at(r, t) = min(l.capacity, level_at(l, t) + x)
           /\ ~l.some => r = l
<1> DEFINE r == refill_if_some(l, x, t)
<1>1. CASE ~l.some
  BY <1>1 DEF refill_if_some
<1>2. CASE l.some
  <2>1. r = refill(l, x, t)
    BY <1>2 DEF refill_if_some
  <2>2. /\ r \in RateLimiter
        /\ r.tokens = min(l.capacity, level_at(l, t) + x)
        /\ r.last_refill_time = t
        /\ r.some = l.some /\ r.capacity = l.capacity
        /\ r.refill_per_second = l.refill_per_second
    BY <2>1, RefillIsEager
  <2> HIDE DEF r
  <2>3. level_at(l, t) \in 0 .. l.capacity /\ l.capacity \in Nat /\ x \in Nat
    BY U64MaxAssumption, LevelRange DEF Sane, RateLimiter, U64
  <2>4. Sane(r, t)
    BY <2>2, <2>3, U64MaxAssumption DEF Sane, min, U64
  <2>5. level_at(r, t) = r.tokens
    BY <2>2, <2>4, LevelRange
  <2> QED
    BY <1>2, <2>2, <2>4, <2>5 DEF r
<1> QED
  BY <1>1, <1>2 DEF Sane, RateLimiter

(* A reconfiguration fills the bucket when it names a capacity, and        *)
(* otherwise leaves capacity and level alone.                              *)
LEMMA UpdateIsExact ==
    ASSUME NEW l, NEW t, NEW params \in RateLimitParams, Sane(l, t)
    PROVE  LET u == update_rate_limiter(l, params, t) IN
           /\ Sane(u, t) /\ u.some = TRUE
           /\ \/ level_at(u, t) = u.capacity
              \/ u.capacity = l.capacity /\ level_at(u, t) = level_at(l, t)
<1> DEFINE o == [l EXCEPT !.some = TRUE]
           c == IF params.capacity # None THEN set_capacity(o, params.capacity, t)
                                          ELSE o
           u == update_rate_limiter(l, params, t)
<1>1. /\ U64Max \in Nat /\ U64 = 0 .. U64Max
      /\ params.capacity \in U64 \cup {None}
      /\ params.refill_per_second \in U64 \cup {None}
  BY U64MaxAssumption DEF U64, RateLimitParams
<1>2. Sane(o, t) /\ o.some = TRUE /\ o.capacity = l.capacity
      /\ level_at(o, t) = level_at(l, t)
  BY DEF Sane, RateLimiter, level_at
<1>3. /\ Sane(c, t) /\ c.some = TRUE
      /\ \/ level_at(c, t) = c.capacity
         \/ c.capacity = l.capacity /\ level_at(c, t) = level_at(l, t)
  <2>1. CASE params.capacity = None
    BY <1>2, <2>1
  <2>2. CASE params.capacity # None
    <3>1. /\ c \in RateLimiter /\ c.some = TRUE /\ c.tokens = c.capacity
          /\ c.last_refill_time = t
      BY <1>1, <1>2, <2>2 DEF set_capacity, Sane, RateLimiter
    <3>2. Sane(c, t)
      BY <1>1, <1>2, <3>1 DEF Sane, RateLimiter
    <3> QED
      BY <3>1, <3>2, LevelRange
  <2> QED
    BY <2>1, <2>2
<1> HIDE DEF o, c
<1>4. u = IF params.refill_per_second # None
            THEN set_rate(c, params.refill_per_second, t) ELSE c
  BY DEF update_rate_limiter, c, o
<1>5. CASE params.refill_per_second = None
  BY <1>3, <1>4, <1>5
<1>6. CASE params.refill_per_second # None
  <2> DEFINE f == refill(c, 0, t)
  <2>1. /\ f \in RateLimiter
        /\ f.tokens = min(c.capacity, level_at(c, t) + 0)
        /\ f.last_refill_time = t /\ f.some = c.some /\ f.capacity = c.capacity
    BY <1>1, <1>3, RefillIsEager
  <2>2. level_at(c, t) \in 0 .. c.capacity /\ c.capacity \in Nat
    BY <1>1, <1>3, LevelRange DEF Sane, RateLimiter
  <2>3. u = [f EXCEPT !.refill_per_second = params.refill_per_second]
    BY <1>4, <1>6 DEF set_rate
  <2> HIDE DEF f
  <2>4. /\ u \in RateLimiter /\ u.some = TRUE /\ u.capacity = c.capacity
        /\ u.tokens = level_at(c, t) /\ u.last_refill_time = t
    BY <1>1, <1>3, <1>6, <2>1, <2>2, <2>3 DEF RateLimiter, min
  <2>5. Sane(u, t)
    BY <1>1, <1>3, <2>2, <2>4 DEF Sane
  <2>6. level_at(u, t) = level_at(c, t)
    BY <2>4, <2>5, LevelRange
  <2> QED
    BY <1>3, <2>4, <2>5, <2>6
<1> QED
  BY <1>5, <1>6

(* A second raises the level by the rate, up to the capacity.              *)
LEMMA TickIsExact ==
    ASSUME NEW l, NEW t, Sane(l, t)
    PROVE  level_at(l, t + 1) = min(l.capacity, level_at(l, t) + l.refill_per_second)
<1>1. /\ l.capacity \in Nat /\ l.tokens \in 0 .. l.capacity
      /\ l.refill_per_second \in Nat /\ t - l.last_refill_time \in Nat
      /\ t \in Nat /\ l.last_refill_time \in Nat
  BY U64MaxAssumption DEF Sane, RateLimiter, U64
<1>2. (t + 1 - l.last_refill_time) * l.refill_per_second
        = (t - l.last_refill_time) * l.refill_per_second + l.refill_per_second
  BY <1>1
<1>3. (t - l.last_refill_time) * l.refill_per_second \in Nat
  BY <1>1
<1> QED
  BY <1>1, <1>2, <1>3 DEF level_at, min

=============================================================================
