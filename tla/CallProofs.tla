------------------------------ MODULE CallProofs ------------------------------
(***************************************************************************)
(* One call of send, from its amounts to its composer.  The invariants of  *)
(* OFTQuote hold for every u64 range, basis-point scale and configuration; *)
(* those of Messages for every base of the bytes, address, amount,         *)
(* composed message and options, at the program's widths and offsets.      *)
(***************************************************************************)
EXTENDS OFTQuote, Messages, OperatorProofs, InductionProofs, SequenceTheorems

(* amount_ld stays a u64 and the configuration is never touched.           *)
LEMMA QuoteTypeCorrect == Spec => []TypeOK
<1>1. Init => TypeOK
  BY U64MaxAssumption DEF Init, TypeOK, U64
<1>2. TypeOK /\ [Next]_vars => TypeOK'
  BY U64MaxAssumption DEF TypeOK, Next, NextAmount, vars, U64
<1> QED
  BY <1>1, <1>2, PTL DEF Spec

(* What an Adapter charges is the inverse of what it puts on the wire and  *)
(* keeps.                                                                  *)
LEMMA SplitIsPreFee ==
    ASSUME NEW amount \in U64, NEW rate \in Nat \ {0}, NEW fee \in TransferFee,
           NEW default_fee_bps, NEW fee_bps,
           NEW s, s = compute_fee_and_adjust_amount(amount, "Adapter", rate, fee,
                                                    default_fee_bps, fee_bps),
           s.amount_received_ld \in Nat, s.oft_fee_ld \in Nat
    PROVE  s.amount_sent_ld =
             calculate_pre_fee_amount(fee, s.amount_received_ld + s.oft_fee_ld)
<1> DEFINE dedusted == remove_dust(rate, get_post_fee_amount_ld(fee, amount))
           kept == remove_dust(rate, calculate_fee(dedusted, default_fee_bps, fee_bps))
<1>1. /\ s.amount_received_ld = dedusted - kept /\ s.oft_fee_ld = kept
      /\ s.amount_sent_ld = calculate_pre_fee_amount(fee, dedusted)
  BY DEF compute_fee_and_adjust_amount
<1>2. dedusted \in Nat
  <2>1. amount \in Nat
    BY U64MaxAssumption DEF U64
  <2>2. get_post_fee_amount_ld(fee, amount) \in Nat
    BY <2>1, TransferFeeIsPart
  <2> QED
    BY <2>2, RemoveDust
<1> HIDE DEF dedusted, kept
<1> QED
  BY <1>1, <1>2

(* The split of the current amount has the properties of SplitAddsUp.      *)
LEMMA QuoteSplit ==
    ASSUME TypeOK
    PROVE  EscrowIsFunded /\ NeverOvercharged /\ NoDustOnTheWire /\ SentIsLeast
           /\ QuoteAddsUp
<1>1. /\ amount_ld \in U64 /\ config.ld2sd_rate \in Nat \ {0}
      /\ config.fee \in TransferFee /\ config.default_fee_bps \in 0 .. OneInBasisPoints
      /\ config.fee_bps \in (0 .. OneInBasisPoints) \cup {None}
      /\ config.oft_type \in {"Adapter", "Native"}
  <2>1. /\ config.ld2sd_rate \in Ld2sdRates /\ config.fee \in TransferFees
        /\ config.default_fee_bps \in FeeBps /\ config.fee_bps \in FeeBps \cup {None}
        /\ config.oft_type \in {"Adapter", "Native"} /\ amount_ld \in U64
    BY DEF TypeOK, Configs
  <2>2. FeeBps \subseteq 0 .. OneInBasisPoints
    BY OFTQuoteAssumption, OneInBasisPointsAssumption
  <2> QED
    BY <2>1, <2>2, OFTQuoteAssumption
<1>2. AddsUp(Amounts, amount_ld, config.oft_type, config.ld2sd_rate, config.fee)
  BY <1>1, SplitAddsUp DEF Amounts
<1> DEFINE a == Amounts
           p == a.amount_received_ld + a.oft_fee_ld
<1>3. /\ amount_ld \in Nat /\ U64 = 0 .. U64Max /\ U64Max \in Nat
      /\ a.amount_sent_ld \in 0 .. amount_ld
      /\ a.amount_received_ld \in Nat /\ a.oft_fee_ld \in Nat /\ p <= a.amount_sent_ld
  BY <1>1, <1>2, U64MaxAssumption DEF U64, AddsUp
<1>4. EscrowIsFunded /\ NeverOvercharged /\ NoDustOnTheWire
  BY <1>2, <1>3 DEF AddsUp, EscrowIsFunded, NeverOvercharged, NoDustOnTheWire
<1>5. SentIsLeast
  <2> SUFFICES ASSUME a.amount_sent_ld > 0, config.oft_type = "Adapter",
                      ~ (get_post_fee_amount_ld(config.fee, a.amount_sent_ld - 1) < p)
               PROVE  FALSE
    BY DEF SentIsLeast
  <2> DEFINE less == a.amount_sent_ld - 1
  <2>1. less \in U64 /\ less \in Nat
    BY <1>1, <1>3
  <2>2. get_post_fee_amount_ld(config.fee, less) \in 0 .. less
    BY <1>1, <2>1, TransferFeeIsPart
  <2>3. p \in 0 .. get_post_fee_amount_ld(config.fee, less)
    BY <1>3, <2>1, <2>2
  <2>4. calculate_pre_fee_amount(config.fee, p) \in 0 .. less
    BY <1>1, <2>1, <2>3, PreFeeIsAffordable
  <2>5. a.amount_sent_ld = calculate_pre_fee_amount(config.fee, p)
    BY <1>1, <1>3, SplitIsPreFee DEF Amounts
  <2> QED
    BY <1>3, <2>4, <2>5
<1>6. QuoteAddsUp
  <2>1. /\ get_post_fee_amount_ld(config.fee, a.amount_sent_ld)
              = a.amount_sent_ld - transfer_fee(config.fee, a.amount_sent_ld)
        /\ transfer_fee(config.fee, a.amount_sent_ld) \in Nat
    <3>1. a.amount_sent_ld \in Nat
      BY <1>3
    <3>2. transfer_fee(config.fee, a.amount_sent_ld) \in 0 .. a.amount_sent_ld
      BY <1>1, <3>1, TransferFeeIsPart
    <3> QED
      BY <3>1, <3>2 DEF get_post_fee_amount_ld
  <2>2. /\ config.oft_type = "Adapter" =>
              get_post_fee_amount_ld(config.fee, a.amount_sent_ld) = p
        /\ config.oft_type # "Adapter" => a.amount_sent_ld = p
    BY <1>2 DEF AddsUp
  <2> HIDE DEF a
  <2> QED
    BY <1>3, <2>1, <2>2 DEF QuoteAddsUp, oft_fee_details, a
<1> QED
  BY <1>4, <1>5, <1>6

(* The transfer of amount_sent_ld credits the escrow with exactly          *)
(* amount_received_ld + oft_fee_ld.                                        *)
THEOREM QuoteFundsEscrow == Spec => []EscrowIsFunded
  BY QuoteTypeCorrect, QuoteSplit, PTL

(* The split never fails and never takes more than the sender offered.     *)
THEOREM QuoteNeverOvercharges == Spec => []NeverOvercharged
  BY QuoteTypeCorrect, QuoteSplit, PTL

(* The conversion to shared decimals loses nothing of amount_received_ld.  *)
THEOREM QuoteHasNoDust == Spec => []NoDustOnTheWire
  BY QuoteTypeCorrect, QuoteSplit, PTL

(* No smaller transfer would leave the escrow with what was put on the     *)
(* wire and kept: the inverse fee rounds up by no more than it must.       *)
THEOREM QuoteIsLeast == Spec => []SentIsLeast
  BY QuoteTypeCorrect, QuoteSplit, PTL

(* The fee entries of quote_oft explain what does not arrive.              *)
THEOREM QuoteExplained == Spec => []QuoteAddsUp
  BY QuoteTypeCorrect, QuoteSplit, PTL

-----------------------------------------------------------------------------
(* The codecs.  What the widths of the fields are.                         *)
LEMMA Widths ==
    /\ ByteValues \in Nat \ {0} /\ Bytes \subseteq Nat /\ 0 \in Bytes
    /\ AddressLen \in Nat /\ AddressLen > 0 /\ U64Len \in Nat /\ U32Len \in Nat
  BY MsgCodecAssumption DEF Bytes, AddressLen, U64Len, U32Len

(* The literal offsets are where the fields end.                           *)
LEMMA Offsets ==
    /\ SEND_TO_OFFSET = 0 /\ SEND_AMOUNT_SD_OFFSET = AddressLen
    /\ COMPOSE_MSG_OFFSET = AddressLen + U64Len
    /\ NONCE_OFFSET = 0 /\ SRC_EID_OFFSET = U64Len
    /\ AMOUNT_LD_OFFSET = U64Len + U32Len
    /\ COMPOSE_FROM_OFFSET = U64Len + U32Len + U64Len
    /\ COMPOSED_MSG_OFFSET = U64Len + U32Len + U64Len + AddressLen
  BY DEF AddressLen, U64Len, U32Len, SEND_TO_OFFSET, SEND_AMOUNT_SD_OFFSET,
     COMPOSE_MSG_OFFSET, NONCE_OFFSET, SRC_EID_OFFSET, AMOUNT_LD_OFFSET,
     COMPOSE_FROM_OFFSET, COMPOSED_MSG_OFFSET

(* Division by the base of the bytes: a rest that is a byte, and a quotient.*)
LEMMA Division ==
    ASSUME NEW x \in Nat
    PROVE  /\ x \div ByteValues \in Nat /\ x % ByteValues \in Bytes
           /\ (x \div ByteValues) * ByteValues + (x % ByteValues) = x
<1>1. ByteValues \in Nat /\ ByteValues > 0
  BY MsgCodecAssumption
<1>2. x % ByteValues \in 0 .. ByteValues - 1
  BY <1>1
<1>3. x \div ByteValues \in Nat
  BY <1>1
<1>4. x = ByteValues * (x \div ByteValues) + (x % ByteValues)
  BY <1>1
<1>5. ByteValues * (x \div ByteValues) = (x \div ByteValues) * ByteValues
  BY <1>1, <1>3
<1> QED
  BY <1>2, <1>3, <1>4, <1>5 DEF Bytes

(* rest_of is a recursive function: its values by Recursion, and naturals. *)
LEMMA RestOf ==
    ASSUME NEW n \in Nat, NEW len \in Nat
    PROVE  /\ rest_of(n, len) \in [0 .. len -> Nat]
           /\ rest_of(n, len)[0] = n
           /\ \A k \in 1 .. len : rest_of(n, len)[k] = rest_of(n, len)[k - 1] \div ByteValues
<1> DEFINE Is(f) == f = [k \in 0 .. len |-> IF k = 0 THEN n ELSE f[k - 1] \div ByteValues]
           step == [k \in 1 .. len |-> [x \in Nat |-> x \div ByteValues]]
<1>1. ASSUME NEW k \in 1 .. len, NEW x \in Nat
      PROVE  step[k][x] = x \div ByteValues /\ x \div ByteValues \in Nat
  BY Widths
<1>2. PICK f \in [0 .. len -> Nat] :
           Runs(f, n, len, step)
  <2>1. Within(step, len, Nat)
    BY <1>1 DEF Within
  <2> HIDE DEF step
  <2> QED
    BY <2>1, Recursion
<1>3. \A k \in 1 .. len : f[k] = f[k - 1] \div ByteValues
  <2> SUFFICES ASSUME NEW k \in 1 .. len PROVE f[k] = f[k - 1] \div ByteValues
    OBVIOUS
  <2>1. f[k - 1] \in Nat /\ f[k] = step[k][f[k - 1]]
    BY <1>2 DEF Runs
  <2> HIDE DEF step
  <2> QED
    BY <1>1, <2>1
<1>4. Is(f)
  BY <1>2, <1>3 DEF Runs
<1>5. Is(CHOOSE g : Is(g))
  BY <1>4
<1> DEFINE r == CHOOSE g : Is(g)
<1>6. rest_of(n, len) = r
  BY DEF rest_of
<1>7. Is(r)
  BY <1>5
<1> HIDE DEF r
<1>8. r[0] = n /\ \A k \in 1 .. len : r[k] = r[k - 1] \div ByteValues
  BY <1>7
<1>9. \A k \in 0 .. len : r[k] \in Nat
  <2> DEFINE G == {k \in 0 .. len : r[k] \in Nat}
  <2>1. 0 \in G
    BY <1>8
  <2>2. ASSUME NEW k \in 1 .. len, k - 1 \in G PROVE k \in G
    <3>1. r[k - 1] \in Nat /\ r[k] = r[k - 1] \div ByteValues
      BY <1>8, <2>2
    <3>2. r[k] \in Nat
      BY <3>1, Division
    <3> QED
      BY <3>2
  <2> HIDE DEF G
  <2>3. \A k \in 0 .. len : k \in G
    BY <2>1, <2>2, CountingUpTo
  <2> QED
    BY <2>3 DEF G
<1>10. r \in [0 .. len -> Nat]
  BY <1>7, <1>9
<1> QED
  BY <1>6, <1>8, <1>10

(* value_of is a recursive function: its values by Recursion, and naturals.*)
LEMMA ValueOf ==
    ASSUME NEW bytes \in Seq(Bytes)
    PROVE  /\ value_of(bytes)[0] = 0
           /\ \A k \in 1 .. Len(bytes) :
                 value_of(bytes)[k] = value_of(bytes)[k - 1] * ByteValues + bytes[k]
<1> DEFINE len == Len(bytes)
           Is(f) == f = [k \in 0 .. len |->
                           IF k = 0 THEN 0 ELSE f[k - 1] * ByteValues + bytes[k]]
           step == [k \in 1 .. len |-> [x \in Nat |-> x * ByteValues + bytes[k]]]
<1>1. len \in Nat /\ \A k \in 1 .. len : bytes[k] \in Nat
  BY Widths, ElementOfSeq, LenProperties
<1> HIDE DEF len
<1>2. ASSUME NEW k \in 1 .. len, NEW x \in Nat
      PROVE  step[k][x] = x * ByteValues + bytes[k] /\ step[k][x] \in Nat
  <2>1. step[k][x] = x * ByteValues + bytes[k]
    OBVIOUS
  <2> HIDE DEF step
  <2>2. x * ByteValues \in Nat /\ bytes[k] \in Nat
    BY <1>1, Widths
  <2> QED
    BY <2>1, <2>2
<1>3. PICK f \in [0 .. len -> Nat] : Runs(f, 0, len, step)
  <2>1. Within(step, len, Nat)
    BY <1>2 DEF Within
  <2> HIDE DEF step
  <2> QED
    BY <1>1, <2>1, Recursion
<1>4. \A k \in 1 .. len : f[k] = f[k - 1] * ByteValues + bytes[k]
  <2> SUFFICES ASSUME NEW k \in 1 .. len PROVE f[k] = f[k - 1] * ByteValues + bytes[k]
    OBVIOUS
  <2>1. f[k - 1] \in Nat /\ f[k] = step[k][f[k - 1]]
    BY <1>1, <1>3 DEF Runs
  <2> HIDE DEF step
  <2> QED
    BY <1>2, <2>1
<1>5. Is(f)
  BY <1>3, <1>4 DEF Runs
<1>6. Is(CHOOSE g : Is(g))
  BY <1>5
<1> DEFINE v == CHOOSE g : Is(g)
<1>7. value_of(bytes) = v
  BY DEF value_of, len
<1>8. Is(v)
  BY <1>6
<1> HIDE DEF v
<1>9. v[0] = 0 /\ \A k \in 1 .. len : v[k] = v[k - 1] * ByteValues + bytes[k]
  BY <1>1, <1>8
<1> QED
  BY <1>7, <1>9 DEF len

(* The numbers of a width are counted by powers of ByteValues.             *)
LEMMA UnsignedOf ==
    ASSUME NEW len \in Nat
    PROVE  \E count \in [0 .. len -> Nat] :
              /\ unsigned(len) = 0 .. count[len] - 1
              /\ count[0] = 1
              /\ \A k \in 1 .. len : count[k] = count[k - 1] * ByteValues
<1> DEFINE Is(f) == f = [k \in 0 .. len |-> IF k = 0 THEN 1 ELSE f[k - 1] * ByteValues]
           step == [k \in 1 .. len |-> [x \in Nat |-> x * ByteValues]]
<1>1. ASSUME NEW k \in 1 .. len, NEW x \in Nat
      PROVE  step[k][x] = x * ByteValues /\ x * ByteValues \in Nat
  BY Widths
<1>2. PICK f \in [0 .. len -> Nat] : Runs(f, 1, len, step)
  <2>1. Within(step, len, Nat)
    BY <1>1 DEF Within
  <2> HIDE DEF step
  <2> QED
    BY <2>1, Recursion
<1>3. \A k \in 1 .. len : f[k] = f[k - 1] * ByteValues
  <2> SUFFICES ASSUME NEW k \in 1 .. len PROVE f[k] = f[k - 1] * ByteValues
    OBVIOUS
  <2>1. f[k - 1] \in Nat /\ f[k] = step[k][f[k - 1]]
    BY <1>2 DEF Runs
  <2> HIDE DEF step
  <2> QED
    BY <1>1, <2>1
<1>4. Is(f)
  BY <1>2, <1>3 DEF Runs
<1>5. Is(CHOOSE g : Is(g))
  BY <1>4
<1> DEFINE c == CHOOSE g : Is(g)
<1>6. unsigned(len) = 0 .. c[len] - 1
  BY DEF unsigned
<1>7. Is(c)
  BY <1>5
<1> HIDE DEF c
<1>8. c[0] = 1 /\ \A k \in 1 .. len : c[k] = c[k - 1] * ByteValues
  BY <1>7
<1>9. \A k \in 0 .. len : c[k] \in Nat
  <2> DEFINE G == {k \in 0 .. len : c[k] \in Nat}
  <2>1. 0 \in G
    BY <1>8
  <2>2. ASSUME NEW k \in 1 .. len, k - 1 \in G PROVE k \in G
    <3>1. c[k - 1] \in Nat /\ c[k] = c[k - 1] * ByteValues
      BY <1>8, <2>2
    <3>2. c[k] \in Nat
      BY <3>1, Widths
    <3> QED
      BY <3>2
  <2> HIDE DEF G
  <2>3. \A k \in 0 .. len : k \in G
    BY <2>1, <2>2, CountingUpTo
  <2> QED
    BY <2>3 DEF G
<1>10. c \in [0 .. len -> Nat]
  BY <1>7, <1>9
<1> QED
  BY <1>6, <1>8, <1>10

(* The numbers of a width are naturals.                                    *)
LEMMA UnsignedNat == ASSUME NEW len \in Nat PROVE unsigned(len) \subseteq Nat
<1>1. PICK count \in [0 .. len -> Nat] : unsigned(len) = 0 .. count[len] - 1
  BY UnsignedOf
<1>2. count[len] \in Nat
  OBVIOUS
<1> QED
  BY <1>1, <1>2

(* What is below c bases, divided by the base, is below c.                 *)
LEMMA DividedBelow ==
    ASSUME NEW x \in Nat, NEW c \in Nat, x < c * ByteValues
    PROVE  x \div ByteValues < c
<1>1. PICK q : q = x \div ByteValues
  OBVIOUS
<1>2. PICK r : r = x % ByteValues
  OBVIOUS
<1>3. q \in Nat /\ r \in Nat /\ q * ByteValues + r = x /\ ByteValues \in Nat
  BY <1>1, <1>2, Division, Widths
<1> SUFFICES ASSUME q >= c PROVE FALSE
  BY <1>1, <1>3
<1>4. q * ByteValues = c * ByteValues + (q - c) * ByteValues /\ (q - c) * ByteValues \in Nat
  BY <1>3
<1> QED
  BY <1>3, <1>4

(* Reading what was written: the number comes back from its bytes, and     *)
(* there are as many of them as the width.                                 *)
LEMMA BytesOf ==
    ASSUME NEW n \in Nat, NEW len \in Nat
    PROVE  to_be_bytes(n, len) \in Seq(Bytes) /\ Len(to_be_bytes(n, len)) = len
<1> DEFINE b == to_be_bytes(n, len)
<1>1. \A i \in 1 .. len : b[i] = rest_of(n, len)[len - i] % ByteValues
  BY DEF to_be_bytes
<1>2. ASSUME NEW i \in 1 .. len PROVE rest_of(n, len)[len - i] % ByteValues \in Bytes
  <2>1. rest_of(n, len)[len - i] \in Nat
    BY RestOf
  <2> QED
    BY <2>1, Division
<1>3. b \in [1 .. len -> Bytes]
  BY <1>2 DEF to_be_bytes
<1> HIDE DEF b
<1>4. b \in Seq(Bytes) /\ Len(b) = len
  BY <1>3, SeqDef, LenProperties
<1> QED
  BY <1>4 DEF b

(* Reading what was written gives the number back, up to the width.        *)
LEMMA RoundTrip ==
    ASSUME NEW len \in Nat, NEW n \in unsigned(len)
    PROVE  from_be_bytes(to_be_bytes(n, len)) = n
<1>1. PICK c \in [0 .. len -> Nat] :
           /\ unsigned(len) = 0 .. c[len] - 1
           /\ c[0] = 1
           /\ \A k \in 1 .. len : c[k] = c[k - 1] * ByteValues
  BY UnsignedOf
<1>2. n \in Nat /\ n < c[len]
  BY <1>1
<1> DEFINE r == rest_of(n, len)
           b == to_be_bytes(n, len)
           v == value_of(b)
<1>3. /\ r \in [0 .. len -> Nat] /\ r[0] = n
      /\ \A k \in 1 .. len : r[k] = r[k - 1] \div ByteValues
  BY <1>2, RestOf
<1>4. b \in Seq(Bytes) /\ Len(b) = len /\ \A i \in 1 .. len : b[i] = r[len - i] % ByteValues
  BY <1>2, BytesOf DEF to_be_bytes
<1> HIDE DEF r, b
<1>5. v[0] = 0 /\ \A k \in 1 .. len : v[k] = v[k - 1] * ByteValues + b[k]
  BY <1>4, ValueOf
<1>6. from_be_bytes(b) = v[len]
  BY <1>4 DEF from_be_bytes
<1> HIDE DEF v
<1>7. \A k \in 0 .. len : r[k] < c[len - k]
  <2> DEFINE G == {k \in 0 .. len : r[k] < c[len - k]}
  <2>1. 0 \in G
    BY <1>2, <1>3
  <2>2. ASSUME NEW k \in 1 .. len, k - 1 \in G PROVE k \in G
    <3>1. r[k - 1] < c[len - (k - 1)] /\ r[k - 1] \in Nat
      BY <1>3, <2>2
    <3>2. len - (k - 1) \in 1 .. len /\ len - (k - 1) - 1 = len - k /\ len - k \in 0 .. len
      OBVIOUS
    <3>3. c[len - (k - 1)] = c[len - k] * ByteValues /\ c[len - k] \in Nat
      BY <1>1, <3>2
    <3>4. r[k - 1] \div ByteValues < c[len - k]
      BY <3>1, <3>3, DividedBelow
    <3> QED
      BY <1>3, <3>4
  <2> HIDE DEF G
  <2>3. \A k \in 0 .. len : k \in G
    BY <2>1, <2>2, CountingUpTo
  <2> QED
    BY <2>3 DEF G
<1>8. r[len] = 0
  <2>1. r[len] < c[0] /\ r[len] \in Nat
    BY <1>3, <1>7
  <2> QED
    BY <1>1, <2>1
<1>9. \A k \in 0 .. len : v[k] = r[len - k]
  <2> DEFINE G == {k \in 0 .. len : v[k] = r[len - k]}
  <2>1. 0 \in G
    BY <1>5, <1>8
  <2>2. ASSUME NEW k \in 1 .. len, k - 1 \in G PROVE k \in G
    <3>1. v[k] = v[k - 1] * ByteValues + b[k] /\ v[k - 1] = r[len - (k - 1)]
      BY <1>5, <2>2
    <3>2. len - (k - 1) \in 1 .. len /\ len - (k - 1) - 1 = len - k /\ len - k \in 0 .. len
      OBVIOUS
    <3>3. r[len - (k - 1)] = r[len - k] \div ByteValues /\ r[len - k] \in Nat
      BY <1>3, <3>2
    <3>4. b[k] = r[len - k] % ByteValues
      BY <1>4
    <3>5. v[k] = (r[len - k] \div ByteValues) * ByteValues + (r[len - k] % ByteValues)
      BY <3>1, <3>3, <3>4
    <3>6. v[k] = r[len - k]
      BY <3>3, <3>5, Division
    <3> QED
      BY <3>6
  <2> HIDE DEF G
  <2>3. \A k \in 0 .. len : k \in G
    BY <2>1, <2>2, CountingUpTo
  <2> QED
    BY <2>3 DEF G
<1>10. v[len] = r[0]
  BY <1>9
<1> QED
  BY <1>3, <1>6, <1>10 DEF b

-----------------------------------------------------------------------------
(* A slice of the first or of the second of two messages in one.           *)
LEMMA SliceProperties ==
    ASSUME NEW S, NEW s \in Seq(S), NEW from \in Nat, NEW to \in Nat,
           from <= to, to <= Len(s)
    PROVE  /\ slice(s, from, to) \in Seq(S)
           /\ Len(slice(s, from, to)) = to - from
           /\ \A i \in 1 .. to - from : slice(s, from, to)[i] = s[from + i]
<1>1. Len(s) \in Nat /\ \A i \in from + 1 .. to : s[i] \in S
  <2>1. Len(s) \in Nat
    BY LenProperties
  <2>2. \A i \in from + 1 .. to : i \in 1 .. Len(s)
    BY <2>1
  <2> QED
    BY <2>1, <2>2, ElementOfSeq
<1> DEFINE b == SubSeq(s, from + 1, to)
<1>2. /\ b \in Seq(S)
      /\ Len(b) = IF from + 1 <= to THEN to - (from + 1) + 1 ELSE 0
      /\ \A i \in 1 .. to - (from + 1) + 1 : b[i] = s[from + 1 + i - 1]
  BY <1>1, SubSeqProperties
<1> HIDE DEF b
<1>3. Len(b) = to - from
  BY <1>2
<1>4. ASSUME NEW i \in 1 .. to - from PROVE b[i] = s[from + i]
  <2>1. i \in 1 .. to - (from + 1) + 1 /\ from + 1 + i - 1 = from + i
    OBVIOUS
  <2> QED
    BY <1>2, <2>1
<1> QED
  BY <1>2, <1>3, <1>4 DEF slice, b

(* A slice that ends in the first of two messages is a slice of it.        *)
LEMMA SliceInFirst ==
    ASSUME NEW S, NEW s \in Seq(S), NEW t \in Seq(S), NEW from \in Nat, NEW to \in Nat,
           from <= to, to <= Len(s)
    PROVE  slice(s \o t, from, to) = slice(s, from, to)
<1> DEFINE m == s \o t
<1>1. /\ m \in Seq(S) /\ Len(m) = Len(s) + Len(t) /\ Len(s) \in Nat /\ Len(t) \in Nat
      /\ \A i \in 1 .. Len(s) + Len(t) : m[i] = IF i <= Len(s) THEN s[i] ELSE t[i - Len(s)]
  BY ConcatProperties, LenProperties
<1> HIDE DEF m
<1>2. m \in Seq(S) /\ to <= Len(m)
  BY <1>1
<1>3. /\ slice(m, from, to) \in Seq(S) /\ Len(slice(m, from, to)) = to - from
      /\ \A i \in 1 .. to - from : slice(m, from, to)[i] = m[from + i]
  BY <1>2, SliceProperties
<1>4. /\ slice(s, from, to) \in Seq(S) /\ Len(slice(s, from, to)) = to - from
      /\ \A i \in 1 .. to - from : slice(s, from, to)[i] = s[from + i]
  BY SliceProperties
<1>5. ASSUME NEW i \in 1 .. to - from PROVE slice(m, from, to)[i] = slice(s, from, to)[i]
  <2>1. from + i \in 1 .. Len(s) + Len(t) /\ from + i <= Len(s)
    BY <1>1
  <2> QED
    BY <1>1, <1>3, <1>4, <2>1
<1>6. slice(m, from, to) = slice(s, from, to)
  BY <1>3, <1>4, <1>5, SeqEqual
<1> QED
  BY <1>6 DEF m

(* A slice that starts in the second of two messages is a slice of it.     *)
LEMMA SliceInSecond ==
    ASSUME NEW S, NEW s \in Seq(S), NEW t \in Seq(S), NEW from \in Nat, NEW to \in Nat,
           from <= to, to <= Len(t)
    PROVE  slice(s \o t, Len(s) + from, Len(s) + to) = slice(t, from, to)
<1> DEFINE m == s \o t
           f == Len(s) + from
           g == Len(s) + to
<1>1. /\ m \in Seq(S) /\ Len(m) = Len(s) + Len(t) /\ Len(s) \in Nat /\ Len(t) \in Nat
      /\ \A i \in 1 .. Len(s) + Len(t) : m[i] = IF i <= Len(s) THEN s[i] ELSE t[i - Len(s)]
  BY ConcatProperties, LenProperties
<1>2. /\ m \in Seq(S) /\ f \in Nat /\ g \in Nat /\ f <= g /\ g <= Len(m)
      /\ g - f = to - from
  BY <1>1
<1> HIDE DEF m
<1>3. /\ slice(m, f, g) \in Seq(S) /\ Len(slice(m, f, g)) = to - from
      /\ \A i \in 1 .. to - from : slice(m, f, g)[i] = m[f + i]
  <2> HIDE DEF f, g
  <2>1. /\ slice(m, f, g) \in Seq(S) /\ Len(slice(m, f, g)) = g - f
        /\ \A i \in 1 .. g - f : slice(m, f, g)[i] = m[f + i]
    BY <1>2, SliceProperties
  <2> QED
    BY <1>2, <2>1
<1>4. /\ slice(t, from, to) \in Seq(S) /\ Len(slice(t, from, to)) = to - from
      /\ \A i \in 1 .. to - from : slice(t, from, to)[i] = t[from + i]
  BY SliceProperties
<1>5. ASSUME NEW i \in 1 .. to - from PROVE slice(m, f, g)[i] = slice(t, from, to)[i]
  <2>1. /\ f + i \in 1 .. Len(s) + Len(t) /\ ~ (f + i <= Len(s))
        /\ f + i - Len(s) = from + i
    BY <1>1
  <2>2. m[f + i] = t[from + i]
    BY <1>1, <2>1
  <2> QED
    BY <1>3, <1>4, <2>2
<1> HIDE DEF f, g
<1>6. slice(m, f, g) = slice(t, from, to)
  BY <1>3, <1>4, <1>5, SeqEqual
<1> QED
  BY <1>6 DEF m, f, g

(* The slice of everything is the message.                                 *)
LEMMA SliceAll == ASSUME NEW S, NEW s \in Seq(S) PROVE slice(s, 0, Len(s)) = s
<1>1. SubSeq(s, 1, Len(s)) = s
  BY SubSeqFull
<1>2. 0 + 1 = 1
  OBVIOUS
<1> QED
  BY <1>1, <1>2 DEF slice

(* Two messages in one come apart at their border.                         *)
LEMMA Apart ==
    ASSUME NEW S, NEW s \in Seq(S), NEW t \in Seq(S)
    PROVE  /\ s \o t \in Seq(S) /\ Len(s \o t) = Len(s) + Len(t)
           /\ Len(s) \in Nat /\ Len(t) \in Nat
           /\ slice(s \o t, 0, Len(s)) = s
           /\ slice(s \o t, Len(s), Len(s) + Len(t)) = t
<1>1. /\ s \o t \in Seq(S) /\ Len(s \o t) = Len(s) + Len(t)
      /\ Len(s) \in Nat /\ Len(t) \in Nat
  BY ConcatProperties, LenProperties
<1>2. slice(s \o t, 0, Len(s)) = slice(s, 0, Len(s))
  BY <1>1, SliceInFirst
<1>3. slice(s \o t, Len(s) + 0, Len(s) + Len(t)) = slice(t, 0, Len(t))
  BY <1>1, SliceInSecond
<1>4. Len(s) + 0 = Len(s)
  BY <1>1
<1> QED
  BY <1>1, <1>2, <1>3, <1>4, SliceAll

-----------------------------------------------------------------------------
(* A key is a message of AddressLen bytes.                                 *)
LEMMA KeyIsBytes == ASSUME NEW k \in Addresses PROVE k \in Seq(Bytes) /\ Len(k) = AddressLen
  BY Widths, SeqDef, LenProperties DEF Addresses

(* What follows the amount on the wire, and the composed message in it.    *)
tail_of(sender, compose_msg) == IF compose_msg = <<>> THEN <<>> ELSE sender \o compose_msg[1]

Reads(m, to, n, sender, compose_msg) ==
    /\ Len(m) = COMPOSE_MSG_OFFSET + Len(tail_of(sender, compose_msg))
    /\ Len(tail_of(sender, compose_msg)) \in Nat
    /\ send_to_of(m) = to
    /\ n \in unsigned(U64Len) => amount_sd_of(m) = n
    /\ compose_msg_of(m) = IF compose_msg = <<>> THEN <<>>
                           ELSE <<sender \o compose_msg[1]>>

(* What encode of msg_codec writes is read back at its offsets.            *)
LEMMA WireIsRead ==
    ASSUME NEW to \in Addresses, NEW n \in Nat, NEW sender \in Addresses,
           NEW compose_msg \in Seq(Seq(Bytes)), Len(compose_msg) <= 1
    PROVE  Reads(encode(to, n, sender, compose_msg), to, n, sender, compose_msg)
<1> DEFINE b == to_be_bytes(n, U64Len)
           head == to \o b
           tail == tail_of(sender, compose_msg)
           m == head \o tail
<1>1. encode(to, n, sender, compose_msg) = m
  BY DEF encode, tail_of
<1>2. b \in Seq(Bytes) /\ Len(b) = U64Len
  BY Widths, BytesOf
<1>3. to \in Seq(Bytes) /\ Len(to) = AddressLen /\ sender \in Seq(Bytes) /\ Len(sender) = AddressLen
  BY KeyIsBytes
<1> HIDE DEF b
<1>4. /\ head \in Seq(Bytes) /\ Len(head) = AddressLen + U64Len
      /\ slice(head, 0, AddressLen) = to
      /\ slice(head, AddressLen, AddressLen + U64Len) = b
  <2>1. to \in Seq(Bytes) /\ b \in Seq(Bytes)
    BY <1>2, <1>3
  <2>2. to \o b \in Seq(Bytes)
    BY <2>1, Apart
  <2>3. Len(to \o b) = Len(to) + Len(b)
    BY <2>1, Apart
  <2>4. slice(to \o b, 0, Len(to)) = to
    BY <2>1, Apart
  <2>5. slice(to \o b, Len(to), Len(to) + Len(b)) = b
    BY <2>1, Apart
  <2>6. head = to \o b
    OBVIOUS
  <2> HIDE DEF head
  <2> QED
    BY <1>2, <1>3, <2>2, <2>3, <2>4, <2>5, <2>6
<1>5. ASSUME compose_msg # <<>>
      PROVE  /\ tail = sender \o compose_msg[1] /\ tail \in Seq(Bytes)
             /\ Len(tail) = AddressLen + Len(compose_msg[1]) /\ Len(compose_msg[1]) \in Nat
  <2>1. Len(compose_msg) \in Nat \ {0}
    BY <1>5, EmptySeq
  <2>2. 1 \in 1 .. Len(compose_msg)
    BY <2>1
  <2>3. compose_msg[1] \in Seq(Bytes)
    BY <2>2, ElementOfSeq
  <2>4. tail = sender \o compose_msg[1]
    BY <1>5 DEF tail_of
  <2>5. /\ sender \o compose_msg[1] \in Seq(Bytes)
        /\ Len(sender \o compose_msg[1]) = Len(sender) + Len(compose_msg[1])
        /\ Len(compose_msg[1]) \in Nat
    BY <1>3, <2>3, Apart
  <2> QED
    BY <1>3, <2>4, <2>5
<1>6. ASSUME compose_msg = <<>> PROVE tail = <<>> /\ tail \in Seq(Bytes) /\ Len(tail) = 0
  BY <1>6, EmptySeq DEF tail_of
<1>7. tail \in Seq(Bytes) /\ Len(tail) \in Nat
  BY <1>5, <1>6, LenProperties
<1> HIDE DEF head, tail
<1>8. /\ m \in Seq(Bytes) /\ Len(m) = AddressLen + U64Len + Len(tail)
      /\ slice(m, AddressLen + U64Len, AddressLen + U64Len + Len(tail)) = tail
  <2>1. head \in Seq(Bytes) /\ tail \in Seq(Bytes)
    BY <1>4, <1>7
  <2>2. head \o tail \in Seq(Bytes)
    BY <2>1, Apart
  <2>3. Len(head \o tail) = Len(head) + Len(tail)
    BY <2>1, Apart
  <2>4. slice(head \o tail, Len(head), Len(head) + Len(tail)) = tail
    BY <2>1, Apart
  <2>5. m = head \o tail
    OBVIOUS
  <2> HIDE DEF m
  <2> QED
    BY <1>4, <2>2, <2>3, <2>4, <2>5
<1>9. /\ slice(m, 0, AddressLen) = to
      /\ slice(m, AddressLen, AddressLen + U64Len) = b
  <2>1. slice(m, 0, AddressLen) = slice(head, 0, AddressLen)
    BY <1>4, <1>7, Widths, SliceInFirst
  <2>2. slice(m, AddressLen, AddressLen + U64Len) = slice(head, AddressLen, AddressLen + U64Len)
    BY <1>4, <1>7, Widths, SliceInFirst
  <2> QED
    BY <1>4, <2>1, <2>2
<1> HIDE DEF m
<1>10. send_to_of(m) = to /\ (n \in unsigned(U64Len) => amount_sd_of(m) = n)
  <2>1. send_to_of(m) = to /\ amount_sd_of(m) = from_be_bytes(b)
    BY <1>9, Offsets DEF send_to_of, amount_sd_of
  <2>2. n \in unsigned(U64Len) => from_be_bytes(b) = n
    BY Widths, RoundTrip DEF b
  <2> QED
    BY <2>1, <2>2
<1>11. compose_msg_of(m) = IF compose_msg = <<>> THEN <<>> ELSE <<sender \o compose_msg[1]>>
  <2>1. compose_msg_of(m) = IF Len(m) > AddressLen + U64Len
                              THEN <<slice(m, AddressLen + U64Len, Len(m))>> ELSE <<>>
    BY Offsets DEF compose_msg_of
  <2>2. CASE compose_msg = <<>>
    <3>1. ~ (Len(m) > AddressLen + U64Len)
      BY <1>6, <1>8, <2>2, Widths
    <3> QED
      BY <2>1, <2>2, <3>1
  <2>3. CASE compose_msg # <<>>
    <3>1. Len(m) > AddressLen + U64Len
      BY <1>5, <1>8, <2>3, Widths
    <3>2. slice(m, AddressLen + U64Len, Len(m)) = tail
      BY <1>8
    <3> QED
      BY <1>5, <2>1, <2>3, <3>1, <3>2
  <2> QED
    BY <2>2, <2>3
<1> QED
  BY <1>1, <1>7, <1>8, <1>10, <1>11, Offsets DEF Reads, tail

(* A message holds a part from an offset on.                               *)
Holds(m, from, part) == /\ from \in Nat /\ from + Len(part) <= Len(m)
                        /\ slice(m, from, from + Len(part)) = part

(* A part that is held is still held when more bytes follow.               *)
LEMMA HoldsMore ==
    ASSUME NEW s \in Seq(Bytes), NEW t \in Seq(Bytes), NEW part \in Seq(Bytes), NEW from,
           Holds(s, from, part)
    PROVE  Holds(s \o t, from, part)
<1>1. /\ from \in Nat /\ from + Len(part) <= Len(s)
      /\ slice(s, from, from + Len(part)) = part
  BY DEF Holds
<1>2. Len(part) \in Nat /\ Len(s) \in Nat /\ Len(t) \in Nat
  BY LenProperties
<1>3. Len(s \o t) = Len(s) + Len(t)
  BY Apart
<1>4. PICK to \in Nat : to = from + Len(part) /\ from <= to /\ to <= Len(s)
  BY <1>1, <1>2
<1>5. slice(s \o t, from, to) = slice(s, from, to)
  BY <1>1, <1>4, SliceInFirst
<1>6. to <= Len(s \o t)
  BY <1>2, <1>3, <1>4
<1> QED
  BY <1>1, <1>4, <1>5, <1>6 DEF Holds

(* The bytes that follow are held from the old length on.                  *)
LEMMA HoldsLast ==
    ASSUME NEW s \in Seq(Bytes), NEW t \in Seq(Bytes)
    PROVE  Holds(s \o t, Len(s), t)
<1>1. Len(s \o t) = Len(s) + Len(t)
  BY Apart
<1>2. slice(s \o t, Len(s), Len(s) + Len(t)) = t
  BY Apart
<1>3. Len(s) \in Nat /\ Len(t) \in Nat
  BY LenProperties
<1> QED
  BY <1>1, <1>2, <1>3 DEF Holds

(* A message holds itself.                                                 *)
LEMMA HoldsAll == ASSUME NEW s \in Seq(Bytes) PROVE Holds(s, 0, s)
<1>1. Len(s) \in Nat /\ 0 + Len(s) = Len(s)
  BY LenProperties
<1>2. slice(s, 0, Len(s)) = s
  BY SliceAll
<1> QED
  BY <1>1, <1>2 DEF Holds

(* Bytes after bytes are bytes.                                            *)
LEMMA JoinedBytes ==
    ASSUME NEW s \in Seq(Bytes), NEW t \in Seq(Bytes)
    PROVE  s \o t \in Seq(Bytes) /\ Len(s \o t) = Len(s) + Len(t)
           /\ Len(s) \in Nat /\ Len(t) \in Nat
  BY Apart, LenProperties

(* Five parts in one, found again at their offsets.                        *)
FiveParts(m, a, b, c, d, e) ==
    /\ Len(m) = Len(a) + Len(b) + Len(c) + Len(d) + Len(e)
    /\ Holds(m, 0, a) /\ Holds(m, Len(a), b)
    /\ Holds(m, Len(a) + Len(b), c) /\ Holds(m, Len(a) + Len(b) + Len(c), d)
    /\ Holds(m, Len(a) + Len(b) + Len(c) + Len(d), e)

(* The parts of a message put together one after the other.                *)
LEMMA FivePartsHeld ==
    ASSUME NEW a \in Seq(Bytes), NEW b \in Seq(Bytes), NEW c \in Seq(Bytes),
           NEW d \in Seq(Bytes), NEW e \in Seq(Bytes),
           NEW ab, ab = a \o b, NEW abc, abc = ab \o c, NEW abcd, abcd = abc \o d,
           NEW m, m = abcd \o e
    PROVE  FiveParts(m, a, b, c, d, e)
<1>1. ab \in Seq(Bytes) /\ Len(ab) = Len(a) + Len(b)
  BY JoinedBytes
<1>2. abc \in Seq(Bytes) /\ Len(abc) = Len(a) + Len(b) + Len(c)
  BY <1>1, JoinedBytes
<1>3. abcd \in Seq(Bytes) /\ Len(abcd) = Len(a) + Len(b) + Len(c) + Len(d)
  BY <1>2, JoinedBytes
<1>4. Len(m) = Len(a) + Len(b) + Len(c) + Len(d) + Len(e)
  BY <1>3, JoinedBytes
<1>5. Holds(ab, 0, a)
  BY HoldsAll, HoldsMore
<1>6. Holds(ab, Len(a), b)
  BY HoldsLast
<1>7. Holds(abc, 0, a) /\ Holds(abc, Len(a), b)
  BY <1>1, <1>5, <1>6, HoldsMore
<1>8. Holds(abc, Len(a) + Len(b), c)
  <2>1. Holds(abc, Len(ab), c)
    BY <1>1, HoldsLast
  <2> QED
    BY <1>1, <2>1
<1>9. Holds(abcd, 0, a) /\ Holds(abcd, Len(a), b) /\ Holds(abcd, Len(a) + Len(b), c)
  BY <1>2, <1>7, <1>8, HoldsMore
<1>10. Holds(abcd, Len(a) + Len(b) + Len(c), d)
  <2>1. Holds(abcd, Len(abc), d)
    BY <1>2, HoldsLast
  <2> QED
    BY <1>2, <2>1
<1>11. /\ Holds(m, 0, a) /\ Holds(m, Len(a), b) /\ Holds(m, Len(a) + Len(b), c)
       /\ Holds(m, Len(a) + Len(b) + Len(c), d)
  BY <1>3, <1>9, <1>10, HoldsMore
<1>12. Holds(m, Len(a) + Len(b) + Len(c) + Len(d), e)
  <2>1. Holds(m, Len(abcd), e)
    BY <1>3, HoldsLast
  <2> QED
    BY <1>3, <2>1
<1> QED
  BY <1>4, <1>11, <1>12 DEF FiveParts

(* What encode of compose_msg_codec writes is read back at its offsets.    *)
LEMMA ComposedIsRead ==
    ASSUME NEW nonce \in Nat, NEW src_eid \in Nat, NEW amount \in Nat,
           NEW sender \in Addresses, NEW msg \in Seq(Bytes)
    PROVE  LET m == encode_composed(nonce, src_eid, amount, sender \o msg)
           IN  /\ nonce \in unsigned(U64Len) => nonce_of(m) = nonce
               /\ src_eid \in unsigned(U32Len) => src_eid_of(m) = src_eid
               /\ amount \in unsigned(U64Len) => amount_ld_of(m) = amount
               /\ compose_from_of(m) = sender
               /\ composed_msg_of(m) = msg
<1>1. PICK a : a = to_be_bytes(nonce, U64Len)
  OBVIOUS
<1>2. PICK b : b = to_be_bytes(src_eid, U32Len)
  OBVIOUS
<1>3. PICK c : c = to_be_bytes(amount, U64Len)
  OBVIOUS
<1>4. /\ a \in Seq(Bytes) /\ Len(a) = U64Len /\ b \in Seq(Bytes) /\ Len(b) = U32Len
      /\ c \in Seq(Bytes) /\ Len(c) = U64Len
  BY <1>1, <1>2, <1>3, Widths, BytesOf
<1>5. sender \in Seq(Bytes) /\ Len(sender) = AddressLen
  BY KeyIsBytes
<1>6. PICK ab : ab = a \o b
  OBVIOUS
<1>7. PICK abc : abc = ab \o c
  OBVIOUS
<1>8. PICK abcd : abcd = abc \o sender
  OBVIOUS
<1>9. PICK m : m = abcd \o msg
  OBVIOUS
<1>10. encode_composed(nonce, src_eid, amount, sender \o msg) = m
  <2>1. ab \in Seq(Bytes)
    BY <1>4, <1>6, JoinedBytes
  <2>2. abc \in Seq(Bytes)
    BY <1>4, <1>7, <2>1, JoinedBytes
  <2>3. (abc \o sender) \o msg = abc \o (sender \o msg)
    BY <1>5, <2>2, ConcatAssociative
  <2>4. encode_composed(nonce, src_eid, amount, sender \o msg) = abc \o (sender \o msg)
    BY <1>1, <1>2, <1>3, <1>6, <1>7 DEF encode_composed
  <2> QED
    BY <1>8, <1>9, <2>3, <2>4
<1>11. FiveParts(m, a, b, c, sender, msg)
  BY <1>4, <1>5, <1>6, <1>7, <1>8, <1>9, FivePartsHeld
<1>12. Len(msg) \in Nat
  BY LenProperties
<1>13. Len(m) = U64Len + U32Len + U64Len + AddressLen + Len(msg)
  BY <1>4, <1>5, <1>11 DEF FiveParts
<1>14. /\ slice(m, 0, 0 + U64Len) = a /\ slice(m, U64Len, U64Len + U32Len) = b
       /\ slice(m, U64Len + U32Len, U64Len + U32Len + U64Len) = c
       /\ slice(m, U64Len + U32Len + U64Len, U64Len + U32Len + U64Len + AddressLen) = sender
       /\ slice(m, U64Len + U32Len + U64Len + AddressLen, Len(m)) = msg
  BY <1>4, <1>5, <1>11, <1>13 DEF FiveParts, Holds
<1>15. /\ nonce_of(m) = from_be_bytes(a) /\ src_eid_of(m) = from_be_bytes(b)
       /\ amount_ld_of(m) = from_be_bytes(c) /\ compose_from_of(m) = sender
  <2>1. 0 + U64Len = U64Len
    BY Widths
  <2> QED
    BY <1>14, <2>1, Offsets DEF nonce_of, src_eid_of, amount_ld_of, compose_from_of
<1>16. composed_msg_of(m) = msg
  <2>1. PICK D \in Nat : D = U64Len + U32Len + U64Len + AddressLen
    BY Widths
  <2>2. composed_msg_of(m) = IF Len(m) > D THEN slice(m, D, Len(m)) ELSE <<>>
    BY <2>1, Offsets DEF composed_msg_of
  <2>3. Len(m) = D + Len(msg) /\ slice(m, D, Len(m)) = msg
    BY <1>13, <1>14, <2>1
  <2>4. CASE Len(msg) = 0
    <3>1. msg = <<>>
      BY <2>4, EmptySeq
    <3>2. ~ (Len(m) > D)
      BY <2>1, <2>3, <2>4
    <3> QED
      BY <2>2, <3>1, <3>2
  <2>5. CASE Len(msg) # 0
    <3>1. Len(m) > D
      BY <1>12, <2>1, <2>3, <2>5
    <3> QED
      BY <2>2, <2>3, <3>1
  <2> QED
    BY <2>4, <2>5
<1>17. /\ nonce \in unsigned(U64Len) => from_be_bytes(a) = nonce
       /\ src_eid \in unsigned(U32Len) => from_be_bytes(b) = src_eid
       /\ amount \in unsigned(U64Len) => from_be_bytes(c) = amount
  BY <1>1, <1>2, <1>3, Widths, RoundTrip
<1> QED
  BY <1>10, <1>15, <1>16, <1>17

-----------------------------------------------------------------------------
(* Some(x) is not None.                                                    *)
LEMMA SomeIsNotNone == ASSUME NEW x PROVE <<x>> # <<>>
<1>1. Len(<<x>>) = 1 /\ Len(<<>>) = 0
  OBVIOUS
<1> QED
  BY <1>1

(* Who signs makes no difference to the length.                            *)
LEMMA TailLength ==
    ASSUME NEW k \in Addresses, NEW l \in Addresses, NEW compose_msg \in Seq(Seq(Bytes))
    PROVE  Len(tail_of(k, compose_msg)) = Len(tail_of(l, compose_msg))
<1>1. CASE compose_msg = <<>>
  BY <1>1 DEF tail_of
<1>2. CASE compose_msg # <<>>
  <2>1. Len(compose_msg) \in Nat \ {0}
    BY <1>2, EmptySeq
  <2>2. 1 \in 1 .. Len(compose_msg)
    BY <2>1
  <2>3. compose_msg[1] \in Seq(Bytes)
    BY <2>2, ElementOfSeq
  <2>4. Len(k \o compose_msg[1]) = Len(k) + Len(compose_msg[1])
    BY <2>3, KeyIsBytes, Apart
  <2>5. Len(l \o compose_msg[1]) = Len(l) + Len(compose_msg[1])
    BY <2>3, KeyIsBytes, Apart
  <2>6. Len(k) = Len(l)
    BY KeyIsBytes
  <2> QED
    BY <1>2, <2>4, <2>5, <2>6 DEF tail_of
<1> QED
  BY <1>1, <1>2

(* What a message is at every stage: the call is one, the quote stands for *)
(* the options it read, what was sent is the encoded call with the options *)
(* enforced now, and what was composed is the signer and its composed part.*)
Wired == sent = [message |-> encode(call.to, call.amount_sd, call.signer, call.compose_msg),
                 options |-> combine_options(call.compose_msg, call.options)]

kind_of(enforced, compose_msg) ==
    IF compose_msg = <<>> THEN enforced.send ELSE enforced.send_and_call

Quoted == \A i \in DOMAIN quote :
             /\ quote[i].message = quoted(call)
             /\ quote[i].options = kind_of(quote[i].read, call.compose_msg) \o call.options

Composed ==
    /\ received.composed # <<>> =>
          received.nonce \in Nonces /\ received.src_eid \in SrcEids
            /\ received.amount_ld \in Quantities
    /\ \A i \in DOMAIN received.composed :
          /\ call.compose_msg # <<>>
          /\ received.composed[i] = encode_composed(received.nonce, received.src_eid,
                 received.amount_ld, call.signer \o call.compose_msg[1])

MessageInv ==
    /\ call \in Calls
    /\ stage \in {"start", "sent", "received"}
    /\ stage # "start" => Wired
    /\ Quoted
    /\ Composed

(* Every call names a key, a key that signs, a u64 and at most one message.*)
LEMMA CallProperties ==
    ASSUME call \in Calls
    PROVE  /\ call.to \in Addresses /\ call.signer \in Addresses /\ DefaultKey \in Addresses
           /\ call.amount_sd \in unsigned(U64Len) /\ call.amount_sd \in Nat
           /\ call.amount_received_ld \in Nat
           /\ call.compose_msg \in Seq(Seq(Bytes)) /\ Len(call.compose_msg) <= 1
<1>1. /\ call.to \in Addresses /\ call.signer \in Addresses
      /\ call.amount_sd \in Quantities /\ call.amount_received_ld \in Quantities
      /\ call.compose_msg \in ComposeMsgs
  BY MessagesAssumption DEF Calls
<1>2. unsigned(U64Len) \subseteq Nat
  BY Widths, UnsignedNat
<1>3. DefaultKey \in Addresses
  BY Widths DEF DefaultKey, Addresses
<1> QED
  BY <1>1, <1>2, <1>3, MessagesAssumption

(* What the receiving side finds in the message of a call.                 *)
LEMMA WiredIsRead ==
    ASSUME call \in Calls, Wired
    PROVE  /\ Len(sent.message) = COMPOSE_MSG_OFFSET + Len(tail_of(call.signer, call.compose_msg))
           /\ Len(tail_of(call.signer, call.compose_msg)) \in Nat
           /\ send_to_of(sent.message) = call.to
           /\ amount_sd_of(sent.message) = call.amount_sd
           /\ compose_msg_of(sent.message) =
                 IF call.compose_msg = <<>> THEN <<>>
                 ELSE <<call.signer \o call.compose_msg[1]>>
<1>1. sent.message = encode(call.to, call.amount_sd, call.signer, call.compose_msg)
  BY DEF Wired
<1>2. Reads(sent.message, call.to, call.amount_sd, call.signer, call.compose_msg)
  BY <1>1, CallProperties, WireIsRead
<1> QED
  BY <1>2, CallProperties DEF Reads

(* Before the quote nothing is sent and nothing received.                  *)
LEMMA MessageInvInit == MessagesInit => MessageInv
  BY DEF MessagesInit, MessageInv, Wired, Quoted, Composed

(* One step per handler.                                                   *)
LEMMA MessageInvNext == MessageInv /\ [MessagesNext]_transfer => MessageInv'
<1> SUFFICES ASSUME MessageInv, [MessagesNext]_transfer PROVE MessageInv'
  OBVIOUS
<1>1. CASE QuoteSend
  <2>1. /\ quote' = <<[message |-> quoted(call),
                        options |-> combine_options(call.compose_msg, call.options),
                        read |-> enforced_options]>>
        /\ call' = call
    BY <1>1 DEF QuoteSend
  <2>2. \A i \in DOMAIN quote' :
           quote'[i] = [message |-> quoted(call),
                        options |-> combine_options(call.compose_msg, call.options),
                        read |-> enforced_options]
    BY <2>1
  <2>3. combine_options(call.compose_msg, call.options)
           = kind_of(enforced_options, call.compose_msg) \o call.options
    BY DEF combine_options, get_enforced_options, kind_of
  <2>4. quoted(call)' = quoted(call)
    BY <2>1 DEF quoted
  <2>5. Quoted'
    <3>1. ASSUME NEW i \in DOMAIN quote'
          PROVE  /\ quote'[i].message = quoted(call)
                 /\ quote'[i].read = enforced_options
                 /\ quote'[i].options = combine_options(call.compose_msg, call.options)
      BY <2>2
    <3> QED
      BY <2>1, <2>3, <2>4, <3>1 DEF Quoted, kind_of
  <2> QED
    BY <1>1, <2>5 DEF QuoteSend, MessageInv, Composed
<1>2. CASE SetEnforcedOptions
  BY <1>2 DEF SetEnforcedOptions, MessageInv, Quoted, kind_of, quoted, Composed
<1>3. CASE Send
  <2>1. Wired'
    BY <1>3 DEF Send, Wired, combine_options, get_enforced_options
  <2>2. Quoted'
    BY <1>3 DEF MessageInv, Send, Quoted, kind_of, quoted
  <2> QED
    BY <1>3, <2>1, <2>2 DEF Send, MessageInv, Composed
<1>4. CASE LzReceive
  <2>1. Wired /\ call \in Calls
    BY <1>4 DEF LzReceive, MessageInv
  <2>2. compose_msg_of(sent.message) = IF call.compose_msg = <<>> THEN <<>>
                                       ELSE <<call.signer \o call.compose_msg[1]>>
    BY <2>1, WiredIsRead
  <2>3. Composed'
    <3>1. PICK amount \in Quantities, nonce \in Nonces, src_eid \in SrcEids :
             received' = [amount_ld |-> amount, nonce |-> nonce, src_eid |-> src_eid,
                          composed |->
                            IF compose_msg_of(sent.message) = <<>> THEN <<>>
                            ELSE <<encode_composed(nonce, src_eid, amount,
                                                   compose_msg_of(sent.message)[1])>>]
      BY <1>4 DEF LzReceive
    <3>2. call' = call
      BY <1>4 DEF LzReceive
    <3>3. CASE call.compose_msg = <<>>
      <4>1. received'.composed = <<>>
        BY <2>2, <3>1, <3>3
      <4> QED
        BY <4>1 DEF Composed
    <3>4. CASE call.compose_msg # <<>>
      <4>1. /\ compose_msg_of(sent.message) # <<>>
            /\ compose_msg_of(sent.message)[1] = call.signer \o call.compose_msg[1]
        <5>1. PICK x : x = call.signer \o call.compose_msg[1]
          OBVIOUS
        <5>2. compose_msg_of(sent.message) = <<x>>
          BY <2>2, <3>4, <5>1
        <5>3. <<x>> # <<>> /\ <<x>>[1] = x
          BY SomeIsNotNone
        <5> QED
          BY <5>1, <5>2, <5>3
      <4>2. received'.composed = <<encode_composed(nonce, src_eid, amount,
                                     call.signer \o call.compose_msg[1])>>
        BY <3>1, <4>1
      <4>3. /\ received'.nonce = nonce /\ received'.src_eid = src_eid
            /\ received'.amount_ld = amount
        BY <3>1
      <4> QED
        BY <3>2, <3>4, <4>2, <4>3 DEF Composed
    <3> QED
      BY <3>3, <3>4
  <2>4. Wired' /\ Quoted'
    BY <1>4, <2>1 DEF LzReceive, MessageInv, Wired, Quoted, kind_of, combine_options,
       get_enforced_options, quoted
  <2> QED
    BY <1>4, <2>1, <2>3, <2>4 DEF LzReceive, MessageInv
<1>5. CASE UNCHANGED transfer
  BY <1>5 DEF transfer, MessageInv, Wired, Quoted, kind_of, Composed, combine_options,
     get_enforced_options, quoted
<1> QED
  BY <1>1, <1>2, <1>3, <1>4, <1>5 DEF MessagesNext

(* At every stage of the call.                                             *)
LEMMA MessageInvAlways == MessagesSpec => []MessageInv
  BY MessageInvInit, MessageInvNext, PTL DEF MessagesSpec

(* The receiving side reads the address, the amount, and a composed        *)
(* message headed by the signer exactly when one was passed, whatever the  *)
(* widths and the bytes: what msg_codec writes it reads back.              *)
THEOREM MessageAlwaysRead == MessagesSpec => []MessageIsRead
<1>1. MessageInv => MessageIsRead
  <2> SUFFICES ASSUME MessageInv, stage \in {"sent", "received"} PROVE MessageIsRead
    BY DEF MessageIsRead
  <2>1. call \in Calls /\ Wired
    BY DEF MessageInv
  <2>2. COMPOSE_MSG_OFFSET \in Nat
    BY Widths, Offsets
  <2>3. Len(sent.message) >= COMPOSE_MSG_OFFSET
    BY <2>1, <2>2, WiredIsRead
  <2> QED
    BY <2>1, <2>3, WiredIsRead DEF MessageIsRead
<1> QED
  BY <1>1, MessageInvAlways, PTL

(* The composer reads the nonce, the chain, the amount credited and the    *)
(* sender at its offsets, and the composed message behind them, an empty   *)
(* one too: what compose_msg_codec writes it reads back.                   *)
THEOREM ComposerAlwaysReads == MessagesSpec => []ComposerReads
<1>1. MessageInv => ComposerReads
  <2> SUFFICES ASSUME MessageInv, NEW i \in DOMAIN received.composed
               PROVE  LET message == received.composed[i]
                      IN  /\ nonce_of(message) = received.nonce
                          /\ src_eid_of(message) = received.src_eid
                          /\ amount_ld_of(message) = received.amount_ld
                          /\ compose_from_of(message) = call.signer
                          /\ composed_msg_of(message) = call.compose_msg[1]
    BY DEF ComposerReads
  <2>1. received.composed # <<>>
    OBVIOUS
  <2>2. /\ received.nonce \in unsigned(U64Len) /\ received.src_eid \in unsigned(U32Len)
        /\ received.amount_ld \in unsigned(U64Len)
    BY <2>1, MessagesAssumption DEF MessageInv, Composed
  <2>3. unsigned(U64Len) \subseteq Nat /\ unsigned(U32Len) \subseteq Nat
    BY Widths, UnsignedNat
  <2>4. /\ call.signer \in Addresses /\ call.compose_msg \in Seq(Seq(Bytes))
        /\ call.compose_msg # <<>>
    BY CallProperties DEF MessageInv, Composed
  <2>5. call.compose_msg[1] \in Seq(Bytes)
    <3>1. Len(call.compose_msg) \in Nat \ {0}
      BY <2>4, EmptySeq
    <3>2. 1 \in 1 .. Len(call.compose_msg)
      BY <3>1
    <3> QED
      BY <2>4, <3>2, ElementOfSeq
  <2>6. received.composed[i] = encode_composed(received.nonce, received.src_eid,
           received.amount_ld, call.signer \o call.compose_msg[1])
    BY DEF MessageInv, Composed
  <2> QED
    BY <2>2, <2>3, <2>4, <2>5, <2>6, ComposedIsRead
<1> QED
  BY <1>1, MessageInvAlways, PTL

(* The options paid for are of the kind of message the other side will     *)
(* see, because the length tells the two kinds apart without fail.         *)
THEOREM OptionsAlwaysFit == MessagesSpec => []OptionsFitMessage
<1>1. MessageInv => OptionsFitMessage
  <2> SUFFICES ASSUME MessageInv, stage = "sent" PROVE OptionsFitMessage
    BY DEF OptionsFitMessage
  <2>1. call \in Calls /\ Wired
    BY DEF MessageInv
  <2>2. compose_msg_of(sent.message) = <<>> <=> call.compose_msg = <<>>
    BY <2>1, WiredIsRead, SomeIsNotNone
  <2>3. sent.options = get_enforced_options(call.compose_msg) \o call.options
    BY <2>1 DEF Wired, combine_options
  <2> QED
    BY <2>2, <2>3 DEF OptionsFitMessage, get_enforced_options
<1> QED
  BY <1>1, MessageInvAlways, PTL

(* A quote, however old, priced a message of the sent one's length, and the *)
(* options sent unless the admin has changed what is enforced for messages *)
(* of its kind; changing the other kind's leaves it right.                 *)
THEOREM QuoteAlwaysSend == MessagesSpec => []QuoteIsSend
<1>1. MessageInv => QuoteIsSend
  <2> SUFFICES ASSUME MessageInv, stage = "sent", NEW i \in DOMAIN quote
               PROVE  /\ Len(quote[i].message) = Len(sent.message)
                      /\ \/ quote[i].options = sent.options
                         \/ IF compose_msg_of(sent.message) = <<>>
                              THEN quote[i].read.send # enforced_options.send
                              ELSE quote[i].read.send_and_call
                                     # enforced_options.send_and_call
    BY DEF QuoteIsSend
  <2>1. call \in Calls /\ Wired
    BY DEF MessageInv
  <2>2. /\ quote[i].message = encode(call.to, call.amount_received_ld, DefaultKey,
                                     call.compose_msg)
        /\ quote[i].options = kind_of(quote[i].read, call.compose_msg) \o call.options
    BY DEF MessageInv, Quoted, quoted
  <2>3. sent.options = kind_of(enforced_options, call.compose_msg) \o call.options
    BY <2>1 DEF Wired, combine_options, get_enforced_options, kind_of
  <2>4. Len(quote[i].message)
          = COMPOSE_MSG_OFFSET + Len(tail_of(DefaultKey, call.compose_msg))
    <3>1. Reads(quote[i].message, call.to, call.amount_received_ld, DefaultKey,
                call.compose_msg)
      BY <2>1, <2>2, CallProperties, WireIsRead
    <3> QED
      BY <3>1 DEF Reads
  <2>5. Len(sent.message) = COMPOSE_MSG_OFFSET + Len(tail_of(call.signer, call.compose_msg))
    BY <2>1, WiredIsRead
  <2>6. Len(tail_of(DefaultKey, call.compose_msg)) = Len(tail_of(call.signer, call.compose_msg))
    BY <2>1, CallProperties, TailLength
  <2>7. compose_msg_of(sent.message) = <<>> <=> call.compose_msg = <<>>
    BY <2>1, WiredIsRead, SomeIsNotNone
  <2>8. kind_of(quote[i].read, call.compose_msg) = kind_of(enforced_options, call.compose_msg)
          => quote[i].options = sent.options
    BY <2>2, <2>3
  <2> QED
    BY <2>4, <2>5, <2>6, <2>7, <2>8 DEF kind_of
<1> QED
  BY <1>1, MessageInvAlways, PTL

=============================================================================
