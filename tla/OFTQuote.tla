------------------------------ MODULE OFTQuote ------------------------------
(***************************************************************************)
(* The amount split of OFTMath over every input a caller can give it: the  *)
(* state is one call of compute_fee_and_adjust_amount, the steps walk      *)
(* through the amounts.  The properties are what send, quote_send and      *)
(* quote_oft silently rely on.                                             *)
(***************************************************************************)
EXTENDS OFTMath

CONSTANTS
    Ld2sdRates,         \* the ld2sd_rate values to try
    TransferFees,       \* the transfer fees to try, a subset of TransferFee
    FeeBps              \* the default_fee_bps values to try

ASSUME OFTQuoteAssumption ==
    /\ Ld2sdRates \subseteq Nat \ {0}
    /\ TransferFees \subseteq TransferFee
    /\ FeeBps \subseteq 0 .. OneInBasisPoints - 1

VARIABLES
    amount_ld,          \* params.amount_ld
    config              \* the oft_store, peer and mint fields that are read

vars == <<amount_ld, config>>

Configs == [oft_type: {"Adapter", "Native"}, ld2sd_rate: Ld2sdRates,
            fee: TransferFees, default_fee_bps: FeeBps,
            fee_bps: FeeBps \cup {None}]

Amounts == compute_fee_and_adjust_amount(amount_ld, config.oft_type,
             config.ld2sd_rate, config.fee, config.default_fee_bps, config.fee_bps)

(* Mutant: the first entry is all that does not arrive.                    *)
details_overlapping(a) ==
    [transfer_fee_ld |-> a.amount_sent_ld - a.amount_received_ld,
     cross_chain_fee_ld |-> a.oft_fee_ld]

(* The oft_fee_details of quote_oft, 0 for an entry that is left out.      *)
oft_fee_details(a) ==
    [transfer_fee_ld |-> IF a.amount_received_ld + a.oft_fee_ld < a.amount_sent_ld
                           THEN a.amount_sent_ld - a.oft_fee_ld - a.amount_received_ld
                           ELSE 0,
     cross_chain_fee_ld |-> a.oft_fee_ld]

Init == amount_ld = 0 /\ config \in Configs

NextAmount == /\ amount_ld < U64Max
              /\ amount_ld' = amount_ld + 1
              /\ UNCHANGED config

Next == NextAmount

Spec == Init /\ [][Next]_vars

-----------------------------------------------------------------------------
TypeOK == amount_ld \in U64 /\ config \in Configs

(* What the token program credits the escrow with when amount_sent_ld is   *)
(* transferred is exactly the part put on the wire plus the OFT fee: the   *)
(* copied inverse fee computation ("DO NOT CHANGE THIS CODE") agrees with  *)
(* the fee the token program withholds, rounding and cap included.         *)
EscrowIsFunded ==
    config.oft_type = "Adapter" =>
        get_post_fee_amount_ld(config.fee, Amounts.amount_sent_ld)
            = Amounts.amount_received_ld + Amounts.oft_fee_ld

(* The inverse computation succeeds, within u64, for every amount a sender *)
(* can name, and never charges more than that amount.                      *)
NeverOvercharged == Amounts.amount_sent_ld \in 0 .. amount_ld

(* Nothing is lost in the conversion to shared decimals: the amount the    *)
(* wire carries converts back to the amount taken into tvl_ld or burnt.    *)
NoDustOnTheWire ==
    sd2ld(config.ld2sd_rate, ld2sd(config.ld2sd_rate, Amounts.amount_received_ld))
        = Amounts.amount_received_ld

(* A cheaper transfer would not do: sending one unit less than             *)
(* amount_sent_ld leaves the escrow short (calculate_pre_fee_amount is the *)
(* least inverse, the upper bound the upstream bug got wrong).             *)
SentIsLeast ==
    Amounts.amount_sent_ld > 0 /\ config.oft_type = "Adapter" =>
        get_post_fee_amount_ld(config.fee, Amounts.amount_sent_ld - 1)
            < Amounts.amount_received_ld + Amounts.oft_fee_ld

(* The quote explains the whole difference: what arrives and the two fee   *)
(* entries are what is charged, and the entry for the transfer fee is what *)
(* the token program will withhold, with none for a Native OFT.            *)
QuoteAddsUp ==
    LET details == oft_fee_details(Amounts)
    IN  /\ Amounts.amount_received_ld + details.transfer_fee_ld
              + details.cross_chain_fee_ld = Amounts.amount_sent_ld
        /\ details.transfer_fee_ld =
              IF config.oft_type = "Adapter"
                THEN transfer_fee(config.fee, Amounts.amount_sent_ld) ELSE 0

=============================================================================
