------------------------------ MODULE OFTMath ------------------------------
(***************************************************************************)
(* The amount arithmetic of the OFT program: the conversion between the    *)
(* local decimals of the mint (ld) and the shared decimals of the wire     *)
(* (sd), the program's own fee, the Token-2022 transfer fee and its        *)
(* inverse, and the split of a sent amount that send, quote_send and       *)
(* quote_oft have in common.                                               *)
(*                                                                         *)
(* A transfer fee is the TransferFee in force in the current epoch.  A     *)
(* mint without the TransferFeeConfig extension behaves as one whose       *)
(* transfer_fee_basis_points is 0, so no case of its own is needed.        *)
(* Products are u128 in the program and leave that range for no u64 input. *)
(***************************************************************************)
EXTENDS U64

CONSTANT OneInBasisPoints       \* 10_000 in the program

ASSUME OneInBasisPointsAssumption == OneInBasisPoints \in Nat \ {0}

TransferFee == [transfer_fee_basis_points: 0 .. OneInBasisPoints,
                maximum_fee: U64]

(* Mutant: built without overflow-checks.                                  *)
sd2ld_wrapping(ld2sd_rate, amount_sd) == (amount_sd * ld2sd_rate) % (U64Max + 1)

(* OFTStore::ld2sd, sd2ld, remove_dust.  sd2ld may leave U64: the caller's *)
(* transaction then panics.                                                *)
ld2sd(ld2sd_rate, amount_ld) == amount_ld \div ld2sd_rate
sd2ld(ld2sd_rate, amount_sd) == amount_sd * ld2sd_rate

(* Mutant: the dust stays.                                                 *)
dust_kept(ld2sd_rate, amount_ld) == amount_ld

remove_dust(ld2sd_rate, amount_ld) == amount_ld - (amount_ld % ld2sd_rate)

(* The peer's fee wins over the default one; a zero fee or amount gives 0. *)
calculate_fee(pre_fee_amount, default_fee_bps, fee_bps) ==
    LET final_fee_bps == IF fee_bps # None THEN fee_bps ELSE default_fee_bps
    IN  (pre_fee_amount * final_fee_bps) \div OneInBasisPoints

ceil_div(numerator, denominator) ==
    (numerator + denominator - 1) \div denominator

(* spl_token_2022's TransferFee::calculate_fee: what the token program     *)
(* withholds from the recipient of a transfer.                             *)
transfer_fee(fee, amount) ==
    min(fee.maximum_fee,
        ceil_div(amount * fee.transfer_fee_basis_points, OneInBasisPoints))

(* Mutant: the transfer fee is forgotten.                                  *)
post_fee_ignored(fee, amount_ld) == amount_ld

get_post_fee_amount_ld(fee, amount_ld) == amount_ld - transfer_fee(fee, amount_ld)

(* Mutants of the inverse: rounded down; without the arm for the cap.      *)
pre_fee_rounded_down(fee, post_fee_amount) ==
    LET bps == fee.transfer_fee_basis_points
        raw == (post_fee_amount * OneInBasisPoints) \div (OneInBasisPoints - bps)
    IN  IF bps \in {0, OneInBasisPoints} THEN post_fee_amount
        ELSE IF raw - post_fee_amount >= fee.maximum_fee
               THEN checked(post_fee_amount + fee.maximum_fee)
               ELSE checked(raw)

pre_fee_uncapped(fee, post_fee_amount) ==
    LET bps == fee.transfer_fee_basis_points
    IN  IF bps \in {0, OneInBasisPoints} THEN post_fee_amount
        ELSE checked(ceil_div(post_fee_amount * OneInBasisPoints,
                              OneInBasisPoints - bps))

(* What must be sent for post_fee_amount to arrive; None on u64 overflow.  *)
(* The (0, _) and (_, 0) arms both return post_fee_amount.                 *)
calculate_pre_fee_amount(fee, post_fee_amount) ==
    LET bps == fee.transfer_fee_basis_points
        capped == checked(post_fee_amount + fee.maximum_fee)
        raw_pre_fee_amount == ceil_div(post_fee_amount * OneInBasisPoints,
                                       OneInBasisPoints - bps)
    IN  IF bps = 0 \/ post_fee_amount = 0 THEN post_fee_amount
        ELSE IF bps = OneInBasisPoints THEN capped
        ELSE IF raw_pre_fee_amount - post_fee_amount >= fee.maximum_fee
               THEN capped
               ELSE checked(raw_pre_fee_amount)

(* What leaves the sender, what is put on the wire and what the OFT keeps. *)
(* Only an Adapter's transfer is subject to the transfer fee.              *)
(* amount_sent_ld = None is the error return.                              *)
compute_fee_and_adjust_amount(amount_ld, oft_type, ld2sd_rate, fee, default_fee_bps, fee_bps) ==
    LET dedusted_ld == remove_dust(ld2sd_rate,
            IF oft_type = "Adapter" THEN get_post_fee_amount_ld(fee, amount_ld)
                                    ELSE amount_ld)
        oft_fee_ld == remove_dust(ld2sd_rate,
            calculate_fee(dedusted_ld, default_fee_bps, fee_bps))
    IN  [amount_sent_ld     |-> IF oft_type = "Adapter"
                                  THEN calculate_pre_fee_amount(fee, dedusted_ld)
                                  ELSE dedusted_ld,
         amount_received_ld |-> dedusted_ld - oft_fee_ld,
         oft_fee_ld         |-> oft_fee_ld]

============================================================================
