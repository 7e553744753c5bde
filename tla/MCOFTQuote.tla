----------------------------- MODULE MCOFTQuote -----------------------------
(* OFTQuote over every transfer fee of a small basis-point scale.          *)
EXTENDS OFTQuote

MCTransferFees == [transfer_fee_basis_points: 0 .. OneInBasisPoints,
                   maximum_fee: {0, 1, 2, 3, 7, U64Max}]
MCLd2sdRates == {1, 3, 10}
MCFeeBps == {0, 1, OneInBasisPoints - 1}

=============================================================================
