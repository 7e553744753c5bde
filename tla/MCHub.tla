------------------------------- MODULE MCHub -------------------------------
(* Instances of Hub for TLC: one pathway, no limiter, and a transfer fee   *)
(* that is rounded up and capped, and comes and goes.                      *)
EXTENDS Hub

CONSTANTS e1, a1
OnePathway == {<<e1, a1>>}
MCTransferFees == {[transfer_fee_basis_points |-> b, maximum_fee |-> 2] : b \in {0, 3}}

=============================================================================
