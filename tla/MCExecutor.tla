----------------------------- MODULE MCExecutor -----------------------------
(* Instances of Executor for TLC: one pathway, a fee that comes and goes.  *)
EXTENDS Executor

CONSTANTS e1, a1
OnePathway == {<<e1, a1>>}
MCTransferFees == {[transfer_fee_basis_points |-> b, maximum_fee |-> 9] : b \in {0, 1}}
MCLimitParams == {[capacity |-> c, refill_per_second |-> 1] : c \in {2}}

=============================================================================
