----------------------------- MODULE MCPathways -----------------------------
(* Ethereum and Optimism, which wait for 15 and 20 blocks (2 and 3 here),  *)
(* with the four DVNs of consts/mainnet.ts, one of them faulty and another *)
(* the default one, which waits for a block less.                          *)
EXTENDS Pathways

MCCONFIRMATIONS == [c \in Chains |-> IF c = "ETHEREUM" THEN 2 ELSE 3]
MCDefaultConfirmations == [c \in Chains |-> MCCONFIRMATIONS[c] - 1]
MCOPTIONAL_DVNS == [o \in Operators |-> Chains]

=============================================================================
