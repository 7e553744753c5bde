---------------------------- MODULE MCPeerLimiter ---------------------------
(* PeerLimiter with every partial and full reconfiguration of a few values.*)
EXTENDS PeerLimiter

MCAmounts == {1, 3}
MCParams == [capacity: {None, 2, 4}, refill_per_second: {None, 0, 1, 3}]

=============================================================================
