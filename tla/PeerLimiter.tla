---------------------------- MODULE PeerLimiter ----------------------------
(***************************************************************************)
(* One Option<RateLimiter> of a PeerConfig against the clock: consumed by  *)
(* the transfers of its own direction, refilled by those of the other one  *)
(* (send.rs and lz_receive.rs), reconfigured by the admin at any moment    *)
(* (set_peer_config.rs).  The record is lazy: time is credited only when   *)
(* the limiter is touched.                                                 *)
(*                                                                         *)
(* taken, given and opened are history: everything ever consumed and       *)
(* refilled, and a snapshot of the two and of the clock at the last        *)
(* reconfiguration.                                                        *)
(***************************************************************************)
EXTENDS RateLimiter

CONSTANTS
    Amounts,            \* the transfer amounts to try, a subset of U64
    Params,             \* the reconfigurations to try
    MaxHistory          \* bound on taken and on given

ASSUME PeerLimiterAssumption ==
    /\ Amounts \subseteq U64
    /\ Params \subseteq RateLimitParams
    /\ MaxHistory \in Nat

VARIABLES limiter, now, taken, given, opened

vars == <<limiter, now, taken, given, opened>>

Snapshot == [now |-> now, taken |-> taken, given |-> given]

Init == /\ limiter = NoLimiter
        /\ now = 0 /\ taken = 0 /\ given = 0
        /\ opened = Snapshot

(* A send (outbound limiter) or lz_receive (inbound limiter) that succeeds.*)
Consume(amount) ==
    /\ may_consume(limiter, amount, now)
    /\ taken + amount <= MaxHistory
    /\ limiter' = try_consume(limiter, amount, now)
    /\ taken' = taken + amount
    /\ UNCHANGED <<now, given, opened>>

(* A lz_receive (outbound limiter) or send (inbound limiter).              *)
Refill(amount) ==
    /\ given + amount <= MaxHistory
    /\ limiter' = refill_if_some(limiter, amount, now)
    /\ given' = given + amount
    /\ UNCHANGED <<now, taken, opened>>

(* set_peer_config with OutboundRateLimit or InboundRateLimit.             *)
Configure(params) ==
    /\ limiter' = update_rate_limiter(limiter, params, now)
    /\ opened' = Snapshot
    /\ UNCHANGED <<now, taken, given>>

Remove ==
    /\ limiter' = NoLimiter
    /\ opened' = Snapshot
    /\ UNCHANGED <<now, taken, given>>

(* The cluster's clock.  It ends with the range of u64.                    *)
Tick == /\ now + 1 \in U64
        /\ now' = now + 1
        /\ UNCHANGED <<limiter, taken, given, opened>>

Next == \/ \E amount \in Amounts : Consume(amount) \/ Refill(amount)
        \/ \E params \in Params : Configure(params)
        \/ Remove
        \/ Tick

Spec == Init /\ [][Next]_vars

-----------------------------------------------------------------------------
TypeOK == /\ limiter \in RateLimiter
          /\ now \in U64
          /\ taken \in Nat /\ given \in Nat
          /\ opened \in [now: U64, taken: Nat, given: Nat]

(* The level an eager bucket would have at this instant.                   *)
level == level_at(limiter, now)

Allowance == limiter.capacity + (given - opened.given)
                + limiter.refill_per_second * (now - opened.now)

(* Since the limiter was last configured, no more was let through than one *)
(* bucket, plus what came back the other way, plus rate times the elapsed  *)
(* seconds: no interleaving of partial refills, clamps and reconfigurations*)
(* credits a second twice.                                                 *)
WindowBound == limiter.some => taken - opened.taken <= Allowance

(* WindowBound is not inductive; what is still in the bucket belongs to    *)
(* the bound, and the record must never run ahead of the clock.            *)
LevelBound ==
    /\ limiter.tokens <= limiter.capacity
    /\ limiter.last_refill_time <= now
    /\ ~limiter.some => limiter = NoLimiter
    /\ opened.now <= now
    /\ limiter.some => (taken - opened.taken) + level <= Allowance

Bucket == INSTANCE TokenBucket
            WITH open <- limiter.some, capacity <- limiter.capacity,
                 rate <- limiter.refill_per_second, time <- now

(* The lazy record is indistinguishable from the eager bucket: it never    *)
(* serves more than the bucket holds and never loses a second or a refill. *)
ImplementsTokenBucket == Bucket!Spec

=============================================================================
