---------------------------- MODULE TokenBucket ----------------------------
(***************************************************************************)
(* What a rate limiter promises: a bucket that gains rate tokens at every  *)
(* second, overflows at capacity, and serves only what it holds.  The      *)
(* program keeps a lazy record instead (RateLimiter); PeerLimiter and OFT  *)
(* are shown to implement this module.                                     *)
(***************************************************************************)
EXTENDS U64

VARIABLES
    open,               \* is there a limiter at all?
    capacity,
    rate,               \* tokens per second
    level,              \* tokens in the bucket
    time,
    taken, given        \* everything ever served and handed back

vars == <<open, capacity, rate, level, time, taken, given>>

Init == /\ open = FALSE /\ capacity = 0 /\ rate = 0 /\ level = 0
        /\ time \in U64
        /\ taken = 0 /\ given = 0

Tick == /\ time' = time + 1
        /\ level' = min(capacity, level + rate)
        /\ UNCHANGED <<open, capacity, rate, taken, given>>

(* A request above the level is not served; without a limiter all are.     *)
Take == \E amount \in U64 :
           /\ open => amount <= level
           /\ level' = IF open THEN level - amount ELSE level
           /\ taken' = taken + amount
           /\ UNCHANGED <<open, capacity, rate, time, given>>

Give == \E amount \in U64 :
           /\ level' = IF open THEN min(capacity, level + amount) ELSE level
           /\ given' = given + amount
           /\ UNCHANGED <<open, capacity, rate, time, taken>>

(* A new capacity comes as a full bucket; a new rate counts from now on.   *)
Configure == \E r \in U64 :
                /\ open' = TRUE /\ rate' = r
                /\ \/ capacity' \in U64 /\ level' = capacity'
                   \/ UNCHANGED <<capacity, level>>
                /\ UNCHANGED <<time, taken, given>>

Remove == /\ open' = FALSE /\ capacity' = 0 /\ rate' = 0 /\ level' = 0
          /\ UNCHANGED <<time, taken, given>>

Next == Tick \/ Take \/ Give \/ Configure \/ Remove

Spec == Init /\ [][Next]_vars

============================================================================
