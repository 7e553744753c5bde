------------------------- MODULE PeerLimiterProofs -------------------------
(***************************************************************************)
(* The rate limiter's bound and its refinement of TokenBucket, for every   *)
(* u64 range, every set of amounts and every set of reconfigurations.      *)
(***************************************************************************)
EXTENDS PeerLimiter, OperatorProofs

Inv == TypeOK /\ LevelBound

(* The bound on the level is inductive.                                    *)
LEMMA InvInit == Init => Inv
<1> SUFFICES ASSUME Init PROVE Inv
  OBVIOUS
<1>1. NoLimiter \in RateLimiter
  BY U64MaxAssumption DEF NoLimiter, RateLimiter, U64
<1>2. TypeOK
  BY <1>1, U64MaxAssumption DEF Init, TypeOK, Snapshot, U64
<1> QED
  BY <1>2 DEF Init, Inv, LevelBound, Snapshot, NoLimiter

(* No step breaks the bound.                                               *)
LEMMA InvNext == Inv /\ [Next]_vars => Inv'
<1> SUFFICES ASSUME Inv, [Next]_vars PROVE Inv'
  OBVIOUS
<1>1. /\ Sane(limiter, now) /\ now \in Nat /\ U64 = 0 .. U64Max /\ U64Max \in Nat
      /\ limiter.capacity \in Nat /\ limiter.refill_per_second \in Nat
      /\ taken \in Nat /\ given \in Nat /\ opened.now \in Nat
      /\ opened.taken \in Nat /\ opened.given \in Nat
      /\ now \in U64 /\ opened.now <= now
  BY U64MaxAssumption DEF Inv, TypeOK, LevelBound, Sane, RateLimiter, U64
<1>2. level \in 0 .. limiter.capacity /\ level = level_at(limiter, now)
      /\ level' = level_at(limiter', now')
  BY <1>1, LevelRange DEF level
<1>3. /\ opened \in [now: U64, taken: Nat, given: Nat]
      /\ Snapshot \in [now: U64, taken: Nat, given: Nat]
  BY <1>1 DEF Inv, TypeOK, Snapshot
<1>4. ~limiter.some => limiter = NoLimiter
  BY DEF Inv, LevelBound
<1>5. limiter.some => (taken - opened.taken) + level <= Allowance
  BY DEF Inv, LevelBound
<1> DEFINE earned == limiter.refill_per_second * (now - opened.now)
<1>12. earned \in Nat /\ Allowance = limiter.capacity + (given - opened.given) + earned
  BY <1>1 DEF Allowance
<1>13. Allowance \in Int
  BY <1>1, <1>12
<1> HIDE DEF earned
<1>6. ASSUME NEW amount \in Amounts, Consume(amount) PROVE Inv'
  <2>1. amount \in U64 /\ amount \in Nat
    BY <1>1, PeerLimiterAssumption
  <2>2. /\ limiter' = try_consume(limiter, amount, now) /\ taken' = taken + amount
        /\ now' = now /\ given' = given /\ opened' = opened
        /\ may_consume(limiter, amount, now)
    BY <1>6 DEF Consume
  <2>3. /\ Sane(limiter', now)
        /\ limiter'.some = limiter.some /\ limiter'.capacity = limiter.capacity
        /\ limiter'.refill_per_second = limiter.refill_per_second
        /\ limiter.some => level_at(limiter', now) = level_at(limiter, now) - amount
        /\ ~limiter.some => limiter' = limiter
    BY <1>1, <2>1, <2>2, ConsumeIsExact
  <2>4. Allowance' = Allowance
    BY <2>2, <2>3 DEF Allowance
  <2>5. limiter.some => (taken' - opened.taken) + level' <= Allowance
    BY <1>1, <1>2, <1>5, <2>1, <2>2, <2>3
  <2>6. TypeOK'
    BY <1>1, <1>3, <2>1, <2>2, <2>3 DEF TypeOK, Sane
  <2>7. LevelBound'
    BY <1>1, <1>4, <2>2, <2>3, <2>4, <2>5 DEF LevelBound, Sane
  <2> QED
    BY <2>6, <2>7 DEF Inv
<1>7. ASSUME NEW amount \in Amounts, Refill(amount) PROVE Inv'
  <2>1. amount \in U64 /\ amount \in Nat
    BY <1>1, PeerLimiterAssumption
  <2>2. /\ limiter' = refill_if_some(limiter, amount, now) /\ given' = given + amount
        /\ now' = now /\ taken' = taken /\ opened' = opened
    BY <1>7 DEF Refill
  <2>3. /\ Sane(limiter', now)
        /\ limiter'.some = limiter.some /\ limiter'.capacity = limiter.capacity
        /\ limiter'.refill_per_second = limiter.refill_per_second
        /\ limiter.some => level_at(limiter', now)
                = min(limiter.capacity, level_at(limiter, now) + amount)
        /\ ~limiter.some => limiter' = limiter
    BY <1>1, <2>1, <2>2, RefillIsExact
  <2>4. Allowance' = Allowance + amount
    <3>1. Allowance' = limiter.capacity + (given + amount - opened.given) + earned
      BY <1>1, <2>1, <2>2, <2>3 DEF Allowance, earned
    <3> QED
      BY <1>1, <1>12, <2>1, <3>1
  <2>5. limiter.some => (taken' - opened.taken) + level' <= Allowance'
    <3>1. limiter.some => level' <= level + amount /\ level' \in Nat
      BY <1>1, <1>2, <2>1, <2>2, <2>3 DEF min
    <3> QED
      BY <1>1, <1>2, <1>5, <1>13, <2>1, <2>2, <2>4, <3>1
  <2>6. TypeOK'
    BY <1>1, <1>3, <2>1, <2>2, <2>3 DEF TypeOK, Sane
  <2>7. LevelBound'
    BY <1>1, <1>4, <2>2, <2>3, <2>5 DEF LevelBound, Sane
  <2> QED
    BY <2>6, <2>7 DEF Inv
<1>8. ASSUME NEW params \in Params, Configure(params) PROVE Inv'
  <2>1. params \in RateLimitParams
    BY PeerLimiterAssumption
  <2>2. /\ limiter' = update_rate_limiter(limiter, params, now)
        /\ opened' = Snapshot /\ now' = now /\ taken' = taken /\ given' = given
    BY <1>8 DEF Configure
  <2>3. Sane(limiter', now) /\ limiter'.some = TRUE
    BY <1>1, <2>1, <2>2, UpdateIsExact
  <2>4. /\ level' \in 0 .. limiter'.capacity /\ limiter'.capacity \in Nat
        /\ limiter'.refill_per_second \in Nat
    BY <1>1, <1>2, <2>2, <2>3, LevelRange DEF Sane, RateLimiter
  <2>5. Allowance' = limiter'.capacity /\ taken' - opened'.taken = 0
    BY <1>1, <2>2, <2>4 DEF Allowance, Snapshot
  <2>6. TypeOK'
    BY <1>1, <1>3, <2>2, <2>3 DEF TypeOK, Sane
  <2>7. LevelBound'
    BY <1>1, <2>2, <2>3, <2>4, <2>5 DEF LevelBound, Sane, Snapshot
  <2> QED
    BY <2>6, <2>7 DEF Inv
<1>9. CASE Remove
  <2>1. limiter' = NoLimiter /\ opened' = Snapshot
        /\ now' = now /\ taken' = taken /\ given' = given
    BY <1>9 DEF Remove
  <2>2. NoLimiter \in RateLimiter
    BY U64MaxAssumption DEF NoLimiter, RateLimiter, U64
  <2>3. TypeOK'
    BY <1>1, <1>3, <2>1, <2>2 DEF TypeOK
  <2>4. LevelBound'
    BY <1>1, <2>1 DEF LevelBound, NoLimiter, Snapshot
  <2> QED
    BY <2>3, <2>4 DEF Inv
<1>10. CASE Tick
  <2>1. now' = now + 1 /\ now' \in U64 /\ limiter' = limiter
        /\ taken' = taken /\ given' = given /\ opened' = opened
    BY <1>10 DEF Tick
  <2>2. level' = min(limiter.capacity, level + limiter.refill_per_second)
    BY <1>1, <1>2, <2>1, TickIsExact
  <2>3. limiter.refill_per_second * (now + 1 - opened.now)
          = limiter.refill_per_second * (now - opened.now) + limiter.refill_per_second
    BY <1>1
  <2>4. Allowance' = Allowance + limiter.refill_per_second
    <3>6. now' \in Nat /\ now' = now + 1 /\ now \in Nat /\ opened.now \in Nat /\ limiter.refill_per_second \in Nat
      BY <1>1, <2>1
    <3>7. limiter.refill_per_second * (now' - opened.now)
             = limiter.refill_per_second * (now + 1 - opened.now)
      BY <3>6
    <3>8. limiter'.refill_per_second * (now' - opened'.now)
             = limiter.refill_per_second * (now' - opened.now)
      BY <2>1
    <3>9. (limiter.capacity + (given - opened.given))'
             = limiter.capacity + (given - opened.given)
      BY <2>1
    <3>0. Allowance' = limiter.capacity + (given - opened.given)
                         + limiter.refill_per_second * (now + 1 - opened.now)
      BY <3>7, <3>8, <3>9 DEF Allowance
    <3>1. Allowance' = limiter.capacity + (given - opened.given)
                         + (earned + limiter.refill_per_second)
      BY <2>3, <3>0 DEF earned
    <3> QED
      BY <1>1, <1>12, <3>1
  <2>5. limiter.some => (taken' - opened'.taken) + level' <= Allowance'
    <3>1. level' <= level + limiter.refill_per_second /\ level' \in Nat
      BY <1>1, <1>2, <2>2 DEF min
    <3> QED
      BY <1>1, <1>2, <1>5, <1>13, <2>1, <2>4, <3>1
  <2>6. TypeOK'
    BY <1>3, <2>1 DEF TypeOK, Inv
  <2>7. LevelBound'
    BY <1>1, <1>4, <2>1, <2>5 DEF LevelBound, Sane, RateLimiter, U64
  <2> QED
    BY <2>6, <2>7 DEF Inv
<1>11. CASE UNCHANGED vars
  BY <1>11 DEF Inv, TypeOK, LevelBound, level, Allowance, vars
<1> QED
  BY <1>6, <1>7, <1>8, <1>9, <1>10, <1>11 DEF Next

(* The types, the level and the clock are right in every reachable state.  *)
THEOREM LimiterLevelBound == Spec => [](TypeOK /\ LevelBound)
<1>1. Spec => []Inv
  BY InvInit, InvNext, PTL DEF Spec
<1> QED
  BY <1>1, PTL DEF Inv

(* The fields stay u64, and the clock too, until the clock itself ends.    *)
THEOREM LimiterTypeCorrect == Spec => []TypeOK
BY LimiterLevelBound, PTL

(* No window of a configuration lets more through than its allowance.      *)
THEOREM LimiterWindowBound == Spec => []WindowBound
<1>1. Inv => WindowBound
  <2> SUFFICES ASSUME Inv, limiter.some PROVE taken - opened.taken <= Allowance
    BY DEF WindowBound
  <2>1. /\ Sane(limiter, now) /\ limiter.capacity \in Nat
        /\ limiter.refill_per_second \in Nat /\ now \in Nat
        /\ taken \in Nat /\ given \in Nat /\ opened.now \in Nat
        /\ opened.taken \in Nat /\ opened.given \in Nat
    BY U64MaxAssumption DEF Inv, TypeOK, LevelBound, Sane, RateLimiter, U64
  <2>2. level \in 0 .. limiter.capacity
    BY <2>1, LevelRange DEF level
  <2>3. (taken - opened.taken) + level <= Allowance
    BY DEF Inv, LevelBound
  <2>4. Allowance \in Int
    BY <2>1 DEF Allowance
  <2> QED
    BY <2>1, <2>2, <2>3, <2>4
<1>2. Spec => []Inv
  BY InvInit, InvNext, PTL DEF Spec
<1> QED
  BY <1>1, <1>2, PTL

-----------------------------------------------------------------------------
(* Every step of the lazy limiter is a step of the eager bucket.           *)
LEMMA BucketStep == Inv /\ [Next]_vars => [Bucket!Next]_(Bucket!vars)
<1> SUFFICES ASSUME Inv, [Next]_vars PROVE [Bucket!Next]_(Bucket!vars)
  OBVIOUS
<1>1. /\ Sane(limiter, now) /\ now \in U64
      /\ level' = level_at(limiter', now')
      /\ ~limiter.some => limiter = NoLimiter
      /\ limiter.some \in BOOLEAN
  BY DEF Inv, TypeOK, LevelBound, Sane, level, RateLimiter
<1>2. level_at(NoLimiter, now) = 0
  BY <1>1, U64MaxAssumption DEF NoLimiter, level_at, min, U64
<1>9. Bucket!U64 = U64 /\ \A a, b : Bucket!min(a, b) = min(a, b)
  BY DEF Bucket!U64, U64, Bucket!min, min
<1>3. ASSUME NEW amount \in Amounts, Consume(amount) PROVE Bucket!Take
  <2>1. /\ amount \in U64 /\ may_consume(limiter, amount, now)
        /\ limiter' = try_consume(limiter, amount, now) /\ taken' = taken + amount
        /\ now' = now /\ given' = given
    BY <1>3, PeerLimiterAssumption DEF Consume
  <2>2. /\ limiter'.some = limiter.some /\ limiter'.capacity = limiter.capacity
        /\ limiter'.refill_per_second = limiter.refill_per_second
        /\ limiter.some => amount <= level /\ level' = level - amount
        /\ ~limiter.some => level' = level
    BY <1>1, <2>1, ConsumeIsExact DEF level
  <2> QED
    BY <1>9, <2>1, <2>2 DEF Bucket!Take
<1>4. ASSUME NEW amount \in Amounts, Refill(amount) PROVE Bucket!Give
  <2>1. /\ amount \in U64
        /\ limiter' = refill_if_some(limiter, amount, now) /\ given' = given + amount
        /\ now' = now /\ taken' = taken
    BY <1>4, PeerLimiterAssumption DEF Refill
  <2>2. /\ limiter'.some = limiter.some /\ limiter'.capacity = limiter.capacity
        /\ limiter'.refill_per_second = limiter.refill_per_second
        /\ limiter.some => level' = min(limiter.capacity, level + amount)
        /\ ~limiter.some => level' = level
    BY <1>1, <2>1, RefillIsExact DEF level
  <2> QED
    BY <1>9, <2>1, <2>2 DEF Bucket!Give
<1>5. ASSUME NEW params \in Params, Configure(params) PROVE Bucket!Configure
  <2>1. /\ params \in RateLimitParams
        /\ limiter' = update_rate_limiter(limiter, params, now)
        /\ now' = now /\ taken' = taken /\ given' = given
    BY <1>5, PeerLimiterAssumption DEF Configure
  <2>2. /\ Sane(limiter', now) /\ limiter'.some = TRUE
        /\ \/ level' = limiter'.capacity
           \/ limiter'.capacity = limiter.capacity /\ level' = level
    BY <1>1, <2>1, UpdateIsExact DEF level
  <2>3. limiter'.refill_per_second \in U64 /\ limiter'.capacity \in U64
    BY <2>2 DEF Sane, RateLimiter
  <2> QED
    BY <1>9, <2>1, <2>2, <2>3 DEF Bucket!Configure
<1>6. ASSUME Remove PROVE Bucket!Remove
  BY <1>1, <1>2, <1>6 DEF Remove, Bucket!Remove, NoLimiter, level
<1>7. ASSUME Tick PROVE Bucket!Tick
  <2>1. level' = min(limiter.capacity, level + limiter.refill_per_second)
    BY <1>1, <1>7, TickIsExact DEF Tick, level
  <2> QED
    BY <1>7, <1>9, <2>1 DEF Tick, Bucket!Tick
<1>8. CASE UNCHANGED vars
  BY <1>8 DEF vars, Bucket!vars, level
<1> QED
  BY <1>3, <1>4, <1>5, <1>6, <1>7, <1>8 DEF Next, Bucket!Next

(* The lazy record implements the eager bucket.                            *)
THEOREM LimiterImplementsBucket == Spec => ImplementsTokenBucket
<1>1. Init => Bucket!Init
  <2> SUFFICES ASSUME Init PROVE Bucket!Init
    OBVIOUS
  <2>1. level_at(NoLimiter, 0) = 0 /\ 0 \in U64
    BY U64MaxAssumption DEF NoLimiter, level_at, min, U64
  <2> QED
    BY <2>1 DEF Init, Bucket!Init, NoLimiter, level, Bucket!U64, U64
<1> QED
  BY <1>1, InvInit, InvNext, BucketStep, PTL
  DEF Spec, ImplementsTokenBucket, Bucket!Spec

============================================================================
