--------------------------- MODULE RateLimiter ----------------------------
(***************************************************************************)
(* The token-bucket rate limiter a PeerConfig holds for each direction     *)
(* (programs/oft/src/state/peer_config.rs), as operators on its record.    *)
(* The limiter is lazy: it credits the time that went by only when it is   *)
(* touched.  now is Clock::get()?.unix_timestamp.                          *)
(***************************************************************************)
EXTENDS U64

RateLimiter == [some: BOOLEAN, capacity: U64, tokens: U64,
                refill_per_second: U64, last_refill_time: U64]

(* Option<RateLimiter>::None.  The other fields are RateLimiter::default(),*)
(* so that unwrap_or_default() is setting some.                            *)
NoLimiter == [some |-> FALSE, capacity |-> 0, tokens |-> 0,
              refill_per_second |-> 0, last_refill_time |-> 0]

(* set_peer_config's RateLimitParams; a field that is None is left alone.  *)
RateLimitParams == [capacity: U64 \cup {None},
                    refill_per_second: U64 \cup {None}]

(* Mutants: a refill above the capacity; one that leaves the clock behind. *)
refill_uncapped(limiter, extra_tokens, now) ==
    [limiter EXCEPT !.tokens = saturating(@ + extra_tokens
                       + (now - limiter.last_refill_time) * limiter.refill_per_second),
                    !.last_refill_time = now]

refill_untimed(limiter, extra_tokens, now) ==
    [limiter EXCEPT !.tokens = min(limiter.capacity, @ + extra_tokens
                       + (now - limiter.last_refill_time) * limiter.refill_per_second)]

refill(limiter, extra_tokens, now) ==
    LET elapsed == IF now > limiter.last_refill_time
                     THEN now - limiter.last_refill_time ELSE 0
        new_tokens == saturating(extra_tokens
                        + saturating(elapsed * limiter.refill_per_second))
    IN  [limiter EXCEPT
           !.tokens = min(limiter.capacity,
                          saturating(limiter.tokens + new_tokens)),
           !.last_refill_time = now]

(* Mutant: the new rate counts for the past too.                           *)
set_rate_in_arrears(limiter, refill_per_second, now) ==
    [limiter EXCEPT !.refill_per_second = refill_per_second]

set_rate(limiter, refill_per_second, now) ==
    [refill(limiter, 0, now) EXCEPT !.refill_per_second = refill_per_second]

set_capacity(limiter, capacity, now) ==
    [limiter EXCEPT !.capacity = capacity, !.tokens = capacity,
                    !.last_refill_time = now]

(* Mutant: the amount is held against the capacity, not the tokens.        *)
may_consume_capacity(limiter, amount, now) ==
    limiter.some => limiter.capacity >= amount

(* try_consume succeeds exactly when may_consume; when it does not, the    *)
(* error rolls the transaction back and the limiter keeps its old record.  *)
may_consume(limiter, amount, now) ==
    limiter.some => refill(limiter, 0, now).tokens >= amount

try_consume(limiter, amount, now) ==
    IF limiter.some
      THEN [refill(limiter, 0, now) EXCEPT !.tokens = @ - amount]
      ELSE limiter

(* if let Some(rate_limiter) = ... { rate_limiter.refill(amount)? }        *)
refill_if_some(limiter, amount, now) ==
    IF limiter.some THEN refill(limiter, amount, now) ELSE limiter

(* Self::update_rate_limiter(&mut limiter, &Some(params)): capacity first, *)
(* then the rate, each only when given.                                    *)
update_rate_limiter(limiter, params, now) ==
    LET opened == [limiter EXCEPT !.some = TRUE]
        resized == IF params.capacity # None
                     THEN set_capacity(opened, params.capacity, now)
                     ELSE opened
    IN  IF params.refill_per_second # None
          THEN set_rate(resized, params.refill_per_second, now)
          ELSE resized

(* The tokens the limiter would show if it were refilled at now.           *)
level_at(limiter, now) ==
    min(limiter.capacity,
        limiter.tokens + (now - limiter.last_refill_time)
                           * limiter.refill_per_second)

===========================================================================
