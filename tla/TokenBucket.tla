----------------------------- MODULE TokenBucket -----------------------------
(***************************************************************************)
(* The arithmetic of RateLimiter::check (relay/src/service.rs).  The code  *)
(* counts fractional tokens in an f64; here a token is Minute units, a     *)
(* tick of the clock refills Max units, and a bucket holds Max tokens, so  *)
(* that every quantity is a natural number.                                *)
(***************************************************************************)
EXTENDS Naturals

CONSTANTS Max,      \* max_per_minute
          Minute    \* ticks of the monotonic clock in a minute

ASSUME MaxIsNat == Max \in Nat
ASSUME MinuteIsPositive == Minute \in Nat \ {0}

Full == Max * Minute

(* elapsed is now - last; past a minute it makes no difference, for the    *)
(* bucket is full by then.                                                 *)
Bucket == [tokens: 0..Full, elapsed: 0..Minute]
FreshBucket == [tokens |-> Full, elapsed |-> 0]

Aged(b) == [b EXCEPT !.elapsed = IF @ < Minute THEN @ + 1 ELSE @]

LevelUncapped(b) == b.tokens + Max * b.elapsed
Level(b) ==
    LET refilled == b.tokens + Max * b.elapsed
    IN  IF refilled < Full THEN refilled ELSE Full

MayTake(b) == Level(b) >= Minute

(* What check leaves behind, whether it grants the request or not.         *)
Checked(b) ==
    [tokens |-> IF MayTake(b) THEN Level(b) - Minute ELSE Level(b), elapsed |-> 0]
==============================================================================
