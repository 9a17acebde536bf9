---------------------------- MODULE TokenBucket ----------------------------
(***************************************************************************)
(* The limiter of the ingest endpoint: one bucket, which every request     *)
(* takes a token from, and the clock of the machine, which may be set.     *)
(* A token is Cost units and the clock moves in steps that refill Rate     *)
(* units each, so that the fractions the code computes are whole numbers.  *)
(* The bucket is there from the start: one that is made by the first       *)
(* request is as full.                                                     *)
(***************************************************************************)
EXTENDS Integers

CONSTANTS Capacity, Rate, Cost

ASSUME TokenBucketAssumption == Capacity \in Nat /\ Rate \in Nat /\ Cost \in Nat

VARIABLES
  tokens, last,  \* the bucket
  now,      \* Date.now()
  spent,    \* history: what was taken
  forward   \* history: how far the clock went, steps back not counted

bucketVars == <<tokens, last, now, spent, forward>>

Positive(n) == IF n > 0 THEN n ELSE 0
AtMost(bound, n) == IF n < bound THEN n ELSE bound

BucketInit ==
  /\ tokens = Capacity
  /\ now \in Nat /\ last = now
  /\ spent = 0 /\ forward = 0

Refilled == AtMost(Capacity, tokens + Rate * Positive(now - last))
Allowed == Refilled >= Cost

TakeAtLeisure ==  \* mutant: a refused request leaves last where it was
  /\ tokens' = IF Allowed THEN Refilled - Cost ELSE Refilled
  /\ spent' = IF Allowed THEN spent + Cost ELSE spent
  /\ last' = IF Allowed THEN now ELSE last
  /\ UNCHANGED <<now, forward>>

Take ==
  /\ tokens' = IF Allowed THEN Refilled - Cost ELSE Refilled
  /\ spent' = IF Allowed THEN spent + Cost ELSE spent
  /\ last' = now
  /\ UNCHANGED <<now, forward>>

\* Time passes, or the clock is set.
Clock(t) ==
  /\ now' = t
  /\ forward' = forward + Positive(t - now)
  /\ UNCHANGED <<tokens, last, spent>>

BucketNext == Take \/ \E t \in Nat : Clock(t)
BucketSpec == BucketInit /\ [][BucketNext]_bucketVars
----------------------------------------------------------------------------
\* What was let through never exceeds a full bucket and the refill of all the
\* time the clock went forward, wherever the clock was set back in between;
\* and the bucket is never overdrawn.
RateBounded ==
  /\ spent <= Capacity + Rate * forward
  /\ tokens \in 0..Capacity
============================================================================
