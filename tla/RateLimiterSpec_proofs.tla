----------------------- MODULE RateLimiterSpec_proofs -----------------------
(***************************************************************************)
(* The rate promise of the atomic token bucket, for every capacity, rate   *)
(* and clock: what has been granted, plus what is left in the bucket, is   *)
(* at most the capacity plus the tokens earned up to the last refill.      *)
(* TokenBucket_proofs carries the result over to try_consume through the  *)
(* refinement mapping.                                                     *)
(***************************************************************************)
EXTENDS RateLimiterSpec, TLAPS

\* The constants as RateLimiter::new and its callers give them.
BucketConstants ==
    /\ Capacity \in Nat /\ RefillRate \in Nat /\ Amounts \subseteq Nat
    /\ TickMs \in Nat /\ ClockMax \in Nat

\* The inductive form of the rate promise.
BucketInv ==
    /\ tokens \in 0..Capacity
    /\ lastRefill \in Nat /\ clock \in Nat /\ granted \in Nat
    /\ lastRefill <= clock
    /\ granted + tokens <= Capacity + Earned(lastRefill)

\* The rate promise of spec section 8: by clock time t, at most the
\* capacity plus the tokens refill_rate earns in t have been granted.
AbsRateBound == granted <= Capacity + Earned(clock)

\* Whole tokens are never lost by splitting an interval: the tokens earned
\* up to a and then from a to b are at most those earned up to b.
LEMMA EarnedSplit ==
    ASSUME BucketConstants, NEW a \in Nat, NEW b \in Nat, a <= b
    PROVE  /\ Earned(a) \in Nat /\ Earned(b) \in Nat /\ Earned(b - a) \in Nat
           /\ Earned(a) + Earned(b - a) <= Earned(b)
           /\ Earned(a) <= Earned(b)
BY DEF BucketConstants, Earned

LEMMA InitBucket == BucketConstants /\ Init => BucketInv
BY DEF BucketConstants, Init, BucketInv, Earned

LEMMA NextBucket ==
    ASSUME BucketConstants, BucketInv, [Next]_vars
    PROVE  BucketInv'
<1>1. CASE Tick
  BY <1>1 DEF BucketConstants, BucketInv, Tick
<1>2. ASSUME NEW now \in 0..ClockMax, Refill(now)
      PROVE  BucketInv'
  <2>1. /\ Earned(lastRefill) + Earned(now - lastRefill) <= Earned(now)
        /\ Earned(now - lastRefill) \in Nat /\ Earned(now) \in Nat
        /\ Earned(lastRefill) \in Nat
    BY <1>2, EarnedSplit DEF BucketInv, Refill, BucketConstants, Earned
  <2>. DEFINE E == Earned(now - lastRefill)
  <2>2. /\ tokens' = IF tokens + E < Capacity THEN tokens + E ELSE Capacity
        /\ lastRefill' = now /\ clock' = clock /\ granted' = granted
        /\ now <= clock /\ now \in Nat
    BY <1>2 DEF Refill
  <2>3. tokens' \in 0..Capacity /\ tokens' <= tokens + E
    BY <2>1, <2>2 DEF BucketConstants, BucketInv
  <2>. QED
    BY <2>1, <2>2, <2>3 DEF BucketConstants, BucketInv
<1>3. ASSUME NEW n \in Amounts, Consume(n)
      PROVE  BucketInv'
  BY <1>3 DEF BucketConstants, BucketInv, Consume
<1>4. CASE UNCHANGED vars
  BY <1>4 DEF BucketInv, vars
<1>. QED
  BY <1>1, <1>2, <1>3, <1>4 DEF Next

\* A refill credits no more than the interval since the last refill
\* earns, whatever the capacity cuts off, so the atomic bucket keeps the
\* rate promise in every state.
THEOREM RateBoundHolds ==
    ASSUME BucketConstants
    PROVE  Spec => []AbsRateBound
<1>1. BucketInv => AbsRateBound
  <2>. SUFFICES ASSUME BucketInv PROVE AbsRateBound
    OBVIOUS
  <2>1. Earned(lastRefill) <= Earned(clock) /\ Earned(clock) \in Nat
        /\ Earned(lastRefill) \in Nat
    BY EarnedSplit DEF BucketInv
  <2>. QED
    BY <2>1 DEF BucketInv, AbsRateBound, BucketConstants
<1>. QED
  BY <1>1, InitBucket, NextBucket, PTL DEF Spec
=============================================================================
