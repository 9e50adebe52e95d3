--------------------------- MODULE RateLimiterSpec ---------------------------
(***************************************************************************)
(* What RateLimiter (network/security.rs) promises its callers, with no    *)
(* atomics and no machine arithmetic: a bucket of at most Capacity tokens  *)
(* that a refill credits with the whole tokens RefillRate earns since the *)
(* last refill (none before 10 ms), and from which try_consume takes the  *)
(* amount asked when there is enough.  Each of the two is one indivisible *)
(* step; a refused consume changes nothing.                               *)
(***************************************************************************)
EXTENDS Naturals

CONSTANTS Capacity, RefillRate, Amounts, TickMs, ClockMax

VARIABLES tokens, lastRefill, clock, granted

vars == <<tokens, lastRefill, clock, granted>>

\* The whole tokens earned over elapsedMs milliseconds.
Earned(elapsedMs) == (elapsedMs * RefillRate) \div 1000

Init ==
    /\ tokens = Capacity
    /\ lastRefill = 0
    /\ clock = 0
    /\ granted = 0

Tick ==
    /\ clock + TickMs <= ClockMax
    /\ clock' = clock + TickMs
    /\ UNCHANGED <<tokens, lastRefill, granted>>

\* A refill as of an instant now that has been read from the clock: at
\* least 10 ms and one whole token since the last refill.
Refill(now) ==
    /\ lastRefill <= now /\ now <= clock
    /\ now - lastRefill >= 10
    /\ Earned(now - lastRefill) > 0
    /\ tokens' = IF tokens + Earned(now - lastRefill) < Capacity
                 THEN tokens + Earned(now - lastRefill) ELSE Capacity
    /\ lastRefill' = now
    /\ UNCHANGED <<clock, granted>>

\* A consume of n tokens that succeeds.
Consume(n) ==
    /\ n \in Amounts
    /\ n <= tokens
    /\ tokens' = tokens - n
    /\ granted' = granted + n
    /\ UNCHANGED <<lastRefill, clock>>

Next ==
    \/ Tick
    \/ \E now \in 0..ClockMax : Refill(now)
    \/ \E n \in Amounts : Consume(n)

Spec == Init /\ [][Next]_vars

=============================================================================
