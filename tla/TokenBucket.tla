---------------------------- MODULE TokenBucket ----------------------------
(***************************************************************************)
(* network/security.rs, RateLimiter: a token bucket whose two fields are   *)
(* atomics (current_tokens: AtomicU32, last_refill: AtomicU64, in ms of    *)
(* the wall clock), shared by every caller of try_consume.  The callers    *)
(* are tasks that call NetworkService::check_rate_limit, which holds only  *)
(* the read lock of dos_protection, so they run try_consume concurrently.  *)
(*                                                                         *)
(* Each atomic access, and the read of the clock, is one step.  The model  *)
(* gives every load the latest value (sequential consistency); the code's *)
(* Relaxed loads allow more behaviours, so what goes wrong here goes wrong  *)
(* in the code as well.  u32 and u64 keep their wrap-around, with widths   *)
(* as constants; an overflowing + panics in a debug build and wraps in a   *)
(* release build, and the constant Build says which.                       *)
(***************************************************************************)
EXTENDS Naturals

CONSTANTS
    Callers,        \* tasks calling try_consume on this limiter
    Capacity,       \* capacity
    RefillRate,     \* refill_rate, tokens per second
    Amounts,        \* the amounts callers ask for
    TokenBits,      \* width of current_tokens (32 in the code)
    TimeBits,       \* width of the timestamps (64 in the code)
    TickMs,         \* how far the clock moves in one step, in ms
    ClockMax,       \* the last clock value explored, in ms
    Build           \* "debug" or "release"

ASSUME TokenBucketAssumption ==
    /\ TokenBits \in Nat \ {0}
    /\ TimeBits \in Nat \ {0}
    /\ Capacity \in 0..(2^TokenBits - 1)
    /\ RefillRate \in Nat
    /\ Amounts \subseteq Nat /\ Amounts # {}
    /\ TickMs \in Nat \ {0}
    /\ ClockMax \in 0..(2^TimeBits - 1)
    /\ Build \in {"debug", "release"}

U32Max == 2^TokenBits - 1

\* u64 subtraction now - last, wrapping in a release build.
TimeSub(now, last) == (now - last + 2^TimeBits) % 2^TimeBits

\* (elapsed_seconds * refill_rate as f64) as u32, for elapsed in ms: the
\* float product is truncated, and the cast saturates at u32::MAX.
NewTokens(elapsedMs) ==
    LET t == (elapsedMs * RefillRate) \div 1000
    IN  IF t > U32Max THEN U32Max ELSE t

\* Where a caller is in try_consume / refill_if_needed.
Pcs == {"idle", "loadLast", "refillLoad", "refillCas", "storeLast",
        "consumeLoad", "consumeCas", "panicked"}

VARIABLES
    tokens,         \* current_tokens
    lastRefill,     \* last_refill
    clock,          \* unix_timestamp_ms()
    pc,             \* program counter of each caller
    nowOf,          \* the `now` each caller read
    newTok,         \* the new_tokens each caller computed
    cur,            \* the `current` each caller holds in its CAS loop
    amt,            \* the amount each caller asks for
    granted         \* history: the tokens handed out so far

vars == <<tokens, lastRefill, clock, pc, nowOf, newTok, cur, amt, granted>>

TypeOK ==
    /\ tokens \in 0..U32Max
    /\ lastRefill \in 0..ClockMax
    /\ clock \in 0..ClockMax
    /\ pc \in [Callers -> Pcs]
    /\ nowOf \in [Callers -> 0..ClockMax]
    /\ newTok \in [Callers -> 0..U32Max]
    /\ cur \in [Callers -> 0..U32Max]
    /\ amt \in [Callers -> Amounts]
    /\ granted \in Nat

\* RateLimiter::new(capacity, refill_rate): a full bucket, last_refill now.
Init ==
    /\ tokens = Capacity
    /\ lastRefill = 0
    /\ clock = 0
    /\ pc = [c \in Callers |-> "idle"]
    /\ nowOf = [c \in Callers |-> 0]
    /\ newTok = [c \in Callers |-> 0]
    /\ cur = [c \in Callers |-> 0]
    /\ amt = [c \in Callers |-> CHOOSE n \in Amounts : TRUE]
    /\ granted = 0

\* The wall clock moves on.
Tick ==
    /\ clock + TickMs <= ClockMax
    /\ clock' = clock + TickMs
    /\ UNCHANGED <<tokens, lastRefill, pc, nowOf, newTok, cur, amt, granted>>

\* try_consume(amount) calls refill_if_needed, whose first act is to read
\* the clock: let now = unix_timestamp_ms().
TryConsume(c, n) ==
    /\ pc[c] = "idle"
    /\ amt' = [amt EXCEPT ![c] = n]
    /\ nowOf' = [nowOf EXCEPT ![c] = clock]
    /\ pc' = [pc EXCEPT ![c] = "loadLast"]
    /\ UNCHANGED <<tokens, lastRefill, clock, newTok, cur, granted>>

\* let last = last_refill.load(); now - last, which panics in a debug build
\* when last > now; then the two early returns: less than 10 ms elapsed
\* (elapsed_seconds < 0.01), or no whole token to add.
LoadLast(c) ==
    LET elapsed == TimeSub(nowOf[c], lastRefill)
    IN  /\ pc[c] = "loadLast"
        /\ CASE Build = "debug" /\ lastRefill > nowOf[c] ->
                  /\ pc' = [pc EXCEPT ![c] = "panicked"]
                  /\ UNCHANGED newTok
             []  elapsed < 10 \/ NewTokens(elapsed) = 0 ->
                  /\ pc' = [pc EXCEPT ![c] = "consumeLoad"]
                  /\ UNCHANGED newTok
             []  OTHER ->
                  /\ newTok' = [newTok EXCEPT ![c] = NewTokens(elapsed)]
                  /\ pc' = [pc EXCEPT ![c] = "refillLoad"]
        /\ UNCHANGED <<tokens, lastRefill, clock, nowOf, cur, amt, granted>>

\* let mut current = current_tokens.load() before the refill's CAS loop.
RefillLoad(c) ==
    /\ pc[c] = "refillLoad"
    /\ cur' = [cur EXCEPT ![c] = tokens]
    /\ pc' = [pc EXCEPT ![c] = "refillCas"]
    /\ UNCHANGED <<tokens, lastRefill, clock, nowOf, newTok, amt, granted>>

\* (current + new_tokens).min(capacity), then compare_exchange: on success
\* go on to store last_refill, on failure retry with the actual value.
RefillCas(c) ==
    LET sum == cur[c] + newTok[c]
        newValue == IF sum % 2^TokenBits < Capacity
                    THEN sum % 2^TokenBits ELSE Capacity
    IN  /\ pc[c] = "refillCas"
        /\ IF Build = "debug" /\ sum > U32Max
           THEN /\ pc' = [pc EXCEPT ![c] = "panicked"]
                /\ UNCHANGED <<tokens, cur>>
           ELSE IF tokens = cur[c]
                THEN /\ tokens' = newValue
                     /\ pc' = [pc EXCEPT ![c] = "storeLast"]
                     /\ UNCHANGED cur
                ELSE /\ cur' = [cur EXCEPT ![c] = tokens]
                     /\ UNCHANGED <<tokens, pc>>
        /\ UNCHANGED <<lastRefill, clock, nowOf, newTok, amt, granted>>

\* Mutant: the refill forgets to move last_refill.
StoreLastForgotten(c) ==
    /\ pc[c] = "storeLast"
    /\ pc' = [pc EXCEPT ![c] = "consumeLoad"]
    /\ UNCHANGED <<tokens, lastRefill, clock, nowOf, newTok, cur, amt, granted>>

\* last_refill.store(now), after the successful CAS.
StoreLast(c) ==
    /\ pc[c] = "storeLast"
    /\ lastRefill' = nowOf[c]
    /\ pc' = [pc EXCEPT ![c] = "consumeLoad"]
    /\ UNCHANGED <<tokens, clock, nowOf, newTok, cur, amt, granted>>

\* let mut current = current_tokens.load() before the consuming CAS loop.
ConsumeLoad(c) ==
    /\ pc[c] = "consumeLoad"
    /\ cur' = [cur EXCEPT ![c] = tokens]
    /\ pc' = [pc EXCEPT ![c] = "consumeCas"]
    /\ UNCHANGED <<tokens, lastRefill, clock, nowOf, newTok, amt, granted>>

\* Mutant: the consuming loop without its `current < amount` check.
ConsumeCasUnchecked(c) ==
    /\ pc[c] = "consumeCas"
    /\ IF tokens = cur[c]
       THEN /\ tokens' = cur[c] - amt[c]
            /\ granted' = granted + amt[c]
            /\ pc' = [pc EXCEPT ![c] = "idle"]
            /\ UNCHANGED cur
       ELSE /\ cur' = [cur EXCEPT ![c] = tokens]
            /\ UNCHANGED <<tokens, pc, granted>>
    /\ UNCHANGED <<lastRefill, clock, nowOf, newTok, amt>>

\* One turn of the consuming loop: return false if current < amount, else
\* compare_exchange(current, current - amount); true on success, retry with
\* the actual value on failure.
ConsumeCas(c) ==
    /\ pc[c] = "consumeCas"
    /\ IF cur[c] < amt[c]
       THEN /\ pc' = [pc EXCEPT ![c] = "idle"]
            /\ UNCHANGED <<tokens, cur, granted>>
       ELSE IF tokens = cur[c]
            THEN /\ tokens' = cur[c] - amt[c]
                 /\ granted' = granted + amt[c]
                 /\ pc' = [pc EXCEPT ![c] = "idle"]
                 /\ UNCHANGED cur
            ELSE /\ cur' = [cur EXCEPT ![c] = tokens]
                 /\ UNCHANGED <<tokens, pc, granted>>
    /\ UNCHANGED <<lastRefill, clock, nowOf, newTok, amt>>

Next ==
    \/ Tick
    \/ \E c \in Callers :
          \/ \E n \in Amounts : TryConsume(c, n)
          \/ LoadLast(c)
          \/ RefillLoad(c)
          \/ RefillCas(c)
          \/ StoreLast(c)
          \/ ConsumeLoad(c)
          \/ ConsumeCas(c)

Spec == Init /\ [][Next]_vars

-----------------------------------------------------------------------------

\* The rate promise of a token bucket (spec, section 8, scenario S4: with
\* capacity 100 and refill 50/s, a burst gets 100 and then fails): by clock
\* time t, try_consume has granted at most the capacity plus the tokens
\* refill_rate earns in t.  A refill that credits an interval twice, or
\* that misreads the elapsed time, breaks it.
RateBound == granted <= Capacity + (clock * RefillRate) \div 1000

\* The last_refill a caller's refill has committed to: its successful CAS
\* is where the refill takes effect, the store that follows only
\* publishes the instant.
CommittedRefill ==
    IF \E c \in Callers : pc[c] = "storeLast"
    THEN nowOf[CHOOSE c \in Callers : pc[c] = "storeLast"]
    ELSE lastRefill

Abstract == INSTANCE RateLimiterSpec WITH lastRefill <- CommittedRefill

\* try_consume implements the atomic token bucket of RateLimiterSpec: each
\* refill_if_needed is one refill at its CAS and each consuming CAS one
\* consume, with the early returns, the retries and the loads as
\* stuttering steps.  Interleaved callers break it: a refill computed
\* from a last_refill that another caller has since moved credits an
\* interval twice.
ImplementsRateLimiterSpec == Abstract!Spec

\* The arithmetic of refill_if_needed (now - last in u64, current +
\* new_tokens in u32) never overflows, so try_consume never panics in a
\* debug build.
NoOverflowPanic == \A c \in Callers : pc[c] # "panicked"

=============================================================================
