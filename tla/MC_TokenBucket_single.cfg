\* One caller of try_consume: the rate promise holds.
CONSTANTS
    c1 = c1
    c2 = c2
    Callers <- MCCallersOne
    Capacity = 2
    RefillRate = 100
    Amounts = {1, 2}
    TokenBits = 8
    TimeBits = 16
    TickMs = 5
    ClockMax = 40
    Build = "debug"
INIT Init
NEXT Next
INVARIANT TypeOK
INVARIANT RateBound
PROPERTY ImplementsRateLimiterSpec
