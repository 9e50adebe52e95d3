\* Two concurrent callers (release build): the rate promise.
CONSTANTS
    c1 = c1
    c2 = c2
    Callers <- MCCallersTwo
    Capacity = 2
    RefillRate = 100
    Amounts = {1, 2}
    TokenBits = 8
    TimeBits = 16
    TickMs = 5
    ClockMax = 20
    Build = "release"
INIT Init
NEXT Next
INVARIANT RateBound
