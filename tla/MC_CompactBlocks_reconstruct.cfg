CONSTANTS
    hd1 = hd1
    hd2 = hd2
    t1 = t1
    t2 = t2
    Headers <- MCHeaders
    Txs <- MCTxs
    MaxTxs = 2
    PrevalencePct = 80
    ThresholdPct = 80
SPECIFICATION Spec
INVARIANT CompactRoundTrip
