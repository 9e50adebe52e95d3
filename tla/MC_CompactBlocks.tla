-------------------------- MODULE MC_CompactBlocks --------------------------
EXTENDS CompactBlocks

CONSTANTS hd1, hd2, t1, t2

MCHeaders == {hd1, hd2}
MCTxs == {t1, t2}

=============================================================================
