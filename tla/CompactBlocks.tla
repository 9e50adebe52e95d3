--------------------------- MODULE CompactBlocks ---------------------------
(***************************************************************************)
(* network/block_propagation.rs, BlockPropagator, as NetworkService        *)
(* creates it in setup_block_propagation (compact blocks on, threshold     *)
(* 0.8) and calls it from propagate_block and handle_compact_block, each   *)
(* under the propagator's write lock, so each call is one step.            *)
(*                                                                         *)
(* Transaction::hash and Block::hash are placeholders that return 32 zero  *)
(* bytes; the model keeps them.  A hash is abstracted to its first 8 bytes *)
(* read as a little-endian u64 (what a short id keeps) and the rest.  The  *)
(* f32 prevalence and threshold are given in hundredths.  The announcements *)
(* propagate_block prepares are never sent (the code only logs their      *)
(* counts), so compact_blocks_enabled changes no state and is left out.   *)
(***************************************************************************)
EXTENDS Naturals, Sequences

CONSTANTS
    Headers,        \* block headers, opaque
    Txs,            \* transactions, opaque
    MaxTxs,         \* the most transactions in a block explored
    PrevalencePct,  \* estimate_transaction_prevalence, x100 (0.8 in the code)
    ThresholdPct    \* mempool_prevalence_threshold, x100 (0.8 in the service)

\* A 32-byte hash: the u64 of its first 8 bytes, and the other 24 bytes.
ZeroHash == [prefix |-> 0, rest |-> 0]

\* Transaction::hash and Block::hash: [0; 32] for every argument.
TxHash(tx) == ZeroHash
BlockHash(b) == ZeroHash

\* create_short_transaction_id: u64::from_le_bytes of the first 8 bytes.
ShortId(h) == h.prefix

Blocks == [header : Headers,
           transactions : UNION {[1..n -> Txs] : n \in 0..MaxTxs}]

\* estimate_transaction_prevalence: a fixed placeholder value.
EstimatePrevalence(h) == PrevalencePct

\* create_compact_block: each transaction becomes a short id when its
\* estimated prevalence exceeds the threshold, else its full hash, in order.
CreateCompactBlock(b) ==
    LET txs == b.transactions
        short == EstimatePrevalence(ZeroHash) > ThresholdPct
    IN  [kind |-> "CompactBlock",
         header |-> b.header,
         shortIds |-> IF short THEN [i \in 1..Len(txs) |-> ShortId(TxHash(txs[i]))]
                               ELSE <<>>,
         missingHashes |-> IF short THEN <<>>
                                    ELSE [i \in 1..Len(txs) |-> TxHash(txs[i])]]

\* The two other forms propagate_block prepares.
FullBlock(b) == [kind |-> "FullBlock", block |-> b]
HeaderOnly(b) == [kind |-> "HeaderOnly", header |-> b.header]

\* The announcements a peer running this code can send.
Announcements ==
    {CreateCompactBlock(b) : b \in Blocks} \cup {FullBlock(b) : b \in Blocks}
      \cup {HeaderOnly(b) : b \in Blocks}

\* lookup_transaction_by_short_id: always None.
LookupByShortId(mp, sid) == {}

\* verify_block_integrity: always true.
VerifyBlockIntegrity(b) == TRUE

\* handle_compact_block: every short id is looked up (the found ones kept
\* in order); any short id not found, or any missing hash, gives Ok(None);
\* otherwise the block is rebuilt and verify_block_integrity (always true)
\* lets it through.  Another form is an error.
HandleResult(mp, ann) ==
    IF ann.kind # "CompactBlock" THEN [status |-> "notCompact"]
    ELSE LET found == {i \in 1..Len(ann.shortIds) :
                         LookupByShortId(mp, ann.shortIds[i]) # {}}
         IN  IF found # 1..Len(ann.shortIds) \/ ann.missingHashes # <<>>
             THEN [status |-> "incomplete"]
             ELSE LET b == [header |-> ann.header,
                            transactions |-> [i \in 1..Len(ann.shortIds) |->
                               CHOOSE tx \in LookupByShortId(mp, ann.shortIds[i]) : TRUE]]
                  IN  IF VerifyBlockIntegrity(b) THEN [status |-> "ok", block |-> b]
                      ELSE [status |-> "integrityFailed"]

VARIABLES
    mempool,        \* mempool: the hashes present, with their transaction
    seenBlocks,     \* seen_blocks
    requested,      \* history: the blocks handed to propagate_block
    announced,      \* history: the blocks propagate_block went on to announce
    handled         \* history: the last announcement handled and its result

\* No announcement handled yet.
NoneHandled == [ann |-> [kind |-> "none"], result |-> [status |-> "none"]]

vars == <<mempool, seenBlocks, requested, announced, handled>>

TypeOK ==
    /\ mempool \in [DOMAIN mempool -> Txs]
    /\ DOMAIN mempool \subseteq {ZeroHash}
    /\ seenBlocks \subseteq {ZeroHash}
    /\ requested \subseteq Blocks
    /\ announced \subseteq requested
    /\ handled = NoneHandled \/ handled.ann \in Announcements

\* BlockPropagator::new: empty mempool and seen set.
Init ==
    /\ mempool = [h \in {} |-> CHOOSE tx \in Txs : TRUE]
    /\ seenBlocks = {}
    /\ requested = {}
    /\ announced = {}
    /\ handled = NoneHandled

\* add_transaction_to_mempool: insert under the transaction's hash,
\* replacing what was there.
AddTransactionToMempool(tx) ==
    /\ mempool' = [h \in DOMAIN mempool \cup {TxHash(tx)} |->
                     IF h = TxHash(tx) THEN tx ELSE mempool[h]]
    /\ UNCHANGED <<seenBlocks, requested, announced, handled>>

\* NetworkService::propagate_block, then BlockPropagator::propagate_block:
\* return at once for a seen block hash, else mark it seen and prepare the
\* announcements (the compact one through create_compact_block when
\* enabled), which the code only counts in a log line.
PropagateBlock(b) ==
    /\ requested' = requested \cup {b}
    /\ IF BlockHash(b) \in seenBlocks
       THEN UNCHANGED <<seenBlocks, announced>>
       ELSE /\ seenBlocks' = seenBlocks \cup {BlockHash(b)}
            /\ announced' = announced \cup {b}
    /\ UNCHANGED <<mempool, handled>>

\* NetworkService::handle_compact_block, then the propagator's.
HandleCompactBlock(ann) ==
    /\ handled' = [ann |-> ann, result |-> HandleResult(mempool, ann)]
    /\ UNCHANGED <<mempool, seenBlocks, requested, announced>>

Next ==
    \/ \E tx \in Txs : AddTransactionToMempool(tx)
    \/ \E b \in Blocks : PropagateBlock(b)
    \/ \E ann \in Announcements : HandleCompactBlock(ann)

Spec == Init /\ [][Next]_vars

-----------------------------------------------------------------------------

\* Spec property 6 (and scenario S5): a compact block built from block B by
\* create_compact_block, handled by a node whose mempool holds every
\* transaction of B, comes back from handle_compact_block as a block with
\* B's header and B's transactions in B's order.
CompactRoundTrip ==
    \A b \in Blocks :
        /\ handled.ann = CreateCompactBlock(b)
        /\ \A i \in 1..Len(b.transactions) :
              \E h \in DOMAIN mempool : mempool[h] = b.transactions[i]
        => handled.result = [status |-> "ok", block |-> b]

\* Duplicate suppression (section 4.10) keeps only blocks already observed
\* from being announced again, so every distinct block handed to
\* propagate_block has been announced.
EveryNewBlockAnnounced == requested \subseteq announced

=============================================================================
