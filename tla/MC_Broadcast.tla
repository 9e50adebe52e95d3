---------------------------- MODULE MC_Broadcast ----------------------------
(* Two active peers, two protocols, and three messages with distinct       *)
(* hashes, against a recent set of capacity two and a TTL of two ticks, so *)
(* that insert evicts a live hash.                                         *)
(* One protocol uses RandomSubset{0.5, 1}, the other the default AllPeers. *)
EXTENDS Broadcast

CONSTANTS q1, q2, Discovery, Transaction, Build

Codec == INSTANCE MessageCodec

MCPeers == {q1, q2}
\* hash_message, as MessageCodec computes it.
MCHash(m) == Codec!HashMessage(m)

MCMsgs == {Codec!MessageNew(0, 1, <<>>), Codec!MessageNew(1, 1, <<>>),
          Codec!MessageNew(2, 1, <<7>>)}
MCHashes == {MCHash(m) : m \in MCMsgs}
MCProtocols == {Discovery, Transaction}
MCPolicies ==
    [p \in {Transaction} |-> [kind |-> "RandomSubset", num |-> 1, den |-> 2, min |-> 1]]
MCDefault == [kind |-> "AllPeers"]
=============================================================================
