----------------------------- MODULE MC_Gossip -----------------------------
(* Three peers, three messages, a fanout of one (so that the random cut    *)
(* happens), a known set of capacity two with a TTL of two ticks, and a    *)
(* cache of two.                                                           *)
EXTENDS Gossip

CONSTANTS r1, r2, r3, g1, g2, g3

MCPeers == {r1, r2, r3}
MCHashes == {g1, g2, g3}
=============================================================================
