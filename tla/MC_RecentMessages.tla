------------------------- MODULE MC_RecentMessages -------------------------
(* Three hashes and a capacity of two, so that the set fills up; a TTL of  *)
(* three ticks, so that entries both expire and are evicted before expiry. *)
EXTENDS RecentMessages

CONSTANTS h1, h2, h3

MCHashes == {h1, h2, h3}
=============================================================================
