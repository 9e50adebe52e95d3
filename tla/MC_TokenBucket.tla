--------------------------- MODULE MC_TokenBucket ---------------------------
(* A small instance of TokenBucket: u8 tokens and u16 timestamps keep the  *)
(* ratios of the code's u32 and u64 (an underflowed elapsed time saturates *)
(* the cast to the token type), with a 5 ms clock step so that both early  *)
(* returns and a one-token refill (100 tokens/s over 10 ms) happen.        *)
EXTENDS TokenBucket

CONSTANTS c1, c2

MCCallersOne == {c1}
MCCallersTwo == {c1, c2}
=============================================================================
