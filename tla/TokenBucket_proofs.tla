------------------------- MODULE TokenBucket_proofs -------------------------
(***************************************************************************)
(* Proofs about TokenBucket for every value of the constants: try_consume  *)
(* keeps every variable in its machine type for any number of concurrent   *)
(* callers, including the wrap-around of a release build.  That the bucket *)
(* implements RateLimiterSpec is checked by TLC only: it holds for a lone  *)
(* caller in a debug build and fails under the two departures the runs     *)
(* show (two callers, and the u32 wrap of a release build).               *)
(***************************************************************************)
EXTENDS TokenBucket, TLAPS

\* The facts about the constants that the steps below need.
LEMMA ConstantFacts ==
    /\ U32Max \in Nat /\ 2^TokenBits = U32Max + 1
    /\ 2^TimeBits \in Nat \ {0} /\ ClockMax \in Nat /\ ClockMax < 2^TimeBits
    /\ Capacity \in 0..U32Max
    /\ RefillRate \in Nat /\ Amounts \subseteq Nat /\ Amounts # {}
    /\ TickMs \in Nat \ {0}
BY TokenBucketAssumption DEF U32Max

\* new_tokens is a u32.
LEMMA NewTokensType ==
    ASSUME NEW e \in Nat
    PROVE  NewTokens(e) \in 0..U32Max
BY ConstantFacts DEF NewTokens

\* A wrapped u64 difference of two instants is a natural.
LEMMA TimeSubType ==
    ASSUME NEW now \in 0..ClockMax, NEW last \in 0..ClockMax
    PROVE  TimeSub(now, last) \in Nat
BY ConstantFacts DEF TimeSub

-----------------------------------------------------------------------------
(* Type correctness, for any set of callers.                               *)

LEMMA InitType == Init => TypeOK
<1>1. (CHOOSE n \in Amounts : TRUE) \in Amounts
  BY ConstantFacts
<1>. QED
  BY <1>1, ConstantFacts DEF Init, TypeOK, Pcs

LEMMA TickType == TypeOK /\ Tick => TypeOK'
BY ConstantFacts DEF TypeOK, Tick

LEMMA TryConsumeType ==
    ASSUME TypeOK, NEW c \in Callers, NEW n \in Amounts, TryConsume(c, n)
    PROVE  TypeOK'
BY ConstantFacts DEF TypeOK, TryConsume, Pcs

LEMMA LoadLastType ==
    ASSUME TypeOK, NEW c \in Callers, LoadLast(c)
    PROVE  TypeOK'
<1>1. TimeSub(nowOf[c], lastRefill) \in Nat
  BY TimeSubType DEF TypeOK
<1>2. NewTokens(TimeSub(nowOf[c], lastRefill)) \in 0..U32Max
  BY <1>1, NewTokensType
<1>. QED
  BY <1>2 DEF TypeOK, LoadLast, Pcs

LEMMA RefillLoadType ==
    ASSUME TypeOK, NEW c \in Callers, RefillLoad(c)
    PROVE  TypeOK'
BY DEF TypeOK, RefillLoad, Pcs

LEMMA RefillCasType ==
    ASSUME TypeOK, NEW c \in Callers, RefillCas(c)
    PROVE  TypeOK'
<1>1. (cur[c] + newTok[c]) % 2^TokenBits \in 0..U32Max
  BY ConstantFacts DEF TypeOK
<1>. QED
  BY <1>1, ConstantFacts DEF TypeOK, RefillCas, Pcs

LEMMA StoreLastType ==
    ASSUME TypeOK, NEW c \in Callers, StoreLast(c)
    PROVE  TypeOK'
BY DEF TypeOK, StoreLast, Pcs

LEMMA ConsumeLoadType ==
    ASSUME TypeOK, NEW c \in Callers, ConsumeLoad(c)
    PROVE  TypeOK'
BY DEF TypeOK, ConsumeLoad, Pcs

LEMMA ConsumeCasType ==
    ASSUME TypeOK, NEW c \in Callers, ConsumeCas(c)
    PROVE  TypeOK'
<1>1. CASE cur[c] < amt[c]
  BY <1>1 DEF TypeOK, ConsumeCas, Pcs
<1>2. CASE ~(cur[c] < amt[c]) /\ tokens = cur[c]
  <2>1. amt[c] \in Nat
    BY ConstantFacts DEF TypeOK
  <2>. QED
    BY <1>2, <2>1, ConstantFacts DEF TypeOK, ConsumeCas, Pcs
<1>3. CASE ~(cur[c] < amt[c]) /\ tokens # cur[c]
  BY <1>3 DEF TypeOK, ConsumeCas, Pcs
<1>. QED
  BY <1>1, <1>2, <1>3

LEMMA NextType == TypeOK /\ [Next]_vars => TypeOK'
<1>. SUFFICES ASSUME TypeOK, [Next]_vars PROVE TypeOK'
  OBVIOUS
<1>1. CASE Tick
  BY <1>1, TickType
<1>2. CASE \E c \in Callers :
              \/ \E n \in Amounts : TryConsume(c, n)
              \/ LoadLast(c) \/ RefillLoad(c) \/ RefillCas(c)
              \/ StoreLast(c) \/ ConsumeLoad(c) \/ ConsumeCas(c)
  BY <1>2, TryConsumeType, LoadLastType, RefillLoadType, RefillCasType,
     StoreLastType, ConsumeLoadType, ConsumeCasType
<1>3. CASE UNCHANGED vars
  BY <1>3 DEF TypeOK, vars
<1>. QED
  BY <1>1, <1>2, <1>3 DEF Next

\* try_consume keeps every field, load and intermediate result within its
\* machine type, for any number of callers and either build.
THEOREM TypeCorrect == Spec => []TypeOK
BY InitType, NextType, PTL DEF Spec

=============================================================================
