---------------------------- MODULE MC_Discovery ----------------------------
EXTENDS Discovery

CONSTANTS a1, a2, a3, n1, n2, s1

MCAddrs == {a1, a2, a3}
MCBootstrapNodes == <<n1, n2>>
\* n1 resolves to a1; n2 does not resolve.
MCResolved == [n \in {n1, n2} |-> IF n = n1 THEN <<a1>> ELSE <<>>]
MCDnsSeeds == <<s1>>
\* s1 fails, or answers with a1 and a2, or with a3.
MCDnsAnswers == [s \in {s1} |-> {<<>>, <<a1, a2>>, <<a3>>}]

=============================================================================
