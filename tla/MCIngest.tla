------------------------------- MODULE MCIngest -------------------------------
EXTENDS Ingest

CONSTANTS n1, n2

\* Two of the three seed searches; n2 has both topics, and the first search is
\* answered without items now and then, which leaves n1 out and moves n2.
TwoSearches == <<[ecosystem |-> "npm", answers |-> {{n1, n2}, {}}],
                 [ecosystem |-> "cargo", answers |-> {{n2}}]>>
==============================================================================
