------------------------------ MODULE MCReading ------------------------------
EXTENDS Reading

Day == 24

\* A popular repository with quick releases; one without releases, as the
\* collectors store it; one that no listing maps and nothing scores.
SomeRows ==
  {[stars |-> 60000, issues |-> 100, push |-> [parsed |-> TRUE, hours |-> Day], described |-> TRUE,
    releases |-> <<100 * Day, 90 * Day, 70 * Day, 61 * Day, 60 * Day, 2 * Day>>],
   [stars |-> 40, issues |-> 5, push |-> [parsed |-> FALSE, hours |-> 0], described |-> TRUE, releases |-> <<>>],
   [stars |-> 7, issues |-> 0, push |-> NoPush, described |-> FALSE, releases |-> <<>>]}
==============================================================================
