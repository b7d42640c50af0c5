------------------------------- MODULE Catalog -------------------------------
(***************************************************************************)
(* What the collector runtime promises, without processes, retries or      *)
(* failures: a run publishes its rows all at once and at most once, and    *)
(* reports afterwards, truthfully, how many they were.                     *)
(***************************************************************************)
EXTENDS Naturals, FiniteSets

CONSTANTS
  Names,    \* full names of entities
  Rows,     \* what can be stored for one
  Runs,     \* identities of runs
  NoRow,    \* an entity that is not stored
  NoReport  \* a run that has not reported

VARIABLES
  entities,   \* the stored row of each name
  published,  \* how many rows each run has published
  report      \* how many rows each run says it has published

vars == <<entities, published, report>>

Init ==
  /\ entities = [n \in Names |-> NoRow]
  /\ published = [r \in Runs |-> 0]
  /\ report = [r \in Runs |-> NoReport]

Publish(r) ==
  /\ published[r] = 0 /\ report[r] = NoReport
  /\ entities' \in [Names -> Rows \cup {NoRow}]
  /\ \E written \in SUBSET Names :
       /\ \A n \in Names : IF n \in written THEN entities'[n] \in Rows ELSE entities'[n] = entities[n]
       /\ published' = [published EXCEPT ![r] = Cardinality(written)]
  /\ UNCHANGED report

Report(r) ==
  /\ report[r] = NoReport
  /\ report' = [report EXCEPT ![r] = published[r]]
  /\ UNCHANGED <<entities, published>>

Next == \E r \in Runs : Publish(r) \/ Report(r)

Spec == Init /\ [][Next]_vars
==============================================================================
