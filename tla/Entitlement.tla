----------------------------- MODULE Entitlement -----------------------------
(***************************************************************************)
(* What the billing component promises about premium, free of the webhook, *)
(* its tables, customers, retries and faults.  Premium changes for one     *)
(* user at a time.  It is granted to a user who has bought a subscription, *)
(* and taken from a user one of whose subscriptions has ended, even if he  *)
(* has bought another one.  Billing implements this specification (see     *)
(* BillingProofs).                                                         *)
(***************************************************************************)
CONSTANTS
  Users,   \* those who can be premium
  Payers,  \* those who can buy a subscription, the users among them
  Subs     \* subscriptions

VARIABLES
  bought,  \* pairs of a subscription and its payer
  ended,   \* the subscriptions that have ended
  premium  \* who is premium

vars == <<bought, ended, premium>>

Init ==
  /\ bought = {}
  /\ ended = {}
  /\ premium = [u \in Users |-> FALSE]

Buy(p, s) ==
  /\ \A q \in Payers : <<s, q>> \notin bought
  /\ bought' = bought \cup {<<s, p>>}
  /\ UNCHANGED <<ended, premium>>

End(s) ==
  /\ \E p \in Payers : <<s, p>> \in bought
  /\ s \notin ended
  /\ ended' = ended \cup {s}
  /\ UNCHANGED <<bought, premium>>

Grant(u) ==
  /\ \E s \in Subs : <<s, u>> \in bought
  /\ premium' = [premium EXCEPT ![u] = TRUE]
  /\ UNCHANGED <<bought, ended>>

Revoke(u) ==
  /\ \E s \in ended : <<s, u>> \in bought
  /\ premium' = [premium EXCEPT ![u] = FALSE]
  /\ UNCHANGED <<bought, ended>>

Next ==
  \/ \E p \in Payers, s \in Subs : Buy(p, s)
  \/ \E s \in Subs : End(s)
  \/ \E u \in Users : Grant(u) \/ Revoke(u)

Spec == Init /\ [][Next]_vars
==============================================================================
