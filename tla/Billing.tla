------------------------------- MODULE Billing -------------------------------
(***************************************************************************)
(* Premium subscriptions: chassis/src/billing.rs and the two billing       *)
(* routes of server/src/handlers.rs.                                       *)
(*                                                                         *)
(* A signed-in user pays in a Stripe checkout session.  Stripe reports     *)
(* "checkout.session.completed" and, when the subscription ends,           *)
(* "customer.subscription.deleted" to the webhook, at least once and in    *)
(* no promised order, until it is answered 200 or Stripe gives up.         *)
(* Handling an event is two autocommitted statements under the database    *)
(* mutex: the subscriptions row, then users.premium.  The process may stop *)
(* or SQLite may refuse the second one in between; the answer is then not  *)
(* 200 and Stripe sends the event again.                                   *)
(***************************************************************************)
EXTENDS Naturals, FiniteSets

CONSTANTS
  Users,      \* ids with a row in the users table
  Strangers,  \* client_reference_ids without one (a DEV_USER_ID never signed in)
  Subs,       \* Stripe subscriptions
  Customers,  \* Stripe customers
  Deliveries, \* ways Stripe may deliver: "in_order", "any_order" with give-ups
  MaxFaults,  \* bound of the run: interrupted handlers and lost answers
  NoSale,     \* a subscription nobody has bought yet
  NoRow,      \* a subscription without a subscriptions row
  Idle        \* no webhook holds the database mutex

ASSUME BillingAssumption ==
  /\ Users \cap Strangers = {}
  /\ Deliveries \subseteq {"in_order", "any_order"}
  /\ MaxFaults \in Nat

Kinds == {"completed", "deleted"}
Events == Subs \X Kinds

Sale == [user : Users \cup Strangers, customer : Customers]
SubscriptionRow == [user : Users, customer : Customers, status : {"active", "canceled"}]

ASSUME SentinelAssumption == NoSale \notin Sale /\ NoRow \notin SubscriptionRow /\ Idle \notin Events

VARIABLES
  delivery,   \* Stripe: how it delivers in this behaviour
  sale,       \* Stripe: who bought a subscription, as which customer
  cancelled,  \* Stripe: subscriptions that have ended
  outbox,     \* Stripe: "unsent", "pending", "acked", "resent" or "dropped" per event
  rows,       \* subscriptions table, keyed by stripe_subscription_id
  premium,    \* users.premium
  handling,   \* the event between its two statements, or Idle
  faults      \* interrupted handlers and lost answers so far

stripeVars == <<delivery, sale, cancelled>>
vars == <<delivery, sale, cancelled, outbox, rows, premium, handling, faults>>

Init ==
  /\ delivery \in Deliveries
  /\ sale = [s \in Subs |-> NoSale]
  /\ cancelled = {}
  /\ outbox = [e \in Events |-> "unsent"]
  /\ rows = [s \in Subs |-> NoRow]
  /\ premium = [u \in Users |-> FALSE]
  /\ handling = Idle
  /\ faults = 0

------------------------------------------------------------------------------
(***************************************************************************)
(* Stripe.                                                                 *)
(***************************************************************************)
Sold == {s \in Subs : sale[s] # NoSale}

\* The form names the payer (client_reference_id) and no customer, so every
\* checkout session ends with a customer of its own.
Checkout(u, s, c) ==
  /\ s \notin Sold
  /\ \A t \in Sold : sale[t].customer # c
  /\ sale' = [sale EXCEPT ![s] = [user |-> u, customer |-> c]]
  /\ outbox' = [outbox EXCEPT ![<<s, "completed">>] = "pending"]
  /\ UNCHANGED <<delivery, cancelled, rows, premium, handling, faults>>

Cancel(s) ==
  /\ s \in Sold \ cancelled
  /\ cancelled' = cancelled \cup {s}
  /\ outbox' = [outbox EXCEPT ![<<s, "deleted">>] = "pending"]
  /\ UNCHANGED <<delivery, sale, rows, premium, handling, faults>>

Outstanding(e) == outbox[e] \in {"pending", "resent", "dropped"}

\* With in-order delivery the end of a subscription is only reported once its
\* beginning has been acknowledged, and the beginning is not replayed after it.
Deliverable(s, kind) ==
  /\ outbox[<<s, kind>>] \in {"pending", "resent"}
  /\ delivery = "in_order" /\ kind = "deleted" => outbox[<<s, "completed">>] = "acked"

\* Stripe may send an event again that it has already seen acknowledged.
Resend(s, kind) ==
  /\ outbox[<<s, kind>>] = "acked"
  /\ delivery = "in_order" /\ kind = "completed" => outbox[<<s, "deleted">>] = "unsent"
  /\ outbox' = [outbox EXCEPT ![<<s, kind>>] = "resent"]
  /\ UNCHANGED <<stripeVars, rows, premium, handling, faults>>

GiveUp(e) ==
  /\ delivery = "any_order"
  /\ outbox[e] \in {"pending", "resent"}
  /\ handling # e
  /\ outbox' = [outbox EXCEPT ![e] = "dropped"]
  /\ UNCHANGED <<stripeVars, rows, premium, handling, faults>>

------------------------------------------------------------------------------
(***************************************************************************)
(* The webhook.                                                            *)
(***************************************************************************)
\* A 200 reaches Stripe, or is lost and the event stays outstanding.
Answer200(e) ==
  \/ /\ outbox' = [outbox EXCEPT ![e] = "acked"]
     /\ UNCHANGED faults
  \/ /\ faults < MaxFaults
     /\ faults' = faults + 1
     /\ UNCHANGED outbox

\* First statement of on_checkout_completed: INSERT, or on conflict reactivate
\* and take over the customer; the row keeps its user.  An unknown user breaks
\* the foreign key: 500, nothing changes.
Activated(s) ==
  IF rows[s] = NoRow
  THEN [user |-> sale[s].user, customer |-> sale[s].customer, status |-> "active"]
  ELSE [rows[s] EXCEPT !.status = "active", !.customer = sale[s].customer]

\* MutantReceiveCompleted: the foreign key is not enforced.
MutantReceiveCompleted(s) ==
  /\ handling = Idle
  /\ Deliverable(s, "completed")
  /\ rows' = [rows EXCEPT ![s] = Activated(s)]
  /\ handling' = <<s, "completed">>
  /\ UNCHANGED <<stripeVars, outbox, premium, faults>>

ReceiveCompleted(s) ==
  /\ handling = Idle
  /\ Deliverable(s, "completed")
  /\ sale[s].user \in Users
  /\ rows' = [rows EXCEPT ![s] = Activated(s)]
  /\ handling' = <<s, "completed">>
  /\ UNCHANGED <<stripeVars, outbox, premium, faults>>

\* First statement of on_subscription_deleted.
ReceiveDeleted(s) ==
  /\ handling = Idle
  /\ Deliverable(s, "deleted")
  /\ rows[s] # NoRow
  /\ rows' = [rows EXCEPT ![s].status = "canceled"]
  /\ handling' = <<s, "deleted">>
  /\ UNCHANGED <<stripeVars, outbox, premium, faults>>

\* No such row: 200 {"ignored":true}.
IgnoreDeleted(s) ==
  /\ handling = Idle
  /\ Deliverable(s, "deleted")
  /\ rows[s] = NoRow
  /\ Answer200(<<s, "deleted">>)
  /\ UNCHANGED <<stripeVars, rows, premium, handling>>

\* Rows set_premium may find for a customer; LIMIT 1 takes any of them.
\* MutantLinkedActive: only active rows link.  MutantLinkedAny: every row does.
MutantLinkedActive(c) ==
  {t \in Subs : rows[t] # NoRow /\ rows[t].customer = c /\ rows[t].status = "active"}
MutantLinkedAny(c) == {t \in Subs : rows[t] # NoRow}

Linked(c) == {t \in Subs : rows[t] # NoRow /\ rows[t].customer = c}

\* Second statement: set_premium on the user linked to the event's customer.
\* Its error path, no linked user, has no action: AlwaysLinked shows it dead.
\* MutantSetPremium: the UPDATE without its WHERE.
MutantSetPremium(s, kind) ==
  /\ handling = <<s, kind>>
  /\ premium' = [u \in Users |-> kind = "completed"]
  /\ handling' = Idle
  /\ Answer200(<<s, kind>>)
  /\ UNCHANGED <<stripeVars, rows>>

SetPremium(s, kind) ==
  /\ handling = <<s, kind>>
  /\ \E t \in Linked(sale[s].customer) :
       premium' = [premium EXCEPT ![rows[t].user] = (kind = "completed")]
  /\ handling' = Idle
  /\ Answer200(<<s, kind>>)
  /\ UNCHANGED <<stripeVars, rows>>

\* The process stops, or SQLite fails the second statement: what the first one
\* committed stays, the event is not acknowledged.
\* MutantInterrupt: acknowledged before it is done.
MutantInterrupt ==
  /\ handling # Idle
  /\ faults < MaxFaults
  /\ faults' = faults + 1
  /\ handling' = Idle
  /\ outbox' = [outbox EXCEPT ![handling] = "acked"]
  /\ UNCHANGED <<stripeVars, rows, premium>>

Interrupt ==
  /\ handling # Idle
  /\ faults < MaxFaults
  /\ faults' = faults + 1
  /\ handling' = Idle
  /\ UNCHANGED <<stripeVars, outbox, rows, premium>>

Receive(s) ==
  \/ ReceiveCompleted(s)
  \/ ReceiveDeleted(s)
  \/ IgnoreDeleted(s)

Next ==
  \/ \E u \in Users \cup Strangers, s \in Subs, c \in Customers : Checkout(u, s, c)
  \/ \E s \in Subs : Cancel(s) \/ Receive(s)
  \/ \E s \in Subs, kind \in Kinds : Resend(s, kind) \/ SetPremium(s, kind) \/ GiveUp(<<s, kind>>)
  \/ Interrupt

(***************************************************************************)
(* A handler that holds the mutex finishes, and Stripe keeps retrying an   *)
(* outstanding event: whenever the webhook is free again and again, it is  *)
(* delivered again.                                                        *)
(***************************************************************************)
Fairness ==
  /\ \A s \in Subs, kind \in Kinds : WF_vars(SetPremium(s, kind))
  /\ \A s \in Subs : /\ SF_vars(ReceiveCompleted(s))
                     /\ SF_vars(ReceiveDeleted(s) \/ IgnoreDeleted(s))

Spec == Init /\ [][Next]_vars
FairSpec == Spec /\ Fairness

------------------------------------------------------------------------------
(***************************************************************************)
(* Types.                                                                  *)
(***************************************************************************)
TypeOK ==
  /\ delivery \in Deliveries
  /\ sale \in [Subs -> Sale \cup {NoSale}]
  /\ cancelled \subseteq Subs
  /\ outbox \in [Events -> {"unsent", "pending", "acked", "resent", "dropped"}]
  /\ rows \in [Subs -> SubscriptionRow \cup {NoRow}]
  /\ premium \in [Users -> BOOLEAN]
  /\ handling \in Events \cup {Idle}
  /\ faults \in 0 .. MaxFaults

(***************************************************************************)
(* set_premium always finds the buyer.  Whatever was interrupted, replayed *)
(* or reordered before, the first statement of the same handler leaves a   *)
(* row that links the event's customer, so "no user linked to stripe       *)
(* customer" never fires; and every row it may pick with its LIMIT 1 names *)
(* the user who bought the subscription.                                   *)
(***************************************************************************)
AlwaysLinked ==
  handling # Idle =>
    LET bought == sale[handling[1]]
    IN /\ Linked(bought.customer) # {}
       /\ \A t \in Linked(bought.customer) : rows[t].user = bought.user

(***************************************************************************)
(* Premium is paid for.  Whatever is interrupted, replayed or reordered,   *)
(* the webhook grants premium only to a user who has bought a subscription *)
(* himself, takes it only from one whose subscription has ended, and never *)
(* touches two users at once.  The grant goes through customer -> row ->   *)
(* user, never through the user the event names.                           *)
(***************************************************************************)
Bought == {<<s, sale[s].user>> : s \in Sold}

Limits == INSTANCE Entitlement WITH
  Payers <- Users \cup Strangers,
  bought <- Bought,
  ended <- cancelled

ImplementsEntitlement == Limits!Spec

(***************************************************************************)
(* Half-applied events are never final.  The row and the flag are written  *)
(* by two commits; they may disagree only while some event of the user is  *)
(* being handled or still owed to the webhook.  The flag without an active *)
(* row needs an outstanding "deleted".  A user without the flag has no row,*)
(* or one that is canceled, or one whose "completed" is outstanding: who   *)
(* has two subscriptions loses premium with the first that ends, but never *)
(* while every row of his is active and settled.                           *)
(***************************************************************************)
RowsOf(u) == {s \in Subs : rows[s] # NoRow /\ rows[s].user = u}
Active(s) == rows[s].status = "active"

FlagMatchesRows ==
  \A u \in Users :
    /\ premium[u] => \/ \E s \in RowsOf(u) : Active(s)
                     \/ \E s \in RowsOf(u) : Outstanding(<<s, "deleted">>)
    /\ ~premium[u] /\ RowsOf(u) # {} =>
         \E s \in RowsOf(u) : ~Active(s) \/ Outstanding(<<s, "completed">>)

(***************************************************************************)
(* With in-order delivery the entitlement follows Stripe: once every event *)
(* of a user's only subscription is acknowledged and no handler is         *)
(* running, premium holds exactly when the subscription has not ended.     *)
(***************************************************************************)
BoughtBy(u) == {s \in Sold : sale[s].user = u}
Settled(s) == handling = Idle /\ \A kind \in Kinds : ~Outstanding(<<s, kind>>)

EntitlementFollowsStripe ==
  delivery = "in_order" =>
    \A u \in Users, s \in Subs :
      BoughtBy(u) = {s} /\ Settled(s) => (premium[u] <=> s \notin cancelled)

(***************************************************************************)
(* With in-order delivery the entitlement catches up with Stripe: for a    *)
(* user with one subscription, a paid one is eventually honoured and an    *)
(* ended one eventually revoked, whatever was interrupted.                 *)
(***************************************************************************)
EntitlementCatchesUp ==
  \A u \in Users, s \in Subs :
    LET only == delivery = "in_order" /\ BoughtBy(u) = {s}
    IN /\ only ~> premium[u] \/ s \in cancelled \/ ~only
       /\ only /\ s \in cancelled ~> ~premium[u] \/ ~only

------------------------------------------------------------------------------
(***************************************************************************)
(* What the source says of a replayed checkout.session.completed: the      *)
(* upsert keyed on stripe_subscription_id makes replays idempotent.        *)
(***************************************************************************)
Replaying ==
  /\ handling \in Subs \X {"completed"}
  /\ outbox[handling] = "resent"

ReplaysAreIdempotent == [][Replaying \/ Replaying' => UNCHANGED <<rows, premium>>]_vars

(***************************************************************************)
(* What the tests say of cancellation: premium is revoked after            *)
(* customer.subscription.deleted.  Here: once both events of a user's only *)
(* subscription have been acknowledged and it has ended, he is not premium.*)
(***************************************************************************)
RevokedAfterDeleted ==
  \A u \in Users, s \in Subs :
    BoughtBy(u) = {s} /\ Settled(s) /\ s \in cancelled => ~premium[u]
==============================================================================
