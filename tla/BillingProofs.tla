---------------------------- MODULE BillingProofs ----------------------------
(***************************************************************************)
(* The subscription webhook for every set of users, subscriptions and      *)
(* customers, both delivery modes and any number of faults: types, that    *)
(* set_premium always finds its user, that the webhook implements          *)
(* Entitlement and so premium is paid for, and that the row and the flag   *)
(* never stay apart without an event still owed.                           *)
(***************************************************************************)
EXTENDS Billing, TLAPS

(***************************************************************************)
(* What the database and Stripe agree on.  A row carries the user and the  *)
(* customer of its sale; two sales never share a customer; a handler       *)
(* between its statements has left the row in the state its event asks for *)
(* and its event is not acknowledged yet.                                  *)
(***************************************************************************)
RowsMatchSales ==
  \A s \in Subs : rows[s] # NoRow =>
    /\ s \in Sold
    /\ rows[s].user = sale[s].user
    /\ rows[s].customer = sale[s].customer

CustomersDiffer ==
  \A s, t \in Sold : sale[s].customer = sale[t].customer => s = t

EventsOfSales ==
  \A s \in Subs, kind \in Kinds : outbox[<<s, kind>>] # "unsent" => s \in Sold

HandlerMidway ==
  \A s \in Subs, kind \in Kinds : handling = <<s, kind>> =>
    /\ outbox[<<s, kind>>] \in {"pending", "resent"}
    /\ rows[s] # NoRow
    /\ rows[s].status = IF kind = "completed" THEN "active" ELSE "canceled"

Consistent == RowsMatchSales /\ CustomersDiffer /\ EventsOfSales /\ HandlerMidway

------------------------------------------------------------------------------
LEMMA RowFields ==
  ASSUME TypeOK, NEW s \in Subs, rows[s] # NoRow
  PROVE  /\ rows[s] \in SubscriptionRow
         /\ rows[s].user \in Users
         /\ rows[s].customer \in Customers
BY DEF TypeOK, SubscriptionRow

LEMMA SaleFields ==
  ASSUME TypeOK, NEW s \in Sold
  PROVE  /\ s \in Subs
         /\ sale[s].user \in Users \cup Strangers
         /\ sale[s].customer \in Customers
BY DEF TypeOK, Sale, Sold

(* The first statement of on_checkout_completed writes a well-typed, active*)
(* row with the sale's user and customer.                                  *)
LEMMA ActivatedRow ==
  ASSUME TypeOK, Consistent, NEW s \in Sold, sale[s].user \in Users
  PROVE  /\ Activated(s) \in SubscriptionRow
         /\ Activated(s) # NoRow
         /\ Activated(s).status = "active"
         /\ Activated(s).user = sale[s].user
         /\ Activated(s).customer = sale[s].customer
<1>1. s \in Subs /\ sale[s].customer \in Customers
  BY SaleFields
<1>2. CASE rows[s] = NoRow
  BY <1>1, <1>2, SentinelAssumption DEF Activated, SubscriptionRow
<1>3. CASE rows[s] # NoRow
  <2>1. rows[s] \in SubscriptionRow /\ rows[s].user = sale[s].user
    BY <1>1, <1>3, RowFields DEF Consistent, RowsMatchSales
  <2> QED
    BY <1>1, <1>3, <2>1, SentinelAssumption DEF Activated, SubscriptionRow
<1> QED
  BY <1>2, <1>3

(* The customer of a subscription with a row links that row and no other.  *)
LEMMA LinkedIsOwnRow ==
  ASSUME TypeOK, Consistent, NEW s \in Subs, rows[s] # NoRow
  PROVE  Linked(sale[s].customer) = {s}
BY DEF Consistent, RowsMatchSales, CustomersDiffer, Linked

(* An event that can be delivered belongs to a sale.                       *)
LEMMA DeliverableIsSold ==
  ASSUME Consistent, NEW s \in Subs, NEW kind \in Kinds, Deliverable(s, kind)
  PROVE  s \in Sold
BY DEF Consistent, EventsOfSales, Deliverable

------------------------------------------------------------------------------
LEMMA InitConsistent == Init => TypeOK /\ Consistent
<1> SUFFICES ASSUME Init PROVE TypeOK /\ Consistent
  OBVIOUS
<1>1. TypeOK
  BY BillingAssumption DEF Init, TypeOK
<1>2. \A s \in Subs, kind \in Kinds : <<s, kind>> \in Events
  BY DEF Events
<1>3. Sold = {} /\ \A s \in Subs, kind \in Kinds : outbox[<<s, kind>>] = "unsent"
  BY <1>2 DEF Init, Sold
<1>4. \A s \in Subs, kind \in Kinds : handling # <<s, kind>>
  BY <1>2, SentinelAssumption DEF Init
<1> QED
  BY <1>1, <1>3, <1>4
     DEF Init, Consistent, RowsMatchSales, CustomersDiffer, EventsOfSales, HandlerMidway

LEMMA NextTypeOK ==
  ASSUME TypeOK, Consistent, [Next]_vars
  PROVE  TypeOK'
<1> USE DEF TypeOK
<1>0. \A s \in Subs, kind \in Kinds : <<s, kind>> \in Events
  BY DEF Events
<1>1. ASSUME NEW e \in Events, Answer200(e)
      PROVE  /\ outbox' \in [Events -> {"unsent", "pending", "acked", "resent", "dropped"}]
             /\ faults' \in 0 .. MaxFaults
  BY <1>1, BillingAssumption DEF Answer200
<1>2. ASSUME NEW u \in Users \cup Strangers, NEW s \in Subs, NEW c \in Customers, Checkout(u, s, c)
      PROVE  TypeOK'
  BY <1>2, <1>0 DEF Checkout, Sale, Kinds
<1>3. ASSUME NEW s \in Subs, Cancel(s)
      PROVE  TypeOK'
  BY <1>3, <1>0 DEF Cancel, Kinds
<1>4. ASSUME NEW s \in Subs, ReceiveCompleted(s)
      PROVE  TypeOK'
  <2>1. s \in Sold /\ sale[s].user \in Users
    BY <1>4, DeliverableIsSold DEF ReceiveCompleted, Kinds
  <2>2. Activated(s) \in SubscriptionRow
    BY <2>1, ActivatedRow
  <2> QED
    BY <1>4, <2>2, <1>0 DEF ReceiveCompleted, stripeVars, Kinds
<1>5. ASSUME NEW s \in Subs, ReceiveDeleted(s)
      PROVE  TypeOK'
  <2>1. [rows[s] EXCEPT !.status = "canceled"] \in SubscriptionRow
    BY <1>5, RowFields DEF ReceiveDeleted, SubscriptionRow
  <2> QED
    BY <1>5, <2>1, <1>0 DEF ReceiveDeleted, stripeVars, Kinds
<1>6. ASSUME NEW s \in Subs, IgnoreDeleted(s)
      PROVE  TypeOK'
  BY <1>6, <1>0, <1>1 DEF IgnoreDeleted, stripeVars, Kinds
<1>7. ASSUME NEW s \in Subs, NEW kind \in Kinds, SetPremium(s, kind)
      PROVE  TypeOK'
  <2>1. premium' \in [Users -> BOOLEAN]
    BY <1>7 DEF SetPremium
  <2> QED
    BY <1>7, <2>1, <1>0, <1>1 DEF SetPremium, stripeVars
<1>8. ASSUME NEW s \in Subs, NEW kind \in Kinds, Resend(s, kind)
      PROVE  TypeOK'
  BY <1>8 DEF Resend, stripeVars
<1>9. ASSUME NEW s \in Subs, NEW kind \in Kinds, GiveUp(<<s, kind>>)
      PROVE  TypeOK'
  BY <1>9 DEF GiveUp, stripeVars
<1>10. CASE Interrupt
  BY <1>10, BillingAssumption DEF Interrupt, stripeVars
<1>11. CASE UNCHANGED vars
  BY <1>11 DEF vars
<1> QED
  BY <1>2, <1>3, <1>4, <1>5, <1>6, <1>7, <1>8, <1>9, <1>10, <1>11 DEF Next, Receive

(* Two events of the outbox are different entries.                         *)
LEMMA EventPairs ==
  /\ \A s \in Subs, kind \in Kinds : <<s, kind>> \in Events
  /\ \A s, t \in Subs, k, l \in Kinds : <<s, k>> = <<t, l>> <=> s = t /\ k = l
BY DEF Events

LEMMA NextConsistent ==
  ASSUME TypeOK, Consistent, [Next]_vars
  PROVE  Consistent'
<1> USE DEF TypeOK
<1> USE EventPairs
<1>1. ASSUME NEW u \in Users \cup Strangers, NEW s \in Subs, NEW c \in Customers, Checkout(u, s, c)
      PROVE  Consistent'
  <2>1. /\ Sold' = Sold \cup {s}
        /\ sale'[s].customer = c
        /\ \A t \in Sold : sale'[t] = sale[t] /\ sale[t].customer # c
    BY <1>1, SentinelAssumption DEF Checkout, Sold, Sale
  <2>2. RowsMatchSales' /\ CustomersDiffer'
    BY <1>1, <2>1 DEF Consistent, RowsMatchSales, CustomersDiffer, Checkout
  <2>3. \A t \in Subs, l \in Kinds :
          outbox'[<<t, l>>] = IF t = s /\ l = "completed" THEN "pending" ELSE outbox[<<t, l>>]
    BY <1>1 DEF Checkout, Kinds
  <2>4. EventsOfSales' /\ HandlerMidway'
    BY <1>1, <2>1, <2>3 DEF Consistent, EventsOfSales, HandlerMidway, Checkout
  <2> QED
    BY <2>2, <2>4 DEF Consistent
<1>2. ASSUME NEW s \in Subs, Cancel(s)
      PROVE  Consistent'
  <2>1. Sold' = Sold /\ s \in Sold
    BY <1>2 DEF Cancel, Sold
  <2>2. \A t \in Subs, l \in Kinds :
          outbox'[<<t, l>>] = IF t = s /\ l = "deleted" THEN "pending" ELSE outbox[<<t, l>>]
    BY <1>2 DEF Cancel, Kinds
  <2> QED
    BY <1>2, <2>1, <2>2
       DEF Consistent, RowsMatchSales, CustomersDiffer, EventsOfSales, HandlerMidway, Cancel
<1>3. ASSUME NEW s \in Subs, ReceiveCompleted(s)
      PROVE  Consistent'
  <2>1. s \in Sold /\ sale[s].user \in Users
    BY <1>3, DeliverableIsSold DEF ReceiveCompleted, Kinds
  <2>2. /\ Activated(s) # NoRow
        /\ Activated(s).status = "active"
        /\ Activated(s).user = sale[s].user
        /\ Activated(s).customer = sale[s].customer
    BY <2>1, ActivatedRow
  <2>3. /\ Sold' = Sold /\ sale' = sale /\ outbox' = outbox
        /\ handling' = <<s, "completed">>
        /\ rows' = [rows EXCEPT ![s] = Activated(s)]
        /\ outbox[<<s, "completed">>] \in {"pending", "resent"}
    BY <1>3 DEF ReceiveCompleted, Deliverable, stripeVars, Sold
  <2>4. RowsMatchSales' /\ CustomersDiffer' /\ EventsOfSales'
    BY <2>1, <2>2, <2>3 DEF Consistent, RowsMatchSales, CustomersDiffer, EventsOfSales
  <2>5. HandlerMidway'
    BY <2>2, <2>3 DEF HandlerMidway, Kinds
  <2> QED
    BY <2>4, <2>5 DEF Consistent
<1>4. ASSUME NEW s \in Subs, ReceiveDeleted(s)
      PROVE  Consistent'
  <2>1. s \in Sold /\ rows[s] \in SubscriptionRow
    BY <1>4, RowFields, DeliverableIsSold DEF ReceiveDeleted, Kinds
  <2> DEFINE row == [rows[s] EXCEPT !.status = "canceled"]
  <2>2. /\ row # NoRow
        /\ row.status = "canceled"
        /\ row.user = rows[s].user
        /\ row.customer = rows[s].customer
    BY <2>1, SentinelAssumption DEF SubscriptionRow
  <2>3. /\ Sold' = Sold /\ sale' = sale /\ outbox' = outbox
        /\ handling' = <<s, "deleted">>
        /\ rows' = [rows EXCEPT ![s] = row]
        /\ rows[s] # NoRow
        /\ outbox[<<s, "deleted">>] \in {"pending", "resent"}
    BY <1>4 DEF ReceiveDeleted, Deliverable, stripeVars, Sold
  <2> HIDE DEF row
  <2>4. RowsMatchSales' /\ CustomersDiffer' /\ EventsOfSales'
    BY <2>1, <2>2, <2>3 DEF Consistent, RowsMatchSales, CustomersDiffer, EventsOfSales
  <2>5. HandlerMidway'
    BY <2>2, <2>3 DEF HandlerMidway, Kinds
  <2> QED
    BY <2>4, <2>5 DEF Consistent
<1>5. ASSUME sale' = sale, rows' = rows, handling' \in {handling, Idle},
             \A s \in Subs, kind \in Kinds :
               /\ outbox'[<<s, kind>>] # "unsent" => outbox[<<s, kind>>] # "unsent"
               /\ handling' = <<s, kind>> => outbox'[<<s, kind>>] \in {outbox[<<s, kind>>], "resent"}
      PROVE  Consistent'
  <2>1. Sold' = Sold
    BY <1>5 DEF Sold
  <2>2. \A s \in Subs, kind \in Kinds : handling' = <<s, kind>> => handling = <<s, kind>>
    BY <1>5, SentinelAssumption
  <2> QED
    BY <1>5, <2>1, <2>2
       DEF Consistent, RowsMatchSales, CustomersDiffer, EventsOfSales, HandlerMidway
<1>6. ASSUME NEW s \in Subs, IgnoreDeleted(s)
      PROVE  Consistent'
  <2>1. "deleted" \in Kinds /\ outbox[<<s, "deleted">>] # "unsent"
    BY <1>6 DEF IgnoreDeleted, Deliverable, Kinds
  <2>2. \A t \in Subs, l \in Kinds : handling # <<t, l>>
    BY <1>6, SentinelAssumption DEF IgnoreDeleted
  <2>3. Answer200(<<s, "deleted">>) /\ handling' = handling /\ sale' = sale /\ rows' = rows
    BY <1>6 DEF IgnoreDeleted, stripeVars
  <2>4. \A t \in Subs, l \in Kinds : outbox'[<<t, l>>] # "unsent" => outbox[<<t, l>>] # "unsent"
    BY <2>1, <2>3 DEF Answer200
  <2> QED
    BY <1>5, <2>2, <2>3, <2>4
<1>7. ASSUME NEW s \in Subs, NEW kind \in Kinds, SetPremium(s, kind)
      PROVE  Consistent'
  <2>1. outbox[<<s, kind>>] # "unsent"
    BY <1>7 DEF SetPremium, Consistent, HandlerMidway
  <2>2. \A t \in Subs, l \in Kinds : handling' # <<t, l>>
    BY <1>7, SentinelAssumption DEF SetPremium
  <2>3. Answer200(<<s, kind>>) /\ handling' = Idle /\ sale' = sale /\ rows' = rows
    BY <1>7 DEF SetPremium, stripeVars
  <2>4. \A t \in Subs, l \in Kinds : outbox'[<<t, l>>] # "unsent" => outbox[<<t, l>>] # "unsent"
    BY <2>1, <2>3 DEF Answer200
  <2> QED
    BY <1>5, <2>2, <2>3, <2>4
<1>8. ASSUME NEW s \in Subs, NEW kind \in Kinds, Resend(s, kind)
      PROVE  Consistent'
  BY <1>5, <1>8 DEF Resend, stripeVars
<1>9. ASSUME NEW s \in Subs, NEW kind \in Kinds, GiveUp(<<s, kind>>)
      PROVE  Consistent'
  BY <1>5, <1>9 DEF GiveUp, stripeVars
<1>10. CASE Interrupt
  BY <1>5, <1>10, SentinelAssumption DEF Interrupt, stripeVars
<1>11. CASE UNCHANGED vars
  BY <1>5, <1>11 DEF vars
<1> QED
  BY <1>1, <1>2, <1>3, <1>4, <1>6, <1>7, <1>8, <1>9, <1>10, <1>11 DEF Next, Receive

(* Rows, flags and outbox are well typed; in particular every row points to*)
(* an existing user, the foreign key of the subscriptions table.           *)
THEOREM TypeCorrect == Spec => [](TypeOK /\ Consistent)
<1>1. TypeOK /\ Consistent /\ [Next]_vars => (TypeOK /\ Consistent)'
  BY NextTypeOK, NextConsistent
<1> QED
  BY InitConsistent, <1>1, PTL DEF Spec

(* set_premium always finds the user of the event it serves, and no other: *)
(* "no user linked to stripe customer" cannot be reached from the webhook, *)
(* and its LIMIT 1 never has a choice between users.                       *)
THEOREM SetPremiumFindsUser == Spec => []AlwaysLinked
<1>1. TypeOK /\ Consistent => AlwaysLinked
  <2> SUFFICES ASSUME TypeOK, Consistent, handling # Idle
               PROVE  AlwaysLinked
    BY DEF AlwaysLinked
  <2>1. PICK s \in Subs, kind \in Kinds : handling = <<s, kind>>
    BY DEF TypeOK, Events
  <2>2. rows[s] # NoRow
    BY <2>1 DEF Consistent, HandlerMidway
  <2>3. Linked(sale[s].customer) = {s} /\ rows[s].user = sale[s].user
    BY <2>2, LinkedIsOwnRow DEF Consistent, RowsMatchSales
  <2> QED
    BY <2>1, <2>3 DEF AlwaysLinked
<1> QED
  BY TypeCorrect, <1>1, PTL

------------------------------------------------------------------------------
(***************************************************************************)
(* Premium.                                                                *)
(***************************************************************************)

(* set_premium reaches the user of the event's own row, and nobody else.   *)
LEMMA SetPremiumEffect ==
  ASSUME TypeOK, Consistent, NEW s \in Subs, NEW kind \in Kinds, SetPremium(s, kind)
  PROVE  /\ rows[s] # NoRow
         /\ rows[s].user \in Users
         /\ premium' = [premium EXCEPT ![rows[s].user] = (kind = "completed")]
         /\ rows' = rows /\ sale' = sale
<1>1. rows[s] # NoRow
  BY DEF SetPremium, Consistent, HandlerMidway
<1>2. Linked(sale[s].customer) = {s} /\ rows[s].user \in Users
  BY <1>1, LinkedIsOwnRow, RowFields
<1>3. PICK t \in Linked(sale[s].customer) : premium' = [premium EXCEPT ![rows[t].user] = (kind = "completed")]
  BY DEF SetPremium
<1>4. t = s /\ rows' = rows /\ sale' = sale
  BY <1>2 DEF SetPremium, stripeVars
<1> QED
  BY <1>1, <1>2, <1>3, <1>4

(* Sales and rows are never taken back, and a row keeps its user.          *)
LEMMA RowsAreKept ==
  ASSUME TypeOK, Consistent, [Next]_vars, NEW s \in Subs
  PROVE  /\ s \in Sold => s \in Sold' /\ sale'[s] = sale[s]
         /\ rows[s] # NoRow => rows'[s] # NoRow /\ rows'[s].user = rows[s].user
<1> USE DEF TypeOK
<1>1. ASSUME NEW u \in Users \cup Strangers, NEW t \in Subs, NEW c \in Customers, Checkout(u, t, c)
      PROVE  /\ s \in Sold => s \in Sold' /\ sale'[s] = sale[s]
             /\ rows[s] # NoRow => rows'[s] # NoRow /\ rows'[s].user = rows[s].user
  BY <1>1 DEF Checkout, Sold
<1>2. ASSUME sale' = sale
      PROVE  s \in Sold => s \in Sold' /\ sale'[s] = sale[s]
  BY <1>2 DEF Sold
<1>3. ASSUME NEW t \in Subs, ReceiveCompleted(t)
      PROVE  rows[s] # NoRow => rows'[s] # NoRow /\ rows'[s].user = rows[s].user
  <2>1. t \in Sold /\ sale[t].user \in Users
    BY <1>3, DeliverableIsSold DEF ReceiveCompleted, Kinds
  <2>2. Activated(t) # NoRow /\ Activated(t).user = sale[t].user
    BY <2>1, ActivatedRow
  <2> QED
    BY <1>3, <2>2 DEF ReceiveCompleted, Consistent, RowsMatchSales
<1>4. ASSUME NEW t \in Subs, ReceiveDeleted(t)
      PROVE  rows[s] # NoRow => rows'[s] # NoRow /\ rows'[s].user = rows[s].user
  <2>1. rows[t] \in SubscriptionRow
    BY <1>4, RowFields DEF ReceiveDeleted
  <2>2. /\ [rows[t] EXCEPT !.status = "canceled"] \in SubscriptionRow
        /\ [rows[t] EXCEPT !.status = "canceled"].user = rows[t].user
    BY <2>1 DEF SubscriptionRow
  <2> QED
    BY <1>4, <2>2, SentinelAssumption DEF ReceiveDeleted
<1>5. CASE rows' = rows /\ sale' = sale
  BY <1>2, <1>5
<1>6. ASSUME NEW t \in Subs, ReceiveCompleted(t) \/ ReceiveDeleted(t) PROVE sale' = sale
  BY <1>6 DEF ReceiveCompleted, ReceiveDeleted, stripeVars
<1> QED
  BY <1>1, <1>2, <1>3, <1>4, <1>5, <1>6 DEF Next, vars, Receive, Cancel, IgnoreDeleted, SetPremium,
     Resend, GiveUp, Interrupt, stripeVars

(* Only set_premium touches the flags.                                     *)
LEMMA OnlySetPremium ==
  ASSUME [Next]_vars, ~ \E s \in Subs, kind \in Kinds : SetPremium(s, kind)
  PROVE  premium' = premium
BY DEF Next, vars, Checkout, Receive, ReceiveCompleted, ReceiveDeleted, IgnoreDeleted, Cancel,
   Resend, GiveUp, Interrupt

(***************************************************************************)
(* The abstract specification.  Besides Consistent it needs that the end   *)
(* of a subscription is reported only once it has ended.                   *)
(***************************************************************************)
EndsReported ==
  /\ cancelled \subseteq Sold
  /\ \A s \in Subs : outbox[<<s, "deleted">>] # "unsent" => s \in cancelled

LEMMA InitEndsReported == Init => EndsReported
<1>1. \A s \in Subs : <<s, "deleted">> \in Events
  BY EventPairs DEF Kinds
<1> QED
  BY <1>1 DEF Init, EndsReported

LEMMA NextEndsReported ==
  ASSUME TypeOK, Consistent, EndsReported, [Next]_vars
  PROVE  EndsReported'
<1> USE EventPairs DEF TypeOK
<1>0. "completed" \in Kinds /\ "deleted" \in Kinds
  BY DEF Kinds
<1>1. Sold \subseteq Sold'
  BY RowsAreKept DEF Sold
<1>2. ASSUME cancelled' = cancelled,
             \A s \in Subs : outbox'[<<s, "deleted">>] # "unsent" => outbox[<<s, "deleted">>] # "unsent"
      PROVE  EndsReported'
  BY <1>1, <1>2 DEF EndsReported
<1>3. ASSUME NEW u \in Users \cup Strangers, NEW s \in Subs, NEW c \in Customers, Checkout(u, s, c)
      PROVE  EndsReported'
  BY <1>0, <1>2, <1>3 DEF Checkout
<1>4. ASSUME NEW s \in Subs, Cancel(s)
      PROVE  EndsReported'
  BY <1>0, <1>1, <1>4 DEF Cancel, EndsReported
<1>5. ASSUME NEW s \in Subs, ReceiveCompleted(s) \/ ReceiveDeleted(s)
      PROVE  EndsReported'
  BY <1>2, <1>5 DEF ReceiveCompleted, ReceiveDeleted, stripeVars
<1>6. ASSUME NEW e \in Events, Answer200(e), outbox[e] # "unsent", cancelled' = cancelled
      PROVE  EndsReported'
  BY <1>0, <1>2, <1>6 DEF Answer200
<1>7. ASSUME NEW s \in Subs, IgnoreDeleted(s)
      PROVE  EndsReported'
  BY <1>0, <1>6, <1>7 DEF IgnoreDeleted, Deliverable, stripeVars
<1>8. ASSUME NEW s \in Subs, NEW kind \in Kinds, SetPremium(s, kind)
      PROVE  EndsReported'
  <2>1. outbox[<<s, kind>>] # "unsent"
    BY <1>8 DEF SetPremium, Consistent, HandlerMidway
  <2> QED
    BY <1>6, <1>8, <2>1 DEF SetPremium, stripeVars
<1>9. ASSUME NEW s \in Subs, NEW kind \in Kinds, Resend(s, kind)
      PROVE  EndsReported'
  BY <1>0, <1>2, <1>9 DEF Resend, stripeVars
<1>10. ASSUME NEW s \in Subs, NEW kind \in Kinds, GiveUp(<<s, kind>>)
      PROVE  EndsReported'
  BY <1>0, <1>2, <1>10 DEF GiveUp, stripeVars
<1>11. CASE Interrupt
  BY <1>2, <1>11 DEF Interrupt, stripeVars
<1>12. CASE UNCHANGED vars
  BY <1>2, <1>12 DEF vars
<1> QED
  BY <1>3, <1>4, <1>5, <1>7, <1>8, <1>9, <1>10, <1>11, <1>12 DEF Next, Receive

(* A checkout buys, an end ends, set_premium grants or revokes, and every  *)
(* other step of Stripe or of the webhook is invisible.                    *)
LEMMA StepWithinLimits ==
  ASSUME TypeOK, Consistent, EndsReported, [Next]_vars
  PROVE  [Limits!Next]_(Limits!vars)
<1> USE DEF TypeOK
<1>1. ASSUME NEW u \in Users \cup Strangers, NEW s \in Subs, NEW c \in Customers, Checkout(u, s, c)
      PROVE  Limits!Buy(u, s)
  <2>1. /\ s \notin Sold /\ Sold' = Sold \cup {s}
        /\ sale'[s].user = u
        /\ \A t \in Sold : sale'[t] = sale[t]
    BY <1>1, SentinelAssumption DEF Checkout, Sold, Sale
  <2>2. Bought' = Bought \cup {<<s, u>>}
    BY <2>1 DEF Bought
  <2>3. \A q : <<s, q>> \notin Bought
    BY <2>1 DEF Bought
  <2> QED
    BY <1>1, <2>2, <2>3 DEF Limits!Buy, Checkout
<1>2. ASSUME sale' = sale
      PROVE  Bought' = Bought
  BY <1>2 DEF Bought, Sold
<1>3. ASSUME NEW s \in Sold
      PROVE  <<s, sale[s].user>> \in Bought
  BY DEF Bought
<1>4. ASSUME NEW s \in Subs, Cancel(s)
      PROVE  Limits!End(s)
  <2>1. s \in Sold /\ sale[s].user \in Users \cup Strangers
    BY <1>4, SaleFields DEF Cancel
  <2> QED
    BY <1>2, <1>3, <1>4, <2>1 DEF Limits!End, Cancel
<1>5. ASSUME NEW s \in Subs, NEW kind \in Kinds, SetPremium(s, kind)
      PROVE  \E u \in Users : Limits!Grant(u) \/ Limits!Revoke(u)
  <2>1. /\ rows[s] # NoRow
        /\ rows[s].user \in Users
        /\ premium' = [premium EXCEPT ![rows[s].user] = (kind = "completed")]
        /\ sale' = sale /\ cancelled' = cancelled
    BY <1>5, SetPremiumEffect DEF SetPremium, stripeVars
  <2>2. s \in Sold /\ sale[s].user = rows[s].user
    BY <2>1 DEF Consistent, RowsMatchSales
  <2>3. CASE kind = "completed"
    <3>1. Limits!Grant(rows[s].user)
      BY <1>2, <1>3, <2>1, <2>2, <2>3 DEF Limits!Grant
    <3> QED
      BY <2>1, <3>1
  <2>4. CASE kind = "deleted"
    <3>1. outbox[<<s, "deleted">>] # "unsent"
      BY <1>5, <2>4 DEF SetPremium, Consistent, HandlerMidway
    <3>2. s \in cancelled
      BY <3>1 DEF EndsReported
    <3>3. (kind = "completed") = FALSE
      BY <2>4
    <3>4. Limits!Revoke(rows[s].user)
      BY <1>2, <1>3, <2>1, <2>2, <3>2, <3>3 DEF Limits!Revoke
    <3> QED
      BY <2>1, <3>4
  <2> QED
    BY <2>3, <2>4 DEF Kinds
<1>6. ASSUME sale' = sale, cancelled' = cancelled, premium' = premium
      PROVE  UNCHANGED Limits!vars
  BY <1>2, <1>6 DEF Limits!vars
<1>7. ASSUME NEW s \in Subs, Receive(s)
      PROVE  UNCHANGED Limits!vars
  BY <1>6, <1>7 DEF Receive, ReceiveCompleted, ReceiveDeleted, IgnoreDeleted, stripeVars
<1>8. ASSUME NEW s \in Subs, NEW kind \in Kinds, Resend(s, kind) \/ GiveUp(<<s, kind>>)
      PROVE  UNCHANGED Limits!vars
  BY <1>6, <1>8 DEF Resend, GiveUp, stripeVars
<1>9. CASE Interrupt
  BY <1>6, <1>9 DEF Interrupt, stripeVars
<1>10. CASE UNCHANGED vars
  BY <1>6, <1>10 DEF vars
<1>11. CASE \E u \in Users \cup Strangers, s \in Subs, c \in Customers : Checkout(u, s, c)
  BY <1>1, <1>11 DEF Limits!Next
<1>12. CASE \E s \in Subs : Cancel(s)
  BY <1>4, <1>12 DEF Limits!Next
<1>13. CASE \E s \in Subs, kind \in Kinds : SetPremium(s, kind)
  BY <1>5, <1>13 DEF Limits!Next
<1> QED
  BY <1>7, <1>8, <1>9, <1>10, <1>11, <1>12, <1>13 DEF Next

(* The webhook grants premium only to a buyer, takes it only from one whose*)
(* subscription has ended, and changes one user at a time, in any order of *)
(* events and after any fault.                                             *)
THEOREM BillingImplementsEntitlement == Spec => ImplementsEntitlement
<1>1. Init => Limits!Init
  BY DEF Init, Limits!Init, Bought, Sold
<1>2. TypeOK /\ Consistent /\ EndsReported /\ [Next]_vars => EndsReported'
  BY NextEndsReported
<1>3. TypeOK /\ Consistent /\ EndsReported /\ [Next]_vars => [Limits!Next]_(Limits!vars)
  BY StepWithinLimits
<1> QED
  BY <1>1, <1>2, <1>3, InitEndsReported, TypeCorrect, PTL DEF Spec, Limits!Spec, ImplementsEntitlement

(* Premium is paid for.  An invariant of the abstract specification, and so*)
(* of the webhook: every premium user has bought a subscription himself.   *)
PremiumIsPaid == \A u \in Users : premium[u] => \E s \in Subs : <<s, u>> \in Bought

THEOREM OnlyBuyersArePremium == Spec => []PremiumIsPaid
<1> DEFINE Flags == premium \in [Users -> BOOLEAN]
<1>1. Limits!Init => Flags /\ PremiumIsPaid
  BY DEF Limits!Init, PremiumIsPaid
<1>2. Flags /\ PremiumIsPaid /\ [Limits!Next]_(Limits!vars) => (Flags /\ PremiumIsPaid)'
  <2> SUFFICES ASSUME Flags, PremiumIsPaid, [Limits!Next]_(Limits!vars)
               PROVE  (Flags /\ PremiumIsPaid)'
    OBVIOUS
  <2>1. CASE Bought \subseteq Bought' /\ premium' = premium
    BY <2>1 DEF PremiumIsPaid
  <2>2. ASSUME NEW u \in Users, Limits!Grant(u)
        PROVE  (Flags /\ PremiumIsPaid)'
    BY <2>2 DEF Limits!Grant, PremiumIsPaid
  <2>3. ASSUME NEW u \in Users, Limits!Revoke(u)
        PROVE  (Flags /\ PremiumIsPaid)'
    BY <2>3 DEF Limits!Revoke, PremiumIsPaid
  <2> QED
    BY <2>1, <2>2, <2>3 DEF Limits!Next, Limits!Buy, Limits!End, Limits!vars
<1> QED
  BY <1>1, <1>2, BillingImplementsEntitlement, PTL DEF ImplementsEntitlement, Limits!Spec

------------------------------------------------------------------------------
(***************************************************************************)
(* The flag and the rows.  Split in the two directions of FlagMatchesRows; *)
(* both are inductive beside Consistent.                                   *)
(***************************************************************************)
Backed(u) ==
  premium[u] => \E s \in RowsOf(u) : Active(s) \/ Outstanding(<<s, "deleted">>)

Granted(u) ==
  ~premium[u] /\ RowsOf(u) # {} => \E s \in RowsOf(u) : ~Active(s) \/ Outstanding(<<s, "completed">>)

(* Steps that leave rows and flags alone and settle no event of a row.     *)
LEMMA NothingSettled ==
  ASSUME NEW u \in Users, Backed(u), Granted(u), rows' = rows, premium' = premium,
         \A s \in Subs, kind \in Kinds :
           rows[s] # NoRow /\ Outstanding(<<s, kind>>) => Outstanding(<<s, kind>>)'
  PROVE  Backed(u)' /\ Granted(u)'
<1>1. RowsOf(u)' = RowsOf(u) /\ \A s \in Subs : Active(s)' = Active(s)
  BY DEF RowsOf, Active
<1>2. \A s \in RowsOf(u) : s \in Subs /\ rows[s] # NoRow
  BY DEF RowsOf
<1>3. "deleted" \in Kinds /\ "completed" \in Kinds
  BY DEF Kinds
<1>4. Backed(u)'
  BY <1>1, <1>2, <1>3 DEF Backed
<1>5. Granted(u)'
  BY <1>1, <1>2, <1>3 DEF Granted
<1> QED
  BY <1>4, <1>5

LEMMA CompletedFirstStatement ==
  ASSUME TypeOK, Consistent, NEW s \in Subs, ReceiveCompleted(s),
         NEW u \in Users, Backed(u), Granted(u)
  PROVE  Backed(u)' /\ Granted(u)'
<1>1. s \in Sold /\ sale[s].user \in Users
  BY DeliverableIsSold DEF ReceiveCompleted, Kinds
<1>2. /\ rows' = [rows EXCEPT ![s] = Activated(s)] /\ rows'[s] = Activated(s)
      /\ premium' = premium /\ outbox' = outbox
      /\ outbox[<<s, "completed">>] \in {"pending", "resent"}
  BY DEF ReceiveCompleted, Deliverable, TypeOK
<1>3. /\ Activated(s) # NoRow /\ Activated(s).status = "active"
      /\ Activated(s).user = sale[s].user
      /\ rows[s] # NoRow => rows[s].user = sale[s].user
  BY <1>1, ActivatedRow DEF Consistent, RowsMatchSales
<1>4. \A t \in Subs : t # s => rows'[t] = rows[t]
  BY <1>2 DEF TypeOK
<1>5. /\ RowsOf(u) \subseteq RowsOf(u)'
      /\ \A t \in RowsOf(u)' : t # s => t \in RowsOf(u)
      /\ \A t \in Subs : Active(t) => Active(t)'
      /\ \A t \in Subs : t # s => Active(t)' = Active(t)
  BY <1>2, <1>3, <1>4 DEF RowsOf, Active
<1>6. \A e : Outstanding(e)' = Outstanding(e)
  BY <1>2 DEF Outstanding
<1>7. Backed(u)'
  BY <1>2, <1>5, <1>6 DEF Backed, RowsOf
<1>8. Granted(u)'
  <2>1. CASE s \in RowsOf(u)'
    BY <1>2, <1>6, <2>1 DEF Granted, Outstanding
  <2>2. CASE s \notin RowsOf(u)'
    <3>1. RowsOf(u)' = RowsOf(u) /\ \A t \in RowsOf(u) : t # s /\ t \in Subs
      BY <1>5, <2>2 DEF RowsOf
    <3> QED
      BY <1>2, <1>5, <1>6, <3>1 DEF Granted
  <2> QED
    BY <2>1, <2>2
<1> QED
  BY <1>7, <1>8

LEMMA DeletedFirstStatement ==
  ASSUME TypeOK, Consistent, NEW s \in Subs, ReceiveDeleted(s),
         NEW u \in Users, Backed(u), Granted(u)
  PROVE  Backed(u)' /\ Granted(u)'
<1>1. rows[s] \in SubscriptionRow
  BY RowFields DEF ReceiveDeleted
<1> DEFINE row == [rows[s] EXCEPT !.status = "canceled"]
<1>2. row \in SubscriptionRow /\ row # NoRow /\ row.user = rows[s].user /\ row.status = "canceled"
  BY <1>1, SentinelAssumption DEF SubscriptionRow
<1>3. /\ rows' = [rows EXCEPT ![s] = row] /\ rows[s] # NoRow
      /\ premium' = premium /\ outbox' = outbox
      /\ outbox[<<s, "deleted">>] \in {"pending", "resent"}
  BY DEF ReceiveDeleted, Deliverable
<1> HIDE DEF row
<1>4. rows'[s] = row /\ \A t \in Subs : t # s => rows'[t] = rows[t]
  BY <1>3 DEF TypeOK
<1>5. /\ RowsOf(u)' = RowsOf(u)
      /\ ~Active(s)'
      /\ \A t \in Subs : t # s => Active(t)' = Active(t)
  BY <1>2, <1>3, <1>4 DEF RowsOf, Active
<1>6. \A e : Outstanding(e)' = Outstanding(e)
  BY <1>3 DEF Outstanding
<1>7. Outstanding(<<s, "deleted">>)
  BY <1>3 DEF Outstanding
<1>8. Backed(u)'
  BY <1>3, <1>5, <1>6, <1>7 DEF Backed, RowsOf
<1>9. Granted(u)'
  <2>1. \A t \in RowsOf(u) : ~Active(t) => ~Active(t)'
    BY <1>5 DEF RowsOf
  <2> QED
    BY <1>3, <1>5, <1>6, <2>1 DEF Granted
<1> QED
  BY <1>8, <1>9

LEMMA SecondStatement ==
  ASSUME TypeOK, Consistent, NEW s \in Subs, NEW kind \in Kinds, SetPremium(s, kind),
         NEW u \in Users, Backed(u), Granted(u)
  PROVE  Backed(u)' /\ Granted(u)'
<1>1. /\ rows[s] # NoRow /\ rows[s].user \in Users
      /\ premium' = [premium EXCEPT ![rows[s].user] = (kind = "completed")]
      /\ rows' = rows
  BY SetPremiumEffect
<1>2. rows[s].status = IF kind = "completed" THEN "active" ELSE "canceled"
  BY DEF SetPremium, Consistent, HandlerMidway
<1>3. \A t \in Subs, l \in Kinds : t # s => Outstanding(<<t, l>>)' = Outstanding(<<t, l>>)
  BY EventPairs DEF SetPremium, Answer200, Outstanding, TypeOK
<1>4. RowsOf(u)' = RowsOf(u) /\ \A t \in Subs : Active(t)' = Active(t)
  BY <1>1 DEF RowsOf, Active
<1>5. "deleted" \in Kinds /\ "completed" \in Kinds
  BY DEF Kinds
<1>6. CASE u = rows[s].user
  <2>1. s \in RowsOf(u) /\ premium'[u] = (kind = "completed")
    BY <1>1, <1>6 DEF RowsOf, TypeOK
  <2>2. kind = "completed" => Active(s)
    BY <1>2 DEF Active
  <2>3. kind # "completed" => ~Active(s)
    BY <1>2 DEF Active
  <2>4. Backed(u)'
    BY <1>4, <2>1, <2>2 DEF Backed, RowsOf
  <2>5. Granted(u)'
    BY <1>4, <2>1, <2>3 DEF Granted
  <2> QED
    BY <2>4, <2>5
<1>7. CASE u # rows[s].user
  <2>1. s \notin RowsOf(u) /\ premium'[u] = premium[u]
    BY <1>1, <1>7 DEF RowsOf, TypeOK
  <2>2. \A t \in RowsOf(u) : t \in Subs /\ t # s
    BY <2>1 DEF RowsOf
  <2>3. Backed(u)'
    BY <1>3, <1>4, <1>5, <2>1, <2>2 DEF Backed
  <2>4. Granted(u)'
    BY <1>3, <1>4, <1>5, <2>1, <2>2 DEF Granted
  <2> QED
    BY <2>3, <2>4
<1> QED
  BY <1>6, <1>7

(* Row and flag, written by two commits, disagree only while an event is   *)
(* still owed, whatever is interrupted, replayed or reordered.             *)
THEOREM FlagAndRowsAgree == Spec => []FlagMatchesRows
<1>1. FlagMatchesRows <=> \A u \in Users : Backed(u) /\ Granted(u)
  BY DEF FlagMatchesRows, Backed, Granted
<1>2. Init => FlagMatchesRows
  BY DEF Init, FlagMatchesRows, RowsOf
<1>3. ASSUME TypeOK, Consistent, \A u \in Users : Backed(u) /\ Granted(u), [Next]_vars,
             NEW u \in Users
      PROVE  Backed(u)' /\ Granted(u)'
  <2> USE EventPairs DEF TypeOK
  <2>1. ASSUME NEW v \in Users \cup Strangers, NEW s \in Subs, NEW c \in Customers, Checkout(v, s, c)
        PROVE  Backed(u)' /\ Granted(u)'
    <3>1. \A t \in Subs, l \in Kinds : Outstanding(<<t, l>>) => Outstanding(<<t, l>>)'
      BY <2>1 DEF Checkout, Outstanding, Kinds
    <3> QED
      BY <1>3, <2>1, <3>1, NothingSettled DEF Checkout
  <2>2. ASSUME NEW s \in Subs, Cancel(s)
        PROVE  Backed(u)' /\ Granted(u)'
    <3>1. \A t \in Subs, l \in Kinds : Outstanding(<<t, l>>) => Outstanding(<<t, l>>)'
      BY <2>2 DEF Cancel, Outstanding, Kinds
    <3> QED
      BY <1>3, <2>2, <3>1, NothingSettled DEF Cancel
  <2>3. ASSUME NEW s \in Subs, IgnoreDeleted(s)
        PROVE  Backed(u)' /\ Granted(u)'
    <3>1. /\ rows[s] = NoRow
          /\ outbox' = outbox \/ outbox' = [outbox EXCEPT ![<<s, "deleted">>] = "acked"]
      BY <2>3 DEF IgnoreDeleted, Answer200
    <3>2. ASSUME NEW t \in Subs, NEW l \in Kinds, t # s
          PROVE  outbox'[<<t, l>>] = outbox[<<t, l>>]
      BY <1>3, <3>1, <3>2
    <3>3. \A t \in Subs, l \in Kinds :
            rows[t] # NoRow /\ Outstanding(<<t, l>>) => Outstanding(<<t, l>>)'
      BY <3>1, <3>2 DEF Outstanding
    <3> QED
      BY <1>3, <2>3, <3>3, NothingSettled DEF IgnoreDeleted
  <2>4. ASSUME NEW s \in Subs, NEW kind \in Kinds, Resend(s, kind) \/ GiveUp(<<s, kind>>)
        PROVE  Backed(u)' /\ Granted(u)'
    <3>1. ASSUME NEW t \in Subs, NEW l \in Kinds
          PROVE  outbox'[<<t, l>>] \in {outbox[<<t, l>>], "resent", "dropped"}
      BY <1>3, <2>4, <3>1 DEF Resend, GiveUp
    <3>2. \A t \in Subs, l \in Kinds : Outstanding(<<t, l>>) => Outstanding(<<t, l>>)'
      BY <3>1 DEF Outstanding
    <3> QED
      BY <1>3, <2>4, <3>2, NothingSettled DEF Resend, GiveUp
  <2>5. CASE Interrupt
    BY <1>3, <2>5, NothingSettled DEF Interrupt, Outstanding
  <2>6. CASE UNCHANGED vars
    BY <1>3, <2>6, NothingSettled DEF vars, Outstanding
  <2> QED
    BY <1>3, <2>1, <2>2, <2>3, <2>4, <2>5, <2>6, CompletedFirstStatement,
       DeletedFirstStatement, SecondStatement DEF Next, Receive
<1>4. ASSUME TypeOK, Consistent, FlagMatchesRows, [Next]_vars
      PROVE  FlagMatchesRows'
  <2>1. \A u \in Users : Backed(u)' /\ Granted(u)'
    BY <1>1, <1>3, <1>4
  <2> QED
    BY <2>1 DEF FlagMatchesRows, Backed, Granted
<1> QED
  BY <1>2, <1>4, TypeCorrect, PTL DEF Spec

------------------------------------------------------------------------------
(***************************************************************************)
(* In-order delivery.  The stage of a subscription is read off its two     *)
(* outbox entries: its end is acknowledged after its beginning, and the    *)
(* beginning is not delivered again after its end.                         *)
(***************************************************************************)
InOrder(s) ==
  /\ s \in Sold <=> outbox[<<s, "completed">>] # "unsent"
  /\ s \in cancelled <=> outbox[<<s, "deleted">>] # "unsent"
  /\ \A kind \in Kinds : outbox[<<s, kind>>] # "dropped"
  /\ outbox[<<s, "deleted">>] \in {"acked", "resent"} => outbox[<<s, "completed">>] = "acked"
  /\ handling = <<s, "deleted">> => outbox[<<s, "completed">>] = "acked"
  /\ outbox[<<s, "completed">>] = "acked" => rows[s] # NoRow

EntitledByStage(u, s) ==
  BoughtBy(u) = {s} =>
    /\ outbox[<<s, "completed">>] = "acked" /\ outbox[<<s, "deleted">>] = "unsent" => premium[u]
    /\ outbox[<<s, "deleted">>] \in {"acked", "resent"} => ~premium[u]

Staged ==
  delivery = "in_order" => \A s \in Subs : InOrder(s) /\ \A u \in Users : EntitledByStage(u, s)

(* How Stripe delivers is fixed for a behaviour.                           *)
LEMMA DeliveryIsFixed == [Next]_vars => delivery' = delivery
BY DEF Next, vars, stripeVars, Checkout, Cancel, Receive, ReceiveCompleted, ReceiveDeleted,
   IgnoreDeleted, SetPremium, Resend, GiveUp, Interrupt

(* An answer touches the outbox entry of its own event only.               *)
LEMMA AnswerEffect ==
  ASSUME TypeOK, NEW t \in Subs, NEW kind \in Kinds, Answer200(<<t, kind>>)
  PROVE  \A v \in Subs, l \in Kinds :
           \/ outbox'[<<v, l>>] = outbox[<<v, l>>]
           \/ v = t /\ l = kind /\ outbox'[<<v, l>>] = "acked"
<1>1. CASE outbox' = outbox
  BY <1>1
<1>2. CASE outbox' = [outbox EXCEPT ![<<t, kind>>] = "acked"]
  <2> TAKE v \in Subs, l \in Kinds
  <2>1. CASE v = t /\ l = kind
    BY <1>2, <2>1, EventPairs DEF TypeOK
  <2>2. CASE ~(v = t /\ l = kind)
    <3>1. <<v, l>> # <<t, kind>>
      BY <2>2, EventPairs
    <3> QED
      BY <1>2, <3>1, EventPairs DEF TypeOK
  <2> QED
    BY <2>1, <2>2
<1> QED
  BY <1>1, <1>2 DEF Answer200

(* The stages are kept by every step.                                      *)
LEMMA NextInOrder ==
  ASSUME TypeOK, Consistent, [Next]_vars, delivery = "in_order", NEW s \in Subs, InOrder(s)
  PROVE  InOrder(s)'
<1> USE EventPairs DEF TypeOK
<1>0. "completed" \in Kinds /\ "deleted" \in Kinds
  BY DEF Kinds
<1>1. ASSUME NEW u \in Users \cup Strangers, NEW t \in Subs, NEW c \in Customers, Checkout(u, t, c)
      PROVE  InOrder(s)'
  <2>1. Sold' = Sold \cup {t} /\ t \notin Sold
    BY <1>1, SentinelAssumption DEF Checkout, Sold, Sale
  <2>2. /\ \A v \in Subs, l \in Kinds :
             outbox'[<<v, l>>] = IF v = t /\ l = "completed" THEN "pending" ELSE outbox[<<v, l>>]
        /\ cancelled' = cancelled /\ rows' = rows /\ handling' = handling
    BY <1>0, <1>1 DEF Checkout
  <2> QED
    BY <1>0, <2>1, <2>2 DEF InOrder
<1>2. ASSUME NEW t \in Subs, Cancel(t)
      PROVE  InOrder(s)'
  <2>1. Sold' = Sold
    BY <1>2 DEF Cancel, Sold
  <2>2. /\ \A v \in Subs, l \in Kinds :
             outbox'[<<v, l>>] = IF v = t /\ l = "deleted" THEN "pending" ELSE outbox[<<v, l>>]
        /\ cancelled' = cancelled \cup {t} /\ rows' = rows /\ handling' = handling
    BY <1>0, <1>2 DEF Cancel
  <2> QED
    BY <1>0, <2>1, <2>2 DEF InOrder
<1>3. ASSUME NEW t \in Subs, ReceiveCompleted(t) \/ ReceiveDeleted(t)
      PROVE  InOrder(s)'
  <2>1. /\ Sold' = Sold /\ cancelled' = cancelled /\ outbox' = outbox
        /\ handling' \in {<<t, "completed">>, <<t, "deleted">>}
        /\ handling' = <<t, "deleted">> => outbox[<<t, "completed">>] = "acked"
    BY <1>0, <1>3 DEF ReceiveCompleted, ReceiveDeleted, Deliverable, stripeVars, Sold
  <2>2. rows[s] # NoRow => rows'[s] # NoRow
    BY RowsAreKept
  <2> QED
    BY <1>0, <2>1, <2>2 DEF InOrder
<1>4. ASSUME NEW t \in Subs, NEW kind \in Kinds, SetPremium(t, kind) \/ IgnoreDeleted(t) \/ Resend(t, kind)
      PROVE  InOrder(s)'
  <2>1. Sold' = Sold /\ cancelled' = cancelled /\ rows' = rows
    BY <1>4 DEF SetPremium, IgnoreDeleted, Resend, stripeVars, Sold
  <2>2. CASE SetPremium(t, kind)
    <3>1. handling = <<t, kind>> /\ handling' = Idle /\ rows[t] # NoRow
          /\ outbox[<<t, kind>>] \in {"pending", "resent"}
      BY <2>2 DEF SetPremium, Consistent, HandlerMidway
    <3>2. \A v \in Subs, l \in Kinds :
            outbox'[<<v, l>>] = outbox[<<v, l>>] \/ (v = t /\ l = kind /\ outbox'[<<v, l>>] = "acked")
      <4>1. Answer200(<<t, kind>>)
        BY <2>2 DEF SetPremium
      <4> QED
        BY <4>1, AnswerEffect
    <3>3. \A v \in Subs, l \in Kinds : handling' # <<v, l>>
      BY <3>1, SentinelAssumption
    <3> QED
      BY <1>0, <2>1, <3>1, <3>2, <3>3 DEF InOrder
  <2>3. CASE IgnoreDeleted(t)
    <3>1. /\ handling' = handling /\ rows[t] = NoRow
          /\ outbox[<<t, "deleted">>] \in {"pending", "resent"}
          /\ outbox[<<t, "completed">>] = "acked"
      BY <2>3 DEF IgnoreDeleted, Deliverable, stripeVars
    <3>2. \A v \in Subs, l \in Kinds :
            outbox'[<<v, l>>] = outbox[<<v, l>>] \/ (v = t /\ l = "deleted" /\ outbox'[<<v, l>>] = "acked")
      BY <1>0, <2>3, AnswerEffect DEF IgnoreDeleted
    <3> QED
      BY <1>0, <2>1, <3>1, <3>2 DEF InOrder
  <2>4. CASE Resend(t, kind)
    <3>1. /\ handling' = handling
          /\ outbox[<<t, kind>>] = "acked"
          /\ kind = "completed" => outbox[<<t, "deleted">>] = "unsent"
      BY <2>4 DEF Resend
    <3>2. \A v \in Subs, l \in Kinds :
            outbox'[<<v, l>>] = IF v = t /\ l = kind THEN "resent" ELSE outbox[<<v, l>>]
      BY <2>4 DEF Resend
    <3>3. handling = <<t, "deleted">> => outbox[<<t, "deleted">>] \in {"pending", "resent"}
      BY <1>0 DEF Consistent, HandlerMidway
    <3> QED
      BY <1>0, <2>1, <3>1, <3>2, <3>3 DEF InOrder, Kinds
  <2> QED
    BY <1>4, <2>2, <2>3, <2>4
<1>5. ASSUME NEW e \in Events, GiveUp(e)
      PROVE  InOrder(s)'
  BY <1>5 DEF GiveUp
<1>6. CASE Interrupt
  <2>1. Sold' = Sold /\ cancelled' = cancelled /\ rows' = rows /\ outbox' = outbox /\ handling' = Idle
    BY <1>6 DEF Interrupt, stripeVars, Sold
  <2>2. handling' # <<s, "deleted">>
    BY <1>0, <2>1, SentinelAssumption
  <2> QED
    BY <2>1, <2>2 DEF InOrder
<1>7. CASE UNCHANGED vars
  BY <1>7 DEF vars, InOrder, Sold
<1> QED
  BY <1>0, <1>1, <1>2, <1>3, <1>4, <1>5, <1>6, <1>7 DEF Next, Receive

(* The flag of a user with one subscription follows its stage.             *)
LEMMA NextEntitled ==
  ASSUME TypeOK, Consistent, [Next]_vars, delivery = "in_order",
         NEW s \in Subs, InOrder(s), NEW u \in Users, EntitledByStage(u, s)
  PROVE  EntitledByStage(u, s)'
<1> USE EventPairs DEF TypeOK
<1>0. "completed" \in Kinds /\ "deleted" \in Kinds
  BY DEF Kinds
<1>1. ASSUME NEW v \in Users \cup Strangers, NEW t \in Subs, NEW c \in Customers, Checkout(v, t, c)
      PROVE  EntitledByStage(u, s)'
  <2>1. /\ t \notin Sold
        /\ Sold' = Sold \cup {t} /\ \A w \in Sold : sale'[w] = sale[w]
        /\ premium' = premium
        /\ \A w \in Subs, l \in Kinds :
             outbox'[<<w, l>>] = IF w = t /\ l = "completed" THEN "pending" ELSE outbox[<<w, l>>]
    BY <1>0, <1>1, SentinelAssumption DEF Checkout, Sold, Sale
  <2>2. BoughtBy(u) \subseteq BoughtBy(u)' /\ BoughtBy(u)' \subseteq BoughtBy(u) \cup {t}
    BY <2>1 DEF BoughtBy
  <2>3. CASE s = t
    BY <1>0, <2>1, <2>3 DEF EntitledByStage, InOrder
  <2>4. CASE s # t
    <3>1. BoughtBy(u)' = {s} => BoughtBy(u) = {s}
      BY <2>1, <2>2, <2>4 DEF BoughtBy
    <3> QED
      BY <1>0, <2>1, <2>4, <3>1 DEF EntitledByStage
  <2> QED
    BY <2>3, <2>4
<1>2. ASSUME sale' = sale, premium' = premium,
             outbox'[<<s, "completed">>] = "acked" => outbox[<<s, "completed">>] = "acked",
             outbox'[<<s, "deleted">>] = "unsent" => outbox[<<s, "deleted">>] = "unsent",
             outbox'[<<s, "deleted">>] \in {"acked", "resent"} => outbox[<<s, "deleted">>] \in {"acked", "resent"}
      PROVE  EntitledByStage(u, s)'
  <2>1. BoughtBy(u)' = BoughtBy(u)
    BY <1>2 DEF BoughtBy, Sold
  <2> QED
    BY <1>2, <2>1 DEF EntitledByStage
<1>3. ASSUME NEW t \in Subs, Cancel(t) \/ ReceiveCompleted(t) \/ ReceiveDeleted(t)
      PROVE  EntitledByStage(u, s)'
  BY <1>0, <1>2, <1>3 DEF Cancel, ReceiveCompleted, ReceiveDeleted, stripeVars
<1>4. ASSUME NEW t \in Subs, IgnoreDeleted(t)
      PROVE  EntitledByStage(u, s)'
  <2>1. /\ rows[t] = NoRow /\ outbox[<<t, "completed">>] = "acked"
        /\ sale' = sale /\ premium' = premium
    BY <1>4 DEF IgnoreDeleted, Deliverable, stripeVars
  <2>2. t # s
    BY <2>1 DEF InOrder
  <2>3. \A l \in Kinds : outbox'[<<s, l>>] = outbox[<<s, l>>]
    BY <1>0, <1>4, <2>2 DEF IgnoreDeleted, Answer200
  <2> QED
    BY <1>0, <1>2, <2>1, <2>3
<1>5. ASSUME NEW t \in Subs, NEW kind \in Kinds, Resend(t, kind)
      PROVE  EntitledByStage(u, s)'
  BY <1>0, <1>2, <1>5 DEF Resend, stripeVars
<1>6. ASSUME NEW t \in Subs, NEW kind \in Kinds, SetPremium(t, kind)
      PROVE  EntitledByStage(u, s)'
  <2>1. /\ handling = <<t, kind>>
        /\ outbox[<<t, kind>>] \in {"pending", "resent"}
        /\ t \in Sold /\ rows[t].user = sale[t].user /\ rows[t].user \in Users
        /\ premium' = [premium EXCEPT ![rows[t].user] = (kind = "completed")]
        /\ sale' = sale
    BY <1>6, SetPremiumEffect DEF SetPremium, Consistent, HandlerMidway, RowsMatchSales
  <2>2. \A v \in Subs, l \in Kinds :
          outbox'[<<v, l>>] = outbox[<<v, l>>] \/ (v = t /\ l = kind /\ outbox'[<<v, l>>] = "acked")
    <3>1. Answer200(<<t, kind>>)
      BY <1>6 DEF SetPremium
    <3> QED
      BY <3>1, AnswerEffect
  <2>3. BoughtBy(u)' = BoughtBy(u)
    BY <2>1 DEF BoughtBy, Sold
  <2> SUFFICES ASSUME BoughtBy(u) = {s}
               PROVE  EntitledByStage(u, s)'
    BY <2>3 DEF EntitledByStage
  <2>4. CASE t # s
    <3>1. rows[t].user # u
      BY <2>1, <2>4 DEF BoughtBy
    <3>2. premium'[u] = premium[u] /\ \A l \in Kinds : outbox'[<<s, l>>] = outbox[<<s, l>>]
      BY <2>1, <2>2, <2>4, <3>1
    <3> QED
      BY <1>0, <2>3, <3>2 DEF EntitledByStage
  <2>5. CASE t = s
    <3>1. rows[t].user = u /\ (premium'[u] <=> kind = "completed")
      BY <2>1, <2>5 DEF BoughtBy
    <3>2. CASE kind = "completed"
      <4>1. outbox[<<s, "deleted">>] \notin {"acked", "resent"}
        BY <2>1, <2>5, <3>2 DEF InOrder
      <4>2. outbox'[<<s, "deleted">>] = outbox[<<s, "deleted">>]
        BY <1>0, <2>2, <3>2
      <4> QED
        BY <3>1, <3>2, <4>1, <4>2 DEF EntitledByStage
    <3>3. CASE kind = "deleted"
      <4>1. outbox'[<<s, "deleted">>] # "unsent"
        BY <1>0, <2>1, <2>2, <2>5, <3>3
      <4> QED
        BY <3>1, <3>3, <4>1 DEF EntitledByStage
    <3> QED
      BY <3>2, <3>3 DEF Kinds
  <2> QED
    BY <2>4, <2>5
<1>7. ASSUME NEW e \in Events, GiveUp(e)
      PROVE  EntitledByStage(u, s)'
  BY <1>7 DEF GiveUp
<1>8. CASE Interrupt
  BY <1>0, <1>2, <1>8 DEF Interrupt, stripeVars
<1>9. CASE UNCHANGED vars
  BY <1>0, <1>2, <1>9 DEF vars
<1> QED
  BY <1>1, <1>3, <1>4, <1>5, <1>6, <1>7, <1>8, <1>9 DEF Next, Receive

(* With in-order delivery a settled user's premium flag says whether the   *)
(* subscription he bought has ended, whatever was interrupted or resent.   *)
THEOREM EntitlementIsStripes == Spec => []EntitlementFollowsStripe
<1>1. Init => Staged
  <2> SUFFICES ASSUME Init PROVE Staged
    OBVIOUS
  <2>1. /\ Sold = {} /\ cancelled = {}
        /\ \A s \in Subs, kind \in Kinds : outbox[<<s, kind>>] = "unsent"
        /\ \A s \in Subs, kind \in Kinds : handling # <<s, kind>>
    BY EventPairs, SentinelAssumption DEF Init, Sold
  <2>2. "completed" \in Kinds /\ "deleted" \in Kinds
    BY DEF Kinds
  <2> QED
    BY <2>1, <2>2 DEF Staged, InOrder, EntitledByStage, BoughtBy
<1>2. ASSUME TypeOK, Consistent, Staged, [Next]_vars
      PROVE  Staged'
  <2> SUFFICES ASSUME delivery = "in_order", NEW s \in Subs
               PROVE  InOrder(s)' /\ \A u \in Users : EntitledByStage(u, s)'
    BY <1>2, DeliveryIsFixed DEF Staged
  <2>1. InOrder(s) /\ \A u \in Users : EntitledByStage(u, s)
    BY <1>2 DEF Staged
  <2>2. InOrder(s)'
    BY <1>2, <2>1, NextInOrder
  <2>3. \A u \in Users : EntitledByStage(u, s)'
    BY <1>2, <2>1, NextEntitled
  <2> QED
    BY <2>2, <2>3
<1>3. TypeOK /\ Staged => EntitlementFollowsStripe
  <2> SUFFICES ASSUME TypeOK, delivery = "in_order", NEW u \in Users, NEW s \in Subs,
                      InOrder(s), EntitledByStage(u, s), BoughtBy(u) = {s}, Settled(s)
               PROVE  premium[u] <=> s \notin cancelled
    BY DEF Staged, EntitlementFollowsStripe
  <2>1. /\ "completed" \in Kinds /\ "deleted" \in Kinds
        /\ \A kind \in Kinds : outbox[<<s, kind>>] \in {"unsent", "acked"}
    BY EventPairs DEF Settled, Outstanding, Kinds, TypeOK
  <2>2. outbox[<<s, "completed">>] = "acked"
    BY <2>1 DEF InOrder, BoughtBy
  <2> QED
    BY <2>1, <2>2 DEF InOrder, EntitledByStage
<1> QED
  BY <1>1, <1>2, <1>3, TypeCorrect, PTL DEF Spec
==============================================================================
