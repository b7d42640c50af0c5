------------------------------ MODULE MCBilling ------------------------------
(* Billing on small instances; the configurations give the constants.       *)
EXTENDS Billing
==============================================================================
