------------------------------- MODULE MCBilling -------------------------------
(* TLC instances of BillingSystem. *)
EXTENDS BillingSystem, TLC

CONSTANTS p1, p2

BothPeriods == {{"start", "end"}}
NoneOrBothPeriods == {{}, {"start", "end"}}

\* The renewal of a subscription fails.
PastDue == {[status |-> "past_due", price |-> p2, atEnd |-> FALSE]}

\* Or the subscription is set to end.
PastDueOrEnding == PastDue \cup {[status |-> "active", price |-> p2, atEnd |-> TRUE]}

\* The renewal of an active subscription fails, or it moves to the other plan.
PastDueOrPlanChange ==
  {[status |-> "past_due", price |-> p1, atEnd |-> FALSE],
   [status |-> "active", price |-> p2, atEnd |-> TRUE]}

\* Tenants, customers and so on are interchangeable.  Used by runs without liveness.
Interchangeable ==
  Permutations(Tenants) \cup Permutations(Customers) \cup Permutations(Subs)
    \cup Permutations(Workers) \cup Permutations(Requests) \cup Permutations(Names)
===============================================================================
