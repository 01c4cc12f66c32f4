---------------------------- MODULE SubscriptionRow ----------------------------
(***************************************************************************)
(* The row a tenant has in the table subscriptions, and every way in which *)
(* a statement of the backend reads or rewrites it.  Payments and          *)
(* Entitlements are built from these operators.                            *)
(*                                                                         *)
(* start numbers the periods in the order they begin: it stands for        *)
(* current_period_start, which two periods never share.  end says whether  *)
(* current_period_end is null, to come, or reached.  cancel_at_period_end  *)
(* and price_xaf are only displayed and are left out.                      *)
(***************************************************************************)
EXTENDS Naturals

PlanCodes == {"FREE", "GO", "PRO"}
PaidPlans == {"GO", "PRO"}

Statuses == {"FREE", "PENDING_PAYMENT", "ACTIVE", "PAST_DUE", "CANCEL_AT_PERIOD_END", "EXPIRED"}
Running == {"ACTIVE", "CANCEL_AT_PERIOD_END"}

SubscriptionRows ==
  [plan : PlanCodes, status : Statuses, start : Nat, end : {"none", "ahead", "past"}]

SubscriptionOf(plan, status, start, end) ==
  [plan |-> plan, status |-> status, start |-> start, end |-> end]

\* INSERT of ensureFreeSubscription and getLockedSubscription
FreeRow(start) == SubscriptionOf("FREE", "FREE", start, "none")

\* upsert of PaymentsService.apply
PaidRow(plan, start) == SubscriptionOf(plan, "ACTIVE", start, "ahead")

\* upsert of grantOrUpdate: any status goes with any plan
GrantedRow(plan, status, start) ==
  SubscriptionOf(plan, status, start, IF plan = "FREE" THEN "none" ELSE "ahead")

\* The paid period is over: the period that counts the usage is not renewed.
ExpiredRow(row) == SubscriptionOf("FREE", "EXPIRED", row.start, "none")

\* WHERE of expirePaidSubscriptions
Sweepable(row) ==
  row.plan \in PaidPlans /\ row.status \in Running \cup {"PAST_DUE"} /\ row.end = "past"

\* the test of getLockedSubscription
Lapsed(row) == row.status \in Running /\ row.end = "past"

\* WHERE of cancelAtPeriodEnd and of resumeRenewal
Cancellable(row) == row.plan \in PaidPlans /\ row.status = "ACTIVE" /\ row.end = "ahead"
Resumable(row) == row.status = "CANCEL_AT_PERIOD_END" /\ row.end = "ahead"

EffectivePlan(row) == IF row.status \in Running THEN row.plan ELSE "FREE"

=============================================================================
