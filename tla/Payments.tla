------------------------------- MODULE Payments -------------------------------
(***************************************************************************)
(* Checkout, webhook, polling and reconciliation of PaymentsService, and   *)
(* the requests of SubscriptionsService on the rows they rewrite.  One     *)
(* step is what a request does between two awaits; a transaction is one    *)
(* step.                                                                   *)
(*                                                                         *)
(* CamPay is external: it accepts a collection or refuses it, its answer   *)
(* may be lost, it decides a collection once, and anybody may call the     *)
(* webhook with a reference, any number of times.                          *)
(***************************************************************************)
EXTENDS SubscriptionRow

CONSTANTS
  Requests,    \* requests in flight at a time
  PaymentIds, Clients,
  Granters,    \* the clients a super admin grants plans to
  MaxPeriods,  \* bound on the number of periods that begin
  None

ASSUME PaymentConstants ==
  /\ MaxPeriods \in Nat
  /\ Granters \subseteq Clients
  /\ None \notin Clients \cup PaymentIds
  /\ None \notin SubscriptionRows

VARIABLES
  sub,         \* client -> its row in subscriptions, or None
  periods,     \* how many periods have begun so far
  payment,     \* id -> its row in payment_transactions
  collection,  \* id -> what CamPay knows of it
  pc,          \* request -> what it does next
  target,      \* request -> the payment it is about
  answer       \* request -> the status CamPay has told it

vars == <<sub, periods, payment, collection, pc, target, answer>>

\* A row of payment_transactions; confirmed stands for confirmed_at: it names the
\* period that began with it.
PaymentOf(client, plan, status) ==
  [client |-> client, plan |-> plan, status |-> status, referenced |-> FALSE, confirmed |-> 0]

NoPayment == PaymentOf(None, "FREE", "UNUSED")

\* A bug: the intended plan is not stored.
MutantPendingPayment(client, plan) == PaymentOf(client, "FREE", "PENDING")

PendingPayment(client, plan) == PaymentOf(client, plan, "PENDING")

-----------------------------------------------------------------------------
(* Requests.                                                               *)

Goto(q, step, p, told) ==
  /\ pc' = [pc EXCEPT ![q] = step]
  /\ target' = [target EXCEPT ![q] = p]
  /\ answer' = [answer EXCEPT ![q] = told]

Answered(q) == Goto(q, "idle", None, "none")

Checkout(q) ==
  /\ pc[q] = "idle"
  /\ \E p \in PaymentIds, c \in Clients, plan \in PaidPlans :
       /\ payment[p].status = "UNUSED"
       /\ payment' = [payment EXCEPT ![p] = PendingPayment(c, plan)]
       /\ Goto(q, "collect", p, "none")
  /\ UNCHANGED <<sub, periods, collection>>

\* CamPay starts the collection; its answer arrives or is lost.
Collect(q) ==
  /\ pc[q] = "collect"
  /\ collection' = [collection EXCEPT ![target[q]] = "PENDING"]
  /\ \E step \in {"store", "fail"} : Goto(q, step, target[q], "none")
  /\ UNCHANGED <<sub, periods, payment>>

CollectionRefused(q) ==
  /\ pc[q] = "collect"
  /\ Goto(q, "fail", target[q], "none")
  /\ UNCHANGED <<sub, periods, payment, collection>>

StoreReference(q) ==
  /\ pc[q] = "store"
  /\ payment' = [payment EXCEPT ![target[q]] = [@ EXCEPT !.referenced = TRUE]]
  /\ Answered(q)
  /\ UNCHANGED <<sub, periods, collection>>

\* catch: whatever went wrong, the payment has failed.
MarkFailed(q) ==
  /\ pc[q] \in {"fail", "store"}
  /\ payment' = [payment EXCEPT ![target[q]] = [@ EXCEPT !.status = "FAILED"]]
  /\ Answered(q)
  /\ UNCHANGED <<sub, periods, collection>>

\* A bug: payments that failed are polled, those that are pending are not.
MutantRefreshable(p) == payment[p].referenced /\ payment[p].status = "FAILED"

Refreshable(p) == payment[p].referenced /\ payment[p].status = "PENDING"

\* refresh, alone or for all pending payments of a client: a payment that is
\* completed, or has no reference, is answered from the row.
Refresh(q, p) ==
  /\ pc[q] = "idle"
  /\ Refreshable(p)
  /\ Goto(q, "ask", p, "none")
  /\ UNCHANGED <<sub, periods, payment, collection>>

\* refreshByReference: the status of the row is not looked at.
Webhook(q, p) ==
  /\ pc[q] = "idle"
  /\ payment[p].referenced
  /\ Goto(q, "ask", p, "none")
  /\ UNCHANGED <<sub, periods, payment, collection>>

\* A bug: whatever is not a failure is taken for a success.
MutantStatusOf(remote) == IF remote = "FAILED" THEN "FAILED" ELSE "SUCCESSFUL"

StatusOf(remote) == IF remote \in {"SUCCESSFUL", "FAILED"} THEN remote ELSE "PENDING"

AskStatus(q) ==
  /\ pc[q] = "ask"
  /\ Goto(q, "apply", target[q], StatusOf(collection[target[q]]))
  /\ UNCHANGED <<sub, periods, payment, collection>>

\* A bug: an existing subscription is left alone.
MutantActivated(p, start) ==
  [sub EXCEPT ![payment[p].client] =
     IF @ = None THEN PaidRow(payment[p].plan, start) ELSE @]

Activated(p, start) == [sub EXCEPT ![payment[p].client] = PaidRow(payment[p].plan, start)]

\* A payment that is confirmed begins a period.
ApplySuccess(q) ==
  /\ pc[q] = "apply" /\ answer[q] = "SUCCESSFUL"
  /\ periods < MaxPeriods
  /\ periods' = periods + 1
  /\ payment' = [payment EXCEPT ![target[q]] =
                  [@ EXCEPT !.status = "SUCCESSFUL", !.confirmed = periods']]
  /\ sub' = Activated(target[q], periods')
  /\ Answered(q)
  /\ UNCHANGED collection

ApplyOther(q) ==
  /\ pc[q] = "apply" /\ answer[q] # "SUCCESSFUL"
  /\ payment' = [payment EXCEPT ![target[q]] = [@ EXCEPT !.status = answer[q]]]
  /\ Answered(q)
  /\ UNCHANGED <<sub, periods, collection>>

\* The process restarts, or a statement or a call fails that nothing catches.
Abandon(q) ==
  /\ pc[q] # "idle"
  /\ Answered(q)
  /\ UNCHANGED <<sub, periods, payment, collection>>

-----------------------------------------------------------------------------
(* CamPay and the clock.                                                   *)

Decide(p) ==
  /\ collection[p] = "PENDING"
  /\ \E outcome \in {"SUCCESSFUL", "FAILED"} : collection' = [collection EXCEPT ![p] = outcome]
  /\ UNCHANGED <<sub, periods, payment, pc, target, answer>>

Rewrite(c, row) ==
  /\ sub' = [sub EXCEPT ![c] = row]
  /\ UNCHANGED <<payment, collection, pc, target, answer>>

PeriodEnds(c) ==
  /\ sub[c] # None
  /\ sub[c].end = "ahead"
  /\ Rewrite(c, [sub[c] EXCEPT !.end = "past"])
  /\ UNCHANGED periods

-----------------------------------------------------------------------------
(* Requests on the subscription: one statement each.                       *)

EnsureFree(c) ==
  /\ sub[c] = None
  /\ periods < MaxPeriods
  /\ periods' = periods + 1
  /\ Rewrite(c, FreeRow(periods'))

\* A bug: the end of the period is not compared with the time.
MutantExpires(c) == sub[c] # None /\ sub[c].plan \in PaidPlans /\ sub[c].status \in Running

Expires(c) == sub[c] # None /\ Sweepable(sub[c])

\* expirePaidSubscriptions, run by getForClient
Expire(c) ==
  /\ Expires(c)
  /\ Rewrite(c, ExpiredRow(sub[c]))
  /\ UNCHANGED periods

Cancel(c) ==
  /\ sub[c] # None
  /\ Cancellable(sub[c])
  /\ Rewrite(c, [sub[c] EXCEPT !.status = "CANCEL_AT_PERIOD_END"])
  /\ UNCHANGED periods

Resume(c) ==
  /\ sub[c] # None
  /\ Resumable(sub[c])
  /\ Rewrite(c, [sub[c] EXCEPT !.status = "ACTIVE"])
  /\ UNCHANGED periods

Grant(c) ==
  /\ c \in Granters
  /\ periods < MaxPeriods
  /\ periods' = periods + 1
  /\ \E plan \in PlanCodes, status \in Statuses : Rewrite(c, GrantedRow(plan, status, periods'))

-----------------------------------------------------------------------------

Init ==
  /\ sub = [c \in Clients |-> None]
  /\ periods = 0
  /\ payment = [p \in PaymentIds |-> NoPayment]
  /\ collection = [p \in PaymentIds |-> "none"]
  /\ pc = [q \in Requests |-> "idle"]
  /\ target = [q \in Requests |-> None]
  /\ answer = [q \in Requests |-> "none"]

Step(q) ==
  \/ Checkout(q) \/ Collect(q) \/ CollectionRefused(q) \/ StoreReference(q) \/ MarkFailed(q)
  \/ (\E p \in PaymentIds : Refresh(q, p) \/ Webhook(q, p))
  \/ AskStatus(q) \/ ApplySuccess(q) \/ ApplyOther(q) \/ Abandon(q)

Billing(c) ==
  PeriodEnds(c) \/ EnsureFree(c) \/ Expire(c) \/ Cancel(c) \/ Resume(c) \/ Grant(c)

Next ==
  \/ \E q \in Requests : Step(q)
  \/ \E p \in PaymentIds : Decide(p)
  \/ \E c \in Clients : Billing(c)

Spec == Init /\ [][Next]_vars

\* Awaited calls and statements of requests are answered again and again even
\* if some requests are abandoned.  Nothing in the process asks CamPay by itself:
\* polls, webhooks, CamPay's decisions and the requests on subscriptions come or
\* do not.
Fairness ==
  \A q \in Requests :
    /\ WF_vars(Collect(q) \/ CollectionRefused(q))
    /\ WF_vars(StoreReference(q) \/ MarkFailed(q))
    /\ SF_vars(AskStatus(q))
    /\ SF_vars(ApplySuccess(q))
    /\ SF_vars(ApplyOther(q))

FairSpec == Spec /\ Fairness

-----------------------------------------------------------------------------
(* Properties.                                                             *)

PaymentRows ==
  [client : Clients \cup {None}, plan : PlanCodes,
   status : {"UNUSED", "PENDING", "SUCCESSFUL", "FAILED"},
   referenced : BOOLEAN, confirmed : 0 .. MaxPeriods]

\* Every row is one its table can hold; a request that is under way is about a
\* payment.
TypeOK ==
  /\ sub \in [Clients -> SubscriptionRows \cup {None}]
  /\ periods \in 0 .. MaxPeriods
  /\ payment \in [PaymentIds -> PaymentRows]
  /\ \A p \in PaymentIds : payment[p].status # "UNUSED" =>
       payment[p].client \in Clients /\ payment[p].plan \in PaidPlans
  /\ collection \in [PaymentIds -> {"none", "PENDING", "SUCCESSFUL", "FAILED"}]
  /\ pc \in [Requests -> {"idle", "collect", "store", "fail", "ask", "apply"}]
  /\ target \in [Requests -> PaymentIds \cup {None}]
  /\ \A q \in Requests : pc[q] # "idle" =>
       target[q] \in PaymentIds /\ payment[target[q]].status # "UNUSED"
  /\ answer \in [Requests -> {"none", "PENDING", "SUCCESSFUL", "FAILED"}]

\* A payment begins a period only if CamPay has collected the money, whoever
\* calls the webhook, and however old the answer is that a request acts on
\* ("activates only after the backend receives and verifies a successful CamPay
\* confirmation", build_updated_spec.py).
ConfirmedOnly ==
  \A p \in PaymentIds : payment[p].confirmed > 0 => collection[p] = "SUCCESSFUL"

\* A confirmed payment is never lost on its tenant: the tenant has a row, and its
\* period is the one the payment began or a later one.
NoLostActivation ==
  \A p \in PaymentIds : payment[p].confirmed > 0 =>
    LET row == sub[payment[p].client] IN row # None /\ row.start >= payment[p].confirmed

\* Who has paid has the plan until the end of the period: no sweep, cancellation,
\* resumption, or late answer about another state of the payment takes it away.
\* Only the end of the period does, or the beginning of another.
PaidUntilEnd ==
  [][\A p \in PaymentIds :
       LET c == payment[p].client IN
       /\ payment[p].confirmed > 0
       /\ sub[c].start = payment[p].confirmed /\ sub[c].end = "ahead"
       /\ sub'[c].start = sub[c].start
       => EffectivePlan(sub'[c]) = payment[p].plan]_vars

\* "Replayed or duplicated notifications must not create duplicate paid periods"
\* (build_updated_spec.py): a payment is confirmed once.  A run refutes it.
OnePeriodPerPayment ==
  [][\A p \in PaymentIds : payment[p].confirmed > 0 =>
       payment'[p].confirmed = payment[p].confirmed]_vars

\* The tenant does not give up on payment p: its checkout dialog stays open, and
\* asks every five seconds (submitCheckout), or the billing page is visited again
\* and again, and asks once each time (ngOnInit).
KeepsAsking(p) == SF_vars(\E q \in Requests : Refresh(q, p))

\* Money that CamPay has collected, for a payment whose reference was stored, is
\* credited in the end if the tenant keeps asking, whatever webhooks are lost,
\* requests abandoned and stale answers applied.  Whoever closes the dialog and
\* does not return is credited by a webhook or not at all.
AskedIsApplied ==
  \A p \in PaymentIds :
    KeepsAsking(p) =>
      (collection[p] = "SUCCESSFUL" /\ payment[p].referenced ~> payment[p].confirmed > 0)

=============================================================================
