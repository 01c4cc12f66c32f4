----------------------------- MODULE PaymentsProofs -----------------------------
(***************************************************************************)
(* Proofs about Payments, for any number of requests, payments, tenants    *)
(* and periods.                                                            *)
(***************************************************************************)
EXTENDS Payments, TLAPS

-----------------------------------------------------------------------------
(* The inductive invariant.                                                *)

Checkouts == {"collect", "store", "fail"}
Inquiries == {"ask", "apply"}

\* What a request knows of the payment it is about.
Informed(q) ==
  /\ pc[q] \in Checkouts => ~ payment[target[q]].referenced
  /\ pc[q] = "collect" => collection[target[q]] = "none"
  /\ pc[q] = "store" => collection[target[q]] # "none"
  /\ pc[q] \in Inquiries => payment[target[q]].referenced
  /\ pc[q] = "apply" /\ answer[q] = "SUCCESSFUL" => collection[target[q]] = "SUCCESSFUL"
  /\ pc[q] = "apply" => answer[q] # "none"

\* A payment is collected by the one request that created it.
OneCheckout ==
  \A q, r \in Requests :
    pc[q] \in Checkouts /\ pc[r] \in Checkouts /\ target[q] = target[r] => q = r

\* What the columns of a payment say of each other and of the collection.
Consistent(p) ==
  /\ payment[p].status = "UNUSED" => payment[p] = NoPayment /\ collection[p] = "none"
  /\ payment[p].referenced => collection[p] # "none"
  /\ payment[p].confirmed > 0 => payment[p].referenced
  /\ payment[p].confirmed <= periods

Started == \A c \in Clients : sub[c] # None => sub[c].start <= periods

\* While the period a payment began has not ended, its plan is in force.
PaidInForce ==
  \A p \in PaymentIds : payment[p].confirmed > 0 =>
    LET row == sub[payment[p].client] IN
    row.start = payment[p].confirmed /\ row.end = "ahead"
      => EffectivePlan(row) = payment[p].plan

Inv ==
  /\ TypeOK
  /\ \A q \in Requests : Informed(q)
  /\ OneCheckout
  /\ \A p \in PaymentIds : Consistent(p)
  /\ Started
  /\ ConfirmedOnly
  /\ NoLostActivation
  /\ PaidInForce

USE PaymentConstants

-----------------------------------------------------------------------------

\* In the initial state nothing has been paid and nobody has a row.
LEMMA InitInv == Init => Inv
BY DEF Init, Inv, TypeOK, Informed, OneCheckout, Consistent, Started, ConfirmedOnly,
  NoLostActivation, PaidInForce, NoPayment, PaymentOf, PaymentRows, Checkouts, Inquiries,
  PlanCodes

\* The rows the statements write are rows of the table.
LEMMA RowTypes ==
  /\ \A n \in Nat : FreeRow(n) \in SubscriptionRows
  /\ \A n \in Nat, plan \in PaidPlans : PaidRow(plan, n) \in SubscriptionRows
  /\ \A n \in Nat, plan \in PlanCodes, status \in Statuses :
       GrantedRow(plan, status, n) \in SubscriptionRows
  /\ \A row \in SubscriptionRows : ExpiredRow(row) \in SubscriptionRows
BY DEF FreeRow, PaidRow, GrantedRow, ExpiredRow, SubscriptionOf, SubscriptionRows, PlanCodes,
  PaidPlans, Statuses

\* None is not a row.
LEMMA NoRowIsNone == ASSUME Inv, NEW c \in Clients, sub[c] # None PROVE sub[c] \in SubscriptionRows
BY DEF Inv, TypeOK

-----------------------------------------------------------------------------
(* Steps of a request that write nothing.                                  *)

\* A request that only moves on keeps the invariant if it knows enough of the
\* payment for its next step.
LEMMA MoveInv ==
  ASSUME Inv, NEW q \in Requests,
         NEW step \in {"idle", "collect", "store", "fail", "ask", "apply"},
         NEW p \in PaymentIds \cup {None},
         NEW told \in {"none", "PENDING", "SUCCESSFUL", "FAILED"},
         Goto(q, step, p, told),
         UNCHANGED <<sub, periods, payment, collection>>,
         step # "idle" => p \in PaymentIds /\ payment[p].status # "UNUSED",
         step \in Checkouts => pc[q] \in Checkouts /\ p = target[q],
         step \in {"fail", "idle"} \cup Inquiries,
         step \in Inquiries => payment[p].referenced,
         step = "apply" => told # "none" /\ (told = "SUCCESSFUL" => collection[p] = "SUCCESSFUL")
  PROVE  Inv'
<1>1. TypeOK'
  BY DEF Inv, TypeOK, Goto
<1>2. ASSUME NEW r \in Requests PROVE Informed(r)'
  <2>1. Informed(r)
    BY DEF Inv
  <2>2. CASE r = q
    BY <2>1, <2>2 DEF Inv, TypeOK, Informed, Goto, Checkouts, Inquiries
  <2>3. CASE r # q
    BY <2>1, <2>3 DEF Inv, TypeOK, Informed, Goto
  <2> QED BY <2>2, <2>3
<1>3. OneCheckout'
  BY DEF Inv, TypeOK, OneCheckout, Goto, Checkouts, Inquiries
<1>4. (\A s \in PaymentIds : Consistent(s)') /\ Started'
  BY DEF Inv, Consistent, Started
<1>5. ConfirmedOnly' /\ NoLostActivation' /\ PaidInForce'
  BY DEF Inv, ConfirmedOnly, NoLostActivation, PaidInForce
<1> QED BY <1>1, <1>2, <1>3, <1>4, <1>5 DEF Inv

\* A request about a payment knows a payment that exists.
LEMMA Target ==
  ASSUME Inv, NEW q \in Requests, pc[q] # "idle"
  PROVE  target[q] \in PaymentIds /\ payment[target[q]].status # "UNUSED"
BY DEF Inv, TypeOK

\* Polls, webhooks, CamPay's answers and abandoned requests.
LEMMA MovesInv ==
  ASSUME Inv, NEW q \in Requests,
         \/ CollectionRefused(q)
         \/ \E p \in PaymentIds : Refresh(q, p) \/ Webhook(q, p)
         \/ AskStatus(q)
         \/ Abandon(q)
  PROVE  Inv'
<1>1. CASE CollectionRefused(q)
  <2>1. target[q] \in PaymentIds /\ payment[target[q]].status # "UNUSED"
    BY <1>1, Target DEF CollectionRefused
  <2>2. Goto(q, "fail", target[q], "none") /\ UNCHANGED <<sub, periods, payment, collection>>
        /\ pc[q] = "collect"
    BY <1>1 DEF CollectionRefused
  <2> QED BY <2>1, <2>2, MoveInv DEF Checkouts, Inquiries
<1>2. CASE \E p \in PaymentIds : Refresh(q, p) \/ Webhook(q, p)
  <2>1. PICK p \in PaymentIds : Refresh(q, p) \/ Webhook(q, p)
    BY <1>2
  <2>2. Goto(q, "ask", p, "none") /\ UNCHANGED <<sub, periods, payment, collection>>
        /\ payment[p].referenced
    BY <2>1 DEF Refresh, Webhook, Refreshable
  <2>3. payment[p].status # "UNUSED"
    BY <2>2 DEF Inv, Consistent, NoPayment, PaymentOf
  <2> QED BY <2>2, <2>3, MoveInv DEF Checkouts, Inquiries
<1>3. CASE AskStatus(q)
  <2>1. target[q] \in PaymentIds /\ payment[target[q]].status # "UNUSED"
    BY <1>3, Target DEF AskStatus
  <2>2. Goto(q, "apply", target[q], StatusOf(collection[target[q]]))
        /\ UNCHANGED <<sub, periods, payment, collection>> /\ pc[q] = "ask"
    BY <1>3 DEF AskStatus
  <2>3. Informed(q) /\ collection[target[q]] \in {"none", "PENDING", "SUCCESSFUL", "FAILED"}
    BY <2>1 DEF Inv, TypeOK
  <2>4. payment[target[q]].referenced
    BY <2>2, <2>3 DEF Informed, Inquiries
  <2> DEFINE told == StatusOf(collection[target[q]])
  <2>5. told \in {"PENDING", "SUCCESSFUL", "FAILED"}
        /\ (told = "SUCCESSFUL" => collection[target[q]] = "SUCCESSFUL")
    BY <2>3 DEF StatusOf
  <2> HIDE DEF told
  <2>6. Goto(q, "apply", target[q], told)
    BY <2>2 DEF told
  <2> QED BY <2>1, <2>2, <2>4, <2>5, <2>6, MoveInv DEF Checkouts, Inquiries
<1>4. CASE Abandon(q)
  <2>1. Goto(q, "idle", None, "none") /\ UNCHANGED <<sub, periods, payment, collection>>
    BY <1>4 DEF Abandon, Answered
  <2> QED BY <2>1, MoveInv DEF Checkouts, Inquiries
<1> QED BY <1>1, <1>2, <1>3, <1>4

-----------------------------------------------------------------------------
(* Steps of a checkout.                                                    *)

\* A new payment is in nobody else's hands.
LEMMA CheckoutInv == ASSUME Inv, NEW q \in Requests, Checkout(q) PROVE Inv'
<1>1. PICK p \in PaymentIds, c \in Clients, plan \in PaidPlans :
        /\ payment[p].status = "UNUSED"
        /\ payment' = [payment EXCEPT ![p] = PendingPayment(c, plan)]
        /\ Goto(q, "collect", p, "none")
  BY DEF Checkout
<1>2. pc[q] = "idle" /\ UNCHANGED <<sub, periods, collection>>
  BY DEF Checkout
<1>3. payment[p] = NoPayment /\ collection[p] = "none"
  BY <1>1 DEF Inv, Consistent
<1>4. PendingPayment(c, plan) =
        [client |-> c, plan |-> plan, status |-> "PENDING", referenced |-> FALSE, confirmed |-> 0]
  BY DEF PendingPayment, PaymentOf
<1>5. \A r \in Requests : pc[r] # "idle" => target[r] # p
  BY <1>1, Target
<1>6. TypeOK'
  BY <1>1, <1>2, <1>4 DEF Inv, TypeOK, PaymentRows, Goto, PaidPlans, PlanCodes
<1>7. ASSUME NEW r \in Requests PROVE Informed(r)'
  <2>1. Informed(r)
    BY DEF Inv
  <2>2. CASE r = q
    BY <1>1, <1>2, <1>3, <1>4, <2>2 DEF Inv, TypeOK, Informed, Goto, Checkouts, Inquiries
  <2>3. CASE r # q
    <3>1. pc'[r] = pc[r] /\ target'[r] = target[r] /\ answer'[r] = answer[r]
      BY <1>1, <2>3 DEF Inv, TypeOK, Goto
    <3>2. CASE pc[r] = "idle"
      BY <3>1, <3>2 DEF Informed, Checkouts, Inquiries
    <3>3. CASE pc[r] # "idle"
      <4>1. payment'[target[r]] = payment[target[r]]
        BY <3>3, <1>1, <1>5, Target DEF Inv, TypeOK
      <4> QED BY <4>1, <3>1, <2>1, <1>2 DEF Informed
    <3> QED BY <3>2, <3>3
  <2> QED BY <2>2, <2>3
<1>8. OneCheckout'
  <2> SUFFICES ASSUME NEW a \in Requests, NEW b \in Requests, pc'[a] \in Checkouts,
                      pc'[b] \in Checkouts, target'[a] = target'[b], a # b
               PROVE  FALSE
    BY DEF OneCheckout
  <2>1. CASE a # q /\ b # q
    BY <1>1, <2>1 DEF Inv, TypeOK, OneCheckout, Goto
  <2>2. CASE a = q
    BY <1>1, <1>5, <2>2 DEF Inv, TypeOK, Goto, Checkouts
  <2>3. CASE b = q
    BY <1>1, <1>5, <2>3 DEF Inv, TypeOK, Goto, Checkouts
  <2> QED BY <2>1, <2>2, <2>3
<1>9. \A s \in PaymentIds : Consistent(s)'
  BY <1>1, <1>2, <1>4 DEF Inv, TypeOK, Consistent
<1>10. Started'
  BY <1>2 DEF Inv, Started
<1>11. \A s \in PaymentIds : payment'[s].confirmed > 0 => payment'[s] = payment[s]
  BY <1>1, <1>4 DEF Inv, TypeOK
<1>12. ConfirmedOnly' /\ NoLostActivation' /\ PaidInForce'
  BY <1>2, <1>11 DEF Inv, ConfirmedOnly, NoLostActivation, PaidInForce
<1> QED BY <1>6, <1>7, <1>8, <1>9, <1>10, <1>12 DEF Inv

\* The collection of a checkout starts: until now nobody could ask about it.
LEMMA CollectInv == ASSUME Inv, NEW q \in Requests, Collect(q) PROVE Inv'
<1> DEFINE p == target[q]
<1>1. PICK step \in {"store", "fail"} : Goto(q, step, p, "none")
  BY DEF Collect
<1>2. pc[q] = "collect" /\ collection' = [collection EXCEPT ![p] = "PENDING"]
      /\ UNCHANGED <<sub, periods, payment>>
  BY DEF Collect
<1>3. p \in PaymentIds /\ payment[p].status # "UNUSED"
  BY <1>2, Target
<1> HIDE DEF p
<1>4. collection[p] = "none" /\ ~ payment[p].referenced
  BY <1>2 DEF p, Inv, Informed, Checkouts
<1>5. TypeOK'
  BY <1>1, <1>2, <1>3 DEF Inv, TypeOK, Goto
<1>6. ASSUME NEW r \in Requests PROVE Informed(r)'
  <2>1. Informed(r)
    BY DEF Inv
  <2>2. CASE r = q
    BY <1>1, <1>2, <1>3, <1>4, <2>2 DEF Inv, TypeOK, Informed, Goto, Checkouts, Inquiries
  <2>3. CASE r # q
    <3>1. pc'[r] = pc[r] /\ target'[r] = target[r] /\ answer'[r] = answer[r]
      BY <1>1, <2>3 DEF Inv, TypeOK, Goto
    <3>2. CASE pc[r] = "idle"
      BY <3>1, <3>2 DEF Informed, Checkouts, Inquiries
    <3>3. CASE pc[r] \in Checkouts
      <4>1. target[r] # p
        BY <2>3, <3>3, <1>2 DEF p, Inv, OneCheckout, Checkouts
      <4>2. collection'[target[r]] = collection[target[r]]
        BY <4>1, <1>2, <3>3, Target DEF Inv, TypeOK, Checkouts
      <4> QED BY <4>2, <3>1, <2>1, <1>2 DEF Informed
    <3>4. CASE pc[r] \in Inquiries
      <4>1. target[r] # p
        BY <2>1, <3>4, <1>4 DEF Informed
      <4>2. collection'[target[r]] = collection[target[r]]
        BY <4>1, <1>2, <3>4, Target DEF Inv, TypeOK, Inquiries
      <4> QED BY <4>2, <3>1, <2>1, <1>2 DEF Informed
    <3> QED BY <3>2, <3>3, <3>4 DEF Inv, TypeOK, Checkouts, Inquiries
  <2> QED BY <2>2, <2>3
<1>7. OneCheckout'
  BY <1>1, <1>2 DEF p, Inv, TypeOK, OneCheckout, Goto, Checkouts
<1>8. (\A s \in PaymentIds : Consistent(s)') /\ Started'
  BY <1>2, <1>3, <1>4 DEF Inv, TypeOK, Consistent, Started
<1>9. ConfirmedOnly'
  BY <1>2, <1>4 DEF Inv, TypeOK, ConfirmedOnly, Consistent
<1>10. NoLostActivation' /\ PaidInForce'
  BY <1>2 DEF Inv, NoLostActivation, PaidInForce
<1> QED BY <1>5, <1>6, <1>7, <1>8, <1>9, <1>10 DEF Inv

\* The end of a checkout: the reference is stored, or the payment has failed.
LEMMA CheckoutEndsInv ==
  ASSUME Inv, NEW q \in Requests, StoreReference(q) \/ MarkFailed(q)
  PROVE  Inv'
<1> DEFINE p == target[q]
<1>1. Goto(q, "idle", None, "none") /\ UNCHANGED <<sub, periods, collection>>
      /\ pc[q] \in Checkouts
  BY DEF StoreReference, MarkFailed, Answered, Checkouts
<1>2. p \in PaymentIds /\ payment[p].status # "UNUSED" /\ ~ payment[p].referenced
  BY <1>1, Target DEF Inv, Informed, Checkouts
<1>3. PICK row :
        /\ payment' = [payment EXCEPT ![p] = row]
        /\ \/ pc[q] = "store" /\ row = [payment[p] EXCEPT !.referenced = TRUE]
           \/ row = [payment[p] EXCEPT !.status = "FAILED"]
  BY DEF StoreReference, MarkFailed
<1> HIDE DEF p
<1>4. /\ row \in PaymentRows /\ payment'[p] = row
      /\ row.client = payment[p].client /\ row.plan = payment[p].plan
      /\ row.confirmed = payment[p].confirmed /\ row.status # "UNUSED"
      /\ row.referenced => pc[q] = "store"
      /\ \A s \in PaymentIds \ {p} : payment'[s] = payment[s]
  <2>1. payment[p] \in PaymentRows
    BY <1>2 DEF Inv, TypeOK
  <2>2. /\ row \in PaymentRows /\ row.client = payment[p].client /\ row.plan = payment[p].plan
        /\ row.confirmed = payment[p].confirmed /\ row.status # "UNUSED"
        /\ row.referenced => pc[q] = "store"
    BY <1>2, <1>3, <2>1 DEF PaymentRows
  <2> QED BY <2>2, <1>2, <1>3 DEF Inv, TypeOK
<1>5. payment[p].confirmed = 0
  BY <1>2 DEF Inv, TypeOK, Consistent, PaymentRows
<1>6. TypeOK'
  BY <1>1, <1>2, <1>3, <1>4 DEF Inv, TypeOK, Goto
<1>7. ASSUME NEW r \in Requests PROVE Informed(r)'
  <2>1. Informed(r)
    BY DEF Inv
  <2>2. CASE r = q
    BY <1>1, <2>2 DEF Inv, TypeOK, Informed, Goto, Checkouts, Inquiries
  <2>3. CASE r # q
    <3>1. pc'[r] = pc[r] /\ target'[r] = target[r] /\ answer'[r] = answer[r]
      BY <1>1, <2>3 DEF Inv, TypeOK, Goto
    <3>2. CASE pc[r] = "idle"
      BY <3>1, <3>2 DEF Informed, Checkouts, Inquiries
    <3>3. CASE pc[r] # "idle"
      <4>1. target[r] # p
        BY <2>1, <2>3, <3>3, <1>1, <1>2
          DEF p, Inv, TypeOK, Informed, OneCheckout, Checkouts, Inquiries
      <4>2. payment'[target[r]] = payment[target[r]]
        BY <4>1, <1>4, <3>3, Target
      <4> QED BY <4>2, <3>1, <2>1, <1>1 DEF Informed
    <3> QED BY <3>2, <3>3
  <2> QED BY <2>2, <2>3
<1>8. OneCheckout'
  BY <1>1 DEF Inv, TypeOK, OneCheckout, Goto, Checkouts
<1>9. ASSUME NEW s \in PaymentIds PROVE Consistent(s)'
  <2>1. pc[q] = "store" => collection[p] # "none"
    BY DEF p, Inv, Informed
  <2>2. Consistent(s)
    BY DEF Inv
  <2>3. CASE s = p
    BY <2>1, <2>3, <1>1, <1>2, <1>4, <1>5 DEF Inv, TypeOK, Consistent
  <2>4. CASE s # p
    BY <2>2, <2>4, <1>1, <1>4 DEF Consistent
  <2> QED BY <2>3, <2>4
<1>10. Started'
  BY <1>1 DEF Inv, Started
<1>11. \A s \in PaymentIds : payment'[s].confirmed > 0 => payment'[s] = payment[s]
  BY <1>4, <1>5
<1>12. ConfirmedOnly' /\ NoLostActivation' /\ PaidInForce'
  BY <1>1, <1>11 DEF Inv, ConfirmedOnly, NoLostActivation, PaidInForce
<1> QED BY <1>6, <1>7, <1>8, <1>9, <1>10, <1>12 DEF Inv

-----------------------------------------------------------------------------
(* CamPay's answer is applied.                                             *)

\* A success begins a period nobody has had before.
LEMMA ApplySuccessInv == ASSUME Inv, NEW q \in Requests, ApplySuccess(q) PROVE Inv'
<1> DEFINE p == target[q]
           c == payment[p].client
           n == periods + 1
<1>1. Goto(q, "idle", None, "none") /\ UNCHANGED collection
      /\ pc[q] = "apply" /\ answer[q] = "SUCCESSFUL" /\ periods < MaxPeriods /\ periods' = n
  BY DEF ApplySuccess, Answered
<1>2. p \in PaymentIds /\ payment[p].status # "UNUSED" /\ payment[p].referenced
      /\ collection[p] = "SUCCESSFUL"
  BY <1>1, Target DEF Inv, Informed, Inquiries
<1>3. c \in Clients /\ payment[p].plan \in PaidPlans /\ n \in Nat /\ n <= MaxPeriods
  BY <1>1, <1>2 DEF Inv, TypeOK
<1>4. sub' = [sub EXCEPT ![c] = PaidRow(payment[p].plan, n)]
  BY <1>1 DEF ApplySuccess, Activated
<1>5. payment' = [payment EXCEPT ![p] = [payment[p] EXCEPT !.status = "SUCCESSFUL", !.confirmed = n]]
  BY <1>1 DEF ApplySuccess
<1> HIDE DEF p, c, n
<1>6. PICK paid \in PaymentRows :
        /\ payment' = [payment EXCEPT ![p] = paid] /\ payment'[p] = paid
        /\ paid.client = c /\ paid.plan = payment[p].plan
        /\ paid.status = "SUCCESSFUL" /\ paid.referenced /\ paid.confirmed = n
        /\ \A s \in PaymentIds \ {p} : payment'[s] = payment[s]
  <2> DEFINE new == [payment[p] EXCEPT !.status = "SUCCESSFUL", !.confirmed = n]
  <2>1. payment[p] \in PaymentRows /\ n \in 0 .. MaxPeriods
    BY <1>2, <1>3 DEF Inv, TypeOK
  <2>2. /\ new \in PaymentRows /\ new.client = c /\ new.plan = payment[p].plan
        /\ new.status = "SUCCESSFUL" /\ new.referenced /\ new.confirmed = n
    BY <1>2, <2>1 DEF c, PaymentRows
  <2>3. payment' = [payment EXCEPT ![p] = new]
    BY <1>5
  <2> HIDE DEF new
  <2>4. payment'[p] = new /\ \A s \in PaymentIds \ {p} : payment'[s] = payment[s]
    BY <1>2, <2>3 DEF Inv, TypeOK
  <2> QED BY <2>2, <2>3, <2>4
<1>7. PaidRow(payment[p].plan, n) \in SubscriptionRows
  BY <1>3, RowTypes
<1>8. TypeOK'
  <2>1. periods' \in 0 .. MaxPeriods
    BY <1>1, <1>3 DEF Inv, TypeOK
  <2>2. sub' \in [Clients -> SubscriptionRows \cup {None}]
    BY <1>4, <1>7 DEF Inv, TypeOK
  <2>3. \A s \in PaymentIds : payment'[s].status # "UNUSED" =>
          payment'[s].client \in Clients /\ payment'[s].plan \in PaidPlans
    BY <1>3, <1>6 DEF Inv, TypeOK
  <2> QED BY <2>1, <2>2, <2>3, <1>1, <1>2, <1>6 DEF Inv, TypeOK, Goto
<1>9. ASSUME NEW r \in Requests PROVE Informed(r)'
  <2>1. Informed(r)
    BY DEF Inv
  <2>2. CASE r = q
    BY <1>1, <2>2 DEF Inv, TypeOK, Informed, Goto, Checkouts, Inquiries
  <2>3. CASE r # q
    <3>1. pc'[r] = pc[r] /\ target'[r] = target[r] /\ answer'[r] = answer[r]
      BY <1>1, <2>3 DEF Inv, TypeOK, Goto
    <3>2. CASE pc[r] = "idle"
      BY <3>1, <3>2 DEF Informed, Checkouts, Inquiries
    <3>3. CASE pc[r] # "idle"
      <4>1. payment'[target[r]].referenced <=> payment[target[r]].referenced
        <5>1. target[r] \in PaymentIds
          BY <3>3, Target
        <5> QED BY <5>1, <1>2, <1>6
      <4> QED BY <4>1, <3>1, <2>1, <1>1 DEF Informed
    <3> QED BY <3>2, <3>3
  <2> QED BY <2>2, <2>3
<1>10. OneCheckout'
  BY <1>1 DEF Inv, TypeOK, OneCheckout, Goto, Checkouts
<1>11. ASSUME NEW s \in PaymentIds PROVE Consistent(s)'
  <2>1. Consistent(s) /\ periods \in Nat /\ payment[s].confirmed \in Nat
    BY DEF Inv, TypeOK, PaymentRows
  <2>2. CASE s = p
    BY <2>2, <1>1, <1>2, <1>3, <1>6 DEF Consistent
  <2>3. CASE s # p
    BY <2>1, <2>3, <1>1, <1>6 DEF n, Consistent
  <2> QED BY <2>2, <2>3
<1>12. /\ sub'[c] = PaidRow(payment[p].plan, n)
       /\ \A d \in Clients \ {c} : sub'[d] = sub[d]
  BY <1>3, <1>4 DEF Inv, TypeOK
<1>13. sub'[c] # None /\ sub'[c].start = n /\ EffectivePlan(sub'[c]) = payment[p].plan
  <2>1. sub'[c] # None
    BY <1>7, <1>12
  <2> QED BY <2>1, <1>12 DEF PaidRow, SubscriptionOf, EffectivePlan, Running
<1>14. Started'
  <2>1. ASSUME NEW d \in Clients, sub'[d] # None PROVE sub'[d].start <= periods'
    <3>1. CASE d = c
      BY <3>1, <1>1, <1>3, <1>13
    <3>2. CASE d # c
      <4>1. sub[d] \in SubscriptionRows /\ sub[d].start <= periods
        BY <2>1, <3>2, <1>12 DEF Inv, TypeOK, Started
      <4> QED BY <4>1, <3>2, <1>1, <1>12 DEF n, Inv, TypeOK, SubscriptionRows
    <3> QED BY <3>1, <3>2
  <2> QED BY <2>1 DEF Started
<1>15. ConfirmedOnly'
  BY <1>1, <1>2, <1>6 DEF Inv, ConfirmedOnly
\* Every other payment was confirmed earlier: its period is over for the client.
<1>16. ASSUME NEW s \in PaymentIds, payment'[s].confirmed > 0
      PROVE  LET row == sub'[payment'[s].client] IN
               /\ row # None /\ row.start >= payment'[s].confirmed
               /\ row.start = payment'[s].confirmed /\ row.end = "ahead"
                    => EffectivePlan(row) = payment'[s].plan
  <2>1. CASE s = p
    BY <2>1, <1>3, <1>6, <1>13
  <2>2. CASE s # p
    <3>1. payment'[s] = payment[s] /\ payment[s].confirmed <= periods
          /\ payment[s].confirmed \in Nat /\ periods \in Nat /\ payment[s].confirmed > 0
      BY <2>2, <1>6, <1>16 DEF Inv, TypeOK, Consistent, PaymentRows
    <3>2. payment[s].client \in Clients
      BY <3>1 DEF Inv, TypeOK, Consistent, NoPayment, PaymentOf
    <3>3. CASE payment[s].client = c
      BY <3>1, <3>3, <1>13 DEF n
    <3>4. CASE payment[s].client # c
      <4>1. sub'[payment[s].client] = sub[payment[s].client]
        BY <3>2, <3>4, <1>12
      <4> QED BY <4>1, <3>1 DEF Inv, NoLostActivation, PaidInForce
    <3> QED BY <3>3, <3>4
  <2> QED BY <2>1, <2>2
<1>17. NoLostActivation' /\ PaidInForce'
  BY <1>16 DEF NoLostActivation, PaidInForce
<1> QED BY <1>8, <1>9, <1>10, <1>11, <1>14, <1>15, <1>17 DEF Inv

\* Any other answer is written over whatever the payment was.
LEMMA ApplyOtherInv == ASSUME Inv, NEW q \in Requests, ApplyOther(q) PROVE Inv'
<1> DEFINE p == target[q]
<1>1. Goto(q, "idle", None, "none") /\ UNCHANGED <<sub, periods, collection>>
      /\ pc[q] = "apply" /\ answer[q] # "SUCCESSFUL"
      /\ payment' = [payment EXCEPT ![p] = [payment[p] EXCEPT !.status = answer[q]]]
  BY DEF ApplyOther, Answered
<1>2. p \in PaymentIds /\ payment[p].status # "UNUSED" /\ payment[p].referenced
      /\ answer[q] \in {"PENDING", "FAILED"}
  BY <1>1, Target DEF Inv, TypeOK, Informed, Inquiries
<1> HIDE DEF p
<1>3. PICK row \in PaymentRows :
        /\ payment' = [payment EXCEPT ![p] = row] /\ row.status # "UNUSED"
        /\ \A s \in PaymentIds :
             /\ payment'[s].client = payment[s].client /\ payment'[s].plan = payment[s].plan
             /\ payment'[s].confirmed = payment[s].confirmed
             /\ payment'[s].referenced = payment[s].referenced
             /\ payment'[s] = IF s = p THEN row ELSE payment[s]
  <2> DEFINE new == [payment[p] EXCEPT !.status = answer[q]]
  <2>1. payment[p] \in PaymentRows
    BY <1>2 DEF Inv, TypeOK
  <2>2. /\ new \in PaymentRows /\ new.status # "UNUSED" /\ new.client = payment[p].client
        /\ new.plan = payment[p].plan /\ new.confirmed = payment[p].confirmed
        /\ new.referenced = payment[p].referenced
    BY <1>2, <2>1 DEF PaymentRows
  <2>3. payment' = [payment EXCEPT ![p] = new]
    BY <1>1
  <2> HIDE DEF new
  <2>4. \A s \in PaymentIds : payment'[s] = IF s = p THEN new ELSE payment[s]
    BY <1>2, <2>3 DEF Inv, TypeOK
  <2>5. \A s \in PaymentIds :
          /\ payment'[s].client = payment[s].client /\ payment'[s].plan = payment[s].plan
          /\ payment'[s].confirmed = payment[s].confirmed
          /\ payment'[s].referenced = payment[s].referenced
    BY <2>2, <2>4
  <2> QED BY <2>2, <2>3, <2>4, <2>5
<1>4. TypeOK'
  <2>1. \A s \in PaymentIds : payment'[s].status # "UNUSED" =>
          payment'[s].client \in Clients /\ payment'[s].plan \in PaidPlans
    BY <1>2, <1>3 DEF Inv, TypeOK
  <2>2. /\ sub' \in [Clients -> SubscriptionRows \cup {None}] /\ periods' \in 0 .. MaxPeriods
        /\ collection' \in [PaymentIds -> {"none", "PENDING", "SUCCESSFUL", "FAILED"}]
    BY <1>1 DEF Inv, TypeOK
  <2>3. payment' \in [PaymentIds -> PaymentRows]
    BY <1>3 DEF Inv, TypeOK
  <2>4. /\ pc' \in [Requests -> {"idle", "collect", "store", "fail", "ask", "apply"}]
        /\ target' \in [Requests -> PaymentIds \cup {None}]
        /\ answer' \in [Requests -> {"none", "PENDING", "SUCCESSFUL", "FAILED"}]
    BY <1>1 DEF Inv, TypeOK, Goto
  <2>5. ASSUME NEW r \in Requests, pc'[r] # "idle"
        PROVE  target'[r] \in PaymentIds /\ payment'[target'[r]].status # "UNUSED"
    <3>1. r # q /\ pc[r] # "idle" /\ target'[r] = target[r]
      BY <2>5, <1>1 DEF Inv, TypeOK, Goto
    <3> QED BY <3>1, <1>3, Target
  <2> QED BY <2>1, <2>2, <2>3, <2>4, <2>5 DEF TypeOK
<1>5. ASSUME NEW r \in Requests PROVE Informed(r)'
  <2>1. Informed(r)
    BY DEF Inv
  <2>2. CASE r = q
    BY <1>1, <2>2 DEF Inv, TypeOK, Informed, Goto, Checkouts, Inquiries
  <2>3. CASE r # q
    <3>1. pc'[r] = pc[r] /\ target'[r] = target[r] /\ answer'[r] = answer[r]
      BY <1>1, <2>3 DEF Inv, TypeOK, Goto
    <3>2. CASE pc[r] = "idle"
      BY <3>1, <3>2 DEF Informed, Checkouts, Inquiries
    <3>3. CASE pc[r] # "idle"
      <4>1. payment'[target[r]].referenced = payment[target[r]].referenced
        BY <1>3, <3>3, Target
      <4> QED BY <4>1, <3>1, <2>1, <1>1 DEF Informed
    <3> QED BY <3>2, <3>3
  <2> QED BY <2>2, <2>3
<1>6. OneCheckout'
  BY <1>1 DEF Inv, TypeOK, OneCheckout, Goto, Checkouts
<1>7. \A s \in PaymentIds : Consistent(s)'
  BY <1>1, <1>2, <1>3 DEF Inv, Consistent
<1>8. Started' /\ ConfirmedOnly'
  BY <1>1, <1>3 DEF Inv, Started, ConfirmedOnly
<1>9. NoLostActivation' /\ PaidInForce'
  BY <1>1, <1>3 DEF Inv, NoLostActivation, PaidInForce
<1> QED BY <1>4, <1>5, <1>6, <1>7, <1>8, <1>9 DEF Inv

-----------------------------------------------------------------------------
(* CamPay, the clock, and the requests on a subscription.                  *)

\* CamPay decides only what is undecided.
LEMMA DecideInv == ASSUME Inv, NEW p \in PaymentIds, Decide(p) PROVE Inv'
<1>1. PICK outcome \in {"SUCCESSFUL", "FAILED"} : collection' = [collection EXCEPT ![p] = outcome]
  BY DEF Decide
<1>2. collection[p] = "PENDING" /\ UNCHANGED <<sub, periods, payment, pc, target, answer>>
  BY DEF Decide
<1>3. /\ collection'[p] = outcome
      /\ \A s \in PaymentIds \ {p} : collection'[s] = collection[s]
  BY <1>1 DEF Inv, TypeOK
<1>4. TypeOK'
  BY <1>1, <1>2 DEF Inv, TypeOK
<1>5. ASSUME NEW r \in Requests PROVE Informed(r)'
  <2>1. Informed(r)
    BY DEF Inv
  <2>2. CASE pc[r] = "idle"
    BY <1>2, <2>2 DEF Informed, Checkouts, Inquiries
  <2>3. CASE pc[r] # "idle" /\ target[r] = p
    BY <2>1, <2>3, <1>2, <1>3 DEF Informed
  <2>4. CASE pc[r] # "idle" /\ target[r] # p
    <3>1. collection'[target[r]] = collection[target[r]]
      BY <2>4, <1>3, Target
    <3> QED BY <3>1, <2>1, <1>2 DEF Informed
  <2> QED BY <2>2, <2>3, <2>4
<1>6. OneCheckout' /\ Started' /\ NoLostActivation' /\ PaidInForce'
  BY <1>2 DEF Inv, OneCheckout, Started, NoLostActivation, PaidInForce
<1>7. ASSUME NEW s \in PaymentIds PROVE Consistent(s)'
  <2>1. Consistent(s)
    BY DEF Inv
  <2> QED BY <2>1, <1>2, <1>3 DEF Consistent
<1>8. ConfirmedOnly'
  BY <1>2, <1>3 DEF Inv, ConfirmedOnly
<1> QED BY <1>4, <1>5, <1>6, <1>7, <1>8 DEF Inv

\* A row may be rewritten if it begins a period, or else keeps its period and,
\* as long as that is not over, its plan.
LEMMA RewriteInv ==
  ASSUME Inv, NEW c \in Clients, NEW row \in SubscriptionRows, Rewrite(c, row),
         periods' \in 0 .. MaxPeriods, periods <= periods',
         \/ row.start = periods' /\ periods < periods'
         \/ /\ sub[c] # None
            /\ row.start = sub[c].start
            /\ row.end = "ahead" =>
                 sub[c].end = "ahead" /\ EffectivePlan(row) = EffectivePlan(sub[c])
  PROVE  Inv'
<1>1. sub' = [sub EXCEPT ![c] = row] /\ UNCHANGED <<payment, collection, pc, target, answer>>
  BY DEF Rewrite
<1>2. /\ sub'[c] = row /\ row # None
      /\ \A d \in Clients \ {c} : sub'[d] = sub[d]
      /\ periods \in Nat /\ periods' \in Nat
      /\ row.start \in Nat
  BY <1>1 DEF Inv, TypeOK, SubscriptionRows
<1>3. TypeOK'
  BY <1>1 DEF Inv, TypeOK
<1>4. (\A r \in Requests : Informed(r)') /\ OneCheckout' /\ ConfirmedOnly'
  BY <1>1 DEF Inv, Informed, OneCheckout, ConfirmedOnly
<1>5. ASSUME NEW s \in PaymentIds PROVE Consistent(s)'
  <2>1. Consistent(s) /\ payment[s].confirmed \in Nat
    BY DEF Inv, TypeOK, PaymentRows
  <2> QED BY <2>1, <1>1, <1>2 DEF Consistent
<1>6. ASSUME NEW d \in Clients, sub'[d] # None PROVE sub'[d].start <= periods'
  <2>1. CASE d = c
    BY <2>1, <1>2 DEF Inv, Started
  <2>2. CASE d # c
    <3>1. sub'[d] = sub[d] /\ sub[d].start <= periods /\ sub[d].start \in Nat
      BY <2>2, <1>2, <1>6 DEF Inv, Started, TypeOK, SubscriptionRows
    <3> QED BY <3>1, <1>2
  <2> QED BY <2>1, <2>2
<1>7. ASSUME NEW s \in PaymentIds, payment'[s].confirmed > 0
      PROVE  LET new == sub'[payment'[s].client] IN
               /\ new # None /\ new.start >= payment'[s].confirmed
               /\ new.start = payment'[s].confirmed /\ new.end = "ahead"
                    => EffectivePlan(new) = payment'[s].plan
  <2>1. payment'[s] = payment[s] /\ payment[s].confirmed <= periods
        /\ payment[s].confirmed \in Nat /\ payment[s].client \in Clients
    BY <1>1, <1>7 DEF Inv, TypeOK, Consistent, NoPayment, PaymentOf, PaymentRows
  <2>2. LET old == sub[payment[s].client] IN
          /\ old # None /\ old.start >= payment[s].confirmed
          /\ old.start = payment[s].confirmed /\ old.end = "ahead"
               => EffectivePlan(old) = payment[s].plan
    BY <2>1, <1>7 DEF Inv, NoLostActivation, PaidInForce
  <2>3. CASE payment[s].client # c
    BY <2>1, <2>2, <2>3, <1>2
  <2>4. CASE payment[s].client = c
    <3>1. CASE row.start = periods' /\ periods < periods'
      BY <2>1, <2>4, <3>1, <1>2
    <3>2. CASE ~ (row.start = periods' /\ periods < periods')
      BY <2>1, <2>2, <2>4, <3>2, <1>2
    <3> QED BY <3>1, <3>2
  <2> QED BY <2>3, <2>4
<1>8. Started'
  BY <1>6 DEF Started
<1>9. NoLostActivation' /\ PaidInForce'
  BY <1>7 DEF NoLostActivation, PaidInForce
<1> QED BY <1>3, <1>4, <1>5, <1>8, <1>9 DEF Inv

LEMMA BillingInv == ASSUME Inv, NEW c \in Clients, Billing(c) PROVE Inv'
<1>1. periods \in Nat /\ periods <= MaxPeriods /\ MaxPeriods \in Nat
  BY DEF Inv, TypeOK
<1>2. CASE PeriodEnds(c)
  <2> DEFINE row == [sub[c] EXCEPT !.end = "past"]
  <2>1. sub[c] # None /\ UNCHANGED periods /\ Rewrite(c, row)
    BY <1>2 DEF PeriodEnds
  <2>2. row \in SubscriptionRows /\ row.start = sub[c].start /\ row.end = "past"
    BY <2>1, NoRowIsNone DEF SubscriptionRows
  <2> HIDE DEF row
  <2> QED BY <2>1, <2>2, <1>1, RewriteInv
<1>3. CASE EnsureFree(c)
  <2>1. periods' = periods + 1 /\ periods < MaxPeriods /\ Rewrite(c, FreeRow(periods'))
    BY <1>3 DEF EnsureFree
  <2>2. FreeRow(periods') \in SubscriptionRows /\ FreeRow(periods').start = periods'
    BY <2>1, <1>1, RowTypes DEF FreeRow, SubscriptionOf
  <2> QED BY <2>1, <2>2, <1>1, RewriteInv
<1>4. CASE Expire(c)
  <2>1. sub[c] # None /\ UNCHANGED periods /\ Rewrite(c, ExpiredRow(sub[c]))
    BY <1>4 DEF Expire, Expires
  <2>2. ExpiredRow(sub[c]) \in SubscriptionRows /\ ExpiredRow(sub[c]).start = sub[c].start
        /\ ExpiredRow(sub[c]).end = "none"
    BY <2>1, NoRowIsNone, RowTypes DEF ExpiredRow, SubscriptionOf
  <2> QED BY <2>1, <2>2, <1>1, RewriteInv
<1>5. CASE Cancel(c) \/ Resume(c)
  <2>1. PICK status \in {"ACTIVE", "CANCEL_AT_PERIOD_END"} :
          Rewrite(c, [sub[c] EXCEPT !.status = status])
    BY <1>5 DEF Cancel, Resume
  <2>2. sub[c] # None /\ UNCHANGED periods /\ sub[c].status \in Running /\ sub[c].end = "ahead"
    BY <1>5 DEF Cancel, Resume, Cancellable, Resumable, Running
  <2> DEFINE row == [sub[c] EXCEPT !.status = status]
  <2>3. row \in SubscriptionRows /\ row.start = sub[c].start /\ row.plan = sub[c].plan
        /\ row.status = status
    BY <2>2, NoRowIsNone DEF SubscriptionRows, Statuses
  <2>4. EffectivePlan(row) = EffectivePlan(sub[c])
    BY <2>2, <2>3 DEF EffectivePlan, Running
  <2>5. Rewrite(c, row)
    BY <2>1
  <2> HIDE DEF row
  <2> QED BY <2>2, <2>3, <2>4, <2>5, <1>1, RewriteInv
<1>6. CASE Grant(c)
  <2>1. PICK plan \in PlanCodes, status \in Statuses :
          Rewrite(c, GrantedRow(plan, status, periods'))
    BY <1>6 DEF Grant
  <2>2. periods' = periods + 1 /\ periods < MaxPeriods
    BY <1>6 DEF Grant
  <2>3. GrantedRow(plan, status, periods') \in SubscriptionRows
        /\ GrantedRow(plan, status, periods').start = periods'
    BY <2>2, <1>1, RowTypes DEF GrantedRow, SubscriptionOf
  <2> QED BY <2>1, <2>2, <2>3, <1>1, RewriteInv
<1> QED BY <1>2, <1>3, <1>4, <1>5, <1>6 DEF Billing

-----------------------------------------------------------------------------
(* The theorems.                                                           *)

LEMMA NextInv == ASSUME Inv, [Next]_vars PROVE Inv'
<1>1. ASSUME NEW q \in Requests, Step(q) PROVE Inv'
  BY <1>1, MovesInv, CheckoutInv, CollectInv, CheckoutEndsInv, ApplySuccessInv, ApplyOtherInv
    DEF Step
<1>2. CASE UNCHANGED vars
  BY <1>2 DEF vars, Inv, TypeOK, Informed, OneCheckout, Consistent, Started, ConfirmedOnly,
    NoLostActivation, PaidInForce
<1> QED BY <1>1, <1>2, DecideInv, BillingInv DEF Next

\* The invariant holds in every state, whatever requests interleave.
THEOREM Invariance == Spec => []Inv
<1>1. Inv /\ [Next]_vars => Inv'
  BY NextInv
<1> QED BY <1>1, InitInv, PTL DEF Spec

\* Rows and requests keep their types (payment_transactions, subscriptions).
THEOREM TypeCorrect == Spec => []TypeOK
<1>1. Inv => TypeOK
  BY DEF Inv
<1> QED BY <1>1, Invariance, PTL

\* No period begins without CamPay's confirmation (refresh, refreshByReference,
\* apply), for any number of payments, polls and webhooks.
THEOREM OnlyConfirmedPaymentsCount == Spec => []ConfirmedOnly
<1>1. Inv => ConfirmedOnly
  BY DEF Inv
<1> QED BY <1>1, Invariance, PTL

\* No request on the subscription undoes the activation by a payment (apply).
THEOREM ActivationsLast == Spec => []NoLostActivation
<1>1. Inv => NoLostActivation
  BY DEF Inv
<1> QED BY <1>1, Invariance, PTL

\* A step that stays in the period a payment began keeps its plan.
LEMMA PlanKept ==
  ASSUME Inv, [Next]_vars, NEW p \in PaymentIds, NEW c, c = payment[p].client,
         payment[p].confirmed > 0,
         sub[c].start = payment[p].confirmed, sub[c].end = "ahead",
         sub'[c].start = sub[c].start
  PROVE  EffectivePlan(sub'[c]) = payment[p].plan
<1>1. /\ c \in Clients /\ sub[c] # None /\ sub[c] \in SubscriptionRows
      /\ sub[c].start \in Nat /\ sub[c].start <= periods /\ periods \in Nat
  BY DEF Inv, TypeOK, Consistent, NoPayment, PaymentOf, NoLostActivation, Started, PaymentRows,
    SubscriptionRows
<1>2. EffectivePlan(sub[c]) = payment[p].plan
  BY DEF Inv, PaidInForce
<1>3. CASE sub' = sub
  BY <1>2, <1>3
<1>4. ASSUME NEW q \in Requests, ApplySuccess(q) PROVE EffectivePlan(sub'[c]) = payment[p].plan
  <2>1. periods' = periods + 1 /\ sub' = Activated(target[q], periods')
    BY <1>4 DEF ApplySuccess
  <2>2. payment[target[q]].client # c
    <3>1. SUFFICES ASSUME payment[target[q]].client = c PROVE FALSE
      OBVIOUS
    <3>2. sub'[c] = PaidRow(payment[target[q]].plan, periods')
      BY <3>1, <2>1, <1>1 DEF Activated, Inv, TypeOK
    <3> QED BY <3>2, <2>1, <1>1 DEF PaidRow, SubscriptionOf
  <2> QED BY <2>1, <2>2, <1>1, <1>2 DEF Activated, Inv, TypeOK
<1>5. ASSUME NEW d \in Clients, Billing(d) PROVE EffectivePlan(sub'[c]) = payment[p].plan
  <2>1. \A row : Rewrite(d, row) => sub'[c] = IF d = c THEN row ELSE sub[c]
    BY <1>1 DEF Rewrite, Inv, TypeOK
  <2>2. CASE PeriodEnds(d)
    BY <2>1, <2>2, <1>1, <1>2 DEF PeriodEnds, EffectivePlan, SubscriptionRows
  <2>3. CASE EnsureFree(d)
    BY <2>1, <2>3, <1>1, <1>2 DEF EnsureFree
  <2>4. CASE Expire(d)
    BY <2>1, <2>4, <1>1, <1>2 DEF Expire, Expires, Sweepable
  <2>5. CASE Cancel(d)
    BY <2>1, <2>5, <1>1, <1>2
      DEF Cancel, Cancellable, EffectivePlan, Running, SubscriptionRows
  <2>6. CASE Resume(d)
    BY <2>1, <2>6, <1>1, <1>2
      DEF Resume, Resumable, EffectivePlan, Running, SubscriptionRows
  <2>7. CASE Grant(d)
    BY <2>1, <2>7, <1>1, <1>2 DEF Grant, GrantedRow, SubscriptionOf
  <2> QED BY <2>2, <2>3, <2>4, <2>5, <2>6, <2>7, <1>5 DEF Billing
<1>6. ASSUME NEW q \in Requests, Step(q), ~ ApplySuccess(q) PROVE sub' = sub
  BY <1>6 DEF Step, Checkout, Collect, CollectionRefused, StoreReference, MarkFailed, Refresh,
    Webhook, AskStatus, ApplyOther, Abandon
<1> QED BY <1>3, <1>4, <1>5, <1>6 DEF Next, Decide, vars

\* The plan a payment bought is effective until its period is over (apply,
\* expirePaidSubscriptions, cancelAtPeriodEnd, resumeRenewal).
THEOREM PaidPlanLasts == Spec => PaidUntilEnd
<1>1. Inv /\ [Next]_vars =>
        [\A p \in PaymentIds :
           LET c == payment[p].client IN
           /\ payment[p].confirmed > 0
           /\ sub[c].start = payment[p].confirmed /\ sub[c].end = "ahead"
           /\ sub'[c].start = sub[c].start
           => EffectivePlan(sub'[c]) = payment[p].plan]_vars
  BY PlanKept
<1> QED BY <1>1, Invariance, PTL DEF Spec, PaidUntilEnd

=============================================================================
