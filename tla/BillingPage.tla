------------------------------ MODULE BillingPage ------------------------------
(***************************************************************************)
(* The page of a tenant's subscription (BillingComponent): what it loads,  *)
(* the dialog in which a plan is paid for, and the polls of the payment.   *)
(*                                                                         *)
(* The page has one handle, pollTimer, and one flag, checkoutLoading, for  *)
(* however many checkouts and polls are under way.                         *)
(***************************************************************************)
EXTENDS Integers

CONSTANTS
  MaxCheckouts,  \* bound on the checkouts sent
  MaxPolls,      \* bound on the unanswered polls of one payment
  None

\* Tested by the runs.
BillingConstants ==
  /\ MaxCheckouts \in Nat
  /\ MaxPolls \in Nat
  /\ None \notin 1 .. MaxCheckouts

VARIABLES
  here,             \* the component has not been destroyed
  calls,            \* loads and renewals not answered yet
  isLoading,        \* the loader covers the page
  offered,          \* plans and a subscription have been loaded
  selectedPlan,     \* the plan of the dialog, or None
  checkoutLoading,  \* the button of the dialog is disabled
  sent,             \* the checkouts sent so far: 1 .. sent
  checkouts,        \* those not answered yet
  fate,             \* checkout -> what CamPay decides about its payment
  intervals,        \* the payments an interval runs for
  pollTimer,        \* the payment of the interval the handle names
  polls             \* payment -> its polls that are not answered yet

vars == <<here, calls, isLoading, offered, selectedPlan, checkoutLoading, sent,
          checkouts, fate, intervals, pollTimer, polls>>
loading == <<calls, isLoading, offered>>
dialog == <<selectedPlan, checkoutLoading>>
paying == <<sent, checkouts, fate, intervals, pollTimer, polls>>

Payments == 1 .. MaxCheckouts
Plans == {"FREE", "GO", "PRO"}

-----------------------------------------------------------------------------
(* Loading.                                                                *)

\* reconcilePendingPayments, then loadBilling whatever it answers.
Reconciled ==
  /\ "reconcile" \in calls
  /\ calls' = (calls \ {"reconcile"}) \cup {"load"}
  /\ UNCHANGED <<here, isLoading, offered, dialog, paying>>

Loaded(success) ==
  /\ "load" \in calls
  /\ calls' = calls \ {"load"}
  /\ isLoading' = FALSE
  /\ offered' = (offered \/ success)
  /\ UNCHANGED <<here, dialog, paying>>

ManageCancellation ==
  /\ here /\ offered /\ selectedPlan = None
  /\ calls' = calls \cup {"renewal"}
  /\ UNCHANGED <<here, isLoading, offered, dialog, paying>>

RenewalAnswered(success) ==
  /\ "renewal" \in calls
  /\ calls' = (calls \ {"renewal"}) \cup (IF success THEN {"load"} ELSE {})
  /\ UNCHANGED <<here, isLoading, offered, dialog, paying>>

-----------------------------------------------------------------------------
(* The dialog.                                                             *)

OpenCheckout(plan) ==
  /\ here /\ offered /\ ~ isLoading /\ selectedPlan = None
  /\ selectedPlan' = plan
  /\ UNCHANGED <<here, loading, checkoutLoading, paying>>

\* A bug: the button of the dialog stays disabled.
MutantCloseCheckout ==
  /\ here /\ selectedPlan # None
  /\ selectedPlan' = None
  /\ intervals' = intervals \ {pollTimer}
  /\ UNCHANGED <<here, loading, checkoutLoading, sent, checkouts, fate, pollTimer, polls>>

CloseCheckout ==
  /\ here /\ selectedPlan # None
  /\ selectedPlan' = None
  /\ checkoutLoading' = FALSE
  /\ intervals' = intervals \ {pollTimer}
  /\ UNCHANGED <<here, loading, sent, checkouts, fate, pollTimer, polls>>

SubmitCheckout ==
  /\ here /\ selectedPlan \in {"GO", "PRO"} /\ ~ checkoutLoading
  /\ sent < MaxCheckouts
  /\ sent' = sent + 1
  /\ checkouts' = checkouts \cup {sent'}
  /\ checkoutLoading' = TRUE
  /\ UNCHANGED <<here, loading, selectedPlan, fate, intervals, pollTimer, polls>>

\* Nobody asks whether the dialog, or the page, is still there.
CheckoutAnswered(p) ==
  /\ p \in checkouts
  /\ checkouts' = checkouts \ {p}
  /\ pollTimer' = p
  /\ intervals' = intervals \cup {p}
  /\ \E decision \in {"SUCCESSFUL", "FAILED"} : fate' = [fate EXCEPT ![p] = decision]
  /\ UNCHANGED <<here, loading, dialog, sent, polls>>

CheckoutFailed(p) ==
  /\ p \in checkouts
  /\ checkouts' = checkouts \ {p}
  /\ checkoutLoading' = FALSE
  /\ UNCHANGED <<here, loading, selectedPlan, sent, fate, intervals, pollTimer, polls>>

-----------------------------------------------------------------------------
(* The polls.  An interval asks again whether or not it has an answer.     *)

Poll(p) ==
  /\ p \in intervals
  /\ polls[p] < MaxPolls
  /\ polls' = [polls EXCEPT ![p] = @ + 1]
  /\ UNCHANGED <<here, loading, dialog, sent, checkouts, fate, intervals, pollTimer>>

\* PENDING, or an error, which has no handler.
PollUndecided(p) ==
  /\ polls[p] > 0
  /\ polls' = [polls EXCEPT ![p] = @ - 1]
  /\ UNCHANGED <<here, loading, dialog, sent, checkouts, fate, intervals, pollTimer>>

\* A bug: the interval is cleared, the flag is not.
MutantPollDecided(p) ==
  /\ polls[p] > 0
  /\ polls' = [polls EXCEPT ![p] = @ - 1]
  /\ intervals' = intervals \ {pollTimer}
  /\ calls' = calls \cup (IF fate[p] = "SUCCESSFUL" THEN {"load"} ELSE {})
  /\ UNCHANGED <<here, isLoading, offered, dialog, sent, checkouts, fate, pollTimer>>

\* The answer clears the interval of the handle, not its own.
PollDecided(p) ==
  /\ polls[p] > 0
  /\ polls' = [polls EXCEPT ![p] = @ - 1]
  /\ checkoutLoading' = FALSE
  /\ intervals' = intervals \ {pollTimer}
  /\ calls' = calls \cup (IF fate[p] = "SUCCESSFUL" THEN {"load"} ELSE {})
  /\ UNCHANGED <<here, isLoading, offered, selectedPlan, sent, checkouts, fate, pollTimer>>

Leave ==
  /\ here
  /\ here' = FALSE
  /\ intervals' = intervals \ {pollTimer}
  /\ UNCHANGED <<loading, dialog, sent, checkouts, fate, pollTimer, polls>>

-----------------------------------------------------------------------------

Init ==
  /\ here = TRUE
  /\ calls = {"reconcile"}
  /\ isLoading = TRUE
  /\ offered = FALSE
  /\ selectedPlan = None
  /\ checkoutLoading = FALSE
  /\ sent = 0
  /\ checkouts = {}
  /\ fate = [p \in Payments |-> "PENDING"]
  /\ intervals = {}
  /\ pollTimer = None
  /\ polls = [p \in Payments |-> 0]

Next ==
  \/ Reconciled \/ ManageCancellation
  \/ \E success \in BOOLEAN : Loaded(success) \/ RenewalAnswered(success)
  \/ \E plan \in Plans : OpenCheckout(plan)
  \/ CloseCheckout \/ SubmitCheckout
  \/ \E p \in Payments :
       \/ CheckoutAnswered(p) \/ CheckoutFailed(p)
       \/ Poll(p) \/ PollUndecided(p) \/ PollDecided(p)
  \/ Leave

Spec == Init /\ [][Next]_vars

-----------------------------------------------------------------------------
(* Properties.                                                             *)

TypeOK ==
  /\ here \in BOOLEAN
  /\ calls \subseteq {"reconcile", "load", "renewal"}
  /\ isLoading \in BOOLEAN
  /\ offered \in BOOLEAN
  /\ selectedPlan \in Plans \cup {None}
  /\ checkoutLoading \in BOOLEAN
  /\ sent \in 0 .. MaxCheckouts
  /\ checkouts \subseteq Payments
  /\ fate \in [Payments -> {"PENDING", "SUCCESSFUL", "FAILED"}]
  /\ intervals \subseteq Payments
  /\ pollTimer \in Payments \cup {None}
  /\ polls \in [Payments -> 0 .. MaxPolls]

\* The page never waits for nothing: while its loader covers it, a load is under
\* way, and while the dialog is disabled, a checkout is unanswered or the payment
\* is polled, whatever answers come late, in whatever order, after the dialog was
\* closed and another plan was chosen.
SpinnerEnds ==
  /\ isLoading => {"reconcile", "load"} \cap calls # {}
  /\ checkoutLoading /\ here => checkouts # {} \/ intervals # {}

=============================================================================
