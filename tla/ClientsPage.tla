------------------------------ MODULE ClientsPage ------------------------------
(***************************************************************************)
(* The page on which a super admin manages the clients (ClientsComponent): *)
(* the list, the form, the two confirmations and the subscription dialog.  *)
(* What the list and the dialogs show is left out; which requests the page *)
(* waits for, and which client they are about, is kept.                    *)
(***************************************************************************)
EXTENDS PageCalls

CONSTANTS Clients, None

VARIABLES
  isLoading,           \* the loader is shown instead of the list
  form,                \* None, "create", or the client that is edited
  isSubmitting,        \* the button of the form is disabled
  processingId,        \* the client whose buttons are disabled
  confirming,          \* None, or the question that is asked and its client
  selectedSubClient,   \* the client of the subscription dialog
  subLoading,          \* the loader is shown in that dialog
  subSummary,          \* the client whose subscription was loaded for it
  isGranting           \* the button of that dialog is disabled

form_ == <<form, isSubmitting>>
rows == <<processingId, confirming>>
subscription == <<selectedSubClient, subLoading, subSummary, isGranting>>
vars == <<calls, isLoading, form_, rows, subscription>>

NoDialog == form = None /\ confirming = None /\ selectedSubClient = None
ListShown == ~ isLoading /\ NoDialog

Load == Call("load", None)
Form == Call("form", None)
Row(c) == Call("row", c)
Subscription(c) == Call("subscription", c)
Grant(c) == Call("grant", c)
Renewal(c) == Call("renewal", c)

-----------------------------------------------------------------------------

LoadAnswered ==
  /\ Answered(Load, {})
  /\ isLoading' = FALSE
  /\ UNCHANGED <<form_, rows, subscription>>

OpenForm(which) ==
  /\ IF which = "create" THEN NoDialog ELSE ListShown /\ processingId # which
  /\ form' = which
  /\ UNCHANGED <<calls, isLoading, isSubmitting, rows, subscription>>

CloseFormModal ==
  /\ form # None
  /\ form' = None
  /\ UNCHANGED <<calls, isLoading, isSubmitting, rows, subscription>>

\* A creation without a name or a password raises the flag and takes it back.
SubmitForm ==
  /\ form # None /\ ~ isSubmitting
  /\ Send(Form)
  /\ isSubmitting' = TRUE
  /\ UNCHANGED <<isLoading, form, rows, subscription>>

\* The form that is open now is closed, be it another one.
FormAnswered(success) ==
  /\ Answered(Form, IF success THEN {Load} ELSE {})
  /\ isSubmitting' = FALSE
  /\ form' = IF success THEN None ELSE form
  /\ isLoading' = (success \/ isLoading)
  /\ UNCHANGED <<rows, subscription>>

-----------------------------------------------------------------------------

Ask(question, c) ==
  /\ ListShown /\ processingId # c
  /\ confirming' = [question |-> question, id |-> c]
  /\ UNCHANGED <<calls, isLoading, form_, processingId, subscription>>

CloseConfirmation ==
  /\ confirming # None
  /\ confirming' = None
  /\ UNCHANGED <<calls, isLoading, form_, processingId, subscription>>

Confirm ==
  /\ confirming # None
  /\ Send(Row(confirming.id))
  /\ processingId' = confirming.id
  /\ confirming' = None
  /\ UNCHANGED <<isLoading, form_, subscription>>

Reactivate(c) ==
  /\ ListShown /\ processingId # c
  /\ Send(Row(c))
  /\ processingId' = c
  /\ UNCHANGED <<isLoading, form_, confirming, subscription>>

\* One flag for all rows: the answer about one client enables the other as well.
RowAnswered(c, success) ==
  /\ Answered(Row(c), IF success THEN {Load} ELSE {})
  /\ processingId' = None
  /\ isLoading' = (success \/ isLoading)
  /\ UNCHANGED <<form_, confirming, subscription>>

-----------------------------------------------------------------------------

OpenSubscriptionModal(c) ==
  /\ ListShown
  /\ Send(Subscription(c))
  /\ selectedSubClient' = c
  /\ subLoading' = TRUE
  /\ UNCHANGED <<isLoading, form_, rows, subSummary, isGranting>>

CloseSubscriptionModal ==
  /\ selectedSubClient # None
  /\ selectedSubClient' = None
  /\ subSummary' = None
  /\ UNCHANGED <<calls, isLoading, form_, rows, subLoading, isGranting>>

\* Whichever client the dialog is about by now.
SubscriptionLoaded(c, success) ==
  /\ Answered(Subscription(c), {})
  /\ subLoading' = FALSE
  /\ subSummary' = IF success THEN c ELSE subSummary
  /\ UNCHANGED <<isLoading, form_, rows, selectedSubClient, isGranting>>

SubscriptionShown == selectedSubClient # None /\ ~ subLoading /\ subSummary # None

GrantSubscription ==
  /\ SubscriptionShown /\ ~ isGranting
  /\ Send(Grant(selectedSubClient))
  /\ isGranting' = TRUE
  /\ UNCHANGED <<isLoading, form_, rows, selectedSubClient, subLoading, subSummary>>

ChangeRenewal ==
  /\ SubscriptionShown
  /\ Send(Renewal(selectedSubClient))
  /\ UNCHANGED <<isLoading, form_, rows, subscription>>

\* Both ways of changing a subscription load it, and the list, again.
SubscriptionChanged(call, success) ==
  /\ call.op \in {"grant", "renewal"}
  /\ Answered(call, IF success THEN {Load, Subscription(call.id)} ELSE {})
  /\ isLoading' = (success \/ isLoading)
  /\ subLoading' = (success \/ subLoading)
  /\ isGranting' = (isGranting /\ call.op # "grant")
  /\ UNCHANGED <<form_, rows, selectedSubClient, subSummary>>

-----------------------------------------------------------------------------

Init ==
  /\ calls = SetToBag({Load})
  /\ isLoading = TRUE
  /\ form = None /\ isSubmitting = FALSE
  /\ processingId = None /\ confirming = None
  /\ selectedSubClient = None /\ subLoading = FALSE /\ subSummary = None
  /\ isGranting = FALSE

Next ==
  \/ LoadAnswered
  \/ \E which \in Clients \cup {"create"} : OpenForm(which)
  \/ CloseFormModal \/ SubmitForm
  \/ CloseConfirmation \/ Confirm
  \/ \E c \in Clients :
       \/ \E question \in {"deactivate", "delete"} : Ask(question, c)
       \/ Reactivate(c) \/ OpenSubscriptionModal(c)
  \/ CloseSubscriptionModal \/ GrantSubscription \/ ChangeRenewal
  \/ \E success \in BOOLEAN :
       \/ FormAnswered(success)
       \/ \E c \in Clients : RowAnswered(c, success) \/ SubscriptionLoaded(c, success)
       \/ \E call \in BagToSet(calls) : SubscriptionChanged(call, success)

Spec == Init /\ [][Next]_vars

-----------------------------------------------------------------------------

\* Every loader and every disabled button of the page comes to an end: it is there
\* only while a request is under way whose answer takes it down, however the
\* dialogs were closed and opened for other clients meanwhile.
SpinnersEnd ==
  /\ isLoading => UnderWay("load")
  /\ isSubmitting => UnderWay("form")
  /\ processingId # None => BagIn(Row(processingId), calls)
  /\ subLoading => UnderWay("subscription")
  /\ isGranting => UnderWay("grant")

=============================================================================
