------------------------------- MODULE StaffPage -------------------------------
(***************************************************************************)
(* The page on which the gate staff is managed (GateStaffComponent): the   *)
(* list, the form above it, the two confirmations and the two dialogs that *)
(* give an account an event and take it away.                              *)
(***************************************************************************)
EXTENDS PageCalls

CONSTANTS Accounts, None

VARIABLES
  isLoadingList,          \* the loader is shown instead of the list
  isSubmitting,           \* the button of the form is disabled
  processingId,           \* the account whose buttons are disabled
  confirming,             \* None, or the question that is asked and its account
  activeAssignAccount,    \* the account an event is chosen for
  selectedEventId,        \* an event is chosen
  activeRemoveAssignment  \* the account an event is taken from

assigning == <<activeAssignAccount, selectedEventId>>
dialogs == <<confirming, assigning, activeRemoveAssignment>>
vars == <<calls, isLoadingList, isSubmitting, processingId, dialogs>>

NoDialog == confirming = None /\ activeAssignAccount = None /\ activeRemoveAssignment = None
ButtonOf(a) == ~ isLoadingList /\ NoDialog /\ processingId # a

Load == Call("load", None)
Create == Call("create", None)
Row(a) == Call("row", a)
Assign(a) == Call("assign", a)
Remove(a) == Call("remove", a)

-----------------------------------------------------------------------------

LoadAnswered ==
  /\ Answered(Load, {})
  /\ isLoadingList' = FALSE
  /\ UNCHANGED <<isSubmitting, processingId, dialogs>>

Submit ==
  /\ NoDialog /\ ~ isSubmitting
  /\ Send(Create)
  /\ isSubmitting' = TRUE
  /\ UNCHANGED <<isLoadingList, processingId, dialogs>>

Created(success) ==
  /\ Answered(Create, IF success THEN {Load} ELSE {})
  /\ isSubmitting' = FALSE
  /\ isLoadingList' = (success \/ isLoadingList)
  /\ UNCHANGED <<processingId, dialogs>>

-----------------------------------------------------------------------------
(* Deactivation, reactivation and deletion.                                *)

Ask(question, a) ==
  /\ ButtonOf(a)
  /\ confirming' = [question |-> question, id |-> a]
  /\ UNCHANGED <<calls, isLoadingList, isSubmitting, processingId, assigning,
                 activeRemoveAssignment>>

CloseConfirmation ==
  /\ confirming # None
  /\ confirming' = None
  /\ UNCHANGED <<calls, isLoadingList, isSubmitting, processingId, assigning,
                 activeRemoveAssignment>>

Confirm ==
  /\ confirming # None
  /\ Send(Row(confirming.id))
  /\ processingId' = confirming.id
  /\ confirming' = None
  /\ UNCHANGED <<isLoadingList, isSubmitting, assigning, activeRemoveAssignment>>

Reactivate(a) ==
  /\ ButtonOf(a)
  /\ Send(Row(a))
  /\ processingId' = a
  /\ UNCHANGED <<isLoadingList, isSubmitting, dialogs>>

RowAnswered(a, success) ==
  /\ Answered(Row(a), IF success THEN {Load} ELSE {})
  /\ processingId' = None
  /\ isLoadingList' = (success \/ isLoadingList)
  /\ UNCHANGED <<isSubmitting, dialogs>>

-----------------------------------------------------------------------------
(* Assignments.                                                            *)

OpenAssignModal(a) ==
  /\ ButtonOf(a)
  /\ activeAssignAccount' = a
  /\ selectedEventId' = FALSE
  /\ UNCHANGED <<calls, isLoadingList, isSubmitting, processingId, confirming,
                 activeRemoveAssignment>>

ChooseEvent ==
  /\ activeAssignAccount # None /\ ~ selectedEventId
  /\ selectedEventId' = TRUE
  /\ UNCHANGED <<calls, isLoadingList, isSubmitting, processingId, confirming,
                 activeAssignAccount, activeRemoveAssignment>>

CloseAssignModal ==
  /\ activeAssignAccount # None
  /\ activeAssignAccount' = None
  /\ selectedEventId' = FALSE
  /\ UNCHANGED <<calls, isLoadingList, isSubmitting, processingId, confirming,
                 activeRemoveAssignment>>

AssignEvent ==
  /\ activeAssignAccount \notin {None, processingId} /\ selectedEventId
  /\ Send(Assign(activeAssignAccount))
  /\ processingId' = activeAssignAccount
  /\ UNCHANGED <<isLoadingList, isSubmitting, dialogs>>

\* The dialog that is open now is closed, be it about another account.
Assigned(a, success) ==
  /\ Answered(Assign(a), IF success THEN {Load} ELSE {})
  /\ processingId' = None
  /\ isLoadingList' = (success \/ isLoadingList)
  /\ activeAssignAccount' = IF success THEN None ELSE activeAssignAccount
  /\ selectedEventId' = (selectedEventId /\ ~ success)
  /\ UNCHANGED <<isSubmitting, confirming, activeRemoveAssignment>>

ConfirmRemoveAssignment(a) ==
  /\ ButtonOf(a)
  /\ activeRemoveAssignment' = a
  /\ UNCHANGED <<calls, isLoadingList, isSubmitting, processingId, confirming, assigning>>

CloseRemoveAssignmentModal ==
  /\ activeRemoveAssignment # None
  /\ activeRemoveAssignment' = None
  /\ UNCHANGED <<calls, isLoadingList, isSubmitting, processingId, confirming, assigning>>

RemoveAssignment ==
  /\ activeRemoveAssignment \notin {None, processingId}
  /\ Send(Remove(activeRemoveAssignment))
  /\ processingId' = activeRemoveAssignment
  /\ UNCHANGED <<isLoadingList, isSubmitting, dialogs>>

\* An error closes the dialog as well.
Removed(a, success) ==
  /\ Answered(Remove(a), IF success THEN {Load} ELSE {})
  /\ processingId' = None
  /\ isLoadingList' = (success \/ isLoadingList)
  /\ activeRemoveAssignment' = None
  /\ UNCHANGED <<isSubmitting, confirming, assigning>>

-----------------------------------------------------------------------------

Init ==
  /\ calls = SetToBag({Load})
  /\ isLoadingList = TRUE
  /\ isSubmitting = FALSE
  /\ processingId = None
  /\ confirming = None
  /\ activeAssignAccount = None /\ selectedEventId = FALSE
  /\ activeRemoveAssignment = None

Next ==
  \/ LoadAnswered \/ Submit
  \/ CloseConfirmation \/ Confirm
  \/ ChooseEvent \/ CloseAssignModal \/ AssignEvent
  \/ CloseRemoveAssignmentModal \/ RemoveAssignment
  \/ \E a \in Accounts :
       \/ \E question \in {"deactivate", "delete"} : Ask(question, a)
       \/ Reactivate(a) \/ OpenAssignModal(a) \/ ConfirmRemoveAssignment(a)
  \/ \E success \in BOOLEAN :
       \/ Created(success)
       \/ \E a \in Accounts :
            RowAnswered(a, success) \/ Assigned(a, success) \/ Removed(a, success)

Spec == Init /\ [][Next]_vars

-----------------------------------------------------------------------------

\* A loader or a disabled button is there only while a request is under way whose
\* answer takes it down, although one flag serves the rows and both dialogs, and
\* dialogs are closed and opened for other accounts meanwhile.
SpinnersEnd ==
  /\ isLoadingList => UnderWay("load")
  /\ isSubmitting => UnderWay("create")
  /\ processingId # None =>
       \E call \in BagToSet(calls) :
         call.op \in {"row", "assign", "remove"} /\ call.id = processingId

=============================================================================
