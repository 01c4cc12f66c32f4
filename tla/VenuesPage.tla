------------------------------- MODULE VenuesPage -------------------------------
(***************************************************************************)
(* The page of the buildings and their rooms (VenuesComponent): the dialog *)
(* with the forms of a room and of a building, and the two confirmations.  *)
(* A new room is shown by a reload; a new building and what was deleted    *)
(* are put into the lists, and taken out of them, which are left out.      *)
(***************************************************************************)
EXTENDS PageCalls

CONSTANT None

VARIABLES
  isLoading,           \* the loader is shown instead of the list
  isCreatingBuilding,  \* the button of the building's form is disabled
  isSubmitting,        \* the button of the room's form is disabled
  showCreateModal,     \* the dialog is open
  showBuildingForm,    \* the building's form is unfolded in it
  buildingChosen,      \* a building is chosen in the room's form
  confirming           \* None, or what is to be deleted: "building" or "room"

flags == <<isLoading, isCreatingBuilding, isSubmitting>>
dialog == <<showCreateModal, showBuildingForm, buildingChosen>>
vars == <<calls, flags, dialog, confirming>>

Load == Call("load", None)
Building == Call("building", None)
Room == Call("room", None)
Deletion(what) == Call("delete", what)

-----------------------------------------------------------------------------

LoadAnswered ==
  /\ Answered(Load, {})
  /\ isLoading' = FALSE
  /\ UNCHANGED <<isCreatingBuilding, isSubmitting, dialog, confirming>>

\* From the head of the page, or from a building of the list.
OpenCreateModal(chosen) ==
  /\ ~ showCreateModal /\ confirming = None
  /\ chosen => ~ isLoading
  /\ showCreateModal' = TRUE
  /\ buildingChosen' = (chosen \/ buildingChosen)
  /\ UNCHANGED <<calls, flags, showBuildingForm, confirming>>

CloseCreate ==
  /\ showCreateModal
  /\ showCreateModal' = FALSE
  /\ buildingChosen' = FALSE
  /\ UNCHANGED <<calls, flags, showBuildingForm, confirming>>

ToggleBuildingForm ==
  /\ showCreateModal
  /\ showBuildingForm' = ~ showBuildingForm
  /\ UNCHANGED <<calls, flags, showCreateModal, buildingChosen, confirming>>

ChooseBuilding ==
  /\ showCreateModal /\ ~ buildingChosen
  /\ buildingChosen' = TRUE
  /\ UNCHANGED <<calls, flags, showCreateModal, showBuildingForm, confirming>>

CreateBuilding ==
  /\ showCreateModal /\ showBuildingForm /\ ~ isCreatingBuilding
  /\ Send(Building)
  /\ isCreatingBuilding' = TRUE
  /\ UNCHANGED <<isLoading, isSubmitting, dialog, confirming>>

\* The new building is chosen in the room's form, whatever was chosen there.
BuildingAnswered(success) ==
  /\ Answered(Building, {})
  /\ isCreatingBuilding' = FALSE
  /\ buildingChosen' = (success \/ buildingChosen)
  /\ showBuildingForm' = (showBuildingForm /\ ~ success)
  /\ UNCHANGED <<isLoading, isSubmitting, showCreateModal, confirming>>

CreateRoom ==
  /\ showCreateModal /\ buildingChosen /\ ~ isSubmitting
  /\ Send(Room)
  /\ isSubmitting' = TRUE
  /\ UNCHANGED <<isLoading, isCreatingBuilding, dialog, confirming>>

\* The dialog is closed, be it open for another room by now.
RoomAnswered(success) ==
  /\ Answered(Room, IF success THEN {Load} ELSE {})
  /\ isSubmitting' = FALSE
  /\ isLoading' = (success \/ isLoading)
  /\ showCreateModal' = (showCreateModal /\ ~ success)
  /\ buildingChosen' = (buildingChosen /\ ~ success)
  /\ UNCHANGED <<isCreatingBuilding, showBuildingForm, confirming>>

Delete(what) ==
  /\ ~ isLoading /\ ~ showCreateModal /\ confirming = None
  /\ confirming' = what
  /\ UNCHANGED <<calls, flags, dialog>>

CloseConfirmation ==
  /\ confirming # None
  /\ confirming' = None
  /\ UNCHANGED <<calls, flags, dialog>>

ConfirmDelete ==
  /\ confirming # None
  /\ Send(Deletion(confirming))
  /\ confirming' = None
  /\ UNCHANGED <<flags, dialog>>

DeletionAnswered(what) ==
  /\ Answered(Deletion(what), {})
  /\ UNCHANGED <<flags, dialog, confirming>>

-----------------------------------------------------------------------------

Init ==
  /\ calls = SetToBag({Load})
  /\ isLoading = TRUE /\ isCreatingBuilding = FALSE /\ isSubmitting = FALSE
  /\ showCreateModal = FALSE /\ showBuildingForm = FALSE /\ buildingChosen = FALSE
  /\ confirming = None

Next ==
  \/ LoadAnswered
  \/ \E chosen \in BOOLEAN : OpenCreateModal(chosen)
  \/ CloseCreate \/ ToggleBuildingForm \/ ChooseBuilding
  \/ CreateBuilding \/ CreateRoom
  \/ \E success \in BOOLEAN : BuildingAnswered(success) \/ RoomAnswered(success)
  \/ \E what \in {"building", "room"} : Delete(what) \/ DeletionAnswered(what)
  \/ CloseConfirmation \/ ConfirmDelete

Spec == Init /\ [][Next]_vars

-----------------------------------------------------------------------------

\* The loader and the disabled buttons of the two forms, of which one is part of
\* the other's dialog, are there only while the request they wait for is under way.
SpinnersEnd ==
  /\ isLoading => UnderWay("load")
  /\ isCreatingBuilding => UnderWay("building")
  /\ isSubmitting => UnderWay("room")

=============================================================================
