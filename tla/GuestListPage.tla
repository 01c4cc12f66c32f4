------------------------------ MODULE GuestListPage ------------------------------
(***************************************************************************)
(* The guest list (GuestListComponent): an event is picked, or all events  *)
(* of the client a super admin filters by (ClientFilterService); guests    *)
(* are loaded, and a reservation cancelled.                                *)
(***************************************************************************)
EXTENDS PageCalls

CONSTANTS Events, Clients, ClientOf, None

VARIABLES
  selectedClientId,   \* of the filter, or None
  isLoadingEvents, isLoadingGuests,
  events,             \* the events that were loaded
  selectedEvent,      \* the event that is viewed, or None
  viewAll,            \* all events of the filter are viewed
  occupancy,          \* the event whose guests were loaded last, or None
  aggregated,         \* the events whose guests were loaded together
  pendingCancel       \* the event of the row whose cancellation is being confirmed

view == <<selectedEvent, viewAll>>
guests == <<occupancy, aggregated>>
loaders == <<isLoadingEvents, isLoadingGuests>>
vars == <<calls, selectedClientId, loaders, events, view, guests, pendingCancel>>

Load == Call("events", None)
Guests(e) == Call("guests", e)
AllGuests(es) == Call("all", es)
Cancellation == Call("cancel", None)

FilterList(es) ==
  IF selectedClientId = None THEN es ELSE {e \in es : ClientOf[e] = selectedClientId}

Picking == selectedEvent = None /\ ~ viewAll

-----------------------------------------------------------------------------

EventsLoaded(seen) ==
  /\ Answered(Load, {})
  /\ isLoadingEvents' = FALSE
  /\ events' = seen
  /\ UNCHANGED <<selectedClientId, isLoadingGuests, view, guests, pendingCancel>>

LoadGuests(e) ==
  /\ Send(Guests(e))
  /\ isLoadingGuests' = TRUE

SelectEvent(e) ==
  /\ Picking /\ ~ isLoadingEvents /\ e \in FilterList(events)
  /\ LoadGuests(e)
  /\ selectedEvent' = e
  /\ UNCHANGED <<selectedClientId, isLoadingEvents, events, viewAll, guests, pendingCancel>>

\* Without events nothing is asked for.
LoadAllGuests ==
  LET es == FilterList(events) IN
  IF es = {} THEN aggregated' = {} /\ UNCHANGED <<calls, isLoadingGuests>>
  ELSE Send(AllGuests(es)) /\ isLoadingGuests' = TRUE /\ UNCHANGED aggregated

ViewAllGuests ==
  /\ Picking /\ selectedClientId # None
  /\ LoadAllGuests
  /\ viewAll' = TRUE
  /\ UNCHANGED <<selectedClientId, isLoadingEvents, events, selectedEvent, occupancy,
                 pendingCancel>>

\* The answer is shown whatever is viewed by now.
GuestsLoaded(e, success) ==
  /\ Answered(Guests(e), {})
  /\ isLoadingGuests' = FALSE
  /\ occupancy' = IF success THEN e ELSE occupancy
  /\ UNCHANGED <<selectedClientId, isLoadingEvents, events, view, aggregated, pendingCancel>>

AllGuestsLoaded(es, success) ==
  /\ Answered(AllGuests(es), {})
  /\ isLoadingGuests' = FALSE
  /\ aggregated' = IF success THEN es ELSE aggregated
  /\ UNCHANGED <<selectedClientId, isLoadingEvents, events, view, occupancy, pendingCancel>>

ResetView ==
  /\ selectedEvent' = None /\ viewAll' = FALSE
  /\ occupancy' = None /\ aggregated' = {}

GoBack ==
  /\ ~ Picking
  /\ ResetView
  /\ UNCHANGED <<calls, selectedClientId, loaders, events, pendingCancel>>

\* The effect resets the view.
SetClientFilter(c) ==
  /\ c # selectedClientId
  /\ selectedClientId' = c
  /\ ResetView
  /\ UNCHANGED <<calls, loaders, events, pendingCancel>>

-----------------------------------------------------------------------------

Shown == IF viewAll THEN aggregated
         ELSE IF occupancy = None THEN {} ELSE {occupancy}

CancelReservation(e) ==
  /\ ~ Picking /\ ~ isLoadingGuests /\ e \in Shown /\ pendingCancel = None
  /\ pendingCancel' = e
  /\ UNCHANGED <<calls, selectedClientId, loaders, events, view, guests>>

CloseConfirmation ==
  /\ pendingCancel # None
  /\ pendingCancel' = None
  /\ UNCHANGED <<calls, selectedClientId, loaders, events, view, guests>>

ConfirmCancel ==
  /\ pendingCancel # None
  /\ Send(Cancellation)
  /\ pendingCancel' = None
  /\ UNCHANGED <<selectedClientId, loaders, events, view, guests>>

\* What is viewed by now is loaded again.
Cancelled ==
  LET es == FilterList(events)
      next == IF viewAll THEN (IF es = {} THEN {} ELSE {AllGuests(es)})
              ELSE IF selectedEvent # None THEN {Guests(selectedEvent)} ELSE {}
  IN
  /\ Answered(Cancellation, next)
  /\ isLoadingGuests' = (isLoadingGuests \/ next # {})
  /\ aggregated' = IF viewAll /\ es = {} THEN {} ELSE aggregated
  /\ UNCHANGED <<selectedClientId, isLoadingEvents, events, view, occupancy, pendingCancel>>

CancellationFailed ==
  /\ Answered(Cancellation, {})
  /\ UNCHANGED <<selectedClientId, loaders, events, view, guests, pendingCancel>>

-----------------------------------------------------------------------------

Init ==
  /\ calls = SetToBag({Load})
  /\ selectedClientId \in Clients \cup {None}
  /\ isLoadingEvents = TRUE /\ isLoadingGuests = FALSE
  /\ events = {}
  /\ selectedEvent = None /\ viewAll = FALSE
  /\ occupancy = None /\ aggregated = {}
  /\ pendingCancel = None

Next ==
  \/ \E seen \in SUBSET Events : EventsLoaded(seen)
  \/ \E e \in Events : SelectEvent(e) \/ CancelReservation(e)
  \/ ViewAllGuests \/ GoBack
  \/ \E c \in Clients \cup {None} : SetClientFilter(c)
  \/ \E success \in BOOLEAN :
       \/ \E e \in Events : GuestsLoaded(e, success)
       \/ \E es \in SUBSET Events : AllGuestsLoaded(es, success)
  \/ CloseConfirmation \/ ConfirmCancel \/ Cancelled \/ CancellationFailed

Spec == Init /\ [][Next]_vars

-----------------------------------------------------------------------------

\* The loader of the guests ends: it is there only while guests are asked for,
\* although an empty filter is answered without a request, and a cancellation
\* loads whatever is viewed when its answer comes.
SpinnersEnd ==
  /\ isLoadingEvents => UnderWay("events")
  /\ isLoadingGuests => UnderWay("guests") \/ UnderWay("all")

=============================================================================
