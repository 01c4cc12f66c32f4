------------------------------ MODULE SeatingPage ------------------------------
(***************************************************************************)
(* The seating map of an event (SeatingMapComponent): the map of a room,   *)
(* the sidebar about one of its tables or chairs, and the reservations and *)
(* cancellations sent from there.  Zooming and panning are CanvasGestures. *)
(*                                                                         *)
(* Other users book, cancel and add tables all the time and reloads may    *)
(* come back in any order: a reload brings any occupancy.                  *)
(***************************************************************************)
EXTENDS Integers, FiniteSets

CONSTANTS
  Rooms, Tables, Chairs,
  TableRoom,      \* table -> room
  TableOf,        \* chair -> table
  Neighbour,      \* chair -> the next chair in the list of its table, or None
  MaxUnanswered,  \* bound on the requests under way
  None

\* Tested by the runs.
SeatingConstants ==
  /\ TableRoom \in [Tables -> Rooms]
  /\ TableOf \in [Chairs -> Tables]
  /\ Neighbour \in [Chairs -> Chairs \cup {None}]
  /\ MaxUnanswered \in Nat
  /\ None \notin Tables \cup Chairs \cup Rooms

VARIABLES
  here,             \* the component has not been destroyed
  loads,            \* loadData calls not answered yet
  isLoading,        \* the loader is shown instead of the map
  occupancy,        \* the occupancy shown, or None before the first
  expired,          \* isEventExpired, as computed at the last load
  selectedRoomId,
  selectedTable,    \* a table object: its id and the occupancy it is part of
  selectedChair,    \* a chair object likewise
  reservationType,
  pendingCancel,    \* the chair whose cancellation is being confirmed
  calls             \* changes sent and not answered yet

vars == <<here, loads, isLoading, occupancy, expired, selectedRoomId, selectedTable,
          selectedChair, reservationType, pendingCancel, calls>>
map == <<occupancy, expired>>
sidebar == <<selectedTable, selectedChair>>
choices == <<selectedRoomId, reservationType>>

Occupancies ==
  {o \in [tables : SUBSET Tables, chairs : SUBSET Chairs, taken : SUBSET Chairs] :
     o.taken \subseteq o.chairs /\ \A c \in o.chairs : TableOf[c] \in o.tables}

Object(id) == [id |-> id, in |-> occupancy]

-----------------------------------------------------------------------------
(* loadData.                                                               *)

CanSend == loads + Cardinality(calls) < MaxUnanswered

LoadData == loads' = loads + 1 /\ isLoading' = TRUE

\* A bug: the chair is kept as it was when it was clicked.
MutantRefresh(object, present, o) ==
  IF object # None /\ object.id \in present THEN object ELSE None

\* The object with the same id in the new occupancy, if there is one.
Refresh(object, present, o) ==
  IF object # None /\ object.id \in present THEN [id |-> object.id, in |-> o] ELSE None

LoadAnswered(o) ==
  /\ loads > 0
  /\ loads' = loads - 1
  /\ isLoading' = FALSE
  /\ occupancy' = o
  /\ expired' \in BOOLEAN
  /\ selectedRoomId' \in Rooms
  /\ selectedTable' = Refresh(selectedTable, o.tables, o)
  /\ selectedChair' = Refresh(selectedChair, o.chairs, o)
  /\ UNCHANGED <<here, reservationType, pendingCancel, calls>>

LoadFailed ==
  /\ loads > 0
  /\ loads' = loads - 1
  /\ isLoading' = FALSE
  /\ UNCHANGED <<here, map, sidebar, choices, pendingCancel, calls>>

-----------------------------------------------------------------------------
(* The map and the sidebar.  The sidebar stays while the map is reloaded.  *)

\* selectedRoomTables, in the template's branch for a loaded event
Shown(t) ==
  /\ here /\ ~ isLoading /\ occupancy # None
  /\ t \in occupancy.tables /\ TableRoom[t] = selectedRoomId

CloseSidebar == selectedTable' = None /\ selectedChair' = None

Closed ==
  /\ here /\ selectedTable # None
  /\ CloseSidebar
  /\ UNCHANGED <<here, loads, isLoading, map, choices, pendingCancel, calls>>

\* A bug: the table of a chair is selected only if none is.
MutantSelectChair(c) ==
  /\ Shown(TableOf[c]) /\ c \in occupancy.chairs /\ ~ expired
  /\ selectedChair # None => selectedChair.id # c
  /\ selectedTable' = IF selectedTable = None THEN Object(TableOf[c]) ELSE selectedTable
  /\ selectedChair' = Object(c)
  /\ reservationType' = "SINGLE"
  /\ UNCHANGED <<here, loads, isLoading, map, selectedRoomId, pendingCancel, calls>>

\* A free chair also sets the room to that of its table, which is shown already.
SelectChair(c) ==
  /\ Shown(TableOf[c]) /\ c \in occupancy.chairs /\ ~ expired
  /\ selectedChair # None => selectedChair.id # c
  /\ selectedTable' = Object(TableOf[c])
  /\ selectedChair' = Object(c)
  /\ reservationType' = "SINGLE"
  /\ UNCHANGED <<here, loads, isLoading, map, selectedRoomId, pendingCancel, calls>>

SelectTable(t) ==
  /\ Shown(t) /\ ~ expired
  /\ selectedTable # None => selectedTable.id # t \/ selectedChair # None
  /\ selectedTable' = Object(t)
  /\ selectedChair' = None
  /\ UNCHANGED <<here, loads, isLoading, map, choices, pendingCancel, calls>>

ChangeSelectedRoom(r) ==
  /\ here /\ ~ isLoading /\ occupancy # None /\ r # selectedRoomId
  /\ selectedRoomId' = r
  /\ CloseSidebar
  /\ UNCHANGED <<here, loads, isLoading, map, reservationType, pendingCancel, calls>>

FormShown ==
  /\ here /\ selectedChair # None /\ ~ expired
  /\ selectedChair.id \notin selectedChair.in.taken

ToggleType ==
  /\ FormShown
  /\ reservationType' = IF reservationType = "SINGLE" THEN "COUPLE" ELSE "SINGLE"
  /\ UNCHANGED <<here, loads, isLoading, map, selectedRoomId, sidebar, pendingCancel, calls>>

-----------------------------------------------------------------------------
(* Changes.                                                                *)

Send(call) == CanSend /\ call \notin calls /\ calls' = calls \cup {call}

SaveTableName ==
  /\ here /\ selectedTable # None /\ selectedChair = None /\ ~ expired
  /\ Send("save")
  /\ UNCHANGED <<here, loads, isLoading, map, sidebar, choices, pendingCancel>>

\* A couple needs the next chair, free in the table object at hand.
AssignSeat ==
  /\ FormShown
  /\ reservationType = "COUPLE" =>
       Neighbour[selectedChair.id] \in selectedTable.in.chairs \ selectedTable.in.taken
  /\ Send("assign")
  /\ UNCHANGED <<here, loads, isLoading, map, sidebar, choices, pendingCancel>>

RequestCancel ==
  /\ here /\ selectedChair # None /\ ~ expired /\ pendingCancel = None
  /\ selectedChair.id \in selectedChair.in.taken
  /\ pendingCancel' = selectedChair.id
  /\ UNCHANGED <<here, loads, isLoading, map, sidebar, choices, calls>>

CloseCancel ==
  /\ here /\ pendingCancel # None
  /\ pendingCancel' = None
  /\ UNCHANGED <<here, loads, isLoading, map, sidebar, choices, calls>>

ConfirmCancel ==
  /\ here /\ pendingCancel # None
  /\ Send("cancel")
  /\ pendingCancel' = None
  /\ UNCHANGED <<here, loads, isLoading, map, sidebar, choices>>

\* A new name and a cancellation are shown by a reload.
ChangeAnswered(call) ==
  /\ call \in calls \cap {"save", "cancel"}
  /\ calls' = calls \ {call}
  /\ LoadData
  /\ UNCHANGED <<here, map, sidebar, choices, pendingCancel>>

\* The sidebar closes, whatever it is about by now, and the ticket is shown.
SeatAssigned ==
  /\ "assign" \in calls
  /\ calls' = calls \ {"assign"}
  /\ CloseSidebar
  /\ here' = FALSE
  /\ UNCHANGED <<loads, isLoading, map, choices, pendingCancel>>

ChangeFailed(call) ==
  /\ call \in calls
  /\ calls' = calls \ {call}
  /\ UNCHANGED <<here, loads, isLoading, map, sidebar, choices, pendingCancel>>

Leave ==
  /\ here
  /\ here' = FALSE
  /\ UNCHANGED <<loads, isLoading, map, sidebar, choices, pendingCancel, calls>>

-----------------------------------------------------------------------------

Init ==
  /\ here = TRUE
  /\ loads = 1
  /\ isLoading = TRUE
  /\ occupancy = None
  /\ expired = FALSE
  /\ selectedRoomId = None
  /\ selectedTable = None
  /\ selectedChair = None
  /\ reservationType = "SINGLE"
  /\ pendingCancel = None
  /\ calls = {}

Next ==
  \/ \E o \in Occupancies : LoadAnswered(o)
  \/ LoadFailed \/ Closed
  \/ \E c \in Chairs : SelectChair(c)
  \/ \E t \in Tables : SelectTable(t)
  \/ \E r \in Rooms : ChangeSelectedRoom(r)
  \/ ToggleType
  \/ SaveTableName \/ AssignSeat
  \/ RequestCancel \/ CloseCancel \/ ConfirmCancel
  \/ \E call \in {"save", "assign", "cancel"} : ChangeAnswered(call) \/ ChangeFailed(call)
  \/ SeatAssigned
  \/ Leave

Spec == Init /\ [][Next]_vars

-----------------------------------------------------------------------------
(* Properties.                                                             *)

\* What the sidebar is about is always in the occupancy at hand, in whichever room: a
\* chair that is selected stands at the table that is selected, and both are objects
\* of it, however many reloads come back, in whatever order, while it is open.
SidebarIsCurrent ==
  /\ selectedTable # None =>
       selectedTable.in = occupancy /\ selectedTable.id \in occupancy.tables
  /\ selectedChair # None =>
       /\ selectedTable # None /\ selectedTable.id = TableOf[selectedChair.id]
       /\ selectedChair.in = occupancy /\ selectedChair.id \in occupancy.chairs

\* The loader is shown only while a reload is under way, whose answer brings the map
\* back, though one flag stands for all of them.
SpinnerEnds == isLoading => loads > 0

=============================================================================
