------------------------------ MODULE EventEditor ------------------------------
(***************************************************************************)
(* The page on which an event is edited and published (EditEventComponent):*)
(* its rooms, the tables laid out in each, its sessions, and the requests  *)
(* that save and publish it.  Names, times and positions are left out: the *)
(* form is filled in or not, a table is its number and its chairs.         *)
(***************************************************************************)
EXTENDS Integers, Sequences, SequencesExt, FiniteSets

CONSTANTS
  Rooms,
  MaxTables,    \* bound on the tables of one room
  MaxChairs,    \* bound on the chairs of one table
  MaxSessions,  \* bound on the sessions
  None

\* Assumed by the theorems of WebClientProofs, tested by the runs.
EditorConstants ==
  /\ MaxTables \in Nat /\ MaxChairs \in Nat \ {0} /\ MaxSessions \in Nat
  /\ IsFiniteSet(Rooms) /\ None \notin Rooms

VARIABLES
  here,            \* the component has not been destroyed
  loading,         \* the request the page waits for before it can be used
  isDraft,         \* status of the event the page holds
  isExpired,       \* computed when the event was set
  filled,          \* name, start and end are given and accepted
  selectedRoomIds, \* a sequence: its first room will be the primary
  activeRoomId,
  tablesByRoom,    \* some rooms -> their tables, each a number (id) and its chairs
  selectedTable,   \* a copy of a table, or None
  tableCount, chairsPerTable,
  sessions,        \* the sessions, each blank or typed in
  calls            \* requests not answered yet

layout == <<selectedRoomIds, activeRoomId, tablesByRoom, selectedTable, tableCount,
            chairsPerTable>>
event == <<isDraft, isExpired>>
vars == <<here, loading, event, filled, layout, sessions, calls>>

SessionLists == SeqOf({"blank", "typed"}, MaxSessions)
RoomLists == {s \in SeqOf(Rooms, Cardinality(Rooms)) : IsInjective(s)}

Call(op, payload) == [op |-> op, sessions |-> payload]

\* Every editing handler begins with a test of isExpired; the form is shown
\* once rooms and event are loaded.
Editing == here /\ loading = "none" /\ ~ isExpired

-----------------------------------------------------------------------------
(* loadAll: the rooms, then the event, then prefill.                       *)

RoomsLoaded ==
  /\ loading = "rooms"
  /\ loading' = "event"
  /\ UNCHANGED <<here, event, filled, layout, sessions, calls>>

\* The tables the event has already are not loaded.
EventLoaded(draft, rooms, list) ==
  /\ loading = "event"
  /\ draft \/ rooms # <<>>
  /\ loading' = "none"
  /\ isDraft' = draft
  /\ isExpired' \in BOOLEAN
  /\ filled' = (rooms # <<>>)
  /\ selectedRoomIds' = rooms
  /\ activeRoomId' = IF rooms = <<>> THEN activeRoomId ELSE Head(rooms)
  /\ sessions' = list
  /\ UNCHANGED <<here, tablesByRoom, selectedTable, tableCount, chairsPerTable, calls>>

LoadFailed ==
  /\ loading \in {"rooms", "event"}
  /\ loading' = "failed"
  /\ UNCHANGED <<here, event, filled, layout, sessions, calls>>

FillIn ==
  /\ Editing
  /\ filled' = ~ filled
  /\ UNCHANGED <<here, loading, event, layout, sessions, calls>>

-----------------------------------------------------------------------------
(* Rooms.                                                                  *)

Without(f, r) == [x \in DOMAIN f \ {r} |-> f[x]]

\* A room is in the list once: it is taken out, or put at the end.
Toggled(r) ==
  IF Contains(selectedRoomIds, r)
  THEN {RemoveAt(selectedRoomIds, i) : i \in {j \in DOMAIN selectedRoomIds : selectedRoomIds[j] = r}}
  ELSE {Append(selectedRoomIds, r)}

\* A bug: the tables of a room stay when it is no longer selected.
MutantToggleRoom(r) ==
  \E next \in Toggled(r) :
    /\ Editing
    /\ selectedRoomIds' = next
    /\ activeRoomId' = IF next = <<>> THEN None
                       ELSE IF Contains(next, activeRoomId) THEN activeRoomId ELSE Head(next)
    /\ UNCHANGED <<here, loading, event, filled, tablesByRoom, selectedTable, tableCount,
                   chairsPerTable, sessions, calls>>

\* toggleRoomSelection: a room that goes takes its tables along, and is no longer
\* the active one.
ToggleRoom(r) ==
  \E next \in Toggled(r) :
    /\ Editing
    /\ selectedRoomIds' = next
    /\ activeRoomId' = IF next = <<>> THEN None
                       ELSE IF Contains(next, activeRoomId) THEN activeRoomId ELSE Head(next)
    /\ tablesByRoom' = IF Contains(next, r) THEN tablesByRoom ELSE Without(tablesByRoom, r)
    /\ UNCHANGED <<here, loading, event, filled, selectedTable, tableCount, chairsPerTable,
                   sessions, calls>>

CurrentTables ==
  IF activeRoomId \in DOMAIN tablesByRoom THEN tablesByRoom[activeRoomId] ELSE {}

\* The table that is selected stays selected.
SetActiveRoom(r) ==
  /\ here /\ loading = "none" /\ Contains(selectedRoomIds, r) /\ r # activeRoomId
  /\ activeRoomId' = r
  /\ LET tables == IF r \in DOMAIN tablesByRoom THEN tablesByRoom[r] ELSE {} IN
       /\ tableCount' = Cardinality(tables)
       /\ chairsPerTable' \in IF tables = {} THEN {chairsPerTable}
                              ELSE {t.chairs : t \in tables}
  /\ UNCHANGED <<here, loading, event, filled, selectedRoomIds, tablesByRoom, selectedTable,
                 sessions, calls>>

-----------------------------------------------------------------------------
(* Tables.                                                                 *)

\* Nothing is done while no room is active.
UpdateCurrentTables(tables) ==
  tablesByRoom' = IF activeRoomId = None THEN tablesByRoom
                  ELSE [r \in DOMAIN tablesByRoom \cup {activeRoomId} |->
                          IF r = activeRoomId THEN tables ELSE tablesByRoom[r]]

ChooseCounts ==
  /\ Editing
  /\ tableCount' \in 1 .. MaxTables
  /\ chairsPerTable' \in 1 .. MaxChairs
  /\ UNCHANGED <<here, loading, event, filled, selectedRoomIds, activeRoomId, tablesByRoom,
                 selectedTable, sessions, calls>>

GenerateLayout ==
  /\ Editing
  /\ UpdateCurrentTables([id : 1 .. tableCount, chairs : {chairsPerTable}])
  /\ UNCHANGED <<here, loading, event, filled, selectedRoomIds, activeRoomId, selectedTable,
                 tableCount, chairsPerTable, sessions, calls>>

SelectTable ==
  /\ Editing
  /\ selectedTable' \in CurrentTables
  /\ UNCHANGED <<here, loading, event, filled, selectedRoomIds, activeRoomId, tablesByRoom,
                 tableCount, chairsPerTable, sessions, calls>>

CanvasClick ==
  /\ Editing /\ selectedTable # None
  /\ selectedTable' = None
  /\ UpdateCurrentTables(CurrentTables)
  /\ UNCHANGED <<here, loading, event, filled, selectedRoomIds, activeRoomId, tableCount,
                 chairsPerTable, sessions, calls>>

\* The table of the active room with the number of the selected one is changed.
UpdateChairs(n) ==
  /\ Editing /\ selectedTable # None
  /\ UpdateCurrentTables({IF t.id = selectedTable.id THEN [t EXCEPT !.chairs = n] ELSE t :
                            t \in CurrentTables})
  /\ selectedTable' = [selectedTable EXCEPT !.chairs = n]
  /\ UNCHANGED <<here, loading, event, filled, selectedRoomIds, activeRoomId, tableCount,
                 chairsPerTable, sessions, calls>>

RemoveTable ==
  /\ Editing /\ selectedTable # None
  /\ UpdateCurrentTables({t \in CurrentTables : t.id # selectedTable.id})
  /\ selectedTable' = None
  /\ UNCHANGED <<here, loading, event, filled, selectedRoomIds, activeRoomId, tableCount,
                 chairsPerTable, sessions, calls>>

-----------------------------------------------------------------------------
(* Sessions, saving and publishing.                                        *)

EditSessions(next) ==
  /\ Editing
  /\ sessions' = next
  /\ UNCHANGED <<here, loading, event, filled, layout, calls>>

AddSession == Len(sessions) < MaxSessions /\ EditSessions(Append(sessions, "blank"))
RemoveSession == \E i \in DOMAIN sessions : EditSessions(RemoveAt(sessions, i))
UpdateSession == \E i \in DOMAIN sessions : EditSessions([sessions EXCEPT ![i] = "typed"])

\* The button of each request is disabled until the answer is there.
Send(call) ==
  /\ Editing
  /\ \A c \in calls : c.op # call.op
  /\ calls' = calls \cup {call}
  /\ UNCHANGED <<here, loading, event, filled, layout, sessions>>

SaveSessions == sessions # <<>> /\ Send(Call("sessions", sessions))

\* A draft whose form is not complete is not sent, though the user is told that
\* it was saved.
SaveChanges == filled /\ selectedRoomIds # <<>> /\ Send(Call("save", <<>>))

PublishEvent == isDraft /\ filled /\ selectedRoomIds # <<>> /\ Send(Call("publish", <<>>))

\* The sessions become what was sent, whatever was typed meanwhile.
SessionsSaved(c) ==
  /\ c \in calls /\ c.op = "sessions"
  /\ calls' = calls \ {c}
  /\ sessions' = c.sessions
  /\ UNCHANGED <<here, loading, event, filled, layout>>

\* The event is set, the form is not filled in again.
ChangesSaved(c) ==
  /\ c \in calls /\ c.op = "save"
  /\ calls' = calls \ {c}
  /\ isExpired' \in {isExpired, TRUE}
  /\ UNCHANGED <<here, loading, isDraft, filled, layout, sessions>>

Published(c) ==
  /\ c \in calls /\ c.op = "publish"
  /\ calls' = calls \ {c}
  /\ here' = FALSE
  /\ UNCHANGED <<loading, event, filled, layout, sessions>>

CallFailed(c) ==
  /\ c \in calls
  /\ calls' = calls \ {c}
  /\ UNCHANGED <<here, loading, event, filled, layout, sessions>>

NoTables == [r \in {} |-> {}]

\* What was edited is gone.  Only the answer to a publication still does something:
\* it leads to the list of events.
Leave ==
  /\ here
  /\ here' = FALSE
  /\ loading' = "failed"
  /\ isDraft' = FALSE /\ isExpired' = FALSE /\ filled' = FALSE
  /\ selectedRoomIds' = <<>> /\ activeRoomId' = None
  /\ tablesByRoom' = NoTables /\ selectedTable' = None
  /\ tableCount' = 1 /\ chairsPerTable' = 1
  /\ sessions' = <<>>
  /\ calls' = {c \in calls : c.op = "publish"}

-----------------------------------------------------------------------------

Init ==
  /\ here = TRUE
  /\ loading = "rooms"
  /\ isDraft = FALSE /\ isExpired = FALSE /\ filled = FALSE
  /\ selectedRoomIds = <<>> /\ activeRoomId = None
  /\ tablesByRoom = NoTables /\ selectedTable = None
  /\ tableCount = 1 /\ chairsPerTable = 1
  /\ sessions = <<>>
  /\ calls = {}

Next ==
  \/ RoomsLoaded \/ LoadFailed \/ FillIn
  \/ \E draft \in BOOLEAN, rooms \in RoomLists, list \in SessionLists :
       EventLoaded(draft, rooms, list)
  \/ \E r \in Rooms : ToggleRoom(r) \/ SetActiveRoom(r)
  \/ ChooseCounts \/ GenerateLayout
  \/ SelectTable \/ CanvasClick \/ RemoveTable
  \/ \E n \in 1 .. MaxChairs : UpdateChairs(n)
  \/ AddSession \/ RemoveSession \/ UpdateSession
  \/ SaveSessions \/ SaveChanges \/ PublishEvent
  \/ \E c \in calls : SessionsSaved(c) \/ ChangesSaved(c) \/ Published(c) \/ CallFailed(c)
  \/ Leave

Spec == Init /\ [][Next]_vars

-----------------------------------------------------------------------------
(* Properties.                                                             *)

\* However rooms are selected, dropped and selected again and tables laid out,
\* the room that is edited is one of the event's, there is one as soon as the
\* event has any, and tables exist only in rooms of the event: a room selected
\* again does not bring back the tables it had.
LayoutFollowsRooms ==
  /\ activeRoomId = None <=> selectedRoomIds = <<>>
  /\ activeRoomId # None => Contains(selectedRoomIds, activeRoomId)
  /\ \A r \in DOMAIN tablesByRoom : Contains(selectedRoomIds, r)

=============================================================================
