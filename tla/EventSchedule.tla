---------------------------- MODULE EventSchedule ----------------------------
(***************************************************************************)
(* Events and the rooms they occupy: EventsService.createDraft, publish,   *)
(* create, update, delete and addTable, each run statement by statement.   *)
(* The availability of the rooms and the existence of tickets are read     *)
(* before, and outside, the statement that writes the event.               *)
(*                                                                         *)
(* The service that sells the tickets appears here only by the two moments *)
(* that matter to an event: a booking reads the event, and later commits a *)
(* ticket for one of its rooms.  Reservations has the detail.              *)
(***************************************************************************)
EXTENDS Integers

CONSTANTS
  Editors,     \* requests to /events in flight at a time
  Bookers,     \* requests to /reservations in flight at a time
  EventIds, Rooms, Clients,
  RoomOwner,   \* room -> the client of its building
  Wishes,      \* the rooms and times a request may name, valid or not
  Layouts,     \* the sets of rooms a request may ask tables in
  SuperAdmin,  \* a caller no tenant filter applies to
  Callers,     \* the users that send requests: tenants, super admins
  None

ASSUME ScheduleConstants ==
  /\ Wishes \subseteq [primary : Rooms, rooms : SUBSET Rooms, start : Nat, end : Nat]
  /\ RoomOwner \in [Rooms -> Clients]
  /\ Layouts \subseteq SUBSET Rooms
  /\ SuperAdmin \notin Clients
  /\ Callers \subseteq Clients \cup {SuperAdmin}
  /\ None \notin Clients \cup Rooms \cup EventIds \cup {SuperAdmin}

VARIABLES
  event,    \* the events table: id -> row
  tables,   \* id -> the rooms in which the event has tables
  sold,     \* the ids that have tickets, of any status
  counted,  \* the ids that have an EVENT_CREATION row in the usage ledger
  req,      \* editor -> the request it is running
  todo,     \* editor -> the rooms whose availability is still to be read
  pc,       \* editor -> its next statement
  booking,  \* booker -> the event it has read, and will issue a ticket for
  raced     \* history: editor -> what others have written since its request came

vars == <<event, tables, sold, counted, req, todo, pc, booking, raced>>

\* A bug: the start is not compared with the end.
MutantPlans == {p \in Wishes : p.primary \in p.rooms}

\* Where and when: roomIds without repetitions, the first one is the primary.
Plans == {p \in Wishes : p.primary \in p.rooms /\ p.start < p.end}
NoPlan == [primary |-> None, rooms |-> {}, start |-> 0, end |-> 0]

Row(client, status, plan) == [client |-> client, status |-> status, plan |-> plan]
Unused == Row(None, "UNUSED", NoPlan)
Deleted == Row(None, "DELETED", NoPlan)

Request(op, id, caller, plan, layout, current) ==
  [op |-> op, id |-> id, caller |-> caller, plan |-> plan,
   layout |-> layout, current |-> current]
NoRequest == Request("none", None, None, NoPlan, {}, {})

-----------------------------------------------------------------------------
(* What the statements read.                                               *)

Live(e) == event[e].status \in {"DRAFT", "PUBLISHED"}

\* A bug: the tenant filter is left out of the lookup.
MutantVisible(e, caller) == Live(e)

\* getById
Visible(e, caller) == Live(e) /\ (caller = SuperAdmin \/ event[e].client = caller)

\* The ownership check of the rooms in create, publish and update.
MayUse(caller, rooms) == caller = SuperAdmin \/ \A r \in rooms : RoomOwner[r] = caller

\* room_id = r, or room_ids contains r
Uses(e, r) == event[e].plan.primary = r \/ r \in event[e].plan.rooms

Collide(p, s) == p.start < s.end /\ p.end > s.start

\* A bug: drafts are not counted, although an update has given them a place.
MutantAvailable(r, plan, self) ==
  \A e \in EventIds \ {self} :
    ~ (event[e].status = "PUBLISHED" /\ Uses(e, r) /\ Collide(event[e].plan, plan))

\* checkRoomAvailability: any status counts, drafts without times never match.
Available(r, plan, self) ==
  \A e \in EventIds \ {self} : ~ (Uses(e, r) /\ Collide(event[e].plan, plan))

\* A bug: the tickets of a draft are not counted.
MutantTicketsExist(e) == e \in sold /\ event[e].status = "PUBLISHED"

\* hasTickets
TicketsExist(e) == e \in sold

-----------------------------------------------------------------------------
(* Requests that read before they write.                                   *)

\* Event e is "placed" in rooms and time, or a ticket of it is "sold": that races
\* the requests in flight that look for events in their rooms, or for its tickets.
RacedBy(what, e) ==
  [q \in Editors |->
     raced[q] \cup IF pc[q] # "idle" /\ (what = "sold" => req[q].id = e)
                   THEN {<<what, e>>} ELSE {}]

Start(q, request, first) ==
  /\ pc[q] = "idle"
  /\ req' = [req EXCEPT ![q] = request]
  /\ todo' = [todo EXCEPT ![q] = request.plan.rooms]
  /\ pc' = [pc EXCEPT ![q] = first]
  /\ UNCHANGED <<event, tables, sold, counted, booking, raced>>

SubmitCreate(q) ==
  \E caller \in Callers, p \in Plans, layout \in Layouts :
    /\ MayUse(caller, p.rooms)
    /\ Start(q, Request("create", None, caller, p, layout, {}), "availability")

SubmitPublish(q) ==
  \E e \in EventIds, caller \in Callers, p \in Plans, layout \in Layouts :
    /\ Visible(e, caller)
    /\ MayUse(caller, p.rooms)
    /\ Start(q, Request("publish", e, caller, p, layout, {}), "availability")

SubmitUpdate(q) ==
  \E e \in EventIds, caller \in Callers, p \in Plans :
    /\ Visible(e, caller)
    /\ MayUse(caller, p.rooms)
    /\ Start(q, Request("update", e, caller, p, {}, event[e].plan.rooms), "tickets")

SubmitDelete(q) ==
  \E e \in EventIds, caller \in Callers :
    /\ Visible(e, caller)
    /\ Start(q, Request("delete", e, caller, NoPlan, {}, {}), "tickets")

Finish(q) ==
  /\ req' = [req EXCEPT ![q] = NoRequest]
  /\ todo' = [todo EXCEPT ![q] = {}]
  /\ pc' = [pc EXCEPT ![q] = "idle"]

\* An error is answered.  Whatever a transaction has done is rolled back.
Refuse(q) ==
  /\ Finish(q)
  /\ raced' = [raced EXCEPT ![q] = {}]
  /\ UNCHANGED <<event, tables, sold, counted, booking>>

Proceed(q, next) ==
  /\ pc' = [pc EXCEPT ![q] = next]
  /\ UNCHANGED <<event, tables, sold, counted, req, todo, booking, raced>>

\* A bug: rooms have changed only when none of the old ones is kept.
MutantRoomsChange(q) == req[q].current \cap req[q].plan.rooms = {}

RoomsChange(q) == req[q].current # req[q].plan.rooms

CheckTickets(q) ==
  /\ pc[q] = "tickets"
  /\ \/ /\ req[q].op = "update"
        /\ ~ (TicketsExist(req[q].id) /\ RoomsChange(q))
        /\ Proceed(q, "availability")
     \/ /\ req[q].op = "delete"
        /\ ~ TicketsExist(req[q].id)
        /\ Proceed(q, "write")

RefuseForTickets(q) ==
  /\ pc[q] = "tickets"
  /\ TicketsExist(req[q].id)
  /\ req[q].op = "update" => RoomsChange(q)
  /\ Refuse(q)

\* After the last room comes the write.
CheckRoom(q) ==
  /\ pc[q] = "availability"
  /\ \E r \in todo[q] :
       /\ Available(r, req[q].plan, req[q].id)
       /\ todo' = [todo EXCEPT ![q] = @ \ {r}]
       /\ pc' = [pc EXCEPT ![q] = IF todo[q] = {r} THEN "write" ELSE @]
  /\ UNCHANGED <<event, tables, sold, counted, req, booking, raced>>

RefuseForRoom(q) ==
  /\ pc[q] = "availability"
  /\ \E r \in todo[q] : ~ Available(r, req[q].plan, req[q].id)
  /\ Refuse(q)

-----------------------------------------------------------------------------
(* The writes.  A transaction is one step: it is seen when it commits.     *)

ClientOf(caller) == IF caller = SuperAdmin THEN None ELSE caller

Write(q, e, row, layout) ==
  /\ event' = [event EXCEPT ![e] = row]
  /\ tables' = [tables EXCEPT ![e] = @ \cup layout]
  /\ raced' = [RacedBy("placed", e) EXCEPT ![q] = {}]
  /\ Finish(q)
  /\ UNCHANGED <<sold, booking>>

\* recordEventCreation, for tenants only
Count(e, caller) ==
  counted' = IF caller = SuperAdmin THEN counted ELSE counted \cup {e}

CreateEvent(q) ==
  /\ pc[q] = "write" /\ req[q].op = "create"
  /\ \E e \in EventIds :
       /\ event[e] = Unused
       /\ Write(q, e, Row(ClientOf(req[q].caller), "PUBLISHED", req[q].plan), req[q].layout)
       /\ Count(e, req[q].caller)

\* One ledger row per event: the second publish by a tenant is rolled back.
PublishEvent(q) ==
  LET e == req[q].id IN
  /\ pc[q] = "write" /\ req[q].op = "publish"
  /\ Live(e)
  /\ req[q].caller # SuperAdmin => e \notin counted
  /\ Write(q, e, Row(event[e].client, "PUBLISHED", req[q].plan), req[q].layout)
  /\ Count(e, req[q].caller)

UpdateEvent(q) ==
  LET e == req[q].id IN
  /\ pc[q] = "write" /\ req[q].op = "update"
  /\ Live(e)
  /\ Write(q, e, Row(event[e].client, event[e].status, req[q].plan), {})
  /\ UNCHANGED counted

\* Tables, reservations and tickets go with the event (ON DELETE CASCADE); the
\* ledger row stays.
DeleteEvent(q) ==
  LET e == req[q].id IN
  /\ pc[q] = "write" /\ req[q].op = "delete"
  /\ event' = [event EXCEPT ![e] = Deleted]
  /\ tables' = [tables EXCEPT ![e] = {}]
  /\ sold' = sold \ {e}
  /\ raced' = [raced EXCEPT ![q] = {}]
  /\ Finish(q)
  /\ UNCHANGED <<counted, booking>>

\* The event is gone, the ledger refuses, the quota is used up, a statement or
\* the connection fails.
Fail(q) == pc[q] # "idle" /\ Refuse(q)

-----------------------------------------------------------------------------
(* Requests of a single statement.                                         *)

CreateDraft ==
  /\ \E e \in EventIds, caller \in Callers :
       /\ event[e] = Unused
       /\ event' = [event EXCEPT ![e] = Row(ClientOf(caller), "DRAFT", NoPlan)]
  /\ UNCHANGED <<tables, sold, counted, req, todo, pc, booking, raced>>

\* The room is the one asked for, of any event, or the primary room.
AddTable ==
  /\ \E e \in EventIds, layout \in Layouts, r \in Rooms :
       /\ Live(e)
       /\ r \in layout \/ r = event[e].plan.primary
       /\ tables' = [tables EXCEPT ![e] = @ \cup {r}]
  /\ UNCHANGED <<event, sold, counted, req, todo, pc, booking, raced>>

-----------------------------------------------------------------------------
(* Bookings, as far as an event notices them.                              *)

\* The event and a table of it, in one of the rooms the event has.
ReadEvent(b) ==
  /\ booking[b] = None
  /\ \E e \in EventIds :
       /\ Live(e)
       /\ tables[e] \cap event[e].plan.rooms # {}
       /\ booking' = [booking EXCEPT ![b] = e]
  /\ UNCHANGED <<event, tables, sold, counted, req, todo, pc, raced>>

\* The foreign keys see to it that the event and its table still exist.
IssueTicket(b) ==
  LET e == booking[b] IN
  /\ e # None
  /\ Live(e)
  /\ sold' = sold \cup {e}
  /\ raced' = RacedBy("sold", e)
  /\ booking' = [booking EXCEPT ![b] = None]
  /\ UNCHANGED <<event, tables, counted, req, todo, pc>>

AbortBooking(b) ==
  /\ booking[b] # None
  /\ booking' = [booking EXCEPT ![b] = None]
  /\ UNCHANGED <<event, tables, sold, counted, req, todo, pc, raced>>

-----------------------------------------------------------------------------

Init ==
  /\ event = [e \in EventIds |-> Unused]
  /\ tables = [e \in EventIds |-> {}]
  /\ sold = {}
  /\ counted = {}
  /\ req = [q \in Editors |-> NoRequest]
  /\ todo = [q \in Editors |-> {}]
  /\ pc = [q \in Editors |-> "idle"]
  /\ booking = [b \in Bookers |-> None]
  /\ raced = [q \in Editors |-> {}]

Submit(q) == SubmitCreate(q) \/ SubmitPublish(q) \/ SubmitUpdate(q) \/ SubmitDelete(q)

Check(q) ==
  \/ CheckTickets(q) \/ RefuseForTickets(q)
  \/ CheckRoom(q) \/ RefuseForRoom(q)

Store(q) == CreateEvent(q) \/ PublishEvent(q) \/ UpdateEvent(q) \/ DeleteEvent(q)

Next ==
  \/ \E q \in Editors : Submit(q) \/ Check(q) \/ Store(q) \/ Fail(q)
  \/ \E b \in Bookers : ReadEvent(b) \/ IssueTicket(b) \/ AbortBooking(b)
  \/ CreateDraft \/ AddTable

Spec == Init /\ [][Next]_vars

-----------------------------------------------------------------------------
(* Properties.                                                             *)

\* Every row has the columns the schema's checks ask for.
TypeOK ==
  /\ event \in [EventIds -> [client : Clients \cup {None},
                             status : {"UNUSED", "DRAFT", "PUBLISHED", "DELETED"},
                             plan : Plans \cup {NoPlan}]]
  /\ \A e \in EventIds : event[e].status = "PUBLISHED" =>
       event[e].plan # NoPlan /\ event[e].plan.start < event[e].plan.end
  /\ \A e \in EventIds :
       event[e].status \in {"UNUSED", "DELETED"} => event[e] \in {Unused, Deleted}
  /\ tables \in [EventIds -> SUBSET Rooms]
  /\ sold \subseteq EventIds
  /\ counted \subseteq EventIds
  /\ req \in [Editors -> [op : {"none", "create", "publish", "update", "delete"},
                          id : EventIds \cup {None}, caller : Callers \cup {None},
                          plan : Plans \cup {NoPlan}, layout : SUBSET Rooms,
                          current : SUBSET Rooms]]
  /\ todo \in [Editors -> SUBSET Rooms]
  /\ pc \in [Editors -> {"idle", "tickets", "availability", "write"}]
  /\ booking \in [Bookers -> EventIds \cup {None}]
  /\ raced \in [Editors -> SUBSET ({"placed", "sold"} \X EventIds)]

Hours(p) == p.start .. (p.end - 1)

Overlap(e, f) ==
  /\ e # f
  /\ event[e].plan.rooms \cap event[f].plan.rooms # {}
  /\ Hours(event[e].plan) \cap Hours(event[f].plan) # {}

\* No room ever hosts two events at one time ("If an overlap is found, it throws
\* a 409 Conflict error", walkthrough.md).  A run refutes it.
NoOverlap == \A e, f \in EventIds : ~ Overlap(e, f)

\* An editor answers its request with a write of its event.
Writes(q) == pc[q] = "write" /\ pc'[q] = "idle"

\* What the availability check leaves open, and no more: an event gets into a
\* room and time of another only by a request during which somebody else placed
\* that other event.  Whatever creations, publications and moves, over one or
\* several rooms, have gone before, the request finds every event that was there
\* when it came (create, publish and update, checkRoomAvailability).
OverlapNeedsRace ==
  [][\A e, f \in EventIds :
       event'[e] # event[e] /\ Overlap(e, f)' =>
         \E q \in Editors : Writes(q) /\ <<"placed", f>> \in raced[q]]_vars

\* A tenant's request changes only the tenant's own events and puts them only
\* in the tenant's own rooms, although the statement that writes the row names
\* neither and runs long after the checks.
TenantIsolation ==
  [][\A q \in Editors, e \in EventIds :
       /\ pc[q] = "write" /\ pc'[q] = "idle"
       /\ req[q].caller \in Clients
       /\ event'[e] # event[e]
       => /\ event[e].client = req[q].caller \/ event[e] = Unused
          /\ \A r \in event'[e].plan.rooms : RoomOwner[r] = req[q].caller]_vars

\* What "Safe Deletion" (walkthrough.md) leaves open, and no more: tickets go
\* with their event only by a request during which one of them was sold (delete,
\* hasTickets).
LostTicketNeedsRace ==
  [][\A e \in EventIds :
       e \in sold /\ event'[e] = Deleted =>
         \E q \in Editors : Writes(q) /\ <<"sold", e>> \in raced[q]]_vars

\* What "Structural Edit Locks" (walkthrough.md) leaves open, and no more: an
\* update moves an event that has tickets only if, since the request came, one
\* of them was sold, or somebody else moved the event and the rooms the request
\* compares its own with are outdated (update, current.room_ids).
MoveNeedsRace ==
  [][\A q \in Editors, e \in EventIds :
       /\ Writes(q) /\ req[q].op = "update"
       /\ e \in sold
       /\ event'[e].plan.rooms # event[e].plan.rooms
       => <<"sold", e>> \in raced[q] \/ <<"placed", e>> \in raced[q]]_vars

=============================================================================
