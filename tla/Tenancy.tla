-------------------------------- MODULE Tenancy --------------------------------
(***************************************************************************)
(* The accounts of the clients and what belongs to them: gate staff and    *)
(* its assignments, buildings and rooms, ticket templates, and the chairs  *)
(* of the tables (ClientsService, GateStaffService, BuildingsService,      *)
(* RoomsService, TicketTemplatesService, EventsService.addChairs).         *)
(*                                                                         *)
(* A request runs statement by statement, each committed on its own, and   *)
(* any of them may fail: nothing is taken back then.  Rows are the rows of *)
(* the tables without what nobody looks at; user names, e-mails and room   *)
(* numbers are left out, so that a lookup or a unique index that finds one *)
(* taken is a request that fails.                                          *)
(***************************************************************************)
EXTENDS Naturals, FiniteSets

CONSTANTS
  Super,      \* the super admin, who has no account
  Requests,   \* a row that a request creates has the request for an id
  MaxCount,   \* bound on the chairs added by one request
  None,
  Clients, Events, Tables,                            \* ids of rows there at first
  InitialStaff, InitialBuildings, InitialRooms, InitialEvents, InitialTables

Ids(table) == {row.id : row \in table}

\* The rows there at first are complete, an id names one row, and no request has the
\* id of one of them.
ASSUME TenancyConstants ==
  /\ MaxCount \in Nat
  /\ Super \notin Clients
  /\ \A r, s \in InitialStaff : r.id = s.id => r = s
  /\ \A r, s \in InitialRooms : r.id = s.id => r = s
  /\ Requests \cap (Clients \cup Ids(InitialStaff) \cup Ids(InitialBuildings)
                      \cup Ids(InitialRooms)) = {}
  /\ \A s \in InitialStaff : s.client \in Clients \cup {None}
  /\ \A b \in InitialBuildings : b.client \in Clients \cup {None}
  /\ \A r \in InitialRooms : r.building \in Ids(InitialBuildings)
  /\ \A e \in InitialEvents :
       /\ e.id \in Events
       /\ e.client \in Clients \cup {None}
       /\ e.room \in Ids(InitialRooms) \cup {None}
  /\ \A t \in InitialTables :
       /\ t.id \in Tables
       /\ t.event \in Ids(InitialEvents)
       /\ t.room \in Ids(InitialRooms) \cup {None}

VARIABLES
  clients,      \* ids of the users that are clients
  subscribed,   \* the clients that have a subscription
  staff,        \* the users that are gate staff: [id, client]
  assignments,  \* gate_staff_assignments: [user, event]
  buildings,    \* [id, client]
  rooms,        \* [id, building]
  events,       \* [id, client, room]; room is the primary one, or None
  tables,       \* [id, event, room]
  chairs,       \* table -> its chair numbers
  templates,    \* ticket_templates: [id, client]
  job,          \* request -> what it asks for
  at,           \* request -> the statement it is at, or "idle", "ok", "failed"
  todo,         \* request -> the events of its job that are still to be dealt with
  added         \* request -> the chairs it has inserted

accounts == <<clients, subscribed>>
crew == <<staff, assignments>>
venues == <<buildings, rooms>>
layout == <<events, tables, chairs>>
rows == <<accounts, crew, venues, layout, templates>>
progress == <<job, at, todo, added>>
vars == <<rows, progress>>

\* The client_id of a new row, and what a WHERE with client_id lets through.
Tenant(caller) == IF caller = Super THEN None ELSE caller
Sees(caller, client) == caller = Super \/ client = caller

\* A client_id that names nobody violates a foreign key.
TenantExists(caller) == Tenant(caller) \in clients \cup {None}

-----------------------------------------------------------------------------
(* Requests.                                                               *)

NoJob == [op |-> "none", caller |-> Super, on |-> None, wanted |-> {}, count |-> 0]

\* On which row, for which events, and how many chairs.
Job(op, caller, on, wanted, count) ==
  [op |-> op, caller |-> caller, on |-> on, wanted |-> wanted, count |-> count]

\* A token lets a client ask on after its account was deleted.
Callers == Clients \cup {Super}

\* The requests that are handled statement by statement.  Ids of rows that are gone
\* by now are left out: such a request fails.
ClientJobs == {Job("client", Super, None, {}, 0)}

StaffJobs ==
  {Job("staff", c, None, es, 0) : c \in Callers, es \in SUBSET Events}
    \cup {Job(op, c, s, {e}, 0) : op \in {"assign", "unassign"}, c \in Callers,
                                  s \in Ids(staff), e \in Ids(events)}
    \cup {Job("dismiss", c, s, {}, 0) : c \in Callers, s \in Ids(staff)}

BuildingJobs == {Job("building", c, None, {}, 0) : c \in Callers}

RoomJobs ==
  {Job("room", c, b, {}, 0) : c \in Callers, b \in Ids(buildings)}
    \cup {Job("deleteRoom", c, r, {}, 0) : c \in Callers, r \in Ids(rooms)}

TemplateJobs == {Job("template", c, None, {}, 0) : c \in Callers}

\* The path names an event and a table, which nothing compares: only the event is
\* looked up, and chairs go to whatever table is named.
ChairJobs ==
  {Job("chairs", c, t, {e}, n) :
     c \in Callers, t \in Ids(tables), e \in Ids(events), n \in 1 .. MaxCount}

Jobs == UNION {ClientJobs, StaffJobs, BuildingJobs, RoomJobs, TemplateJobs, ChairJobs}

\* The super admin's requests skip the checks of the owner.
FirstStage(j) ==
  IF j.caller # Super /\ j.op \in {"assign", "unassign", "dismiss", "room", "deleteRoom"}
  THEN "owner"
  ELSE IF j.op = "chairs" \/ (j.op = "staff" /\ j.caller # Super /\ j.wanted # {})
  THEN "events"
  ELSE "write"

Submit(p, j) ==
  /\ at[p] = "idle"
  /\ job' = [job EXCEPT ![p] = j]
  /\ at' = [at EXCEPT ![p] = FirstStage(j)]
  /\ todo' = [todo EXCEPT ![p] = j.wanted]
  /\ UNCHANGED <<rows, added>>

Reach(p, stage) == at' = [at EXCEPT ![p] = stage] /\ UNCHANGED job

Writes(p, op) == at[p] = "write" /\ job[p].op = op

\* A statement fails, finds a row that is not there or not the caller's, a name
\* that is taken, or a foreign key that is violated.
Fail(p) ==
  /\ at[p] \notin {"idle", "ok", "failed"}
  /\ Reach(p, "failed")
  /\ UNCHANGED <<rows, todo, added>>

\* A bug: the owner of a room's building is not asked for.
MutantCheckOwner(p) ==
  /\ at[p] = "owner"
  /\ job[p].op \in {"assign", "unassign", "dismiss"} =>
       \E s \in staff : s.id = job[p].on /\ s.client = job[p].caller
  /\ Reach(p, IF job[p].op = "assign" THEN "events" ELSE "write")
  /\ UNCHANGED <<rows, todo, added>>

\* checkOwnership, and the same of a building and of a room.
CheckOwner(p) ==
  /\ at[p] = "owner"
  /\ job[p].op \in {"assign", "unassign", "dismiss"} =>
       \E s \in staff : s.id = job[p].on /\ s.client = job[p].caller
  /\ job[p].op = "room" =>
       \E b \in buildings : b.id = job[p].on /\ b.client = job[p].caller
  /\ job[p].op = "deleteRoom" =>
       \E r \in rooms, b \in buildings :
         r.id = job[p].on /\ r.building = b.id /\ b.client = job[p].caller
  /\ Reach(p, IF job[p].op = "assign" THEN "events" ELSE "write")
  /\ UNCHANGED <<rows, todo, added>>

\* getById of one event after the other.
CheckEvent(p, e) ==
  /\ at[p] = "events" /\ e \in todo[p]
  /\ \E row \in events : row.id = e /\ Sees(job[p].caller, row.client)
  /\ IF todo[p] = {e}
     THEN Reach(p, "write") /\ todo' = [todo EXCEPT ![p] = job[p].wanted]
     ELSE Reach(p, "events") /\ todo' = [todo EXCEPT ![p] = @ \ {e}]
  /\ UNCHANGED <<rows, added>>

-----------------------------------------------------------------------------
(* Accounts.                                                               *)

InsertClient(p) ==
  /\ Writes(p, "client")
  /\ clients' = clients \cup {p}
  /\ Reach(p, "subscribe")
  /\ UNCHANGED <<subscribed, crew, venues, layout, templates, todo, added>>

\* ensureFreeSubscription, in a statement of its own.
Subscribe(p) ==
  /\ at[p] = "subscribe" /\ p \in clients
  /\ subscribed' = subscribed \cup {p}
  /\ Reach(p, "ok")
  /\ UNCHANGED <<clients, crew, venues, layout, templates, todo, added>>

InsertStaff(p) ==
  /\ Writes(p, "staff") /\ TenantExists(job[p].caller)
  /\ staff' = staff \cup {[id |-> p, client |-> Tenant(job[p].caller)]}
  /\ Reach(p, IF job[p].wanted = {} THEN "ok" ELSE "assign")
  /\ UNCHANGED <<accounts, assignments, venues, layout, templates, todo, added>>

Assigns(p) == at[p] = "assign" \/ Writes(p, "assign")
Assignee(p) == IF job[p].op = "staff" THEN p ELSE job[p].on

\* A bug: the loop ends one event early.
MutantInsertAssignment(p, e) ==
  /\ Assigns(p) /\ e \in todo[p]
  /\ Assignee(p) \in Ids(staff) /\ e \in Ids(events)
  /\ assignments' = assignments \cup {[user |-> Assignee(p), event |-> e]}
  /\ todo' = [todo EXCEPT ![p] = @ \ {e}]
  /\ Reach(p, IF Cardinality(todo[p]) <= 2 THEN "ok" ELSE at[p])
  /\ UNCHANGED <<accounts, staff, venues, layout, templates, added>>

InsertAssignment(p, e) ==
  /\ Assigns(p) /\ e \in todo[p]
  /\ Assignee(p) \in Ids(staff) /\ e \in Ids(events)
  /\ assignments' = assignments \cup {[user |-> Assignee(p), event |-> e]}
  /\ todo' = [todo EXCEPT ![p] = @ \ {e}]
  /\ Reach(p, IF todo[p] = {e} THEN "ok" ELSE at[p])
  /\ UNCHANGED <<accounts, staff, venues, layout, templates, added>>

DeleteAssignment(p) ==
  /\ Writes(p, "unassign")
  /\ assignments' = {a \in assignments : ~ (a.user = job[p].on /\ a.event \in job[p].wanted)}
  /\ Reach(p, "ok")
  /\ UNCHANGED <<accounts, staff, venues, layout, templates, todo, added>>

DeleteStaff(p) ==
  /\ Writes(p, "dismiss")
  /\ staff' = {s \in staff : s.id # job[p].on}
  /\ assignments' = {a \in assignments : a.user # job[p].on}
  /\ Reach(p, "ok")
  /\ UNCHANGED <<accounts, venues, layout, templates, todo, added>>

-----------------------------------------------------------------------------
(* Venues, templates and chairs.                                           *)

InsertBuilding(p) ==
  /\ Writes(p, "building") /\ TenantExists(job[p].caller)
  /\ buildings' = buildings \cup {[id |-> p, client |-> Tenant(job[p].caller)]}
  /\ Reach(p, "ok")
  /\ UNCHANGED <<accounts, crew, rooms, layout, templates, todo, added>>

InsertRoom(p) ==
  /\ Writes(p, "room") /\ job[p].on \in Ids(buildings)
  /\ rooms' = rooms \cup {[id |-> p, building |-> job[p].on]}
  /\ Reach(p, "ok")
  /\ UNCHANGED <<accounts, crew, buildings, layout, templates, todo, added>>

\* The foreign keys of events and tables forbid to delete a room.
InUse(r) == (\E e \in events : e.room = r) \/ (\E t \in tables : t.room = r)

DeleteRoom(p) ==
  /\ Writes(p, "deleteRoom") /\ ~ InUse(job[p].on)
  /\ rooms' = {r \in rooms : r.id # job[p].on}
  /\ Reach(p, "ok")
  /\ UNCHANGED <<accounts, crew, buildings, layout, templates, todo, added>>

\* created_by is a uuid, and the super admin's id is none: its insert fails.
InsertTemplate(p) ==
  /\ Writes(p, "template") /\ job[p].caller \in clients
  /\ templates' = templates \cup {[id |-> p, client |-> job[p].caller]}
  /\ Reach(p, "ok")
  /\ UNCHANGED <<accounts, crew, venues, layout, todo, added>>

\* A bug: the loop counts down.
MutantInsertChair(p) ==
  LET t == job[p].on
      i == job[p].count - added[p]
  IN
  /\ Writes(p, "chairs") /\ t \in Ids(tables) /\ i \notin chairs[t]
  /\ chairs' = [chairs EXCEPT ![t] = @ \cup {i}]
  /\ added' = [added EXCEPT ![p] = @ + 1]
  /\ Reach(p, IF i = 1 THEN "ok" ELSE "write")
  /\ UNCHANGED <<accounts, crew, venues, events, tables, templates, todo>>

\* A bug: the loop has no end.
MutantInsertChairForever(p) ==
  LET t == job[p].on
      i == added[p] + 1
  IN
  /\ Writes(p, "chairs") /\ t \in Ids(tables) /\ i \notin chairs[t]
  /\ chairs' = [chairs EXCEPT ![t] = @ \cup {i}]
  /\ added' = [added EXCEPT ![p] = i]
  /\ Reach(p, "write")
  /\ UNCHANGED <<accounts, crew, venues, events, tables, templates, todo>>

\* The chairs are numbered from 1, whatever the table has already.
InsertChair(p) ==
  LET t == job[p].on
      i == added[p] + 1
  IN
  /\ Writes(p, "chairs") /\ t \in Ids(tables) /\ i \notin chairs[t]
  /\ chairs' = [chairs EXCEPT ![t] = @ \cup {i}]
  /\ added' = [added EXCEPT ![p] = i]
  /\ Reach(p, IF i = job[p].count THEN "ok" ELSE "write")
  /\ UNCHANGED <<accounts, crew, venues, events, tables, templates, todo>>

-----------------------------------------------------------------------------
(* Deletions in one statement, with what they take along.                  *)

\* The events es go, with their assignments, tables and chairs.
EventsGo(es) ==
  /\ events' = {e \in events : e.id \notin es}
  /\ tables' = {t \in tables : t.event \notin es}
  /\ chairs' = [t \in Tables |-> IF t \in Ids(tables') THEN chairs[t] ELSE {}]

\* Rooms of the buildings that go must not be in use.
BuildingsGo(bs) ==
  /\ \A r \in rooms : r.building \in bs => ~ InUse(r.id)
  /\ buildings' = {b \in buildings : b.id \notin bs}
  /\ rooms' = {r \in rooms : r.building \notin bs}

OwnedBy(c, table) == {row.id : row \in {x \in table : x.client = c}}

\* A bug: the templates of the client stay.
MutantDeleteClient(c) ==
  /\ c \in clients
  /\ clients' = clients \ {c} /\ subscribed' = subscribed \ {c}
  /\ staff' = {s \in staff : s.client # c}
  /\ assignments' = {a \in assignments : a.user \notin OwnedBy(c, staff)
                                           /\ a.event \notin OwnedBy(c, events)}
  /\ BuildingsGo(OwnedBy(c, buildings))
  /\ EventsGo(OwnedBy(c, events))
  /\ UNCHANGED <<templates, progress>>

\* By the super admin.  The buildings go before the events: an event in one of them
\* stops the statement.
DeleteClient(c) ==
  /\ c \in clients
  /\ clients' = clients \ {c} /\ subscribed' = subscribed \ {c}
  /\ staff' = {s \in staff : s.client # c}
  /\ assignments' = {a \in assignments : a.user \notin OwnedBy(c, staff)
                                           /\ a.event \notin OwnedBy(c, events)}
  /\ BuildingsGo(OwnedBy(c, buildings))
  /\ EventsGo(OwnedBy(c, events))
  /\ templates' = {t \in templates : t.client # c}
  /\ UNCHANGED progress

\* By their owner or the super admin.
DeleteBuilding(b) ==
  /\ b \in Ids(buildings)
  /\ BuildingsGo({b})
  /\ UNCHANGED <<accounts, crew, layout, templates, progress>>

DeleteTemplate(t) ==
  /\ t \in Ids(templates)
  /\ templates' = {row \in templates : row.id # t}
  /\ UNCHANGED <<accounts, crew, venues, layout, progress>>

\* The last statement of EventsService.delete.
DeleteEvent(e) ==
  /\ e \in Ids(events)
  /\ EventsGo({e})
  /\ assignments' = {a \in assignments : a.event # e}
  /\ UNCHANGED <<accounts, staff, venues, templates, progress>>

-----------------------------------------------------------------------------

Init ==
  /\ clients = Clients /\ subscribed = Clients
  /\ staff = InitialStaff /\ assignments = {}
  /\ buildings = InitialBuildings /\ rooms = InitialRooms
  /\ events = InitialEvents /\ tables = InitialTables
  /\ chairs = [t \in Tables |-> {}]
  /\ templates = {}
  /\ job = [p \in Requests |-> NoJob]
  /\ at = [p \in Requests |-> "idle"]
  /\ todo = [p \in Requests |-> {}]
  /\ added = [p \in Requests |-> 0]

Step(p) ==
  \/ Fail(p) \/ CheckOwner(p)
  \/ \E e \in Events : CheckEvent(p, e) \/ InsertAssignment(p, e)
  \/ InsertClient(p) \/ Subscribe(p) \/ InsertStaff(p)
  \/ DeleteAssignment(p) \/ DeleteStaff(p)
  \/ InsertBuilding(p) \/ InsertRoom(p) \/ DeleteRoom(p)
  \/ InsertTemplate(p) \/ InsertChair(p)

Next ==
  \/ \E p \in Requests : (\E j \in Jobs : Submit(p, j)) \/ Step(p)
  \/ \E c \in Clients \cup Requests : DeleteClient(c)
  \/ \E b \in Ids(buildings) : DeleteBuilding(b)
  \/ \E t \in Ids(templates) : DeleteTemplate(t)
  \/ \E e \in Ids(events) : DeleteEvent(e)

Spec == Init /\ [][Next]_vars

-----------------------------------------------------------------------------
(* Properties.                                                             *)

Stages == {"idle", "owner", "events", "write", "subscribe", "assign", "ok", "failed"}

TypeOK ==
  /\ chairs \in [Tables -> SUBSET (1 .. MaxCount)]
  /\ at \in [Requests -> Stages]
  /\ todo \in [Requests -> SUBSET Events]
  /\ added \in [Requests -> 0 .. MaxCount]
  /\ \A p \in Requests : job[p].count \in 0 .. MaxCount /\ job[p].wanted \in SUBSET Events

\* Every row belongs to rows that exist: a client that is deleted leaves no staff,
\* venue, event, template or assignment behind, though requests of it and about it
\* are under way, and no event or table loses the room it is in.
NothingOrphaned ==
  /\ subscribed \subseteq clients
  /\ \A row \in staff \cup buildings \cup templates : row.client \in clients \cup {None}
  /\ \A e \in events : e.client \in clients \cup {None} /\ e.room \in Ids(rooms) \cup {None}
  /\ \A a \in assignments : a.user \in Ids(staff) /\ a.event \in Ids(events)
  /\ \A r \in rooms : r.building \in Ids(buildings)
  /\ \A t \in tables : t.event \in Ids(events) /\ t.room \in Ids(rooms) \cup {None}
  /\ \A t \in Tables : chairs[t] # {} => t \in Ids(tables)

\* A creation that was answered with success is complete, although its statements
\* are committed one by one: the client has a subscription, the staff all the
\* events it was created with, unless somebody took them away since.
SuccessMeansComplete ==
  \A p \in Requests :
    at[p] = "ok" =>
      /\ job[p].op = "client" /\ p \in clients => p \in subscribed
      /\ job[p].op = "staff" /\ p \in Ids(staff) =>
           \A e \in job[p].wanted \cap Ids(events) :
             \/ [user |-> p, event |-> e] \in assignments
             \/ \E q \in Requests :
                  job[q].op = "unassign" /\ at[q] = "ok" /\ job[q].on = p /\ e \in job[q].wanted

\* The chairs of a table are numbered from 1 without a gap, as couples count on,
\* however many requests add chairs to it and wherever one of them fails.
ChairsContiguous == \A t \in Tables : \A i \in chairs[t] : 1 .. i \subseteq chairs[t]

\* The staff, assignments, buildings, rooms and templates that a step writes are
\* those of client c.  Nothing is said of chairs: POST /:eventId/tables/:tableId/chairs
\* looks up the owner of the event and not of the table.
OwnCrewAndVenues(c) ==
  /\ \A s \in (staff \ staff') \cup (staff' \ staff) : s.client = c
  /\ \A a \in (assignments \ assignments') \cup (assignments' \ assignments) :
       \E s \in staff : s.id = a.user /\ s.client = c
  /\ \A a \in assignments' \ assignments : \E e \in events : e.id = a.event /\ e.client = c
  /\ \A r \in (rooms \ rooms') \cup (rooms' \ rooms) :
       \E b \in buildings : b.id = r.building /\ b.client = c
  /\ \A row \in (buildings' \ buildings) \cup (templates' \ templates) : row.client = c

\* What the request of a client adds to or removes from staff, assignments,
\* buildings, rooms and templates is the client's: the owner it has looked up is
\* not somebody else when it writes, some statements later, while rows come and go.
TouchesOwnCrewAndVenues ==
  [][\A p \in Requests :
       at'[p] # at[p] /\ job[p].caller # Super => OwnCrewAndVenues(job[p].caller)]_vars

=============================================================================
