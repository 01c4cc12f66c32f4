----------------------------- MODULE TenancyProofs -----------------------------
(***************************************************************************)
(* What holds of Tenancy for any number of clients, requests and rows.     *)
(*                                                                         *)
(* The rows evolve in few ways: staff, rooms and buildings are inserted    *)
(* once, by the request they are named after, events and tables only go,   *)
(* and what goes takes along all rows of its id.  These facts are proved   *)
(* first, action by action; most of the invariant follows from them.       *)
(***************************************************************************)
EXTENDS Tenancy, TLAPS

\* A request that has written what it was sent for, or given up.
Past == {"subscribe", "assign", "ok", "failed"}

\* One that has not.
Early == {"owner", "events", "write"}

\* The step in which a request inserts the row that is named after it.
Inserts(p, op) == Writes(p, op) /\ at'[p] \in Past

Typed ==
  /\ TypeOK
  /\ job = [p \in Requests |-> job[p]]
  /\ Ids(events) \subseteq Events
  /\ Ids(tables) \subseteq Tables

-----------------------------------------------------------------------------
(* How requests move.                                                      *)

\* The fields of the requests that may be submitted.
LEMMA JobFields ==
  ASSUME Typed, NothingOrphaned, NEW j \in Jobs
  PROVE  /\ j.wanted \in SUBSET Events
         /\ j.count \in 0 .. MaxCount
         /\ j.op = "chairs" => 0 < j.count
         /\ j.op \in {"assign", "unassign", "dismiss"} => j.on \in Ids(staff)
         /\ j.op = "room" => j.on \in Ids(buildings)
         /\ j.op = "deleteRoom" => j.on \in Ids(rooms)
<1> USE DEF Job
<1>1. MaxCount \in Nat
  BY TenancyConstants
<1>2. CASE j \in ClientJobs
  BY <1>1, <1>2 DEF ClientJobs
<1>3. CASE j \in StaffJobs
  BY <1>1, <1>3 DEF StaffJobs, Typed
<1>4. CASE j \in BuildingJobs
  BY <1>1, <1>4 DEF BuildingJobs
<1>5. CASE j \in RoomJobs
  BY <1>1, <1>5 DEF RoomJobs
<1>6. CASE j \in TemplateJobs
  BY <1>1, <1>6 DEF TemplateJobs
<1>7. CASE j \in ChairJobs
  <2>1. PICK c \in Callers, t \in Ids(tables), e \in Ids(events), n \in 1 .. MaxCount :
         j = Job("chairs", c, t, {e}, n)
    BY <1>7 DEF ChairJobs
  <2>2. e \in Events
    BY DEF Typed
  <2> QED
    BY <1>1, <2>1, <2>2
<1> QED
  BY <1>2, <1>3, <1>4, <1>5, <1>6, <1>7 DEF Jobs

\* A request that steps is under way, and nobody else moves.
LEMMA OneMoves ==
  ASSUME Typed, NEW p \in Requests, Step(p)
  PROVE  /\ job' = job
         /\ at[p] \notin {"idle", "ok", "failed"}
         /\ at' \in [Requests -> Stages]
         /\ at'[p] # "idle"
         /\ at[p] \in Past => at'[p] \in Past
         /\ \A q \in Requests \ {p} : at'[q] = at[q] /\ todo'[q] = todo[q] /\ added'[q] = added[q]
<1> DEFINE Moved(stage) == at' = [at EXCEPT ![p] = stage] /\ job' = job
           Others == \A q \in Requests \ {p} : todo'[q] = todo[q] /\ added'[q] = added[q]
<1>1. ASSUME NEW stage \in Stages \ {"idle"}, Moved(stage)
      PROVE  /\ at' \in [Requests -> Stages] /\ at'[p] = stage
             /\ \A q \in Requests \ {p} : at'[q] = at[q]
  BY <1>1 DEF Typed, TypeOK
<1>2. CASE Fail(p)
  <2>1. Moved("failed") /\ Others
    BY <1>2 DEF Fail, Reach
  <2> QED
    BY <1>1, <1>2, <2>1 DEF Fail, Stages, Past
<1>3. CASE CheckOwner(p)
  <2>1. \E stage \in {"events", "write"} : Moved(stage) /\ Others
    BY <1>3 DEF CheckOwner, Reach
  <2> QED
    BY <1>1, <1>3, <2>1 DEF CheckOwner, Stages, Past
<1>4. ASSUME NEW e \in Events, CheckEvent(p, e)
      PROVE  /\ at[p] = "events"
             /\ \E stage \in {"events", "write"} : Moved(stage) /\ Others
  BY <1>4 DEF CheckEvent, Reach, Typed, TypeOK
<1>5. ASSUME NEW e \in Events, InsertAssignment(p, e)
      PROVE  /\ at[p] \in {"assign", "write"}
             /\ \E stage \in {at[p], "ok"} : Moved(stage) /\ Others
  BY <1>5 DEF InsertAssignment, Assigns, Writes, Reach, Typed, TypeOK
<1>6. CASE \E e \in Events : CheckEvent(p, e) \/ InsertAssignment(p, e)
  BY <1>1, <1>4, <1>5, <1>6 DEF Stages, Past
<1>7. CASE Subscribe(p)
  <2>1. at[p] = "subscribe" /\ Moved("ok") /\ Others
    BY <1>7 DEF Subscribe, Reach
  <2> QED
    BY <1>1, <2>1 DEF Stages, Past
<1>8. CASE InsertClient(p) \/ InsertStaff(p) \/ DeleteAssignment(p) \/ DeleteStaff(p)
             \/ InsertBuilding(p) \/ InsertRoom(p) \/ DeleteRoom(p) \/ InsertTemplate(p)
  <2>1. at[p] = "write" /\ \E stage \in {"subscribe", "assign", "ok"} : Moved(stage) /\ Others
    BY <1>8 DEF InsertClient, InsertStaff, DeleteAssignment, DeleteStaff, InsertBuilding,
                InsertRoom, DeleteRoom, InsertTemplate, Writes, Reach
  <2> QED
    BY <1>1, <2>1 DEF Stages, Past
<1>9. CASE InsertChair(p)
  <2>1. at[p] = "write" /\ \E stage \in {"write", "ok"} : Moved(stage) /\ Others
    BY <1>9 DEF InsertChair, Writes, Reach, Typed, TypeOK
  <2> QED
    BY <1>1, <2>1 DEF Stages, Past
<1> QED
  BY <1>2, <1>3, <1>6, <1>7, <1>8, <1>9 DEF Step

-----------------------------------------------------------------------------
(* How rows come and go.                                                   *)

Deletion ==
  \/ \E c \in Clients \cup Requests : DeleteClient(c)
  \/ \E b \in Ids(buildings) : DeleteBuilding(b)
  \/ \E t \in Ids(templates) : DeleteTemplate(t)
  \/ \E e \in Ids(events) : DeleteEvent(e)

\* The rows a step of request p may add.
LEMMA StepRows ==
  ASSUME Typed, NEW p \in Requests, Step(p)
  PROVE  /\ \/ staff' \subseteq staff
            \/ Inserts(p, "staff") /\ staff' = staff \cup {[id |-> p, client |-> Tenant(job[p].caller)]}
         /\ \/ rooms' \subseteq rooms
            \/ Inserts(p, "room") /\ rooms' = rooms \cup {[id |-> p, building |-> job[p].on]}
         /\ \/ buildings' = buildings
            \/ /\ Inserts(p, "building")
               /\ buildings' = buildings \cup {[id |-> p, client |-> Tenant(job[p].caller)]}
         /\ events' = events /\ tables' = tables
<1> DEFINE Goal ==
      /\ \/ staff' \subseteq staff
         \/ Inserts(p, "staff") /\ staff' = staff \cup {[id |-> p, client |-> Tenant(job[p].caller)]}
      /\ \/ rooms' \subseteq rooms
         \/ Inserts(p, "room") /\ rooms' = rooms \cup {[id |-> p, building |-> job[p].on]}
      /\ \/ buildings' = buildings
         \/ /\ Inserts(p, "building")
            /\ buildings' = buildings \cup {[id |-> p, client |-> Tenant(job[p].caller)]}
      /\ events' = events /\ tables' = tables
<1>1. ASSUME UNCHANGED <<staff, rooms, buildings, events, tables>>
      PROVE  Goal
  BY <1>1
<1>2. CASE Fail(p) \/ CheckOwner(p)
  BY <1>1, <1>2 DEF Fail, CheckOwner, rows, crew, venues, layout
<1>3. CASE \E e \in Events : CheckEvent(p, e) \/ InsertAssignment(p, e)
  BY <1>1, <1>3 DEF CheckEvent, InsertAssignment, rows, crew, venues, layout
<1>4. CASE InsertClient(p) \/ Subscribe(p) \/ DeleteAssignment(p) \/ InsertTemplate(p) \/ InsertChair(p)
  BY <1>1, <1>4 DEF InsertClient, Subscribe, DeleteAssignment, InsertTemplate, InsertChair,
                    crew, venues, layout
<1>5. CASE InsertStaff(p)
  <2>1. UNCHANGED <<rooms, buildings, events, tables>> /\ Writes(p, "staff")
    BY <1>5 DEF InsertStaff, venues, layout
  <2>2. at'[p] \in Past
    BY <1>5 DEF InsertStaff, Reach, Typed, TypeOK, Past
  <2>3. staff' = staff \cup {[id |-> p, client |-> Tenant(job[p].caller)]}
    BY <1>5 DEF InsertStaff
  <2> QED
    BY <2>1, <2>2, <2>3 DEF Inserts
<1>6. CASE DeleteStaff(p)
  BY <1>6 DEF DeleteStaff, venues, layout
<1>7. CASE InsertBuilding(p)
  <2>1. UNCHANGED <<staff, rooms, events, tables>> /\ Writes(p, "building")
    BY <1>7 DEF InsertBuilding, crew, layout
  <2>2. at'[p] \in Past
    BY <1>7 DEF InsertBuilding, Reach, Typed, TypeOK, Past
  <2>3. buildings' = buildings \cup {[id |-> p, client |-> Tenant(job[p].caller)]}
    BY <1>7 DEF InsertBuilding
  <2> QED
    BY <2>1, <2>2, <2>3 DEF Inserts
<1>8. CASE InsertRoom(p)
  <2>1. UNCHANGED <<staff, buildings, events, tables>> /\ Writes(p, "room")
    BY <1>8 DEF InsertRoom, crew, layout
  <2>2. at'[p] \in Past
    BY <1>8 DEF InsertRoom, Reach, Typed, TypeOK, Past
  <2>3. rooms' = rooms \cup {[id |-> p, building |-> job[p].on]}
    BY <1>8 DEF InsertRoom
  <2> QED
    BY <2>1, <2>2, <2>3 DEF Inserts
<1>9. CASE DeleteRoom(p)
  BY <1>9 DEF DeleteRoom, crew, layout
<1> QED
  BY <1>2, <1>3, <1>4, <1>5, <1>6, <1>7, <1>8, <1>9 DEF Step

\* A deletion adds nothing; of buildings and events it takes all rows of an id, and
\* a room of a building that goes goes as well.
LEMMA DeletionRows ==
  ASSUME Deletion
  PROVE  /\ UNCHANGED progress
         /\ staff' \subseteq staff /\ rooms' \subseteq rooms
         /\ buildings' \subseteq buildings /\ events' \subseteq events /\ tables' \subseteq tables
         /\ \A b \in buildings : b.id \in Ids(buildings') => b \in buildings'
         /\ \A e \in events : e.id \in Ids(events') => e \in events'
         /\ \A r \in rooms' : \A b \in buildings : b.id = r.building => b \in buildings'
<1>1. CASE \E c \in Clients \cup Requests : DeleteClient(c)
  BY <1>1 DEF DeleteClient, BuildingsGo, EventsGo, Ids
<1>2. CASE \E b \in Ids(buildings) : DeleteBuilding(b)
  BY <1>2 DEF DeleteBuilding, BuildingsGo, progress, crew, layout, Ids
<1>3. CASE \E t \in Ids(templates) : DeleteTemplate(t)
  BY <1>3 DEF DeleteTemplate, progress, crew, venues, layout, Ids
<1>4. CASE \E e \in Ids(events) : DeleteEvent(e)
  BY <1>4 DEF DeleteEvent, EventsGo, progress, venues, Ids
<1> QED
  BY <1>1, <1>2, <1>3, <1>4 DEF Deletion

-----------------------------------------------------------------------------
(* Types, and rows that belong to rows.                                    *)

\* What a request knows about the chairs it is adding.
Counting(p) ==
  /\ at[p] = "idle" => added[p] = 0
  /\ job[p].op = "chairs" /\ at[p] \in Early =>
       /\ added[p] < job[p].count
       /\ job[p].on \in Ids(tables) => 1 .. added[p] \subseteq chairs[job[p].on]

LEMMA InitTyped == Init => Typed /\ NothingOrphaned
<1> SUFFICES ASSUME Init PROVE Typed /\ NothingOrphaned
  OBVIOUS
<1>1. MaxCount \in Nat
  BY TenancyConstants
<1>2. Typed
  BY <1>1, TenancyConstants DEF Init, Typed, TypeOK, Stages, NoJob, Ids
<1>3. NothingOrphaned
  BY TenancyConstants DEF Init, NothingOrphaned
<1> QED
  BY <1>2, <1>3

LEMMA ChairTypes ==
  ASSUME Typed, NEW p \in Requests, Counting(p), InsertChair(p)
  PROVE  /\ chairs' \in [Tables -> SUBSET (1 .. MaxCount)]
         /\ added' \in [Requests -> 0 .. MaxCount]
<1> DEFINE i == added[p] + 1
           t == job[p].on
<1>1. i \in 1 .. MaxCount
  <2>1. added[p] \in Nat /\ job[p].count \in 0 .. MaxCount /\ MaxCount \in Nat
    BY TenancyConstants DEF Typed, TypeOK
  <2>2. added[p] < job[p].count
    BY DEF Counting, InsertChair, Writes, Early
  <2> QED
    BY <2>1, <2>2
<1>2. t \in Tables
  BY DEF InsertChair, Typed
<1>3. chairs' = [chairs EXCEPT ![t] = @ \cup {i}] /\ added' = [added EXCEPT ![p] = i]
  BY DEF InsertChair
<1>4. chairs' \in [Tables -> SUBSET (1 .. MaxCount)]
  BY <1>1, <1>2, <1>3 DEF Typed, TypeOK
<1>5. added' \in [Requests -> 0 .. MaxCount]
  <2>1. i \in 0 .. MaxCount
    BY <1>1, TenancyConstants
  <2> QED
    BY <1>3, <2>1 DEF Typed, TypeOK
<1> QED
  BY <1>4, <1>5

LEMMA StepTypes ==
  ASSUME Typed, NEW p \in Requests, Counting(p), Step(p)
  PROVE  Typed'
<1>1. job' = job /\ at' \in [Requests -> Stages]
  BY OneMoves
<1>2. Ids(events') \subseteq Events /\ Ids(tables') \subseteq Tables
  BY StepRows DEF Typed
<1>3. todo' \in [Requests -> SUBSET Events]
  <2>1. CASE \E e \in Events : CheckEvent(p, e) \/ InsertAssignment(p, e)
    BY <2>1 DEF CheckEvent, InsertAssignment, Typed, TypeOK
  <2>2. CASE UNCHANGED todo
    BY <2>2 DEF Typed, TypeOK
  <2> QED
    BY <2>1, <2>2 DEF Step, Fail, CheckOwner, InsertClient, Subscribe, InsertStaff,
       DeleteAssignment, DeleteStaff, InsertBuilding, InsertRoom, DeleteRoom, InsertTemplate,
       InsertChair
<1>4. chairs' \in [Tables -> SUBSET (1 .. MaxCount)] /\ added' \in [Requests -> 0 .. MaxCount]
  <2>1. CASE InsertChair(p)
    BY <2>1, ChairTypes
  <2>2. CASE UNCHANGED <<chairs, added>>
    BY <2>2 DEF Typed, TypeOK
  <2> QED
    BY <2>1, <2>2 DEF Step, Fail, CheckOwner, CheckEvent, InsertAssignment, InsertClient,
       Subscribe, InsertStaff, DeleteAssignment, DeleteStaff, InsertBuilding, InsertRoom,
       DeleteRoom, InsertTemplate, rows, layout
<1>5. job' = [q \in Requests |-> job'[q]]
  BY <1>1 DEF Typed
<1>6. \A q \in Requests : job'[q].count \in 0 .. MaxCount /\ job'[q].wanted \in SUBSET Events
  BY <1>1 DEF Typed, TypeOK
<1> QED
  BY <1>1, <1>2, <1>3, <1>4, <1>5, <1>6 DEF Typed, TypeOK, Ids

LEMMA SubmitTypes ==
  ASSUME Typed, NothingOrphaned, NEW p \in Requests, NEW j \in Jobs, Submit(p, j)
  PROVE  Typed'
<1>1. j.wanted \in SUBSET Events /\ j.count \in 0 .. MaxCount
  BY JobFields
<1>2. job' = [job EXCEPT ![p] = j] /\ UNCHANGED <<events, tables, chairs, added>>
  BY DEF Submit, rows, layout
<1>3. at' \in [Requests -> Stages]
  BY DEF Submit, FirstStage, Typed, TypeOK, Stages
<1>4. todo' \in [Requests -> SUBSET Events]
  BY <1>1 DEF Submit, Typed, TypeOK
<1>5. job' = [q \in Requests |-> job'[q]]
  BY <1>2 DEF Typed
<1>6. ASSUME NEW q \in Requests
      PROVE  job'[q].count \in 0 .. MaxCount /\ job'[q].wanted \in SUBSET Events
  <2>1. job'[q] = IF q = p THEN j ELSE job[q]
    BY <1>2 DEF Typed
  <2> QED
    BY <1>1, <2>1 DEF Typed, TypeOK
<1> QED
  BY <1>2, <1>3, <1>4, <1>5, <1>6 DEF Typed, TypeOK, Ids

LEMMA DeletionTypes ==
  ASSUME Typed, Deletion
  PROVE  Typed'
<1>1. UNCHANGED progress /\ events' \subseteq events /\ tables' \subseteq tables
  BY DeletionRows
<1>2. chairs' \in [Tables -> SUBSET (1 .. MaxCount)]
  BY DEF Deletion, DeleteClient, DeleteBuilding, DeleteTemplate, DeleteEvent, EventsGo, layout,
         Typed, TypeOK
<1> QED
  BY <1>1, <1>2 DEF Typed, TypeOK, Ids, progress

LEMMA StepOrphansNothing ==
  ASSUME Typed, NothingOrphaned, NEW p \in Requests, Step(p)
  PROVE  NothingOrphaned'
<1>1. ASSUME UNCHANGED rows
      PROVE  NothingOrphaned'
  BY <1>1 DEF rows, accounts, crew, venues, layout, NothingOrphaned
<1>2. CASE Fail(p) \/ CheckOwner(p) \/ \E e \in Events : CheckEvent(p, e)
  BY <1>1, <1>2 DEF Fail, CheckOwner, CheckEvent
<1>3. ASSUME NEW e \in Events, InsertAssignment(p, e)
      PROVE  NothingOrphaned'
  BY <1>3 DEF InsertAssignment, accounts, venues, layout, NothingOrphaned, Ids
<1>4. CASE InsertClient(p) \/ Subscribe(p)
  BY <1>4 DEF InsertClient, Subscribe, crew, venues, layout, NothingOrphaned, Ids
<1>5. CASE InsertStaff(p)
  BY <1>5 DEF InsertStaff, TenantExists, accounts, venues, layout, NothingOrphaned, Ids
<1>6. CASE DeleteAssignment(p)
  BY <1>6 DEF DeleteAssignment, accounts, venues, layout, NothingOrphaned, Ids
<1>7. CASE DeleteStaff(p)
  BY <1>7 DEF DeleteStaff, accounts, venues, layout, NothingOrphaned, Ids
<1>8. CASE InsertBuilding(p)
  BY <1>8 DEF InsertBuilding, TenantExists, accounts, crew, layout, NothingOrphaned, Ids
<1>9. CASE InsertRoom(p)
  BY <1>9 DEF InsertRoom, accounts, crew, layout, NothingOrphaned, Ids
<1>10. CASE DeleteRoom(p)
  BY <1>10 DEF DeleteRoom, InUse, accounts, crew, layout, NothingOrphaned, Ids
<1>11. CASE InsertTemplate(p)
  BY <1>11 DEF InsertTemplate, TenantExists, accounts, crew, venues, layout, NothingOrphaned, Ids
<1>12. CASE InsertChair(p)
  <2>1. UNCHANGED <<accounts, crew, venues, events, tables, templates>>
    BY <1>12 DEF InsertChair
  <2>2. \A t \in Tables : chairs'[t] # {} => t \in Ids(tables)
    BY <1>12 DEF InsertChair, Typed, TypeOK, NothingOrphaned
  <2> QED
    BY <2>1, <2>2 DEF accounts, crew, venues, NothingOrphaned, Ids
<1> QED
  BY <1>2, <1>3, <1>4, <1>5, <1>6, <1>7, <1>8, <1>9, <1>10, <1>11, <1>12 DEF Step

\* The rooms that stay are in buildings that stay, and the rooms that go were not
\* in use.
LEMMA BuildingsGoCleanly ==
  ASSUME NothingOrphaned, NEW bs, BuildingsGo(bs)
  PROVE  /\ \A r \in rooms' : r.building \in Ids(buildings')
         /\ \A e \in events : e.room \in Ids(rooms') \cup {None}
         /\ \A t \in tables : t.room \in Ids(rooms') \cup {None}
<1>1. \A r \in rooms' : r.building \in Ids(buildings')
  BY DEF BuildingsGo, NothingOrphaned, Ids
<1>2. ASSUME NEW r, r \in Ids(rooms), InUse(r)
      PROVE  r \in Ids(rooms')
  BY <1>2 DEF BuildingsGo, Ids
<1> QED
  BY <1>1, <1>2 DEF InUse, NothingOrphaned

\* The tables that stay are of events that stay, and only they have chairs.
LEMMA EventsGoCleanly ==
  ASSUME Typed, NothingOrphaned, NEW es, EventsGo(es)
  PROVE  /\ \A t \in tables' : t.event \in Ids(events')
         /\ \A t \in Tables : chairs'[t] # {} => t \in Ids(tables')
         /\ \A e \in Ids(events) \ es : e \in Ids(events')
         /\ events' \subseteq events /\ tables' \subseteq tables
  BY DEF EventsGo, NothingOrphaned, Ids

LEMMA DeletionOrphansNothing ==
  ASSUME Typed, NothingOrphaned, Deletion
  PROVE  NothingOrphaned'
<1>1. ASSUME NEW c \in Clients \cup Requests, DeleteClient(c)
      PROVE  NothingOrphaned'
  <2>1. BuildingsGo(OwnedBy(c, buildings)) /\ EventsGo(OwnedBy(c, events))
    BY <1>1 DEF DeleteClient
  <2>2. /\ clients' = clients \ {c} /\ subscribed' = subscribed \ {c}
        /\ staff' = {s \in staff : s.client # c}
        /\ templates' = {t \in templates : t.client # c}
        /\ assignments' = {a \in assignments : a.user \notin OwnedBy(c, staff)
                                                 /\ a.event \notin OwnedBy(c, events)}
    BY <1>1 DEF DeleteClient
  <2>3. \A row \in staff' \cup buildings' \cup templates' : row.client \in clients' \cup {None}
    BY <2>1, <2>2 DEF BuildingsGo, OwnedBy, NothingOrphaned
  <2>4. \A e \in events' : e.client \in clients' \cup {None}
    BY <2>1, <2>2 DEF EventsGo, OwnedBy, NothingOrphaned
  <2>5. \A a \in assignments' : a.user \in Ids(staff') /\ a.event \in Ids(events')
    BY <2>1, <2>2, EventsGoCleanly DEF OwnedBy, NothingOrphaned, Ids
  <2> QED
    BY <2>1, <2>2, <2>3, <2>4, <2>5, BuildingsGoCleanly, EventsGoCleanly DEF NothingOrphaned
<1>2. ASSUME NEW b \in Ids(buildings), DeleteBuilding(b)
      PROVE  NothingOrphaned'
  <2>1. BuildingsGo({b}) /\ UNCHANGED <<accounts, crew, layout, templates>>
    BY <1>2 DEF DeleteBuilding
  <2>2. buildings' \subseteq buildings
    BY <2>1 DEF BuildingsGo
  <2> QED
    BY <2>1, <2>2, BuildingsGoCleanly DEF accounts, crew, layout, NothingOrphaned, Ids
<1>3. ASSUME NEW t \in Ids(templates), DeleteTemplate(t)
      PROVE  NothingOrphaned'
  BY <1>3 DEF DeleteTemplate, accounts, crew, venues, layout, NothingOrphaned, Ids
<1>4. ASSUME NEW e \in Ids(events), DeleteEvent(e)
      PROVE  NothingOrphaned'
  <2>1. EventsGo({e}) /\ UNCHANGED <<accounts, staff, venues, templates>>
    BY <1>4 DEF DeleteEvent
  <2>2. assignments' = {a \in assignments : a.event # e}
    BY <1>4 DEF DeleteEvent
  <2>3. /\ \A t \in tables' : t.event \in Ids(events')
        /\ \A t \in Tables : chairs'[t] # {} => t \in Ids(tables')
        /\ \A x \in Ids(events) \ {e} : x \in Ids(events')
        /\ events' \subseteq events /\ tables' \subseteq tables
    BY <2>1, EventsGoCleanly
  <2>4. \A a \in assignments' : a.user \in Ids(staff) /\ a.event \in Ids(events')
    BY <2>2, <2>3 DEF NothingOrphaned
  <2>5. /\ \A x \in events' : x.client \in clients \cup {None} /\ x.room \in Ids(rooms) \cup {None}
        /\ \A t \in tables' : t.room \in Ids(rooms) \cup {None}
    BY <2>3 DEF NothingOrphaned
  <2>6. /\ clients' = clients /\ subscribed' = subscribed /\ staff' = staff
        /\ buildings' = buildings /\ rooms' = rooms /\ templates' = templates
    BY <2>1 DEF accounts, venues
  <2>7. Ids(staff') = Ids(staff) /\ Ids(rooms') = Ids(rooms) /\ Ids(buildings') = Ids(buildings)
    BY <2>6
  <2> QED
    BY <2>3, <2>4, <2>5, <2>6, <2>7 DEF NothingOrphaned
<1> QED
  BY <1>1, <1>2, <1>3, <1>4 DEF Deletion

-----------------------------------------------------------------------------
(* Chairs.                                                                 *)

LEMMA StepEarly ==
  ASSUME Typed, NEW p \in Requests, Step(p)
  PROVE  at'[p] \in Early => at[p] \in Early
BY OneMoves DEF Early, Past, Stages, Typed, TypeOK

LEMMA ChairCounts ==
  ASSUME Typed, \A q \in Requests : Counting(q), ChairsContiguous,
         NEW p \in Requests, InsertChair(p)
  PROVE  (\A q \in Requests : Counting(q))' /\ ChairsContiguous'
<1> DEFINE i == added[p] + 1
           t == job[p].on
<1>1. /\ at[p] = "write" /\ job[p].op = "chairs" /\ t \in Ids(tables) /\ t \in Tables
      /\ chairs' = [chairs EXCEPT ![t] = @ \cup {i}] /\ added' = [added EXCEPT ![p] = i]
      /\ at' = [at EXCEPT ![p] = IF i = job[p].count THEN "ok" ELSE "write"]
      /\ job' = job /\ tables' = tables
  BY DEF InsertChair, Writes, Reach, Typed
<1>2. added[p] \in Nat /\ job[p].count \in Nat
  BY TenancyConstants DEF Typed, TypeOK
<1>3. added[p] < job[p].count /\ 1 .. added[p] \subseteq chairs[t]
  BY <1>1 DEF Counting, Early
<1>4. chairs'[t] = chairs[t] \cup {i} /\ \A u \in Tables \ {t} : chairs'[u] = chairs[u]
  BY <1>1 DEF Typed, TypeOK
<1>5. 1 .. i \subseteq chairs'[t]
  <2>1. 1 .. i = (1 .. added[p]) \cup {i}
    BY <1>2
  <2> QED
    BY <1>3, <1>4, <2>1
<1>6. ASSUME NEW q \in Requests
      PROVE  Counting(q)'
  <2>1. CASE q = p
    <3>1. added'[p] = i /\ at'[p] \in {"ok", "write"} /\ (at'[p] = "write" => i # job[p].count)
      BY <1>1 DEF Typed, TypeOK
    <3>2. at'[p] \in Early => i < job[p].count
      BY <1>2, <1>3, <3>1 DEF Early
    <3> QED
      BY <1>1, <1>5, <2>1, <3>1, <3>2 DEF Counting
  <2>2. CASE q # p
    <3>1. added'[q] = added[q] /\ at'[q] = at[q]
      BY <1>1, <2>2 DEF Typed, TypeOK
    <3>2. ASSUME job[q].on \in Ids(tables)
          PROVE  chairs[job[q].on] \subseteq chairs'[job[q].on]
      BY <1>4, <3>2 DEF Typed
    <3> QED
      BY <1>1, <3>1, <3>2 DEF Counting, Ids
  <2> QED
    BY <2>1, <2>2
<1>7. ASSUME NEW u \in Tables, NEW j \in chairs'[u]
      PROVE  1 .. j \subseteq chairs'[u]
  BY <1>4, <1>5 DEF ChairsContiguous
<1> QED
  BY <1>6, <1>7 DEF ChairsContiguous

LEMMA StepCounts ==
  ASSUME Typed, \A q \in Requests : Counting(q), ChairsContiguous,
         NEW p \in Requests, Step(p)
  PROVE  (\A q \in Requests : Counting(q))' /\ ChairsContiguous'
<1>1. CASE InsertChair(p)
  BY <1>1, ChairCounts
<1>2. CASE UNCHANGED <<chairs, added>>
  <2>1. job' = job /\ at'[p] # "idle" /\ \A q \in Requests \ {p} : at'[q] = at[q]
    BY OneMoves
  <2>2. tables' = tables /\ (at'[p] \in Early => at[p] \in Early)
    BY StepRows, StepEarly
  <2> QED
    BY <1>2, <2>1, <2>2 DEF Counting, ChairsContiguous, Ids
<1>3. InsertChair(p) \/ UNCHANGED <<chairs, added>>
  BY DEF Step, Fail, CheckOwner, CheckEvent, InsertAssignment, InsertClient, Subscribe,
         InsertStaff, DeleteAssignment, DeleteStaff, InsertBuilding, InsertRoom, DeleteRoom,
         InsertTemplate, rows, layout
<1> QED
  BY <1>1, <1>2, <1>3

LEMMA SubmitCounts ==
  ASSUME Typed, NothingOrphaned, \A q \in Requests : Counting(q), ChairsContiguous,
         NEW p \in Requests, NEW j \in Jobs, Submit(p, j)
  PROVE  (\A q \in Requests : Counting(q))' /\ ChairsContiguous'
<1>1. j.op = "chairs" => 0 < j.count
  BY JobFields
<1>2. /\ UNCHANGED <<chairs, tables, added>>
      /\ job'[p] = j /\ at'[p] # "idle" /\ added[p] = 0
      /\ \A q \in Requests \ {p} : job'[q] = job[q] /\ at'[q] = at[q]
  BY DEF Submit, FirstStage, rows, layout, Typed, TypeOK, Counting
<1>3. 1 .. added[p] = {}
  BY <1>2
<1> QED
  BY <1>1, <1>2, <1>3 DEF Counting, ChairsContiguous, Ids

LEMMA DeletionCounts ==
  ASSUME Typed, \A q \in Requests : Counting(q), ChairsContiguous, Deletion
  PROVE  (\A q \in Requests : Counting(q))' /\ ChairsContiguous'
<1>1. UNCHANGED progress /\ tables' \subseteq tables
  BY DeletionRows
<1>2. \/ chairs' = [t \in Tables |-> IF t \in Ids(tables') THEN chairs[t] ELSE {}]
      \/ UNCHANGED <<chairs, tables>>
  BY DEF Deletion, DeleteClient, DeleteBuilding, DeleteTemplate, DeleteEvent, EventsGo, layout
<1>3. \A t \in Tables : chairs'[t] = {} \/ chairs'[t] = chairs[t]
  BY <1>2
<1>4. \A t \in Ids(tables') : chairs'[t] = chairs[t] /\ t \in Ids(tables)
  BY <1>1, <1>2 DEF Typed, Ids
<1>5. ChairsContiguous'
  BY <1>3 DEF ChairsContiguous
<1> QED
  BY <1>1, <1>4, <1>5 DEF Counting, progress

-----------------------------------------------------------------------------
(* Ids.                                                                    *)

OnRow == {"assign", "unassign", "dismiss", "room", "deleteRoom"}

\* An id names one row, and what is named after a request was inserted by it.
Keys ==
  /\ \A r, s \in staff : r.id = s.id => r = s
  /\ \A r, s \in rooms : r.id = s.id => r = s
  /\ \A row \in staff \cup rooms \cup buildings : row.id \in Requests => at[row.id] \in Past

\* A request is about a row that has been inserted already.
Known(p) ==
  at[p] # "idle" /\ job[p].op \in OnRow /\ job[p].on \in Requests => at[job[p].on] \in Past

LEMMA InitKeys == Init => Keys
BY TenancyConstants DEF Init, Keys, Ids

LEMMA PastStays ==
  ASSUME Typed, NEW p \in Requests, Step(p), NEW q \in Requests, at[q] \in Past
  PROVE  at'[q] \in Past
BY OneMoves

LEMMA StepKeys ==
  ASSUME Typed, Keys, NEW p \in Requests, Step(p)
  PROVE  Keys'
<1>1. at[p] = "write" => \A row \in staff \cup rooms \cup buildings : row.id # p
  BY DEF Keys, Past
<1>2. \A r, s \in staff' : r.id = s.id => r = s
  BY <1>1, StepRows DEF Keys, Inserts, Writes
<1>3. \A r, s \in rooms' : r.id = s.id => r = s
  BY <1>1, StepRows DEF Keys, Inserts, Writes
<1>4. \A row \in (staff \cup rooms \cup buildings)' : row.id \in Requests => at'[row.id] \in Past
  <2> SUFFICES ASSUME NEW row \in (staff \cup rooms \cup buildings)', row.id \in Requests
               PROVE  at'[row.id] \in Past
    OBVIOUS
  <2>1. row \in staff \cup rooms \cup buildings \/ (row.id = p /\ at'[p] \in Past)
    BY StepRows DEF Inserts
  <2> QED
    BY <2>1, PastStays DEF Keys
<1> QED
  BY <1>2, <1>3, <1>4 DEF Keys

LEMMA StepKnown ==
  ASSUME Typed, \A q \in Requests : Known(q), NEW p \in Requests, Step(p)
  PROVE  (\A q \in Requests : Known(q))'
<1>1. job' = job /\ at[p] # "idle" /\ \A q \in Requests \ {p} : at'[q] = at[q]
  BY OneMoves
<1> QED
  BY <1>1, PastStays DEF Known

LEMMA SubmitKnown ==
  ASSUME Typed, NothingOrphaned, Keys, \A q \in Requests : Known(q),
         NEW p \in Requests, NEW j \in Jobs, Submit(p, j)
  PROVE  Keys' /\ (\A q \in Requests : Known(q))'
<1>1. /\ UNCHANGED <<staff, rooms, buildings>>
      /\ job'[p] = j
      /\ \A q \in Requests \ {p} : job'[q] = job[q] /\ at'[q] = at[q]
      /\ at[p] \notin Past
  BY DEF Submit, rows, crew, venues, Typed, TypeOK, Past
<1>2. j.op \in OnRow => j.on \in Ids(staff) \cup Ids(buildings) \cup Ids(rooms)
  BY JobFields DEF OnRow
<1>3. j.op \in OnRow /\ j.on \in Requests => at[j.on] \in Past
  BY <1>2 DEF Keys, Ids
<1>4. \A q \in Requests : at[q] \in Past => at'[q] \in Past
  BY <1>1
<1>5. ASSUME NEW q \in Requests, at'[q] # "idle", job'[q].op \in OnRow, job'[q].on \in Requests
      PROVE  at'[job'[q].on] \in Past
  BY <1>1, <1>3, <1>4, <1>5 DEF Known
<1> QED
  BY <1>1, <1>4, <1>5 DEF Keys, Known

LEMMA DeletionKeys ==
  ASSUME Keys, Deletion
  PROVE  Keys'
BY DeletionRows DEF Keys, progress

-----------------------------------------------------------------------------
(* What a request remembers of its checks.                                 *)

\* The events still to be dealt with are some of those that were asked for.
Planned(p) ==
  /\ todo[p] \subseteq job[p].wanted
  /\ at[p] = "assign" => job[p].op = "staff"
  /\ at[p] = "subscribe" => job[p].op = "client"
  /\ at[p] = "owner" => job[p].op \in OnRow /\ todo[p] = job[p].wanted
  /\ job[p].op = "staff" /\ at[p] = "write" => todo[p] = job[p].wanted

\* The row a client's request is about is the client's, if it is still there.
OwnRow(p) ==
  job[p].caller # Super /\ at[p] \in {"events", "write"} =>
    /\ job[p].op \in {"assign", "unassign", "dismiss"} =>
         \A s \in staff : s.id = job[p].on => s.client = job[p].caller
    /\ job[p].op = "room" /\ job[p].on \in Ids(buildings) =>
         \E b \in buildings : b.id = job[p].on /\ b.client = job[p].caller
    /\ job[p].op = "deleteRoom" =>
         \A r \in rooms : r.id = job[p].on =>
           \E b \in buildings : b.id = r.building /\ b.client = job[p].caller

\* So are the events that were looked up, and the account that was created.
Seen(p) == job[p].wanted \ (IF at[p] = "events" THEN todo[p] ELSE {})

OwnEvents(p) ==
  job[p].caller # Super /\ at[p] \in {"events", "write", "assign"}
      /\ job[p].op \in {"staff", "assign"} =>
    \A e \in Seen(p) \cap Ids(events) :
      \E row \in events : row.id = e /\ row.client = job[p].caller

OwnStaff(p) ==
  at[p] = "assign" => \A s \in staff : s.id = p => s.client = Tenant(job[p].caller)

Rights(p) == Planned(p) /\ OwnRow(p) /\ OwnEvents(p) /\ OwnStaff(p)

LEMMA StepPlanned ==
  ASSUME Typed, \A q \in Requests : Planned(q), NEW p \in Requests, Step(p)
  PROVE  (\A q \in Requests : Planned(q))'
<1>1. job' = job /\ \A q \in Requests \ {p} : at'[q] = at[q] /\ todo'[q] = todo[q]
  BY OneMoves
<1>2. SUFFICES Planned(p)'
  BY <1>1 DEF Planned
<1>3. ASSUME NEW e \in Events, CheckEvent(p, e)
      PROVE  Planned(p)'
  BY <1>3 DEF CheckEvent, Reach, Planned, Typed, TypeOK
<1>4. ASSUME NEW e \in Events, InsertAssignment(p, e)
      PROVE  Planned(p)'
  BY <1>4 DEF InsertAssignment, Assigns, Writes, Assignee, Reach, Planned, Typed, TypeOK
<1>5. CASE Fail(p) \/ CheckOwner(p)
  BY <1>5, <1>1 DEF Fail, CheckOwner, Reach, Planned, Typed, TypeOK, OnRow
<1>6. CASE InsertClient(p) \/ Subscribe(p) \/ InsertStaff(p) \/ DeleteAssignment(p)
             \/ DeleteStaff(p) \/ InsertBuilding(p) \/ InsertRoom(p) \/ DeleteRoom(p)
             \/ InsertTemplate(p) \/ InsertChair(p)
  <2>1. /\ todo' = todo
        /\ at'[p] = "assign" => job[p].op = "staff"
        /\ at'[p] = "subscribe" => job[p].op = "client"
        /\ at'[p] # "owner" /\ (at'[p] = "write" => at[p] = "write")
    BY <1>6 DEF InsertClient, Subscribe, InsertStaff, DeleteAssignment, DeleteStaff,
                InsertBuilding, InsertRoom, DeleteRoom, InsertTemplate, InsertChair, Writes,
                Reach, Typed, TypeOK
  <2> QED
    BY <1>1, <2>1 DEF Planned
<1> QED
  BY <1>3, <1>4, <1>5, <1>6 DEF Step

LEMMA StepOwnStaff ==
  ASSUME Typed, Keys, \A q \in Requests : Planned(q) /\ OwnStaff(q), NEW p \in Requests, Step(p)
  PROVE  (\A q \in Requests : OwnStaff(q))'
<1>1. job' = job /\ \A q \in Requests \ {p} : at'[q] = at[q]
  BY OneMoves
<1>2. \A q \in Requests \ {p} : \A s \in staff' : s.id = q => s \in staff
  BY StepRows
<1>3. ASSUME at'[p] = "assign", NEW s \in staff', s.id = p
      PROVE  s.client = Tenant(job[p].caller)
  <2>1. CASE s \notin staff
    BY <1>3, <2>1, StepRows
  <2>2. CASE s \in staff
    <3>1. at[p] \in Past
      BY <1>3, <2>2 DEF Keys
    <3>2. at[p] = "assign"
      BY <1>3, <3>1 DEF Step, Fail, CheckOwner, CheckEvent, InsertAssignment, InsertClient,
         Subscribe, InsertStaff, DeleteAssignment, DeleteStaff, InsertBuilding, InsertRoom,
         DeleteRoom, InsertTemplate, InsertChair, Writes, Reach, Past, Typed, TypeOK
    <3> QED
      BY <1>3, <2>2, <3>2 DEF OwnStaff
  <2> QED
    BY <2>1, <2>2
<1> QED
  BY <1>1, <1>2, <1>3 DEF OwnStaff

\* What was inserted meanwhile is not what a request is about.
LEMMA RowKept ==
  ASSUME Typed, Keys, \A q \in Requests : Known(q), NEW p \in Requests, Step(p),
         NEW q \in Requests, OwnRow(q), at[q] \in {"events", "write"}
  PROVE  job[q].caller # Super =>
    /\ job[q].op \in {"assign", "unassign", "dismiss"} =>
         \A s \in staff' : s.id = job[q].on => s.client = job[q].caller
    /\ job[q].op = "room" /\ job[q].on \in Ids(buildings') =>
         \E b \in buildings' : b.id = job[q].on /\ b.client = job[q].caller
    /\ job[q].op = "deleteRoom" =>
         \A r \in rooms' : r.id = job[q].on =>
           \E b \in buildings' : b.id = r.building /\ b.client = job[q].caller
<1> SUFFICES ASSUME job[q].caller # Super
             PROVE  /\ job[q].op \in {"assign", "unassign", "dismiss"} =>
                         \A s \in staff' : s.id = job[q].on => s.client = job[q].caller
                    /\ job[q].op = "room" /\ job[q].on \in Ids(buildings') =>
                         \E b \in buildings' : b.id = job[q].on /\ b.client = job[q].caller
                    /\ job[q].op = "deleteRoom" =>
                         \A r \in rooms' : r.id = job[q].on =>
                           \E b \in buildings' : b.id = r.building /\ b.client = job[q].caller
  OBVIOUS
<1>1. job[q].op \in OnRow /\ job[q].on = p => at[p] # "write"
  BY DEF Known, Past
<1>2. job[q].op \in OnRow => \A s \in staff' : s.id = job[q].on => s \in staff
  BY <1>1, StepRows DEF Inserts, Writes
<1>3. job[q].op \in OnRow => \A r \in rooms' : r.id = job[q].on => r \in rooms
  BY <1>1, StepRows DEF Inserts, Writes
<1>4. job[q].op \in OnRow => \A b \in buildings' : b.id = job[q].on => b \in buildings
  BY <1>1, StepRows DEF Inserts, Writes
<1>5. buildings \subseteq buildings'
  BY StepRows
<1> QED
  BY <1>2, <1>3, <1>4, <1>5 DEF OwnRow, OnRow, Ids

LEMMA StepOwnRow ==
  ASSUME Typed, Keys, \A q \in Requests : Known(q) /\ OwnRow(q), NEW p \in Requests, Step(p)
  PROVE  (\A q \in Requests : OwnRow(q))'
<1>1. job' = job /\ \A q \in Requests \ {p} : at'[q] = at[q]
  BY OneMoves
<1>2. ASSUME NEW q \in Requests, at[q] \in {"events", "write"}
      PROVE  OwnRow(q)'
  BY <1>1, <1>2, RowKept DEF OwnRow, Ids
<1>3. ASSUME at[p] = "owner"
      PROVE  OwnRow(p)'
  <2>1. CASE Fail(p)
    BY <2>1 DEF Fail, Reach, OwnRow, Typed, TypeOK
  <2>2. CASE CheckOwner(p)
    <3>1. UNCHANGED <<staff, rooms, buildings>>
      BY <2>2 DEF CheckOwner, rows, crew, venues
    <3>2. job[p].op = "deleteRoom" =>
            \A r \in rooms : r.id = job[p].on =>
              \E b \in buildings : b.id = r.building /\ b.client = job[p].caller
      BY <2>2 DEF CheckOwner, Keys
    <3>3. job[p].op = "room" =>
            \E b \in buildings : b.id = job[p].on /\ b.client = job[p].caller
      BY <2>2 DEF CheckOwner
    <3>4. job[p].op \in {"assign", "unassign", "dismiss"} =>
            \A s \in staff : s.id = job[p].on => s.client = job[p].caller
      BY <2>2 DEF CheckOwner, Keys
    <3> QED
      BY <1>1, <3>1, <3>2, <3>3, <3>4 DEF OwnRow
  <2>3. Fail(p) \/ CheckOwner(p)
    BY <1>3 DEF Step, CheckEvent, InsertAssignment, Assigns, InsertClient, Subscribe, InsertStaff,
       DeleteAssignment, DeleteStaff, InsertBuilding, InsertRoom, DeleteRoom, InsertTemplate,
       InsertChair, Writes
  <2> QED
    BY <2>1, <2>2, <2>3
<1>4. at'[p] \in {"events", "write"} => at[p] \in {"owner", "events", "write"}
  BY StepEarly DEF Early
<1>5. OwnRow(p)'
  BY <1>2, <1>3, <1>4 DEF OwnRow
<1>6. ASSUME NEW q \in Requests \ {p}
      PROVE  OwnRow(q)'
  BY <1>1, <1>2 DEF OwnRow
<1> QED
  BY <1>5, <1>6

LEMMA StepOwnEvents ==
  ASSUME Typed, \A q \in Requests : Planned(q) /\ OwnEvents(q), NEW p \in Requests, Step(p)
  PROVE  (\A q \in Requests : OwnEvents(q))'
<1>1. job' = job /\ \A q \in Requests \ {p} : at'[q] = at[q] /\ todo'[q] = todo[q]
  BY OneMoves
<1>2. events' = events /\ Ids(events') = Ids(events)
  BY StepRows
<1>3. ASSUME Seen(p)' \subseteq Seen(p), at'[p] \in {"events", "write", "assign"} =>
               at[p] \in {"events", "write", "assign"}
      PROVE  OwnEvents(p)'
  BY <1>1, <1>2, <1>3 DEF OwnEvents
<1>4. ASSUME NEW e \in Events, CheckEvent(p, e)
      PROVE  OwnEvents(p)'
  <2>1. Seen(p)' \subseteq Seen(p) \cup {e}
    BY <1>1, <1>4 DEF CheckEvent, Reach, Seen, Typed, TypeOK
  <2>2. job[p].caller # Super => \E row \in events : row.id = e /\ row.client = job[p].caller
    BY <1>4 DEF CheckEvent, Sees
  <2>3. at[p] = "events"
    BY <1>4 DEF CheckEvent
  <2> QED
    BY <1>1, <1>2, <2>1, <2>2, <2>3 DEF OwnEvents
<1>5. ASSUME CheckOwner(p)
      PROVE  OwnEvents(p)'
  <2>1. todo' = todo /\ at[p] = "owner"
    BY <1>5 DEF CheckOwner
  <2>2. job[p].op \in {"staff", "assign"} => job[p].op = "assign" /\ at'[p] = "events"
    BY <1>5, <2>1 DEF CheckOwner, Reach, Planned, OnRow, Typed, TypeOK
  <2>3. job[p].op \in {"staff", "assign"} => Seen(p)' = {}
    BY <1>1, <2>1, <2>2 DEF Seen, Planned
  <2> QED
    BY <1>1, <2>3 DEF OwnEvents
<1>6. ASSUME Fail(p)
      PROVE  OwnEvents(p)'
  BY <1>6 DEF Fail, Reach, OwnEvents, Typed, TypeOK
<1>7. ASSUME at[p] \in {"write", "subscribe", "assign"}, at'[p] # "events"
      PROVE  OwnEvents(p)'
  <2>1. Seen(p)' \subseteq Seen(p)
    BY <1>1, <1>7 DEF Seen
  <2>2. at'[p] = "write" \/ at'[p] = "assign" => at[p] # "subscribe"
    BY <1>7 DEF Step, Fail, CheckOwner, CheckEvent, InsertAssignment, Assigns, InsertClient,
       Subscribe, InsertStaff, DeleteAssignment, DeleteStaff, InsertBuilding, InsertRoom,
       DeleteRoom, InsertTemplate, InsertChair, Writes, Reach, Typed, TypeOK
  <2> QED
    BY <1>3, <1>7, <2>1, <2>2
<1>8. \/ Fail(p) \/ CheckOwner(p) \/ \E e \in Events : CheckEvent(p, e)
      \/ at[p] \in {"write", "subscribe", "assign"} /\ at'[p] # "events"
  BY DEF Step, InsertAssignment, Assigns, InsertClient, Subscribe, InsertStaff, DeleteAssignment,
     DeleteStaff, InsertBuilding, InsertRoom, DeleteRoom, InsertTemplate, InsertChair, Writes,
     Reach, Typed, TypeOK
<1>9. OwnEvents(p)'
  BY <1>4, <1>5, <1>6, <1>7, <1>8
<1>10. ASSUME NEW q \in Requests \ {p}
       PROVE  OwnEvents(q)'
  BY <1>1, <1>2 DEF OwnEvents, Seen
<1> QED
  BY <1>9, <1>10

LEMMA StepRights ==
  ASSUME Typed, Keys, \A q \in Requests : Known(q) /\ Rights(q), NEW p \in Requests, Step(p)
  PROVE  (\A q \in Requests : Rights(q))'
BY StepPlanned, StepOwnRow, StepOwnEvents, StepOwnStaff DEF Rights

LEMMA SubmitRights ==
  ASSUME Typed, \A q \in Requests : Rights(q), NEW p \in Requests, NEW j \in Jobs, Submit(p, j)
  PROVE  (\A q \in Requests : Rights(q))'
<1>1. /\ UNCHANGED <<staff, rooms, buildings, events>>
      /\ job'[p] = j /\ at'[p] = FirstStage(j) /\ todo'[p] = j.wanted
      /\ \A q \in Requests \ {p} : job'[q] = job[q] /\ at'[q] = at[q] /\ todo'[q] = todo[q]
  BY DEF Submit, rows, crew, venues, layout, Typed, TypeOK
<1>2. ASSUME NEW q \in Requests \ {p}
      PROVE  Rights(q)'
  BY <1>1, <1>2 DEF Rights, Planned, OwnRow, OwnEvents, OwnStaff, Seen, Ids
<1>3. Planned(p)'
  BY <1>1 DEF Planned, FirstStage, OnRow
<1>4. OwnRow(p)'
  BY <1>1 DEF OwnRow, FirstStage
<1>5. OwnStaff(p)'
  BY <1>1 DEF OwnStaff, FirstStage
<1>6. ASSUME j.caller # Super, j.op \in {"staff", "assign"}, at'[p] # "owner"
      PROVE  Seen(p)' = {}
  BY <1>1, <1>6 DEF Seen, FirstStage
<1>7. OwnEvents(p)'
  BY <1>1, <1>6 DEF OwnEvents, FirstStage
<1> QED
  BY <1>2, <1>3, <1>4, <1>5, <1>7 DEF Rights

LEMMA DeletionRights ==
  ASSUME \A q \in Requests : Rights(q), Deletion
  PROVE  (\A q \in Requests : Rights(q))'
<1> SUFFICES ASSUME NEW q \in Requests
             PROVE  Rights(q)'
  OBVIOUS
<1>1. UNCHANGED progress
  BY DeletionRows
<1>2. Planned(q)' /\ OwnStaff(q)'
  BY <1>1, DeletionRows DEF Rights, Planned, OwnStaff, progress
<1>3. OwnRow(q)'
  BY <1>1, DeletionRows DEF Rights, OwnRow, Ids, progress
<1>4. OwnEvents(q)'
  BY <1>1, DeletionRows DEF Rights, OwnEvents, Seen, Ids, progress
<1> QED
  BY <1>2, <1>3, <1>4 DEF Rights

-----------------------------------------------------------------------------
(* Creations in several statements.                                        *)

TakenAway(p, e) ==
  \E q \in Requests :
    job[q].op = "unassign" /\ at[q] = "ok" /\ job[q].on = p /\ e \in job[q].wanted

Assigned(p, e) == [user |-> p, event |-> e] \in assignments \/ TakenAway(p, e)

\* The events a new account has been given so far.
Given(p) == job[p].wanted \ (IF at[p] = "assign" THEN todo[p] ELSE {})

Complete(p) ==
  /\ job[p].op = "client" /\ at[p] = "ok" /\ p \in clients => p \in subscribed
  /\ job[p].op = "staff" /\ at[p] \in {"assign", "ok"} /\ p \in Ids(staff) =>
       \A e \in Given(p) \cap Ids(events) : Assigned(p, e)

LEMMA AssignedStays ==
  ASSUME Typed, NEW p \in Requests, Step(p), NEW q \in Requests, q \in Ids(staff'),
         NEW e, Assigned(q, e)
  PROVE  Assigned(q, e)'
<1>1. job' = job /\ at[p] # "ok" /\ \A r \in Requests \ {p} : at'[r] = at[r]
  BY OneMoves
<1>2. TakenAway(q, e) => TakenAway(q, e)'
  BY <1>1 DEF TakenAway
<1>3. ASSUME [user |-> q, event |-> e] \in assignments, DeleteAssignment(p)
      PROVE  Assigned(q, e)'
  <2>1. CASE job[p].on = q /\ e \in job[p].wanted
    <3>1. job[p].op = "unassign" /\ at'[p] = "ok"
      BY <1>3 DEF DeleteAssignment, Writes, Reach, Typed, TypeOK
    <3> QED
      BY <1>1, <2>1, <3>1 DEF Assigned, TakenAway
  <2>2. CASE ~ (job[p].on = q /\ e \in job[p].wanted)
    BY <1>3, <2>2 DEF DeleteAssignment, Assigned
  <2> QED
    BY <2>1, <2>2
<1>4. ASSUME [user |-> q, event |-> e] \in assignments, DeleteStaff(p)
      PROVE  Assigned(q, e)'
  <2>1. job[p].on # q
    BY <1>4 DEF DeleteStaff, Ids
  <2> QED
    BY <1>4, <2>1 DEF DeleteStaff, Assigned
<1>5. ASSUME ~ DeleteAssignment(p), ~ DeleteStaff(p)
      PROVE  assignments \subseteq assignments'
  BY <1>5 DEF Step, Fail, CheckOwner, CheckEvent, InsertAssignment, InsertClient, Subscribe,
     InsertStaff, InsertBuilding, InsertRoom, DeleteRoom, InsertTemplate, InsertChair, rows, crew
<1> QED
  BY <1>2, <1>3, <1>4, <1>5 DEF Assigned

LEMMA StepCompleteOwn ==
  ASSUME Typed, Keys, NEW p \in Requests, Planned(p), Complete(p), Step(p)
  PROVE  Complete(p)'
<1>1. job' = job
  BY OneMoves
<1>2. Ids(events') = Ids(events)
  BY StepRows
<1>3. ASSUME job[p].op = "client", at'[p] = "ok"
      PROVE  p \in clients' => p \in subscribed'
  <2>1. CASE Subscribe(p)
    BY <2>1 DEF Subscribe
  <2>2. ~ Subscribe(p) => FALSE
    BY <1>3 DEF Step, Fail, CheckOwner, CheckEvent, InsertAssignment, Assigns, InsertClient,
       InsertStaff, DeleteAssignment, DeleteStaff, InsertBuilding, InsertRoom, DeleteRoom,
       InsertTemplate, InsertChair, Writes, Reach, Planned, Typed, TypeOK
  <2> QED
    BY <2>1, <2>2
<1>4. ASSUME job[p].op = "staff", at'[p] \in {"assign", "ok"}, p \in Ids(staff'),
             NEW e \in Given(p)' \cap Ids(events')
      PROVE  Assigned(p, e)'
  <2>1. CASE InsertStaff(p)
    <3>1. todo' = todo /\ todo[p] = job[p].wanted
      BY <1>4, <2>1 DEF InsertStaff, Writes, Planned
    <3>2. at'[p] = "assign" \/ job[p].wanted = {}
      BY <2>1 DEF InsertStaff, Reach, Typed, TypeOK
    <3> QED
      BY <1>1, <1>4, <3>1, <3>2 DEF Given
  <2>2. ASSUME NEW d \in Events, InsertAssignment(p, d)
        PROVE  Assigned(p, e)'
    <3>1. at[p] = "assign" /\ Assignee(p) = p
      BY <1>4, <2>2 DEF InsertAssignment, Assigns, Writes, Assignee
    <3>2. e = d \/ e \in Given(p)
      <4>1. todo'[p] = todo[p] \ {d} /\ at'[p] = IF todo[p] = {d} THEN "ok" ELSE "assign"
        BY <2>2, <3>1 DEF InsertAssignment, Reach, Typed, TypeOK
      <4>2. e \in job[p].wanted /\ (at'[p] = "assign" => e \notin todo'[p])
        BY <1>1, <1>4 DEF Given
      <4>3. e = d \/ e \notin todo[p]
        BY <4>1, <4>2
      <4> QED
        BY <3>1, <4>2, <4>3 DEF Given
    <3>3. CASE e = d
      BY <2>2, <3>1, <3>3 DEF InsertAssignment, Assigned
    <3>4. CASE e \in Given(p)
      <4>1. p \in Ids(staff)
        BY <2>2, <3>1 DEF InsertAssignment
      <4> QED
        BY <1>2, <1>4, <3>1, <3>4, <4>1, AssignedStays DEF Complete
    <3> QED
      BY <3>2, <3>3, <3>4
  <2>3. InsertStaff(p) \/ \E d \in Events : InsertAssignment(p, d)
    BY <1>4 DEF Step, Fail, CheckOwner, CheckEvent, InsertClient, Subscribe, DeleteAssignment,
       DeleteStaff, InsertBuilding, InsertRoom, DeleteRoom, InsertTemplate, InsertChair, Writes,
       Reach, Planned, Typed, TypeOK
  <2> QED
    BY <2>1, <2>2, <2>3
<1> QED
  BY <1>1, <1>3, <1>4 DEF Complete

LEMMA StepComplete ==
  ASSUME Typed, Keys, \A q \in Requests : Planned(q) /\ Complete(q), NEW p \in Requests, Step(p)
  PROVE  (\A q \in Requests : Complete(q))'
<1>1. job' = job /\ \A q \in Requests \ {p} : at'[q] = at[q] /\ todo'[q] = todo[q]
  BY OneMoves
<1>2. Complete(p)'
  BY StepCompleteOwn
<1>3. ASSUME NEW q \in Requests \ {p}
      PROVE  Complete(q)'
  <2>1. (q \in clients' => q \in clients) /\ subscribed \subseteq subscribed'
    BY DEF Step, Fail, CheckOwner, CheckEvent, InsertAssignment, InsertClient, Subscribe,
       InsertStaff, DeleteAssignment, DeleteStaff, InsertBuilding, InsertRoom, DeleteRoom,
       InsertTemplate, InsertChair, rows, accounts
  <2>2. q \in Ids(staff') => q \in Ids(staff)
    BY StepRows DEF Ids
  <2>3. Given(q)' = Given(q) /\ Ids(events') = Ids(events)
    BY <1>1, StepRows DEF Given
  <2> QED
    BY <1>1, <2>1, <2>2, <2>3, AssignedStays DEF Complete
<1> QED
  BY <1>2, <1>3

LEMMA SubmitComplete ==
  ASSUME Typed, \A q \in Requests : Complete(q), NEW p \in Requests, NEW j \in Jobs, Submit(p, j)
  PROVE  (\A q \in Requests : Complete(q))'
<1>1. /\ UNCHANGED <<clients, subscribed, staff, assignments, events>>
      /\ at[p] = "idle" /\ at'[p] = FirstStage(j)
      /\ \A q \in Requests \ {p} : job'[q] = job[q] /\ at'[q] = at[q] /\ todo'[q] = todo[q]
  BY DEF Submit, rows, accounts, crew, layout, Typed, TypeOK
<1>2. at'[p] \notin {"assign", "ok"}
  BY <1>1 DEF FirstStage
<1>3. \A q \in Requests : \A e : Assigned(q, e) => Assigned(q, e)'
  BY <1>1 DEF Assigned, TakenAway
<1> QED
  BY <1>1, <1>2, <1>3 DEF Complete, Given, Ids

LEMMA DeletionComplete ==
  ASSUME Typed, Keys, \A q \in Requests : Complete(q), Deletion
  PROVE  (\A q \in Requests : Complete(q))'
<1>1. UNCHANGED progress /\ staff' \subseteq staff /\ events' \subseteq events
  BY DeletionRows
<1>2. ASSUME NEW q \in Requests, NEW e, q \in Ids(staff'), e \in Ids(events'), Assigned(q, e)
      PROVE  Assigned(q, e)'
  <2>1. TakenAway(q, e) => TakenAway(q, e)'
    BY <1>1 DEF TakenAway, progress
  <2>2. ASSUME NEW c \in Clients \cup Requests, DeleteClient(c)
        PROVE  q \notin OwnedBy(c, staff) /\ e \notin OwnedBy(c, events)
    BY <1>2, <2>2 DEF DeleteClient, EventsGo, OwnedBy, Ids, Keys
  <2>3. ASSUME NEW d \in Ids(events), DeleteEvent(d)
        PROVE  e # d
    BY <1>2, <2>3 DEF DeleteEvent, EventsGo, Ids
  <2>4. [user |-> q, event |-> e] \in assignments => [user |-> q, event |-> e] \in assignments'
    BY <2>2, <2>3 DEF Deletion, DeleteClient, DeleteBuilding, DeleteTemplate, DeleteEvent, crew
  <2> QED
    BY <1>2, <2>1, <2>4 DEF Assigned
<1>3. \A q \in Requests : (q \in clients => q \in subscribed) => (q \in clients' => q \in subscribed')
  BY DEF Deletion, DeleteClient, DeleteBuilding, DeleteTemplate, DeleteEvent, accounts
<1>4. \A q \in Requests : q \in clients' => q \in clients
  BY DEF Deletion, DeleteClient, DeleteBuilding, DeleteTemplate, DeleteEvent, accounts
<1> QED
  BY <1>1, <1>2, <1>3, <1>4 DEF Complete, Given, Ids, progress

-----------------------------------------------------------------------------
(* The crew and the venues of other clients.                               *)

LEMMA StepsInOwnCrewAndVenues ==
  ASSUME Typed, NothingOrphaned, Keys, NEW p \in Requests, Rights(p), Step(p),
         job[p].caller # Super
  PROVE  OwnCrewAndVenues(job[p].caller)
<1> DEFINE c == job[p].caller
<1>1. Tenant(c) = c
  BY DEF Tenant
<1>2. ASSUME UNCHANGED <<staff, assignments, rooms, buildings, templates>>
      PROVE  OwnCrewAndVenues(c)
  BY <1>2 DEF OwnCrewAndVenues
<1>3. CASE Fail(p) \/ CheckOwner(p) \/ (\E e \in Events : CheckEvent(p, e))
             \/ InsertClient(p) \/ Subscribe(p) \/ InsertChair(p)
  BY <1>2, <1>3 DEF Fail, CheckOwner, CheckEvent, InsertClient, Subscribe, InsertChair, rows,
                    crew, venues
<1>4. CASE InsertStaff(p)
  BY <1>1, <1>4 DEF InsertStaff, venues, OwnCrewAndVenues
<1>5. ASSUME NEW e \in Events, InsertAssignment(p, e)
      PROVE  OwnCrewAndVenues(c)
  <2>1. /\ Assigns(p) /\ e \in todo[p] /\ Assignee(p) \in Ids(staff) /\ e \in Ids(events)
        /\ assignments' = assignments \cup {[user |-> Assignee(p), event |-> e]}
        /\ UNCHANGED <<staff, venues, events, templates>>
    BY <1>5 DEF InsertAssignment, layout
  <2>2. \E s \in staff : s.id = Assignee(p) /\ s.client = c
    <3>1. CASE at[p] = "assign"
      BY <1>1, <2>1, <3>1 DEF Rights, Planned, OwnStaff, Assignee, Ids
    <3>2. CASE Writes(p, "assign")
      BY <2>1, <3>2 DEF Rights, OwnRow, Assignee, Writes, Ids
    <3> QED
      BY <2>1, <3>1, <3>2 DEF Assigns
  <2>3. \E row \in events : row.id = e /\ row.client = c
    <3>1. e \in Seen(p) /\ at[p] \in {"write", "assign"} /\ job[p].op \in {"staff", "assign"}
      BY <2>1 DEF Rights, Planned, Seen, Assigns, Writes
    <3> QED
      BY <2>1, <3>1 DEF Rights, OwnEvents
  <2> QED
    BY <2>1, <2>2, <2>3 DEF OwnCrewAndVenues, venues
<1>6. CASE DeleteAssignment(p)
  <2>1. /\ at[p] = "write" /\ job[p].op = "unassign"
        /\ assignments' = {a \in assignments : ~ (a.user = job[p].on /\ a.event \in job[p].wanted)}
        /\ UNCHANGED <<staff, venues, templates>>
    BY <1>6 DEF DeleteAssignment, Writes
  <2>2. \A s \in staff : s.id = job[p].on => s.client = c
    BY <2>1 DEF Rights, OwnRow
  <2>3. \A a \in assignments \ assignments' : \E s \in staff : s.id = a.user /\ s.client = c
    BY <2>1, <2>2 DEF NothingOrphaned, Ids
  <2> QED
    BY <2>1, <2>3 DEF OwnCrewAndVenues, venues
<1>7. CASE DeleteStaff(p)
  <2>1. /\ at[p] = "write" /\ job[p].op = "dismiss"
        /\ staff' = {s \in staff : s.id # job[p].on}
        /\ assignments' = {a \in assignments : a.user # job[p].on}
        /\ UNCHANGED <<venues, templates>>
    BY <1>7 DEF DeleteStaff, Writes
  <2>2. \A s \in staff : s.id = job[p].on => s.client = c
    BY <2>1 DEF Rights, OwnRow
  <2>3. \A a \in assignments \ assignments' : \E s \in staff : s.id = a.user /\ s.client = c
    BY <2>1, <2>2 DEF NothingOrphaned, Ids
  <2> QED
    BY <2>1, <2>2, <2>3 DEF OwnCrewAndVenues, venues
<1>8. CASE InsertBuilding(p)
  BY <1>1, <1>8 DEF InsertBuilding, crew, OwnCrewAndVenues
<1>9. CASE InsertRoom(p)
  <2>1. /\ at[p] = "write" /\ job[p].op = "room" /\ job[p].on \in Ids(buildings)
        /\ rooms' = rooms \cup {[id |-> p, building |-> job[p].on]}
        /\ UNCHANGED <<crew, buildings, templates>>
    BY <1>9 DEF InsertRoom, Writes
  <2>2. \E b \in buildings : b.id = job[p].on /\ b.client = c
    BY <2>1 DEF Rights, OwnRow
  <2> QED
    BY <2>1, <2>2 DEF OwnCrewAndVenues, crew
<1>10. CASE DeleteRoom(p)
  <2>1. /\ at[p] = "write" /\ job[p].op = "deleteRoom"
        /\ rooms' = {r \in rooms : r.id # job[p].on}
        /\ UNCHANGED <<crew, buildings, templates>>
    BY <1>10 DEF DeleteRoom, Writes
  <2>2. \A r \in rooms : r.id = job[p].on => \E b \in buildings : b.id = r.building /\ b.client = c
    BY <2>1 DEF Rights, OwnRow
  <2> QED
    BY <2>1, <2>2 DEF OwnCrewAndVenues, crew
<1>11. CASE InsertTemplate(p)
  BY <1>1, <1>11 DEF InsertTemplate, crew, venues, OwnCrewAndVenues
<1> QED
  BY <1>3, <1>4, <1>5, <1>6, <1>7, <1>8, <1>9, <1>10, <1>11 DEF Step

-----------------------------------------------------------------------------
(* The theorems.                                                           *)

Inv ==
  /\ Typed
  /\ NothingOrphaned
  /\ Keys
  /\ ChairsContiguous
  /\ \A p \in Requests : Counting(p) /\ Known(p) /\ Rights(p) /\ Complete(p)

LEMMA InitInv == Init => Inv
<1> SUFFICES ASSUME Init PROVE Inv
  OBVIOUS
<1>1. Typed /\ NothingOrphaned /\ Keys
  BY InitTyped, InitKeys
<1>2. ChairsContiguous
  BY DEF Init, ChairsContiguous
<1>3. ASSUME NEW p \in Requests
      PROVE  Counting(p) /\ Known(p) /\ Rights(p) /\ Complete(p)
  BY DEF Init, NoJob, Counting, Early, Known, Rights, Planned, OwnRow, OwnEvents, OwnStaff, Complete
<1> QED
  BY <1>1, <1>2, <1>3 DEF Inv

LEMMA NextInv ==
  ASSUME Inv, [Next]_vars
  PROVE  Inv'
<1>1. ASSUME NEW p \in Requests, Step(p)
      PROVE  Inv'
  <2>1. Typed' /\ NothingOrphaned' /\ Keys'
    BY <1>1, StepTypes, StepOrphansNothing, StepKeys DEF Inv
  <2>2. (\A q \in Requests : Counting(q))' /\ ChairsContiguous'
    BY <1>1, StepCounts DEF Inv
  <2>3. (\A q \in Requests : Known(q))' /\ (\A q \in Requests : Rights(q))'
    BY <1>1, StepKnown, StepRights DEF Inv
  <2>4. (\A q \in Requests : Complete(q))'
    BY <1>1, StepComplete DEF Inv, Rights
  <2> QED
    BY <2>1, <2>2, <2>3, <2>4 DEF Inv
<1>2. ASSUME NEW p \in Requests, NEW j \in Jobs, Submit(p, j)
      PROVE  Inv'
  <2>1. Typed' /\ Keys' /\ (\A q \in Requests : Known(q))'
    BY <1>2, SubmitTypes, SubmitKnown DEF Inv
  <2>2. NothingOrphaned'
    BY <1>2 DEF Inv, Submit, rows, accounts, crew, venues, layout, NothingOrphaned, Ids
  <2>3. (\A q \in Requests : Counting(q))' /\ ChairsContiguous'
    BY <1>2, SubmitCounts DEF Inv
  <2>4. (\A q \in Requests : Rights(q))' /\ (\A q \in Requests : Complete(q))'
    BY <1>2, SubmitRights, SubmitComplete DEF Inv
  <2> QED
    BY <2>1, <2>2, <2>3, <2>4 DEF Inv
<1>3. ASSUME Deletion
      PROVE  Inv'
  <2>1. Typed' /\ NothingOrphaned' /\ Keys'
    BY <1>3, DeletionTypes, DeletionOrphansNothing, DeletionKeys DEF Inv
  <2>2. (\A q \in Requests : Counting(q))' /\ ChairsContiguous'
    BY <1>3, DeletionCounts DEF Inv
  <2>3. (\A q \in Requests : Known(q))'
    BY <1>3, DeletionRows DEF Inv, Known, progress
  <2>4. (\A q \in Requests : Rights(q))' /\ (\A q \in Requests : Complete(q))'
    BY <1>3, DeletionRights, DeletionComplete DEF Inv
  <2> QED
    BY <2>1, <2>2, <2>3, <2>4 DEF Inv
<1>4. CASE UNCHANGED vars
  BY <1>4 DEF vars, rows, accounts, crew, venues, layout, progress, Inv, Typed, TypeOK,
     NothingOrphaned, Keys, ChairsContiguous, Counting, Known, Rights, Planned, OwnRow, OwnEvents,
     Seen, OwnStaff, Complete, Given, Assigned, TakenAway, Ids
<1> QED
  BY <1>1, <1>2, <1>3, <1>4 DEF Next, Deletion

LEMMA Invariance == Spec => []Inv
BY InitInv, NextInv, PTL DEF Spec

\* Every variable keeps its type: no request adds more chairs than it was sent for.
THEOREM TypeCorrect == Spec => []TypeOK
<1>1. Inv => TypeOK
  BY DEF Inv, Typed
<1> QED
  BY <1>1, Invariance, PTL

\* No row outlives what it belongs to.
THEOREM RowsHaveOwners == Spec => []NothingOrphaned
<1>1. Inv => NothingOrphaned
  BY DEF Inv
<1> QED
  BY <1>1, Invariance, PTL

\* The chairs of every table are numbered from 1 without a gap.
THEOREM ChairsWithoutGaps == Spec => []ChairsContiguous
<1>1. Inv => ChairsContiguous
  BY DEF Inv
<1> QED
  BY <1>1, Invariance, PTL

\* What was answered with success has been done completely.
THEOREM CreationsComplete == Spec => []SuccessMeansComplete
<1>1. Inv => SuccessMeansComplete
  <2> SUFFICES ASSUME Inv, NEW p \in Requests, at[p] = "ok"
               PROVE  /\ job[p].op = "client" /\ p \in clients => p \in subscribed
                      /\ job[p].op = "staff" /\ p \in Ids(staff) =>
                           \A e \in job[p].wanted \cap Ids(events) :
                             \/ [user |-> p, event |-> e] \in assignments
                             \/ \E q \in Requests :
                                  /\ job[q].op = "unassign" /\ at[q] = "ok"
                                  /\ job[q].on = p /\ e \in job[q].wanted
    BY DEF SuccessMeansComplete
  <2> QED
    BY DEF Inv, Complete, Given, Assigned, TakenAway
<1> QED
  BY <1>1, Invariance, PTL

\* A client's request writes only staff, assignments, buildings, rooms and templates
\* of that client.  For chairs nothing of the kind holds: their table may be anyone's.
THEOREM CrewAndVenuesKeepApart == Spec => TouchesOwnCrewAndVenues
<1>1. Inv /\ [Next]_vars =>
        [\A p \in Requests : at'[p] # at[p] /\ job[p].caller # Super
                               => OwnCrewAndVenues(job[p].caller)]_vars
  <2> SUFFICES ASSUME Inv, Next, NEW p \in Requests, at'[p] # at[p], job[p].caller # Super
               PROVE  OwnCrewAndVenues(job[p].caller)
    OBVIOUS
  <2>1. ASSUME NEW q \in Requests, Step(q)
        PROVE  OwnCrewAndVenues(job[p].caller)
    <3>1. p = q
      BY <2>1, OneMoves DEF Inv
    <3> QED
      BY <2>1, <3>1, StepsInOwnCrewAndVenues DEF Inv
  <2>2. ASSUME NEW q \in Requests, NEW j \in Jobs, Submit(q, j)
        PROVE  OwnCrewAndVenues(job[p].caller)
    BY <2>2 DEF Submit, rows, crew, venues, OwnCrewAndVenues
  <2>3. ~ Deletion
    BY DeletionRows DEF progress
  <2> QED
    BY <2>1, <2>2, <2>3 DEF Next, Deletion
<1> QED
  BY <1>1, Invariance, PTL DEF Spec, TouchesOwnCrewAndVenues

=============================================================================
