------------------------- MODULE EventScheduleProofs -------------------------
(***************************************************************************)
(* What holds of EventSchedule for every number of requests, events, rooms *)
(* and tenants.                                                            *)
(*                                                                         *)
(* Asked is inductive: it remembers, until the write, what the first        *)
(* statements of a request have established about tenants and rooms.  Told *)
(* adds what a request has learnt from the availability and ticket checks: *)
(* it goes on to be true of everything that has not been written by others *)
(* since the request came.                                                 *)
(***************************************************************************)
EXTENDS EventSchedule, TLAPS

Planned(q) == req[q].op \in {"create", "publish", "update"}
Named(q) == req[q].op \in {"publish", "update", "delete"}

\* A request in flight is complete.
Shape(q) == pc[q] # "idle" =>
  /\ req[q].caller \in Callers
  /\ Planned(q) => req[q].plan \in Plans
  /\ Named(q) => req[q].id \in EventIds

\* A tenant's request is about an event of that tenant, and rooms of that tenant.
Owned(q) == pc[q] # "idle" /\ req[q].caller \in Clients =>
  /\ \A r \in req[q].plan.rooms : RoomOwner[r] = req[q].caller
  /\ Named(q) => \/ event[req[q].id].status = "DELETED"
                 \/ Live(req[q].id) /\ event[req[q].id].client = req[q].caller

Asked == TypeOK /\ \A q \in Editors : Shape(q) /\ Owned(q)

Busy(q) == pc[q] # "idle"

Raced(q, what, e) == <<what, e>> \in raced[q]

\* An event that others have not placed since is not in a room that has been
\* looked at.
Free(q, r, f) ==
  Raced(q, "placed", f) \/ ~ (Uses(f, r) /\ Collide(event[f].plan, req[q].plan))

Checked(q) ==
  /\ Busy(q) /\ Planned(q) =>
       \A r \in req[q].plan.rooms \ todo[q], f \in EventIds \ {req[q].id} : Free(q, r, f)
  /\ Busy(q) /\ req[q].op = "create" => req[q].id = None
  /\ pc[q] = "availability" => Planned(q)
  /\ pc[q] = "write" /\ Planned(q) => todo[q] = {}

\* A deletion that has looked for tickets has found none.
Unsold(q) == pc[q] = "write" /\ req[q].op = "delete" =>
  req[q].id \notin sold \/ Raced(q, "sold", req[q].id)

\* An edit has the rooms of its event in hand, and once it has looked for
\* tickets, there are none or it keeps these rooms.
Kept(q) == Busy(q) /\ req[q].op = "update" =>
  /\ \/ req[q].current = event[req[q].id].plan.rooms
     \/ Raced(q, "placed", req[q].id)
     \/ event[req[q].id].status = "DELETED"
  /\ pc[q] # "tickets" =>
       \/ req[q].id \notin sold
       \/ Raced(q, "sold", req[q].id)
       \/ req[q].plan.rooms = req[q].current

Told(q) == Checked(q) /\ Unsold(q) /\ Kept(q)

\* Only an event that exists has tickets.
LiveSold == \A e \in sold : Live(e)

Learnt == LiveSold /\ \A q \in Editors : Told(q)

-----------------------------------------------------------------------------
(* Plans and rows.                                                         *)

LEMMA PlanFacts ==
  /\ \A p \in Plans : /\ p.primary \in p.rooms /\ p.start < p.end
                      /\ p.rooms \in SUBSET Rooms /\ p.rooms # {} /\ p # NoPlan
                      /\ p.start \in Nat /\ p.end \in Nat
  /\ NoPlan.rooms = {} /\ NoPlan.primary = None
  /\ NoPlan.start = 0 /\ NoPlan.end = 0
BY ScheduleConstants DEF Plans, NoPlan

\* A stored plan occupies a room exactly when the room is one of its rooms.
LEMMA UsesRooms ==
  ASSUME TypeOK, NEW e \in EventIds, NEW r \in Rooms
  PROVE  Uses(e, r) <=> r \in event[e].plan.rooms
<1>1. event[e].plan \in Plans \cup {NoPlan}
  BY DEF TypeOK
<1>2. CASE event[e].plan \in Plans
  BY <1>2, PlanFacts DEF Uses
<1>3. CASE event[e].plan = NoPlan
  BY <1>3, PlanFacts, ScheduleConstants DEF Uses
<1> QED BY <1>1, <1>2, <1>3

\* Two plans that share an hour collide.
LEMMA HoursCollide ==
  ASSUME NEW p \in Plans \cup {NoPlan}, NEW s \in Plans \cup {NoPlan},
         Hours(p) \cap Hours(s) # {}
  PROVE  Collide(p, s)
<1>1. /\ p.start \in Int /\ p.end \in Int /\ s.start \in Int /\ s.end \in Int
  BY PlanFacts
<1>2. PICK t \in Int : p.start <= t /\ t <= p.end - 1 /\ s.start <= t /\ t <= s.end - 1
  BY <1>1 DEF Hours
<1> QED BY <1>1, <1>2 DEF Collide

RaceType == [Editors -> SUBSET ({"placed", "sold"} \X EventIds)]

LEMMA RacedType ==
  ASSUME TypeOK, NEW what \in {"placed", "sold"}, NEW e \in EventIds
  PROVE  RacedBy(what, e) \in RaceType
BY DEF TypeOK, RacedBy, RaceType

-----------------------------------------------------------------------------
(* Requests of any interleaving.                                           *)

\* The request of another editor stays owned while e is written, when a live
\* row keeps its client and a deleted one stays deleted.
Keeps(e) ==
  /\ event[e].status = "DELETED" => event'[e].status = "DELETED"
  /\ Live(e) => event'[e].status = "DELETED"
                \/ (event'[e].status \in {"DRAFT", "PUBLISHED"}
                    /\ event'[e].client = event[e].client)

LEMMA OthersStay ==
  ASSUME Asked, NEW q \in Editors,
         pc'[q] = pc[q], req'[q] = req[q],
         \A e \in EventIds : Keeps(e)
  PROVE  Shape(q)' /\ Owned(q)'
<1>1. Shape(q) /\ Owned(q)
  BY DEF Asked
<1>2. Shape(q)'
  BY <1>1 DEF Shape, Planned, Named
<1>3. ASSUME pc'[q] # "idle", req'[q].caller \in Clients
      PROVE  /\ \A r \in req'[q].plan.rooms : RoomOwner[r] = req'[q].caller
             /\ Named(q)' => \/ event'[req'[q].id].status = "DELETED"
                             \/ Live(req[q].id)' /\ event'[req'[q].id].client = req'[q].caller
  <2>1. \A r \in req[q].plan.rooms : RoomOwner[r] = req[q].caller
    BY <1>1, <1>3 DEF Owned
  <2>2. ASSUME Named(q)
        PROVE  \/ event'[req[q].id].status = "DELETED"
               \/ /\ event'[req[q].id].status \in {"DRAFT", "PUBLISHED"}
                  /\ event'[req[q].id].client = req[q].caller
    <3>1. req[q].id \in EventIds
      BY <1>1, <1>3, <2>2 DEF Shape
    <3>2. \/ event[req[q].id].status = "DELETED"
          \/ Live(req[q].id) /\ event[req[q].id].client = req[q].caller
      BY <1>1, <1>3, <2>2 DEF Owned
    <3>3. Keeps(req[q].id)
      BY <3>1
    <3> QED BY <3>2, <3>3 DEF Keeps
  <2> QED BY <1>3, <2>1, <2>2 DEF Named, Live
<1>4. Owned(q)'
  BY <1>3 DEF Owned
<1> QED BY <1>2, <1>4

LEMMA IdleStays ==
  ASSUME NEW q \in Editors, pc'[q] = "idle"
  PROVE  Shape(q)' /\ Owned(q)'
BY DEF Shape, Owned

LEMMA KeepAll ==
  ASSUME event' = event
  PROVE  \A e \in EventIds : Keeps(e)
BY DEF Keeps, Live

\* A request that starts.
LEMMA StartAsked ==
  ASSUME Asked, NEW q \in Editors, NEW request, NEW first,
         Start(q, request, first),
         request \in [op : {"create", "publish", "update", "delete"},
                      id : EventIds \cup {None}, caller : Callers,
                      plan : Plans \cup {NoPlan}, layout : SUBSET Rooms,
                      current : SUBSET Rooms],
         first \in {"tickets", "availability"},
         request.op # "delete" => request.plan \in Plans,
         request.op # "create" => request.id \in EventIds /\ Visible(request.id, request.caller),
         request.caller = SuperAdmin \/ \A r \in request.plan.rooms : RoomOwner[r] = request.caller
  PROVE  Asked'
<1> USE DEF Asked
<1>1. request.plan.rooms \in SUBSET Rooms
  BY PlanFacts
<1>2. TypeOK'
  BY <1>1 DEF TypeOK, Start
<1>3. pc'[q] = first /\ req'[q] = request /\ event' = event
  BY DEF Start, TypeOK
<1>4. Shape(q)'
  BY <1>3 DEF Shape, Planned, Named
<1>5. Owned(q)'
  BY <1>3, ScheduleConstants DEF Owned, Named, Visible, Live
<1>6. ASSUME NEW r \in Editors, r # q
      PROVE  Shape(r)' /\ Owned(r)'
  <2>1. pc'[r] = pc[r] /\ req'[r] = req[r]
    BY <1>6 DEF Start, TypeOK
  <2> QED BY <1>3, <1>6, <2>1, KeepAll, OthersStay
<1> QED BY <1>2, <1>4, <1>5, <1>6

\* A request that is answered leaves the others where they are.
LEMMA FinishFrame ==
  ASSUME TypeOK, NEW q \in Editors, Finish(q)
  PROVE  /\ pc'[q] = "idle" /\ todo'[q] = {} /\ req'[q] = NoRequest
         /\ \A r \in Editors \ {q} : pc'[r] = pc[r] /\ req'[r] = req[r] /\ todo'[r] = todo[r]
         /\ pc' \in [Editors -> {"idle", "tickets", "availability", "write"}]
         /\ todo' \in [Editors -> SUBSET Rooms]
         /\ req' \in [Editors -> [op : {"none", "create", "publish", "update", "delete"},
                          id : EventIds \cup {None}, caller : Callers \cup {None},
                          plan : Plans \cup {NoPlan}, layout : SUBSET Rooms,
                          current : SUBSET Rooms]]
<1>1. NoRequest \in [op : {"none", "create", "publish", "update", "delete"},
                     id : EventIds \cup {None}, caller : Callers \cup {None},
                     plan : Plans \cup {NoPlan}, layout : SUBSET Rooms,
                     current : SUBSET Rooms]
  BY DEF NoRequest, Request
<1> QED BY <1>1 DEF TypeOK, Finish

\* After a write of event e, the other requests are still about their events.
LEMMA AnsweredAsked ==
  ASSUME Asked, NEW q \in Editors, Finish(q),
         \A e \in EventIds : Keeps(e),
         TypeOK'
  PROVE  Asked'
<1>1. TypeOK
  BY DEF Asked
<1>2. Shape(q)' /\ Owned(q)'
  BY <1>1, FinishFrame, IdleStays
<1>3. ASSUME NEW r \in Editors, r # q
      PROVE  Shape(r)' /\ Owned(r)'
  <2>1. pc'[r] = pc[r] /\ req'[r] = req[r]
    BY <1>1, <1>3, FinishFrame
  <2> QED BY <2>1, OthersStay
<1> QED BY <1>2, <1>3 DEF Asked

LEMMA RefuseAsked ==
  ASSUME Asked, NEW q \in Editors, Refuse(q)
  PROVE  Asked'
<1>1. /\ TypeOK /\ Finish(q) /\ UNCHANGED <<event, tables, sold, counted, booking>>
      /\ raced' = [raced EXCEPT ![q] = {}]
  BY DEF Asked, Refuse
<1>2. TypeOK'
  BY <1>1, FinishFrame DEF TypeOK
<1> QED BY <1>1, <1>2, KeepAll, AnsweredAsked

\* A request that goes on to its next statement.
LEMMA MoveAsked ==
  ASSUME Asked, NEW q \in Editors, pc[q] # "idle",
         CheckTickets(q) \/ CheckRoom(q)
  PROVE  Asked'
<1>1. TypeOK /\ event' = event /\ req' = req
  BY DEF Asked, CheckTickets, CheckRoom, Proceed
<1>2. \A r \in Editors \ {q} : pc'[r] = pc[r]
  BY <1>1 DEF TypeOK, CheckTickets, CheckRoom, Proceed
<1>3. TypeOK'
  BY <1>1 DEF TypeOK, CheckTickets, CheckRoom, Proceed
<1>4. Shape(q)' /\ Owned(q)'
  BY <1>1 DEF Asked, Shape, Owned, Planned, Named, Live
<1>5. ASSUME NEW r \in Editors, r # q
      PROVE  Shape(r)' /\ Owned(r)'
  BY <1>1, <1>2, <1>5, KeepAll, OthersStay
<1> QED BY <1>3, <1>4, <1>5 DEF Asked

RowType == [client : Clients \cup {None},
            status : {"UNUSED", "DRAFT", "PUBLISHED", "DELETED"},
            plan : Plans \cup {NoPlan}]

\* What every write of an event has in common.
LEMMA WriteAsked ==
  ASSUME Asked, NEW q \in Editors, NEW e \in EventIds, NEW row \in RowType,
         NEW layout \in SUBSET Rooms, NEW known \in SUBSET EventIds,
         Write(q, e, row, layout), counted' = known,
         row.status = "PUBLISHED" => row.plan \in Plans,
         row.status \in {"DRAFT", "PUBLISHED"},
         event[e] = Unused \/ (Live(e) /\ row.client = event[e].client)
  PROVE  Asked'
<1>1. TypeOK /\ Finish(q)
  BY DEF Asked, Write
<1>2. TypeOK'
  <2>1. raced' \in RaceType
    BY <1>1, RacedType DEF Write, RaceType
  <2> QED BY <1>1, <2>1, FinishFrame, PlanFacts DEF TypeOK, Write, RowType, RaceType
<1>3. \A f \in EventIds : Keeps(f)
  BY <1>1 DEF Keeps, Write, TypeOK, Live, Unused, Row
<1> QED BY <1>1, <1>2, <1>3, AnsweredAsked

LEMMA SubmitAsked ==
  ASSUME Asked, NEW q \in Editors, Submit(q)
  PROVE  Asked'
<1> USE DEF Request
<1>1. \A layout \in Layouts : layout \in SUBSET Rooms
  BY ScheduleConstants
<1>2. CASE SubmitCreate(q)
  <2>1. PICK caller \in Callers, p \in Plans, layout \in Layouts :
          /\ MayUse(caller, p.rooms)
          /\ Start(q, Request("create", None, caller, p, layout, {}), "availability")
    BY <1>2 DEF SubmitCreate
  <2> QED BY <1>1, <2>1, StartAsked DEF MayUse
<1>3. CASE SubmitPublish(q)
  <2>1. PICK e \in EventIds, caller \in Callers, p \in Plans, layout \in Layouts :
          /\ Visible(e, caller) /\ MayUse(caller, p.rooms)
          /\ Start(q, Request("publish", e, caller, p, layout, {}), "availability")
    BY <1>3 DEF SubmitPublish
  <2> QED BY <1>1, <2>1, StartAsked DEF MayUse
<1>4. CASE SubmitUpdate(q)
  <2>1. PICK e \in EventIds, caller \in Callers, p \in Plans :
          /\ Visible(e, caller) /\ MayUse(caller, p.rooms)
          /\ Start(q, Request("update", e, caller, p, {}, event[e].plan.rooms), "tickets")
    BY <1>4 DEF SubmitUpdate
  <2>2. event[e].plan.rooms \in SUBSET Rooms
    BY PlanFacts DEF Asked, TypeOK
  <2> QED BY <2>1, <2>2, StartAsked DEF MayUse
<1>5. CASE SubmitDelete(q)
  <2>1. PICK e \in EventIds, caller \in Callers :
          /\ Visible(e, caller)
          /\ Start(q, Request("delete", e, caller, NoPlan, {}, {}), "tickets")
    BY <1>5 DEF SubmitDelete
  <2> QED BY <2>1, StartAsked, PlanFacts
<1> QED BY <1>2, <1>3, <1>4, <1>5 DEF Submit

\* What a request that is about to write carries.
LEMMA WriteFacts ==
  ASSUME Asked, NEW q \in Editors, pc[q] = "write"
  PROVE  /\ req[q].caller \in Callers
         /\ req[q].layout \in SUBSET Rooms
         /\ Planned(q) => req[q].plan \in Plans
         /\ Named(q) => req[q].id \in EventIds
         /\ ClientOf(req[q].caller) \in Clients \cup {None}
BY ScheduleConstants DEF Asked, TypeOK, Shape, ClientOf

LEMMA StoreAsked ==
  ASSUME Asked, NEW q \in Editors, Store(q)
  PROVE  Asked'
<1> USE DEF Row
<1>1. pc[q] = "write"
  BY DEF Store, CreateEvent, PublishEvent, UpdateEvent, DeleteEvent
<1>2. CASE CreateEvent(q)
  <2>1. PICK e \in EventIds :
          /\ event[e] = Unused
          /\ Write(q, e, Row(ClientOf(req[q].caller), "PUBLISHED", req[q].plan), req[q].layout)
          /\ Count(e, req[q].caller)
    BY <1>2 DEF CreateEvent
  <2>2. req[q].plan \in Plans
    BY <1>1, <1>2, WriteFacts DEF CreateEvent, Planned
  <2>3. counted' \in SUBSET EventIds
    BY <2>1 DEF Count, Asked, TypeOK
  <2>4. Row(ClientOf(req[q].caller), "PUBLISHED", req[q].plan) \in RowType
    BY <1>1, <2>2, WriteFacts DEF RowType
  <2> QED BY <1>1, <2>1, <2>2, <2>3, <2>4, WriteFacts, WriteAsked
<1>3. CASE PublishEvent(q)
  <2> DEFINE e == req[q].id
  <2>1. /\ e \in EventIds /\ req[q].plan \in Plans /\ Live(e)
        /\ Write(q, e, Row(event[e].client, "PUBLISHED", req[q].plan), req[q].layout)
        /\ Count(e, req[q].caller)
    BY <1>1, <1>3, WriteFacts DEF PublishEvent, Planned, Named
  <2>2. counted' \in SUBSET EventIds
    BY <2>1 DEF Count, Asked, TypeOK
  <2>3. Row(event[e].client, "PUBLISHED", req[q].plan) \in RowType
    BY <2>1 DEF RowType, Asked, TypeOK
  <2> HIDE DEF e
  <2> QED BY <1>1, <2>1, <2>2, <2>3, WriteFacts, WriteAsked
<1>4. CASE UpdateEvent(q)
  <2> DEFINE e == req[q].id
  <2>1. /\ e \in EventIds /\ req[q].plan \in Plans /\ Live(e)
        /\ Write(q, e, Row(event[e].client, event[e].status, req[q].plan), {})
        /\ counted' = counted
    BY <1>1, <1>4, WriteFacts DEF UpdateEvent, Planned, Named
  <2>2. counted' \in SUBSET EventIds
    BY <2>1 DEF Asked, TypeOK
  <2>3. Row(event[e].client, event[e].status, req[q].plan) \in RowType
    BY <2>1 DEF RowType, Asked, TypeOK
  <2>4. event[e].status \in {"DRAFT", "PUBLISHED"}
    BY <2>1 DEF Live
  <2> HIDE DEF e
  <2> QED BY <2>1, <2>2, <2>3, <2>4, WriteAsked
<1>5. CASE DeleteEvent(q)
  <2>1. req[q].id \in EventIds
    BY <1>1, <1>5, WriteFacts DEF DeleteEvent, Named
  <2>2. TypeOK /\ Finish(q)
    BY <1>5 DEF DeleteEvent, Asked
  <2>3. Deleted \in RowType
    BY DEF Deleted, RowType
  <2>4. TypeOK'
    BY <1>5, <2>1, <2>2, <2>3, FinishFrame DEF DeleteEvent, TypeOK, RowType, Deleted
  <2>5. \A f \in EventIds : Keeps(f)
    BY <1>5, <2>1, <2>2 DEF DeleteEvent, Keeps, TypeOK, Live, Deleted
  <2> QED BY <2>2, <2>4, <2>5, AnsweredAsked
<1> QED BY <1>2, <1>3, <1>4, <1>5 DEF Store

\* The steps that belong to no editor.
LEMMA OutsideAsked ==
  ASSUME Asked,
         \/ CreateDraft \/ AddTable
         \/ \E b \in Bookers : ReadEvent(b) \/ IssueTicket(b) \/ AbortBooking(b)
  PROVE  Asked'
<1>1. TypeOK /\ pc' = pc /\ req' = req
  BY DEF Asked, CreateDraft, AddTable, ReadEvent, IssueTicket, AbortBooking
<1>2. TypeOK' /\ \A e \in EventIds : Keeps(e)
  <2>1. CASE CreateDraft
    <3>1. PICK e \in EventIds, caller \in Callers :
            /\ event[e] = Unused
            /\ event' = [event EXCEPT ![e] = Row(ClientOf(caller), "DRAFT", NoPlan)]
      BY <2>1 DEF CreateDraft
    <3>2. Row(ClientOf(caller), "DRAFT", NoPlan) \in RowType
      BY ScheduleConstants DEF Row, RowType, ClientOf
    <3>3. TypeOK'
      BY <1>1, <2>1, <3>1, <3>2 DEF CreateDraft, TypeOK, RowType, Row
    <3>4. \A f \in EventIds : Keeps(f)
      BY <1>1, <3>1 DEF Keeps, TypeOK, Live, Unused, Row
    <3> QED BY <3>3, <3>4
  <2>2. CASE AddTable
    BY <1>1, <2>2, KeepAll DEF AddTable, TypeOK
  <2>3. ASSUME NEW b \in Bookers, ReadEvent(b) \/ AbortBooking(b)
        PROVE  TypeOK' /\ event' = event
    <3>1. CASE ReadEvent(b)
      <4>1. PICK e \in EventIds : booking' = [booking EXCEPT ![b] = e]
        BY <1>1, <3>1 DEF ReadEvent
      <4>2. booking' \in [Bookers -> EventIds \cup {None}]
        BY <1>1, <4>1 DEF TypeOK
      <4> QED BY <1>1, <3>1, <4>2 DEF ReadEvent, TypeOK
    <3>2. CASE AbortBooking(b)
      BY <1>1, <3>2 DEF AbortBooking, TypeOK
    <3> QED BY <2>3, <3>1, <3>2
  <2>4. ASSUME NEW b \in Bookers, IssueTicket(b)
        PROVE  TypeOK' /\ event' = event
    <3>1. booking[b] \in EventIds
      BY <1>1, <2>4 DEF IssueTicket, TypeOK
    <3>2. raced' \in RaceType
      BY <1>1, <2>4, <3>1, RacedType DEF IssueTicket
    <3> QED BY <1>1, <2>4, <3>1, <3>2 DEF IssueTicket, TypeOK, RaceType
  <2> QED BY <2>1, <2>2, <2>3, <2>4, KeepAll
<1> QED BY <1>1, <1>2, OthersStay DEF Asked

LEMMA AskedInit == Init => Asked
<1> SUFFICES ASSUME Init PROVE Asked
  OBVIOUS
<1>1. Unused \in RowType /\ Unused.status = "UNUSED"
  BY DEF Unused, Row, RowType
<1>2. NoRequest \in [op : {"none", "create", "publish", "update", "delete"},
                     id : EventIds \cup {None}, caller : Callers \cup {None},
                     plan : Plans \cup {NoPlan}, layout : SUBSET Rooms,
                     current : SUBSET Rooms]
  BY DEF NoRequest, Request
<1>3. TypeOK
  BY <1>1, <1>2 DEF Init, TypeOK, RowType
<1>4. \A q \in Editors : Shape(q) /\ Owned(q)
  BY DEF Init, Shape, Owned
<1> QED BY <1>3, <1>4 DEF Asked

LEMMA AskedStep == Asked /\ [Next]_vars => Asked'
<1> SUFFICES ASSUME Asked, [Next]_vars PROVE Asked'
  OBVIOUS
<1>1. ASSUME NEW q \in Editors, Submit(q)
      PROVE  Asked'
  BY <1>1, SubmitAsked
<1>2. ASSUME NEW q \in Editors, Check(q)
      PROVE  Asked'
  <2>1. CASE RefuseForTickets(q) \/ RefuseForRoom(q)
    BY <2>1, RefuseAsked DEF RefuseForTickets, RefuseForRoom
  <2>2. CASE CheckTickets(q) \/ CheckRoom(q)
    <3>1. pc[q] # "idle"
      BY <2>2 DEF CheckTickets, CheckRoom
    <3> QED BY <2>2, <3>1, MoveAsked
  <2> QED BY <1>2, <2>1, <2>2 DEF Check
<1>3. ASSUME NEW q \in Editors, Store(q)
      PROVE  Asked'
  BY <1>3, StoreAsked
<1>4. ASSUME NEW q \in Editors, Fail(q)
      PROVE  Asked'
  BY <1>4, RefuseAsked DEF Fail
<1>5. CASE \/ CreateDraft \/ AddTable
           \/ \E b \in Bookers : ReadEvent(b) \/ IssueTicket(b) \/ AbortBooking(b)
  BY <1>5, OutsideAsked
<1>6. CASE UNCHANGED vars
  <2>1. TypeOK' /\ \A q \in Editors : pc'[q] = pc[q] /\ req'[q] = req[q]
    BY <1>6 DEF vars, Asked, TypeOK
  <2> QED BY <1>6, <2>1, KeepAll, OthersStay DEF vars, Asked
<1> QED BY <1>1, <1>2, <1>3, <1>4, <1>5, <1>6 DEF Next

THEOREM Invariance == Spec => []Asked
<1> QED BY AskedInit, AskedStep, PTL DEF Spec

\* Type correctness of EventSchedule: rows, requests and the schema's checks
\* hold for any number of concurrent requests.
THEOREM TypeCorrect == Spec => []TypeOK
<1>1. Asked => TypeOK
  BY DEF Asked
<1> QED BY <1>1, Invariance, PTL

-----------------------------------------------------------------------------
(* Tenants.                                                                *)

LEMMA StoreIsolated ==
  ASSUME Asked, NEW q \in Editors, Store(q), NEW e \in EventIds,
         req[q].caller \in Clients, event'[e] # event[e]
  PROVE  /\ event[e].client = req[q].caller \/ event[e] = Unused
         /\ \A r \in event'[e].plan.rooms : RoomOwner[r] = req[q].caller
<1>1. pc[q] = "write" /\ Owned(q) /\ TypeOK
  BY DEF Store, CreateEvent, PublishEvent, UpdateEvent, DeleteEvent, Asked
<1>2. \A r \in req[q].plan.rooms : RoomOwner[r] = req[q].caller
  BY <1>1 DEF Owned
<1>3. CASE CreateEvent(q)
  BY <1>1, <1>2, <1>3 DEF CreateEvent, Write, Row, TypeOK
<1>4. CASE PublishEvent(q) \/ UpdateEvent(q)
  <2>1. e = req[q].id /\ event'[e].plan = req[q].plan /\ Live(e) /\ Named(q)
    BY <1>1, <1>4 DEF PublishEvent, UpdateEvent, Write, Row, TypeOK, Named
  <2>2. event[e].client = req[q].caller
    BY <1>1, <2>1 DEF Owned, Live
  <2> QED BY <1>2, <2>1, <2>2
<1>5. CASE DeleteEvent(q)
  <2>1. e = req[q].id /\ event'[e] = Deleted /\ Named(q)
    BY <1>1, <1>5 DEF DeleteEvent, TypeOK, Named
  <2>2. event[e].status # "DELETED"
    BY <1>1, <2>1 DEF TypeOK, Unused, Deleted, Row
  <2>3. event[e].client = req[q].caller
    BY <1>1, <2>1, <2>2 DEF Owned
  <2>4. event'[e].plan.rooms = {}
    BY <2>1, PlanFacts DEF Deleted, Row
  <2> QED BY <2>3, <2>4
<1> QED BY <1>3, <1>4, <1>5 DEF Store

Isolated(q, e) ==
  /\ pc[q] = "write" /\ pc'[q] = "idle"
  /\ req[q].caller \in Clients
  /\ event'[e] # event[e]
  => /\ event[e].client = req[q].caller \/ event[e] = Unused
     /\ \A r \in event'[e].plan.rooms : RoomOwner[r] = req[q].caller

\* A step that ends the write of one request is a step of that request.
LEMMA StepOfOne ==
  ASSUME TypeOK, NEW q \in Editors, NEW r \in Editors, q # r,
         Submit(r) \/ Check(r) \/ Store(r) \/ Fail(r)
  PROVE  pc'[q] = pc[q]
<1>1. CASE Submit(r)
  BY <1>1 DEF Submit, SubmitCreate, SubmitPublish, SubmitUpdate, SubmitDelete, Start, TypeOK
<1>2. CASE Check(r)
  BY <1>2 DEF Check, CheckTickets, RefuseForTickets, CheckRoom, RefuseForRoom,
              Proceed, Refuse, Finish, TypeOK
<1>3. CASE Store(r)
  <2>1. Finish(r)
    BY <1>3 DEF Store, CreateEvent, PublishEvent, UpdateEvent, DeleteEvent, Write
  <2> QED BY <2>1 DEF Finish, TypeOK
<1>4. CASE Fail(r)
  BY <1>4 DEF Fail, Refuse, Finish, TypeOK
<1> QED BY <1>1, <1>2, <1>3, <1>4

LEMMA StepIsolated ==
  ASSUME Asked, [Next]_vars, NEW q \in Editors, NEW e \in EventIds
  PROVE  Isolated(q, e)
<1> SUFFICES ASSUME pc[q] = "write", pc'[q] = "idle",
                    req[q].caller \in Clients, event'[e] # event[e]
             PROVE  /\ event[e].client = req[q].caller \/ event[e] = Unused
                    /\ \A r \in event'[e].plan.rooms : RoomOwner[r] = req[q].caller
  BY DEF Isolated
<1>1. pc' # pc /\ event' # event
  OBVIOUS
<1>2. PICK r \in Editors : Submit(r) \/ Check(r) \/ Store(r) \/ Fail(r)
  BY <1>1 DEF Next, vars, ReadEvent, IssueTicket, AbortBooking, CreateDraft, AddTable
<1>3. r = q
  BY <1>2, StepOfOne DEF Asked
<1>4. Store(q)
  BY <1>1, <1>2, <1>3 DEF Submit, SubmitCreate, SubmitPublish, SubmitUpdate, SubmitDelete,
       Start, Check, CheckTickets, RefuseForTickets, CheckRoom, RefuseForRoom,
       Proceed, Refuse, Fail
<1> QED BY <1>4, StoreIsolated

\* Tenants are isolated under any interleaving: what a tenant's request writes
\* is an event of the tenant, in rooms of the tenant.
THEOREM TenantsIsolated == Spec => TenantIsolation
<1>1. Asked /\ [Next]_vars =>
        [\A q \in Editors, e \in EventIds :
           /\ pc[q] = "write" /\ pc'[q] = "idle"
           /\ req[q].caller \in Clients
           /\ event'[e] # event[e]
           => /\ event[e].client = req[q].caller \/ event[e] = Unused
              /\ \A r \in event'[e].plan.rooms : RoomOwner[r] = req[q].caller]_vars
  BY StepIsolated DEF Isolated
<1> QED BY <1>1, Invariance, PTL DEF Spec, TenantIsolation

-----------------------------------------------------------------------------
(* What requests have learnt.                                              *)

\* What the step of another may do to an event, seen by request q.
Harmless(q, e) ==
  /\ \/ event'[e].plan = event[e].plan
     \/ event'[e].plan = NoPlan /\ event'[e].status = "DELETED"
     \/ <<"placed", e>> \in raced'[q]
  /\ event[e].status = "DELETED" => event'[e].status = "DELETED"
  /\ e \in sold' => e \in sold \/ req[q].id # e \/ <<"sold", e>> \in raced'[q]

LEMMA OthersTold ==
  ASSUME Asked, NEW q \in Editors, Told(q), Busy(q),
         pc'[q] = pc[q], req'[q] = req[q], todo'[q] = todo[q],
         raced[q] \subseteq raced'[q],
         \A e \in EventIds : Harmless(q, e)
  PROVE  Told(q)'
<1>1. Checked(q)'
  <2>1. ASSUME Planned(q), NEW r \in req[q].plan.rooms \ todo[q], NEW f \in EventIds \ {req[q].id}
        PROVE  Free(q, r, f)'
    <3>1. Free(q, r, f) /\ Harmless(q, f) /\ req[q].plan \in Plans
      BY <2>1 DEF Told, Checked, Asked, Shape, Busy
    <3>2. CASE event'[f].plan = event[f].plan
      BY <3>1, <3>2 DEF Free, Raced, Uses, Collide
    <3>3. CASE event'[f].plan = NoPlan
      <4>1. ~ Collide(event'[f].plan, req[q].plan)
        BY <3>1, <3>3, PlanFacts DEF Collide
      <4> QED BY <4>1 DEF Free, Collide
    <3>4. CASE <<"placed", f>> \in raced'[q]
      BY <3>4 DEF Free, Raced
    <3> QED BY <3>1, <3>2, <3>3, <3>4 DEF Harmless
  <2> QED BY <2>1 DEF Told, Checked, Busy, Planned
<1>2. Unsold(q)'
  <2>1. ASSUME pc[q] = "write", req[q].op = "delete"
        PROVE  req[q].id \notin sold' \/ <<"sold", req[q].id>> \in raced'[q]
    <3>1. req[q].id \in EventIds
      BY <2>1 DEF Asked, Shape, Named
    <3> QED BY <2>1, <3>1 DEF Told, Unsold, Harmless, Raced
  <2> QED BY <2>1 DEF Unsold, Raced
<1>3. Kept(q)'
  <2>1. ASSUME req[q].op = "update"
        PROVE  req[q].id \in EventIds /\ Kept(q) /\ Harmless(q, req[q].id)
    BY <2>1 DEF Asked, Shape, Named, Busy, Told
  <2> QED BY <2>1 DEF Kept, Harmless, Raced, Busy
<1> QED BY <1>1, <1>2, <1>3 DEF Told

LEMMA IdleTold ==
  ASSUME NEW q \in Editors, pc'[q] = "idle"
  PROVE  Told(q)'
BY DEF Told, Checked, Unsold, Kept, Busy

\* Whoever is not busy has nothing to remember.
LEMMA RestTold ==
  ASSUME Asked, NEW q \in Editors, Told(q),
         pc'[q] = pc[q], req'[q] = req[q], todo'[q] = todo[q],
         Busy(q) => raced[q] \subseteq raced'[q],
         Busy(q) => \A e \in EventIds : Harmless(q, e)
  PROVE  Told(q)'
<1>1. CASE Busy(q)
  BY <1>1, OthersTold
<1>2. CASE ~ Busy(q)
  BY <1>2, IdleTold DEF Busy
<1> QED BY <1>1, <1>2

LEMMA NothingWritten ==
  ASSUME NEW q \in Editors, event' = event, sold' = sold
  PROVE  \A e \in EventIds : Harmless(q, e)
BY DEF Harmless

LEMMA StartLearnt ==
  ASSUME Asked, Learnt, NEW q \in Editors, NEW request, NEW first,
         Start(q, request, first), first \in {"tickets", "availability"},
         first = "availability" => request.op \in {"create", "publish"},
         request.op = "create" => request.id = None,
         request.op = "update" => first = "tickets" /\ request.current = event[request.id].plan.rooms
  PROVE  Learnt'
<1>1. event' = event /\ sold' = sold /\ raced' = raced /\ TypeOK
  BY DEF Start, Asked
<1>2. /\ pc'[q] = first /\ req'[q] = request /\ todo'[q] = request.plan.rooms
  BY <1>1 DEF Start, TypeOK
<1>3. \A r \in Editors \ {q} : pc'[r] = pc[r] /\ req'[r] = req[r] /\ todo'[r] = todo[r]
  BY <1>1 DEF Start, TypeOK
<1>4. Told(q)'
  BY <1>1, <1>2 DEF Told, Checked, Unsold, Kept, Planned
<1>5. \A r \in Editors \ {q} : Told(r)'
  BY <1>1, <1>3, RestTold, NothingWritten DEF Learnt
<1>6. LiveSold'
  BY <1>1 DEF Learnt, LiveSold, Live
<1> QED BY <1>4, <1>5, <1>6 DEF Learnt

LEMMA SubmitLearnt ==
  ASSUME Asked, Learnt, NEW q \in Editors, Submit(q)
  PROVE  Learnt'
BY StartLearnt DEF Submit, SubmitCreate, SubmitPublish, SubmitUpdate, SubmitDelete, Request

\* A request asks its next question.
LEMMA CheckLearnt ==
  ASSUME Asked, Learnt, NEW q \in Editors, CheckTickets(q) \/ CheckRoom(q)
  PROVE  Learnt'
<1>1. Busy(q) /\ TypeOK /\ Told(q)
  BY DEF Asked, Learnt, Busy, CheckTickets, CheckRoom
<1>2. event' = event /\ sold' = sold /\ req' = req /\ raced' = raced
  BY DEF CheckTickets, CheckRoom, Proceed
<1>3. \A r \in Editors \ {q} : pc'[r] = pc[r] /\ todo'[r] = todo[r]
  BY <1>1 DEF CheckTickets, CheckRoom, Proceed, TypeOK
<1>4. \A r \in Editors \ {q} : Told(r)'
  BY <1>2, <1>3, RestTold, NothingWritten DEF Learnt
<1>5. LiveSold'
  BY <1>2 DEF Learnt, LiveSold, Live
<1>6. CASE CheckTickets(q)
  <2>1. /\ todo'[q] = todo[q]
        /\ req[q].op = "delete" => req[q].id \notin sold
        /\ req[q].op = "update" => req[q].id \notin sold \/ req[q].plan.rooms = req[q].current
    BY <1>6 DEF CheckTickets, Proceed, TicketsExist, RoomsChange
  <2>2. pc'[q] = "write" => ~ Planned(q)
    BY <1>1, <1>6 DEF CheckTickets, Proceed, Planned, TypeOK
  <2>3. pc'[q] = "availability" => Planned(q)
    BY <1>1, <1>6 DEF CheckTickets, Proceed, Planned, TypeOK
  <2>4. Checked(q)'
    BY <1>1, <1>2, <2>1, <2>2, <2>3 DEF Told, Checked, Busy, Planned, Free, Raced, Uses, Collide
  <2>5. Unsold(q)' /\ Kept(q)'
    BY <1>1, <1>2, <2>1 DEF Told, Unsold, Kept, Busy, Raced
  <2> QED BY <1>4, <1>5, <2>4, <2>5 DEF Learnt, Told
<1>7. CASE CheckRoom(q)
  <2>1. PICK r \in todo[q] :
          /\ Available(r, req[q].plan, req[q].id)
          /\ todo' = [todo EXCEPT ![q] = @ \ {r}]
          /\ pc' = [pc EXCEPT ![q] = IF todo[q] = {r} THEN "write" ELSE @]
    BY <1>7 DEF CheckRoom
  <2>2. /\ pc[q] = "availability" /\ pc'[q] \in {"availability", "write"}
        /\ todo'[q] = todo[q] \ {r} /\ (pc'[q] = "write" => todo'[q] = {})
    BY <1>1, <1>7, <2>1 DEF CheckRoom, TypeOK
  <2>3. Planned(q)
    BY <1>1, <2>2 DEF Told, Checked
  <2>4. \A s \in req[q].plan.rooms \ todo'[q], f \in EventIds \ {req[q].id} : Free(q, s, f)
    <3>1. \A f \in EventIds \ {req[q].id} : Free(q, r, f)
      BY <2>1 DEF Available, Free
    <3>2. \A s \in req[q].plan.rooms \ todo[q], f \in EventIds \ {req[q].id} : Free(q, s, f)
      BY <1>1, <2>3 DEF Told, Checked
    <3> QED BY <2>2, <3>1, <3>2
  <2>5. \A s \in req'[q].plan.rooms \ todo'[q], f \in EventIds \ {req'[q].id} : Free(q, s, f)'
    BY <1>2, <2>4 DEF Free, Raced, Uses, Collide
  <2>6. Checked(q)'
    BY <1>1, <1>2, <2>2, <2>3, <2>5 DEF Told, Checked, Busy, Planned
  <2>7. Unsold(q)'
    BY <1>2, <2>3 DEF Unsold, Planned
  <2>8. Kept(q)'
    BY <1>1, <1>2, <2>2 DEF Told, Kept, Busy, Raced
  <2> QED BY <1>4, <1>5, <2>6, <2>7, <2>8 DEF Learnt, Told
<1> QED BY <1>6, <1>7

LEMMA RefuseLearnt ==
  ASSUME Asked, Learnt, NEW q \in Editors, Refuse(q)
  PROVE  Learnt'
<1>1. TypeOK /\ Finish(q) /\ event' = event /\ sold' = sold /\ raced' = [raced EXCEPT ![q] = {}]
  BY DEF Asked, Refuse
<1>2. /\ pc'[q] = "idle"
      /\ \A r \in Editors \ {q} :
           pc'[r] = pc[r] /\ req'[r] = req[r] /\ todo'[r] = todo[r] /\ raced'[r] = raced[r]
  BY <1>1, FinishFrame DEF TypeOK
<1>3. \A r \in Editors \ {q} : Told(r)'
  BY <1>1, <1>2, RestTold, NothingWritten DEF Learnt
<1>4. LiveSold'
  BY <1>1 DEF Learnt, LiveSold, Live
<1> QED BY <1>2, <1>3, <1>4, IdleTold DEF Learnt

\* Placing an event races the other requests, and makes no row of another kind.
LEMMA WriteLearnt ==
  ASSUME Asked, Learnt, NEW q \in Editors, NEW e \in EventIds, NEW row \in RowType, NEW layout,
         Write(q, e, row, layout), event[e].status # "DELETED",
         row.status \in {"DRAFT", "PUBLISHED"}
  PROVE  Learnt'
<1>1. TypeOK /\ Finish(q) /\ sold' = sold /\ event' = [event EXCEPT ![e] = row]
  BY DEF Asked, Write
<1>2. /\ pc'[q] = "idle"
      /\ \A r \in Editors \ {q} : pc'[r] = pc[r] /\ req'[r] = req[r] /\ todo'[r] = todo[r]
  BY <1>1, FinishFrame
<1>3. ASSUME NEW r \in Editors \ {q}, Busy(r)
      PROVE  raced'[r] = raced[r] \cup {<<"placed", e>>}
  BY <1>3 DEF Write, RacedBy, Busy
<1>4. ASSUME NEW r \in Editors \ {q}, Busy(r), NEW f \in EventIds
      PROVE  Harmless(r, f)
  BY <1>1, <1>3, <1>4 DEF Harmless, TypeOK
<1>5. \A r \in Editors \ {q} : Told(r)'
  BY <1>2, <1>3, <1>4, RestTold DEF Learnt
<1>6. LiveSold'
  BY <1>1 DEF Learnt, LiveSold, Live, TypeOK
<1> QED BY <1>2, <1>5, <1>6, IdleTold DEF Learnt

LEMMA StoreLearnt ==
  ASSUME Asked, Learnt, NEW q \in Editors, Store(q)
  PROVE  Learnt'
<1> USE DEF Row
<1>1. pc[q] = "write" /\ TypeOK
  BY DEF Store, CreateEvent, PublishEvent, UpdateEvent, DeleteEvent, Asked
<1>2. CASE CreateEvent(q)
  <2>1. PICK e \in EventIds :
          /\ event[e] = Unused
          /\ Write(q, e, Row(ClientOf(req[q].caller), "PUBLISHED", req[q].plan), req[q].layout)
    BY <1>2 DEF CreateEvent
  <2>2. Row(ClientOf(req[q].caller), "PUBLISHED", req[q].plan) \in RowType
    BY <1>1, <1>2, WriteFacts DEF RowType, CreateEvent, Planned
  <2> QED BY <2>1, <2>2, WriteLearnt DEF Unused
<1>3. CASE PublishEvent(q)
  <2>1. /\ req[q].id \in EventIds /\ Live(req[q].id)
        /\ Write(q, req[q].id, Row(event[req[q].id].client, "PUBLISHED", req[q].plan), req[q].layout)
    BY <1>1, <1>3, WriteFacts DEF PublishEvent, Named
  <2>2. Row(event[req[q].id].client, "PUBLISHED", req[q].plan) \in RowType
    BY <1>1, <1>3, <2>1, WriteFacts DEF RowType, PublishEvent, Planned, TypeOK
  <2> QED BY <2>1, <2>2, WriteLearnt DEF Live
<1>4. CASE UpdateEvent(q)
  <2>1. /\ req[q].id \in EventIds /\ Live(req[q].id)
        /\ Write(q, req[q].id, Row(event[req[q].id].client, event[req[q].id].status, req[q].plan), {})
    BY <1>1, <1>4, WriteFacts DEF UpdateEvent, Named
  <2>2. Row(event[req[q].id].client, event[req[q].id].status, req[q].plan) \in RowType
    BY <1>1, <1>4, <2>1, WriteFacts DEF RowType, UpdateEvent, Planned, TypeOK
  <2> QED BY <2>1, <2>2, WriteLearnt DEF Live
<1>5. CASE DeleteEvent(q)
  <2> DEFINE e == req[q].id
  <2>1. e \in EventIds /\ Finish(q) /\ event' = [event EXCEPT ![e] = Deleted] /\ sold' = sold \ {e}
    BY <1>1, <1>5, WriteFacts DEF DeleteEvent, Named
  <2>2. /\ pc'[q] = "idle"
        /\ \A r \in Editors \ {q} :
             pc'[r] = pc[r] /\ req'[r] = req[r] /\ todo'[r] = todo[r] /\ raced'[r] = raced[r]
    BY <1>1, <1>5, <2>1, FinishFrame DEF DeleteEvent, TypeOK
  <2>3. \A r \in Editors, f \in EventIds : Harmless(r, f)
    BY <1>1, <2>1 DEF Harmless, TypeOK, Deleted
  <2>4. \A r \in Editors \ {q} : Told(r)'
    BY <2>2, <2>3, RestTold DEF Learnt
  <2>5. LiveSold'
    BY <1>1, <2>1 DEF Learnt, LiveSold, Live, TypeOK
  <2> QED BY <2>2, <2>4, <2>5, IdleTold DEF Learnt
<1> QED BY <1>2, <1>3, <1>4, <1>5 DEF Store

\* Drafts have no place, and a ticket races whoever has counted the tickets.
LEMMA OutsideLearnt ==
  ASSUME Asked, Learnt,
         \/ CreateDraft \/ AddTable
         \/ \E b \in Bookers : ReadEvent(b) \/ IssueTicket(b) \/ AbortBooking(b)
  PROVE  Learnt'
<1>1. TypeOK /\ pc' = pc /\ req' = req /\ todo' = todo
  BY DEF Asked, CreateDraft, AddTable, ReadEvent, IssueTicket, AbortBooking
<1>2. CASE CreateDraft
  <2>1. PICK e \in EventIds, caller \in Callers :
          event[e] = Unused /\ event' = [event EXCEPT ![e] = Row(ClientOf(caller), "DRAFT", NoPlan)]
    BY <1>2 DEF CreateDraft
  <2>2. sold' = sold /\ raced' = raced
    BY <1>2 DEF CreateDraft
  <2>3. \A r \in Editors, f \in EventIds : Harmless(r, f)
    BY <1>1, <2>1, <2>2 DEF Harmless, TypeOK, Unused, Row
  <2>4. LiveSold'
    BY <1>1, <2>1, <2>2 DEF Learnt, LiveSold, Live, TypeOK, Row
  <2> QED BY <1>1, <2>2, <2>3, <2>4, RestTold DEF Learnt
<1>3. CASE AddTable \/ \E b \in Bookers : ReadEvent(b) \/ AbortBooking(b)
  <2>1. event' = event /\ sold' = sold /\ raced' = raced
    BY <1>3 DEF AddTable, ReadEvent, AbortBooking
  <2>2. LiveSold'
    BY <2>1 DEF Learnt, LiveSold, Live
  <2> QED BY <1>1, <2>1, <2>2, RestTold, NothingWritten DEF Learnt
<1>4. ASSUME NEW b \in Bookers, IssueTicket(b)
      PROVE  Learnt'
  <2>1. /\ Live(booking[b]) /\ event' = event
        /\ sold' = sold \cup {booking[b]} /\ raced' = RacedBy("sold", booking[b])
    BY <1>4 DEF IssueTicket
  <2>2. ASSUME NEW r \in Editors, Busy(r)
        PROVE  /\ raced[r] \subseteq raced'[r]
               /\ req[r].id = booking[b] => <<"sold", booking[b]>> \in raced'[r]
    BY <2>1, <2>2 DEF RacedBy, Busy
  <2>3. ASSUME NEW r \in Editors, Busy(r), NEW f \in EventIds
        PROVE  Harmless(r, f)
    BY <2>1, <2>2, <2>3 DEF Harmless
  <2>4. LiveSold'
    BY <2>1 DEF Learnt, LiveSold, Live
  <2> QED BY <1>1, <2>2, <2>3, <2>4, RestTold DEF Learnt
<1> QED BY <1>2, <1>3, <1>4

LEMMA LearntInit == Init => Learnt
BY DEF Init, Learnt, LiveSold, Told, Checked, Unsold, Kept, Busy

LEMMA LearntStep ==
  ASSUME Asked, Learnt, [Next]_vars
  PROVE  Learnt'
<1>1. ASSUME NEW q \in Editors, Check(q) \/ Fail(q)
      PROVE  Learnt'
  <2>1. CASE RefuseForTickets(q) \/ RefuseForRoom(q) \/ Fail(q)
    BY <2>1, RefuseLearnt DEF RefuseForTickets, RefuseForRoom, Fail
  <2> QED BY <1>1, <2>1, CheckLearnt DEF Check
<1>2. CASE UNCHANGED vars
  <2>1. /\ event' = event /\ sold' = sold /\ raced' = raced
        /\ pc' = pc /\ req' = req /\ todo' = todo
    BY <1>2 DEF vars
  <2>2. LiveSold'
    BY <2>1 DEF Learnt, LiveSold, Live
  <2> QED BY <2>1, <2>2, RestTold, NothingWritten DEF Learnt
<1> QED BY <1>1, <1>2, SubmitLearnt, StoreLearnt, OutsideLearnt DEF Next

THEOREM WhatIsLearnt == Spec => [](Asked /\ Learnt)
<1>1. Asked /\ Learnt /\ [Next]_vars => Learnt'
  BY LearntStep
<1> QED BY <1>1, AskedInit, AskedStep, LearntInit, PTL DEF Spec

-----------------------------------------------------------------------------
(* What the checks guarantee.                                              *)

\* An event changes when a request answers with its write, or a draft appears.
LEMMA EventChanges ==
  ASSUME Asked, [Next]_vars, event' # event
  PROVE  \/ CreateDraft
         \/ \E q \in Editors : Store(q) /\ Writes(q)
<1>1. ASSUME NEW q \in Editors, Store(q)
      PROVE  Writes(q)
  BY <1>1, FinishFrame
     DEF Store, CreateEvent, PublishEvent, UpdateEvent, DeleteEvent, Write, Writes, Asked
<1>2. ASSUME NEW q \in Editors, Submit(q) \/ Check(q) \/ Fail(q)
      PROVE  event' = event
  BY <1>2 DEF Submit, SubmitCreate, SubmitPublish, SubmitUpdate, SubmitDelete, Start,
              Check, CheckTickets, RefuseForTickets, CheckRoom, RefuseForRoom,
              Proceed, Refuse, Fail
<1> QED BY <1>1, <1>2 DEF Next, vars, AddTable, ReadEvent, IssueTicket, AbortBooking

\* The one event that a store changes.
LEMMA StoreChanges ==
  ASSUME Asked, NEW q \in Editors, Store(q)
  PROVE  /\ pc[q] = "write"
         /\ \/ DeleteEvent(q) /\ Named(q)
               /\ event' = [event EXCEPT ![req[q].id] = Deleted]
            \/ /\ Planned(q) /\ req[q].plan \in Plans
               /\ \E e \in EventIds, row \in RowType :
                    /\ req[q].op = "create" \/ e = req[q].id
                    /\ event[e] = Unused \/ Live(e)
                    /\ row.plan = req[q].plan /\ row.status \in {"DRAFT", "PUBLISHED"}
                    /\ event' = [event EXCEPT ![e] = row]
<1> USE DEF Row
<1>1. pc[q] = "write" /\ TypeOK
  BY DEF Store, CreateEvent, PublishEvent, UpdateEvent, DeleteEvent, Asked
<1>2. CASE CreateEvent(q)
  BY <1>1, <1>2, WriteFacts DEF CreateEvent, Write, Planned, RowType
<1>3. CASE PublishEvent(q)
  BY <1>1, <1>3, WriteFacts DEF PublishEvent, Write, Planned, Named, RowType, TypeOK
<1>4. CASE UpdateEvent(q)
  BY <1>1, <1>4, WriteFacts DEF UpdateEvent, Write, Planned, Named, RowType, TypeOK, Live
<1>5. CASE DeleteEvent(q)
  BY <1>1, <1>5 DEF DeleteEvent, Named
<1> QED BY <1>1, <1>2, <1>3, <1>4, <1>5 DEF Store

LEMMA OverlapRaced ==
  ASSUME Asked, Asked', Learnt, [Next]_vars, NEW e \in EventIds, NEW f \in EventIds,
         event'[e] # event[e], Overlap(e, f)'
  PROVE  \E q \in Editors : Writes(q) /\ <<"placed", f>> \in raced[q]
<1>1. TypeOK /\ event'[e].plan.rooms \cap event'[f].plan.rooms # {} /\ e # f
  BY DEF Asked, Overlap
<1>2. event'[e].plan # NoPlan
  BY <1>1, PlanFacts
<1>3. ~ CreateDraft
  BY <1>1, <1>2 DEF CreateDraft, TypeOK, Row
<1>4. PICK q \in Editors : Store(q) /\ Writes(q)
  BY <1>3, EventChanges
<1>5. ~ DeleteEvent(q)
  <2>1. DeleteEvent(q) => event'[e] = Deleted
    BY <1>1 DEF DeleteEvent, TypeOK
  <2> QED BY <1>2, <2>1 DEF Deleted, Row
<1>6. PICK g \in EventIds, row \in RowType :
        /\ req[q].op = "create" \/ g = req[q].id
        /\ row.plan = req[q].plan
        /\ event' = [event EXCEPT ![g] = row]
  BY <1>4, <1>5, StoreChanges
<1>7. pc[q] = "write" /\ Planned(q) /\ req[q].plan \in Plans
  BY <1>4, <1>5, StoreChanges
<1>8. g = e /\ event'[e].plan = req[q].plan /\ event'[f] = event[f]
  BY <1>1, <1>6 DEF TypeOK
<1>9. Checked(q) /\ Busy(q)
  BY <1>7 DEF Learnt, Told, Busy
<1>10. f # req[q].id
  BY <1>1, <1>6, <1>8, <1>9, ScheduleConstants DEF Checked
<1>11. PICK r \in req[q].plan.rooms : r \in event[f].plan.rooms
  BY <1>1, <1>8
<1>12. Uses(f, r)
  BY <1>1, <1>7, <1>11, UsesRooms, PlanFacts
<1>13. Collide(event[f].plan, req[q].plan)
  <2>1. Hours(event[f].plan) \cap Hours(req[q].plan) # {}
    BY <1>8 DEF Overlap, Hours
  <2>2. event[f].plan \in Plans \cup {NoPlan}
    BY <1>1 DEF TypeOK
  <2> QED BY <1>7, <2>1, <2>2, HoursCollide
<1>14. Free(q, r, f)
  BY <1>7, <1>9, <1>10, <1>11 DEF Checked
<1> QED BY <1>4, <1>12, <1>13, <1>14 DEF Free, Raced

\* Under any interleaving of any number of requests: whoever puts an event into
\* the room and time of another did so while that other was placed by somebody
\* else.  Requests that do not overlap never double-book a room.
THEOREM OverlapsNeedRaces == Spec => OverlapNeedsRace
<1>1. Asked /\ Learnt /\ Asked' /\ [Next]_vars =>
        [\A e, f \in EventIds :
           event'[e] # event[e] /\ Overlap(e, f)' =>
             \E q \in Editors : Writes(q) /\ <<"placed", f>> \in raced[q]]_vars
  BY OverlapRaced
<1> QED BY <1>1, WhatIsLearnt, PTL DEF Spec, OverlapNeedsRace

LEMMA LossRaced ==
  ASSUME Asked, Learnt, [Next]_vars, NEW e \in EventIds, e \in sold, event'[e] = Deleted
  PROVE  \E q \in Editors : Writes(q) /\ <<"sold", e>> \in raced[q]
<1>1. TypeOK /\ Live(e)
  BY DEF Asked, Learnt, LiveSold
<1>2. event[e] # Deleted
  BY <1>1 DEF Live, Deleted, Row
<1>3. ~ CreateDraft
  BY <1>1, <1>2 DEF CreateDraft, TypeOK, Deleted, Row
<1>4. PICK q \in Editors : Store(q) /\ Writes(q)
  BY <1>2, <1>3, EventChanges
<1>5. DeleteEvent(q)
  <2>1. ASSUME NEW g \in EventIds, NEW row, row.status \in {"DRAFT", "PUBLISHED"},
               event' = [event EXCEPT ![g] = row]
        PROVE  FALSE
    BY <1>1, <1>2, <2>1 DEF TypeOK, Deleted, Row
  <2> QED BY <1>4, <2>1, StoreChanges
<1>6. e = req[q].id
  BY <1>1, <1>2, <1>5 DEF DeleteEvent, TypeOK
<1>7. pc[q] = "write" /\ req[q].op = "delete" /\ Unsold(q)
  BY <1>5 DEF DeleteEvent, Learnt, Told
<1> QED BY <1>4, <1>6, <1>7 DEF Unsold, Raced

\* Under any interleaving, tickets go with their event only if one of them was
\* sold while the deletion was under way.
THEOREM LostTicketsNeedRaces == Spec => LostTicketNeedsRace
<1>1. Asked /\ Learnt /\ [Next]_vars =>
        [\A e \in EventIds :
           e \in sold /\ event'[e] = Deleted =>
             \E q \in Editors : Writes(q) /\ <<"sold", e>> \in raced[q]]_vars
  BY LossRaced
<1> QED BY <1>1, WhatIsLearnt, PTL DEF Spec, LostTicketNeedsRace

LEMMA MoveRaced ==
  ASSUME Asked, Learnt, [Next]_vars, NEW q \in Editors, NEW e \in EventIds,
         Writes(q), req[q].op = "update", e \in sold,
         event'[e].plan.rooms # event[e].plan.rooms
  PROVE  <<"sold", e>> \in raced[q] \/ <<"placed", e>> \in raced[q]
<1>1. TypeOK /\ Live(e) /\ Kept(q) /\ Busy(q) /\ pc[q] = "write"
  BY DEF Asked, Learnt, LiveSold, Told, Writes, Busy
<1>2. Store(q)
  <2>1. ~ CreateDraft /\ event' # event
    BY <1>1 DEF CreateDraft, Writes
  <2>2. PICK r \in Editors : Store(r) /\ Writes(r)
    BY <2>1, EventChanges
  <2>3. r = q
    BY <1>1, <2>2, StepOfOne DEF Writes
  <2> QED BY <2>2, <2>3
<1>3. UpdateEvent(q)
  BY <1>2 DEF Store, CreateEvent, PublishEvent, DeleteEvent
<1>4. e = req[q].id /\ event'[e].plan.rooms = req[q].plan.rooms
  BY <1>1, <1>3 DEF UpdateEvent, Write, TypeOK, Row
<1>5. event[e].status # "DELETED"
  BY <1>1 DEF Live
<1> QED BY <1>1, <1>4, <1>5 DEF Kept, Raced

\* Under any interleaving, an update moves the holders of tickets only if one of
\* them bought in the meantime, or somebody else moved the event.
THEOREM MovesNeedRaces == Spec => MoveNeedsRace
<1>1. Asked /\ Learnt /\ [Next]_vars =>
        [\A q \in Editors, e \in EventIds :
           /\ Writes(q) /\ req[q].op = "update"
           /\ e \in sold
           /\ event'[e].plan.rooms # event[e].plan.rooms
           => <<"sold", e>> \in raced[q] \/ <<"placed", e>> \in raced[q]]_vars
  BY MoveRaced
<1> QED BY <1>1, WhatIsLearnt, PTL DEF Spec, MoveNeedsRace

=============================================================================
