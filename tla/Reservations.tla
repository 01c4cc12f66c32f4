----------------------------- MODULE Reservations -----------------------------
(***************************************************************************)
(* Seats, tickets and the gate: the reservations and tickets services of   *)
(* the backend, each request run statement by statement against            *)
(* PostgreSQL at READ COMMITTED.  Between two statements of a request any  *)
(* other request may run.  What a transaction has written is visible to    *)
(* the others only after its COMMIT, but its row and index-key locks make  *)
(* them wait at once.                                                      *)
(*                                                                         *)
(* A booking is named by the request that creates it.  It has up to three  *)
(* rows: the reservation of the selected chair, the reservation of the     *)
(* partner chair (couples only) and the one ticket, which hangs on the     *)
(* reservation of the selected chair.                                      *)
(***************************************************************************)

CONSTANTS
  Bookers,      \* POST /reservations requests, each also names its booking
  Cancellers,   \* DELETE /reservations/:id requests in flight at a time
  Scanners,     \* POST /tickets/scan requests in flight at a time
  Staff,        \* the scanners that gate staff operate, the others are admins
  Assigned,     \* gate_staff_assignments: pairs <<staff, event>>
  Events, Rooms, Tables, Chairs, Clients,
  EventRooms,   \* event -> its rooms (room_ids)
  PrimaryRoom,  \* event -> room_id
  Owner,        \* event -> the client that owns it
  TableRoom,    \* table -> its room
  TableOf,      \* chair -> its table
  SuperAdmin,   \* a caller that no tenant filter applies to
  None

Requests == Bookers \cup Cancellers \cup Scanners
Callers == Clients \cup {SuperAdmin}
SeatParts == {"primary", "partner"}
Parts == SeatParts \cup {"ticket"}
Statuses == {"NONE", "ACTIVE", "ISSUED", "CHECKED_IN", "CANCELLED"}

\* A request is settled before it is sent and once it is answered.
Settled == {"idle", "ok", "refused"}

ASSUME RequestsDisjoint ==
  /\ Bookers \cap (Cancellers \cup Scanners) = {}
  /\ Cancellers \cap Scanners = {}
  /\ Staff \subseteq Scanners
  /\ Assigned \subseteq Staff \X Events

ASSUME VenueTypes ==
  /\ EventRooms \in [Events -> SUBSET Rooms]
  /\ PrimaryRoom \in [Events -> Rooms]
  /\ Owner \in [Events -> Clients]
  /\ TableRoom \in [Tables -> Rooms]
  /\ TableOf \in [Chairs -> Tables]

ASSUME NoneIsFresh ==
  /\ None \notin Bookers \cup Events \cup Chairs \cup Rooms
  /\ SuperAdmin \notin Clients

VARIABLES
  row,     \* committed rows: booking -> part -> status, "NONE" when absent
  wrote,   \* request -> the parts its open transaction has written (and locks)
  target,  \* request -> the booking it works on
  form,    \* booking -> what its request asks for
  scope,   \* canceller -> the reservations its two UPDATEs range over
  pc,      \* request -> its next statement, or its answer
  ended    \* the events whose end plus 30 minutes has passed

vars == <<row, wrote, target, form, scope, pc, ended>>

NoForm == [event |-> None, chair |-> None, partner |-> None]
Forms == [event : Events, chair : Chairs, partner : Chairs \cup {None}]

-----------------------------------------------------------------------------
(* Seats and the locks on them.                                            *)

IsCouple(b) == form[b].partner # None

Seat(b, p) ==
  <<form[b].event, IF p = "primary" THEN form[b].chair ELSE form[b].partner>>

\* A bug: partner seats are left out of the index.
MutantTaken(s) == \E b \in Bookers : row[b]["primary"] = "ACTIVE" /\ Seat(b, "primary") = s

\* A committed ACTIVE reservation holds the seat.
Taken(s) == \E b \in Bookers, p \in SeatParts :
              row[b][p] = "ACTIVE" /\ Seat(b, p) = s

\* The open transaction of x has inserted the index key of the seat, or has
\* cancelled the reservation that holds it: an insert of the key waits for x.
Locks(x, s) == \E p \in wrote[x] \cap SeatParts :
                 /\ Seat(target[x], p) = s
                 /\ row[target[x]][p] # "CANCELLED"

\* A bug: availability is only read, nothing serialises two inserts.
MutantSeatLockers(q, s) == {}

SeatLockers(q, s) == {x \in Requests \ {q} : Locks(x, s)}

\* Another open transaction has written one of these rows of booking b.
RowsLocked(q, b, parts) == \E x \in Requests \ {q} :
                             target[x] = b /\ wrote[x] \cap parts # {}

-----------------------------------------------------------------------------
(* How a request ends.                                                     *)

Home(q) == IF q \in Bookers THEN q ELSE None

\* The handler answers: its transaction, if any, is over.
Answer(q, a) ==
  /\ pc' = [pc EXCEPT ![q] = a]
  /\ wrote' = [wrote EXCEPT ![q] = {}]
  /\ target' = [target EXCEPT ![q] = Home(q)]
  /\ scope' = [k \in Cancellers |-> IF k = q THEN {} ELSE scope[k]]

\* A bug: the client goes back to the pool with its transaction still open.
MutantRollback(q) ==
  /\ pc' = [pc EXCEPT ![q] = "refused"]
  /\ UNCHANGED <<row, wrote, target, form, scope, ended>>

\* withTransaction: an error rolls everything back and is rethrown.
Rollback(q) ==
  /\ Answer(q, "refused")
  /\ form' = [b \in Bookers |-> IF b = q THEN NoForm ELSE form[b]]
  /\ UNCHANGED <<row, ended>>

\* A bug: the rows the transaction did not write are lost.
MutantCommitRows(q, status) ==
  row' = [row EXCEPT ![target[q]] = [p \in wrote[q] |-> status[p]]]

\* COMMIT makes the rows the transaction has written visible.
CommitRows(q, status) ==
  row' = [row EXCEPT ![target[q]] =
            [p \in Parts |-> IF p \in wrote[q] THEN status[p] ELSE @[p]]]

-----------------------------------------------------------------------------
(* ReservationsService.createReservationAndTicket                          *)

ResolveRoom(e, requested) ==
  IF requested = None THEN PrimaryRoom[e] ELSE requested

\* A bug: the room of the table is not compared with the room asked for.
MutantBookingAllowed(e, t, c, partner, requested, caller) ==
  /\ caller \in {SuperAdmin, Owner[e]}
  /\ e \notin ended
  /\ ResolveRoom(e, requested) \in EventRooms[e]
  /\ partner # None => partner # c /\ TableOf[partner] = t

\* Every check the transaction makes before it looks at other reservations.
BookingAllowed(e, t, c, partner, requested, caller) ==
  /\ caller \in {SuperAdmin, Owner[e]}
  /\ e \notin ended
  /\ ResolveRoom(e, requested) \in EventRooms[e]
  /\ TableRoom[t] = ResolveRoom(e, requested)
  /\ partner # None => partner # c /\ TableOf[partner] = t

SubmitBooking(q) ==
  /\ pc[q] \in {"idle", "refused"}
  /\ \E e \in Events, t \in Tables, c \in Chairs, partner \in Chairs \cup {None},
        requested \in Rooms \cup {None}, caller \in Callers :
       /\ BookingAllowed(e, t, c, partner, requested, caller)
       /\ form' = [form EXCEPT ![q] =
                     [event |-> e, chair |-> c, partner |-> partner]]
       /\ pc' = [pc EXCEPT ![q] =
                   IF partner = None THEN "insertPrimary" ELSE "checkPartner"]
  /\ UNCHANGED <<row, wrote, target, scope, ended>>

RefuseBooking(q) ==
  /\ pc[q] \in {"idle", "refused"}
  /\ \E e \in Events, t \in Tables, c \in Chairs, partner \in Chairs \cup {None},
        requested \in Rooms \cup {None}, caller \in Callers :
       ~ BookingAllowed(e, t, c, partner, requested, caller)
  /\ Rollback(q)

PartnerFree(q) ==
  /\ pc[q] = "checkPartner"
  /\ ~ Taken(Seat(q, "partner"))
  /\ pc' = [pc EXCEPT ![q] = "insertPrimary"]
  /\ UNCHANGED <<row, wrote, target, form, scope, ended>>

PartnerTaken(q) ==
  /\ pc[q] = "checkPartner"
  /\ Taken(Seat(q, "partner"))
  /\ Rollback(q)

InsertStage == [insertPrimary |-> "primary", insertPartner |-> "partner"]
Inserting(q) == pc[q] \in DOMAIN InsertStage
SeatWanted(q) == Seat(q, InsertStage[pc[q]])

InsertReservation(q) ==
  /\ Inserting(q)
  /\ SeatLockers(q, SeatWanted(q)) = {}
  /\ ~ Taken(SeatWanted(q))
  /\ wrote' = [wrote EXCEPT ![q] = @ \cup {InsertStage[pc[q]]}]
  /\ pc' = [pc EXCEPT ![q] =
              IF pc[q] = "insertPrimary" /\ IsCouple(q)
                THEN "insertPartner" ELSE "insertTicket"]
  /\ UNCHANGED <<row, target, form, scope, ended>>

\* 23505: the unique index reports the committed reservation of the seat.
SeatAlreadyReserved(q) ==
  /\ Inserting(q)
  /\ SeatLockers(q, SeatWanted(q)) = {}
  /\ Taken(SeatWanted(q))
  /\ Rollback(q)

InsertTicket(q) ==
  /\ pc[q] = "insertTicket"
  /\ wrote' = [wrote EXCEPT ![q] = @ \cup {"ticket"}]
  /\ pc' = [pc EXCEPT ![q] = "commitBooking"]
  /\ UNCHANGED <<row, target, form, scope, ended>>

FirstStatus == [p \in Parts |-> IF p = "ticket" THEN "ISSUED" ELSE "ACTIVE"]

CommitBooking(q) ==
  /\ pc[q] = "commitBooking"
  /\ CommitRows(q, FirstStatus)
  /\ Answer(q, "ok")
  /\ UNCHANGED <<form, ended>>

-----------------------------------------------------------------------------
(* ReservationsService.cancelReservation                                   *)

\* A bug: only the reservation that was named.
MutantCancelScope(b, p) == {p}

\* The reservation itself, and the other half when it has a couple group.
CancelScope(b, p) == IF IsCouple(b) THEN SeatParts ELSE {p}

SubmitCancel(q) ==
  /\ pc[q] \in Settled
  /\ \E b \in Bookers, p \in SeatParts, caller \in Callers :
       /\ row[b][p] # "NONE"
       /\ caller \in {SuperAdmin, Owner[form[b].event]}
       /\ target' = [target EXCEPT ![q] = b]
       /\ scope' = [scope EXCEPT ![q] = CancelScope(b, p)]
  /\ pc' = [pc EXCEPT ![q] = "cancelReservations"]
  /\ UNCHANGED <<row, wrote, form, ended>>

RefuseCancel(q) ==
  /\ pc[q] \in Settled
  /\ \E b \in Bookers, p \in SeatParts, caller \in Callers :
       row[b][p] # "NONE" => caller \notin {SuperAdmin, Owner[form[b].event]}
  /\ Rollback(q)

CancelReservations(q) ==
  /\ pc[q] = "cancelReservations"
  /\ ~ RowsLocked(q, target[q], scope[q])
  /\ wrote' = [wrote EXCEPT ![q] = scope[q]]
  /\ pc' = [pc EXCEPT ![q] = "cancelTickets"]
  /\ UNCHANGED <<row, target, form, scope, ended>>

\* A bug: the second UPDATE is forgotten.
MutantTicketsOf(parts) == {}

\* The ticket is in scope when the reservation it hangs on is.
TicketsOf(parts) == IF "primary" \in parts THEN {"ticket"} ELSE {}

CancelTickets(q) ==
  /\ pc[q] = "cancelTickets"
  /\ ~ RowsLocked(q, target[q], TicketsOf(scope[q]))
  /\ wrote' = [wrote EXCEPT ![q] = @ \cup TicketsOf(scope[q])]
  /\ pc' = [pc EXCEPT ![q] = "commitCancel"]
  /\ UNCHANGED <<row, target, form, scope, ended>>

CancelledStatus == [p \in Parts |-> "CANCELLED"]

CommitCancel(q) ==
  /\ pc[q] = "commitCancel"
  /\ CommitRows(q, CancelledStatus)
  /\ Answer(q, "ok")
  /\ UNCHANGED <<form, ended>>

-----------------------------------------------------------------------------
(* TicketsService.scanTicket: three statements, no transaction around them.*)

Admissible(b) == row[b]["ticket"] = "ISSUED" /\ form[b].event \notin ended

LookUpTicket(q) ==
  /\ pc[q] \in Settled
  /\ \E b \in Bookers :
       /\ Admissible(b)
       /\ target' = [target EXCEPT ![q] = b]
  /\ pc' = [pc EXCEPT ![q] = IF q \in Staff THEN "authorise" ELSE "checkIn"]
  /\ UNCHANGED <<row, wrote, form, scope, ended>>

\* No such ticket, event over, already checked in, or cancelled.
RejectScan(q) ==
  /\ pc[q] \in Settled
  /\ \E b \in Bookers : ~ Admissible(b)
  /\ Rollback(q)

Authorise(q) ==
  /\ pc[q] = "authorise"
  /\ <<q, form[target[q]].event>> \in Assigned
  /\ pc' = [pc EXCEPT ![q] = "checkIn"]
  /\ UNCHANGED <<row, wrote, target, form, scope, ended>>

RejectUnassigned(q) ==
  /\ pc[q] = "authorise"
  /\ <<q, form[target[q]].event>> \notin Assigned
  /\ Rollback(q)

\* UPDATE ... WHERE id = $1: waits for the row, whatever status it then has.
CheckIn(q) ==
  /\ pc[q] = "checkIn"
  /\ ~ RowsLocked(q, target[q], {"ticket"})
  /\ row' = [row EXCEPT ![target[q]]["ticket"] = "CHECKED_IN"]
  /\ Answer(q, "ok")
  /\ UNCHANGED <<form, ended>>

-----------------------------------------------------------------------------
(* Failures, the database's deadlock detector, and time.                   *)

\* A statement or the connection fails, QR generation rejects, or the server
\* process dies: whatever the transaction has written is undone.
Fail(q) ==
  /\ pc[q] \notin Settled
  /\ Rollback(q)

WaitsFor(q) == IF q \in Bookers /\ Inserting(q)
                 THEN SeatLockers(q, SeatWanted(q)) ELSE {}

\* Every member waits for another member, and another member waits for it.
WaitCycle(S) ==
  \A x \in S : /\ WaitsFor(x) \cap S # {}
               /\ \E y \in S : x \in WaitsFor(y)

\* 40P01: PostgreSQL aborts one transaction of a waiting cycle.
BreakDeadlock(q) ==
  /\ WaitsFor(q) # {}
  /\ \E S \in SUBSET Bookers : q \in S /\ WaitCycle(S)
  /\ Rollback(q)

EventEnds(e) ==
  /\ e \notin ended
  /\ ended' = ended \cup {e}
  /\ UNCHANGED <<row, wrote, target, form, scope, pc>>

-----------------------------------------------------------------------------

Init ==
  /\ row = [b \in Bookers |-> [p \in Parts |-> "NONE"]]
  /\ wrote = [q \in Requests |-> {}]
  /\ target = [q \in Requests |-> Home(q)]
  /\ form = [b \in Bookers |-> NoForm]
  /\ scope = [k \in Cancellers |-> {}]
  /\ pc = [q \in Requests |-> "idle"]
  /\ ended = {}

\* What the server does for a booking it has accepted.
BookingStep(q) ==
  \/ PartnerFree(q) \/ PartnerTaken(q)
  \/ InsertReservation(q) \/ SeatAlreadyReserved(q)
  \/ InsertTicket(q) \/ CommitBooking(q)
  \/ BreakDeadlock(q)

CancelStep(q) == CancelReservations(q) \/ CancelTickets(q) \/ CommitCancel(q)

ScanStep(q) == Authorise(q) \/ RejectUnassigned(q) \/ CheckIn(q)

Next ==
  \/ \E q \in Bookers : SubmitBooking(q) \/ RefuseBooking(q) \/ BookingStep(q)
  \/ \E q \in Cancellers : SubmitCancel(q) \/ RefuseCancel(q) \/ CancelStep(q)
  \/ \E q \in Scanners : LookUpTicket(q) \/ RejectScan(q) \/ ScanStep(q)
  \/ \E q \in Requests : Fail(q)
  \/ \E e \in Events : EventEnds(e)

Spec == Init /\ [][Next]_vars

\* A statement that keeps becoming executable is executed: PostgreSQL queues
\* the waiters of a lock and runs its deadlock detector on every long wait.
Fairness ==
  /\ \A q \in Bookers : SF_vars(BookingStep(q))
  /\ \A q \in Cancellers : SF_vars(CancelStep(q))
  /\ \A q \in Scanners : SF_vars(ScanStep(q))

FairSpec == Spec /\ Fairness

-----------------------------------------------------------------------------
(* Properties.                                                             *)

TypeOK ==
  /\ row \in [Bookers -> [Parts -> Statuses]]
  /\ wrote \in [Requests -> SUBSET Parts]
  /\ target \in [Requests -> Bookers \cup {None}]
  /\ form \in [Bookers -> Forms \cup {NoForm}]
  /\ scope \in [Cancellers -> SUBSET SeatParts]
  /\ pc \in [Requests -> Settled \cup
                {"checkPartner", "insertPrimary", "insertPartner",
                 "insertTicket", "commitBooking", "cancelReservations",
                 "cancelTickets", "commitCancel", "authorise", "checkIn"}]
  /\ ended \subseteq Events

\* No chair is ever promised to two bookings of one event, however many
\* requests pass the availability check together (the partial unique index).
NoDoubleBooking ==
  \A a, b \in Bookers, p, r \in SeatParts :
    /\ row[a][p] = "ACTIVE"
    /\ row[b][r] = "ACTIVE"
    /\ Seat(a, p) = Seat(b, r)
    => a = b /\ p = r

\* The two seats of a couple are booked together and cancelled together,
\* through whichever half the cancellation names and whatever fails midway.
CoupleTogether ==
  \A b \in Bookers :
    IsCouple(b) => row[b]["partner"] = row[b]["primary"]

\* A held seat always has a ticket the gate has not been told to refuse, and
\* no cancelled booking keeps a ticket that still admits somebody.
TicketFollowsReservation ==
  \A b \in Bookers :
    /\ row[b]["primary"] = "NONE" <=> row[b]["ticket"] = "NONE"
    /\ row[b]["primary"] = "ACTIVE" => row[b]["ticket"] \in {"ISSUED", "CHECKED_IN"}
    /\ row[b]["primary"] = "CANCELLED" => row[b]["ticket"] # "ISSUED"

\* Every request the server has started on is answered: couples that want the
\* same two chairs in opposite order, requests that wait for a lock of a
\* request that fails, and scans of a ticket that is being cancelled included.
EveryRequestAnswered ==
  \A q \in Requests : pc[q] \notin Settled ~> pc[q] \in Settled

\* A partner seat always stands in a room of the event it is booked for: the
\* chain partner chair - table - room - event is checked link by link.
PartnerInEventRoom ==
  \A b \in Bookers :
    row[b]["partner"] = "ACTIVE"
      => TableRoom[TableOf[form[b].partner]] \in EventRooms[form[b].event]

-----------------------------------------------------------------------------
(* The abstract specification the service implements.                      *)

\* The seats each booking holds, and those that were given back.
SeatsHeld == [b \in Bookers |->
  {Seat(b, p) : p \in {q \in SeatParts : row[b][q] = "ACTIVE"}}]
BookingsReleased == {b \in Bookers : row[b]["primary"] = "CANCELLED"}

Ledger == INSTANCE SeatLedger WITH
            Bookings <- Bookers, Seats <- Events \X Chairs,
            held <- SeatsHeld, released <- BookingsReleased

\* The service implements the ledger: what other requests can see of bookings
\* and cancellations is one atomic step each, of both seats of a couple.
LedgerSpec == Ledger!Spec

-----------------------------------------------------------------------------
(* What a document says and the code does not do: a run refutes it.        *)

Admits(q) == pc[q] = "checkIn" /\ pc'[q] = "ok"

\* build_updated_spec.py: "A cancelled ticket is rejected."  A cancellation
\* that commits between the scan's SELECT and its UPDATE is overwritten.
NoCancelledAdmission ==
  [][\A q \in Scanners : Admits(q) => row[target[q]]["ticket"] # "CANCELLED"]_vars

=============================================================================
