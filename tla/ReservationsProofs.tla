-------------------------- MODULE ReservationsProofs --------------------------
(***************************************************************************)
(* Reservations, for any number of requests, events, rooms and chairs:     *)
(* type correctness, no double booking, couples booked and cancelled       *)
(* together, tickets that follow their reservations.                       *)
(*                                                                         *)
(* None of the safety invariants is inductive alone: whether an insert may *)
(* go ahead depends on rows that are not committed yet, and whether those  *)
(* agree with the form depends on the statement the request has reached.   *)
(* IInv ties the rows, the uncommitted writes and the program counter of   *)
(* every request together, and extends seat exclusion to uncommitted rows. *)
(***************************************************************************)
EXTENDS Reservations, TLAPS

BookingStages == {"idle", "refused", "checkPartner", "insertPrimary",
                  "insertPartner", "insertTicket", "commitBooking", "ok"}
CancelStages == Settled \cup {"cancelReservations", "cancelTickets", "commitCancel"}
ScanStages == Settled \cup {"authorise", "checkIn"}

\* The seats a booking has, one or two.
SeatsOf(b) == IF IsCouple(b) THEN SeatParts ELSE {"primary"}

NoRows == [p \in Parts |-> "NONE"]

\* What a booking has written at each stage, before its COMMIT.
WrittenBy(b) ==
  IF pc[b] = "insertPartner" THEN {"primary"}
  ELSE IF pc[b] = "insertTicket" THEN SeatsOf(b)
  ELSE IF pc[b] = "commitBooking" THEN SeatsOf(b) \cup {"ticket"}
  ELSE {}

\* The rows of a committed booking agree with its form and with each other.
Committed(b) ==
  /\ row[b]["primary"] \in {"ACTIVE", "CANCELLED"}
  /\ row[b]["partner"] = IF IsCouple(b) THEN row[b]["primary"] ELSE "NONE"
  /\ row[b]["ticket"] \in {"ISSUED", "CHECKED_IN", "CANCELLED"}
  /\ row[b]["primary"] = "ACTIVE" => row[b]["ticket"] # "CANCELLED"
  /\ row[b]["primary"] = "CANCELLED" => row[b]["ticket"] # "ISSUED"

BookingShape(b) ==
  /\ target[b] = b
  /\ pc[b] \in BookingStages
  /\ pc[b] \in {"idle", "refused"} => form[b] = NoForm
  /\ pc[b] \notin {"idle", "refused"} =>
       form[b] \in Forms /\ form[b].partner # form[b].chair
  /\ pc[b] \in {"checkPartner", "insertPartner"} => IsCouple(b)
  /\ pc[b] # "ok" => row[b] = NoRows
  /\ pc[b] = "ok" => Committed(b)
  /\ wrote[b] = WrittenBy(b)

CancelShape(k) ==
  /\ pc[k] \in CancelStages
  /\ pc[k] \notin Settled =>
       /\ target[k] \in Bookers
       /\ pc[target[k]] = "ok"
       /\ scope[k] = SeatsOf(target[k])
  /\ wrote[k] = IF pc[k] = "cancelTickets" THEN scope[k]
                ELSE IF pc[k] = "commitCancel" THEN scope[k] \cup {"ticket"}
                ELSE {}

ScanShape(s) ==
  /\ pc[s] \in ScanStages
  /\ pc[s] \notin Settled => target[s] \in Bookers /\ pc[target[s]] = "ok"
  /\ wrote[s] = {}

\* A row that holds its seat: committed and active, or inserted and waiting
\* for its COMMIT.
Live(b, p) == row[b][p] = "ACTIVE" \/ p \in wrote[b]

SeatExclusive ==
  \A a, b \in Bookers, p, r \in SeatParts :
    Live(a, p) /\ Live(b, r) /\ Seat(a, p) = Seat(b, r) => a = b /\ p = r

Shapes ==
  /\ \A b \in Bookers : BookingShape(b)
  /\ \A k \in Cancellers : CancelShape(k)
  /\ \A s \in Scanners : ScanShape(s)

IInv == TypeOK /\ Shapes /\ SeatExclusive

-----------------------------------------------------------------------------
(* Frames: a request that a step leaves alone keeps its shape, as long as  *)
(* the bookings it relies on stay booked.                                  *)

LEMMA BookingFrame ==
  ASSUME NEW b \in Bookers, BookingShape(b),
         pc'[b] = pc[b], row'[b] = row[b], wrote'[b] = wrote[b],
         target'[b] = target[b], form'[b] = form[b]
  PROVE  BookingShape(b)'
BY DEF BookingShape, WrittenBy, SeatsOf, IsCouple, Committed

LEMMA CancelFrame ==
  ASSUME NEW k \in Cancellers, CancelShape(k),
         pc'[k] = pc[k], wrote'[k] = wrote[k],
         target'[k] = target[k], scope'[k] = scope[k],
         \A b \in Bookers : pc[b] = "ok" => pc'[b] = "ok" /\ form'[b] = form[b]
  PROVE  CancelShape(k)'
BY DEF CancelShape, SeatsOf, IsCouple

LEMMA ScanFrame ==
  ASSUME NEW s \in Scanners, ScanShape(s),
         pc'[s] = pc[s], wrote'[s] = wrote[s], target'[s] = target[s],
         \A b \in Bookers : pc[b] = "ok" => pc'[b] = "ok"
  PROVE  ScanShape(s)'
BY DEF ScanShape

\* A step that adds no live row and moves no live row's seat keeps exclusion.
LEMMA ExclusionFrame ==
  ASSUME SeatExclusive,
         \A b \in Bookers, p \in SeatParts :
           Live(b, p)' => Live(b, p) /\ form'[b] = form[b]
  PROVE  SeatExclusive'
BY DEF SeatExclusive, Seat

-----------------------------------------------------------------------------
(* The initial state, and what a step of one request leaves of the others. *)

LEMMA InitInv == Init => IInv
<1> SUFFICES ASSUME Init PROVE IInv
  OBVIOUS
<1>1. TypeOK
  BY DEF Init, TypeOK, Home, Requests, Settled, Parts, SeatParts, Statuses
<1>2. \A b \in Bookers : BookingShape(b)
  BY DEF Init, BookingShape, BookingStages, WrittenBy, Home, NoRows, Requests
<1>3. \A k \in Cancellers : CancelShape(k)
  BY DEF Init, CancelShape, CancelStages, Settled, Requests
<1>4. \A s \in Scanners : ScanShape(s)
  BY DEF Init, ScanShape, ScanStages, Settled, Requests
<1>5. SeatExclusive
  BY DEF Init, SeatExclusive, Live, Requests, SeatParts, Parts
<1> QED
  BY <1>1, <1>2, <1>3, <1>4, <1>5 DEF IInv, Shapes

\* The step is q's own: of the others it changes at most committed rows, and
\* leaves those well-formed.
OnlyMoves(q) ==
  /\ \A x \in Requests \ {q} : /\ pc'[x] = pc[x] /\ wrote'[x] = wrote[x]
                               /\ target'[x] = target[x]
  /\ \A k \in Cancellers \ {q} : scope'[k] = scope[k]
  /\ \A b \in Bookers \ {q} : /\ form'[b] = form[b]
                              /\ \/ row'[b] = row[b]
                                 \/ pc[b] = "ok" /\ Committed(b)'

LEMMA OthersKeepShape ==
  ASSUME IInv, NEW q \in Requests, q \in Bookers => pc[q] # "ok", OnlyMoves(q)
  PROVE  /\ \A b \in Bookers \ {q} : BookingShape(b)'
         /\ \A k \in Cancellers \ {q} : CancelShape(k)'
         /\ \A s \in Scanners \ {q} : ScanShape(s)'
<1> USE RequestsDisjoint DEF Requests
<1>1. \A b \in Bookers : pc[b] = "ok" => pc'[b] = "ok" /\ form'[b] = form[b]
  BY DEF OnlyMoves
<1>2. ASSUME NEW b \in Bookers \ {q} PROVE BookingShape(b)'
  <2>1. CASE row'[b] = row[b]
    BY <2>1, BookingFrame DEF IInv, Shapes, OnlyMoves
  <2>2. CASE pc[b] = "ok" /\ Committed(b)'
    BY <2>2 DEF IInv, Shapes, OnlyMoves, BookingShape, WrittenBy
  <2> QED BY <2>1, <2>2 DEF OnlyMoves
<1>3. ASSUME NEW k \in Cancellers \ {q} PROVE CancelShape(k)'
  BY <1>1, CancelFrame DEF IInv, Shapes, OnlyMoves
<1>4. ASSUME NEW s \in Scanners \ {q} PROVE ScanShape(s)'
  BY <1>1, ScanFrame DEF IInv, Shapes, OnlyMoves
<1> QED BY <1>2, <1>3, <1>4

(* One lemma per action.                                                   *)

LEMMA RollbackInv ==
  ASSUME IInv, NEW q \in Requests, Rollback(q), q \in Bookers => pc[q] # "ok"
  PROVE  IInv'
<1> USE RequestsDisjoint, NoneIsFresh DEF Requests
<1>1. TypeOK'
  BY DEF IInv, TypeOK, Rollback, Answer, Home, Settled, Parts, SeatParts,
         Statuses, NoForm
<1>2. OnlyMoves(q)
  BY DEF IInv, TypeOK, OnlyMoves, Rollback, Answer
<1>3. /\ \A b \in Bookers : b = q => BookingShape(b)'
      /\ \A k \in Cancellers : k = q => CancelShape(k)'
      /\ \A s \in Scanners : s = q => ScanShape(s)'
  BY DEF IInv, TypeOK, Shapes, BookingShape, CancelShape, ScanShape, Rollback,
         Answer, BookingStages, CancelStages, ScanStages, WrittenBy, Settled,
         Home
<1>4. SeatExclusive'
  <2>1. ASSUME NEW b \in Bookers, NEW p \in SeatParts, Live(b, p)'
        PROVE  Live(b, p) /\ form'[b] = form[b]
    BY <2>1 DEF IInv, TypeOK, Shapes, BookingShape, NoRows, Parts, SeatParts,
                Live, Rollback, Answer
  <2> QED BY <2>1, ExclusionFrame DEF IInv
<1>5. /\ \A b \in Bookers \ {q} : BookingShape(b)'
      /\ \A k \in Cancellers \ {q} : CancelShape(k)'
      /\ \A s \in Scanners \ {q} : ScanShape(s)'
  BY <1>2, OthersKeepShape
<1>6. Shapes'
  BY <1>3, <1>5 DEF Shapes
<1> QED
  BY <1>1, <1>4, <1>6 DEF IInv

LEMMA SubmitBookingInv ==
  ASSUME IInv, NEW q \in Bookers, SubmitBooking(q)
  PROVE  IInv'
<1> USE RequestsDisjoint, NoneIsFresh DEF Requests
<1>1. TypeOK'
  BY DEF IInv, TypeOK, SubmitBooking, Home, Settled, Parts, SeatParts,
         Statuses, Forms
<1>2. OnlyMoves(q)
  BY DEF IInv, TypeOK, OnlyMoves, SubmitBooking
<1>3. BookingShape(q)'
  BY DEF IInv, TypeOK, Shapes, BookingShape, SubmitBooking, BookingStages,
         WrittenBy, SeatsOf, IsCouple, Forms, SeatParts, BookingAllowed
<1>4. SeatExclusive'
  <2>1. ASSUME NEW b \in Bookers, NEW p \in SeatParts, Live(b, p)'
        PROVE  Live(b, p) /\ form'[b] = form[b]
    BY <2>1 DEF IInv, TypeOK, Shapes, BookingShape, WrittenBy, NoRows, Parts,
                SeatParts, Live, SubmitBooking
  <2> QED BY <2>1, ExclusionFrame DEF IInv
<1>5. pc[q] # "ok"
  BY DEF SubmitBooking, Inserting, InsertStage
<1>6. Shapes'
  BY <1>2, <1>3, <1>5, OthersKeepShape DEF Shapes
<1> QED
  BY <1>1, <1>4, <1>6 DEF IInv

LEMMA PartnerFreeInv ==
  ASSUME IInv, NEW q \in Bookers, PartnerFree(q)
  PROVE  IInv'
<1> USE RequestsDisjoint, NoneIsFresh DEF Requests
<1>1. TypeOK'
  BY DEF IInv, TypeOK, PartnerFree, Home, Settled, Parts, SeatParts, Statuses
<1>2. OnlyMoves(q)
  BY DEF IInv, TypeOK, OnlyMoves, PartnerFree
<1>3. BookingShape(q)'
  BY DEF IInv, TypeOK, Shapes, BookingShape, PartnerFree, BookingStages,
         WrittenBy, SeatsOf, IsCouple, Forms, SeatParts
<1>4. SeatExclusive'
  <2>1. ASSUME NEW b \in Bookers, NEW p \in SeatParts, Live(b, p)'
        PROVE  Live(b, p) /\ form'[b] = form[b]
    BY <2>1 DEF IInv, TypeOK, Shapes, BookingShape, NoRows, Parts, SeatParts,
                Live, PartnerFree
  <2> QED BY <2>1, ExclusionFrame DEF IInv
<1>5. pc[q] # "ok"
  BY DEF PartnerFree, Inserting, InsertStage
<1>6. Shapes'
  BY <1>2, <1>3, <1>5, OthersKeepShape DEF Shapes
<1> QED
  BY <1>1, <1>4, <1>6 DEF IInv

LEMMA InsertReservationInv ==
  ASSUME IInv, NEW q \in Bookers, InsertReservation(q)
  PROVE  IInv'
<1> USE RequestsDisjoint, NoneIsFresh DEF Requests
<1>1. TypeOK'
  BY DEF IInv, TypeOK, InsertReservation, Home, Settled, Parts, SeatParts,
         Statuses, Inserting, InsertStage
<1>2. OnlyMoves(q)
  BY DEF IInv, TypeOK, OnlyMoves, InsertReservation
<1>3. BookingShape(q)'
  BY DEF IInv, TypeOK, Shapes, BookingShape, InsertReservation, BookingStages,
         WrittenBy, SeatsOf, IsCouple, Forms, SeatParts, Inserting, InsertStage
<1>4. SeatExclusive'
  <2>1. /\ wrote' = [wrote EXCEPT ![q] = @ \cup {InsertStage[pc[q]]}]
        /\ row' = row /\ form' = form /\ target[q] = q
        /\ row[q] = NoRows /\ InsertStage[pc[q]] \in SeatParts
        /\ form[q].chair # form[q].partner
    BY DEF IInv, Shapes, BookingShape, InsertReservation, Inserting,
           InsertStage, SeatParts
  <2>2. ASSUME NEW a \in Bookers, NEW p \in SeatParts, Live(a, p)',
               Seat(a, p) = SeatWanted(q)
        PROVE  a = q /\ p = InsertStage[pc[q]]
    <3>1. CASE a = q
      BY <3>1, <2>1, <2>2 DEF Seat, SeatWanted, SeatParts
    <3>2. CASE a # q
      <4>1. Live(a, p) /\ target[a] = a
        BY <2>1, <2>2, <3>2 DEF Live, IInv, TypeOK, Shapes, BookingShape
      <4>2. row[a][p] # "ACTIVE"
        BY <2>2 DEF Taken, InsertReservation
      <4>3. row[a][p] = "NONE"
        <5>1. p \in wrote[a]
          BY <4>1, <4>2 DEF Live
        <5>2. pc[a] # "ok"
          BY <5>1 DEF IInv, Shapes, BookingShape, WrittenBy
        <5> QED
          BY <5>2 DEF IInv, Shapes, BookingShape, NoRows, SeatParts, Parts
      <4> QED
        BY <2>2, <3>2, <4>1, <4>2, <4>3 DEF Live, Locks, SeatLockers,
                                            InsertReservation
    <3> QED BY <3>1, <3>2
  <2>3. \A a \in Bookers, p \in SeatParts :
          Live(a, p)' => Live(a, p) \/ (a = q /\ p = InsertStage[pc[q]])
    BY <2>1 DEF Live, IInv, TypeOK
  <2>4. \A a \in Bookers, p \in SeatParts : Seat(a, p)' = Seat(a, p)
    BY <2>1 DEF Seat
  <2>5. Seat(q, InsertStage[pc[q]]) = SeatWanted(q)
    BY DEF SeatWanted
  <2> QED
    BY <2>2, <2>3, <2>4, <2>5 DEF IInv, SeatExclusive
<1>5. pc[q] # "ok"
  BY DEF InsertReservation, Inserting, InsertStage
<1>6. Shapes'
  BY <1>2, <1>3, <1>5, OthersKeepShape DEF Shapes
<1> QED
  BY <1>1, <1>4, <1>6 DEF IInv

LEMMA InsertTicketInv ==
  ASSUME IInv, NEW q \in Bookers, InsertTicket(q)
  PROVE  IInv'
<1> USE RequestsDisjoint, NoneIsFresh DEF Requests
<1>1. TypeOK'
  BY DEF IInv, TypeOK, InsertTicket, Home, Settled, Parts, SeatParts, Statuses
<1>2. OnlyMoves(q)
  BY DEF IInv, TypeOK, OnlyMoves, InsertTicket
<1>3. BookingShape(q)'
  BY DEF IInv, TypeOK, Shapes, BookingShape, InsertTicket, BookingStages,
         WrittenBy, SeatsOf, IsCouple, Forms, SeatParts
<1>4. SeatExclusive'
  <2>1. ASSUME NEW b \in Bookers, NEW p \in SeatParts, Live(b, p)'
        PROVE  Live(b, p) /\ form'[b] = form[b]
    BY <2>1 DEF IInv, TypeOK, Shapes, BookingShape, NoRows, Parts, SeatParts,
                Live, InsertTicket
  <2> QED BY <2>1, ExclusionFrame DEF IInv
<1>5. pc[q] # "ok"
  BY DEF InsertTicket, Inserting, InsertStage
<1>6. Shapes'
  BY <1>2, <1>3, <1>5, OthersKeepShape DEF Shapes
<1> QED
  BY <1>1, <1>4, <1>6 DEF IInv

LEMMA CommitBookingInv ==
  ASSUME IInv, NEW q \in Bookers, CommitBooking(q)
  PROVE  IInv'
<1> USE RequestsDisjoint, NoneIsFresh DEF Requests
<1>a. /\ target[q] = q /\ row[q] = NoRows /\ form[q] \in Forms
      /\ wrote[q] = SeatsOf(q) \cup {"ticket"}
  BY DEF IInv, Shapes, BookingShape, WrittenBy, CommitBooking
<1>b. row' = [row EXCEPT ![q] = [p \in Parts |->
                IF p \in wrote[q] THEN FirstStatus[p] ELSE row[q][p]]]
  BY <1>a DEF CommitBooking, CommitRows, IInv, TypeOK
<1>c. Committed(q)'
  BY <1>a, <1>b DEF IInv, TypeOK, CommitBooking, Committed, SeatsOf, IsCouple,
                    NoRows, FirstStatus, Parts, SeatParts
<1>1. TypeOK'
  BY <1>a, <1>b, <1>c DEF IInv, TypeOK, CommitBooking, CommitRows, Answer,
                          Home, Settled, Parts, SeatParts, Statuses,
                          FirstStatus
<1>2. OnlyMoves(q)
  BY <1>a, <1>b, <1>c DEF IInv, TypeOK, OnlyMoves, CommitBooking, CommitRows,
                          Answer
<1>3. BookingShape(q)'
  BY <1>a, <1>b, <1>c DEF IInv, TypeOK, Shapes, BookingShape, CommitBooking,
                          CommitRows, Answer, BookingStages, WrittenBy, Home
<1>4. SeatExclusive'
  <2>1. ASSUME NEW b \in Bookers, NEW p \in SeatParts, Live(b, p)'
        PROVE  Live(b, p) /\ form'[b] = form[b]
    BY <2>1 DEF IInv, TypeOK, Shapes, BookingShape, WrittenBy, SeatsOf, NoRows,
                Parts, SeatParts, Live, CommitBooking, CommitRows, Answer
  <2> QED BY <2>1, ExclusionFrame DEF IInv
<1>5. pc[q] # "ok"
  BY DEF CommitBooking, Inserting, InsertStage
<1>6. Shapes'
  BY <1>2, <1>3, <1>5, OthersKeepShape DEF Shapes
<1> QED
  BY <1>1, <1>4, <1>6 DEF IInv

LEMMA SubmitCancelInv ==
  ASSUME IInv, NEW q \in Cancellers, SubmitCancel(q)
  PROVE  IInv'
<1> USE RequestsDisjoint, NoneIsFresh DEF Requests
<1>a. PICK t \in Bookers, half \in SeatParts :
        /\ row[t][half] # "NONE"
        /\ target' = [target EXCEPT ![q] = t]
        /\ scope' = [scope EXCEPT ![q] = CancelScope(t, half)]
  BY DEF SubmitCancel
<1>b. pc[t] = "ok" /\ CancelScope(t, half) = SeatsOf(t)
  <2>1. pc[t] = "ok"
    BY <1>a DEF IInv, Shapes, BookingShape, NoRows, SeatParts, Parts
  <2>2. IsCouple(t) \/ half = "primary"
    BY <1>a, <2>1 DEF IInv, Shapes, BookingShape, Committed, SeatParts
  <2> QED BY <2>1, <2>2 DEF CancelScope, SeatsOf
<1>1. TypeOK'
  BY <1>a, <1>b DEF IInv, TypeOK, SubmitCancel, Home, Settled, Parts,
                    SeatParts, Statuses, CancelScope
<1>2. OnlyMoves(q)
  BY <1>a, <1>b DEF IInv, TypeOK, OnlyMoves, SubmitCancel
<1>3. CancelShape(q)'
  BY <1>a, <1>b DEF IInv, TypeOK, Shapes, CancelShape, SubmitCancel,
                    CancelStages, SeatsOf, IsCouple, Settled, Home
<1>4. SeatExclusive'
  <2>1. ASSUME NEW b \in Bookers, NEW p \in SeatParts, Live(b, p)'
        PROVE  Live(b, p) /\ form'[b] = form[b]
    BY <2>1 DEF IInv, TypeOK, Shapes, BookingShape, NoRows, Parts, SeatParts,
                Live, SubmitCancel
  <2> QED BY <2>1, ExclusionFrame DEF IInv
<1>5. Shapes'
  BY <1>2, <1>3, OthersKeepShape DEF Shapes
<1> QED
  BY <1>1, <1>4, <1>5 DEF IInv

LEMMA CancelReservationsInv ==
  ASSUME IInv, NEW q \in Cancellers, CancelReservations(q)
  PROVE  IInv'
<1> USE RequestsDisjoint, NoneIsFresh DEF Requests
<1>1. TypeOK'
  BY DEF IInv, TypeOK, CancelReservations, Home, Settled, Parts, SeatParts,
         Statuses
<1>2. OnlyMoves(q)
  BY DEF IInv, TypeOK, OnlyMoves, CancelReservations
<1>3. CancelShape(q)'
  BY DEF IInv, TypeOK, Shapes, CancelShape, CancelReservations, CancelStages,
         SeatsOf, IsCouple, Settled, Home
<1>4. SeatExclusive'
  <2>1. ASSUME NEW b \in Bookers, NEW p \in SeatParts, Live(b, p)'
        PROVE  Live(b, p) /\ form'[b] = form[b]
    BY <2>1 DEF IInv, TypeOK, Shapes, BookingShape, NoRows, Parts, SeatParts,
                Live, CancelReservations
  <2> QED BY <2>1, ExclusionFrame DEF IInv
<1>5. Shapes'
  BY <1>2, <1>3, OthersKeepShape DEF Shapes
<1> QED
  BY <1>1, <1>4, <1>5 DEF IInv

LEMMA CancelTicketsInv ==
  ASSUME IInv, NEW q \in Cancellers, CancelTickets(q)
  PROVE  IInv'
<1> USE RequestsDisjoint, NoneIsFresh DEF Requests
<1>1. TypeOK'
  BY DEF IInv, TypeOK, CancelTickets, Home, Settled, Parts, SeatParts,
         Statuses, TicketsOf
<1>2. OnlyMoves(q)
  BY DEF IInv, TypeOK, OnlyMoves, CancelTickets
<1>3. CancelShape(q)'
  BY DEF IInv, TypeOK, Shapes, CancelShape, CancelTickets, CancelStages,
         SeatsOf, IsCouple, Settled, Home, TicketsOf, SeatParts
<1>4. SeatExclusive'
  <2>1. ASSUME NEW b \in Bookers, NEW p \in SeatParts, Live(b, p)'
        PROVE  Live(b, p) /\ form'[b] = form[b]
    BY <2>1 DEF IInv, TypeOK, Shapes, BookingShape, NoRows, Parts, SeatParts,
                Live, CancelTickets
  <2> QED BY <2>1, ExclusionFrame DEF IInv
<1>5. Shapes'
  BY <1>2, <1>3, OthersKeepShape DEF Shapes
<1> QED
  BY <1>1, <1>4, <1>5 DEF IInv

LEMMA CommitCancelInv ==
  ASSUME IInv, NEW q \in Cancellers, CommitCancel(q)
  PROVE  IInv'
<1> USE RequestsDisjoint, NoneIsFresh DEF Requests
<1>a. PICK t \in Bookers : /\ target[q] = t /\ pc[t] = "ok"
                          /\ wrote[q] = SeatsOf(t) \cup {"ticket"}
  BY DEF IInv, Shapes, CancelShape, CommitCancel, Settled
<1>b. row' = [row EXCEPT ![t] = [p \in Parts |->
                IF p \in wrote[q] THEN "CANCELLED" ELSE row[t][p]]]
  BY <1>a DEF CommitCancel, CommitRows, CancelledStatus, IInv, TypeOK
<1>1. TypeOK'
  BY <1>a, <1>b DEF IInv, TypeOK, CommitCancel, Answer, Home, Settled, Parts,
                    SeatParts, Statuses
<1>2. OnlyMoves(q)
  <2>1. Committed(t)'
    BY <1>a, <1>b DEF IInv, TypeOK, Shapes, BookingShape, Committed, SeatsOf,
                      IsCouple, CommitCancel, Answer, Parts, SeatParts
  <2> QED
    BY <1>a, <1>b, <2>1 DEF IInv, TypeOK, OnlyMoves, CommitCancel, Answer
<1>3. CancelShape(q)'
  BY <1>a, <1>b DEF IInv, TypeOK, Shapes, CancelShape, CommitCancel, Answer,
                    CancelStages, SeatsOf, IsCouple, Settled, Home
<1>4. SeatExclusive'
  <2>1. ASSUME NEW b \in Bookers, NEW p \in SeatParts, Live(b, p)'
        PROVE  Live(b, p) /\ form'[b] = form[b]
    BY <1>a, <1>b, <2>1 DEF IInv, TypeOK, Shapes, BookingShape, NoRows, Parts,
                            SeatParts, Live, CommitCancel, Answer
  <2> QED BY <2>1, ExclusionFrame DEF IInv
<1>5. Shapes'
  BY <1>2, <1>3, OthersKeepShape DEF Shapes
<1> QED
  BY <1>1, <1>4, <1>5 DEF IInv

LEMMA LookUpTicketInv ==
  ASSUME IInv, NEW q \in Scanners, LookUpTicket(q)
  PROVE  IInv'
<1> USE RequestsDisjoint, NoneIsFresh DEF Requests
<1>1. TypeOK'
  BY DEF IInv, TypeOK, LookUpTicket, Home, Settled, Parts, SeatParts, Statuses
<1>2. OnlyMoves(q)
  BY DEF IInv, TypeOK, OnlyMoves, LookUpTicket
<1>3. ScanShape(q)'
  BY DEF IInv, TypeOK, Shapes, ScanShape, LookUpTicket, ScanStages, Settled,
         Home, Admissible, BookingShape, NoRows, Parts
<1>4. SeatExclusive'
  <2>1. ASSUME NEW b \in Bookers, NEW p \in SeatParts, Live(b, p)'
        PROVE  Live(b, p) /\ form'[b] = form[b]
    BY <2>1 DEF IInv, TypeOK, Shapes, BookingShape, NoRows, Parts, SeatParts,
                Live, LookUpTicket
  <2> QED BY <2>1, ExclusionFrame DEF IInv
<1>5. Shapes'
  BY <1>2, <1>3, OthersKeepShape DEF Shapes
<1> QED
  BY <1>1, <1>4, <1>5 DEF IInv

LEMMA AuthoriseInv ==
  ASSUME IInv, NEW q \in Scanners, Authorise(q)
  PROVE  IInv'
<1> USE RequestsDisjoint, NoneIsFresh DEF Requests
<1>1. TypeOK'
  BY DEF IInv, TypeOK, Authorise, Home, Settled, Parts, SeatParts, Statuses
<1>2. OnlyMoves(q)
  BY DEF IInv, TypeOK, OnlyMoves, Authorise
<1>3. ScanShape(q)'
  BY DEF IInv, TypeOK, Shapes, ScanShape, Authorise, ScanStages, Settled, Home
<1>4. SeatExclusive'
  <2>1. ASSUME NEW b \in Bookers, NEW p \in SeatParts, Live(b, p)'
        PROVE  Live(b, p) /\ form'[b] = form[b]
    BY <2>1 DEF IInv, TypeOK, Shapes, BookingShape, NoRows, Parts, SeatParts,
                Live, Authorise
  <2> QED BY <2>1, ExclusionFrame DEF IInv
<1>5. Shapes'
  BY <1>2, <1>3, OthersKeepShape DEF Shapes
<1> QED
  BY <1>1, <1>4, <1>5 DEF IInv

LEMMA CheckInInv ==
  ASSUME IInv, NEW q \in Scanners, CheckIn(q)
  PROVE  IInv'
<1> USE RequestsDisjoint, NoneIsFresh DEF Requests
<1>a. PICK t \in Bookers : target[q] = t /\ pc[t] = "ok"
  BY DEF IInv, Shapes, ScanShape, CheckIn, Settled
<1>b. row' = [row EXCEPT ![t] = [row[t] EXCEPT !["ticket"] = "CHECKED_IN"]]
  BY <1>a DEF CheckIn, IInv, TypeOK
<1>1. TypeOK'
  BY <1>a, <1>b DEF IInv, TypeOK, CheckIn, Answer, Home, Settled, Parts,
                    SeatParts, Statuses
<1>2. OnlyMoves(q)
  <2>1. Committed(t)'
    BY <1>a, <1>b DEF IInv, TypeOK, Shapes, BookingShape, Committed, IsCouple,
                      CheckIn, Answer, Parts, SeatParts
  <2> QED
    BY <1>a, <1>b, <2>1 DEF IInv, TypeOK, OnlyMoves, CheckIn, Answer
<1>3. ScanShape(q)'
  BY <1>a, <1>b DEF IInv, TypeOK, Shapes, ScanShape, CheckIn, Answer,
                    ScanStages, Settled, Home
<1>4. SeatExclusive'
  <2>1. ASSUME NEW b \in Bookers, NEW p \in SeatParts, Live(b, p)'
        PROVE  Live(b, p) /\ form'[b] = form[b]
    BY <1>a, <1>b, <2>1 DEF IInv, TypeOK, Shapes, BookingShape, NoRows, Parts,
                            SeatParts, Live, CheckIn, Answer
  <2> QED BY <2>1, ExclusionFrame DEF IInv
<1>5. Shapes'
  BY <1>2, <1>3, OthersKeepShape DEF Shapes
<1> QED
  BY <1>1, <1>4, <1>5 DEF IInv

LEMMA StutterInv ==
  ASSUME IInv, UNCHANGED vars
  PROVE  IInv'
<1>1. TypeOK'
  BY DEF IInv, TypeOK, vars
<1>2. Shapes'
  BY BookingFrame, CancelFrame, ScanFrame DEF IInv, Shapes, vars
<1>3. SeatExclusive'
  BY DEF IInv, SeatExclusive, Live, Seat, vars
<1> QED BY <1>1, <1>2, <1>3 DEF IInv

LEMMA EventEndsInv ==
  ASSUME IInv, NEW e \in Events, EventEnds(e)
  PROVE  IInv'
<1>1. TypeOK'
  BY DEF IInv, TypeOK, EventEnds
<1>2. Shapes'
  BY BookingFrame, CancelFrame, ScanFrame DEF IInv, Shapes, EventEnds
<1>3. SeatExclusive'
  BY DEF IInv, SeatExclusive, Live, Seat, EventEnds
<1> QED BY <1>1, <1>2, <1>3 DEF IInv

\* The steps that end in a ROLLBACK, whatever the reason.
LEMMA RefusalRollsBack ==
  ASSUME IInv, NEW q \in Requests,
         \/ q \in Bookers /\ \/ RefuseBooking(q) \/ PartnerTaken(q)
                             \/ SeatAlreadyReserved(q) \/ BreakDeadlock(q)
         \/ q \in Cancellers /\ RefuseCancel(q)
         \/ q \in Scanners /\ (RejectScan(q) \/ RejectUnassigned(q))
         \/ Fail(q)
  PROVE  Rollback(q) /\ (q \in Bookers => pc[q] # "ok")
<1> USE RequestsDisjoint DEF Requests
<1>1. CASE Fail(q)
  BY <1>1 DEF Fail, Settled
<1>2. CASE q \in Bookers /\ BreakDeadlock(q)
  BY <1>2 DEF BreakDeadlock, WaitsFor, Inserting, InsertStage
<1>3. CASE q \in Bookers /\ (RefuseBooking(q) \/ PartnerTaken(q) \/ SeatAlreadyReserved(q))
  BY <1>3 DEF RefuseBooking, PartnerTaken, SeatAlreadyReserved, Inserting,
              InsertStage
<1>4. CASE q \in Cancellers /\ RefuseCancel(q)
  BY <1>4 DEF RefuseCancel
<1>5. CASE q \in Scanners /\ (RejectScan(q) \/ RejectUnassigned(q))
  BY <1>5 DEF RejectScan, RejectUnassigned
<1> QED BY <1>1, <1>2, <1>3, <1>4, <1>5

LEMMA NextInv == IInv /\ [Next]_vars => IInv'
<1> SUFFICES ASSUME IInv, [Next]_vars PROVE IInv'
  OBVIOUS
<1>1. CASE UNCHANGED vars
  BY <1>1, StutterInv
<1>2. ASSUME NEW q \in Bookers,
             SubmitBooking(q) \/ RefuseBooking(q) \/ BookingStep(q)
      PROVE  IInv'
  BY <1>2, RefusalRollsBack, RollbackInv, SubmitBookingInv, PartnerFreeInv,
     InsertReservationInv, InsertTicketInv, CommitBookingInv
     DEF BookingStep, Requests
<1>3. ASSUME NEW q \in Cancellers,
             SubmitCancel(q) \/ RefuseCancel(q) \/ CancelStep(q)
      PROVE  IInv'
  BY <1>3, RefusalRollsBack, RollbackInv, SubmitCancelInv,
     CancelReservationsInv, CancelTicketsInv, CommitCancelInv
     DEF CancelStep, Requests
<1>4. ASSUME NEW q \in Scanners,
             LookUpTicket(q) \/ RejectScan(q) \/ ScanStep(q)
      PROVE  IInv'
  BY <1>4, RefusalRollsBack, RollbackInv, LookUpTicketInv, AuthoriseInv,
     CheckInInv
     DEF ScanStep, Requests
<1>5. ASSUME NEW q \in Requests, Fail(q) PROVE IInv'
  BY <1>5, RefusalRollsBack, RollbackInv
<1>6. ASSUME NEW e \in Events, EventEnds(e) PROVE IInv'
  BY <1>6, EventEndsInv
<1> QED BY <1>1, <1>2, <1>3, <1>4, <1>5, <1>6 DEF Next

-----------------------------------------------------------------------------
(* The theorems.                                                           *)

\* The inductive invariant holds throughout.
THEOREM Invariance == Spec => []IInv
BY InitInv, NextInv, PTL DEF Spec

\* Every variable keeps its type, whatever the number of requests in flight.
THEOREM TypeCorrect == Spec => []TypeOK
<1>1. IInv => TypeOK
  BY DEF IInv
<1> QED BY <1>1, Invariance, PTL

\* createReservationAndTicket and its partial unique index: no two active
\* reservations ever share a chair of an event.
THEOREM SeatsNeverDoubleBooked == Spec => []NoDoubleBooking
<1>1. IInv => NoDoubleBooking
  BY DEF IInv, SeatExclusive, Live, NoDoubleBooking
<1> QED BY <1>1, Invariance, PTL

\* Both reservations of a couple share their status, whichever half is
\* cancelled and wherever a request fails.
THEOREM CouplesStayTogether == Spec => []CoupleTogether
<1>1. IInv => CoupleTogether
  <2> SUFFICES ASSUME IInv, NEW b \in Bookers, IsCouple(b)
               PROVE  row[b]["partner"] = row[b]["primary"]
    BY DEF CoupleTogether
  <2>1. CASE pc[b] = "ok"
    BY <2>1 DEF IInv, Shapes, BookingShape, Committed
  <2>2. CASE pc[b] # "ok"
    BY <2>2 DEF IInv, Shapes, BookingShape, NoRows, Parts, SeatParts
  <2> QED BY <2>1, <2>2
<1> QED BY <1>1, Invariance, PTL

\* A held seat has a ticket that is not cancelled, and a cancelled booking has
\* none that still waits to be admitted.
THEOREM TicketsFollowReservations == Spec => []TicketFollowsReservation
<1>1. IInv => TicketFollowsReservation
  <2> SUFFICES ASSUME IInv, NEW b \in Bookers
               PROVE  /\ row[b]["primary"] = "NONE" <=> row[b]["ticket"] = "NONE"
                      /\ row[b]["primary"] = "ACTIVE" =>
                           row[b]["ticket"] \in {"ISSUED", "CHECKED_IN"}
                      /\ row[b]["primary"] = "CANCELLED" => row[b]["ticket"] # "ISSUED"
    BY DEF TicketFollowsReservation
  <2>1. CASE pc[b] = "ok"
    BY <2>1 DEF IInv, Shapes, BookingShape, Committed
  <2>2. CASE pc[b] # "ok"
    BY <2>2 DEF IInv, Shapes, BookingShape, NoRows, Parts, SeatParts
  <2> QED BY <2>1, <2>2
<1> QED BY <1>1, Invariance, PTL

\* The room of the partner's table is checked when a booking starts; afterwards
\* only the form of another attempt replaces it.
Roomed ==
  \A b \in Bookers :
    IsCouple(b) => TableRoom[TableOf[form[b].partner]] \in EventRooms[form[b].event]

LEMMA NextRoomed ==
  ASSUME TypeOK, Roomed, [Next]_vars
  PROVE  Roomed'
<1>1. ASSUME NEW q \in Bookers, SubmitBooking(q)
      PROVE  Roomed'
  <2>1. PICK e \in Events, t \in Tables, c \in Chairs, partner \in Chairs \cup {None},
             requested \in Rooms \cup {None}, caller \in Callers :
          /\ BookingAllowed(e, t, c, partner, requested, caller)
          /\ form' = [form EXCEPT ![q] =
                         [event |-> e, chair |-> c, partner |-> partner]]
          /\ pc' = [pc EXCEPT ![q] =
                       IF partner = None THEN "insertPrimary" ELSE "checkPartner"]
    BY <1>1, Zenon DEF SubmitBooking
  <2>2. form'[q] = [event |-> e, chair |-> c, partner |-> partner]
        /\ \A b \in Bookers \ {q} : form'[b] = form[b]
    BY <2>1 DEF TypeOK
  <2>3. partner # None => TableRoom[TableOf[partner]] \in EventRooms[e]
    BY <2>1 DEF BookingAllowed
  <2> QED BY <2>2, <2>3 DEF Roomed, IsCouple
<1>2. ASSUME NEW q \in Requests, Rollback(q)
      PROVE  Roomed'
  BY <1>2 DEF Rollback, Roomed, IsCouple, NoForm
<1>3. CASE form' = form
  BY <1>3 DEF Roomed, IsCouple
<1>4. ASSUME NEW q \in Bookers, RefuseBooking(q) \/ BookingStep(q)
      PROVE  Rollback(q) \/ form' = form
  BY <1>4 DEF RefuseBooking, BookingStep, PartnerFree, PartnerTaken, InsertReservation,
              SeatAlreadyReserved, InsertTicket, CommitBooking, BreakDeadlock
<1>5. ASSUME NEW q \in Cancellers, SubmitCancel(q) \/ RefuseCancel(q) \/ CancelStep(q)
      PROVE  Rollback(q) \/ form' = form
  BY <1>5 DEF SubmitCancel, RefuseCancel, CancelStep, CancelReservations, CancelTickets,
              CommitCancel
<1>6. ASSUME NEW q \in Scanners, LookUpTicket(q) \/ RejectScan(q) \/ ScanStep(q)
      PROVE  Rollback(q) \/ form' = form
  BY <1>6 DEF LookUpTicket, RejectScan, ScanStep, Authorise, RejectUnassigned, CheckIn
<1>7. ASSUME NEW q \in Requests, Fail(q)
      PROVE  Rollback(q)
  BY <1>7 DEF Fail
<1>8. CASE \/ UNCHANGED vars
           \/ \E e \in Events : EventEnds(e)
  BY <1>3, <1>8 DEF vars, EventEnds
<1> QED BY <1>1, <1>2, <1>3, <1>4, <1>5, <1>6, <1>7, <1>8 DEF Next, Requests

\* A partner who has a seat sits in a room of the event: the check of the chairs,
\* the tables and the rooms holds until the reservation is cancelled, through
\* every retry of the request (createReservationAndTicket).
THEOREM PartnersSitInTheEvent == Spec => []PartnerInEventRoom
<1>1. Init => Roomed
  BY DEF Init, Roomed, IsCouple, NoForm
<1>2. IInv /\ Roomed /\ [Next]_vars => Roomed'
  BY NextRoomed DEF IInv
<1>3. IInv /\ Roomed => PartnerInEventRoom
  <2> SUFFICES ASSUME IInv, Roomed, NEW b \in Bookers, row[b]["partner"] = "ACTIVE"
               PROVE  TableRoom[TableOf[form[b].partner]] \in EventRooms[form[b].event]
    BY DEF PartnerInEventRoom
  <2>1. CASE pc[b] = "ok"
    BY <2>1 DEF IInv, Shapes, BookingShape, Committed, Roomed
  <2>2. CASE pc[b] # "ok"
    BY <2>2 DEF IInv, Shapes, BookingShape, NoRows, Parts, SeatParts
  <2> QED BY <2>1, <2>2
<1> QED BY <1>1, <1>2, <1>3, Invariance, PTL DEF Spec

-----------------------------------------------------------------------------
(* The service implements the ledger of seats.                             *)

\* A step that touches no committed reservation leaves the ledger alone.
LEMMA LedgerFrame ==
  ASSUME \A b \in Bookers, p \in SeatParts :
           /\ row'[b][p] = row[b][p]
           /\ row[b][p] = "ACTIVE" => form'[b] = form[b]
  PROVE  UNCHANGED <<SeatsHeld, BookingsReleased>>
<1>1. ASSUME NEW b \in Bookers PROVE SeatsHeld[b]' = SeatsHeld[b]
  BY DEF SeatsHeld, Seat
<1>2. SeatsHeld' = SeatsHeld
  BY <1>1 DEF SeatsHeld
<1>3. BookingsReleased' = BookingsReleased
  BY DEF BookingsReleased, SeatParts
<1> QED BY <1>2, <1>3

LEMMA BookingIsOneStep ==
  ASSUME IInv, NEW q \in Bookers, CommitBooking(q)
  PROVE  Ledger!Book(q)
<1> USE RequestsDisjoint DEF Requests
<1> DEFINE S == {Seat(q, p) : p \in SeatsOf(q)}
<1>1. /\ target[q] = q /\ row[q] = NoRows /\ form[q] \in Forms
      /\ wrote[q] = SeatsOf(q) \cup {"ticket"} /\ form' = form
  BY DEF IInv, Shapes, BookingShape, WrittenBy, CommitBooking
<1>2. row' = [row EXCEPT ![q] = [p \in Parts |->
                IF p \in wrote[q] THEN FirstStatus[p] ELSE row[q][p]]]
  BY <1>1 DEF CommitBooking, CommitRows, IInv, TypeOK
<1>3. SeatsOf(q) \subseteq SeatParts /\ SeatsOf(q) # {}
  BY DEF SeatsOf, SeatParts
<1>4. \A p \in SeatParts : row'[q][p] = "ACTIVE" <=> p \in SeatsOf(q)
  BY <1>1, <1>2 DEF IInv, TypeOK, FirstStatus, NoRows, SeatParts, Parts
<1>5. \A b \in Bookers \ {q} : row'[b] = row[b]
  BY <1>2 DEF IInv, TypeOK
<1>6. SeatsHeld[q] = {} /\ q \notin BookingsReleased
  BY <1>1 DEF SeatsHeld, BookingsReleased, NoRows, SeatParts, Parts
<1>7. S \in SUBSET (Events \X Chairs) /\ S # {}
  <2>1. ASSUME NEW p \in SeatsOf(q) PROVE Seat(q, p) \in Events \X Chairs
    <3>1. /\ form[q].event \in Events /\ form[q].chair \in Chairs
          /\ form[q].partner \in Chairs \cup {None}
      BY <1>1 DEF Forms
    <3>2. p # "primary" => form[q].partner # None
      BY DEF SeatsOf, IsCouple
    <3> QED BY <3>1, <3>2 DEF Seat
  <2> QED BY <1>3, <2>1
<1>8. \A s \in S : Ledger!Free(s)
  <2> SUFFICES ASSUME NEW p \in SeatsOf(q), NEW b \in Bookers,
                      Seat(q, p) \in SeatsHeld[b]
               PROVE  FALSE
    BY DEF Ledger!Free
  <2>1. PICK r \in SeatParts : row[b][r] = "ACTIVE" /\ Seat(b, r) = Seat(q, p)
    BY DEF SeatsHeld
  <2>2. Live(b, r) /\ Live(q, p)
    BY <1>1, <2>1 DEF Live
  <2>3. b = q
    BY <1>3, <2>1, <2>2 DEF IInv, SeatExclusive
  <2> QED BY <1>1, <2>1, <2>3 DEF NoRows, SeatParts, Parts
<1>9. SeatsHeld' = [SeatsHeld EXCEPT ![q] = S]
  <2>1. ASSUME NEW b \in Bookers \ {q} PROVE SeatsHeld[b]' = SeatsHeld[b]
    BY <1>1, <1>5 DEF SeatsHeld, Seat
  <2>2. SeatsHeld[q]' = S
    BY <1>1, <1>3, <1>4 DEF SeatsHeld, Seat
  <2> QED BY <2>1, <2>2 DEF SeatsHeld
<1>10. BookingsReleased' = BookingsReleased
  <2>1. row'[q]["primary"] # "CANCELLED" /\ row[q]["primary"] # "CANCELLED"
    BY <1>1, <1>2 DEF IInv, TypeOK, FirstStatus, NoRows, SeatParts, Parts,
                      SeatsOf
  <2> QED BY <1>5, <2>1 DEF BookingsReleased
<1> QED
  BY <1>6, <1>7, <1>8, <1>9, <1>10 DEF Ledger!Book

LEMMA CancellationIsOneStep ==
  ASSUME IInv, NEW q \in Cancellers, CommitCancel(q)
  PROVE  \/ \E b \in Bookers : Ledger!Release(b)
         \/ UNCHANGED <<SeatsHeld, BookingsReleased>>
<1> USE RequestsDisjoint DEF Requests
<1>1. PICK t \in Bookers : /\ target[q] = t /\ pc[t] = "ok"
                           /\ wrote[q] = SeatsOf(t) \cup {"ticket"}
  BY DEF IInv, Shapes, CancelShape, CommitCancel, Settled
<1>2. row' = [row EXCEPT ![t] = [p \in Parts |->
                IF p \in wrote[q] THEN "CANCELLED" ELSE row[t][p]]]
  BY <1>1 DEF CommitCancel, CommitRows, CancelledStatus, IInv, TypeOK
<1>3. form' = form /\ \A b \in Bookers \ {t} : row'[b] = row[b]
  BY <1>2 DEF CommitCancel, IInv, TypeOK
<1>4. Committed(t)
  BY <1>1 DEF IInv, Shapes, BookingShape
<1>5. \A p \in SeatParts : row'[t][p] # "ACTIVE"
  BY <1>1, <1>2, <1>4 DEF IInv, TypeOK, Committed, SeatsOf, SeatParts, Parts
<1>6. row'[t]["primary"] = "CANCELLED"
  BY <1>1, <1>2 DEF IInv, TypeOK, SeatsOf, SeatParts, Parts
<1>7. SeatsHeld' = [SeatsHeld EXCEPT ![t] = {}]
  <2>1. ASSUME NEW b \in Bookers \ {t} PROVE SeatsHeld[b]' = SeatsHeld[b]
    BY <1>3 DEF SeatsHeld, Seat
  <2>2. SeatsHeld[t]' = {}
    BY <1>5 DEF SeatsHeld
  <2> QED BY <2>1, <2>2 DEF SeatsHeld
<1>8. BookingsReleased' = BookingsReleased \cup {t}
  BY <1>3, <1>6 DEF BookingsReleased
<1>9. CASE row[t]["primary"] = "ACTIVE"
  <2>1. SeatsHeld[t] # {}
    BY <1>9 DEF SeatsHeld, SeatParts
  <2> QED BY <1>7, <1>8, <2>1 DEF Ledger!Release
<1>10. CASE row[t]["primary"] = "CANCELLED"
  <2>1. SeatsHeld[t] = {}
    BY <1>4, <1>10 DEF SeatsHeld, Committed, SeatParts
  <2>2. t \in BookingsReleased
    BY <1>10 DEF BookingsReleased
  <2>3. SeatsHeld' = SeatsHeld
    BY <1>7, <2>1 DEF SeatsHeld
  <2> QED BY <1>8, <2>2, <2>3
<1> QED BY <1>4, <1>9, <1>10 DEF Committed

\* Every other step changes no committed reservation.
LEMMA OtherStepsAreInvisible ==
  ASSUME IInv, [Next]_vars,
         \A q \in Bookers : ~ CommitBooking(q),
         \A q \in Cancellers : ~ CommitCancel(q)
  PROVE  UNCHANGED <<SeatsHeld, BookingsReleased>>
<1> USE RequestsDisjoint DEF Requests
<1> SUFFICES ASSUME NEW b \in Bookers, NEW p \in SeatParts
             PROVE  /\ row'[b][p] = row[b][p]
                    /\ row[b][p] = "ACTIVE" => form'[b] = form[b]
  BY LedgerFrame
<1>1. ASSUME NEW q \in Requests, Rollback(q), q \in Bookers => pc[q] # "ok"
      PROVE  /\ row'[b][p] = row[b][p]
             /\ row[b][p] = "ACTIVE" => form'[b] = form[b]
  BY <1>1 DEF Rollback, IInv, Shapes, BookingShape, NoRows, SeatParts, Parts
<1>2. ASSUME NEW q \in Bookers, SubmitBooking(q)
      PROVE  /\ row'[b][p] = row[b][p]
             /\ row[b][p] = "ACTIVE" => form'[b] = form[b]
  BY <1>2 DEF SubmitBooking, IInv, TypeOK, Shapes, BookingShape, NoRows,
              SeatParts, Parts
<1>3. ASSUME NEW q \in Scanners, CheckIn(q)
      PROVE  /\ row'[b][p] = row[b][p]
             /\ row[b][p] = "ACTIVE" => form'[b] = form[b]
  BY <1>3 DEF CheckIn, IInv, TypeOK, SeatParts, Parts
<1>4. CASE UNCHANGED <<row, form>>
  BY <1>4
<1>5. ASSUME NEW q \in Bookers,
             SubmitBooking(q) \/ RefuseBooking(q) \/ BookingStep(q)
      PROVE  /\ row'[b][p] = row[b][p]
             /\ row[b][p] = "ACTIVE" => form'[b] = form[b]
  BY <1>1, <1>2, <1>4, <1>5, RefusalRollsBack
     DEF BookingStep, PartnerFree, InsertReservation, InsertTicket
<1>6. ASSUME NEW q \in Cancellers,
             SubmitCancel(q) \/ RefuseCancel(q) \/ CancelStep(q)
      PROVE  /\ row'[b][p] = row[b][p]
             /\ row[b][p] = "ACTIVE" => form'[b] = form[b]
  BY <1>1, <1>4, <1>6, RefusalRollsBack
     DEF CancelStep, SubmitCancel, CancelReservations, CancelTickets
<1>7. ASSUME NEW q \in Scanners,
             LookUpTicket(q) \/ RejectScan(q) \/ ScanStep(q)
      PROVE  /\ row'[b][p] = row[b][p]
             /\ row[b][p] = "ACTIVE" => form'[b] = form[b]
  BY <1>1, <1>3, <1>4, <1>7, RefusalRollsBack DEF ScanStep, LookUpTicket,
                                                  Authorise
<1>8. ASSUME NEW q \in Requests, Fail(q)
      PROVE  /\ row'[b][p] = row[b][p]
             /\ row[b][p] = "ACTIVE" => form'[b] = form[b]
  BY <1>1, <1>8, RefusalRollsBack
<1>9. CASE \E e \in Events : EventEnds(e)
  BY <1>4, <1>9 DEF EventEnds
<1>10. CASE UNCHANGED vars
  BY <1>4, <1>10 DEF vars
<1> QED BY <1>5, <1>6, <1>7, <1>8, <1>9, <1>10 DEF Next

\* Seen from outside, a booking takes all its seats in one step, only if all
\* are free, and a cancellation gives all of them back in one step, for good:
\* the statements, locks and rollbacks in between are invisible.
THEOREM ImplementsLedger == Spec => LedgerSpec
<1>1. Init => Ledger!Init
  BY DEF Init, Ledger!Init, SeatsHeld, BookingsReleased, SeatParts, Parts
<1>2. IInv /\ [Next]_vars => [Ledger!Next]_(Ledger!ledger)
  <2> SUFFICES ASSUME IInv, [Next]_vars PROVE [Ledger!Next]_(Ledger!ledger)
    OBVIOUS
  <2>1. CASE \E q \in Bookers : CommitBooking(q)
    BY <2>1, BookingIsOneStep DEF Ledger!Next
  <2>2. CASE \E q \in Cancellers : CommitCancel(q)
    BY <2>2, CancellationIsOneStep DEF Ledger!Next, Ledger!ledger
  <2>3. CASE /\ \A q \in Bookers : ~ CommitBooking(q)
             /\ \A q \in Cancellers : ~ CommitCancel(q)
    BY <2>3, OtherStepsAreInvisible DEF Ledger!ledger
  <2> QED BY <2>1, <2>2, <2>3
<1> QED
  BY <1>1, <1>2, Invariance, PTL DEF Spec, LedgerSpec, Ledger!Spec
=============================================================================
