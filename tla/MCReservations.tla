---------------------------- MODULE MCReservations ----------------------------
(***************************************************************************)
(* Instances of Reservations for TLC.  Chairs a1 and a2 stand at table ta; *)
(* tb has none.  The gate is assigned to the event e1 only.                *)
(***************************************************************************)
EXTENDS Reservations, TLC

CONSTANTS e1, e2, r1, r2, ta, tb, a1, a2, c1, gate, book1, book2, del1

OneRoom == [e \in Events |-> {r1}]
InRoom1 == [e \in Events |-> r1]
OwnedByC1 == [e \in Events |-> c1]
TablesInRoom1 == [t \in Tables |-> r1]
RoomEach == [e \in Events |-> IF e = e1 THEN {r1} ELSE {r2}]
PrimaryApart == [e \in Events |-> IF e = e1 THEN r1 ELSE r2]
TablesApart == [t \in Tables |-> IF t = ta THEN r1 ELSE r2]
AllAtA == [c \in Chairs |-> ta]
GateAtE1 == {<<gate, e1>>}
=============================================================================
