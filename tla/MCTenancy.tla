------------------------------- MODULE MCTenancy -------------------------------
(***************************************************************************)
(* An instance of Tenancy for TLC: client ann has staff gus, building b1,  *)
(* and event e1 with a table in room r1; client bob has event e2.          *)
(***************************************************************************)
EXTENDS Tenancy, TLC

CONSTANTS ann, bob, gus, b1, r1, e1, e2, t1, p1, p2

GusOfAnn == {[id |-> gus, client |-> ann]}
B1OfAnn == {[id |-> b1, client |-> ann]}
R1InB1 == {[id |-> r1, building |-> b1]}
OneEach == {[id |-> e1, client |-> ann, room |-> r1], [id |-> e2, client |-> bob, room |-> None]}
T1InR1 == {[id |-> t1, event |-> e1, room |-> r1]}

=============================================================================
