--------------------------- MODULE MCEventSchedule ---------------------------
(***************************************************************************)
(* Values for the constants of EventSchedule.                              *)
(***************************************************************************)
EXTENDS EventSchedule, TLC

CONSTANTS ann, bob, hall, loft

\* Every room is ann's: bob can only draft events, and never place them.
OneTenant == (hall :> ann) @@ (loft :> ann)
OneRoom == (hall :> ann)

NoTables == {{}}

Wish(primary, rooms, start, end) ==
  [primary |-> primary, rooms |-> rooms, start |-> start, end |-> end]

\* Both rooms or the hall alone, one after the other; and what is over before it
\* has begun.  Two events ask for the same, or for hours that touch.
HallOrBoth ==
  {Wish(hall, {hall, loft}, 1, 2), Wish(hall, {hall}, 2, 3), Wish(hall, {hall}, 2, 2)}
HallOnly == {Wish(hall, {hall}, 1, 2)}

\* The events are alike, and so are the requests.
Alike == {f @@ g : f \in Permutations(EventIds), g \in Permutations(Editors)}

=============================================================================
