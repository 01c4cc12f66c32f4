------------------------------ MODULE SeatLedger ------------------------------
(***************************************************************************)
(* What the booking service promises, with no requests, locks or           *)
(* transactions in it: a booking takes all its seats in one step, only if  *)
(* every one of them is free, and gives all of them back in one step, for  *)
(* good.                                                                   *)
(***************************************************************************)

CONSTANTS Bookings, Seats

VARIABLES
  held,      \* booking -> the seats it holds
  released   \* the bookings that have given their seats back

ledger == <<held, released>>

Free(s) == \A b \in Bookings : s \notin held[b]

Init ==
  /\ held = [b \in Bookings |-> {}]
  /\ released = {}

Book(b) ==
  /\ held[b] = {}
  /\ b \notin released
  /\ \E S \in SUBSET Seats :
       /\ S # {}
       /\ \A s \in S : Free(s)
       /\ held' = [held EXCEPT ![b] = S]
  /\ UNCHANGED released

Release(b) ==
  /\ held[b] # {}
  /\ held' = [held EXCEPT ![b] = {}]
  /\ released' = released \cup {b}

Next == \E b \in Bookings : Book(b) \/ Release(b)

Spec == Init /\ [][Next]_ledger
=============================================================================
