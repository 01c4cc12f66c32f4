-------------------------------- MODULE MCPages --------------------------------
(* Two of everything, for the pages of WebClient.                          *)
EXTENDS WebClient, TLC

CONSTANTS r1, r2, ta, tb, a1, a2, ann, bob, gus, hal, e1, e2, classic, boarding, t1, t2

TablesApart == ta :> r1 @@ tb :> r2
AllAtA == a1 :> ta @@ a2 :> ta
NextAtA == a1 :> a2 @@ a2 :> None
OfBoth == e1 :> ann @@ e2 :> bob

=============================================================================
