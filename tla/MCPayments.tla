------------------------------ MODULE MCPayments ------------------------------
(***************************************************************************)
(* Instances of Payments for TLC.                                          *)
(***************************************************************************)
EXTENDS Payments, TLC

CONSTANTS ann, bob, p1, p2, q1, q2

AlikePayments == Permutations(PaymentIds) \cup Permutations(Requests)
=============================================================================
