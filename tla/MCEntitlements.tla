---------------------------- MODULE MCEntitlements ----------------------------
(***************************************************************************)
(* Instances of Entitlements for TLC: small quotas in the order of those   *)
(* of subscriptionPlans.ts, FREE below GO below PRO.                       *)
(***************************************************************************)
EXTENDS Entitlements, TLC

CONSTANTS ann, e1, e2, e3, q1, q2

OfAnn == [e \in EventIds |-> ann]
Quota == [FREE |-> 1, GO |-> 2, PRO |-> Unlimited]

Alike == Permutations(EventIds) \cup Permutations(Requests)
=============================================================================
