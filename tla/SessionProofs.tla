----------------------------- MODULE SessionProofs -----------------------------
(***************************************************************************)
(* That no page opens for a user of a role it is not for, whatever number  *)
(* of calls is under way.                                                  *)
(*                                                                         *)
(* The guards and the opening of the page are two steps, and an answer in  *)
(* between may replace the user.  The invariant says what carries over: a  *)
(* navigation the guards let pass is right for the user of this moment.    *)
(* It holds because everything that sets the user also navigates, which    *)
(* calls off the navigation that was let pass.                             *)
(***************************************************************************)
EXTENDS Session, TLAPS

PassedRight ==
  /\ going = [to |-> going.to, passed |-> going.passed]
  /\ going.passed /\ going.to \in Restricted => user \in RolesOf(going.to)

\* A navigation begins without the guards' consent.
LEMMA NavigationsUnasked ==
  ASSUME NEW p, Navigate(p)
  PROVE  ~ going'.passed /\ going' = [to |-> going'.to, passed |-> going'.passed]
BY DEF Navigate, Towards, Nowhere

\* The guards let a user through to a restricted page only if his role is one of
\* those the page is for.
LEMMA GuardsGuard ==
  ASSUME NEW p \in Restricted, Verdict(p) = p
  PROVE  user \in RolesOf(p)
<1>1. CASE p = "clients"
  BY <1>1 DEF Verdict, OwnVerdict, SuperAdminOnly, Guarded, PublicPages, RolesOf
<1>2. CASE p = "billing"
  BY <1>2 DEF Verdict, OwnVerdict, ClientAdminOnly, Guarded, PublicPages, RolesOf
<1>3. CASE p \in AdminPages
  BY <1>3 DEF Verdict, OwnVerdict, AdminOnly, Guarded, PublicPages, AdminPages, RolesOf
<1> QED
  BY <1>1, <1>2, <1>3 DEF Restricted

LEMMA InitPassedRight == Init => PassedRight
BY DEF Init, PassedRight

LEMMA NextPassedRight ==
  ASSUME PassedRight, [Next]_vars
  PROVE  PassedRight'
<1>1. ASSUME AskGuards
      PROVE  PassedRight'
  <2>1. CASE Verdict(going.to) = going.to
    <3>1. going' = [to |-> going.to, passed |-> TRUE] /\ user' = user
      BY <1>1, <2>1 DEF AskGuards, PassedRight
    <3>2. going.to \in Restricted => user \in RolesOf(going.to)
      BY <2>1, GuardsGuard
    <3> QED
      BY <3>1, <3>2 DEF PassedRight
  <2>2. CASE Verdict(going.to) # going.to
    BY <1>1, <2>2, NavigationsUnasked DEF AskGuards, PassedRight
  <2> QED
    BY <2>1, <2>2
<1>2. ASSUME Open
      PROVE  PassedRight'
  BY <1>2 DEF Open, Nowhere, PassedRight
<1>3. ASSUME NEW p \in Paths, Follow(p) \/ Reload(p)
      PROVE  PassedRight'
  BY <1>3, NavigationsUnasked DEF Follow, Reload, PassedRight
<1>4. ASSUME Login \/ VerifyOtp \/ SendErrand
      PROVE  PassedRight'
  BY <1>4 DEF Login, VerifyOtp, SendErrand, Send, PassedRight
<1>5. ASSUME NEW call \in calls,
             CodeRequired(call) \/ StaffLoggedIn(call) \/ CodeVerified(call) \/ ErrandDone(call)
      PROVE  PassedRight'
  BY <1>5, NavigationsUnasked
     DEF CodeRequired, StaffLoggedIn, CodeVerified, ErrandDone, PassedRight
<1>6. ASSUME NEW call \in calls, CallFailed(call)
      PROVE  PassedRight'
  BY <1>6 DEF CallFailed, PassedRight
<1>7. ASSUME Logout
      PROVE  PassedRight'
  BY <1>7, NavigationsUnasked DEF Logout, PassedRight
<1>8. CASE UNCHANGED vars
  BY <1>8 DEF vars, PassedRight
<1> QED
  BY <1>1, <1>2, <1>3, <1>4, <1>5, <1>6, <1>7, <1>8 DEF Next

\* Only Open and Reload change the page.
LEMMA NextOpensRight ==
  ASSUME PassedRight, [Next]_vars
  PROVE  [OpenRight]_vars
<1>1. ASSUME Open
      PROVE  OpenRight
  BY <1>1 DEF Open, OpenRight, PassedRight
<1>2. ASSUME NEW p \in Paths, Reload(p)
      PROVE  OpenRight
  <2>1. page' \notin Restricted
    BY <1>2 DEF Reload, Restricted, AdminPages
  <2> QED
    BY <2>1 DEF OpenRight
<1>3. ASSUME ~ Open, ~ \E p \in Paths : Reload(p), Next
      PROVE  page' = page
  BY <1>3 DEF Next, AskGuards, Follow, Login, VerifyOtp, SendErrand, Send, CodeRequired,
              StaffLoggedIn, CodeVerified, ErrandDone, CallFailed, Logout
<1> QED
  BY <1>1, <1>2, <1>3 DEF OpenRight

\* A page that is for some roles only opens for users of these roles only,
\* although answers replace the user between the guards and the opening.
THEOREM OpenedForTheRightUsers == Spec => OpensForItsUser
<1>1. PassedRight /\ [Next]_vars => [OpenRight]_vars
  BY NextOpensRight
<1> QED
  BY <1>1, InitPassedRight, NextPassedRight, PTL DEF Spec, OpensForItsUser

=============================================================================
