-------------------------------- MODULE Session --------------------------------
(***************************************************************************)
(* Who is logged in, in one tab, and which page is open: AuthService, the  *)
(* guards of the routes, the pages of the login, and every answer that     *)
(* sends the user to another page although its page may be gone by then.   *)
(*                                                                         *)
(* The router opens a page in two steps.  The guards are asked; then the   *)
(* code of the page is fetched, while everything else goes on.  A new      *)
(* navigation calls off the one that is under way.                         *)
(***************************************************************************)
EXTENDS FiniteSets, Naturals

CONSTANT MaxCalls   \* bound on the calls that are not answered yet

VARIABLES
  user,         \* role of currentUser, or "none"
  otpUsername,  \* a user name is kept in the session storage
  page,         \* the page that is open; "blank" before the first
  going,        \* the navigation under way: its page, and whether the guards let it pass
  calls         \* calls not answered yet

vars == <<user, otpUsername, page, going, calls>>

Admins == {"SUPER_ADMIN", "CLIENT_ADMIN", "ADMIN"}
Roles == Admins \cup {"GATE_STAFF"}

\* "event" stands for the pages of all events, "ticket" for those of all tickets,
\* "events" also for the venues and the gate staff, "scanner" for the guest list.
PublicPages == {"welcome", "login", "signup", "verify-otp"}
AdminPages == {"dashboard", "events", "event", "ticket"}
Restricted == AdminPages \cup {"clients", "billing"}
Pages == PublicPages \cup Restricted \cup {"scanner"}
Paths == Pages \cup {"home"}
Grouped == {"event", "ticket", "events", "scanner"}

-----------------------------------------------------------------------------
(* The router.                                                             *)

Nowhere == [to |-> "none", passed |-> FALSE]

\* A navigation to the page that is open is skipped, but it is a navigation.
\* A name that stands for several pages may mean another one.
Towards(p) ==
  (IF p # page \/ p \in Grouped THEN {[to |-> p, passed |-> FALSE]} ELSE {})
    \cup (IF p = page THEN {Nowhere} ELSE {})

Navigate(p) == going' \in Towards(p)

\* A guard lets the user through to p, or sends him elsewhere.
Guarded(p, roles, elsewhere) ==
  IF user = "none" THEN "login" ELSE IF user \in roles THEN p ELSE elsewhere

AdminOnly(p) == Guarded(p, Admins, "scanner")
SuperAdminOnly(p) == Guarded(p, {"SUPER_ADMIN"}, "home")
ClientAdminOnly(p) == Guarded(p, {"CLIENT_ADMIN"}, "home")
HomeRedirect == IF user = "ADMIN" THEN "dashboard" ELSE "scanner"

\* Where the guard of a path sends this user; the path itself if it lets him pass.
OwnVerdict(p) ==
  CASE p = "clients" -> SuperAdminOnly(p)
    [] p = "billing" -> ClientAdminOnly(p)
    [] p = "home" -> HomeRedirect
    [] p = "scanner" -> p
    [] OTHER -> AdminOnly(p)

\* The guard of the layout comes first, but not while the layout stays.
Verdict(p) ==
  IF p \in PublicPages THEN p
  ELSE IF user = "none" /\ page \in PublicPages \cup {"blank"} THEN "welcome"
  ELSE OwnVerdict(p)

AskGuards ==
  /\ going.to # "none" /\ ~ going.passed
  /\ IF Verdict(going.to) = going.to
     THEN going' = [going EXCEPT !.passed = TRUE]
     ELSE Navigate(Verdict(going.to))
  /\ UNCHANGED <<user, otpUsername, page, calls>>

Home == IF user = "GATE_STAFF" THEN "scanner" ELSE "dashboard"

\* The constructors of the login and of the signup lead a user on.
Open ==
  /\ going.passed
  /\ page' = going.to
  /\ going' = IF going.to \in {"login", "signup"} /\ user # "none"
              THEN [to |-> Home, passed |-> FALSE] ELSE Nowhere
  /\ UNCHANGED <<user, otpUsername, calls>>

\* A link, or the browser's back and forward.
Follow(p) ==
  /\ page # "blank"
  /\ Navigate(p)
  /\ UNCHANGED <<user, otpUsername, page, calls>>

\* The token is read again; the calls under way are lost.
Reload(p) ==
  /\ page' = "blank"
  /\ going' = [to |-> p, passed |-> FALSE]
  /\ calls' = {}
  /\ UNCHANGED <<user, otpUsername>>

-----------------------------------------------------------------------------
(* Calls whose answers change the user or the page.                        *)

Call(op, arg) == [op |-> op, arg |-> arg]

Send(call) ==
  /\ call \notin calls
  /\ Cardinality(calls) < MaxCalls
  /\ calls' = calls \cup {call}
  /\ UNCHANGED <<user, otpUsername, page, going>>

Login == page = "login" /\ Send(Call("login", FALSE))

\* The code is sent with the user name that is kept, whoever asked for the code.
VerifyOtp == page = "verify-otp" /\ Send(Call("verify", otpUsername))

\* What else ends with a navigation: the page it is sent from, and where it ends.
Errands == {<<"signup", "login">>, <<"event", "event">>, <<"event", "events">>,
            <<"event", "ticket">>, <<"ticket", "event">>}

SendErrand == \E e \in Errands : page = e[1] /\ Send(Call("errand", e[2]))

SetToken(role) == user' = role

\* An administrator has to submit a code next; a client's user name is kept.
CodeRequired(call) ==
  /\ call \in calls /\ call.op = "login"
  /\ calls' = calls \ {call}
  /\ otpUsername' \in {otpUsername, TRUE}
  /\ Navigate("verify-otp")
  /\ UNCHANGED <<user, page>>

StaffLoggedIn(call) ==
  /\ call \in calls /\ call.op = "login"
  /\ calls' = calls \ {call}
  /\ SetToken("GATE_STAFF")
  /\ Navigate("scanner")
  /\ UNCHANGED <<otpUsername, page>>

\* A bug: the answer navigates only if its page is still open.
MutantCodeVerified(call) ==
  /\ call \in calls /\ call.op = "verify"
  /\ calls' = calls \ {call}
  /\ SetToken(IF call.arg THEN "CLIENT_ADMIN" ELSE "SUPER_ADMIN")
  /\ otpUsername' = FALSE
  /\ IF page = "verify-otp" THEN Navigate("dashboard") ELSE UNCHANGED going
  /\ UNCHANGED page

CodeVerified(call) ==
  /\ call \in calls /\ call.op = "verify"
  /\ calls' = calls \ {call}
  /\ SetToken(IF call.arg THEN "CLIENT_ADMIN" ELSE "SUPER_ADMIN")
  /\ otpUsername' = FALSE
  /\ Navigate("dashboard")
  /\ UNCHANGED page

ErrandDone(call) ==
  /\ call \in calls /\ call.op = "errand"
  /\ calls' = calls \ {call}
  /\ Navigate(call.arg)
  /\ UNCHANGED <<user, otpUsername, page>>

CallFailed(call) ==
  /\ call \in calls
  /\ calls' = calls \ {call}
  /\ UNCHANGED <<user, otpUsername, page, going>>

\* The layout has the button.
Logout ==
  /\ page \in Pages \ PublicPages
  /\ user' = "none"
  /\ Navigate("login")
  /\ UNCHANGED <<otpUsername, page, calls>>

-----------------------------------------------------------------------------

Init ==
  /\ user \in Roles \cup {"none"}
  /\ otpUsername = FALSE
  /\ page = "blank"
  /\ going \in [to : Paths, passed : {FALSE}]
  /\ calls = {}

Next ==
  \/ AskGuards \/ Open
  \/ \E p \in Paths : Follow(p) \/ Reload(p)
  \/ Login \/ VerifyOtp \/ SendErrand
  \/ \E call \in calls :
       CodeRequired(call) \/ StaffLoggedIn(call) \/ CodeVerified(call)
         \/ ErrandDone(call) \/ CallFailed(call)
  \/ Logout

Spec == Init /\ [][Next]_vars

-----------------------------------------------------------------------------
(* Properties.                                                             *)

\* The roles a restricted page is for.
RolesOf(p) ==
  CASE p = "clients" -> {"SUPER_ADMIN"}
    [] p = "billing" -> {"CLIENT_ADMIN"}
    [] OTHER -> Admins

OpenRight == page' # page /\ page' \in Restricted => user' \in RolesOf(page')

\* A page that is for some roles only never opens for a user of another role,
\* though the code of a page takes its time to come and an answer that is late,
\* to a code or to a password, may meanwhile replace the user the guards saw.
OpensForItsUser == [][OpenRight]_vars

=============================================================================
