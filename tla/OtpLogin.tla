------------------------------- MODULE OtpLogin -------------------------------
(***************************************************************************)
(* Logging in: passwords, one-time codes and the rate limit of             *)
(* auth.service.ts, auth.routes.ts and rateLimit.middleware.ts.            *)
(*                                                                         *)
(* Codes and counters live in two maps of the process and are lost when it *)
(* restarts.  A request runs up to its first await, and from each await to *)
(* the next, in one step.  Codes are numbered in the order they are drawn: *)
(* no two of them are alike.                                               *)
(***************************************************************************)
EXTENDS Integers, Sequences

CONSTANTS
  Requests,       \* requests in flight at a time
  Callers,        \* IP addresses
  LoginPaths, VerifyPaths,  \* the spellings of a path that reach each route
  SuperAdmin,     \* the user name of the environment
  Clients,        \* user names of clients
  Others,         \* any other user names, of guards and of nobody
  Lifetime,       \* of a code, otpExpiryMinutes
  MaxAttempts,    \* wrong guesses a code bears, otpMaxAttempts
  Window,         \* windowMs of the limiter
  MaxPerWindow,   \* path -> max of the limiter of its route
  MaxCodes,       \* bound on the codes that are drawn
  MaxTime,        \* bound on the clock
  None

Users == Clients \cup {SuperAdmin}

\* The limiter has a record per address and path as the client spelled it, but
\* the router overlooks upper and lower case and a slash at the end: one route
\* has as many records for an address as its path has spellings.
Keys == Callers \X (LoginPaths \cup VerifyPaths)
Allowed(k) == MaxPerWindow[k[2]]

ASSUME LoginConstants ==
  /\ Lifetime \in Nat /\ MaxAttempts \in Nat
  /\ Window \in Nat
  /\ MaxPerWindow \in [LoginPaths \cup VerifyPaths -> Nat \ {0}]
  /\ MaxCodes \in Nat /\ MaxTime \in Nat
  /\ SuperAdmin \notin Clients \cup Others /\ Clients \cap Others = {}
  /\ None \notin [code : Nat, expires : Nat, left : Nat]
  /\ None \notin [count : Nat, first : Nat]

VARIABLES
  now,
  account,   \* client -> "active", "inactive" or "deleted"
  attempts,  \* key -> its record in the limiter, or None
  pending,   \* user name -> the code it has to submit, or None
  pc,        \* request -> the await it is at
  who,       \* request -> the user name it was sent with
  code,      \* request -> the code it was let in with
  issued,    \* history: every code, whose it is, and what became of it
  passed     \* history: key -> when requests were let through

vars == <<now, account, attempts, pending, pc, who, code, issued, passed>>
request == <<pc, who, code>>
limiter == <<attempts, passed>>

-----------------------------------------------------------------------------
(* rateLimit                                                               *)

\* A bug: the window is over at its last instant.
MutantWindowOver(k) == attempts[k] # None => now - attempts[k].first >= Window

WindowOver(k) == attempts[k] # None => now - attempts[k].first > Window

\* A bug: a new window goes on with the count of the last one.
MutantCounted(k) ==
  IF attempts[k] = None THEN [count |-> 1, first |-> now]
  ELSE IF WindowOver(k) THEN [count |-> attempts[k].count + 1, first |-> now]
  ELSE [attempts[k] EXCEPT !.count = @ + 1]

Counted(k) ==
  IF WindowOver(k) THEN [count |-> 1, first |-> now]
  ELSE [attempts[k] EXCEPT !.count = @ + 1]

\* A request that does not pass is answered 429 and changes nothing.
Pass(k) ==
  /\ ~ WindowOver(k) => attempts[k].count < Allowed(k)
  /\ attempts' = [attempts EXCEPT ![k] = Counted(k)]
  /\ passed' = [passed EXCEPT ![k] = Append(@, now)]

-----------------------------------------------------------------------------
(* Codes                                                                   *)

StoreCode(u) ==
  /\ Len(issued) < MaxCodes
  /\ issued' = Append(issued, [user |-> u, at |-> now, wrong |-> 0, accepted |-> 0, tokens |-> 0])
  /\ pending' = [pending EXCEPT ![u] =
       [code |-> Len(issued) + 1, expires |-> now + Lifetime, left |-> MaxAttempts]]

\* A bug: the expiry is left to the limiter.
MutantExpired(p) == FALSE

Expired(p) == now > p.expires

\* A bug: one guess too many.
MutantExhausted(p) == p.left < 0

Exhausted(p) == p.left <= 0

\* A bug: the code is kept until the account has been read.
MutantWithout(u) == IF u = SuperAdmin THEN [pending EXCEPT ![u] = None] ELSE pending

Without(u) == [pending EXCEPT ![u] = None]

-----------------------------------------------------------------------------
(* POST /auth/login                                                        *)

Goto(q, step) ==
  /\ pc' = [pc EXCEPT ![q] = step]
  /\ UNCHANGED <<who, code>>

Answer(q) ==
  /\ pc' = [pc EXCEPT ![q] = "idle"]
  /\ who' = [who EXCEPT ![q] = SuperAdmin]
  /\ code' = [code EXCEPT ![q] = 0]

Enter(q, step, user) ==
  /\ pc' = [pc EXCEPT ![q] = step]
  /\ who' = [who EXCEPT ![q] = user]
  /\ UNCHANGED code

\* Malformed, a wrong password of the super admin, or a code of nobody.
Bounce(q) ==
  /\ pc[q] = "idle"
  /\ \E k \in Keys : Pass(k)
  /\ UNCHANGED <<now, account, pending, request, issued>>

LoginSuperAdmin(q) ==
  /\ pc[q] = "idle"
  /\ \E ip \in Callers, path \in LoginPaths : Pass(<<ip, path>>)
  /\ StoreCode(SuperAdmin)
  /\ Enter(q, "mail", SuperAdmin)
  /\ UNCHANGED <<now, account>>

Login(q) ==
  /\ pc[q] = "idle"
  /\ \E ip \in Callers, path \in LoginPaths : Pass(<<ip, path>>)
  /\ \E u \in Clients \cup Others : Enter(q, "client", u)
  /\ UNCHANGED <<now, account, pending, issued>>

FindClient(q) ==
  /\ pc[q] = "client"
  /\ Goto(q, IF who[q] \in Clients /\ account[who[q]] = "active" THEN "password" ELSE "staff")
  /\ UNCHANGED <<now, account, limiter, pending, issued>>

\* The row was read a step ago; the account may be another by now.
RightPassword(q) ==
  /\ pc[q] = "password"
  /\ StoreCode(who[q])
  /\ Goto(q, "mail")
  /\ UNCHANGED <<now, account, limiter>>

\* 401 falls through to the guards; a client without an e-mail address is told.
WrongPassword(q) ==
  /\ pc[q] = "password"
  /\ Goto(q, "staff") \/ Answer(q)
  /\ UNCHANGED <<now, account, limiter, pending, issued>>

\* The code was mailed; or loginGateStaff has looked up the name and compared
\* the password, of which no other request sees anything.
Finish(q) ==
  /\ pc[q] \in {"mail", "staff"}
  /\ Answer(q)
  /\ UNCHANGED <<now, account, limiter, pending, issued>>

-----------------------------------------------------------------------------
(* POST /auth/verify-otp: verifyPendingOtp runs at once.                   *)

Submit(q, u) ==
  /\ pc[q] = "idle"
  /\ pending[u] # None
  /\ \E ip \in Callers, path \in VerifyPaths : Pass(<<ip, path>>)
  /\ UNCHANGED <<now, account>>

RefuseStale(q, u) ==
  /\ Submit(q, u)
  /\ Expired(pending[u]) \/ Exhausted(pending[u])
  /\ pending' = [pending EXCEPT ![u] = None]
  /\ UNCHANGED <<request, issued>>

WrongCode(q, u) ==
  /\ Submit(q, u)
  /\ ~ Expired(pending[u]) /\ ~ Exhausted(pending[u])
  /\ pending' = [pending EXCEPT ![u].left = @ - 1]
  /\ issued' = [issued EXCEPT ![pending[u].code].wrong = @ + 1]
  /\ UNCHANGED request

\* The super admin has its token now, a client when its account was read.
RightCode(q, u) ==
  LET c == pending[u].code IN
  /\ Submit(q, u)
  /\ ~ Expired(pending[u]) /\ ~ Exhausted(pending[u])
  /\ pending' = Without(u)
  /\ issued' = [issued EXCEPT ![c] =
       [issued[c] EXCEPT !.accepted = @ + 1,
                         !.tokens = IF u = SuperAdmin THEN @ + 1 ELSE @]]
  /\ IF u = SuperAdmin THEN UNCHANGED request
     ELSE /\ pc' = [pc EXCEPT ![q] = "account"]
          /\ who' = [who EXCEPT ![q] = u]
          /\ code' = [code EXCEPT ![q] = c]

FindAccount(q) ==
  /\ pc[q] = "account"
  /\ IF account[who[q]] = "deleted" THEN UNCHANGED issued
     ELSE issued' = [issued EXCEPT ![code[q]].tokens = @ + 1]
  /\ Answer(q)
  /\ UNCHANGED <<now, account, limiter, pending>>

-----------------------------------------------------------------------------
(* Around them.                                                            *)

\* An error that is not an AuthError: where a client was tried, a guard is next.
Fail(q) ==
  /\ pc[q] # "idle"
  /\ IF pc[q] \in {"client", "password"} \/ (pc[q] = "mail" /\ who[q] # SuperAdmin)
     THEN Goto(q, "staff") ELSE Answer(q)
  /\ UNCHANGED <<now, account, limiter, pending, issued>>

\* Both maps, and whatever was in flight, are lost.
Restart ==
  /\ pending' = [u \in Users |-> None]
  /\ attempts' = [k \in Keys |-> None]
  /\ passed' = [k \in Keys |-> << >>]
  /\ pc' = [q \in Requests |-> "idle"]
  /\ who' = [q \in Requests |-> SuperAdmin]
  /\ code' = [q \in Requests |-> 0]
  /\ UNCHANGED <<now, account, issued>>

Tick ==
  /\ now < MaxTime
  /\ now' = now + 1
  /\ UNCHANGED <<account, limiter, pending, request, issued>>

SetActive(c) ==
  /\ account[c] # "deleted"
  /\ \E status \in {"active", "inactive"} : account' = [account EXCEPT ![c] = status]
  /\ UNCHANGED <<now, limiter, pending, request, issued>>

Delete(c) ==
  /\ account' = [account EXCEPT ![c] = "deleted"]
  /\ UNCHANGED <<now, limiter, pending, request, issued>>

Init ==
  /\ now = 0
  /\ account = [c \in Clients |-> "active"]
  /\ attempts = [k \in Keys |-> None]
  /\ pending = [u \in Users |-> None]
  /\ pc = [q \in Requests |-> "idle"]
  /\ who = [q \in Requests |-> SuperAdmin]
  /\ code = [q \in Requests |-> 0]
  /\ issued = << >>
  /\ passed = [k \in Keys |-> << >>]

Step(q) ==
  \/ Bounce(q) \/ LoginSuperAdmin(q) \/ Login(q)
  \/ FindClient(q) \/ RightPassword(q) \/ WrongPassword(q) \/ Finish(q)
  \/ \E u \in Users : RefuseStale(q, u) \/ WrongCode(q, u) \/ RightCode(q, u)
  \/ FindAccount(q) \/ Fail(q)

Next ==
  \/ \E q \in Requests : Step(q)
  \/ Restart \/ Tick
  \/ \E c \in Clients : SetActive(c) \/ Delete(c)

Spec == Init /\ [][Next]_vars

-----------------------------------------------------------------------------
(* Properties                                                              *)

Codes == [user : Users, at : Nat, wrong : Nat, accepted : Nat, tokens : Nat]

\* A code waits with guesses that are never negative, and was drawn before
\* (pendingOtps, attempts).
TypeOK ==
  /\ now \in 0 .. MaxTime
  /\ account \in [Clients -> {"active", "inactive", "deleted"}]
  /\ attempts \in [Keys -> [count : Nat, first : Nat] \cup {None}]
  /\ issued \in Seq(Codes)
  /\ pending \in [Users -> [code : 1 .. Len(issued), expires : Nat, left : Nat] \cup {None}]
  /\ pc \in [Requests -> {"idle", "client", "password", "mail", "staff", "account"}]
  /\ who \in [Requests -> Users \cup Others]
  /\ \A q \in Requests : pc[q] \in {"password", "account"} => who[q] \in Clients
  /\ code \in [Requests -> 0 .. Len(issued)]
  /\ passed \in [Keys -> Seq(Nat)]

\* A code gets one token at most, however many requests submit it, through
\* the await of verifyClientAdminOtp, a failed lookup, a second login or a
\* restart of the process.
OneLoginPerCode == \A c \in 1 .. Len(issued) : issued[c].tokens <= 1

\* No code is guessed at more often than otpMaxAttempts, from whatever
\* addresses and over however many windows of the limiter.
GuessesBounded == \A c \in 1 .. Len(issued) : issued[c].wrong <= MaxAttempts

Newest(c) == \A d \in 1 .. Len(issued) : d > c => issued[d].user # issued[c].user

\* A code is accepted in its lifetime, before a later login of its user draws
\* another, and only while guesses are left (verifyPendingOtp).
AcceptedInTime ==
  [][\A c \in 1 .. Len(issued) :
       issued'[c].accepted # issued[c].accepted =>
         /\ now <= issued[c].at + Lifetime
         /\ issued[c].wrong < MaxAttempts
         /\ Newest(c)]_vars

\* A window starts with a request and not with the clock, so twice the maximum
\* of requests with one key can pass in little more than one; no span as short
\* as a window sees as many, wherever it starts (rateLimit).  A key is an address
\* and a spelling of a path: the spellings of one route are bounded each by
\* itself, and a route by so many times the bound.
RateBound ==
  \A k \in Keys : \A i, j \in 1 .. Len(passed[k]) :
    j - i = 2 * Allowed(k) - 1 => passed[k][j] - passed[k][i] > Window

\* Whoever is turned away has had the maximum of requests with the same key in
\* the last window (rateLimit, whose records outlive their windows).
TurnedAwayRightly ==
  \A k \in Keys :
    ~ WindowOver(k) /\ attempts[k].count >= Allowed(k) =>
      \E i \in 1 .. Len(passed[k]) :
        /\ Len(passed[k]) - i + 1 >= Allowed(k)
        /\ now - passed[k][i] <= Window

=============================================================================
