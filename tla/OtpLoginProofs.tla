---------------------------- MODULE OtpLoginProofs ----------------------------
(***************************************************************************)
(* Proofs about OtpLogin, for any number of requests, addresses, clients   *)
(* and codes, and for any lifetime, attempts and window.                   *)
(***************************************************************************)
EXTENDS OtpLogin, SequenceTheorems, TLAPS

-----------------------------------------------------------------------------
(* The inductive invariant.                                                *)

\* What waits in the map agrees with the history of the code.
Outstanding(u) ==
  pending[u] # None =>
    LET p == pending[u]
        drawn == issued[p.code]
    IN  /\ drawn.user = u /\ Newest(p.code)
        /\ p.expires = drawn.at + Lifetime
        /\ p.left + drawn.wrong = MaxAttempts
        /\ drawn.tokens = 0

\* Who was let in owns the code: nobody submits it any more, nobody else has it.
LetIn(q) ==
  pc[q] = "account" =>
    /\ code[q] # 0 /\ issued[code[q]].tokens = 0
    /\ \A u \in Users : pending[u] # None => pending[u].code # code[q]
    /\ \A r \in Requests : r # q /\ pc[r] = "account" => code[r] # code[q]

Inv ==
  /\ TypeOK
  /\ \A u \in Users : Outstanding(u)
  /\ \A q \in Requests : LetIn(q)
  /\ OneLoginPerCode
  /\ GuessesBounded

Pendings == [code : 1 .. Len(issued), expires : Nat, left : Nat]

LEMMA Numbers ==
  /\ Lifetime \in Nat /\ MaxAttempts \in Nat /\ Window \in Nat /\ MaxTime \in Nat
BY LoginConstants

USE Numbers

\* What a guess, an acceptance and a token write into the history of a code.
LEMMA Guessed ==
  ASSUME NEW r \in Codes
  PROVE  LET s == [r EXCEPT !.wrong = @ + 1]
         IN  /\ s \in Codes /\ s.user = r.user /\ s.at = r.at
             /\ s.wrong = r.wrong + 1 /\ s.tokens = r.tokens /\ r.wrong \in Nat
<1>1. r.wrong \in Nat /\ r.wrong + 1 \in Nat
  BY DEF Codes
<1>2. [r EXCEPT !.wrong = @ + 1] \in Codes
  BY <1>1 DEF Codes
<1> QED
  BY <1>1, <1>2 DEF Codes

LEMMA Accepted ==
  ASSUME NEW r \in Codes, NEW t \in Nat
  PROVE  LET s == [r EXCEPT !.accepted = @ + 1, !.tokens = t]
         IN  /\ s \in Codes /\ s.user = r.user /\ s.at = r.at
             /\ s.wrong = r.wrong /\ s.tokens = t
<1>1. r.accepted + 1 \in Nat
  BY DEF Codes
<1>2. [r EXCEPT !.accepted = @ + 1, !.tokens = t] \in Codes
  BY <1>1 DEF Codes
<1> QED
  BY <1>2 DEF Codes

LEMMA Rewarded ==
  ASSUME NEW r \in Codes
  PROVE  LET s == [r EXCEPT !.tokens = @ + 1]
         IN  /\ s \in Codes /\ s.user = r.user /\ s.at = r.at
             /\ s.wrong = r.wrong /\ s.tokens = r.tokens + 1
BY DEF Codes

-----------------------------------------------------------------------------
(* Types.                                                                  *)

LEMMA PassTypes ==
  ASSUME TypeOK, NEW k \in Keys, Pass(k)
  PROVE  /\ attempts' \in [Keys -> [count : Nat, first : Nat] \cup {None}]
         /\ passed' \in [Keys -> Seq(Nat)]
<1>1. now \in Nat
  BY DEF TypeOK
<1>2. Counted(k) \in [count : Nat, first : Nat]
  <2>1. CASE WindowOver(k)
    BY <1>1, <2>1 DEF Counted
  <2>2. CASE ~ WindowOver(k)
    <3>1. attempts[k] \in [count : Nat, first : Nat]
      BY <2>2 DEF WindowOver, TypeOK
    <3> QED
      BY <2>2, <3>1 DEF Counted
  <2> QED
    BY <2>1, <2>2
<1>3. passed[k] \in Seq(Nat)
  BY DEF TypeOK
<1>4. Append(passed[k], now) \in Seq(Nat)
  BY <1>1, <1>3, AppendProperties
<1> QED
  BY <1>2, <1>4 DEF TypeOK, Pass

\* A code that is drawn is appended to the history.
LEMMA Drawing ==
  ASSUME TypeOK, NEW u \in Users, StoreCode(u)
  PROVE  /\ issued' \in Seq(Codes)
         /\ Len(issued) \in Nat /\ Len(issued)' = Len(issued) + 1
         /\ \A c \in 1 .. Len(issued) : issued'[c] = issued[c]
         /\ LET new == issued'[Len(issued) + 1]
            IN  /\ new.user = u /\ new.at = now
                /\ new.wrong = 0 /\ new.accepted = 0 /\ new.tokens = 0
<1> DEFINE new == [user |-> u, at |-> now, wrong |-> 0, accepted |-> 0, tokens |-> 0]
<1>1. new \in Codes /\ issued \in Seq(Codes)
  BY DEF TypeOK, Codes
<1>2. issued' = Append(issued, new)
  BY DEF StoreCode
<1> HIDE DEF new
<1>3. /\ issued' \in Seq(Codes)
      /\ Len(issued) \in Nat /\ Len(issued)' = Len(issued) + 1
      /\ \A c \in 1 .. Len(issued) : issued'[c] = issued[c]
      /\ issued'[Len(issued) + 1] = new
  BY <1>1, <1>2, AppendProperties, LenProperties
<1> QED
  BY <1>3 DEF new

\* Rewriting one record of the history leaves the others alone.
LEMMA Rewriting ==
  ASSUME TypeOK, NEW c \in 1 .. Len(issued), NEW record \in Codes,
         issued' = [issued EXCEPT ![c] = record]
  PROVE  /\ issued' \in Seq(Codes)
         /\ Len(issued)' = Len(issued)
         /\ issued'[c] = record
         /\ \A d \in 1 .. Len(issued) : d # c => issued'[d] = issued[d]
BY ExceptSeq DEF TypeOK

LEMMA Recorded ==
  ASSUME TypeOK, NEW c \in 1 .. Len(issued)
  PROVE  issued[c] \in Codes
BY ElementOfSeq DEF TypeOK

-----------------------------------------------------------------------------
(* The parts of a step.                                                    *)

\* Nobody is let in, and the codes are left alone.
LEMMA SameCodes ==
  ASSUME Inv, UNCHANGED <<pending, issued>>, TypeOK',
         \A q \in Requests : pc'[q] = "account" => pc[q] = "account" /\ code'[q] = code[q]
  PROVE  Inv'
<1>1. \A u \in Users : Outstanding(u)'
  BY DEF Inv, Outstanding, Newest
<1>2. \A q \in Requests : LetIn(q)'
  BY DEF Inv, LetIn
<1> QED
  BY <1>1, <1>2 DEF Inv, OneLoginPerCode, GuessesBounded

LEMMA NewCode ==
  ASSUME Inv, NEW u \in Users, StoreCode(u), TypeOK',
         \A q \in Requests : pc'[q] = "account" => pc[q] = "account" /\ code'[q] = code[q]
  PROVE  Inv'
<1> DEFINE n == Len(issued)
<1>0. TypeOK
  BY DEF Inv
<1>1. /\ n \in Nat /\ Len(issued)' = n + 1
      /\ \A c \in 1 .. n : issued'[c] = issued[c]
      /\ LET new == issued'[n + 1]
         IN  /\ new.user = u /\ new.at = now
             /\ new.wrong = 0 /\ new.accepted = 0 /\ new.tokens = 0
  BY <1>0, Drawing
<1>2. /\ pending'[u] = [code |-> n + 1, expires |-> now + Lifetime, left |-> MaxAttempts]
      /\ \A v \in Users : v # u => pending'[v] = pending[v]
  BY <1>0 DEF StoreCode, TypeOK
<1>3. \A v \in Users : pending[v] # None => pending[v].code \in 1 .. n
  BY <1>0 DEF TypeOK
<1> HIDE DEF n
<1>4. ASSUME NEW v \in Users
      PROVE  Outstanding(v)'
  <2>1. CASE v = u
    BY <1>1, <1>2, <2>1 DEF Outstanding, Newest
  <2>2. CASE v # u /\ pending[v] # None
    <3>1. /\ pending[v].code \in 1 .. n
          /\ pending'[v] = pending[v]
          /\ issued'[pending[v].code] = issued[pending[v].code]
      BY <1>1, <1>2, <1>3, <2>2
    <3>2. Outstanding(v)
      BY DEF Inv
    <3>3. \A d \in 1 .. n + 1 :
            d > pending[v].code => issued'[d].user # issued'[pending[v].code].user
      BY <1>1, <2>2, <3>1, <3>2 DEF Outstanding, Newest, n
    <3> QED
      BY <1>1, <2>2, <3>1, <3>2, <3>3 DEF Outstanding, Newest
  <2> QED
    BY <1>2, <2>1, <2>2 DEF Outstanding
<1>5. ASSUME NEW q \in Requests
      PROVE  LetIn(q)'
  <2> SUFFICES ASSUME pc'[q] = "account"
               PROVE  LetIn(q)'
    BY DEF LetIn
  <2>1. pc[q] = "account" /\ code'[q] = code[q] /\ LetIn(q)
    BY DEF Inv
  <2>2. code[q] \in 1 .. n
    BY <1>0, <1>1, <2>1 DEF TypeOK, LetIn, n
  <2>3. \A v \in Users : pending'[v] # None => pending'[v].code # code[q]
    BY <1>1, <1>2, <2>1, <2>2 DEF LetIn
  <2> QED
    BY <1>1, <2>1, <2>2, <2>3 DEF LetIn
<1>6. \A c \in 1 .. n : issued[c].tokens <= 1 /\ issued[c].wrong <= MaxAttempts
  BY DEF Inv, OneLoginPerCode, GuessesBounded, n
<1>7. \A c \in 1 .. n + 1 : issued'[c].tokens <= 1 /\ issued'[c].wrong <= MaxAttempts
  BY <1>1, <1>6
<1>8. OneLoginPerCode'
  BY <1>1, <1>7 DEF OneLoginPerCode
<1>9. GuessesBounded'
  BY <1>1, <1>7 DEF GuessesBounded
<1> QED
  BY <1>4, <1>5, <1>8, <1>9 DEF Inv

\* A code leaves the map and nothing else happens.
LEMMA DroppedCodes ==
  ASSUME Inv, UNCHANGED issued, TypeOK',
         \A u \in Users : pending'[u] \in {pending[u], None},
         \A q \in Requests : pc'[q] = "account" => pc[q] = "account" /\ code'[q] = code[q]
  PROVE  Inv'
<1>1. \A u \in Users : Outstanding(u)'
  BY DEF Inv, Outstanding, Newest
<1>2. \A q \in Requests : LetIn(q)'
  BY DEF Inv, LetIn
<1> QED
  BY <1>1, <1>2 DEF Inv, OneLoginPerCode, GuessesBounded

-----------------------------------------------------------------------------
(* The actions that preserve it.                                           *)

LEMMA InitInv == Init => Inv
<1> SUFFICES ASSUME Init PROVE Inv
  OBVIOUS
<1>1. issued = << >> /\ issued \in Seq(Codes) /\ Len(issued) = 0
  BY EmptySeq DEF Init
<1>2. TypeOK
  BY <1>1 DEF Init, TypeOK, Users
<1> QED
  BY <1>1, <1>2 DEF Init, Inv, Outstanding, LetIn, OneLoginPerCode, GuessesBounded

\* Steps of a request that see the codes but do not touch them.
LEMMA RequestMoves ==
  ASSUME Inv, NEW q \in Requests,
         Bounce(q) \/ Login(q) \/ FindClient(q) \/ WrongPassword(q) \/ Finish(q) \/ Fail(q)
  PROVE  Inv'
<1>0. TypeOK
  BY DEF Inv
<1>1. CASE Bounce(q)
  <2>1. PICK k \in Keys : Pass(k)
    BY <1>1 DEF Bounce
  <2>2. TypeOK'
    BY <1>0, <1>1, <2>1, PassTypes DEF Bounce, TypeOK, request
  <2> QED
    BY <1>1, <2>2, SameCodes DEF Bounce, request
<1>2. CASE Login(q)
  <2>1. PICK ip \in Callers, path \in LoginPaths : Pass(<<ip, path>>)
    BY <1>2 DEF Login
  <2>2. PICK u \in Clients \cup Others : Enter(q, "client", u)
    BY <1>2 DEF Login
  <2>3. <<ip, path>> \in Keys
    BY DEF Keys
  <2>4. TypeOK'
    BY <1>0, <1>2, <2>1, <2>2, <2>3, PassTypes DEF Login, Enter, TypeOK, Users
  <2>5. \A r \in Requests : pc'[r] = "account" => pc[r] = "account" /\ code'[r] = code[r]
    BY <1>0, <2>2 DEF Enter, TypeOK
  <2> QED
    BY <1>2, <2>4, <2>5, SameCodes DEF Login
<1>3. CASE FindClient(q)
  <2>1. TypeOK'
    BY <1>0, <1>3 DEF FindClient, Goto, limiter, TypeOK
  <2>2. \A r \in Requests : pc'[r] = "account" => pc[r] = "account" /\ code'[r] = code[r]
    BY <1>0, <1>3 DEF FindClient, Goto, TypeOK
  <2> QED
    BY <1>3, <2>1, <2>2, SameCodes DEF FindClient
<1>4. CASE WrongPassword(q) \/ Finish(q) \/ Fail(q)
  <2>1. Goto(q, "staff") \/ Answer(q)
    BY <1>4 DEF WrongPassword, Finish, Fail
  <2>2. UNCHANGED <<now, account, attempts, passed, pending, issued>>
    BY <1>4 DEF WrongPassword, Finish, Fail, limiter
  <2>3. /\ pc' \in [Requests -> {"idle", "client", "password", "mail", "staff", "account"}]
        /\ who' \in [Requests -> Users \cup Others]
        /\ code' \in [Requests -> 0 .. Len(issued)]
        /\ \A r \in Requests : pc'[r] \in {"password", "account"} => who'[r] \in Clients
    <3>1. CASE Goto(q, "staff")
      BY <1>0, <3>1 DEF Goto, TypeOK
    <3>2. CASE Answer(q)
      <4>1. SuperAdmin \in Users /\ 0 \in 0 .. Len(issued)
        BY <1>0, LenProperties DEF TypeOK, Users
      <4> QED
        BY <1>0, <3>2, <4>1 DEF Answer, TypeOK
    <3> QED
      BY <2>1, <3>1, <3>2
  <2>4. \A r \in Requests : pc'[r] = "account" => pc[r] = "account" /\ code'[r] = code[r]
    BY <1>0, <2>1 DEF Goto, Answer, TypeOK
  <2>5. TypeOK'
    BY <1>0, <2>2, <2>3 DEF TypeOK
  <2> QED
    BY <2>2, <2>4, <2>5, SameCodes
<1> QED
  BY <1>1, <1>2, <1>3, <1>4

LEMMA CodesDrawn ==
  ASSUME Inv, NEW q \in Requests, LoginSuperAdmin(q) \/ RightPassword(q)
  PROVE  Inv'
<1>0. TypeOK
  BY DEF Inv
<1>1. PICK u \in Users : StoreCode(u)
  BY <1>0 DEF LoginSuperAdmin, RightPassword, TypeOK, Users
<1>2. /\ pc' = [pc EXCEPT ![q] = "mail"] /\ code' = code
      /\ who' \in [Requests -> Users \cup Others]
      /\ \A r \in Requests \ {q} : who'[r] = who[r]
  BY <1>0 DEF LoginSuperAdmin, RightPassword, Enter, Goto, TypeOK, Users
<1>3. /\ attempts' \in [Keys -> [count : Nat, first : Nat] \cup {None}]
      /\ passed' \in [Keys -> Seq(Nat)]
  <2>1. CASE LoginSuperAdmin(q)
    <3>1. PICK ip \in Callers, path \in LoginPaths : Pass(<<ip, path>>)
      BY <2>1 DEF LoginSuperAdmin
    <3> QED
      BY <1>0, <3>1, PassTypes DEF Keys
  <2>2. CASE RightPassword(q)
    BY <1>0, <2>2 DEF RightPassword, limiter, TypeOK
  <2> QED
    BY <2>1, <2>2
<1>4. UNCHANGED <<now, account>>
  BY DEF LoginSuperAdmin, RightPassword
<1>5. TypeOK'
  <2>1. issued' \in Seq(Codes) /\ Len(issued) \in Nat /\ Len(issued)' = Len(issued) + 1
    BY <1>0, <1>1, Drawing
  <2>2. pending' \in [Users -> Pendings' \cup {None}]
    <3>1. [code |-> Len(issued) + 1, expires |-> now + Lifetime, left |-> MaxAttempts] \in Pendings'
      BY <1>0, <2>1 DEF TypeOK, Pendings
    <3>2. pending \in [Users -> Pendings' \cup {None}]
      BY <1>0, <2>1 DEF TypeOK, Pendings
    <3> QED
      BY <1>1, <3>1, <3>2 DEF StoreCode
  <2>3. code' \in [Requests -> 0 .. Len(issued)']
    BY <1>0, <1>2, <2>1 DEF TypeOK
  <2> QED
    BY <1>0, <1>2, <1>3, <1>4, <2>1, <2>2, <2>3 DEF TypeOK, Pendings
<1>6. \A r \in Requests : pc'[r] = "account" => pc[r] = "account" /\ code'[r] = code[r]
  BY <1>0, <1>2 DEF TypeOK
<1> QED
  BY <1>1, <1>5, <1>6, NewCode

\* The limiter has let a submission through; the code is known and live.
LEMMA Submitted ==
  ASSUME TypeOK, NEW q \in Requests, NEW u \in Users, Submit(q, u)
  PROVE  /\ attempts' \in [Keys -> [count : Nat, first : Nat] \cup {None}]
         /\ passed' \in [Keys -> Seq(Nat)]
         /\ UNCHANGED <<now, account>>
         /\ pc[q] = "idle" /\ pending[u] \in Pendings
<1>1. PICK ip \in Callers, path \in VerifyPaths : Pass(<<ip, path>>)
  BY DEF Submit
<1>2. <<ip, path>> \in Keys
  BY DEF Keys
<1> QED
  BY <1>1, <1>2, PassTypes DEF Submit, TypeOK, Pendings

LEMMA CodesDropped ==
  ASSUME Inv, (\E q \in Requests, u \in Users : RefuseStale(q, u)) \/ Restart
  PROVE  Inv'
<1>0. TypeOK
  BY DEF Inv
<1>1. ASSUME NEW q \in Requests, NEW u \in Users, RefuseStale(q, u)
      PROVE  Inv'
  <2>1. Submit(q, u) /\ pending' = [pending EXCEPT ![u] = None]
        /\ UNCHANGED <<pc, who, code, issued>>
    BY <1>1 DEF RefuseStale, request
  <2>2. TypeOK'
    BY <1>0, <2>1, Submitted DEF TypeOK
  <2>3. \A v \in Users : pending'[v] \in {pending[v], None}
    BY <1>0, <2>1 DEF TypeOK
  <2> QED
    BY <2>1, <2>2, <2>3, DroppedCodes
<1>2. CASE Restart
  <2>1. TypeOK'
    <3>1. SuperAdmin \in Users /\ 0 \in 0 .. Len(issued)
      BY <1>0, LenProperties DEF TypeOK, Users
    <3> QED
      BY <1>0, <1>2, <3>1 DEF Restart, TypeOK
  <2> QED
    BY <1>2, <2>1, DroppedCodes DEF Restart
<1> QED
  BY <1>1, <1>2

LEMMA CodeMissed ==
  ASSUME Inv, NEW q \in Requests, NEW u \in Users, WrongCode(q, u)
  PROVE  Inv'
<1>0. TypeOK /\ Submit(q, u) /\ pending[u] # None /\ UNCHANGED <<pc, who, code>>
  BY DEF Inv, WrongCode, Submit, request
<1>1. PICK c \in 1 .. Len(issued) : pending[u].code = c
  BY <1>0, Submitted DEF Pendings
<1>a. pending[u] \in Pendings /\ pending[u].left \in Nat /\ pending[u].left > 0
  BY <1>0, Submitted DEF WrongCode, Exhausted, Pendings
<1>b. issued[c] \in Codes
  BY <1>0, Recorded
<1> DEFINE drawn == [issued[c] EXCEPT !.wrong = @ + 1]
<1>2. drawn \in Codes
  BY <1>b, Guessed
<1>3. issued' = [issued EXCEPT ![c] = drawn]
  BY <1>1 DEF WrongCode
<1>4. /\ issued' \in Seq(Codes) /\ Len(issued)' = Len(issued)
      /\ issued'[c] = drawn
      /\ \A d \in 1 .. Len(issued) : d # c => issued'[d] = issued[d]
  BY <1>0, <1>1, <1>2, <1>3, Rewriting
<1>5. /\ drawn.user = issued[c].user /\ drawn.at = issued[c].at
      /\ drawn.wrong = issued[c].wrong + 1 /\ drawn.tokens = issued[c].tokens
      /\ issued[c].wrong \in Nat
  BY <1>b, Guessed
<1> HIDE DEF drawn
<1>6. /\ pending'[u].code = c /\ pending'[u].expires = pending[u].expires
      /\ pending'[u].left = pending[u].left - 1
      /\ pending'[u] \in Pendings /\ pending'[u] # None
      /\ \A v \in Users : v # u => pending'[v] = pending[v]
  <2>1. pending' = [pending EXCEPT ![u] = [pending[u] EXCEPT !.left = @ - 1]]
    BY DEF WrongCode
  <2>2. [pending[u] EXCEPT !.left = @ - 1] \in Pendings
    BY <1>a DEF Pendings
  <2>3. pending'[u] = [pending[u] EXCEPT !.left = @ - 1]
    BY <1>0, <2>1 DEF TypeOK
  <2>4. Pendings \subseteq [code : Nat, expires : Nat, left : Nat]
    BY <1>0, LenProperties DEF TypeOK, Pendings
  <2>5. pending'[u] # None
    BY <2>2, <2>3, <2>4, LoginConstants
  <2>6. \A v \in Users : v # u => pending'[v] = pending[v]
    BY <1>0, <2>1 DEF TypeOK
  <2> QED
    BY <1>1, <1>a, <2>2, <2>3, <2>5, <2>6 DEF Pendings
<1>7. TypeOK'
  <2>1. pending' \in [Users -> Pendings \cup {None}]
    BY <1>0, <1>6 DEF WrongCode, TypeOK, Pendings
  <2> QED
    BY <1>0, <1>4, <2>1, Submitted DEF TypeOK, Pendings
<1>8. Outstanding(u)
  BY DEF Inv
<1>9. ASSUME NEW v \in Users, pending[v] # None
      PROVE  /\ pending[v].code \in 1 .. Len(issued)
             /\ v # u => pending[v].code # c
  BY <1>0, <1>1, <1>8, <1>9 DEF Inv, Outstanding, TypeOK
<1>10. ASSUME NEW v \in Users
       PROVE  Outstanding(v)'
  <2>1. \A d \in 1 .. Len(issued) : issued'[d].user = issued[d].user
    BY <1>4, <1>5
  <2>2. CASE v = u
    <3>1. /\ issued[c].user = u /\ Newest(c) /\ pending[u].expires = issued[c].at + Lifetime
          /\ pending[u].left + issued[c].wrong = MaxAttempts /\ issued[c].tokens = 0
      BY <1>0, <1>1, <1>8 DEF Outstanding
    <3>2. Newest(c)'
      BY <1>4, <2>1, <3>1 DEF Newest
    <3>3. pending'[u].left + issued'[c].wrong = MaxAttempts
      BY <1>a, <1>4, <1>5, <1>6, <3>1
    <3> QED
      BY <1>4, <1>5, <1>6, <2>2, <3>1, <3>2, <3>3 DEF Outstanding
  <2>3. CASE v # u
    BY <1>4, <1>6, <1>9, <2>1, <2>3 DEF Inv, Outstanding, Newest
  <2> QED
    BY <2>2, <2>3
<1>11. ASSUME NEW r \in Requests
       PROVE  LetIn(r)'
  <2>1. LetIn(r) /\ code[r] \in 0 .. Len(issued) /\ Len(issued) \in Nat
    BY <1>0, LenProperties DEF Inv, TypeOK
  <2> SUFFICES ASSUME pc[r] = "account"
               PROVE  LetIn(r)'
    BY <1>0 DEF LetIn
  <2>2. issued'[code[r]].tokens = 0
    <3>1. code[r] \in 1 .. Len(issued) /\ issued[code[r]].tokens = 0
      BY <2>1 DEF LetIn
    <3> QED
      BY <1>4, <1>5, <3>1
  <2>3. \A v \in Users : pending'[v] # None => pending'[v].code # code[r]
    BY <1>0, <1>1, <1>6, <2>1 DEF LetIn
  <2> QED
    BY <1>0, <2>1, <2>2, <2>3 DEF LetIn
<1>12. OneLoginPerCode'
  BY <1>4, <1>5 DEF Inv, OneLoginPerCode
<1>13. GuessesBounded'
  <2>1. issued[c].wrong + 1 <= MaxAttempts
    BY <1>0, <1>1, <1>a, <1>5, <1>8 DEF Outstanding
  <2> QED
    BY <1>4, <1>5, <2>1 DEF Inv, GuessesBounded
<1> QED
  BY <1>7, <1>10, <1>11, <1>12, <1>13 DEF Inv

\* The code leaves the map in the step that lets the request in, so that no
\* other request can be let in with it while the account is looked up.
LEMMA CodeAccepted ==
  ASSUME Inv, NEW q \in Requests, NEW u \in Users, RightCode(q, u)
  PROVE  Inv'
<1>0. TypeOK /\ Submit(q, u) /\ pending[u] # None
  BY DEF Inv, RightCode, Submit
<1>1. PICK c \in 1 .. Len(issued) : pending[u].code = c
  BY <1>0, Submitted DEF Pendings
<1>2. issued[c] \in Codes
  BY <1>0, Recorded
<1>3. issued[c].accepted + 1 \in Nat /\ issued[c].tokens \in Nat /\ issued[c].tokens + 1 \in Nat
  BY <1>2 DEF Codes
<1>4. /\ issued[c].tokens = 0 /\ issued[c].user = u
      /\ \A v \in Users : pending[v] # None => pending[v].code \in 1 .. Len(issued)
      /\ \A v \in Users : pending[v] # None /\ v # u => pending[v].code # c
  BY <1>0, <1>1 DEF Inv, Outstanding, TypeOK
<1> DEFINE t == IF u = SuperAdmin THEN issued[c].tokens + 1 ELSE issued[c].tokens
           record == [issued[c] EXCEPT !.accepted = @ + 1, !.tokens = t]
<1>5. t \in Nat /\ t <= 1 /\ (u # SuperAdmin => t = 0)
  BY <1>3, <1>4
<1>6. issued' = [issued EXCEPT ![c] = record]
  BY <1>1 DEF RightCode
<1>7. /\ record \in Codes /\ record.user = issued[c].user /\ record.at = issued[c].at
      /\ record.wrong = issued[c].wrong /\ record.tokens = t
  <2> HIDE DEF t
  <2> QED
    BY <1>2, <1>5, Accepted
<1> HIDE DEF record, t
<1>8. /\ issued' \in Seq(Codes) /\ Len(issued)' = Len(issued) /\ issued'[c] = record
      /\ \A d \in 1 .. Len(issued) : d # c => issued'[d] = issued[d]
  BY <1>0, <1>6, <1>7, Rewriting
<1>9. pending'[u] = None /\ \A v \in Users : v # u => pending'[v] = pending[v]
  BY <1>0 DEF RightCode, Without, TypeOK
<1>10. /\ u = SuperAdmin => UNCHANGED <<pc, who, code>>
       /\ u # SuperAdmin =>
            /\ u \in Clients
            /\ pc' = [pc EXCEPT ![q] = "account"]
            /\ who' = [who EXCEPT ![q] = u]
            /\ code' = [code EXCEPT ![q] = c]
  BY <1>1 DEF RightCode, request, Users
<1>11. TypeOK'
  <2>1. pending' \in [Users -> Pendings \cup {None}]
    BY <1>0 DEF RightCode, Without, TypeOK, Pendings
  <2>2. /\ pc' \in [Requests -> {"idle", "client", "password", "mail", "staff", "account"}]
        /\ who' \in [Requests -> Users \cup Others]
        /\ code' \in [Requests -> 0 .. Len(issued)]
        /\ \A r \in Requests : pc'[r] \in {"password", "account"} => who'[r] \in Clients
    <3>1. CASE u = SuperAdmin
      BY <1>0, <1>10, <3>1 DEF TypeOK
    <3>2. CASE u # SuperAdmin
      <4>1. c \in 0 .. Len(issued) /\ u \in Users \cup Others
        OBVIOUS
      <4>2. /\ pc' \in [Requests -> {"idle", "client", "password", "mail", "staff", "account"}]
            /\ who' \in [Requests -> Users \cup Others]
            /\ code' \in [Requests -> 0 .. Len(issued)]
        <5>1. pc' \in [Requests -> {"idle", "client", "password", "mail", "staff", "account"}]
          BY <1>0, <1>10, <3>2 DEF TypeOK
        <5>2. who' \in [Requests -> Users \cup Others]
          BY <1>0, <1>10, <3>2, <4>1 DEF TypeOK
        <5>3. code' \in [Requests -> 0 .. Len(issued)]
          BY <1>0, <1>10, <3>2, <4>1 DEF TypeOK
        <5> QED
          BY <5>1, <5>2, <5>3
      <4> QED
        BY <1>0, <1>10, <3>2, <4>2 DEF TypeOK
    <3> QED
      BY <3>1, <3>2
  <2>3. /\ attempts' \in [Keys -> [count : Nat, first : Nat] \cup {None}]
        /\ passed' \in [Keys -> Seq(Nat)]
        /\ UNCHANGED <<now, account>>
    BY <1>0, Submitted
  <2> QED
    BY <1>0, <1>8, <2>1, <2>2, <2>3 DEF TypeOK, Pendings
<1>12. ASSUME NEW v \in Users
       PROVE  Outstanding(v)'
  <2>1. \A d \in 1 .. Len(issued) : issued'[d].user = issued[d].user
    BY <1>7, <1>8
  <2>2. CASE v = u
    BY <1>9, <2>2 DEF Outstanding
  <2>3. CASE v # u
    BY <1>4, <1>8, <1>9, <2>1, <2>3 DEF Inv, Outstanding, Newest
  <2> QED
    BY <2>2, <2>3
<1>13. ASSUME NEW r \in Requests, pc'[r] = "account"
       PROVE  LetIn(r)'
  <2>1. pc[q] = "idle" /\ \A p \in Requests : pc[p] = "account" => code[p] \in 1 .. Len(issued)
    BY <1>0, LenProperties DEF Inv, LetIn, Submit, TypeOK
  <2>2. \A p \in Requests : pc[p] = "account" => issued[code[p]].tokens = 0 /\ code[p] # c
    BY <1>0, <1>1 DEF Inv, LetIn
  <2>3. CASE r = q
    <3>1. u # SuperAdmin /\ code'[q] = c
      BY <1>0, <1>10, <1>13, <2>1, <2>3 DEF TypeOK
    <3>2. issued'[c].tokens = 0
      BY <1>5, <1>7, <1>8, <3>1
    <3>3. \A p \in Requests : p # q /\ pc'[p] = "account" => code'[p] = code[p] /\ pc[p] = "account"
      BY <1>0, <1>10, <3>1 DEF TypeOK
    <3> QED
      BY <1>4, <1>9, <2>2, <2>3, <3>1, <3>2, <3>3 DEF LetIn
  <2>4. CASE r # q
    <3>1. pc[r] = "account" /\ code'[r] = code[r]
      BY <1>0, <1>10, <1>13, <2>4 DEF TypeOK
    <3>2. \A p \in Requests : p # r /\ pc'[p] = "account" =>
            code'[p] = c \/ (pc[p] = "account" /\ code'[p] = code[p])
      BY <1>0, <1>10 DEF TypeOK
    <3>3. issued'[code[r]] = issued[code[r]]
      BY <1>8, <2>1, <2>2, <3>1
    <3>4. \A v \in Users : pending'[v] # None => pending'[v].code # code[r]
      BY <1>9, <3>1 DEF Inv, LetIn
    <3> QED
      BY <2>1, <2>2, <3>1, <3>2, <3>3, <3>4 DEF Inv, LetIn
  <2> QED
    BY <2>3, <2>4
<1>14. OneLoginPerCode'
  BY <1>5, <1>7, <1>8 DEF Inv, OneLoginPerCode
<1>15. GuessesBounded'
  BY <1>7, <1>8 DEF Inv, GuessesBounded
<1>16. \A r \in Requests : LetIn(r)'
  BY <1>13 DEF LetIn
<1> QED
  BY <1>11, <1>12, <1>14, <1>15, <1>16 DEF Inv

LEMMA TokenIssued ==
  ASSUME Inv, NEW q \in Requests, FindAccount(q)
  PROVE  Inv'
<1>0. TypeOK /\ pc[q] = "account" /\ UNCHANGED <<now, account, attempts, passed, pending>>
  BY DEF Inv, FindAccount, limiter
<1>1. TypeOK /\ LetIn(q) /\ Len(issued) \in Nat
  BY LenProperties DEF Inv, TypeOK
<1>2. PICK c \in 1 .. Len(issued) : code[q] = c
  BY <1>0, <1>1 DEF LetIn, TypeOK
<1>3. issued[c] \in Codes /\ issued[c].tokens = 0
  BY <1>0, <1>1, <1>2, Recorded DEF LetIn
<1>4. /\ pc' \in [Requests -> {"idle", "client", "password", "mail", "staff", "account"}]
      /\ who' \in [Requests -> Users \cup Others]
      /\ code' \in [Requests -> 0 .. Len(issued)]
      /\ \A r \in Requests : pc'[r] \in {"password", "account"} => who'[r] \in Clients
      /\ \A r \in Requests : pc'[r] = "account" => r # q /\ pc[r] = "account" /\ code'[r] = code[r]
  <2>1. SuperAdmin \in Users /\ 0 \in 0 .. Len(issued)
    BY <1>1 DEF Users
  <2> QED
    BY <1>0, <2>1 DEF FindAccount, Answer, TypeOK
<1>5. CASE UNCHANGED issued
  <2>1. TypeOK'
    BY <1>0, <1>4, <1>5 DEF TypeOK
  <2> QED
    BY <1>0, <1>4, <1>5, <2>1, SameCodes
<1>6. CASE issued' = [issued EXCEPT ![code[q]].tokens = @ + 1]
  <2> DEFINE record == [issued[c] EXCEPT !.tokens = @ + 1]
  <2>1. issued' = [issued EXCEPT ![c] = record]
    BY <1>2, <1>6
  <2>2. /\ record \in Codes /\ record.user = issued[c].user /\ record.at = issued[c].at
        /\ record.wrong = issued[c].wrong /\ record.tokens = 1
    BY <1>3, Rewarded
  <2> HIDE DEF record
  <2>3. /\ issued' \in Seq(Codes) /\ Len(issued)' = Len(issued) /\ issued'[c] = record
        /\ \A d \in 1 .. Len(issued) : d # c => issued'[d] = issued[d]
    BY <1>0, <2>1, <2>2, Rewriting
  <2>4. TypeOK'
    BY <1>0, <1>4, <2>3 DEF TypeOK
  <2>5. ASSUME NEW v \in Users
        PROVE  Outstanding(v)'
    <3>1. \A d \in 1 .. Len(issued) : issued'[d].user = issued[d].user
      BY <2>2, <2>3
    <3>2. pending[v] # None => pending[v].code \in 1 .. Len(issued) /\ pending[v].code # c
      BY <1>0, <1>1, <1>2 DEF LetIn, TypeOK
    <3> QED
      BY <1>0, <2>3, <3>1, <3>2 DEF Inv, Outstanding, Newest
  <2>6. ASSUME NEW r \in Requests, pc'[r] = "account"
        PROVE  LetIn(r)'
    <3>1. pc[r] = "account" /\ code'[r] = code[r] /\ LetIn(r) /\ code[r] \in 1 .. Len(issued)
      BY <1>1, <1>4, <2>6 DEF Inv, LetIn, TypeOK
    <3>2. code[r] # c
      BY <1>0, <1>2, <1>4, <2>6 DEF Inv, LetIn
    <3>3. issued'[code[r]] = issued[code[r]]
      BY <2>3, <3>1, <3>2
    <3> QED
      BY <1>0, <1>4, <3>1, <3>3 DEF LetIn
  <2>7. OneLoginPerCode' /\ GuessesBounded'
    BY <2>2, <2>3 DEF Inv, OneLoginPerCode, GuessesBounded
  <2>8. \A r \in Requests : LetIn(r)'
    BY <2>6 DEF LetIn
  <2> QED
    BY <2>4, <2>5, <2>7, <2>8 DEF Inv
<1> QED
  BY <1>5, <1>6 DEF FindAccount

LEMMA SurroundingsMove ==
  ASSUME Inv, Tick \/ \E c \in Clients : SetActive(c) \/ Delete(c)
  PROVE  Inv'
<1>0. TypeOK
  BY DEF Inv
<1>1. CASE Tick
  <2>1. now' \in 0 .. MaxTime
    BY <1>0, <1>1 DEF Tick, TypeOK
  <2>2. TypeOK'
    BY <1>0, <1>1, <2>1 DEF Tick, TypeOK, request, limiter
  <2> QED
    BY <1>1, <2>2, SameCodes DEF Tick, request
<1>2. ASSUME NEW c \in Clients, SetActive(c) \/ Delete(c)
      PROVE  Inv'
  <2>1. TypeOK'
    BY <1>0, <1>2 DEF SetActive, Delete, TypeOK, request, limiter
  <2> QED
    BY <1>2, <2>1, SameCodes DEF SetActive, Delete, request
<1> QED
  BY <1>1, <1>2

LEMMA StepInv == Inv /\ [Next]_vars => Inv'
<1> SUFFICES ASSUME Inv, [Next]_vars PROVE Inv'
  OBVIOUS
<1>1. ASSUME NEW q \in Requests, Step(q)
      PROVE  Inv'
  BY <1>1, RequestMoves, CodesDrawn, CodesDropped, CodeMissed, CodeAccepted, TokenIssued DEF Step
<1>2. CASE Restart
  BY <1>2, CodesDropped
<1>3. CASE Tick \/ \E c \in Clients : SetActive(c) \/ Delete(c)
  BY <1>3, SurroundingsMove
<1>4. CASE UNCHANGED vars
  <2>1. TypeOK'
    BY <1>4 DEF Inv, TypeOK, vars
  <2> QED
    BY <1>4, <2>1, SameCodes DEF vars
<1> QED
  BY <1>1, <1>2, <1>3, <1>4 DEF Next

LEMMA Invariance == Spec => []Inv
<1> QED
  BY InitInv, StepInv, PTL DEF Spec

-----------------------------------------------------------------------------
(* The theorems.                                                           *)

\* Every code that waits or was accepted has been drawn, and the guesses left
\* in pendingOtps never become negative.
THEOREM TypeCorrect == Spec => []TypeOK
<1>1. Inv => TypeOK
  BY DEF Inv
<1> QED
  BY <1>1, Invariance, PTL

\* However many requests submit it and whatever fails, a code that was mailed
\* buys one token at most (verifyPendingOtp, verifyClientAdminOtp).
THEOREM CodesLogInOnce == Spec => []OneLoginPerCode
<1>1. Inv => OneLoginPerCode
  BY DEF Inv
<1> QED
  BY <1>1, Invariance, PTL

\* However many addresses guess at it, a code bears otpMaxAttempts wrong
\* guesses (verifyPendingOtp).
THEOREM GuessesAreBounded == Spec => []GuessesBounded
<1>1. Inv => GuessesBounded
  BY DEF Inv
<1> QED
  BY <1>1, Invariance, PTL

\* A step changes the history of acceptances in RightCode only.
LEMMA OthersAcceptNothing ==
  ASSUME Inv, [Next]_vars,
         \A q \in Requests, u \in Users : ~ RightCode(q, u)
  PROVE  \A c \in 1 .. Len(issued) : issued'[c].accepted = issued[c].accepted
<1>0. TypeOK
  BY DEF Inv
<1>1. ASSUME NEW u \in Users, StoreCode(u)
      PROVE  \A c \in 1 .. Len(issued) : issued'[c] = issued[c]
  BY <1>0, <1>1, Drawing
<1>2. ASSUME NEW q \in Requests, LoginSuperAdmin(q) \/ RightPassword(q)
      PROVE  \A c \in 1 .. Len(issued) : issued'[c] = issued[c]
  <2>1. PICK u \in Users : StoreCode(u)
    BY <1>0, <1>2 DEF LoginSuperAdmin, RightPassword, TypeOK, Users
  <2> QED
    BY <1>1, <2>1
<1>3. ASSUME NEW q \in Requests, NEW u \in Users, WrongCode(q, u)
      PROVE  \A c \in 1 .. Len(issued) : issued'[c].accepted = issued[c].accepted
  <2>1. issued' = [issued EXCEPT ![pending[u].code].wrong = @ + 1]
    BY <1>3 DEF WrongCode
  <2> QED
    BY <1>0, <2>1, Recorded, LenProperties DEF Codes, TypeOK
<1>4. ASSUME NEW q \in Requests, FindAccount(q)
      PROVE  \A c \in 1 .. Len(issued) : issued'[c].accepted = issued[c].accepted
  <2>1. CASE issued' = [issued EXCEPT ![code[q]].tokens = @ + 1]
    BY <1>0, <2>1, Recorded, LenProperties DEF Codes, TypeOK
  <2> QED
    BY <1>4, <2>1 DEF FindAccount
<1>5. ASSUME NEW q \in Requests,
             Bounce(q) \/ Login(q) \/ FindClient(q) \/ WrongPassword(q) \/ Finish(q) \/ Fail(q)
               \/ \E u \in Users : RefuseStale(q, u)
      PROVE  UNCHANGED issued
  BY <1>5 DEF Bounce, Login, FindClient, WrongPassword, Finish, Fail, RefuseStale
<1>6. CASE Restart \/ Tick \/ (\E c \in Clients : SetActive(c) \/ Delete(c)) \/ UNCHANGED vars
  BY <1>6 DEF Restart, Tick, SetActive, Delete, vars
<1> QED
  BY <1>2, <1>3, <1>4, <1>5, <1>6 DEF Next, Step

\* A code that is accepted is the last one its user asked for, is not older
\* than its lifetime, and has guesses left (storePendingOtp, verifyPendingOtp).
THEOREM AcceptedCodesAreLive == Spec => AcceptedInTime
<1>1. Inv /\ [Next]_vars =>
        [\A c \in 1 .. Len(issued) :
           issued'[c].accepted # issued[c].accepted =>
             /\ now <= issued[c].at + Lifetime
             /\ issued[c].wrong < MaxAttempts
             /\ Newest(c)]_vars
  <2> SUFFICES ASSUME Inv, Next, NEW c \in 1 .. Len(issued),
                      issued'[c].accepted # issued[c].accepted
               PROVE  /\ now <= issued[c].at + Lifetime
                      /\ issued[c].wrong < MaxAttempts
                      /\ Newest(c)
    OBVIOUS
  <2>0. TypeOK /\ now \in Nat
    BY DEF Inv, TypeOK
  <2>1. PICK q \in Requests, u \in Users : RightCode(q, u)
    BY OthersAcceptNothing
  <2>2. pending[u] \in Pendings /\ pending[u] # None
    BY <2>0, <2>1, Submitted DEF RightCode, Submit
  <2>3. pending[u].code = c
    BY <2>0, <2>1, LenProperties DEF RightCode, TypeOK
  <2>4. /\ now <= pending[u].expires /\ pending[u].left > 0
    BY <2>0, <2>1, <2>2 DEF RightCode, Expired, Exhausted, Pendings
  <2>5. issued[c].at \in Nat /\ issued[c].wrong \in Nat
    BY <2>0, Recorded DEF Codes
  <2>6. /\ pending[u].expires = issued[c].at + Lifetime
        /\ pending[u].left + issued[c].wrong = MaxAttempts /\ Newest(c)
    BY <2>2, <2>3 DEF Inv, Outstanding
  <2> QED
    BY <2>2, <2>4, <2>5, <2>6 DEF Pendings
<1> QED
  BY <1>1, Invariance, PTL DEF Spec, AcceptedInTime

-----------------------------------------------------------------------------
(* The limiter: its record of a key and the history of the key agree.      *)

\* The request that opened the window of the record.
Opening(k) == Len(passed[k]) - attempts[k].count + 1

\* The record counts the last requests, all since its window opened, and the
\* window opened more than a Window after the request that came the maximum before it.
Agrees(k) ==
  LET s == passed[k]
      f == Opening(k)
  IN  IF attempts[k] = None THEN s = << >>
      ELSE /\ attempts[k].count \in 1 .. Allowed(k)
           /\ f \in 1 .. Len(s) /\ attempts[k].first = s[f]
           /\ f > Allowed(k) => s[f] - s[f - Allowed(k)] > Window

\* The requests of a key came one after the other, and none too many at once.
InOrder(k) ==
  LET s == passed[k]
  IN  /\ \A i \in 1 .. Len(s) : s[i] <= now
      /\ \A i, j \in 1 .. Len(s) : i <= j => s[i] <= s[j]
      /\ \A i, j \in 1 .. Len(s) : j - i = 2 * Allowed(k) - 1 => s[j] - s[i] > Window

LimiterInv == \A k \in Keys : Agrees(k) /\ InOrder(k)

LEMMA LimiterNumbers ==
  /\ Window \in Nat /\ None \notin [count : Nat, first : Nat]
  /\ \A k \in Keys : Allowed(k) \in Nat /\ Allowed(k) >= 1
<1>1. \A k \in Keys : k[2] \in LoginPaths \cup VerifyPaths
  BY DEF Keys
<1> QED
  BY <1>1, LoginConstants DEF Allowed

\* A request that passes is the last of its key, and either opens a window or
\* is counted in the one that is open.
LEMMA PassAgrees ==
  ASSUME TypeOK, LimiterInv, NEW k \in Keys, Pass(k), UNCHANGED now
  PROVE  LimiterInv'
<1>0. /\ Allowed(k) \in Nat /\ Allowed(k) >= 1 /\ Window \in Nat
      /\ None \notin [count : Nat, first : Nat]
  BY LimiterNumbers
<1> USE <1>0
<1> DEFINE s == passed[k]
           n == Len(s)
           a == attempts[k]
           f == Opening(k)
           M == Allowed(k)
<1>1. now \in Nat /\ s \in Seq(Nat) /\ n \in Nat /\ \A i \in 1 .. n : s[i] \in Nat
  BY LenProperties, ElementOfSeq DEF TypeOK
<1>2. /\ passed'[k] = Append(s, now)
      /\ \A l \in Keys : l # k => passed'[l] = passed[l] /\ attempts'[l] = attempts[l]
      /\ attempts'[k] = Counted(k)
  BY DEF Pass, TypeOK
<1>3. /\ Len(passed'[k]) = n + 1 /\ passed'[k][n + 1] = now
      /\ \A i \in 1 .. n : passed'[k][i] = s[i]
  BY <1>1, <1>2, AppendProperties
<1>4. Agrees(k) /\ InOrder(k)
  BY DEF LimiterInv
<1>5. a # None => /\ a.count \in 1 .. M /\ f = n - a.count + 1
                  /\ f \in 1 .. n /\ a.first = s[f]
                  /\ f > M => s[f] - s[f - M] > Window
  BY <1>4 DEF Agrees, Opening
<1>6. a = None => n = 0
  BY <1>4, EmptySeq DEF Agrees
<1>7. /\ \A i \in 1 .. n : s[i] <= now
      /\ \A i, j \in 1 .. n : i <= j => s[i] <= s[j]
      /\ \A i, j \in 1 .. n : j - i = 2 * M - 1 => s[j] - s[i] > Window
  BY <1>4 DEF InOrder
<1>8. a # None /\ ~ WindowOver(k) => a.count < M
  BY DEF Pass
<1>9. a # None => (WindowOver(k) <=> now - a.first > Window)
  BY DEF WindowOver
<1>a. a = None => WindowOver(k)
  BY DEF WindowOver
<1>10. IF WindowOver(k) THEN attempts'[k] = [count |-> 1, first |-> now]
       ELSE attempts'[k].count = a.count + 1 /\ attempts'[k].first = a.first /\ attempts'[k] # None
  <2>1. CASE WindowOver(k)
    BY <1>2, <2>1 DEF Counted
  <2>2. CASE ~ WindowOver(k)
    <3>1. a \in [count : Nat, first : Nat]
      BY <1>a, <2>2 DEF TypeOK
    <3>2. attempts'[k] = [a EXCEPT !.count = @ + 1]
      BY <1>2, <2>2 DEF Counted
    <3>3. attempts'[k] \in [count : Nat, first : Nat]
      BY <3>1, <3>2
    <3> QED
      BY <2>2, <3>1, <3>2, <3>3
  <2> QED
    BY <2>1, <2>2
<1> DEFINE t == passed'[k]
<1> HIDE DEF s, n, a, f, M, t
<1>11. \A i \in 1 .. n + 1 : t[i] <= now /\ t[i] \in Nat
  BY <1>1, <1>3, <1>7 DEF t
<1>12. \A i, j \in 1 .. n + 1 : i <= j => t[i] <= t[j]
  BY <1>1, <1>3, <1>7, <1>11 DEF t
<1>13. ASSUME NEW i \in 1 .. n + 1, i = n + 2 - 2 * M
       PROVE  now - t[i] > Window
  <2>1. M >= 1 /\ M \in Nat
    BY DEF M
  <2>2. a # None /\ i \in 1 .. n /\ t[i] = s[i]
    BY <1>1, <1>3, <1>6, <1>13, <2>1 DEF t
  <2>3. CASE WindowOver(k)
    <3>1. i <= f
      BY <1>1, <1>5, <1>13, <2>1, <2>2
    <3>2. s[i] <= s[f] /\ s[f] \in Nat /\ s[i] \in Nat
      BY <1>1, <1>5, <1>7, <2>2, <3>1
    <3> QED
      BY <1>1, <1>5, <1>9, <2>2, <2>3, <3>2
  <2>4. CASE ~ WindowOver(k)
    <3> DEFINE c == a.count
    <3>0. c \in Nat /\ c >= 1 /\ c <= M - 1 /\ f = n - c + 1
      BY <1>5, <1>8, <2>1, <2>2, <2>4
    <3> HIDE DEF c
    <3>1. i <= f - M /\ f - M \in 1 .. n /\ f > M
      BY <1>1, <1>13, <2>1, <2>2, <3>0
    <3>a. s[i] <= s[f - M]
      BY <1>7, <2>2, <3>1
    <3>b. s[f] <= now /\ s[f] - s[f - M] > Window
      BY <1>5, <1>7, <2>2, <3>1
    <3>2. s[i] <= s[f - M] /\ s[f] <= now /\ s[f] - s[f - M] > Window
      BY <3>a, <3>b
    <3>3. s[i] \in Nat /\ s[f] \in Nat /\ s[f - M] \in Nat
      BY <1>1, <1>5, <2>2, <3>1
    <3> QED
      BY <1>1, <2>2, <3>2, <3>3
  <2> QED
    BY <2>3, <2>4
<1>14. \A i, j \in 1 .. n + 1 : j - i = 2 * M - 1 => t[j] - t[i] > Window
  <2> SUFFICES ASSUME NEW i \in 1 .. n + 1, NEW j \in 1 .. n + 1, j - i = 2 * M - 1
               PROVE  t[j] - t[i] > Window
    OBVIOUS
  <2>1. M >= 1 /\ M \in Nat
    BY DEF M
  <2>2. CASE j = n + 1
    BY <1>1, <1>3, <1>13, <2>1, <2>2 DEF t
  <2>3. CASE j \in 1 .. n
    <3>1. i \in 1 .. n
      BY <1>1, <2>1, <2>3
    <3> QED
      BY <1>3, <1>7, <2>3, <3>1 DEF t
  <2> QED
    BY <1>1, <2>2, <2>3
<1>15. InOrder(k)'
  BY <1>3, <1>11, <1>12, <1>14 DEF InOrder, t, M
<1>16. Agrees(k)'
  <2>1. M >= 1 /\ M \in Nat
    BY DEF M
  <2>2. CASE WindowOver(k)
    <3>1. attempts'[k].count = 1 /\ attempts'[k].first = now /\ attempts'[k] # None
      BY <1>1, <1>10, <2>2
    <3>2. Opening(k)' = n + 1
      BY <1>1, <1>3, <3>1 DEF Opening
    <3>3. ASSUME n + 1 > M
          PROVE  t[n + 1] - t[n + 1 - M] > Window
      <4>1. a # None /\ n + 1 - M \in 1 .. n /\ n + 1 - M <= f
        BY <1>1, <1>5, <1>6, <2>1, <3>3
      <4>2. s[n + 1 - M] <= s[f] /\ s[f] \in Nat /\ s[n + 1 - M] \in Nat
        BY <1>1, <1>5, <1>7, <4>1
      <4>3. now - s[f] > Window
        BY <1>5, <1>9, <2>2, <4>1
      <4>4. t[n + 1] = now /\ t[n + 1 - M] = s[n + 1 - M]
        BY <1>3, <4>1 DEF t
      <4> QED
        BY <1>1, <4>2, <4>3, <4>4
    <3> QED
      BY <1>1, <1>3, <2>1, <3>1, <3>2, <3>3 DEF Agrees, t, M
  <2>3. CASE ~ WindowOver(k)
    <3>1. a # None /\ a.count \in 1 .. M - 1 /\ f \in 1 .. n /\ f = n - a.count + 1
      BY <1>5, <1>8, <1>a, <2>1, <2>3
    <3>2. /\ attempts'[k].count = a.count + 1 /\ attempts'[k].first = s[f]
          /\ attempts'[k] # None
      BY <1>5, <1>10, <2>3, <3>1
    <3>3. Opening(k)' = f
      <4> DEFINE c == a.count
      <4>1. c \in Nat /\ f = n - c + 1
        BY <2>1, <3>1
      <4>2. attempts'[k].count = c + 1 /\ Len(passed'[k]) = n + 1
        BY <1>3, <3>2
      <4> HIDE DEF c
      <4>3. Opening(k)' = (n + 1) - (c + 1) + 1
        BY <4>2 DEF Opening
      <4> QED
        BY <1>1, <4>1, <4>3
    <3>4. t[f] = s[f] /\ f \in 1 .. n + 1
      BY <1>1, <1>3, <3>1 DEF t
    <3>5. f > M => t[f] - t[f - M] > Window
      <4> SUFFICES ASSUME f > M PROVE t[f] - t[f - M] > Window
        OBVIOUS
      <4>1. f - M \in 1 .. n
        BY <1>1, <2>1, <3>1
      <4> QED
        BY <1>3, <1>5, <3>1, <3>4, <4>1 DEF t
    <3> QED
      BY <1>3, <2>1, <3>1, <3>2, <3>3, <3>4, <3>5 DEF Agrees, t, M
  <2> QED
    BY <2>2, <2>3
<1>17. ASSUME NEW l \in Keys, l # k
       PROVE  Agrees(l)' /\ InOrder(l)'
  BY <1>2, <1>17 DEF LimiterInv, Agrees, Opening, InOrder
<1> QED
  BY <1>15, <1>16, <1>17 DEF LimiterInv

LEMMA InitLimiter ==
  ASSUME attempts = [k \in Keys |-> None], passed = [k \in Keys |-> << >>]
  PROVE  LimiterInv
<1>1. Len(<< >>) = 0
  OBVIOUS
<1> QED
  BY <1>1 DEF LimiterInv, Agrees, InOrder

LEMMA StepLimiter ==
  ASSUME TypeOK, LimiterInv, [Next]_vars
  PROVE  LimiterInv'
<1>1. ASSUME NEW k \in Keys, Pass(k), UNCHANGED now
      PROVE  LimiterInv'
  BY <1>1, PassAgrees
<1>2. CASE UNCHANGED <<now, limiter>>
  BY <1>2 DEF LimiterInv, Agrees, Opening, InOrder, limiter
<1>3. ASSUME NEW q \in Requests, Bounce(q) \/ LoginSuperAdmin(q) \/ Login(q)
      PROVE  (\E k \in Keys : Pass(k)) /\ UNCHANGED now
  BY <1>3 DEF Bounce, LoginSuperAdmin, Login, Keys
<1>4. ASSUME NEW q \in Requests, NEW u \in Users,
             RefuseStale(q, u) \/ WrongCode(q, u) \/ RightCode(q, u)
      PROVE  (\E k \in Keys : Pass(k)) /\ UNCHANGED now
  BY <1>4 DEF RefuseStale, WrongCode, RightCode, Submit, Keys
<1>5. ASSUME NEW q \in Requests,
             FindClient(q) \/ RightPassword(q) \/ WrongPassword(q) \/ Finish(q)
               \/ FindAccount(q) \/ Fail(q)
      PROVE  UNCHANGED <<now, limiter>>
  BY <1>5 DEF FindClient, RightPassword, WrongPassword, Finish, FindAccount, Fail
<1>6. CASE Restart
  <2>1. (attempts = [k \in Keys |-> None])' /\ (passed = [k \in Keys |-> << >>])'
    BY <1>6 DEF Restart
  <2>2. ASSUME NEW k \in Keys
        PROVE  attempts'[k] = None /\ passed'[k] = << >> /\ Len(passed'[k]) = 0
    BY <2>1
  <2> QED
    BY <2>2 DEF LimiterInv, Agrees, InOrder
<1>7. CASE Tick
  <2>1. now \in Nat /\ now' = now + 1 /\ UNCHANGED <<attempts, passed>>
    BY <1>7 DEF Tick, TypeOK, limiter
  <2>2. ASSUME NEW k \in Keys
        PROVE  Agrees(k)' /\ InOrder(k)'
    <3>1. passed[k] \in Seq(Nat) /\ \A i \in 1 .. Len(passed[k]) : passed[k][i] \in Nat
      BY ElementOfSeq DEF TypeOK
    <3>2. Agrees(k)'
      BY <2>1 DEF LimiterInv, Agrees, Opening
    <3>3. \A i \in 1 .. Len(passed[k]) : passed[k][i] <= now + 1
      <4> SUFFICES ASSUME NEW i \in 1 .. Len(passed[k])
                   PROVE  passed[k][i] <= now + 1
        OBVIOUS
      <4>1. passed[k][i] <= now /\ passed[k][i] \in Nat
        BY <3>1 DEF LimiterInv, InOrder
      <4> QED
        BY <2>1, <4>1
    <3>4. InOrder(k)'
      BY <2>1, <3>3 DEF LimiterInv, InOrder
    <3> QED
      BY <3>2, <3>4
  <2> QED
    BY <2>2 DEF LimiterInv
<1>8. CASE (\E c \in Clients : SetActive(c) \/ Delete(c)) \/ UNCHANGED vars
  BY <1>2, <1>8 DEF SetActive, Delete, vars, limiter
<1> QED
  BY <1>1, <1>2, <1>3, <1>4, <1>5, <1>6, <1>7, <1>8 DEF Next, Step

LEMMA LimiterInvariance == Spec => []LimiterInv
<1>1. Init => LimiterInv
  BY InitLimiter DEF Init
<1> QED
  BY <1>1, TypeCorrect, StepLimiter, PTL DEF Spec

\* For whatever maximum, window and spellings, no span as short as a window sees
\* twice the maximum of requests of one address under one spelling of a path;
\* of a route, whose spellings have a record each, it bounds no more than each
\* of them (rateLimit).
THEOREM RatesAreBounded == Spec => []RateBound
<1>1. LimiterInv => RateBound
  BY DEF LimiterInv, InOrder, RateBound
<1> QED
  BY <1>1, LimiterInvariance, PTL

\* A record that outlived its window turns nobody away: whoever is answered 429
\* has had the maximum of requests in the last window (rateLimit).
THEOREM NobodyIsTurnedAwayWrongly == Spec => []TurnedAwayRightly
<1>1. TypeOK /\ LimiterInv => TurnedAwayRightly
  <2> SUFFICES ASSUME TypeOK, LimiterInv, NEW k \in Keys, ~ WindowOver(k),
                      attempts[k].count >= Allowed(k)
               PROVE  \E i \in 1 .. Len(passed[k]) :
                        /\ Len(passed[k]) - i + 1 >= Allowed(k)
                        /\ now - passed[k][i] <= Window
    BY DEF TurnedAwayRightly
  <2>1. attempts[k] # None /\ ~ (now - attempts[k].first > Window) /\ Agrees(k)
    BY DEF WindowOver, LimiterInv
  <2>2. /\ Opening(k) \in 1 .. Len(passed[k])
        /\ attempts[k].first = passed[k][Opening(k)]
        /\ attempts[k].count \in Nat /\ Len(passed[k]) \in Nat
    BY <2>1, LenProperties, LimiterNumbers DEF Agrees, TypeOK
  <2>3. Len(passed[k]) - Opening(k) + 1 >= Allowed(k)
    BY <2>2, LimiterNumbers DEF Opening
  <2>4. now \in Nat /\ passed[k][Opening(k)] \in Nat
    BY <2>2, ElementOfSeq DEF TypeOK
  <2>5. now - passed[k][Opening(k)] <= Window
    BY <2>1, <2>2, <2>4
  <2> QED
    BY <2>2, <2>3, <2>5
<1> QED
  BY <1>1, TypeCorrect, LimiterInvariance, PTL

=============================================================================
