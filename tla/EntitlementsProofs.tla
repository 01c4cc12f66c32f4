--------------------------- MODULE EntitlementsProofs ---------------------------
(***************************************************************************)
(* Proofs about Entitlements, for any number of requests, tenants, events *)
(* and periods, and for any quotas.                                        *)
(***************************************************************************)
EXTENDS Entitlements, FiniteSetTheorems, TLAPS

-----------------------------------------------------------------------------
(* The inductive invariant.                                                *)

Serialized(q) == pc[q] \in {"read", "insert"} \cup Holding => lock[tx[q].client] = q

\* What is asked for belongs to the tenant that asks.
Owned(q) ==
  /\ tx[q].op \in {"event", "table"} => tx[q].client = EventOwner[tx[q].event]
  /\ tx[q].count > 0 => tx[q].op \in {"event", "table"}

SameTerms(row, other) ==
  row # None /\ row.plan = other.plan /\ row.status = other.status /\ row.start = other.start

\* The row in the table is the one the transaction decides by, unless it has
\* rewritten it, which changes the plan only after a period that has ended.
RowKept(q) ==
  LET c == tx[q].client IN
  pc[q] \in Holding =>
    /\ tx[q].written = None => SameTerms(sub[c], tx[q].row)
    /\ tx[q].written # None =>
         /\ tx[q].written.start = tx[q].row.start /\ tx[q].written.end = "none"
         /\ \/ EffectivePlan(tx[q].written) = PlanOf(q)
            \/ /\ tx[q].op = "event" /\ tx[q].count > 0 /\ pc[q] \in {"commit", "tooManyTables"}
               /\ sub[c] # None /\ Lapsed(sub[c])
    /\ sub[c] # None => sub[c].start = tx[q].row.start

\* What was counted still holds when the transaction ends.
Decided(q) ==
  /\ pc[q] = "countTables" => tx[q].count > 0
  /\ pc[q] \in {"countTables", "commit"} => MayCreate(q)
  /\ pc[q] = "commit" /\ tx[q].count > 0 =>
       Within(tables[tx[q].event].own + tx[q].count, TableLimit[EffectivePlan(View(q))])
  /\ pc[q] = "refused" /\ tx[q].op = "event" =>
       ~ Within(Cardinality(Created(q)) + 1, EventLimit[PlanOf(q)])

Prepared(q) == Serialized(q) /\ Owned(q) /\ RowKept(q) /\ Decided(q)

Inv ==
  /\ TypeOK
  /\ IsFiniteSet(ledger)
  /\ \A q \in Requests : Prepared(q)

USE QuotaConstants

-----------------------------------------------------------------------------
(* Rows, plans and limits.                                                 *)

LEMMA RowTypes ==
  /\ \A n \in Nat : FreeRow(n) \in SubscriptionRows
  /\ \A n \in Nat, plan \in PaidPlans : PaidRow(plan, n) \in SubscriptionRows
  /\ \A n \in Nat, plan \in PlanCodes, status \in Statuses :
       GrantedRow(plan, status, n) \in SubscriptionRows
  /\ \A row \in SubscriptionRows : ExpiredRow(row) \in SubscriptionRows
BY DEF FreeRow, PaidRow, GrantedRow, ExpiredRow, SubscriptionOf, SubscriptionRows, PlanCodes,
  PaidPlans, Statuses

LEMMA PlanTypes == \A row \in SubscriptionRows : EffectivePlan(row) \in PlanCodes
BY DEF EffectivePlan, SubscriptionRows, PlanCodes

\* A limit that leaves room for more leaves room for less.
LEMMA WithinLess ==
  ASSUME NEW limit \in Nat \cup {Unlimited}, NEW m \in Nat, NEW n \in Nat, n <= m,
         Within(m, limit)
  PROVE  Within(n, limit)
BY DEF Within

\* A request past its reading has a row, and its tenant a plan.
LEMMA Terms ==
  ASSUME TypeOK, NEW q \in Requests, pc[q] \in Holding
  PROVE  /\ tx[q].client \in Clients
         /\ tx[q].row \in SubscriptionRows
         /\ PlanOf(q) \in PlanCodes
         /\ EventLimit[PlanOf(q)] \in Nat \cup {Unlimited}
         /\ BuildingLimit[PlanOf(q)] \in Nat \cup {Unlimited}
         /\ TableLimit[PlanOf(q)] \in Nat \cup {Unlimited}
<1>1. tx[q].client \in Clients /\ tx[q].row \in SubscriptionRows
  BY DEF TypeOK, Transactions, Holding
<1>2. PlanOf(q) \in PlanCodes
  BY <1>1, PlanTypes DEF PlanOf
<1> QED BY <1>1, <1>2 DEF Limits

\* At most one request of a tenant is past taking the lock.
LEMMA OnePerTenant ==
  ASSUME Inv, NEW q \in Requests, NEW r \in Requests, q # r,
         pc[q] \in {"read", "insert"} \cup Holding, pc[r] \in {"read", "insert"} \cup Holding
  PROVE  tx[q].client # tx[r].client
BY DEF Inv, Prepared, Serialized

LEMMA InitInv == Init => Inv
<1> SUFFICES ASSUME Init PROVE Inv
  OBVIOUS
<1>1. TypeOK
  BY DEF Init, TypeOK, NothingAsked, Asked, Transactions, Holding
<1>2. IsFiniteSet(ledger)
  BY FS_EmptySet DEF Init
<1>3. ASSUME NEW q \in Requests PROVE Prepared(q)
  BY DEF Init, Prepared, Serialized, Owned, RowKept, Decided, NothingAsked, Asked, Holding
<1> QED BY <1>1, <1>2, <1>3 DEF Inv

-----------------------------------------------------------------------------
(* The step of one request leaves what the others rely on.                 *)

\* The part of the state that request q relies on is as it was.
Undisturbed(q) ==
  LET c == tx[q].client IN
  /\ pc'[q] = pc[q] /\ tx'[q] = tx[q]
  /\ pc[q] \in {"read", "insert"} \cup Holding => lock'[c] = lock[c]
  /\ pc[q] \in Holding =>
       /\ sub[c] = None <=> sub'[c] = None
       /\ sub[c] # None => SameTerms(sub[c], sub'[c]) /\ (Lapsed(sub[c]) => Lapsed(sub'[c]))
       /\ \A start \in Nat : CreatedIn(ledger', c, start) = CreatedIn(ledger, c, start)
       /\ buildings'[c] <= buildings[c]
       /\ tx[q].count > 0 => tables'[tx[q].event].own = tables[tx[q].event].own

LEMMA Frame ==
  ASSUME TypeOK, TypeOK', NEW q \in Requests, Prepared(q), Undisturbed(q)
  PROVE  Prepared(q)'
<1> DEFINE c == tx[q].client
<1>1. Serialized(q)' /\ Owned(q)'
  BY DEF Prepared, Serialized, Owned, Undisturbed
<1>2. RowKept(q)'
  BY DEF Prepared, RowKept, Undisturbed, SameTerms, PlanOf
<1>3. ASSUME pc[q] \in Holding PROVE Decided(q)'
  <2>1. PlanOf(q)' = PlanOf(q)
    BY DEF PlanOf, Undisturbed
  <2>2. Created(q)' = Created(q)
    BY <1>3, Terms DEF Created, Undisturbed, SubscriptionRows
  <2>3. buildings[c] \in Nat /\ buildings'[c] \in Nat /\ buildings'[c] <= buildings[c]
    BY <1>3, Terms DEF TypeOK, Undisturbed
  <2>4. MayCreate(q) => MayCreate(q)'
    <3>1. Within(buildings[c] + 1, BuildingLimit[PlanOf(q)])
            => Within(buildings'[c] + 1, BuildingLimit[PlanOf(q)])
      BY <1>3, <2>3, Terms, WithinLess
    <3> QED BY <2>1, <2>2, <3>1 DEF MayCreate, Undisturbed
  <2>5. tx[q].count > 0 => tables'[tx[q].event].own = tables[tx[q].event].own
    BY <1>3 DEF Undisturbed
  <2>6. EffectivePlan(View(q))' = EffectivePlan(View(q))
    BY <1>3 DEF Prepared, RowKept, Undisturbed, SameTerms, EffectivePlan, View
  <2> QED BY <2>1, <2>2, <2>4, <2>5, <2>6 DEF Prepared, Decided, Undisturbed
<1>4. ASSUME pc[q] \notin Holding PROVE Decided(q)'
  <2>1. pc'[q] \notin {"countTables", "commit", "refused"}
    BY <1>4 DEF Undisturbed, Holding
  <2> QED BY <2>1 DEF Decided
<1> QED BY <1>1, <1>2, <1>3, <1>4 DEF Prepared

\* A step that writes no table and gives no lock away disturbs only its request.
LEMMA QuietStep ==
  ASSUME Inv, TypeOK', NEW q \in Requests,
         UNCHANGED <<sub, usage>>,
         \A r \in Requests \ {q} : pc'[r] = pc[r] /\ tx'[r] = tx[r],
         \A r \in Requests \ {q} :
           pc[r] \in {"read", "insert"} \cup Holding => lock'[tx[r].client] = lock[tx[r].client],
         Prepared(q)'
  PROVE  Inv'
<1>1. IsFiniteSet(ledger)'
  BY DEF Inv, usage
<1>2. ASSUME NEW r \in Requests \ {q} PROVE Prepared(r)'
  <2>1. Prepared(r)
    BY DEF Inv
  <2>2. pc[r] \in Holding => tx[r].client \in Clients
    BY DEF Inv, TypeOK, Holding
  <2>3. Undisturbed(r)
    BY <2>2 DEF Inv, TypeOK, Undisturbed, SameTerms, usage
  <2> QED BY <2>1, <2>3, Frame DEF Inv
<1> QED BY <1>1, <1>2 DEF Inv

-----------------------------------------------------------------------------
(* The steps of a request.                                                 *)

Steps == {"idle", "lock", "read", "insert"} \cup Holding

\* What every step must keep of the types when it writes no table.
LEMMA MoveTypes ==
  ASSUME TypeOK, NEW q \in Requests, NEW new \in Transactions, NEW step \in Steps,
         UNCHANGED <<sub, usage>>,
         lock' \in [Clients -> Requests \cup {None}],
         tx' = [tx EXCEPT ![q] = new], pc' = [pc EXCEPT ![q] = step],
         step # "idle" => new.client \in Clients,
         new.op \in {"event", "table"} => new.event \in EventIds,
         step \in Holding => new.row # None
  PROVE  TypeOK'
BY DEF TypeOK, usage, Steps

\* BEGIN and the advisory lock.
LEMMA BeginInv == ASSUME Inv, NEW q \in Requests, Begin(q) PROVE Inv'
<1>1. ASSUME NEW op \in {"building", "event", "table"}, NEW c \in Clients,
             NEW e \in EventIds \cup {None}, NEW n \in Nat,
             op # "building" => e \in EventIds /\ c = EventOwner[e],
             op = "building" => n = 0,
             tx' = [tx EXCEPT ![q] = Asked(op, c, e, n)]
      PROVE  Inv'
  <2> DEFINE new == Asked(op, c, e, n)
  <2>1. new \in Transactions /\ new.client = c /\ new.op = op /\ new.event = e /\ new.count = n
    BY DEF Asked, Transactions
  <2> HIDE DEF new
  <2>2. TypeOK'
    BY <1>1, <2>1, MoveTypes DEF Inv, Begin, Steps, TypeOK, Holding, new
  <2>3. tx'[q] = new /\ pc'[q] = "lock"
    BY <1>1 DEF Inv, TypeOK, Begin, new
  <2>4. Prepared(q)'
    BY <1>1, <2>1, <2>3 DEF Prepared, Serialized, Owned, RowKept, Decided, Holding
  <2> QED BY <1>1, <2>2, <2>4, QuietStep DEF Inv, TypeOK, Begin
<1>2. TableCounts \subseteq Nat /\ (\A e \in EventIds : EventOwner[e] \in Clients)
  OBVIOUS
<1> QED BY <1>1, <1>2 DEF Begin

LEMMA TakeLockInv == ASSUME Inv, NEW q \in Requests, TakeLock(q) PROVE Inv'
<1>1. tx[q].client \in Clients /\ tx[q] \in Transactions
  BY DEF Inv, TypeOK, TakeLock
<1>2. TypeOK'
  BY <1>1 DEF Inv, TypeOK, TakeLock, Goto, usage, Holding
<1>3. Prepared(q)'
  BY <1>1 DEF Inv, TypeOK, TakeLock, Goto, Prepared, Serialized, Owned, RowKept, Decided, Holding
<1>4. ASSUME NEW r \in Requests \ {q}, pc[r] \in {"read", "insert"} \cup Holding
      PROVE  lock'[tx[r].client] = lock[tx[r].client]
  <2>1. lock[tx[r].client] = r /\ tx[r].client \in Clients
    BY <1>4 DEF Inv, TypeOK, Prepared, Serialized, Holding
  <2> QED BY <1>1, <2>1 DEF Inv, TypeOK, TakeLock
<1> QED BY <1>2, <1>3, <1>4, QuietStep DEF Inv, TypeOK, TakeLock, Goto

\* The row is read, or a new one inserted.
LEMMA ReadInv ==
  ASSUME Inv, NEW q \in Requests, Read(q)
  PROVE  Inv'
<1> DEFINE c == tx[q].client
<1>0. c \in Clients /\ tx[q] \in Transactions /\ Prepared(q) /\ pc[q] \in {"read", "insert"}
  BY DEF Inv, TypeOK, Read, ReadSubscription, ReadNothing, InsertSubscription
<1>1. CASE ReadNothing(q)
  <2>1. TypeOK'
    BY <1>0, <1>1 DEF Inv, TypeOK, ReadNothing, Goto, usage, Holding
  <2>2. Prepared(q)'
    BY <1>0, <1>1 DEF Inv, TypeOK, ReadNothing, Goto, Prepared, Serialized, Owned, RowKept, Decided,
      Holding
  <2> QED BY <1>1, <2>1, <2>2, QuietStep DEF Inv, TypeOK, ReadNothing, Goto
<1>2. ASSUME NEW row \in SubscriptionRows, NEW written \in {row, None},
             tx' = [tx EXCEPT ![q] = [@ EXCEPT !.row = row, !.written = written]],
             Goto(q, "count"), UNCHANGED <<sub, usage, lock>>,
             written = None => SameTerms(sub[c], row),
             written = row => row.end = "none",
             sub[c] # None => sub[c].start = row.start
      PROVE  Inv'
  <2> DEFINE new == [tx[q] EXCEPT !.row = row, !.written = written]
  <2>1. /\ new \in Transactions /\ new.client = c /\ new.op = tx[q].op
        /\ new.event = tx[q].event /\ new.count = tx[q].count /\ new.row = row
        /\ new.written = written
    BY <1>0 DEF Transactions
  <2>2. tx' = [tx EXCEPT ![q] = new] /\ tx'[q] = new /\ pc'[q] = "count"
    BY <1>2 DEF Inv, TypeOK, Goto
  <2> HIDE DEF new
  <2>3. TypeOK'
    <3>1. new.op \in {"event", "table"} => new.event \in EventIds
      BY <2>1 DEF Inv, TypeOK
    <3>2. lock' \in [Clients -> Requests \cup {None}] /\ "count" \in Steps
      BY <1>2 DEF Inv, TypeOK, Steps, Holding
    <3> QED BY <1>0, <1>2, <2>1, <2>2, <3>1, <3>2, MoveTypes DEF Inv, Goto
  <2>4. Prepared(q)'
    BY <1>0, <1>2, <2>1, <2>2 DEF Prepared, Serialized, Owned, RowKept, Decided, Holding, PlanOf
  <2> QED BY <1>2, <2>3, <2>4, QuietStep DEF Inv, TypeOK, Goto
<1>3. CASE ReadSubscription(q)
  <2>1. sub[c] \in SubscriptionRows /\ ExpiredRow(sub[c]) \in SubscriptionRows
    BY <1>0, <1>3, RowTypes DEF Inv, TypeOK, ReadSubscription
  <2>2. ExpiredRow(sub[c]).start = sub[c].start /\ ExpiredRow(sub[c]).end = "none"
    BY DEF ExpiredRow, SubscriptionOf
  <2>3. SameTerms(sub[c], sub[c])
    BY <1>3 DEF SameTerms, ReadSubscription
  <2> QED BY <1>2, <1>3, <2>1, <2>2, <2>3 DEF ReadSubscription, Lapsed
<1>4. CASE InsertSubscription(q)
  <2>1. NextStart(c) \in Nat
    BY <1>0, <1>4 DEF InsertSubscription, NextStart
  <2>2. FreeRow(NextStart(c)).end = "none"
    BY DEF FreeRow, SubscriptionOf
  <2> QED BY <1>2, <1>4, <2>1, <2>2, RowTypes DEF InsertSubscription
<1> QED BY <1>1, <1>3, <1>4 DEF Read

\* What is counted is what the decision rests on until the transaction ends.
LEMMA CountInv == ASSUME Inv, NEW q \in Requests, Count(q) PROVE Inv'
<1>0. tx[q].client \in Clients /\ Prepared(q) /\ pc[q] \in Holding /\ pc[q] = "count"
  BY DEF Inv, TypeOK, Count, Holding
<1>1. TypeOK'
  BY <1>0 DEF Inv, TypeOK, Count, Goto, usage, Holding
<1>2. UNCHANGED <<sub, usage, lock, tx>>
  BY DEF Count
<1>3. PlanOf(q)' = PlanOf(q) /\ (MayCreate(q)' <=> MayCreate(q)) /\ Created(q)' = Created(q)
  BY <1>2 DEF PlanOf, MayCreate, Created, usage
<1>4. \/ /\ MayCreate(q)
         /\ (pc'[q] = "countTables" /\ tx[q].count > 0) \/ (pc'[q] = "commit" /\ ~ (tx[q].count > 0))
      \/ ~ MayCreate(q) /\ pc'[q] = "refused"
  BY DEF Inv, TypeOK, Count, Goto
<1>5. tx[q].op = "event" /\ ~ MayCreate(q) =>
        ~ Within(Cardinality(Created(q)) + 1, EventLimit[PlanOf(q)])
  BY DEF MayCreate
<1>6. Serialized(q)' /\ Owned(q)'
  BY <1>0, <1>2 DEF Prepared, Serialized, Owned, Holding
<1>7. RowKept(q)'
  <2>1. /\ tx[q].written = None => SameTerms(sub[tx[q].client], tx[q].row)
        /\ tx[q].written # None =>
             /\ tx[q].written.start = tx[q].row.start /\ tx[q].written.end = "none"
             /\ EffectivePlan(tx[q].written) = PlanOf(q)
        /\ sub[tx[q].client] # None => sub[tx[q].client].start = tx[q].row.start
    BY <1>0 DEF Prepared, RowKept
  <2> QED BY <1>2, <1>3, <2>1 DEF RowKept
<1>8. Decided(q)'
  BY <1>2, <1>3, <1>4, <1>5 DEF Decided
<1> QED BY <1>1, <1>2, <1>6, <1>7, <1>8, QuietStep DEF Inv, TypeOK, Count, Goto, Prepared

\* The tables are counted under the row as it is read again.
LEMMA CountTablesInv == ASSUME Inv, NEW q \in Requests, CountTables(q) PROVE Inv'
<1> DEFINE c == tx[q].client
           written == IF Reread(q) = View(q) THEN tx[q].written ELSE Reread(q)
           new == [tx[q] EXCEPT !.written = written]
<1>0. /\ c \in Clients /\ tx[q] \in Transactions /\ Prepared(q)
      /\ pc[q] \in Holding /\ pc[q] = "countTables"
  BY DEF Inv, TypeOK, CountTables, Holding
<1>1. View(q) \in SubscriptionRows /\ Reread(q) \in SubscriptionRows
  <2>1. View(q) \in SubscriptionRows
    BY <1>0 DEF Inv, TypeOK, Prepared, RowKept, SameTerms, View, Transactions
  <2> QED BY <2>1, RowTypes DEF Reread
<1>2. /\ new \in Transactions /\ new.client = c /\ new.op = tx[q].op /\ new.event = tx[q].event
      /\ new.count = tx[q].count /\ new.row = tx[q].row /\ new.written = written
  BY <1>0, <1>1 DEF Transactions
<1>3. /\ tx' = [tx EXCEPT ![q] = new] /\ tx'[q] = new
      /\ pc' = [pc EXCEPT ![q] = pc'[q]]
      /\ pc'[q] = "tooManyTables" \/ (pc'[q] = "commit" /\ MayAddTables(q))
  <2>1. tx' = [tx EXCEPT ![q] = new]
    BY DEF CountTables
  <2> QED BY <2>1 DEF Inv, TypeOK, CountTables, Goto
<1>4. UNCHANGED <<sub, usage, lock>>
  BY DEF CountTables
<1> HIDE DEF new
<1>5. TypeOK'
  <2>1. new.op \in {"event", "table"} => new.event \in EventIds
    BY <1>2 DEF Inv, TypeOK
  <2>2. lock' \in [Clients -> Requests \cup {None}] /\ pc'[q] \in Steps /\ new.row # None
    BY <1>0, <1>2, <1>3, <1>4 DEF Inv, TypeOK, Steps, Holding
  <2> QED BY <1>0, <1>2, <1>3, <1>4, <2>1, <2>2, MoveTypes DEF Inv
<1>6. Serialized(q)' /\ Owned(q)'
  BY <1>0, <1>2, <1>3, <1>4 DEF Prepared, Serialized, Owned, Holding
<1>7. PlanOf(q)' = PlanOf(q) /\ (MayCreate(q)' <=> MayCreate(q))
  <2>1. PlanOf(q)' = PlanOf(q)
    BY <1>2, <1>3 DEF PlanOf
  <2> QED BY <1>2, <1>3, <1>4, <2>1 DEF MayCreate, Created, usage
<1>8. View(q)' = Reread(q)
  BY <1>1, <1>2, <1>3, <1>4 DEF View
<1>9. /\ tx[q].written = None => SameTerms(sub[c], tx[q].row)
      /\ tx[q].written # None =>
           /\ tx[q].written.start = tx[q].row.start /\ tx[q].written.end = "none"
           /\ EffectivePlan(tx[q].written) = PlanOf(q)
      /\ sub[c] # None => sub[c].start = tx[q].row.start
  BY <1>0 DEF Prepared, RowKept
<1>10. RowKept(q)'
  <2>1. CASE Reread(q) = View(q)
    BY <1>2, <1>3, <1>4, <1>7, <1>9, <2>1 DEF RowKept
  <2>2. CASE Reread(q) # View(q)
    <3>1. tx[q].op = "event" /\ Lapsed(View(q)) /\ Reread(q) = ExpiredRow(View(q))
      BY <2>2 DEF Reread
    <3>2. Reread(q).start = View(q).start /\ Reread(q).end = "none"
      BY <3>1 DEF ExpiredRow, SubscriptionOf
    <3>3. View(q).start = tx[q].row.start
      BY <1>9 DEF View, SameTerms
    <3>4. written = Reread(q) /\ Reread(q) # None
      BY <1>1, <2>2
    <3>5. CASE tx[q].written = None
      <4>1. View(q) = sub[c] /\ sub[c] # None
        BY <1>9, <3>5 DEF View, SameTerms
      <4>2. tx[q].count > 0
        BY <1>0, <3>1 DEF Prepared, Decided, RowKept
      <4> QED BY <1>2, <1>3, <1>4, <1>9, <3>1, <3>2, <3>3, <3>4, <4>1, <4>2 DEF RowKept
    <3>6. CASE tx[q].written # None
      <4>1. View(q) = tx[q].written
        BY <3>6 DEF View
      <4> QED BY <1>9, <3>1, <3>6, <4>1 DEF Lapsed
    <3> QED BY <3>5, <3>6
  <2> QED BY <2>1, <2>2
<1>11. Decided(q)'
  <2>1. MayCreate(q)
    BY <1>0 DEF Prepared, Decided
  <2>2. ASSUME MayAddTables(q), tx[q].count > 0
        PROVE  Within(tables[tx[q].event].own + tx[q].count, TableLimit[EffectivePlan(Reread(q))])
    <3> DEFINE t == tables[tx[q].event]
               limit == TableLimit[EffectivePlan(Reread(q))]
    <3>1. tx[q].event \in EventIds /\ tx[q].count \in Nat
      BY <1>0, <2>2 DEF Inv, TypeOK, Prepared, Owned, Transactions
    <3>2. t.own \in Nat /\ t.platform \in Nat
      BY <3>1 DEF Inv, TypeOK
    <3>3. limit \in Nat \cup {Unlimited}
      BY <1>1, PlanTypes DEF Limits
    <3>4. Within(t.own + t.platform + tx[q].count, limit)
      BY <2>2 DEF MayAddTables
    <3>5. /\ t.own + tx[q].count \in Nat /\ t.own + t.platform + tx[q].count \in Nat
          /\ t.own + tx[q].count <= t.own + t.platform + tx[q].count
      BY <3>1, <3>2
    <3> QED BY <3>3, <3>4, <3>5, WithinLess
  <2> QED BY <1>2, <1>3, <1>4, <1>7, <1>8, <2>1, <2>2 DEF Decided, usage
<1> QED BY <1>3, <1>4, <1>5, <1>6, <1>10, <1>11, QuietStep DEF Inv, TypeOK, Prepared

\* The end of a transaction: the request asks for nothing and holds nothing.
LEMMA EndTypes ==
  ASSUME TypeOK, NEW q \in Requests, End(q)
  PROVE  /\ lock' \in [Clients -> Requests \cup {None}]
         /\ tx' \in [Requests -> Transactions]
         /\ pc' \in [Requests -> Steps]
         /\ tx'[q] = NothingAsked /\ pc'[q] = "idle"
         /\ \A r \in Requests \ {q} : pc'[r] = pc[r] /\ tx'[r] = tx[r]
         /\ \A c \in Clients : lock[c] # q => lock'[c] = lock[c]
BY DEF TypeOK, End, Unlocked, Goto, NothingAsked, Asked, Transactions, Steps

LEMMA EndPrepared ==
  ASSUME TypeOK, NEW q \in Requests, End(q)
  PROVE  Prepared(q)'
BY EndTypes DEF Prepared, Serialized, Owned, RowKept, Decided, NothingAsked, Asked, Holding

\* Another request that is past taking its lock keeps it.
LEMMA EndKeepsLocks ==
  ASSUME Inv, NEW q \in Requests, End(q), NEW r \in Requests \ {q},
         pc[r] \in {"read", "insert"} \cup Holding
  PROVE  lock'[tx[r].client] = lock[tx[r].client]
<1>1. lock[tx[r].client] = r /\ tx[r].client \in Clients
  BY DEF Inv, TypeOK, Prepared, Serialized, Holding
<1> QED BY <1>1, EndTypes DEF Inv

\* ROLLBACK
LEMMA RollbackInv == ASSUME Inv, NEW q \in Requests, RolledBack(q) PROVE Inv'
<1>1. TypeOK'
  <2>1. \A r \in Requests :
          /\ pc'[r] # "idle" => tx'[r].client \in Clients
          /\ tx'[r].op \in {"event", "table"} => tx'[r].event \in EventIds
          /\ pc'[r] \in Holding => tx'[r].row # None
    BY EndTypes DEF Inv, TypeOK, RolledBack, NothingAsked, Asked, Holding
  <2> QED BY <2>1, EndTypes DEF Inv, TypeOK, RolledBack, usage, Steps
<1> QED BY <1>1, EndTypes, EndPrepared, EndKeepsLocks, QuietStep DEF Inv, RolledBack

-----------------------------------------------------------------------------
(* Commits.                                                                *)

\* The row after a commit is the one the transaction sees.
LEMMA PublishedRow ==
  ASSUME Inv, NEW q \in Requests, Publish(q)
  PROVE  LET c == tx[q].client IN
         /\ c \in Clients
         /\ sub' \in [Clients -> SubscriptionRows \cup {None}]
         /\ sub'[c] = View(q) /\ View(q) \in SubscriptionRows
         /\ \A d \in Clients \ {c} : sub'[d] = sub[d]
<1>1. pc[q] \in Holding /\ RowKept(q)
  BY DEF Inv, Prepared, Publish, Holding
<1>2. tx[q].client \in Clients /\ tx[q] \in Transactions
  BY <1>1, Terms DEF Inv, TypeOK
<1>3. View(q) \in SubscriptionRows
  BY <1>1, <1>2 DEF Inv, TypeOK, RowKept, SameTerms, View, Transactions
<1>4. sub' = [sub EXCEPT ![tx[q].client] = View(q)]
  BY DEF Publish
<1> QED BY <1>2, <1>3, <1>4 DEF Inv, TypeOK

\* The plan in force after a commit is the one whose limits were checked, unless
\* the period ended meanwhile.
LEMMA PublishedPlan ==
  ASSUME Inv, NEW q \in Requests, Publish(q)
  PROVE  LET c == tx[q].client IN
         /\ sub'[c].start = tx[q].row.start
         /\ \/ EffectivePlan(sub'[c]) = PlanOf(q)
            \/ tx[q].op = "event" /\ tx[q].count > 0 /\ Lapsed(sub[c])
<1>1. RowKept(q) /\ pc[q] \in Holding
  BY DEF Inv, Prepared, Publish, Holding
<1>2. CASE tx[q].written = None
  BY <1>1, <1>2, PublishedRow DEF RowKept, SameTerms, EffectivePlan, PlanOf, View
<1>3. CASE tx[q].written # None
  BY <1>1, <1>3, PublishedRow DEF RowKept, View
<1> QED BY <1>2, <1>3

\* A commit that writes only what belongs to its tenant keeps the invariant.
LEMMA CommitInv ==
  ASSUME Inv, TypeOK', NEW q \in Requests, Publish(q),
         IsFiniteSet(ledger'),
         \A c \in Clients \ {tx[q].client}, start \in Nat :
           CreatedIn(ledger', c, start) = CreatedIn(ledger, c, start),
         \A c \in Clients \ {tx[q].client} : buildings'[c] = buildings[c],
         \A e \in EventIds :
           EventOwner[e] # tx[q].client => tables'[e].own = tables[e].own
  PROVE  Inv'
<1>1. pc[q] \in {"read", "insert"} \cup Holding
  BY DEF Publish, Holding
<1>2. ASSUME NEW r \in Requests \ {q} PROVE Prepared(r)'
  <2> DEFINE c == tx[r].client
  <2>1. Prepared(r)
    BY DEF Inv
  <2>2. pc'[r] = pc[r] /\ tx'[r] = tx[r]
    BY EndTypes DEF Inv, Publish
  <2>3. ASSUME pc[r] \in {"read", "insert"} \cup Holding
        PROVE  lock'[c] = lock[c]
    BY <2>3, EndKeepsLocks DEF Publish
  <2>4. ASSUME pc[r] \in Holding
        PROVE  /\ sub[c] = None <=> sub'[c] = None
               /\ sub[c] # None => SameTerms(sub[c], sub'[c]) /\ (Lapsed(sub[c]) => Lapsed(sub'[c]))
               /\ \A start \in Nat : CreatedIn(ledger', c, start) = CreatedIn(ledger, c, start)
               /\ buildings'[c] <= buildings[c]
               /\ tx[r].count > 0 => tables'[tx[r].event].own = tables[tx[r].event].own
    <3>1. c \in Clients \ {tx[q].client}
      BY <1>1, <2>4, OnePerTenant, Terms DEF Inv
    <3>2. sub'[c] = sub[c]
      BY <3>1, PublishedRow
    <3>3. tx[r].count > 0 => tx[r].event \in EventIds /\ EventOwner[tx[r].event] = c
      BY <2>1 DEF Inv, TypeOK, Prepared, Owned
    <3>4. buildings[c] \in Nat /\ buildings'[c] = buildings[c]
      BY <3>1 DEF Inv, TypeOK
    <3> QED BY <3>1, <3>2, <3>3, <3>4 DEF SameTerms
  <2>5. Undisturbed(r)
    BY <2>2, <2>3, <2>4 DEF Undisturbed
  <2> QED BY <2>1, <2>5, Frame DEF Inv
<1>3. Prepared(q)'
  BY EndPrepared DEF Inv, Publish
<1> QED BY <1>2, <1>3 DEF Inv

\* The types after a commit, of everything but the table it writes.
LEMMA CommitTypes ==
  ASSUME Inv, NEW q \in Requests, Publish(q),
         ledger' \subseteq
           [client : Clients, period : Nat, event : EventIds],
         buildings' \in [Clients -> Nat],
         tables' \in [EventIds -> [own : Nat, platform : Nat]]
  PROVE  TypeOK'
<1>1. \A r \in Requests :
        /\ pc'[r] # "idle" => tx'[r].client \in Clients
        /\ tx'[r].op \in {"event", "table"} => tx'[r].event \in EventIds
        /\ pc'[r] \in Holding => tx'[r].row # None
  BY EndTypes DEF Inv, TypeOK, Publish, NothingAsked, Asked, Holding
<1> QED BY <1>1, EndTypes, PublishedRow DEF Inv, TypeOK, Publish, Steps

LEMMA CommitBuildingInv == ASSUME Inv, NEW q \in Requests, CommitBuilding(q) PROVE Inv'
<1>1. tx[q].client \in Clients /\ Publish(q)
  BY PublishedRow DEF CommitBuilding
<1>2. /\ buildings' \in [Clients -> Nat] /\ UNCHANGED <<ledger, tables>>
      /\ \A c \in Clients \ {tx[q].client} : buildings'[c] = buildings[c]
  BY <1>1 DEF Inv, TypeOK, CommitBuilding
<1>3. TypeOK'
  BY <1>1, <1>2, CommitTypes DEF Inv, TypeOK
<1> QED BY <1>1, <1>2, <1>3, CommitInv DEF Inv

\* Tables are added to the one event asked about.
LEMMA AddTablesTypes ==
  ASSUME Inv, NEW q \in Requests, AddTables(tx[q].event, tx[q].count, 0),
         tx[q].op \in {"event", "table"}
  PROVE  /\ tables' \in [EventIds -> [own : Nat, platform : Nat]]
         /\ tx[q].event \in EventIds /\ EventOwner[tx[q].event] = tx[q].client
         /\ tables'[tx[q].event].own = tables[tx[q].event].own + tx[q].count
         /\ \A e \in EventIds \ {tx[q].event} : tables'[e] = tables[e]
<1>1. tx[q].event \in EventIds /\ EventOwner[tx[q].event] = tx[q].client /\ tx[q].count \in Nat
  BY DEF Inv, TypeOK, Prepared, Owned, Transactions
<1> QED BY <1>1 DEF Inv, TypeOK, AddTables

LEMMA CommitTableInv == ASSUME Inv, NEW q \in Requests, CommitTable(q) PROVE Inv'
<1>1. Publish(q) /\ AddTables(tx[q].event, tx[q].count, 0) /\ tx[q].op \in {"event", "table"} /\ UNCHANGED <<ledger, buildings>>
  BY DEF CommitTable
<1>2. TypeOK'
  BY <1>1, AddTablesTypes, CommitTypes DEF Inv, TypeOK
<1>3. \A e \in EventIds : EventOwner[e] # tx[q].client => tables'[e].own = tables[e].own
  BY <1>1, AddTablesTypes
<1> QED BY <1>1, <1>2, <1>3, CommitInv DEF Inv

\* A creation adds its entry to those of the period that was counted.
LEMMA NewEntry ==
  ASSUME Inv, NEW q \in Requests, CommitEvent(q)
  PROVE  /\ Entry(q) \in
              [client : Clients, period : Nat, event : EventIds]
         /\ Entry(q).client = tx[q].client /\ Entry(q).period = tx[q].row.start
         /\ CreatedIn(ledger', tx[q].client, tx[q].row.start) = Created(q) \cup {Entry(q)}
         /\ IsFiniteSet(Created(q))
<1>1. tx[q].client \in Clients /\ tx[q].row \in SubscriptionRows
  BY Terms DEF Inv, CommitEvent, Publish, Holding
<1>2. tx[q].event \in EventIds /\ tx[q].row.start \in Nat
  BY <1>1 DEF Inv, TypeOK, CommitEvent, SubscriptionRows
<1>3. Entry(q).client = tx[q].client /\ Entry(q).period = tx[q].row.start
  BY DEF Entry
<1>4. CreatedIn(ledger', tx[q].client, tx[q].row.start) = Created(q) \cup {Entry(q)}
  BY <1>3 DEF CommitEvent, CreatedIn, Created
<1>5. IsFiniteSet(Created(q))
  BY FS_Subset DEF Inv, Created, CreatedIn
<1> QED BY <1>1, <1>2, <1>3, <1>4, <1>5 DEF Entry

LEMMA CommitEventInv == ASSUME Inv, NEW q \in Requests, CommitEvent(q) PROVE Inv'
<1>1. /\ Publish(q) /\ AddTables(tx[q].event, tx[q].count, 0) /\ tx[q].op \in {"event", "table"}
      /\ ledger' = ledger \cup {Entry(q)} /\ UNCHANGED buildings
  BY DEF CommitEvent
<1>2. TypeOK'
  BY <1>1, AddTablesTypes, NewEntry, CommitTypes DEF Inv, TypeOK
<1>3. \A e \in EventIds : EventOwner[e] # tx[q].client => tables'[e].own = tables[e].own
  BY <1>1, AddTablesTypes
<1>4. IsFiniteSet(ledger')
  BY <1>1, FS_AddElement DEF Inv
<1>5. \A c \in Clients \ {tx[q].client}, start \in Nat :
        CreatedIn(ledger', c, start) = CreatedIn(ledger, c, start)
  BY <1>1, NewEntry DEF CreatedIn
<1> QED BY <1>1, <1>2, <1>3, <1>4, <1>5, CommitInv DEF Inv

LEMMA StepInv == ASSUME Inv, NEW q \in Requests, Step(q) PROVE Inv'
<1>1. CASE Commit(q)
  BY <1>1, CommitBuildingInv, CommitTableInv, CommitEventInv DEF Commit
<1>2. CASE Refuse(q) \/ Conflict(q) \/ Fail(q)
  BY <1>2, RollbackInv DEF Refuse, Conflict, Fail
<1> QED BY <1>1, <1>2, BeginInv, TakeLockInv, ReadInv, CountInv, CountTablesInv DEF Step

-----------------------------------------------------------------------------
(* The other writers.                                                      *)

\* A row that is locked is not rewritten; one that only grows old keeps its terms.
LEMMA RowInv ==
  ASSUME Inv, NEW c \in Clients, NEW row \in SubscriptionRows,
         sub' = [sub EXCEPT ![c] = row],
         ~ RowLocked(c) \/ (SameTerms(sub[c], row) /\ ~ Lapsed(sub[c])),
         UNCHANGED <<usage, lock, tx, pc>>
  PROVE  Inv'
<1>1. TypeOK'
  BY DEF Inv, TypeOK, usage
<1>2. ASSUME NEW q \in Requests PROVE Prepared(q)'
  <2>1. Prepared(q)
    BY DEF Inv
  <2>2. ASSUME pc[q] \in Holding
        PROVE  LET d == tx[q].client IN
               /\ sub[d] = None <=> sub'[d] = None
               /\ sub[d] # None => SameTerms(sub[d], sub'[d]) /\ (Lapsed(sub[d]) => Lapsed(sub'[d]))
    <3>1. tx[q].client \in Clients
      BY <2>2, Terms DEF Inv
    <3>2. CASE tx[q].client = c
      BY <2>2, <3>1, <3>2 DEF Inv, TypeOK, RowLocked, SameTerms
    <3>3. CASE tx[q].client # c
      BY <3>1, <3>3 DEF Inv, TypeOK, SameTerms
    <3> QED BY <3>2, <3>3
  <2>3. pc[q] \in Holding => tx[q].client \in Clients
    BY Terms DEF Inv
  <2>4. Undisturbed(q)
    BY <2>2, <2>3 DEF Inv, TypeOK, Undisturbed, usage
  <2> QED BY <1>1, <2>1, <2>4, Frame DEF Inv
<1> QED BY <1>1, <1>2 DEF Inv, usage

LEMMA BeginPeriodInv == ASSUME Inv, NEW c \in Clients, BeginPeriod(c) PROVE Inv'
<1>1. NextStart(c) \in Nat
  BY DEF Inv, TypeOK, NextStart, SubscriptionRows
<1>2. PeriodsFrom(NextStart(c)) \subseteq SubscriptionRows
  BY <1>1, RowTypes DEF PeriodsFrom
<1> QED BY <1>2, RowInv DEF BeginPeriod

LEMMA KeepPeriodInv == ASSUME Inv, NEW c \in Clients, KeepPeriod(c) PROVE Inv'
<1>1. sub[c] \in SubscriptionRows
  BY DEF Inv, TypeOK, KeepPeriod
<1>2. Restated(sub[c]) \subseteq SubscriptionRows
  BY <1>1, RowTypes DEF Restated, SubscriptionRows, Statuses
<1> QED BY <1>2, RowInv DEF KeepPeriod

LEMMA PeriodEndsInv == ASSUME Inv, NEW c \in Clients, PeriodEnds(c) PROVE Inv'
<1>1. sub[c] \in SubscriptionRows /\ sub[c] # None
  BY DEF Inv, TypeOK, PeriodEnds
<1> DEFINE row == [sub[c] EXCEPT !.end = "past"]
<1>2. row \in SubscriptionRows /\ SameTerms(sub[c], row) /\ ~ Lapsed(sub[c])
  BY <1>1 DEF SubscriptionRows, SameTerms, PeriodEnds, Lapsed
<1>3. sub' = [sub EXCEPT ![c] = row]
  BY DEF Inv, TypeOK, PeriodEnds
<1> HIDE DEF row
<1> QED BY <1>2, <1>3, RowInv DEF PeriodEnds

\* What is deleted, or added by a super admin, makes no decision false.
LEMMA UsageInv ==
  ASSUME Inv, TypeOK', UNCHANGED <<sub, ledger, lock, tx, pc>>,
         \A c \in Clients : buildings'[c] <= buildings[c],
         \A e \in EventIds : tables'[e].own = tables[e].own
  PROVE  Inv'
<1>1. ASSUME NEW q \in Requests PROVE Prepared(q)'
  <2>1. Prepared(q)
    BY DEF Inv
  <2>2. pc[q] \in Holding => tx[q].client \in Clients
    BY Terms DEF Inv
  <2>3. tx[q].count > 0 => tx[q].event \in EventIds
    BY <2>1 DEF Inv, TypeOK, Prepared, Owned
  <2>4. Undisturbed(q)
    BY <2>2, <2>3 DEF Undisturbed, SameTerms
  <2> QED BY <2>1, <2>4, Frame DEF Inv
<1> QED BY <1>1 DEF Inv

LEMMA EnvironmentInv == ASSUME Inv, Environment PROVE Inv'
<1>1. ASSUME NEW c \in Clients, DeleteBuilding(c) PROVE Inv'
  <2>1. TypeOK' /\ \A d \in Clients : buildings'[d] <= buildings[d]
    BY <1>1 DEF Inv, TypeOK, DeleteBuilding
  <2> QED BY <1>1, <2>1, UsageInv DEF DeleteBuilding
<1>2. ASSUME NEW e \in EventIds, AddPlatformTable(e) PROVE Inv'
  <2>1. TypeOK' /\ \A f \in EventIds : tables'[f].own = tables[f].own
    BY <1>2 DEF Inv, TypeOK, AddPlatformTable, AddTables
  <2>2. \A c \in Clients : buildings'[c] <= buildings[c]
    BY <1>2 DEF Inv, TypeOK, AddPlatformTable
  <2> QED BY <1>2, <2>1, <2>2, UsageInv DEF AddPlatformTable
<1> QED BY <1>1, <1>2, BeginPeriodInv, KeepPeriodInv, PeriodEndsInv DEF Environment

LEMMA NextInv == Inv /\ [Next]_vars => Inv'
<1> SUFFICES ASSUME Inv, [Next]_vars PROVE Inv'
  OBVIOUS
<1>1. CASE Next
  BY <1>1, StepInv, EnvironmentInv DEF Next
<1>2. CASE UNCHANGED vars
  <2>1. TypeOK'
    BY <1>2 DEF Inv, TypeOK, vars, usage
  <2>2. \A c \in Clients : buildings'[c] <= buildings[c]
    BY <1>2 DEF Inv, TypeOK, vars, usage
  <2> QED BY <1>2, <2>1, <2>2, UsageInv DEF vars, usage
<1> QED BY <1>1, <1>2

-----------------------------------------------------------------------------
(* The properties.                                                         *)

\* The locks and what they protect, in every reachable state.
THEOREM Invariance == Spec => []Inv
BY InitInv, NextInv, PTL DEF Spec

\* Every row and every transaction keeps its type.
THEOREM TypeCorrect == Spec => []TypeOK
<1>1. Inv => TypeOK
  BY DEF Inv
<1> QED BY <1>1, Invariance, PTL

\* Who is refused an event has used up the quota of the current period.
THEOREM RefusedRightly == Spec => []NoFalseRefusal
<1>1. Inv => NoFalseRefusal
  <2> SUFFICES ASSUME Inv, NEW q \in Requests, pc[q] = "refused", tx[q].op = "event",
                      sub[tx[q].client] # None
               PROVE  ~ Within(Cardinality(CreatedIn(ledger, tx[q].client, sub[tx[q].client].start)) + 1,
                               EventLimit[PlanOf(q)])
    BY DEF NoFalseRefusal
  <2>1. Prepared(q) /\ pc[q] \in Holding
    BY DEF Inv, Holding
  <2>2. sub[tx[q].client].start = tx[q].row.start
    BY <2>1 DEF Prepared, RowKept
  <2> QED BY <2>1, <2>2 DEF Prepared, Decided, Created
<1> QED BY <1>1, Invariance, PTL

\* A step adds to the ledger only by the commit of a creation.
LEMMA LedgerSteps ==
  ASSUME [Next]_vars, ledger' # ledger
  PROVE  \E q \in Requests : CommitEvent(q)
<1>1. ASSUME NEW q \in Requests, Step(q) PROVE CommitEvent(q)
  <2>1. CASE Begin(q) \/ TakeLock(q) \/ Read(q) \/ Count(q) \/ CountTables(q)
    BY <2>1 DEF Begin, TakeLock, Read, ReadSubscription, ReadNothing, InsertSubscription, Count,
      CountTables, usage
  <2>2. CASE Refuse(q) \/ Conflict(q) \/ Fail(q)
    BY <2>2 DEF Refuse, Conflict, Fail, RolledBack, usage
  <2>3. CASE Commit(q)
    BY <2>3 DEF Commit, CommitBuilding, CommitTable
  <2> QED BY <1>1, <2>1, <2>2, <2>3 DEF Step
<1>2. ~ Environment
  BY DEF Environment, BeginPeriod, KeepPeriod, PeriodEnds, DeleteBuilding, AddPlatformTable,
    usage
<1>3. ~ UNCHANGED vars
  BY DEF vars, usage
<1> QED BY <1>1, <1>2, <1>3 DEF Next

\* No tenant exceeds its quota of events, however many requests are in flight.
THEOREM EventsWithinQuota == Spec => EventQuota
<1>1. Inv /\ [Next]_vars =>
        [\A x \in ledger' \ ledger :
           \E q \in Requests :
             /\ pc[q] = "commit" /\ tx[q].client = x.client
             /\ x.period = sub'[x.client].start
             /\ Within(Cardinality(CreatedIn(ledger', x.client, x.period)), EventLimit[PlanOf(q)])
             /\ PlanAfter(x.client) = PlanOf(q) \/ (tx[q].count > 0 /\ Lapsed(sub[x.client]))]_vars
  <2> SUFFICES ASSUME Inv, [Next]_vars, NEW x \in ledger' \ ledger
               PROVE  \E q \in Requests :
                        /\ pc[q] = "commit" /\ tx[q].client = x.client
                        /\ x.period = sub'[x.client].start
                        /\ Within(Cardinality(CreatedIn(ledger', x.client, x.period)),
                                  EventLimit[PlanOf(q)])
                        /\ \/ PlanAfter(x.client) = PlanOf(q)
                           \/ tx[q].count > 0 /\ Lapsed(sub[x.client])
    OBVIOUS
  <2>1. PICK q \in Requests : CommitEvent(q)
    BY LedgerSteps
  <2> DEFINE c == tx[q].client
             start == tx[q].row.start
  <2>2. Publish(q) /\ x = Entry(q) /\ pc[q] = "commit" /\ pc[q] \in Holding
    BY <2>1 DEF CommitEvent, Publish, Holding
  <2>3. x.client = c /\ x.period = start
    BY <2>1, <2>2, NewEntry
  <2>4. /\ sub'[c].start = start
        /\ PlanAfter(c) = PlanOf(q) \/ (tx[q].count > 0 /\ Lapsed(sub[c]))
    BY <2>2, PublishedPlan DEF PlanAfter
  <2>5. Within(Cardinality(Created(q)) + 1, EventLimit[PlanOf(q)])
    BY <2>1 DEF Inv, Prepared, Decided, MayCreate, CommitEvent, Publish
  <2>6. Cardinality(CreatedIn(ledger', c, start)) \in Nat /\ Cardinality(Created(q)) + 1 \in Nat
        /\ Cardinality(CreatedIn(ledger', c, start)) <= Cardinality(Created(q)) + 1
    <3>1. CreatedIn(ledger', c, start) = Created(q) \cup {Entry(q)} /\ IsFiniteSet(Created(q))
      BY <2>1, NewEntry
    <3>2. Cardinality(Created(q)) \in Nat
      BY <3>1, FS_CardinalityType
    <3>3. Cardinality(Created(q) \cup {Entry(q)})
            \in {Cardinality(Created(q)), Cardinality(Created(q)) + 1}
      BY <3>1, FS_AddElement
    <3> QED BY <3>1, <3>2, <3>3
  <2>7. EventLimit[PlanOf(q)] \in Nat \cup {Unlimited}
    BY <2>2, Terms DEF Inv
  <2>8. Within(Cardinality(CreatedIn(ledger', c, start)), EventLimit[PlanOf(q)])
    BY <2>5, <2>6, <2>7, WithinLess
  <2> QED BY <2>2, <2>3, <2>4, <2>8
<1> QED BY <1>1, Invariance, PTL DEF Spec, EventQuota

\* Buildings and a tenant's tables grow only by its own commits.
LEMMA BuildingSteps ==
  ASSUME TypeOK, [Next]_vars, NEW c \in Clients, buildings'[c] > buildings[c]
  PROVE  \E q \in Requests : CommitBuilding(q) /\ tx[q].client = c
<1>0. buildings \in [Clients -> Nat] /\ ~ UNCHANGED buildings
  BY DEF TypeOK
<1>1. ASSUME NEW q \in Requests, Step(q) PROVE CommitBuilding(q)
  <2>1. CASE Begin(q) \/ TakeLock(q) \/ Read(q) \/ Count(q) \/ CountTables(q)
    BY <1>0, <2>1 DEF Begin, TakeLock, Read, ReadSubscription, ReadNothing, InsertSubscription,
      Count, CountTables, usage
  <2>2. CASE Refuse(q) \/ Conflict(q) \/ Fail(q)
    BY <1>0, <2>2 DEF Refuse, Conflict, Fail, RolledBack, usage
  <2>3. CASE Commit(q)
    BY <1>0, <2>3 DEF Commit, CommitEvent, CommitTable
  <2> QED BY <1>1, <2>1, <2>2, <2>3 DEF Step
<1>2. ASSUME NEW q \in Requests, CommitBuilding(q) PROVE tx[q].client = c
  BY <1>0, <1>2 DEF CommitBuilding
<1>3. ~ Environment
  <2>1. \A d \in Clients : ~ DeleteBuilding(d)
    BY <1>0 DEF DeleteBuilding
  <2> QED BY <1>0, <2>1 DEF Environment, BeginPeriod, KeepPeriod, PeriodEnds, AddPlatformTable,
        usage
<1>4. ~ UNCHANGED vars
  BY <1>0 DEF vars, usage
<1> QED BY <1>1, <1>2, <1>3, <1>4 DEF Next

LEMMA TableSteps ==
  ASSUME Inv, [Next]_vars, NEW e \in EventIds, tables'[e].own > tables[e].own
  PROVE  \E q \in Requests :
           /\ Publish(q) /\ tx[q].event = e /\ tx[q].client = EventOwner[e] /\ tx[q].count > 0
           /\ tables'[e].own = tables[e].own + tx[q].count
<1>0. tables \in [EventIds -> [own : Nat, platform : Nat]] /\ ~ UNCHANGED tables
  BY DEF Inv, TypeOK
<1>1. ASSUME NEW q \in Requests, Step(q)
      PROVE  /\ Publish(q) /\ AddTables(tx[q].event, tx[q].count, 0)
             /\ tx[q].op \in {"event", "table"}
  <2>1. CASE Begin(q) \/ TakeLock(q) \/ Read(q) \/ Count(q) \/ CountTables(q)
    BY <1>0, <2>1 DEF Begin, TakeLock, Read, ReadSubscription, ReadNothing, InsertSubscription,
      Count, CountTables, usage
  <2>2. CASE Refuse(q) \/ Conflict(q) \/ Fail(q)
    BY <1>0, <2>2 DEF Refuse, Conflict, Fail, RolledBack, usage
  <2>3. CASE Commit(q)
    BY <1>0, <2>3 DEF Commit, CommitEvent, CommitTable, CommitBuilding
  <2> QED BY <1>1, <2>1, <2>2, <2>3 DEF Step
<1>2. ASSUME NEW q \in Requests, Publish(q), AddTables(tx[q].event, tx[q].count, 0),
             tx[q].op \in {"event", "table"}
      PROVE  /\ tx[q].event = e /\ tx[q].client = EventOwner[e] /\ tx[q].count > 0
             /\ tables'[e].own = tables[e].own + tx[q].count
  <2>1. tx[q].count \in Nat
    BY DEF Inv, TypeOK, Transactions
  <2>2. tx[q].event = e
    BY <1>2, AddTablesTypes
  <2> QED BY <1>0, <1>2, <2>1, <2>2, AddTablesTypes
<1>3. ~ Environment
  <2>1. \A f \in EventIds : ~ AddPlatformTable(f)
    BY <1>0 DEF AddPlatformTable, AddTables
  <2> QED BY <1>0, <2>1 DEF Environment, BeginPeriod, KeepPeriod, PeriodEnds, DeleteBuilding,
        usage
<1>4. ~ UNCHANGED vars
  BY <1>0 DEF vars, usage
<1>5. PICK q \in Requests : Step(q)
  BY <1>3, <1>4 DEF Next
<1> QED BY <1>1, <1>2, <1>5

\* No tenant exceeds its quotas of buildings and of tables.
THEOREM ResourcesWithinQuota == Spec => ResourceQuota
<1>1. ASSUME Inv, [Next]_vars, NEW c \in Clients, buildings'[c] > buildings[c]
      PROVE  Within(buildings'[c], BuildingLimit[PlanAfter(c)])
  <2>1. PICK q \in Requests : CommitBuilding(q) /\ tx[q].client = c
    BY <1>1, BuildingSteps DEF Inv
  <2>2. Publish(q) /\ MayCreate(q)
    BY <1>1, <2>1 DEF Inv, Prepared, Decided, CommitBuilding, Publish
  <2>3. PlanAfter(c) = PlanOf(q)
    BY <1>1, <2>1, <2>2, PublishedPlan DEF PlanAfter, CommitBuilding
  <2>4. buildings'[c] = buildings[c] + 1
    BY <1>1, <2>1 DEF Inv, TypeOK, CommitBuilding
  <2> QED BY <2>1, <2>2, <2>3, <2>4 DEF MayCreate, CommitBuilding
<1>2. ASSUME Inv, [Next]_vars, NEW e \in EventIds, tables'[e].own > tables[e].own
      PROVE  Within(tables'[e].own, TableLimit[PlanAfter(EventOwner[e])])
  <2>1. PICK q \in Requests :
          /\ Publish(q) /\ tx[q].event = e /\ tx[q].client = EventOwner[e] /\ tx[q].count > 0
          /\ tables'[e].own = tables[e].own + tx[q].count
    BY <1>2, TableSteps
  <2>2. Within(tables[e].own + tx[q].count, TableLimit[EffectivePlan(View(q))])
    BY <1>2, <2>1 DEF Inv, Prepared, Decided, Publish
  <2>3. PlanAfter(EventOwner[e]) = EffectivePlan(View(q))
    BY <1>2, <2>1, PublishedRow DEF PlanAfter
  <2> QED BY <2>1, <2>2, <2>3
<1>3. Inv /\ [Next]_vars =>
        [/\ \A c \in Clients :
              buildings'[c] > buildings[c] => Within(buildings'[c], BuildingLimit[PlanAfter(c)])
         /\ \A e \in EventIds :
              tables'[e].own > tables[e].own =>
                Within(tables'[e].own, TableLimit[PlanAfter(EventOwner[e])])]_vars
  BY <1>1, <1>2
<1> QED BY <1>3, Invariance, PTL DEF Spec, ResourceQuota
=============================================================================
