----------------------------- MODULE Entitlements -----------------------------
(***************************************************************************)
(* The quotas of EntitlementsService: the transactions in which a tenant   *)
(* creates a building, creates or publishes an event, or adds a table,     *)
(* against the other writers of its subscription, deletions, and super     *)
(* admins, who are bound by no quota.                                      *)
(*                                                                         *)
(* A transaction takes the tenant's advisory lock, then the lock of its    *)
(* subscription row, and keeps both until it ends.  What it has written is *)
(* seen by others when it commits, and forgotten when it is rolled back.   *)
(***************************************************************************)
EXTENDS SubscriptionRow, FiniteSets

CONSTANTS
  Requests,       \* requests of tenants in flight at a time
  Ops,            \* what they ask for: "building", "event", "table"
  EventIds, Clients,
  EventOwner,     \* event -> its client
  BuildingLimit, EventLimit, TableLimit,  \* plan -> limit, or Unlimited
  Unlimited,
  TableCounts,    \* the numbers of tables an event is created with
  MaxPeriods,     \* bound on the number of periods that begin
  MaxPlaced,      \* bound on a tenant's buildings and on an event's tables
  None

Limits == [PlanCodes -> Nat \cup {Unlimited}]

ASSUME QuotaConstants ==
  /\ EventOwner \in [EventIds -> Clients]
  /\ BuildingLimit \in Limits /\ EventLimit \in Limits /\ TableLimit \in Limits
  /\ Unlimited \notin Nat
  /\ TableCounts \subseteq Nat
  /\ MaxPeriods \in Nat /\ MaxPlaced \in Nat
  /\ None \notin Clients \cup EventIds \cup Requests
  /\ None \notin SubscriptionRows

VARIABLES
  sub,        \* client -> its row in subscriptions, or None
  ledger,     \* rows EVENT_CREATION of subscription_usage_ledger
  buildings,  \* client -> number of its buildings
  tables,     \* event -> number of tables added by its tenant and by super admins
  lock,       \* client -> the request that holds its advisory lock, or None
  tx,         \* request -> what it asks for, the row it decides by, the row it has written
  pc          \* request -> its next statement

vars == <<sub, ledger, buildings, tables, lock, tx, pc>>
usage == <<ledger, buildings, tables>>

-----------------------------------------------------------------------------
(* Counting.                                                               *)

\* COUNT over client_id and period_start
CreatedIn(entries, c, start) == {x \in entries : x.client = c /\ x.period = start}

Within(n, limit) == limit # Unlimited => n <= limit

\* Locks ------------------------------------------------------------------

Holding == {"count", "countTables", "commit", "refused", "tooManyTables"}

\* A bug: FOR UPDATE is left out.
MutantRowLocked(c) == FALSE

\* The row lock FOR UPDATE, or the entry of an uncommitted row in the unique index.
RowLocked(c) == \E q \in Requests : tx[q].client = c /\ pc[q] \in Holding

\* A bug: the advisory lock is the session's and survives a rollback.
MutantUnlocked(q) ==
  [c \in Clients |-> IF lock[c] = q /\ pc[q] = "commit" THEN None ELSE lock[c]]

\* pg_advisory_xact_lock goes with the transaction.
Unlocked(q) == [c \in Clients |-> IF lock[c] = q THEN None ELSE lock[c]]

-----------------------------------------------------------------------------
(* A request of a tenant.                                                  *)

Asked(op, client, event, count) ==
  [op |-> op, client |-> client, event |-> event, count |-> count, row |-> None, written |-> None]
NothingAsked == Asked("none", None, None, 0)

Begin(q) ==
  /\ pc[q] = "idle"
  /\ \/ \E c \in Clients :
          /\ "building" \in Ops /\ buildings[c] < MaxPlaced
          /\ tx' = [tx EXCEPT ![q] = Asked("building", c, None, 0)]
     \/ \E e \in EventIds, n \in TableCounts :
          /\ "event" \in Ops /\ tables[e].own + n <= MaxPlaced
          /\ tx' = [tx EXCEPT ![q] = Asked("event", EventOwner[e], e, n)]
     \/ \E e \in EventIds :
          /\ "table" \in Ops /\ tables[e].own < MaxPlaced
          /\ tx' = [tx EXCEPT ![q] = Asked("table", EventOwner[e], e, 1)]
  /\ pc' = [pc EXCEPT ![q] = "lock"]
  /\ UNCHANGED <<sub, usage, lock>>

Goto(q, step) == pc' = [pc EXCEPT ![q] = step]

TakeLock(q) ==
  /\ pc[q] = "lock"
  /\ lock[tx[q].client] = None
  /\ lock' = [lock EXCEPT ![tx[q].client] = q]
  /\ Goto(q, "read")
  /\ UNCHANGED <<sub, usage, tx>>

\* SELECT FOR UPDATE: a paid period that is over is expired on the spot.
ReadSubscription(q) ==
  LET row == sub[tx[q].client] IN
  /\ pc[q] = "read"
  /\ row # None /\ ~ RowLocked(tx[q].client)
  /\ tx' = [tx EXCEPT ![q] =
              [@ EXCEPT !.row = IF Lapsed(row) THEN ExpiredRow(row) ELSE row,
                        !.written = IF Lapsed(row) THEN ExpiredRow(row) ELSE None]]
  /\ Goto(q, "count")
  /\ UNCHANGED <<sub, usage, lock>>

ReadNothing(q) ==
  /\ pc[q] = "read"
  /\ sub[tx[q].client] = None
  /\ Goto(q, "insert")
  /\ UNCHANGED <<sub, usage, lock, tx>>

\* The periods of a tenant are numbered from 1.
NextStart(c) == IF sub[c] = None THEN 1 ELSE sub[c].start + 1

\* A bug: the answer of the first SELECT, which has no row, is returned.
MutantInsertSubscription(q) ==
  /\ pc[q] = "insert"
  /\ sub[tx[q].client] = None /\ ~ RowLocked(tx[q].client)
  /\ Goto(q, "count")
  /\ UNCHANGED <<sub, usage, lock, tx>>

InsertSubscription(q) ==
  /\ pc[q] = "insert"
  /\ sub[tx[q].client] = None /\ ~ RowLocked(tx[q].client)
  /\ tx' = [tx EXCEPT ![q] =
              [@ EXCEPT !.row = FreeRow(NextStart(tx[q].client)),
                        !.written = FreeRow(NextStart(tx[q].client))]]
  /\ Goto(q, "count")
  /\ UNCHANGED <<sub, usage, lock>>

PlanOf(q) == EffectivePlan(tx[q].row)

\* The row as the transaction sees it.
View(q) == IF tx[q].written = None THEN sub[tx[q].client] ELSE tx[q].written

Created(q) == CreatedIn(ledger, tx[q].client, tx[q].row.start)

\* A bug: what is about to be created is not counted (used > limit for used >= limit).
MutantMayCreate(q) ==
  /\ tx[q].op = "event" => Within(Cardinality(Created(q)), EventLimit[PlanOf(q)])
  /\ tx[q].op = "building" => Within(buildings[tx[q].client], BuildingLimit[PlanOf(q)])

\* assertCanCreateEvent and assertCanCreateBuilding
MayCreate(q) ==
  /\ tx[q].op = "event" => Within(Cardinality(Created(q)) + 1, EventLimit[PlanOf(q)])
  /\ tx[q].op = "building" => Within(buildings[tx[q].client] + 1, BuildingLimit[PlanOf(q)])

\* assertCanAddTables reads the row again when the event was counted before.
Reread(q) ==
  IF tx[q].op = "event" /\ Lapsed(View(q)) THEN ExpiredRow(View(q)) ELSE View(q)

\* A bug: only the new tables are compared with the limit.
MutantMayAddTables(q) == Within(tx[q].count, TableLimit[EffectivePlan(Reread(q))])

\* Every table counts, whoever added it.
MayAddTables(q) ==
  LET t == tables[tx[q].event] IN
  Within(t.own + t.platform + tx[q].count, TableLimit[EffectivePlan(Reread(q))])

Count(q) ==
  /\ pc[q] = "count"
  /\ \/ MayCreate(q) /\ Goto(q, IF tx[q].count > 0 THEN "countTables" ELSE "commit")
     \/ ~ MayCreate(q) /\ Goto(q, "refused")
  /\ UNCHANGED <<sub, usage, lock, tx>>

CountTables(q) ==
  /\ pc[q] = "countTables"
  /\ tx' = [tx EXCEPT ![q] =
              [@ EXCEPT !.written = IF Reread(q) = View(q) THEN tx[q].written ELSE Reread(q)]]
  /\ Goto(q, IF MayAddTables(q) THEN "commit" ELSE "tooManyTables")
  /\ UNCHANGED <<sub, usage, lock>>

End(q) ==
  /\ lock' = Unlocked(q)
  /\ tx' = [tx EXCEPT ![q] = NothingAsked]
  /\ Goto(q, "idle")

\* COMMIT: the row is another one only if it was inserted or expired.
Publish(q) ==
  /\ pc[q] = "commit"
  /\ sub' = [sub EXCEPT ![tx[q].client] = View(q)]
  /\ End(q)

AddTables(e, own, platform) ==
  tables' = [f \in EventIds |->
    IF f = e THEN [own |-> tables[f].own + own, platform |-> tables[f].platform + platform]
             ELSE tables[f]]

CommitBuilding(q) ==
  /\ tx[q].op = "building"
  /\ Publish(q)
  /\ buildings' = [buildings EXCEPT ![tx[q].client] = @ + 1]
  /\ UNCHANGED <<ledger, tables>>

CommitTable(q) ==
  /\ tx[q].op = "table"
  /\ Publish(q)
  /\ AddTables(tx[q].event, tx[q].count, 0)
  /\ UNCHANGED <<ledger, buildings>>

Entry(q) ==
  [client |-> tx[q].client, period |-> tx[q].row.start, event |-> tx[q].event]

Counted(e) == \E x \in ledger : x.event = e

CommitEvent(q) ==
  /\ tx[q].op = "event" /\ ~ Counted(tx[q].event)
  /\ Publish(q)
  /\ AddTables(tx[q].event, tx[q].count, 0)
  /\ ledger' = ledger \cup {Entry(q)}
  /\ UNCHANGED buildings

RolledBack(q) == End(q) /\ UNCHANGED <<sub, usage>>

\* SubscriptionLimitError
Refuse(q) == pc[q] \in {"refused", "tooManyTables"} /\ RolledBack(q)

\* The row was inserted meanwhile; the event has been counted before.
Conflict(q) ==
  /\ \/ pc[q] = "insert" /\ sub[tx[q].client] # None
     \/ pc[q] = "commit" /\ tx[q].op = "event" /\ Counted(tx[q].event)
  /\ RolledBack(q)

Fail(q) == pc[q] # "idle" /\ RolledBack(q)

-----------------------------------------------------------------------------
(* The other writers: PaymentsService, SubscriptionsService, super admins. *)

\* A payment, a grant, or the first row of a tenant, which is that of a grant of
\* FREE.
PeriodsFrom(start) ==
  {PaidRow(plan, start) : plan \in PaidPlans}
    \cup {GrantedRow(plan, status, start) : plan \in PlanCodes, status \in Statuses}

BeginPeriod(c) ==
  /\ ~ RowLocked(c)
  /\ NextStart(c) <= MaxPeriods
  /\ \E row \in PeriodsFrom(NextStart(c)) : sub' = [sub EXCEPT ![c] = row]
  /\ UNCHANGED <<usage, lock, tx, pc>>

\* Expiry, cancellation at the end of the period, resumption.
Restated(row) ==
  {x \in {ExpiredRow(row)} : Sweepable(row)}
    \cup {x \in {[row EXCEPT !.status = "CANCEL_AT_PERIOD_END"]} : Cancellable(row)}
    \cup {x \in {[row EXCEPT !.status = "ACTIVE"]} : Resumable(row)}

KeepPeriod(c) ==
  /\ ~ RowLocked(c)
  /\ sub[c] # None
  /\ \E row \in Restated(sub[c]) : sub' = [sub EXCEPT ![c] = row]
  /\ UNCHANGED <<usage, lock, tx, pc>>

PeriodEnds(c) ==
  /\ sub[c] # None
  /\ sub[c].end = "ahead"
  /\ sub' = [sub EXCEPT ![c] = [@ EXCEPT !.end = "past"]]
  /\ UNCHANGED <<usage, lock, tx, pc>>

DeleteBuilding(c) ==
  /\ buildings[c] > 0
  /\ buildings' = [buildings EXCEPT ![c] = @ - 1]
  /\ UNCHANGED <<sub, ledger, tables, lock, tx, pc>>

AddPlatformTable(e) ==
  /\ tables[e].platform < MaxPlaced
  /\ AddTables(e, 0, 1)
  /\ UNCHANGED <<sub, ledger, buildings, lock, tx, pc>>

-----------------------------------------------------------------------------

Init ==
  /\ sub = [c \in Clients |-> None]
  /\ ledger = {}
  /\ buildings = [c \in Clients |-> 0]
  /\ tables = [e \in EventIds |-> [own |-> 0, platform |-> 0]]
  /\ lock = [c \in Clients |-> None]
  /\ tx = [q \in Requests |-> NothingAsked]
  /\ pc = [q \in Requests |-> "idle"]

Read(q) == ReadSubscription(q) \/ ReadNothing(q) \/ InsertSubscription(q)

Commit(q) == CommitBuilding(q) \/ CommitEvent(q) \/ CommitTable(q)

Step(q) ==
  \/ Begin(q) \/ TakeLock(q) \/ Read(q)
  \/ Count(q) \/ CountTables(q)
  \/ Commit(q) \/ Refuse(q) \/ Conflict(q) \/ Fail(q)

Environment ==
  \/ \E c \in Clients : BeginPeriod(c) \/ KeepPeriod(c) \/ PeriodEnds(c) \/ DeleteBuilding(c)
  \/ \E e \in EventIds : AddPlatformTable(e)

Next == (\E q \in Requests : Step(q)) \/ Environment

Spec == Init /\ [][Next]_vars

\* PostgreSQL answers every statement, and grants a lock to those that queue for
\* it.  New requests and the other writers come or do not.
Fairness ==
  \A q \in Requests :
    /\ SF_vars(TakeLock(q))
    /\ WF_vars(Read(q) \/ Count(q) \/ CountTables(q) \/ Commit(q) \/ Refuse(q) \/ Conflict(q))

FairSpec == Spec /\ Fairness

-----------------------------------------------------------------------------
(* Properties.                                                             *)

Transactions ==
  [op : {"none", "building", "event", "table"}, client : Clients \cup {None},
   event : EventIds \cup {None}, count : Nat, row : SubscriptionRows \cup {None},
   written : SubscriptionRows \cup {None}]

\* Every row is one its table can hold; a transaction that counts has a row.
TypeOK ==
  /\ sub \in [Clients -> SubscriptionRows \cup {None}]
  /\ ledger \subseteq [client : Clients, period : Nat, event : EventIds]
  /\ buildings \in [Clients -> Nat]
  /\ tables \in [EventIds -> [own : Nat, platform : Nat]]
  /\ lock \in [Clients -> Requests \cup {None}]
  /\ tx \in [Requests -> Transactions]
  /\ pc \in [Requests -> {"idle", "lock", "read", "insert"} \cup Holding]
  /\ \A q \in Requests :
       /\ pc[q] # "idle" => tx[q].client \in Clients
       /\ tx[q].op \in {"event", "table"} => tx[q].event \in EventIds
       /\ pc[q] \in Holding => tx[q].row # None

PlanAfter(c) == EffectivePlan(sub'[c])

\* A tenant never creates more events in a period than the plan it had under the
\* lock allows, however many requests are sent at once and whoever else writes the
\* subscription ("Limits cannot be bypassed by direct API calls or concurrent
\* creation requests", build_updated_spec.py).  Each creation counts in the period
\* it commits in, and that plan is still in force, unless the period ended between
\* the two readings of a creation with tables.
EventQuota ==
  [][\A x \in ledger' \ ledger :
       \E q \in Requests :
         /\ pc[q] = "commit" /\ tx[q].client = x.client
         /\ x.period = sub'[x.client].start
         /\ Within(Cardinality(CreatedIn(ledger', x.client, x.period)), EventLimit[PlanOf(q)])
         /\ PlanAfter(x.client) = PlanOf(q) \/ (tx[q].count > 0 /\ Lapsed(sub[x.client]))]_vars

\* The same of buildings, and of the tables a tenant adds to one event, while
\* others delete buildings and super admins add tables at any moment.
ResourceQuota ==
  [][/\ \A c \in Clients :
          buildings'[c] > buildings[c] => Within(buildings'[c], BuildingLimit[PlanAfter(c)])
     /\ \A e \in EventIds :
          tables'[e].own > tables[e].own =>
            Within(tables'[e].own, TableLimit[PlanAfter(EventOwner[e])])]_vars

\* Nobody is refused an event without having used up the quota: what was counted
\* still holds when the refusal is answered.
NoFalseRefusal ==
  \A q \in Requests :
    LET c == tx[q].client IN
    pc[q] = "refused" /\ tx[q].op = "event" /\ sub[c] # None =>
      ~ Within(Cardinality(CreatedIn(ledger, c, sub[c].start)) + 1, EventLimit[PlanOf(q)])

\* Every request is answered: neither lock is ever held for good.
EveryRequestAnswered == \A q \in Requests : pc[q] # "idle" ~> pc[q] = "idle"

=============================================================================
