# Elite Events: a verification project in TLA+

This directory specifies the Elite Events backend (Express + PostgreSQL) and
the stateful parts of its Angular frontend, model-checks the specifications
with TLC and proves the central theorems with TLAPS.

## 1. Inventory of the system

The backend is one Node process. Handlers run on one thread and interleave at
every `await`; the shared state is the PostgreSQL database, read and written at
READ COMMITTED. `query()` (config/db.ts) commits each statement by itself,
`withTransaction()` brackets a callback with BEGIN and COMMIT and rolls back on
any error. Three roles use it: SUPER_ADMIN, CLIENT_ADMIN (the root of a tenant,
its id is the tenant id) and GATE_STAFF.

| component | state it keeps | operations | hard behaviour | what makes it correct |
|---|---|---|---|---|
| Reservations (`reservations.service.ts`, `reservations.routes.ts`) | `reservations`, `invitees`, `tickets` rows | create (single, couple), cancel, occupancy | two requests for one chair; couples in opposite order; failure between statements | one active reservation per chair and event; couples and tickets move together |
| Tickets and gate (`tickets.service.ts`) | `tickets.status` | scan, details, PDF | scan is read-check-write without a transaction | each ticket admits once; cancelled tickets never |
| Events (`events.service.ts`) | `events`, `tables`, `chairs` rows | draft, publish, create, update, delete, tables, chairs, templates, sessions | availability is checked before the transaction; tickets are counted before the update or delete | no two events overlap in a room; rooms of an event with tickets are frozen |
| Entitlements (`entitlements.service.ts`) | `subscriptions`, `subscription_usage_ledger` rows, advisory lock per client | quota checks for buildings, events, tables; ledger entries | concurrent creations; expiry during a check; super admin by-pass | no more creations per period than the plan allows |
| Subscriptions (`subscriptions.service.ts`) | `subscriptions` row per client | ensure, get, cancel at period end, resume, grant, expire | several writers of one row; expiry by reading | paid features exactly while paid for |
| Payments (`payments.service.ts`, `payments.routes.ts`, `campay.service.ts`) | `payment_transactions` rows, CamPay token cache | checkout, refresh, webhook, apply | webhook, poll and reconcile report the same payment, late, twice or out of order | one paid period per payment; a final status stays |
| Login (`auth.service.ts`, `auth.routes.ts`, `rateLimit.middleware.ts`, `auth.middleware.ts`) | in-memory OTP map and rate-limit windows, JWTs | two-step logins, gate-staff login, registration | codes expire, are guessed, replaced, lost on restart; account deactivated meanwhile | one code, one login, bounded guesses |
| Gate staff (`gateStaff.service.ts`) | `users`, `gate_staff_assignments` | create, deactivate, reactivate, assign, remove, delete | several autocommitted statements; concurrent duplicates | staff scan only the events they are assigned to |
| Clients (`clients.service.ts`) | `users` (CLIENT_ADMIN) | create, update, (de)activate, delete | check-then-insert of the e-mail; subscription created separately | unique accounts, each with a subscription |
| Buildings and rooms (`buildings.service.ts`, `rooms.service.ts`) | `buildings`, `rooms` | create, list, delete | quota, deletes restricted by events | tenants use only their own rooms |
| Ticket templates (`ticket-templates.service.ts`) | `ticket_templates` | create, list, delete | template deleted while an event names it | an event's template can be rendered |
| Session (`core/services/auth.service.ts`, `core/guards`, `app.routes.ts`, login pages) | user of the tab, kept user name, page and navigation under way | log in, verify, log out, reload, follow a link | guards see the user before the page's code is there; answers navigate after their page is gone | no page opens for a role it is not for |
| Scanner page (`scanner.component.ts`) | camera, frame, submitting flag, reset timer | scan, type a token, show a result, leave | late answer, camera or timer after the page is left | the gate never goes dead; nothing stays on |
| Billing page (`billing.component.ts`) | checkout dialog, poll handle, flags | load, checkout, poll, cancel, close | one handle and one flag for several checkouts and polls | no spinner waits for nothing |
| Seating map (`seating-map.component.ts`) | occupancy, selected table and chair, loads | load, select, rename, assign, cancel | reloads in any order under an open sidebar | the sidebar is about what is on the map |
| Event editor (`edit-event.component.ts`) | rooms, active room, tables by room, sessions | choose rooms, lay out tables, save, publish | three signals that must agree; answers over later edits | tables only in rooms of the event |
| Management pages (clients, gate staff, venues, guest list, ticket, ticket templates) | dialogs, flags, ids | load, ask, confirm, send | one flag for several requests; a dialog closed before its answer | every loader ends; one theme per event |
| Other pages (dashboard, event list, welcome, toasts, selectors) | what one load brought | load, show | none | |
| PDF/QR rendering, mail, logging, seeds, styling | none that other parts read | | pure I/O | |

Components interact through the database rows above, through HTTP answers, and
with the outside through CamPay (HTTP calls and webhooks) and SMTP.

## 2. Modules

| module | what it is |
|---|---|
| `Reservations` | bookings, cancellations and scans, statement by statement |
| `SeatLedger` | the abstract specification that `Reservations` implements |
| `EventSchedule` | events, the rooms they occupy, and the tickets that freeze them |
| `SubscriptionRow` | the row of `subscriptions` and every way it is rewritten; used by the next two |
| `Payments` | checkout, polling, webhook, and the requests on a subscription |
| `Entitlements` | the quota checks and the transactions of the resources they guard |
| `OtpLogin` | passwords, one-time codes and the rate limit |
| `Tenancy` | the accounts of clients and what hangs on them: staff and assignments, venues, templates, chairs |
| `Session` | who is logged in and which page is open, in one tab of the web client |
| `ScannerPage`, `BillingPage`, `SeatingPage`, `EventEditor` | the four pages with timers, dialogs or a state of their own |
| `PageCalls` | the requests of a page and their flags, used by the next |
| `ClientsPage`, `StaffPage`, `VenuesPage`, `GuestListPage`, `TicketPage`, `TemplatesPage` | the pages that list, ask, confirm and reload |
| `WebClient` | the session, or one of the ten pages, each in the same slots |
| `*Proofs` | the theorems about them, `WebClientProofs` those about all the pages |
| `MC*` | values for their constants, used by the `.cfg` files |

Conventions. A request is a process with a program counter `pc`; one step is
what it does between two `await`s. A transaction whose statements matter to
others one by one (bookings, quota checks) is split at them, with the locks
PostgreSQL takes; another one is a single step at its COMMIT. A request name is
used again once it has been answered, so a set of two requests stands for any
number of requests of which at most two are in flight. Every `Fail` or
`Abandon` action is an error, a lost connection or a restart of the process
between any two statements. `Mutant...` definitions are plausible bugs; each
replaces the definition below it in a run that must then find a property
violated.

### Reservations

| code | model |
|---|---|
| rows of `reservations` and `tickets` | `row[booking][part]`, committed values only; a booking is named by the request that makes it |
| uncommitted rows, their row locks and index entries | `wrote[request]`, the parts; `SeatLockers`, `RowsLocked` say who waits |
| `reservations_one_active_per_chair_per_event` | `Taken`, `SeatLockers`: an insert waits for an uncommitted entry of the key and then fails on a committed one (`SeatAlreadyReserved`, 23505) |
| `createReservationAndTicket` | `SubmitBooking` (all checks, `BookingAllowed`), `PartnerFree`, `InsertReservation` twice for couples, `InsertTicket`, `CommitBooking`; `RefuseBooking`, `PartnerTaken` |
| `cancelReservation` | `SubmitCancel`, `CancelReservations`, `CancelTickets`, `CommitCancel`; `scope` is what `scopeSql` ranges over |
| `scanTicket` | `LookUpTicket`, `Authorise` (gate staff), `CheckIn`: three autocommitted statements |
| `withTransaction` | `CommitRows`, `Rollback` |
| PostgreSQL's deadlock detector | `BreakDeadlock` on a set of requests that wait in a cycle |
| `isEventExpired` | `ended`, the events whose end and grace period have passed |

Rows of `invitees` are created with a reservation and read by nobody else here:
left out. Bookings carry the chair, the partner and the event only; codes, QR
texts and names are abstracted. A booking request that was refused may be sent
again with other data; one that committed keeps its name, because its rows do.

### EventSchedule

An event row is its client, its status (with `UNUSED` and `DELETED` for no row)
and a plan: primary room, rooms, start and end. `Wishes` are the rooms and times a
request may name, `Plans` those that pass the checks of the arguments. `req`
remembers what a request has read, `todo` the rooms whose availability it still
has to ask for. `create`, `publish` and `update` run `SubmitX`, `CheckTickets`
(`update`; `delete` too), `CheckRoom` once per room and the write, each a step
between which any other request, booking or failure may come; `createDraft` and
`addTable` are one statement. `tables` holds the rooms
in which an event has tables and `sold` the events that have tickets: a
booking reads an event and commits a ticket of it (`ReadEvent`, `IssueTicket`).
`counted` are the
events in the usage ledger: a tenant's second publication of one meets
`subscription_usage_ledger_unique_resource` and is rolled back, whereas a super
admin's is not counted and passes. The quotas themselves are in `Entitlements`.

The checks are made before the write and nothing holds what they read, so that the
code keeps neither rooms free of overlaps, nor tickets from being deleted with
their event, nor the holders of tickets where they are (`overlap_race` shows the
first). What it does keep is that nothing but a race does such harm. `raced` is
history the code does not have: for every request in flight, which events others
have placed, and of its own event whether others have sold a ticket, since it came.
`OverlapNeedsRace`, `LostTicketNeedsRace` and `MoveNeedsRace` name the race that
each harm takes; a request that met none of them finds everything its checks are
for, whatever else is concurrent.

### Payments and SubscriptionRow

`payment` and `sub` are the two tables; `collection` is what CamPay knows. Time
is abstracted to what the statements compare: periods are numbered in the order
they begin (`start`), and `end` says whether `current_period_end` is null, ahead
or past. `checkout` is `Checkout`, `Collect` (the answer of CamPay arrives or is
lost), `StoreReference` or `MarkFailed`. `refresh` (by the page or by the
reconciliation of pending payments) is `Refresh`, a webhook is `Webhook`; both
go on with `AskStatus` and `ApplySuccess` or `ApplyOther`. The difference is the
code's: `refresh` looks at the status of the payment first, `refreshByReference`
does not. `EnsureFree`, `Expire`, `Cancel`, `Resume`, `Grant` are the statements
of `subscriptions.service.ts` with their WHERE clauses.

### Entitlements

A request of a tenant asks for a building, an event with some tables, or a
table. Its transaction takes the advisory lock (`TakeLock`), reads its
subscription `FOR UPDATE` (`ReadSubscription`, which expires a lapsed period on
the spot, or `ReadNothing` and `InsertSubscription`), counts (`Count`, and
`CountTables`, which reads the row a second time), and commits or is rolled back
by a refusal, a conflict or an error. `tx.row` is the value the code keeps in
`subscription`, `tx.written` the uncommitted row. The other writers wait for the
row lock, not for the advisory lock: `BeginPeriod` is a payment or a grant,
`KeepPeriod` a sweep, cancellation or resumption.

### OtpLogin

`pending` is the map `pendingOtps`, `attempts` the one of the limiter; both are
lost by `Restart`. A login runs to its first await (`LoginSuperAdmin`, `Login`),
then `FindClient`, `RightPassword` or `WrongPassword`, and `Finish` when the mail
is sent. `Fail` is an error that is not an `AuthError`: the route goes on to gate
staff where it was trying a client, so that a client whose mail fails is told its
password is wrong while its code waits. What gate staff do reads one row that
nobody else here sees, and is one step. `verifyPendingOtp` has no await: with the
limiter before it, `RefuseStale`, `WrongCode` or `RightCode` is one step, and
`FindAccount` is the lookup that follows for a client. Codes are numbered, as
though two random ones were never alike; a wrong guess is any other input, an
older code among them. The limiter's key is an address and a path as the client
spelled it; `LoginPaths` and `VerifyPaths` are the spellings the router takes for
the one or the other route, since it overlooks upper and lower case and a slash at
the end. `MaxPerWindow` gives the `max` of the route a spelling belongs to. `issued`
and `passed` are history the code does not keep: who got which code, and when the
limiter let requests with which key through since the process started.

### Tenancy

A request is a client's or the super admin's; it looks up owners (`CheckOwner`,
`CheckEvent`, one statement per event) and then writes, each statement committed
by itself. Creations have tails: `InsertClient` then `Subscribe`, `InsertStaff`
then `InsertAssignment` once per event, `InsertChair` once per chair. `Fail`
stands for every refusal and every error, and takes nothing back. A row is named
by the request that inserts it, a table of rows is a set of records, and the
deletions are the database's: `DeleteClient`, `DeleteBuilding`, `DeleteEvent`
cascade as the migrations say (`EventsGo`, `BuildingsGo`), `InUse` is what
RESTRICT refuses. Insertion checks again that the foreign keys exist, since that
is the last word PostgreSQL has. A request for chairs names an event and a table:
the event is looked up (`requireEventOwnership`), the table is whatever table it
names, since neither route nor service relates the two. The super admin's request
for a template always fails, as its id is no uuid. Names, e-mails and room numbers are left out;
a lookup or index that finds one taken is a `Fail`.

### The pages

A component runs on one thread: an action is one handler, from the click, answer
or timer that starts it to its end. `here` is whether Angular has destroyed it.
Requests under way are in `calls` (or counted where they are alike); an
answer is an action that takes any of them out, whether the dialog it was sent
from is open or not, because none of the subscriptions is cancelled. What
disables a button or hides it (in the template) stands in the guard. Forms are
valid or not; lists are left out where no handler looks at them.

* `ScannerPage`: `stream`, `frame` and `timer` are what the browser runs on behalf
  of the page; `StopScanner` ends those that exist when it is called, and
  `leftWith` remembers what was under way when the page was left; `replaying` is
  the `play()` of a resumed video that is still pending.
* `BillingPage`: `intervals` are the intervals that run, `pollTimer` the one the
  component has a handle of: a second checkout overwrites it.
* `SeatingPage`: an object of the occupancy is its id and the occupancy it is part
  of, so that a reference into an old one can be told from one into the new.
* `EventEditor`: `selectedRoomIds`, `activeRoomId` and `tablesByRoom` are the
  three signals; `Toggled` is the new list of rooms.
* `Session`: a navigation is its page and whether the guards let it pass
  (`AskGuards`, then `Open`); an errand is a request of any page whose answer
  navigates. `Towards` replaces the navigation under way, except that one to the
  page that is open ends it.
* The others share `PageCalls`: a bag of calls, as a page may send one twice, with
  `Send` and `Answered`.

The pages of the router exclude each other and share nothing but the session, so
`WebClient` has one of them at a time: `open`, a page or the session, is chosen in
the initial state. It extends `Session` and instantiates the pages, whose variables
are its slots `s1`, `s2`, ...; `MCPages` only gives values to its constants.

## 3. What the runs check

Passing runs:

| run | instance | properties | shows |
|---|---|---|---|
| `races` | 2 bookings, 1 cancellation, 1 scan by gate staff; 2 events in different rooms, 2 chairs at one of 2 tables | `TypeOK`, `NoDoubleBooking`, `CoupleTogether`, `TicketFollowsReservation`, `PartnerInEventRoom`, `LedgerSpec`, `EveryRequestAnswered` | no seat is sold twice, couples and tickets stay together, partners sit in rooms of the event, the statements implement atomic bookings and releases, and everybody is answered |
| `schedule` | 2 requests and 1 booking at a time, 2 tenants one of whom has the 2 rooms, 2 events, 2 plans that meet or only touch and one that is over before it begins | `TypeOK`, `OverlapNeedsRace`, `LostTicketNeedsRace`, `MoveNeedsRace`, `TenantIsolation` | what the schedule keeps though its checks hold nothing: each kind of harm takes the one race it is about; tenants use their own events and rooms |
| `paid_periods` | 2 payments, 2 requests, grants, 3 periods | `TypeOK`, `ConfirmedOnly`, `NoLostActivation`, `PaidUntilEnd` | only collected money buys a period, and what is bought is not taken away |
| `reconciliation` | 1 payment, 2 requests, 3 periods | `AskedIsApplied` | a collected payment that its tenant keeps asking about is credited in the end, without any webhook |
| `event_quotas` | 2 requests, 3 events, 2 periods | `NoFalseRefusal`, `EventQuota` | the quota of events is kept, and only those who used it up are refused |
| `resource_quotas` | 2 requests for buildings, events, tables; 1 paid period | `TypeOK`, `ResourceQuota`, `EveryRequestAnswered` | the other two quotas, and the release of both locks |
| `login` | 2 requests, 1 address, 1 client, 2 codes, 1 guess, 1 spelling of the login (2 requests per window of 1 tick) and 2 of the verification (1 each), 3 instants | `TypeOK`, `OneLoginPerCode`, `GuessesBounded`, `AcceptedInTime`, `RateBound`, `TurnedAwayRightly` | a code works once, in time, for few guesses, under however many spellings; the limiter bounds what passes with one key and turns away only those it should |
| `accounts` | 2 requests of 2 clients or the super admin, 1 gate staff, 1 building, room and table, 2 events, up to 2 chairs | `TypeOK`, `NothingOrphaned`, `SuccessMeansComplete`, `ChairsContiguous`, `TouchesOwnCrewAndVenues` | through failures anywhere and deletions at any time no row loses its owner, success means all of it, chairs have no gaps, and clients write their own staff, assignments, venues and templates |
| `pages` | the session or one of 10 pages; 2 or 3 requests under way on each, 2 rows of each kind | `NeverStuck`, `LeftQuietly`, `SpinnersEnd`, `SidebarIsCurrent`, `LayoutFollowsRooms`, `OneTheme`, `OpensForItsUser` | late answers in any order leave no page waiting for nothing, no gate dead, no camera on, no sidebar about a chair that is gone, no table in a dropped room, no mixed tickets, and no page open for the wrong role |

Runs in which the code does something else than its documents say:

| run | property | what happens |
|---|---|---|
| `cancelled_scan` | `NoCancelledAdmission` | a cancellation commits between the status check and the update of a scan, which admits the ticket and erases the cancellation (`tickets.service.ts:258`) |
| `overlap_race` | `NoOverlap` | two requests read a free room before either writes; both get it (`events.service.ts:372`) |
| `repeated_webhook` | `OnePeriodPerPayment` | a second webhook about a confirmed payment starts another period (`payments.service.ts:118`) |

Bounds. Two requests in flight are enough for every race the code has: each check reads
one row or counts one set that one other writer can change, and the third party (a
cancellation, a scan, a sweep, a restart, CamPay) is an action or a process of its own.
Two chairs let two couples wait for each other; two tables and rooms make a wrong link
possible; two plans, one of which has both rooms and the hour before the other, give
events that share all rooms and hours, or a room and no hour; two requests and a booking
give every race of the schedule its two parties, and a third writer to invalidate what a
request knows of its own event; two periods give a predecessor and a successor; a quota
of one under a quota of two gives a plan that is lost with its period used up. Three
instants let a window of the limiter and a lifetime end and the next begin. On the pages
two rows of a kind tell "this one" from "another one" and two requests under way are one
answer that overtakes another; the venues have three, since the forms of a building and
a room and a deletion have one each. `MaxCalls`, `MaxUnanswered`, `MaxCheckouts` and
`MaxPolls` bound what a page sends, never what comes back. `ScannerPage` has no bound:
its instance is the whole page. Two chairs are a table that can be left half done.
`MaxPeriods`, `MaxPlaced`, `MaxCodes` and `MaxTime` only bound what may be reached: they
stand in guards of the environment or in the sets a request chooses from, except
`ApplySuccess`, which needs a period to begin, and the two steps that draw a code.
`reconciliation` has no grants, so that a first confirmation always finds one. The sets
of events and requests are symmetric in the safety runs; no run that checks liveness
uses symmetry. Deadlock is not checked where a bound or the single use of names lets an
instance stop; `races` and `cancelled_scan` check it. In `accounts` every request has
ended at last, and a page that was left does nothing more.

Fairness.

* `Reservations`: strong fairness of the steps of a request that was accepted. A
  statement waits in PostgreSQL's lock queue and is woken when the holder ends;
  cycles are broken by the detector after `deadlock_timeout`. Requests that have
  not been sent need not come, and nothing is assumed of `Fail`.
* `Payments`: the backend asks CamPay about no payment by itself. Its requests come
  from the billing page, which polls one payment while its checkout dialog is open
  and asks for a reconciliation of all pending ones when it is opened, or from
  CamPay. So no request is assumed to come: `AskedIsApplied` is an implication,
  whose premise `KeepsAsking(p)` is that the tenant asks about the payment again and
  again as long as it is pending (strong fairness of `Refresh` for it). Assumed is
  only that a call which is answered again and again is in the end not abandoned
  (strong fairness of `AskStatus`, `ApplySuccess`, `ApplyOther`). Webhooks, CamPay's
  decisions, the tenant's and the super admin's requests come or do not.
* `Entitlements`: advisory locks are queued (strong fairness of `TakeLock`);
  every statement of a transaction is answered, by success or error (weak).

## 4. What is proved

All theorems hold for every value of the constants that satisfies the named
assumptions, which say only that sets of names are disjoint, maps are total, and
bounds are numbers.

* `ReservationsProofs` (`RequestsDisjoint`, `VenueTypes`, `NoneIsFresh`). Whether
  an insert may go ahead depends on rows not committed yet, so `NoDoubleBooking`
  is not inductive. `IInv` says for every request what it has written at each
  statement, how committed rows agree with the form and each other, and extends
  seat exclusion to uncommitted rows. From it: `TypeCorrect`,
  `SeatsNeverDoubleBooked`, `CouplesStayTogether`, `TicketsFollowReservations`,
  `PartnersSitInTheEvent` (what was read of the partner's table still holds at the
  commit), and `ImplementsLedger`: the two commits are `Book` and `Release` of
  `SeatLedger`, every other step stutters.
* `EventScheduleProofs` (`ScheduleConstants`). Requests overlap as they like. `Asked`
  remembers until the write what the first statements established about tenants and
  rooms: `TypeCorrect`, `TenantsIsolated`. `Learnt` says what a request at each of its
  statements still knows: of every room it has asked for and every event, that they
  do not collide or that the event was placed since; of its own event, that it has no
  ticket or that one was sold since (`Checked`, `Unsold`, `Kept`). It is inductive
  without an assumption on who writes when, because whatever makes a fact outdated is
  recorded in `raced` by the same step. Hence `OverlapsNeedRaces`,
  `LostTicketsNeedRaces` and `MovesNeedRaces`. That the races do happen is
  `overlap_race` and section 5.
* `PaymentsProofs` (`PaymentConstants`). `Inv` relates what a request knows of its
  payment, the columns of the payment and CamPay's collection, and keeps the
  periods that rows name behind the counter: `TypeCorrect`,
  `OnlyConfirmedPaymentsCount`, `ActivationsLast`, `PaidPlanLasts`.
* `EntitlementsProofs` (`QuotaConstants`). `Inv` says that a request past its lock
  holds it, that the row it decides by is the one in the table up to its own
  expiry (`RowKept`), and that what it counted still holds (`Decided`). The proof
  uses the two locks separately: the advisory lock keeps the counts, the row lock
  the plan and the period. `TypeCorrect`, `EventsWithinQuota`,
  `ResourcesWithinQuota`, `RefusedRightly`.
* `OtpLoginProofs` (`LoginConstants`). `Outstanding` ties the code that waits to its
  history: it is its user's newest, and guesses left and guesses made add up to
  the maximum. `LetIn` says that whoever is between acceptance and token has the
  code to itself: it has left the map and no other request holds it.
  `TypeCorrect`, `CodesLogInOnce`, `GuessesAreBounded`, `AcceptedCodesAreLive`.
  `LimiterInv` ties the counter of an address to the requests it let through: it
  counts the last of them, all since its window opened, and the window opened more
  than a window's length after the request that came the maximum of places earlier.
  Hence `RatesAreBounded`, whose bound is twice the maximum less one, since one
  window may end between two bursts, and `NobodyIsTurnedAwayWrongly`. Both are of one
  key; a route has as many as its path has spellings, and as many times the bound.
* `TenancyProofs` (`TenancyConstants`). Rows evolve in few ways: the row of a
  request appears in that request's insert and at no other step, events and
  tables only go, and whatever goes takes all rows of its id along. These facts are proved first, action by
  action; from them `RowsHaveOwners`, `ChairsWithoutGaps` (the chairs a request has
  inserted are `1 .. added`, and are still there unless the table is gone),
  `CreationsComplete` (`Complete` says of every stage what has been done so far) and
  `CrewAndVenuesKeepApart`: whoever looked up an owner will find that owner's row or
  none, because an id is never given to another row. It is about staff, assignments,
  buildings, rooms and templates, and not about chairs (section 5). `TypeCorrect`.
* `SessionProofs` (no assumption). `PassedRight`: a navigation the guards let pass
  is to a page for the user there is now. Guards are asked before the code of a
  page is fetched, and the user may be replaced meanwhile; but every handler that
  sets or removes the user navigates in the same step, which calls off the
  navigation under way. Hence `OpenedForTheRightUsers`.
* `WebClientProofs` (`WebClientConstants`). The page that is open takes its own
  steps and the session takes its own (`OnePageSteps`), so each page has an
  invariant of its own, and `PagesInv` is all of them.
  * Loaders: the requests under way are a bag, and a page may have sent the same
    request twice. An answer takes one copy out, and ends no wait for another kind
    (`Goes`); a request that is sent ends none (`Adds`). These two facts are proved
    once, from the definitions of `Bags`, and used by all the pages that share
    `PageCalls`. Where one flag stands for several requests, it comes down with the
    first answer, which is why "the flag is up" implies "a request is under way" and
    not the converse. `WaitsEnd`, for eight pages: of the scanner `GateNeverStuck` says
    as much, and in the event editor `loading` is itself the request it waits for.
  * `TemplatesInv` adds that what is being loaded or sent is of one theme, since
    answers become what is picked: `ThemesAgree`.
  * `SeatingInv`: a reload that brings the selected chair brings its table:
    `SidebarStaysCurrent`.
  * `EditorInv`: a room is in the list once (`RoomsOnce`), for otherwise dropping it
    would leave it in, and nothing is laid out before the event has been loaded
    (`NothingYet`), for loading replaces the rooms: `LayoutStaysInRooms`.
  * `ScannerInv`: `AtRest` says that of a page left with nothing under way also no
    scan and no replay is under way, either of which would start the loop again:
    `GateLeftQuietly`; with it `GateNeverStuck`.
  * `PagesOpenForTheRightUsers` is the theorem of `SessionProofs` for the client.

Only model-checked: the liveness properties (`EveryRequestAnswered` twice and
`AskedIsApplied`), because fairness speaks of ENABLED, which TLAPS does not
handle; and the runs that show a divergence, whose properties do not hold. No definition
here is recursive, so nothing else had to be left to TLC.

## 5. Divergences met while modelling

Besides the three that runs show, reading the code against the documents gave:

* two scans of one ticket that both read before either writes are both told
  "Check-in successful" (`tickets.service.ts:241` and `258`;
  `project1_updated.md:76`): the same missing condition as in `cancelled_scan`;
* a ticket that is issued between the count and the DELETE of an event's deletion
  goes with the event (`events.service.ts:579` and `584`; `walkthrough.md:42`);
* a ticket that is issued between the count and the UPDATE of an edit is moved with
  its event (`events.service.ts:508` and `527`; `walkthrough.md:41`);
* `publish` accepts a published event and moves it although tickets are issued
  (`events.service.ts:253`; `build_updated_spec.py:124`);
* the room of a table is never compared with the rooms of its event
  (`events.service.ts:267`, `401`, `425`; `build_updated_spec.py:124`);
* the selected chair of a booking is never looked up in the table that is named,
  only its partner is (`reservations.service.ts:113`, its comment at `104`);
* an answer PENDING that was fetched before a webhook confirmed a payment sets it
  back to PENDING (`payments.service.ts:147`; `build_updated_spec.py:208`); the
  next poll confirms it again and starts a second period;
* nothing in the backend reconciles pending payments: the document asks to "Run
  scheduled reconciliation for pending payments" (`build_updated_spec.py:208`), the
  code does so when the billing page is opened, and polls while a checkout dialog is
  open. A payment that is collected after its payer has left, and whose webhook is
  lost, stays PENDING until somebody comes back; hence the premise of `AskedIsApplied`;
* the plan GO allows 15 events a period (`subscriptionPlans.ts`), the document 4
  (`build_updated_spec.py:161`);
* the quota of events of a Free or expired tenant is one for the life of the
  account, since nothing starts another period (`entitlements.service.ts:73`;
  `build_updated_spec.py:160`);
* a client that is deactivated between the two steps of a login is let in
  (`auth.service.ts:133`; `build_updated_spec.py:150`);
* the limiter is said to be "keyed by IP + route" (`rateLimit.middleware.ts:11`); its
  key is the path as spelled, while the router takes several spellings for one route,
  each of which gets a record and a maximum of its own (`rateLimit.middleware.ts:19`).
  `RateBound` is therefore stated of one spelling. The guesses at a code do not depend
  on it: `GuessesBounded` counts them with the code.

Accounts:

* the deletion of a client is said to remove "ALL their data"
  (`clients.service.ts:101`); it is refused with an error 500 if an event of the
  client has its first room in one of the client's buildings, since the rooms go
  before the events and `events.room_id` restricts (`DeleteClient`);
* the e-mail of a client is unique among clients when one is created
  (`clients.service.ts:59`), but not when one is updated, nor when two are created
  at once;
* a creation of gate staff that fails between two assignments leaves the account,
  and the user who tries again is told that the name is taken
  (`gateStaff.service.ts:69`); chairs that were added in part cannot be completed,
  as `addChairs` begins with number 1 (`events.service.ts:463`);
* chairs are added to the table a path names, although only the event of the path is
  checked to be the caller's: a comment of the route holds this to be enough
  (`events.routes.ts:329` to `333`; `events.service.ts:463`), but the table may be of
  another event, and of another client's. `ChairJobs` has such requests, and
  `TouchesOwnCrewAndVenues` leaves chairs out;
* the super admin cannot store a ticket template, which its role allows
  (`ticket-templates.routes.ts:9`): its id is no uuid and the insert fails;
* a room that is an event's second, or a template an event names, can be deleted
  (`rooms.service.ts:104`, `ticket-templates.service.ts:77`).

Web client:

* `homeRedirectGuard` sends only `ADMIN` to the dashboard, though its comment says
  admins: super admins and clients land on the scanner; the guest list asks for
  `ADMIN` alike, so that nobody of today's roles sees its cancel button;
* a user name kept from a client's login that was given up is sent along with a
  super admin's code (`core/services/auth.service.ts:38` says it is for clients);
* `verify-otp` submits by itself when the last digit is typed, without looking at
  `isSubmitting`;
* the custom themes and the client filter of one user are still there for the next
  (`CustomTemplateStore.loaded`, `ClientFilterService`);
* answers of pages that were left navigate: after a logout, one that leads to the
  page which is still open calls off the navigation to the login page;
* loads that are answered out of order show the older list; guests of one event can
  be shown under the name of another (`guest-list.component.ts:40`), the
  subscription of one client in the dialog of another (`clients.component.ts:311`);
* a poll that is answered late clears the interval of the next payment, and its own
  goes on until the tab is closed (`billing.component.ts:309`);
* a scan or a camera that is answered after the page was left starts the loop or the
  stream again (`scanner.component.ts:127`), and so does a `play()` that fails after
  that (`scanner.component.ts:196`); `LeftQuietly` says when this cannot be;
* sessions that are saved replace what was typed meanwhile, and a draft saved with
  its form incomplete is said to be saved though nothing is sent
  (`edit-event.component.ts`).

## 6. What is not modelled

* `updateTable`, `setSessions`, `setTicketTemplates`, `ClientsService.update`, the
  column `is_active` of gate staff: each overwrites columns that no other check of
  the backend decides by, or (`is_active`) that a login reads in one statement.
* CamPay's cached token: a call made with a token that has expired fails, and calls
  that fail anywhere are modelled.
* `reservations.chair_id` restricts the deletion of chairs: such a refusal is a step
  of `Tenancy` that does not happen, and reservations are not part of it.
* E-mails, user names, telephones, room numbers, prices, QR texts: data that only
  refusals look at.
* Listings, reports, the dashboard, the event list, the welcome page, toasts: they
  read or show what one load brought.
* PDF and QR rendering, ticket designs (`boarding-pass.template.ts` is a drawing),
  mail, signatures, seeds, translations and styling keep no state another part
  reads.

The order in which the modules were written, each with its proofs:
`Reservations` with `SeatLedger`, `EventSchedule`, `Payments`, `Entitlements`,
`OtpLogin`, `Tenancy`, then the pages. What could come next: the
composition of `Tenancy` with `Reservations`, for chairs that are booked while
their table is deleted.
