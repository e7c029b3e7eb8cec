# HarborClass in TLA+

A verification development for HarborClass (`src/repo`): a Go service with which
schools book class sessions and order deliveries, with an audit log, reminders
and courier dispatch. The modules are translated from the Go source; TLC checks
them on small instances and TLAPS proves the most important properties for every
value of the constants.

1. [The system](#1-the-system)
2. [Modules](#2-modules)
3. [Runs](#3-runs)
4. [Proofs](#4-proofs)
5. [Where code and documents disagree](#5-where-code-and-documents-disagree)
6. [What is not modelled](#6-what-is-not-modelled)
7. [Plan](#7-plan)

To check a run, `tlc -config <Run>.cfg <Module>` (section 3 names the module); to
check the proofs, `tlapm` on each of `BookingProofs`, `SerialProofs`, `TimelineProofs`,
`PostgresProofs`, `AuditProofs`, `DispatchProofs`, `AccessProofs` and `NotifyProofs`. Every
safety property that a run checks is proved, under the hypotheses section 4 names.

## 1. The system

One process serves HTTP (gin). `net/http` gives every request a goroutine; all
state is in a `Store`, which is either `Memory` (one mutex, taken for one call
at a time) or `Postgres` (one statement at a time; the only transactions are
implicit ones). **No handler holds a lock or a transaction across two store
calls.** That one fact is behind most of what is hard here: a handler reads a
row, decides on its copy, and writes the whole copy back.

| Component | State | Operations | Interacts with | Hard behaviour | Correct when |
|---|---|---|---|---|---|
| Order state machine (`order/state_machine.go`) | none; one `Order` value in, one out | Create, Confirm, Reschedule, Cancel, Complete, RequestRefund, ApproveRefund, Rollback | called by the handlers on a copy | rules by refused states instead of allowed ones; a state no method makes (`pending_approval`, `in_progress`) | money only after completion and request; at most two reschedules; settled orders stay settled |
| Order handlers (`handlers/booking.go`, `delivery.go`, `admin.go`) | locals of each request | create, reschedule, cancel, complete, refund, approve, rollback, assign | store calls, the machine, dispatch, `chain.Append` | lost updates, seat given back after the row is written, ignored errors, requests cut short | seats sold never exceed seats; every stored state audited; one at a time they implement the lifecycle |
| Stores: orders and sessions (`store/memory.go`, `postgres.go`) | `orders`, `sessions.booked_size`, the timeline of each order | CreateOrder, UpdateOrder, OrderByID, IncrementSessionBookings, CountDailyOrders | called by all handlers | `Memory` copies structs but shares slices; Postgres writes the row and its events in separate statements, any of which can fail; UNIQUE number | counter within capacity and in step with the orders; timelines true and, unless a statement failed, whole |
| Audit chain (`audit/hash_chain.go`) | `audit_log` | Append, Verify, search | every handler appends | LatestAudit and AppendAudit are two calls; time hashed finer than stored; failed inserts ignored; stamped in one order and inserted in another; the fields hashed joined by an unescaped bar | an untouched log verifies, every edit or gap is found |
| Notification engine (`notify/engine.go`) | `subscriptions`, `delivery_attempts` | Send; UpdateSubscription, OneClickUnsubscribe | two store tables, the transport | checks once, then sends and sleeps up to five times; overlapping sends; midnight | daily cap, no reminder to an unsubscribed recipient, every call returns |
| Courier dispatch (`dispatch`) | none; reads couriers, facilities, active deliveries | Assign: cutoff and zone, then scope, refusals and conflicts, then a strategy | AssignCourier, the handlers that write back an order, AdminFacility | two assignments read the same deliveries; a failed read taken for an empty list; rules edited while held | no courier in two places at once but by a race; the courier chosen is eligible and the best; the facility's cutoff and closed zones are heeded |
| Sessions (`auth/auth.go`, `middleware`, `handlers/auth.go`) | map from token to user and expiry, in memory only | Login, Resolve, Logout | every request | the entry is read under one lock and acted on under another; logout, demotion or restart during a request | dead tokens stay dead; what a request may do, its user was entitled to |
| Scope and overlay (`auth/scope.go`, `handlers/admin.go`) | permission rows, users' roles and classes | `Can`, `BuildOverlay`, AdminPermissions, AdminMembership | the handlers' `can` | an overlay entry replaces the role gate but not the scope gate; rows written one by one; whole users written back | `Can` decides what its table says; no overlay reaches another organisation; edits stand |
| Teacher content console (`handlers/teacher.go`) | content rows | TeacherPin, TeacherBulk | store, `chain.Append` | a stale copy upserted after a delete; errors ignored yet counted and audited; stops half-way on a read error; the next start seeds the items again | only the owner changes an item; writes stand until the next seeding |
| Devices, health, metrics (`handlers/health.go`) | devices, crash reports | RegisterDevice, DevicePolicy, CrashReport, Alerts | store, `chain.Append` | independent upserts | — |
| Seeding (`bootstrap/seed.go`, `main.go`) | — | Seed, at every start, over either store | Store | users that are there are left alone, content items and the facility are written again; with `Memory` everything goes back to the seeded rows | what was changed since survives a start |
| Crypto helpers, router, pages, config, `main` | none or constants | — | — | — | — |

## 2. Modules

```
OrderMachine <- BookingService <- BookingSerial <- SeatLedger <- MCBooking
      |             |   |   \          | INSTANCE OrderLifecycle
      |             |   |    MemoryTimeline ----- MCTimeline (with BookingSerial)
      |             |   PostgresTimeline -------- MCPostgres (with BookingSerial)
      |             BookingProofs <- SerialProofs (with SeatLedger)
      |                 SerialProofs <- TimelineProofs (with MemoryTimeline),
      |                                 PostgresProofs (with PostgresTimeline)
      | INSTANCE
CourierRules <- Dispatch <- MCDispatch, DispatchProofs
Scope <- AccessControl <- ContentConsole <- MCConsole, AccessProofs
AuditChain <- AuditOverlap <- MCAudit, AuditProofs          NotifyEngine <- NotifyProofs
```

Throughout, a *worker* (sender, appender) is a goroutine serving a request; it has a
record that says where it is (`pc`) and **which copies it has read**. A store call is one
action, and so is the decision a handler makes between two calls. Variables called
history variables are read by no action; properties compare the code's state with them.

**OrderMachine.** Each method of `order.Machine` is a guard `Can<Op>` (the
negation of its error returns) and a result `<Op>ed`. No variables.

**BookingService.** The tables (`orders`, `booked`), the clock (`now`), and
`job[w]`: the handler, the order it is about, its copy of the row, the daily count
it read.

| Go | Actions |
|---|---|
| `CreateBooking` | `Reserve`, `CountOrders`, `InsertOrder`, `AppendAudit` |
| `CreateDelivery` | `StartDelivery`, `CountOrders`, `InsertOrder`, `AppendAudit` |
| `CancelBooking` | `Load`, `DecideCancel`, `StoreOrder`, `ReleaseSeat`, `AppendAudit` |
| reschedule, complete, refund, approve, rollback, assign | `Load`, `Decide…`, `StoreOrder`, `AppendAudit` |
| any of them answering 409 | `Load`, `Refuse` |
| a failing statement or cancelled request (Postgres) | `Abort`, and the failing alternatives of `CountOrders`, `InsertOrder`, `ReleaseSeat` |

`audited` counts audit entries by order and action; it is what properties compare
the orders with (`AuditChain` is about the chain itself).

**OrderLifecycle** is the abstract specification: what a client of the order
endpoints is promised, one atomic step per accepted request, with no counter, no
copies and no failures. **BookingSerial** states what holds when requests do not
overlap, among it that the handlers implement `OrderLifecycle` under the
refinement mapping that projects each row on session, state, payment and count.
**SeatLedger** is for the other case, any overlap and any traffic: it adds a ledger,
`overwritten`, of the one event that puts a seat counter wrong, an `UpdateOrder` over a
cancelled booking (`WritesOver`), be it by a stale copy, a rollback or an assignment.

**MemoryTimeline** composes every step of `BookingService` with what it does to
the `Timeline` slices in the Memory store: slice headers are copied with the
rows, backing arrays are shared, and `append` writes in place while there is
capacity. **PostgresTimeline** does the same for the `order_events` table: `OrderByID` is
`PLoad` then `PReadEvents`, whose error the code swallows; `CreateOrder` and `UpdateOrder` are
the order's statement, then `PDeleteEvents`, then one `PInsertEvent` per event of the
handler's copy, with no transaction around them, so a failure leaves any prefix.
Its history `past` is every state an order was stored in; `Told` picks those a `Machine`
method made, as against the two (`Untold`) that handlers set themselves.
Each action of both modules conjoins a `BookingService` action (or leaves its
variables alone), so the composition adds no freedom to the rows.

**CourierRules** holds the pure rules of `internal/dispatch`: `ValidatePickup`,
`OverlapsExisting`, `EligibleCouriers`, `Select` by the key of a strategy (a stable sort's
first element), `Assign`. **Dispatch** runs `AssignCourier` over them, a step per store call
(`LoadForAssign`, `ReadFacility`, `Decide`, `StoreAssigned`), next to the handlers that write
back the same orders (`LoadAndMove`, `StoreMoved`), the admin who edits facilities (to any
integer cutoff: nothing validates it) and restarts (`Restart` seeds the facility again).
`CourierRules` takes distances and ratings as constants: nothing depends on more than
how they compare. Facilities that are not named, not found or not read are the zero
value, and a list of deliveries that fails is empty, as in the code. `doubt` and `lapse`
remember in which circumstances each delivery was last assigned, `inForce` the rules that
the facility of each assignment has had since it began.

**Scope** is `Can` with the permission overlay, written like the code's cascade of
returns, and `Permitted`, the same decision as a table of roles and reaches.
**AccessControl** has the sessions, the users' rights and the permission tables;
a request is `Begin` (the entry read under the lock), `Resolve` (the rest, with no
lock), then its handler: `EndSession` (logout), `Ask` (h.can), `ReadMember`/`WriteMember`
(AdminMembership), `ReadRules`/`WriteRule` (AdminPermissions, a store call per row). `Restart`
ends every request and session; users and permissions survive it in Postgres, where seeding
skips a user who is there.
**ContentConsole** adds `TeacherPin` and `TeacherBulk` to the same requests, and history:
the *moments* of each request (`past`), what was asked of each member (`asked`) and
wanted of each item (`wanted`), which requests hold a copy whose row has changed since
(`overtaken`, `stale`), and which members and items such a copy was written over (`undone`,
`lost`). `Crash` is the restart with the seeding that `main` runs at every start: over either store
the items are upserted, all of them or, where an upsert fails or seeding is off, only some (`Kept`).

**AuditChain.** `Chain.Append` as `ReadLatest`, `Stamp` (the clock gives id and time) and
`WriteEntry`, so that entries can be stamped in one order and inserted in another; the row each
store keeps (`Stored` rounds the time in Postgres, which also refuses an id it has), the row
each store calls the latest, `Verify`, and the orders in which a reader may be given the rows
(`Readings`). SHA-256 is idealised: equal hashes mean equal inputs. The input is as the code makes it, fields
joined by `|` without escaping. Two of them, resource and detail, may hold text of a caller
(the reason of a rollback, the order of a reminder), so they are sequences of tokens and hashed as one
(`Joined`); the others are made by the server, have no bar in them, and stay apart.
**AuditOverlap** adds one history variable, `overlapped`: whether two appends were ever in flight at
once. It states what the chain is as long as they were not, with as many appenders as there are.

**NotifyEngine.** `Engine.Send` as called by `SendNotification`: subscription check,
cap check, then transport call, record, sleep, repeat. The recipient and midnight
act in between; over Postgres a record can be refused, and the code goes on. History:
`late` counts the reminders sent since the recipient unsubscribed, `lost` the attempts
not recorded, `strained` the days on which an order's calls overlapped, retried
or ran on past midnight.

## 3. Runs

All runs check deadlock. Bounds, in every module: `MaxTime`/`MaxDay` end the clock,
`MaxRequests`/`MaxCalls`/`MaxEntries` the work. Where nothing else goes on at the bounds a
`Rest` action lets a drained system stutter, so that stopping at a bound is not
taken for a deadlock; elsewhere admins, recipients or restarts can always act.

| Run (module) | Instance | Shows |
|---|---|---|
| `BookingConcurrent` (`MCBooking`) | Postgres with failures, 2 requests at a time, 2 orders, all handlers, 4 requests | `RefundsBacked`, `SeatsAccounted`, `OversoldBound`, `TypeOK` survive lost updates, rollbacks, assignments and failures |
| `BookingSerialPostgres` (`MCPostgres`) | Postgres with failures between any two statements, 1 at a time, 2 orders, 4 requests, no rollback or assign | `SeatsCovered`, `AcceptedReschedules`, `CompletedFromActive`, `SettledStays`, `ImplementsLifecycle`; `TimelineWhole`, `TimelineTruthful` |
| `TimelineSerial` (`MCTimeline`) | Memory, 1 at a time, 2 orders, fair workers | `SeatsExact`, `TimelineMatchesState`, `TimelineAppendOnly`, `SeatsSettle` |
| `TimelineConcurrent` (`MCTimeline`) | Memory, 2 at a time, 1 order, all handlers, 5 requests | `TimelineRooted`, `EveryStateAudited`, `EventsAudited` |
| `AuditConcurrent` (`MCAudit`) | Memory, 2 appenders, 2 tenants, texts with and without a bar | `ForkWidth`, `TamperDetected`, `GapDetected` |
| `AuditPostgres` (`MCAudit`) | Postgres with failures, 2 appenders, two ticks per microsecond | `IntactIffWhole`, `LinksStored`, `VerifiesInOrder` |
| `NotifyOverlap` (`NotifyEngine`) | Postgres, 2 senders, a transport and a store that may fail, midnight | `CapRespected`, `Overshoot`, `EveryAttemptRecorded`, `UnsubscribeLag`, `SendsReturn`, `TypeOK` |
| `Console` (`MCConsole`) | Postgres, an admin and a teacher, 2 requests at a time, expiry, logout, restart, edits of roles, permissions and content | `GrantsJustified`, `TokensStayOut`, `MembershipStands`, `ContentStands`, `OwnersOnly`, `TypeOK` |
| `Dispatch` (`MCDispatch`) | Postgres with failures, 3 deliveries, 3 couriers, 2 requests at a time, 3 in all, an admin who edits the facility, restarts | `NoDoubleBooking`, `ClashWidth`, `RulesHeeded`, `TypeOK` |
| `BookingOversold` (`MCBooking`) | Memory, 2 at a time, no rollback or assign | violates `NoOverselling` |
| `TimelineShared` (`MCTimeline`) | as `TimelineConcurrent` | violates `TimelineMatchesState` |
| `AuditFork` (`MCAudit`) | Memory, 2 appenders | violates `Intact` |

**Why the bounds are enough.** In the booking instances a session has one seat and
there are two orders, so a seat can be sold, given back and sold again, or fought
over. The cancel and refund windows are one tick and the session starts at tick 1
of 0..2: every handler runs on both sides of each window and the calendar day
changes twice. Four requests cover a create and three reschedules, two of which
overlap; two workers show every lost update, since a row is overwritten by one
copy. Four are also a create, a cancellation, a rollback and a second cancellation of one order, or
a create, a cancellation under a reschedule that is stored after it, and a create that takes the seat again. A timeline of four events has every prefix a failed rewrite can leave.
`TimelineConcurrent` has one array per order and per worker and one to allocate
(so that `FreshArray` is always defined); five
requests grow an array from one slot to two, four and eight, so both branches
of `append` happen. Four audit entries are enough for a fork, a gap in the middle
and an edit before the end; two ticks per microsecond are enough for rounding to
change a time or not. A text of three tokens with a bar in the middle is the smallest that
can be split in two ways; edits range over all texts, also where no entry was written with them. The reminder cap is 2 and there are 3 attempts, so that one
call can overshoot the cap by itself, and two days show a call that ends on another
day than its check. In `Console` a session lasts one tick of two, two tokens let a user
log in again, and three requests are two that overlap and one before or after; one
bulk body has two ids, one of them foreign, and one list of permissions has two rows,
so that a reader can come between them. In `Dispatch` half-hour slots and two pickups
at the same time or half an hour apart make deliveries that clash, two couriers of whom one has no
organisation and a third of another organisation make the candidates differ, and the later pickup
is past the default cutoff. The edit lets that one through and closes the zone of the other
pickup, so an assignment can be late, in a closed zone or neither, by the old rules and by the new. Three
requests are two assignments that race and one more that clashes with both, frees a courier or takes one again.

**Symmetry.** `BookingConcurrent` and `Dispatch` permute workers and orders,
`BookingSerialPostgres` orders, `Console` workers: they are compared for equality only. The temporal formulas these runs check are initial conditions and
conditions on single steps (`[][A]_v`, a refinement without fairness), which TLC checks
on each step before it identifies states, and which treat the permuted values
alike. The two runs with liveness properties use no symmetry.

**Fairness.** `TimelineSerial` and `NotifyOverlap` assume weak fairness of each
worker's own steps (`TServe(w)`, `Serve(w)`): the Go runtime keeps scheduling a
runnable goroutine, a store call returns, and `time.Sleep` ends. No
fairness is assumed of clients, the clock or recipients, nor that a call to the
transport or the database ever succeeds or ever fails (`Abort` is in `Next` and not in
`Serve`): `SendsReturn` rests on the attempt limit alone.

**What the less obvious properties say.**

* `SeatsExact`: the counter is the bookings not cancelled plus the seats that
  requests in flight have taken or not yet given back. `SeatsCovered` is what is
  left of it when calls fail: never fewer, so nothing is sold twice, but seats leak.
* `SeatsAccounted`: `SeatsExact` and `SeatsCovered` again, for any overlap, rollbacks and assignments,
  with the correction they need: the counter and the ledger `overwritten` together (over the Memory
  store exactly, which is proved). `OversoldBound` is what is left of the promise of capacity:
  `NoOverselling` holds only of clients' requests one at a time, which is proved, and is refuted
  by the run `BookingOversold`.
* `EventsAudited`: a stored timeline and the audit log do not contradict each other, in spite of the
  arrays that copies share: an event a handler has written into such an array shows in the stored
  timeline before that handler has stored its own row, and is committed all the same (`Committed`).
* `EveryStateAudited`: whichever copy was stored last, the state it shows was
  audited by the handler that makes it, or is about to be. The exception is the
  cancellation waiting for approval, which `CancelBooking` stores unaudited.
* `TimelineRooted`: overlapping appends may rewrite events, but never the first
  ones and never leave a slot unwritten.
* `TimelineTruthful`: what `order_events` shows is always what happened with some events
  left out, whichever statements failed; `TimelineWhole`: for an order none of whose
  statements on `order_events` failed, only the two states are left out that the code stores
  without an event (section 5).
* `IntactIffWhole`: until two appends have overlapped the log verifies exactly as long as no
  stored time differs from the one hashed. Failed and refused appends do no harm.
* `TamperDetected` excepts edits that may have moved text with a bar in it between resource and detail
  (`MayMoveText`): their hash does not change. `VerifiesInOrder`: with two appenders over
  Postgres most logs fork or cross; the property says that one that does never verifies.
* `ForkWidth`: an entry has at most as many successors as there are goroutines
  appending. The premise (its hash is the hash of no other entry) is needed: two
  appenders may store identical entries in one clock tick.
* `Overshoot` and `UnsubscribeLag` bound what the check-once design of `Send` costs;
  `CapRespected` says on which days it costs nothing.
* `GrantsJustified`: a request works with the rights it read, so it may outlive them;
  but some moment since it began justifies all it was let through to do.
  A failed read of the permissions counts as a moment without any, as the code takes it.
* `MembershipStands`, `ContentStands`: what was asked for since the last seeding is what is stored,
  overlap or not, with one exception that is named: a write from a copy whose row had changed
  since it was read. It can undo another's change or bring a deleted item back, and stays on record
  (`undone`, `lost`) until a write that depends on no copy, a role named or a deletion, repairs it.
  A write that failed is not expected to be in effect, though `TeacherBulk` counts and audits it.
* `RulesHeeded`: rules may change while an assignment holds them; but whatever is put under way was
  before the cutoff and outside the closed zones by the rules that its facility had at *one* moment of
  the request. A facility not named, missing or not read has the default cutoff and closes nothing.
* `NoDoubleBooking`: two clashing deliveries mean that one of them was assigned after
  another assignment had been stored since its list was read, or on a failed list.
  Cancellations, completions, refunds, rollbacks and reassignments, and stale copies
  written back by them, never cause a clash by themselves. `ClashWidth` bounds the race.

## 4. Proofs

The theorems are in the eight proof modules. The assumptions are the named ones of
the modules (`MachineAssumption`, `ServiceAssumption`, `HeapAssumption`, `ChainAssumption`,
`RulesAssumption`, `DispatchAssumption`, `ScopeAssumption`, `AccessAssumption`,
`ConsoleAssumption`, `NotifyAssumption`): finite sets where something is counted (orders,
couriers, requests in flight), natural-number limits, total functions, constants apart
from one another, and of the heap only that the allocator always has an array nothing
refers to. Nothing is assumed about how many orders, sessions, requests, users, couriers,
appenders or entries there are.

What fails under overlap (section 5) is proved where it holds. The hypotheses are

* *one at a time*: `OneAtATime`, no two workers, any number of requests after one another;
* *until two overlap* (`AuditProofs`): as long as no two appends have been in flight at once, a
  condition on the run so far and not on how many goroutines there are;
* *clients only*: `ClientTraffic`, no rollback and no assignment, which by themselves break
  `NoOverselling` and `SettledStays` (of seats, `SeatsAreAccounted` says what holds with them);
* *Memory* or *Postgres*: the value of `Store`, where the two differ.

A row without one of these is for any overlap, all traffic and both stores, with the
failures the store's alternative of an action has.

| Module | Theorem | States | Under |
|---|---|---|---|
| `BookingProofs` | `TypeCorrect` | `[]TypeOK` | |
| | `OrdersSafe` | `[](RefundsBacked /\ RescheduleCap /\ CapacityRespected)` | |
| | `StatesAudited` | `[]EveryStateAudited` | Memory (in the property) |
| `SerialProofs` | `CopyCurrent` | `[]CurrentCopy`: the copy is the row | one at a time |
| | `HandlersImplementLifecycle` | `ImplementsLifecycle`, the refinement | one at a time, clients only |
| | `SeatsAreAccounted`, `OversellingBounded` | `[]SeatsAccounted`, `[]OversoldBound` | |
| | `SeatsAreCovered`, `NotOversold` | `[]SeatsCovered`, `[]NoOverselling` | one at a time, clients only |
| | `SeatsAreExact` | `[]SeatsExact` | one at a time, clients only, Memory |
| | `ReschedulesAccepted`, `CompletionsFromActive` | `[]AcceptedReschedules`, `CompletedFromActive` | one at a time |
| | `SettledOrdersStay` | `SettledStays` | one at a time, no assignment |
| `TimelineProofs` | `TimelineRunsService` | `TSpec => Spec` | |
| | `TimelinesRooted`, `EventsAreAudited` | `[]TimelineRooted`, `[]EventsAudited` | |
| | `TimelinesMatch`, `TimelinesOnlyGrow` | `[]TimelineMatchesState`, `TimelineAppendOnly` | one at a time |
| `PostgresProofs` | `PostgresRunsService` | `PSpec => Spec` | Postgres |
| | `TimelinesWhole`, `TimelinesTruthful` | `[]TimelineWhole`, `[]TimelineTruthful` | one at a time, Postgres |
| `AuditProofs` | `LinksHold` | `[]LinksStored` | |
| | `CrossingsShow` | `[]VerifiesInOrder` | |
| | `EditsDetected`, `GapsDetected` | `[]TamperDetected`, `[]GapDetected` | |
| | `MemoryEntriesSound`, `ForksNarrow` | `[]EntriesSound`, `[]ForkWidth` | Memory |
| | `IntactExactlyIfWhole` | `[]IntactIffWhole` | until two overlap |
| | `SerialIntact` | `[](~overlapped => Intact)` | until two overlap, Memory |
| `DispatchProofs` | `DispatchTypeCorrect` | `[]TypeOK` | |
| | `OnlyRacesDoubleBook`, `ClashesNarrow` | `[]NoDoubleBooking`, `[]ClashWidth` | |
| | `AssignmentsServiceable`, `AssignmentsHeedRules` | `[]Serviceable`, `RulesHeeded` (an action property) | |
| | `AssignPicksBest` | what `Assign` returns | any candidates and list |
| `AccessProofs` | `CanIsPermitted` | `Can <=> Permitted` | every user, table, action, target |
| | `HomeOnly`, `StoredRowBindsAdmins` | what can reach another organisation; a stored row binds admins too | the same |
| | `ConsoleTypeCorrect` | `[]TypeOK` | |
| | `GrantsAlwaysJustified` | `[]GrantsJustified` | |
| | `DeadTokensStayOut`, `OnlyOwnersChange` | `TokensStayOut`, `OwnersOnly` (action properties) | |
| | `EditsStand`, `WritesStand` | `[]MembershipStands`, `[]ContentStands` | |
| `NotifyProofs` | `NotifyTypeCorrect`, `CapHoldsUnstrained` | `[]TypeOK`, `[]CapRespected` | |
| | `OvershootBounded` | `[]Overshoot` | there is a sender |
| | `UnsubscribeHonoured`, `AttemptsAccounted` | `[]UnsubscribeLag`, `[]EveryAttemptRecorded` | |

**OrdersSafe.** `RefundsBacked` and `RescheduleCap` speak of the table, and are not
inductive: a handler stores a copy it read long ago. The strengthening is `RowsOK`:
the same conditions hold of *every copy a job holds*. It is inductive because each
machine method keeps `MoneyBacked` and the cap on any row that has them, because
`MoneyBacked` mentions the clock only as an upper bound (so time does not
invalidate old copies), and because storing then only moves a good row.
`CapacityRespected` needs only the types: the guard is inside the store call.

**StatesAudited.** The strengthening `Accounted` adds `HandlersAccountable`: a job that is
about to store a row stores a state its own audit action explains (`Explaining`).
A job that owes an entry for an order and an action keeps owing it until `audited`
has one; the steps of other jobs never take an entry or a debt away. So whichever
copy is stored last, the state it shows is paid for or owed.

**CopyCurrent**, on which all of `SerialProofs` rests. With one worker nobody stores anything
between a request's read and its write. `CurrentCopy` says so: a job that has loaded has the
stored row, a job about to store has what its handler `Accepted` to make of the stored
row, and a row that does not exist is the zero row. To prove anything by it, each action is
first brought to a shape (`Ordering`, `Loading`, `Storing`, ...) that keeps only the fields
the properties speak of; `StepShape` covers all of `Next`, and later proofs have one case
per shape. `OrderStep` then says what any step makes of one order, and the two action properties follow.
`AcceptedReschedules` counts in the audit log and needs `Counted`: the entries, plus one for
a reschedule stored and not yet audited, are at most the order's own counter.

**SeatsAreAccounted, OversellingBounded.** `Slack(s)` is how far the counter is ahead of
the seats in use. A step that adds a seat holder takes its seat first and a cancellation leaves a
debt (`InFlight`) in the step that removes the holder, so the slack shrinks in one step only, the
store of a row over a cancelled one, which is the step that `overwritten` counts. `LedgerInv` adds
what this needs: a job's copy is of the order it is about (`CopiesHeld`), so that storing it
never moves a seat from one session to another. **SeatsAreCovered**, **SeatsAreExact** and **NotOversold** are the
same for clients one at a time, where nothing is written over.

**HandlersImplementLifecycle.** Under the refinement mapping, storing a row is the atomic step
of its handler, taken from the state `CurrentCopy` says the row has; inserting is the creation;
every other step stutters. The abstract guard on seats is what `SeatsCovered` gives.

**TimelinesRooted.** The invariant `HeapInv` has two ideas. `Owned`: slices that
share an array are slices of one order, because the only array a slice is given is its own, one
of the copied slice, or a fresh one. `Rooted`: a booking's slice has at least two events, and
append writes behind the last one, so its first two are out of reach of every writer, of its own
array or of another. For one worker, `TimelinesMatch` and `TimelinesOnlyGrow` add
that the copy's slice extends the stored one.

**EventsAreAudited.** `LogInv` says more than the property: every event that a stored slice *or a copy
in hand* shows is in the log or committed to, since a copy can be stored at any time. Only two steps
put an event in an array, and both commit to its entry in the same step; by `Owned` no other
order's slice shows it; and a commitment ends only by the entry (`VouchesStep`). Which is why a
handler that stored `pending_approval` must not count: it writes no event and no entry.

**TimelinesWhole, TimelinesTruthful.** The invariant `PostgresInv` has one idea: `Tells`. The copy
a handler holds is the order's history `past` with events left out (`Embeds`), and exactly the
states told if no statement about the order ever failed (`Records`); so is the copy of a worker in the middle of a
rewrite, and the rows in the table are the first rows of that copy (`Replaced`). A failure leaves a
first part of something that embeds, which embeds; the next handler reads that, appends to it
and writes it back, so what is lost stays lost and nothing else gets in. `EmbedsWithin` turns
the embedding, a strictly increasing function, into the property's `Within`, and
`ShownAsStored` shows that a table without gaps is read back as it is; both by counting (`Ranks`).

**LinksHold, MemoryEntriesSound.** The strengthening `TreeInv` adds that the hash
an appender has read is the hash of a row already stored (rows are never removed),
and that each row's hash is the hash of the fields it had when written. Nothing is
assumed of the order of times, so entries that cross are covered; `CrossingsShow` adds what `Verify`
makes of them: a log that verifies was not rounded anywhere (`IntactWhole`), so in Postgres its
times are its ids, all different, and to be read in the order of insertion they must have grown in it.

**EditsDetected, GapsDetected.** Both are about a log that verifies, however it came about.
`Sealed`: each row's hash was taken over its fields and the time as read, and no row links to itself, since the
link is inside the hash. So an edited row is the first broken one: the rows before it are
untouched, and its hash has changed, since a joined text determines its two parts unless a bar moved from
one to the other (`JoinedSplits`); and the row behind a gap cannot link to the row before it.
**ForksNarrow.** `Latest` hands out only the last row, so `Narrow` counts, of each earlier
row, those who have linked to it and those who hold its hash: different appenders, all of whom were
there when it was the last. **IntactExactlyIfWhole, SerialIntact.** `Chained`: as long as
no time was rounded the rows are in the order of their times (`Ordered`), the latest row is the last one,
its hash is the one in hand, and the next row links to it; a rounded time breaks its own row for good.

**OnlyRacesDoubleBook, AssignmentsServiceable, AssignmentsHeedRules.** The inductive invariant is `Safe`.
`RulesKnown` says that the rules a worker holds are among those in force since its request began, `CopiesGood` that a copy
about to be stored is not under way, or a good assignment that heeds some of those rules.
The heart is `StillFree`: while a worker is about to assign and is in no doubt, *no
delivery in the table other than its own* clashes with its copy. Listing the
deliveries establishes it; only a step that puts a delivery under way could break
it, and that is an assignment, which puts all others in doubt: a stale copy written back by
another handler is never one under way.

**ClashesNarrow.** `Crowded` bounds a crowd, a set of deliveries that clash with one
another, *together with* the workers about to join it: whoever stored one of them has
left the workers about to join, and a worker only decides to join by a list that did not
show the crowd, so the sum never exceeds the number of workers.

**GrantsAlwaysJustified.** `AllJustified` says of each request what its place requires of
its moments: one of `live` once it is resolved, one with the copied rights, one with the
table `Ask` read. It is inductive because moments are only added while a request runs. `CanIsPermitted`
then turns the code's decision into the declarative one. **EditsStand**, **WritesStand**:
a request that is not overtaken holds the row there is (`CopiesFresh`, `HoldsFresh`), so what it
writes is what was wanted with its own change; one that is overtaken puts the member or item
on record in the step it writes.

**CapHoldsUnstrained.** `CapRespected` alone is not inductive: a call that has passed the
check may record later. `Capped` adds `OneAtATime` (on an unstrained day at most one
call about an order is past the check) and `RoomLeft` (while that one has an attempt
to record the count is still below the cap). Overlap, retry and midnight each strain
the day in the very step that would break one of the two.

**OvershootBounded, UnsubscribeHonoured.** Both bounds are a budget: the attempts of all calls, numbered
`Senders \X (1 .. MaxAttempts)`. `Contained` adds, to the attempts recorded today, those the calls
past the check have left to record (`ToRecord`); `Lagging`, to the reminders sent since the recipient left,
those the calls past the subscription check have left to send (`ToSend`). A record or a send moves one element from the
second to the first, and a call enters with a full share only after a check that still leaves room for it.
**AttemptsAccounted.** `delivered` grows as a call starts recording; when it ends, the set of rows
(`Recorded`) grows by one that was not in it, or `lost` does.

**Model-checked only.** The two liveness properties, `SendsReturn` and `SeatsSettle`: liveness under fairness is
out of the prover's reach. Their safety halves are proved (no call gets past its last
attempt, `NotifyTypeCorrect`; the counter of a drained service is exact, `SeatsAreExact`). The strengthenings above were checked
with TLC on the runs' instances before they were proved.

## 5. Where code and documents disagree

Three disagreements are kept as runs that end in a violation:

* `BookingOversold` — `api-spec.md:25` says that a booking reserves capacity. A
  reschedule that read the order before a cancellation, and stores it after, brings
  the booking back without its seat; the seat is then sold again.
* `TimelineShared` — `design.md:86` says that each transition appends a timeline
  entry. Two copies of one order share the backing array of its timeline, and one
  request overwrites the entry of the other.
* `AuditFork` — `hash_chain.go:80` says that `Verify` returns -1 if the chain is
  intact. Two handlers that read the same latest entry fork the chain, and `Verify`
  then reports tampering.

Others were seen while modelling, follow from the same models, and have no run of
their own:

* The same comment of `Verify`: the hash covers nanoseconds, the Postgres column keeps
  microseconds, so one rounded time breaks an untouched log (`IntactIffWhole`: exactly then).
* Two overlapping reschedules count as one, so three can be accepted
  (`api-spec.md:27`: max 2). `AcceptedReschedules` fails with two workers.
* A completion that read an order before its cancellation completes it
  (`design.md:81`). `CompletedFromActive` fails with two workers.
* `AssignCourier` sets `in_progress` on any order, of any kind and state, without the
  state machine (`design.md:74`). `SettledStays` fails with `"assign"` in `Traffic`.
* `Cancel` accepts an order in `rolled_back`, so a cancelled booking that was rolled
  back gives its seat back twice. `NoOverselling` fails with `"rollback"` in `Traffic`.
* `CancelBooking` stores `pending_approval`, and `AssignCourier` `in_progress`, without a timeline
  entry, and the former without an audit entry either (`design.md:86`): `TimelineWhole` fails with
  the whole of the history in place of `Told`.
* Two overlapping assignments each list the deliveries before the other is stored, and both are
  answered 200 (`api-spec.md:50` promises 409 for a double-booking): `NoDoubleBooking` without its premise fails.
* `Seed` runs at every start and upserts every content item, so a pin, an edit or a deletion is undone by
  the next start, also over Postgres (`README.md:52-54` says that seed data is installed on first boot,
  `seed.go:39` that `Seed` is safe to call repeatedly). `ContentStands` says so: it speaks of the writes since
  an item was last seeded.
* The audit hash joins its fields by an unescaped bar (`hash_chain.go:60-78`): an edit that moves
  text with a bar in it between resource and detail keeps the hash (`hash_chain.go:80`).
  `TamperDetected` without its exception fails.
* The edit an admin made of `fac-main` is undone by the next start (`seed.go:63`).
* The daily count and the date in the order number are two clock readings, so the
  Memory store can keep two orders with one number (`questions.md:57`).
* A failed read of `order_events` is swallowed (`postgres.go:301`): the next update of the
  order deletes its stored history for good.
* The reminder cap is checked once per call, so retries or overlapping calls exceed
  it (`questions.md:39`, `engine.go:19`): `CapRespected` without its premise fails.
* A recipient who unsubscribes during a backoff is sent the next attempt
  (`engine.go:2-4`). `UnsubscribeLag` is what holds instead.
* Dispatch. An assignment double-books a courier also when its
  list of deliveries failed, since `delivery.go:107` ignores the error. A courier of no
  organisation can be double-booked across organisations: only deliveries of the order's own are
  listed. The order itself and orders refunded, rolled back or under review keep
  their courier busy (`conflicts.go:51`; `design.md:93-95` speaks of active deliveries).
  Couriers' refused zones do not exist in Postgres, whose users table has no such
  column (`questions.md:66`, `design.md:93`). No code updates a courier's load, so the
  load-balanced strategy never balances. The configured cutoff
  (`HARBORCLASS_PICKUP_CUTOFF_HOUR`) reaches only the seeded facility, and a request that names
  none, or an unknown one, has the default cutoff and no closed zone.
* Permissions. `admin.go:66-67` says that sensitive actions are gated by the stored
  permission; a row that lists no role, or a failed read of the rows (`handlers.go:55`), is
  taken for no row and the static matrix decides. The rows of one request are stored
  one by one, so a failure or a concurrent reader sees half of them.
* The content console counts and audits writes that failed (`teacher.go:109`), and a pin
  that read an item before its deletion brings it back.

## 6. What is not modelled

* Authorisation inside the order handlers: `auth.Can` is pure and a refused request
  changes nothing, so every request modelled in `BookingService` and `Dispatch` is an
  authorised one; `Can` itself is in `Scope`, with one generic handler that asks it.
* The formula of the distance (haversine), the lengths of backoffs, templates, CSV export,
  filters of `SearchAudit`, the wording of answers, password hashing, the signature of
  one-click links (`OneClickUnsubscribe` is a request whose link was valid).
* What overlapping rewrites of `order_events` show (their primary-key collision is an alternative of
  `PInsertEvent` and `PostgresRunsService` covers it, but no run has two workers over
  `PostgresTimeline`), in `Console` the
  Memory store, whose restart loses users and permissions too, and in `Dispatch` the Memory store,
  whose restart loses the orders and whose couriers may refuse zones: the proofs cover them and no run does.
* Devices, health and metrics (`health.go`): a device row is written whole by one
  statement and read by no other handler that writes; crash reports are audit entries;
  the request counters are atomic and only shown.
* Login attempts that fail, the sweep of expired sessions (there is none: an entry leaves
  the map by a logout or by a use after its expiry).
* Cryptography, HTML, routing, configuration, start-up: no state that could go wrong
  in an order of steps.

## 7. Plan

1. *Done, the core*: `OrderMachine`, `BookingService`, `OrderLifecycle`, `BookingSerial`,
   `MemoryTimeline`, `AuditChain`, `NotifyEngine`, and the proofs of the booking handlers and
   of the chain.
2. *Done, the rest of the system*: `CourierRules`, `Dispatch`, `Scope`, `AccessControl`,
   `ContentConsole`, `PostgresTimeline`, failures of the store in `NotifyEngine`.
3. *Done, proofs*: every safety property of every run, the action properties among them, and the refinement of
   `OrderLifecycle`.
4. Left, proofs: what the timelines of Postgres keep when requests overlap.
5. Left, composition: the other handlers over one `AuditChain` instead of their own counters.
