--------------------------- MODULE BookingService ---------------------------
(***************************************************************************)
(* The order handlers of internal/http/handlers (booking.go, delivery.go,  *)
(* admin.go) over the order and session tables of internal/store.          *)
(*                                                                         *)
(* net/http runs each request in a goroutine of its own and the store is   *)
(* locked (Memory) or atomic (Postgres) for one call only, so a handler is *)
(* a sequence of steps, one per store call, and the steps of different     *)
(* requests interleave.  A worker is a goroutine serving a request; job[w] *)
(* holds its local variables: the handler it runs, the order it is about,  *)
(* the copy of the row it read or will write, and the daily count.         *)
(*                                                                         *)
(*   CreateBooking   Reserve -> CountOrders -> InsertOrder -> AppendAudit  *)
(*   CreateDelivery  StartDelivery -> CountOrders -> InsertOrder -> ...    *)
(*   CancelBooking   Load -> DecideCancel -> StoreOrder -> ReleaseSeat ->  *)
(*                   AppendAudit                                           *)
(*   the others      Load -> Decide<Op> -> StoreOrder -> AppendAudit       *)
(*                                                                         *)
(* Requests are authorised ones: auth.Can is pure and a refused request    *)
(* changes nothing.  A request answered 4xx without a store write leaves   *)
(* the variables unchanged, except that Refuse ends its job.               *)
(***************************************************************************)
EXTENDS OrderMachine, FiniteSets

CONSTANTS
  Orders,        \* order ids the service may generate
  Sessions,      \* ids of the seeded sessions
  NoSession,     \* the empty SessionID of a delivery
  Capacity,      \* [Sessions -> Nat], Session.Capacity
  StartsAt,      \* [Sessions -> Int], Session.StartsAt
  PickupTimes,   \* times a client may ask for (new_start, pickup_at)
  Workers,       \* requests that may be in flight at the same time
  Traffic,       \* the handlers the clients of this instance call
  Store,         \* "memory" or "postgres"
  DayOf,         \* the calendar day each clock tick falls on
  MaxTime,       \* bound: the clock stops here
  MaxRequests    \* bound: number of requests served

\* Handlers that change a stored order, by the audit action they append; the
\* two that complete an order (by kind) are told apart.
Handlers == {"create", "create_delivery", "reschedule", "cancel",
             "complete_booking", "complete_delivery", "refund_request",
             "approve_refund", "rollback", "assign"}

ASSUME ServiceAssumption ==
  /\ IsFiniteSet(Orders)
  /\ IsFiniteSet(Workers)
  /\ NoSession \notin Sessions
  /\ Capacity \in [Sessions -> Nat]
  /\ StartsAt \in [Sessions -> Int]
  /\ PickupTimes \subseteq Int
  /\ Traffic \subseteq Handlers
  /\ Store \in {"memory", "postgres"}
  /\ MaxTime \in Nat
  /\ DayOf \in [0 .. MaxTime -> Nat]
  /\ MaxRequests \in Nat

VARIABLES
  orders,    \* the orders table: [Orders -> Row], "absent" rows do not exist
  booked,    \* sessions.BookedSize
  now,       \* time.Now
  job,       \* the request each worker is serving
  audited,   \* audit entries per order and action (AuditChain has the chain)
  served     \* number of requests started

vars == <<orders, booked, now, job, audited, served>>

-----------------------------------------------------------------------------
Numbers == [day : Nat, seq : Nat]

Row == [kind : {"booking", "delivery"},
        state : States \cup {"absent"},
        payment : Payments,
        session : Sessions \cup {NoSession},
        number : Numbers,
        count : Nat,
        completedAt : Int,
        pickup : Int]

\* The zero models.Order.
NoRow == [kind |-> "booking", state |-> "absent", payment |-> "unpaid",
          session |-> NoSession, number |-> [day |-> 0, seq |-> 0],
          count |-> 0, completedAt |-> Never, pickup |-> 0]

Idle == [pc |-> "idle", handler |-> "none", id |-> "none", row |-> NoRow,
         seq |-> 0]

Exists(o) == orders[o].state # "absent"

\* CountDailyOrders: rows created on today's date.  CreatedAt and the date in
\* the number are read together, so the number stands for both.
TodaysOrders ==
  Cardinality({o \in Orders : Exists(o) /\ orders[o].number.day = DayOf[now]})

\* Mutant: the capacity test forgets the seat being taken.
CanAdjustLate(s, delta) == s \in Sessions /\ booked[s] <= Capacity[s]

\* The guard of IncrementSessionBookings: the session exists and does not
\* exceed its capacity.  There is no lower bound.
CanAdjust(s, delta) == s \in Sessions /\ booked[s] + delta <= Capacity[s]

\* Where the order's cancel window may be measured from: its session's start,
\* or its pickup time when SessionByID finds no session or fails.
StartsOf(o) ==
  (IF o.session \in Sessions THEN {StartsAt[o.session]} ELSE {o.pickup})
    \cup (IF Store = "postgres" THEN {o.pickup} ELSE {})

-----------------------------------------------------------------------------
At(w, pc, handler) == job[w].pc = pc /\ job[w].handler = handler

\* Bound: a create handler starts only while an order id is left for it.
IdLeft ==
  Cardinality({o \in Orders : Exists(o)})
    + Cardinality({w \in Workers : job[w].pc \in {"counting", "inserting"}})
  < Cardinality(Orders)

Begin(w, handler) ==
  /\ job[w].pc = "idle"
  /\ handler \in Traffic
  /\ served < MaxRequests
  /\ served' = served + 1

Goto(w, pc) == job' = [job EXCEPT ![w].pc = pc]
Answer(w) == job' = [job EXCEPT ![w] = Idle]

\* A Machine method has returned newRow; UpdateOrder comes next.
Proceed(w, newRow) ==
  /\ job' = [job EXCEPT ![w].pc = "storing", ![w].row = newRow]
  /\ UNCHANGED <<orders, booked, now, audited, served>>

Init ==
  /\ orders = [o \in Orders |-> NoRow]
  /\ booked = [s \in Sessions |-> 0]
  /\ now = 0
  /\ job = [w \in Workers |-> Idle]
  /\ audited = [o \in Orders |-> [h \in Handlers |-> 0]]
  /\ served = 0

-----------------------------------------------------------------------------
\* CreateBooking: take a seat of session s.  A full session answers 409.
Reserve(w, s) ==
  /\ Begin(w, "create")
  /\ IdLeft
  /\ CanAdjust(s, 1)
  /\ booked' = [booked EXCEPT ![s] = @ + 1]
  /\ job' = [job EXCEPT ![w] =
               [Idle EXCEPT !.pc = "counting", !.handler = "create",
                            !.row = [NoRow EXCEPT !.session = s,
                                                  !.pickup = StartsAt[s]]]]
  /\ UNCHANGED <<orders, now, audited>>

\* CreateDelivery: no seat, the caller chooses the pickup time.
StartDelivery(w, pickup) ==
  /\ Begin(w, "create_delivery")
  /\ IdLeft
  /\ job' = [job EXCEPT ![w] =
               [Idle EXCEPT !.pc = "counting", !.handler = "create_delivery",
                            !.row = [NoRow EXCEPT !.kind = "delivery",
                                                  !.pickup = pickup]]]
  /\ UNCHANGED <<orders, booked, now, audited>>

\* CountDailyOrders; its error is ignored and leaves a count of 0.
CountOrders(w) ==
  /\ job[w].pc = "counting"
  /\ \E n \in {TodaysOrders} \cup (IF Store = "postgres" THEN {0} ELSE {}) :
       job' = [job EXCEPT ![w].pc = "inserting", ![w].seq = n]
  /\ UNCHANGED <<orders, booked, now, audited, served>>

\* The order a create handler builds: numbered from the count it read, and
\* for a booking confirmed on the spot.
NewOrder(w) ==
  LET o == Created([job[w].row EXCEPT !.number = [day |-> DayOf[now],
                                                  seq |-> job[w].seq + 1]])
  IN IF job[w].handler = "create" /\ CanConfirm(o) THEN Confirmed(o) ELSE o

\* orders.number is UNIQUE in the Postgres schema; the Memory store only
\* rejects a second row with the same id, and the generated ids are fresh.
NumberTaken(n) == \E o \in Orders : Exists(o) /\ orders[o].number = n

\* CreateOrder.  On a conflict the handler answers 500 and keeps the seat.
InsertOrder(w) ==
  /\ job[w].pc = "inserting"
  /\ \E o \in Orders :
       /\ ~Exists(o)
       /\ IF Store = "postgres" /\ NumberTaken(NewOrder(w).number)
          THEN Answer(w) /\ UNCHANGED orders
          ELSE /\ orders' = [orders EXCEPT ![o] = NewOrder(w)]
               /\ job' = [job EXCEPT ![w] =
                            [Idle EXCEPT !.pc = "auditing", !.id = o,
                                         !.handler = job[w].handler]]
  /\ UNCHANGED <<booked, now, audited, served>>

-----------------------------------------------------------------------------
\* OrderByID: the handler works on a copy of the row from here on.  The
\* completion handlers refuse an order of the other kind.
Load(w, handler, o) ==
  /\ Begin(w, handler)
  /\ handler \notin {"create", "create_delivery"}
  /\ Exists(o)
  /\ handler = "complete_booking" => orders[o].kind = "booking"
  /\ handler = "complete_delivery" => orders[o].kind = "delivery"
  /\ job' = [job EXCEPT ![w] = [Idle EXCEPT !.pc = "loaded", !.id = o,
                                 !.handler = handler, !.row = orders[o]]]
  /\ UNCHANGED <<orders, booked, now, audited>>

DecideReschedule(w) ==
  /\ At(w, "loaded", "reschedule")
  /\ CanReschedule(job[w].row)
  /\ \E newStart \in PickupTimes : Proceed(w, Rescheduled(job[w].row, newStart))

\* A teacher or admin is an approver.  Anyone else inside the window leaves
\* the order waiting for one: the handler sets the state itself.
DecideCancel(w) ==
  /\ At(w, "loaded", "cancel")
  /\ CanCancel(job[w].row)
  /\ \E approver \in BOOLEAN, start \in StartsOf(job[w].row) :
       Proceed(w, IF NeedsApproval(start, now, approver)
                  THEN [job[w].row EXCEPT !.state = "pending_approval"]
                  ELSE Cancelled(job[w].row))

DecideComplete(w) ==
  /\ job[w].pc = "loaded"
  /\ job[w].handler \in {"complete_booking", "complete_delivery"}
  /\ CanComplete(job[w].row)
  /\ Proceed(w, Completed(job[w].row, now))

DecideRequestRefund(w) ==
  /\ At(w, "loaded", "refund_request")
  /\ CanRequestRefund(job[w].row, now)
  /\ Proceed(w, RefundRequested(job[w].row))

DecideApproveRefund(w) ==
  /\ At(w, "loaded", "approve_refund")
  /\ CanApproveRefund(job[w].row)
  /\ Proceed(w, RefundApproved(job[w].row))

DecideRollback(w) ==
  /\ At(w, "loaded", "rollback")
  /\ CanRollback(job[w].row)
  /\ Proceed(w, RolledBack(job[w].row))

\* AssignCourier sets the state without the Machine, whatever state or kind
\* the order has.  Which courier, and whether there is one, is in Dispatch.
DecideAssign(w) ==
  /\ At(w, "loaded", "assign")
  /\ Proceed(w, [job[w].row EXCEPT !.state = "in_progress"])

\* What makes each handler answer 409 instead.
Refused(w) ==
  LET o == job[w].row
  IN CASE job[w].handler = "reschedule" -> ~CanReschedule(o)
       [] job[w].handler = "cancel" -> ~CanCancel(o)
       [] job[w].handler \in {"complete_booking", "complete_delivery"} ->
            ~CanComplete(o)
       [] job[w].handler = "refund_request" -> ~CanRequestRefund(o, now)
       [] job[w].handler = "approve_refund" -> ~CanApproveRefund(o)
       [] job[w].handler = "rollback" -> ~CanRollback(o)
       [] job[w].handler = "assign" -> TRUE    \* dispatch.Assign failed

Refuse(w) ==
  /\ job[w].pc = "loaded"
  /\ Refused(w)
  /\ Answer(w)
  /\ UNCHANGED <<orders, booked, now, audited, served>>

-----------------------------------------------------------------------------
\* Mutants: a cancellation that forgets the seat, a rollback that gives one
\* back, a rollback that forgets the audit entry.
AfterStoreKeepsSeat(handler) == "auditing"
AfterStoreFreesSeat(handler) ==
  IF handler \in {"cancel", "rollback"} THEN "releasing" ELSE "auditing"
AfterStoreUnaudited(handler) ==
  CASE handler = "cancel" -> "releasing"
    [] handler = "rollback" -> "idle"
    [] OTHER -> "auditing"

\* What is left to do after UpdateOrder.
AfterStore(handler) == IF handler = "cancel" THEN "releasing" ELSE "auditing"

\* UpdateOrder overwrites the whole mutable row with the worker's copy.  A
\* cancellation that waits for approval answers 202 here, unaudited.
StoreOrder(w) ==
  /\ job[w].pc = "storing"
  /\ LET o == job[w].id
         row == job[w].row
     IN /\ orders' = [orders EXCEPT ![o] = row]
        /\ IF row.state = "pending_approval" THEN Answer(w)
           ELSE job' = [job EXCEPT ![w].pc = AfterStore(job[w].handler),
                                   ![w].row = [NoRow EXCEPT !.session = row.session]]
  /\ UNCHANGED <<booked, now, audited, served>>

\* CancelBooking: IncrementSessionBookings(-1), whose error is ignored.
ReleaseSeat(w) ==
  /\ job[w].pc = "releasing"
  /\ LET s == job[w].row.session
     IN \/ /\ CanAdjust(s, -1)
           /\ booked' = [booked EXCEPT ![s] = @ - 1]
        \/ /\ ~CanAdjust(s, -1) \/ Store = "postgres"
           /\ UNCHANGED booked
  /\ Goto(w, "auditing")
  /\ UNCHANGED <<orders, now, audited, served>>

\* chain.Append, then the response.
AppendAudit(w) ==
  /\ job[w].pc = "auditing"
  /\ audited' = [audited EXCEPT ![job[w].id][job[w].handler] = @ + 1]
  /\ Answer(w)
  /\ UNCHANGED <<orders, booked, now, served>>

\* Postgres only: the request's context is cancelled, a statement fails, or
\* the server restarts, between two statements; nothing undoes the first.
Abort(w) ==
  /\ Store = "postgres"
  /\ job[w].pc # "idle"
  /\ Answer(w)
  /\ UNCHANGED <<orders, booked, now, audited, served>>

Tick ==
  /\ now < MaxTime
  /\ now' = now + 1
  /\ UNCHANGED <<orders, booked, job, audited, served>>

\* With every request served the service waits; only the bounds keep clients
\* from sending more.
Rest ==
  /\ now = MaxTime
  /\ \A w \in Workers : job[w].pc = "idle"
  /\ UNCHANGED vars

\* What a worker does once it has a request.
Serve(w) ==
  \/ CountOrders(w)
  \/ InsertOrder(w)
  \/ DecideReschedule(w)
  \/ DecideCancel(w)
  \/ DecideComplete(w)
  \/ DecideRequestRefund(w)
  \/ DecideApproveRefund(w)
  \/ DecideRollback(w)
  \/ DecideAssign(w)
  \/ Refuse(w)
  \/ StoreOrder(w)
  \/ ReleaseSeat(w)
  \/ AppendAudit(w)
  \/ Abort(w)

Next ==
  \/ \E w \in Workers :
       \/ \E s \in Sessions : Reserve(w, s)
       \/ \E t \in PickupTimes : StartDelivery(w, t)
       \/ \E h \in Handlers, o \in Orders : Load(w, h, o)
       \/ Serve(w)
  \/ Tick
  \/ Rest

Spec == Init /\ [][Next]_vars

\* The runtime keeps scheduling a goroutine that can run, and every store
\* call returns: a request that was accepted is served to its end.
FairSpec == Spec /\ \A w \in Workers : WF_vars(Serve(w))

-----------------------------------------------------------------------------
Job == [pc : {"idle", "counting", "inserting", "loaded", "storing",
              "releasing", "auditing"},
        handler : Handlers \cup {"none"},
        id : Orders \cup {"none"},
        row : Row,
        seq : Nat]

\* Type invariant: every stored row and every copy a handler holds is an
\* order; BookedSize is an integer with no lower bound in the code.
TypeOK ==
  /\ orders \in [Orders -> Row]
  /\ booked \in [Sessions -> Int]
  /\ now \in 0 .. MaxTime
  /\ job \in [Workers -> Job]
  /\ audited \in [Orders -> [Handlers -> Nat]]
  /\ served \in Nat

\* An order's money fields never run ahead of its history, even though stale
\* copies overwrite rows: a refund is pending or paid only on an order that
\* was completed at a time that has passed, an order in refund review or
\* refunded says so in its payment, and its completion time is recorded.
MoneyBacked(o) ==
  /\ o.payment # "unpaid" => o.completedAt \in 0 .. now
  /\ o.state = "completed" => o.completedAt \in 0 .. now
  /\ o.state = "refund_review" => o.payment = "refund_pending"
  /\ o.state = "refunded" => o.payment = "refunded"

\* No interleaving of handlers stores an order whose payment says more than
\* a completion and a refund request justify (Machine.Complete,
\* RequestRefund, ApproveRefund).
RefundsBacked == \A o \in Orders : MoneyBacked(orders[o])

\* Machine.Reschedule's cap holds of every stored order, lost updates or not.
RescheduleCap == \A o \in Orders : orders[o].count <= MaxReschedules

\* A session's counter never exceeds its capacity, whatever creations,
\* cancellations and failures interleave (IncrementSessionBookings).
CapacityRespected == \A s \in Sessions : booked[s] <= Capacity[s]

\* Handlers whose success leaves an order in the given state.
Explaining(state) ==
  CASE state = "created"       -> {"create_delivery"}
    [] state = "confirmed"     -> {"create"}
    [] state = "rescheduled"   -> {"reschedule"}
    [] state = "in_progress"   -> {"assign"}
    [] state = "completed"     -> {"complete_booking", "complete_delivery"}
    [] state = "cancelled"     -> {"cancel"}
    [] state = "refund_review" -> {"refund_request"}
    [] state = "refunded"      -> {"approve_refund"}
    [] state = "rolled_back"   -> {"rollback"}
    [] OTHER                   -> {}

\* Worker w has stored its change to order o and not yet audited it.
AboutToAudit(w, o, h) ==
  job[w].id = o /\ job[w].handler = h /\ job[w].pc \in {"releasing", "auditing"}

\* While no call fails, a state some handler put an order in is in the audit
\* log, or the request that stored it is about to append it: overwritten
\* rows and interleaved requests lose no entry.  The one exception is the
\* state that CancelBooking stores without an entry.
EveryStateAudited ==
  Store = "memory" =>
    \A o \in Orders :
      orders[o].state \notin {"absent", "pending_approval"} =>
        \E h \in Explaining(orders[o].state) :
          \/ audited[o][h] > 0
          \/ \E w \in Workers : AboutToAudit(w, o, h)

-----------------------------------------------------------------------------
\* The inductive strengthenings that BookingProofs proves.  A stale copy can
\* be stored at any time, so what holds of the rows holds of the copies too.
RowOK(o) == MoneyBacked(o) /\ o.count <= MaxReschedules

RowsOK ==
  /\ \A o \in Orders : RowOK(orders[o])
  /\ \A w \in Workers : RowOK(job[w].row)

\* A handler stores only a state that its audit action explains.
Accountable(j) ==
  /\ j.pc \in {"counting", "inserting"} =>
       j.handler \in {"create", "create_delivery"}
  /\ j.pc \in {"loaded", "storing", "releasing", "auditing"} =>
       j.id \in Orders /\ j.handler \in Handlers
  /\ j.pc = "storing" =>
       j.row.state = "pending_approval" \/ j.handler \in Explaining(j.row.state)

HandlersAccountable == \A w \in Workers : Accountable(job[w])

Accounted == HandlersAccountable /\ EveryStateAudited
=============================================================================
