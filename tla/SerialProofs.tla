---------------------------- MODULE SerialProofs ----------------------------
(***************************************************************************)
(* What BookingSerial states of requests that do not overlap, for any      *)
(* number of orders and sessions and either store.  Each theorem names the *)
(* traffic it needs: with an admin's rollbacks and assignments some of     *)
(* these properties fail.                                                  *)
(*                                                                         *)
(* The argument: nobody stores anything between a request's read and its   *)
(* write, so the copy a handler decides on is the stored order             *)
(* (CurrentCopy), and the handlers act on the table as on one variable.    *)
(* The ledger of the seats (SeatLedger) needs neither: a copy is of an     *)
(* order that exists and keeps its session (CopiesHeld), so each step      *)
(* moves the counter, the holders and the flights together.                *)
(***************************************************************************)
EXTENDS BookingProofs, SeatLedger

\* No two requests are in flight at the same time.
OneAtATime == \A v, w \in Workers : v = w

\* Students and teachers only: no admin rolls an order back or assigns it to a
\* courier.
ClientTraffic == Traffic \cap {"rollback", "assign"} = {}

\* What handler h may turn the order o into.
Accepted(h, o, row) ==
  /\ row.session = o.session /\ row.kind = o.kind
  /\ \/ /\ h = "reschedule" /\ CanReschedule(o)
        /\ row.state = "rescheduled" /\ row.count = o.count + 1
        /\ row.payment = o.payment
     \/ /\ h = "cancel" /\ CanCancel(o)
        /\ row.state \in {"pending_approval", "cancelled"}
        /\ row.count = o.count /\ row.payment = o.payment
     \/ /\ h \in {"complete_booking", "complete_delivery"} /\ CanComplete(o)
        /\ row.state = "completed"
        /\ row.count = o.count /\ row.payment = o.payment
     \/ /\ h = "refund_request" /\ o.state = "completed"
        /\ row.state = "refund_review" /\ row.payment = "refund_pending"
        /\ row.count = o.count
     \/ /\ h = "approve_refund" /\ CanApproveRefund(o)
        /\ row.state = "refunded" /\ row.payment = "refunded"
        /\ row.count = o.count
     \/ /\ h = "rollback" /\ CanRollback(o)
        /\ row.state = "rolled_back"
        /\ row.count = o.count /\ row.payment = o.payment
     \/ /\ h = "assign"
        /\ row.state = "in_progress"
        /\ row.count = o.count /\ row.payment = o.payment

\* The copy a request works on is the stored order, or what its handler
\* accepted to make of it: nobody stored anything in between.
InStep(j) ==
  /\ j.pc # "idle" => j.handler \in Traffic
  /\ j.pc \in {"counting", "inserting"} =>
       /\ j.handler = "create" => j.row.session \in Sessions
       /\ j.handler = "create_delivery" => j.row.session = NoSession
       /\ j.handler \in {"create", "create_delivery"}
       /\ j.row.payment = "unpaid" /\ j.row.count = 0
  /\ j.pc \in {"loaded", "storing"} => j.id \in Orders /\ Exists(j.id)
  /\ j.pc = "loaded" => j.row = orders[j.id]
  /\ j.pc = "storing" => Accepted(j.handler, orders[j.id], j.row)

CurrentCopy ==
  /\ \A o \in Orders : ~Exists(o) => orders[o] = NoRow
  /\ \A w \in Workers : InStep(job[w])

\* A reschedule stored and not yet in the audit log.
Unaudited(o) ==
  IF \E w \in Workers : AboutToAudit(w, o, "reschedule") THEN 1 ELSE 0

Counted == \A o \in Orders : audited[o]["reschedule"] + Unaudited(o) <= orders[o].count

Unmanaged == \A o \in Orders : orders[o].state \notin {"in_progress", "rolled_back"}

-----------------------------------------------------------------------------
(* What a step does, for a request that now stands at j: the fields the    *)
(* properties below are about, without the bookkeeping of the handlers.    *)

Quiet == UNCHANGED <<orders, booked, job, audited>>

\* Reserve, StartDelivery.
Ordering(w, j) ==
  /\ job[w].pc = "idle" /\ j.pc = "counting"
  /\ j.handler \in Traffic
  /\ j.row.payment = "unpaid" /\ j.row.count = 0
  /\ \/ /\ j.handler = "create" /\ j.row.kind = "booking"
        /\ j.row.session \in Sessions
        /\ booked[j.row.session] + 1 <= Capacity[j.row.session]
        /\ booked' = [booked EXCEPT ![j.row.session] = @ + 1]
     \/ /\ j.handler = "create_delivery" /\ j.row.kind = "delivery"
        /\ j.row.session = NoSession
        /\ UNCHANGED booked
  /\ UNCHANGED <<orders, audited>>

\* CountOrders.
Numbering(w, j) ==
  /\ job[w].pc = "counting" /\ j.pc = "inserting"
  /\ j.handler = job[w].handler /\ j.row = job[w].row
  /\ UNCHANGED <<orders, booked, audited>>

\* InsertOrder, without a conflict.
Inserting(w, j, o, row) ==
  /\ job[w].pc = "inserting" /\ j.pc = "auditing"
  /\ j.handler = job[w].handler /\ j.id = o
  /\ ~Exists(o)
  /\ row.state = (IF job[w].handler = "create" THEN "confirmed" ELSE "created")
  /\ row.session = job[w].row.session /\ row.kind = job[w].row.kind
  /\ row.payment = job[w].row.payment /\ row.count = job[w].row.count
  /\ orders' = [orders EXCEPT ![o] = row]
  /\ UNCHANGED <<booked, audited>>

\* Refuse, Abort, and InsertOrder on a conflict.
Ending(w, j) ==
  /\ j = Idle
  /\ Store = "postgres" \/ job[w].pc = "loaded"
  /\ UNCHANGED <<orders, booked, audited>>

Loading(w, j) ==
  /\ job[w].pc = "idle" /\ j.pc = "loaded"
  /\ j.handler \in Traffic
  /\ j.id \in Orders /\ Exists(j.id) /\ j.row = orders[j.id]
  /\ UNCHANGED <<orders, booked, audited>>

Deciding(w, j) ==
  /\ job[w].pc = "loaded" /\ j.pc = "storing"
  /\ j.id = job[w].id /\ j.handler = job[w].handler
  /\ Accepted(j.handler, job[w].row, j.row)
  /\ UNCHANGED <<orders, booked, audited>>

Storing(w, j) ==
  /\ job[w].pc = "storing"
  /\ orders' = [orders EXCEPT ![job[w].id] = job[w].row]
  /\ IF job[w].row.state = "pending_approval" THEN j = Idle
     ELSE /\ j.pc = AfterStore(job[w].handler)
          /\ j.id = job[w].id /\ j.handler = job[w].handler
          /\ j.row.session = job[w].row.session
  /\ UNCHANGED <<booked, audited>>

Releasing(w, j) ==
  /\ job[w].pc = "releasing" /\ j.pc = "auditing"
  /\ j.id = job[w].id /\ j.handler = job[w].handler
  /\ \/ /\ CanAdjust(job[w].row.session, -1)
        /\ booked' = [booked EXCEPT ![job[w].row.session] = @ - 1]
     \/ /\ ~CanAdjust(job[w].row.session, -1) \/ Store = "postgres"
        /\ UNCHANGED booked
  /\ UNCHANGED <<orders, audited>>

Auditing(w, j) ==
  /\ job[w].pc = "auditing" /\ j = Idle
  /\ audited' = [audited EXCEPT ![job[w].id][job[w].handler] = @ + 1]
  /\ UNCHANGED <<orders, booked>>

\* What worker w does by going to j.
Does(w, j) ==
  \/ Ordering(w, j)
  \/ Numbering(w, j)
  \/ \E o \in Orders : \E row \in Row : Inserting(w, j, o, row)
  \/ Ending(w, j)
  \/ Loading(w, j)
  \/ Deciding(w, j)
  \/ StoreOrder(w) /\ Storing(w, j)
  \/ Releasing(w, j)
  \/ Auditing(w, j)

-----------------------------------------------------------------------------
(* Every action has one of these shapes.                                   *)

LEMMA OrderingShape ==
  ASSUME TypeOK, NEW w \in Workers,
         \/ \E s \in Sessions : Reserve(w, s)
         \/ \E t \in PickupTimes : StartDelivery(w, t)
  PROVE  \E j \in Job : job' = [job EXCEPT ![w] = j] /\ Ordering(w, j)
<1>1. ASSUME NEW s \in Sessions, Reserve(w, s)
      PROVE  \E j : job' = [job EXCEPT ![w] = j] /\ Ordering(w, j)
  <2> DEFINE row == [NoRow EXCEPT !.session = s, !.pickup = StartsAt[s]]
             j == [Idle EXCEPT !.pc = "counting", !.handler = "create", !.row = row]
  <2>1. /\ row.session = s /\ row.kind = "booking"
        /\ row.payment = "unpaid" /\ row.count = 0
    BY DEF NoRow
  <2>2. job' = [job EXCEPT ![w] = j]
    BY <1>1 DEF Reserve
  <2> HIDE DEF row
  <2>3. j.pc = "counting" /\ j.handler = "create" /\ j.row = row
    BY DEF Idle
  <2> HIDE DEF j
  <2>4. Ordering(w, j)
    BY <1>1, <2>1, <2>3 DEF Ordering, Reserve, Begin, CanAdjust
  <2> QED
    BY <2>2, <2>4
<1>2. ASSUME NEW t \in PickupTimes, StartDelivery(w, t)
      PROVE  \E j : job' = [job EXCEPT ![w] = j] /\ Ordering(w, j)
  <2> DEFINE row == [NoRow EXCEPT !.kind = "delivery", !.pickup = t]
             j == [Idle EXCEPT !.pc = "counting", !.handler = "create_delivery",
                               !.row = row]
  <2>1. /\ row.session = NoSession /\ row.kind = "delivery"
        /\ row.payment = "unpaid" /\ row.count = 0
    BY DEF NoRow
  <2>2. job' = [job EXCEPT ![w] = j]
    BY <1>2 DEF StartDelivery
  <2> HIDE DEF row
  <2>3. j.pc = "counting" /\ j.handler = "create_delivery" /\ j.row = row
    BY DEF Idle
  <2> HIDE DEF j
  <2>4. Ordering(w, j)
    BY <1>2, <2>1, <2>3 DEF Ordering, StartDelivery, Begin
  <2> QED
    BY <2>2, <2>4
<1>3. TypeOK'
  BY ReserveType, StartDeliveryType
<1>4. PICK j : job' = [job EXCEPT ![w] = j] /\ Ordering(w, j)
  BY <1>1, <1>2
<1>5. j \in Job
  BY <1>3, <1>4 DEF TypeOK
<1> QED
  BY <1>4, <1>5

LEMMA NumberingShape ==
  ASSUME TypeOK, NEW w \in Workers, CountOrders(w)
  PROVE  \E j \in Job : job' = [job EXCEPT ![w] = j] /\ Numbering(w, j)
<1>1. PICK n : job' = [job EXCEPT ![w].pc = "inserting", ![w].seq = n]
  BY DEF CountOrders
<1> DEFINE j == [job[w] EXCEPT !.pc = "inserting", !.seq = n]
<1>2. job' = [job EXCEPT ![w] = j]
  BY <1>1 DEF TypeOK
<1>3. /\ j.pc = "inserting" /\ j.handler = job[w].handler
      /\ j.row = job[w].row
  BY DEF TypeOK, Job
<1>4. TypeOK'
  BY CountOrdersType
<1> HIDE DEF j
<1>5. j \in Job
  BY <1>2, <1>4 DEF TypeOK
<1> QED
  BY <1>2, <1>3, <1>5 DEF Numbering, CountOrders

\* The order a create handler builds, field by field.
LEMMA NewOrderFields ==
  ASSUME TypeOK, NEW w \in Workers
  PROVE  /\ NewOrder(w).state = (IF job[w].handler = "create" THEN "confirmed"
                                 ELSE "created")
         /\ NewOrder(w).session = job[w].row.session
         /\ NewOrder(w).kind = job[w].row.kind
         /\ NewOrder(w).payment = job[w].row.payment
         /\ NewOrder(w).count = job[w].row.count
<1> DEFINE row == [job[w].row EXCEPT !.number = [day |-> DayOf[now],
                                                 seq |-> job[w].seq + 1]]
<1>1. job[w].row \in Row
  BY DEF TypeOK, Job
<1>2. /\ row.session = job[w].row.session /\ row.kind = job[w].row.kind
      /\ row.payment = job[w].row.payment
      /\ row.count = job[w].row.count
  BY <1>1 DEF Row
<1>3. \A x \in {Created(row), Confirmed(Created(row))} :
        /\ x.session = row.session /\ x.kind = row.kind
        /\ x.payment = row.payment /\ x.count = row.count
  BY <1>1 DEF Row, Created, Confirmed
<1>4. Created(row).state = "created" /\ Confirmed(Created(row)).state = "confirmed"
  BY <1>1 DEF Row, Created, Confirmed
<1>5. NewOrder(w) = IF job[w].handler = "create" THEN Confirmed(Created(row))
                    ELSE Created(row)
  BY <1>4 DEF NewOrder, CanConfirm
<1> HIDE DEF row
<1> QED
  BY <1>2, <1>3, <1>4, <1>5

LEMMA InsertingShape ==
  ASSUME TypeOK, NEW w \in Workers, InsertOrder(w)
  PROVE  \E j \in Job : /\ job' = [job EXCEPT ![w] = j]
                        /\ \/ Ending(w, j)
                           \/ \E o \in Orders : \E row \in Row : Inserting(w, j, o, row)
<1>1. PICK o \in Orders :
        /\ ~Exists(o)
        /\ IF Store = "postgres" /\ NumberTaken(NewOrder(w).number)
           THEN Answer(w) /\ UNCHANGED orders
           ELSE /\ orders' = [orders EXCEPT ![o] = NewOrder(w)]
                /\ job' = [job EXCEPT ![w] =
                             [Idle EXCEPT !.pc = "auditing", !.id = o,
                                          !.handler = job[w].handler]]
  BY DEF InsertOrder
<1>2. job[w].pc = "inserting" /\ UNCHANGED <<booked, audited>>
  BY DEF InsertOrder
<1>3. CASE Store = "postgres" /\ Answer(w) /\ UNCHANGED orders
  <2>1. Idle \in Job /\ job' = [job EXCEPT ![w] = Idle]
    BY <1>3, IdleType DEF Answer
  <2>2. Ending(w, Idle)
    BY <1>2, <1>3 DEF Ending
  <2> QED
    BY <2>1, <2>2
<1>4. CASE orders' = [orders EXCEPT ![o] = NewOrder(w)]
           /\ job' = [job EXCEPT ![w] = [Idle EXCEPT !.pc = "auditing", !.id = o,
                                                     !.handler = job[w].handler]]
  <2> DEFINE j == [Idle EXCEPT !.pc = "auditing", !.id = o, !.handler = job[w].handler]
  <2>1. j.pc = "auditing" /\ j.id = o /\ j.handler = job[w].handler
    BY DEF Idle
  <2>2. job' = [job EXCEPT ![w] = j]
    BY <1>4
  <2>3. TypeOK'
    BY InsertOrderType
  <2> HIDE DEF j
  <2>4. j \in Job
    BY <2>2, <2>3 DEF TypeOK
  <2>5. NewOrder(w) \in Row
    BY NewOrderType
  <2>6. Inserting(w, j, o, NewOrder(w))
    BY <1>1, <1>2, <1>4, <2>1, NewOrderFields DEF Inserting
  <2> QED
    BY <2>2, <2>4, <2>5, <2>6
<1> QED
  BY <1>1, <1>3, <1>4

LEMMA LoadingShape ==
  ASSUME TypeOK, NEW w \in Workers, NEW h \in Handlers, NEW o \in Orders,
         Load(w, h, o)
  PROVE  \E j \in Job : job' = [job EXCEPT ![w] = j] /\ Loading(w, j)
<1> DEFINE j == [Idle EXCEPT !.pc = "loaded", !.id = o, !.handler = h,
                             !.row = orders[o]]
<1>1. /\ j.pc = "loaded" /\ j.id = o /\ j.handler = h
      /\ j.row = orders[o]
  BY DEF Idle
<1>2. job' = [job EXCEPT ![w] = j]
  BY DEF Load
<1>3. TypeOK'
  BY LoadType
<1> HIDE DEF j
<1>4. j \in Job
  BY <1>2, <1>3 DEF TypeOK
<1>5. Loading(w, j)
  BY <1>1 DEF Loading, Load, Begin
<1> QED
  BY <1>2, <1>4, <1>5

\* A row that the handler accepts to make of its copy is what it will store.
LEMMA ProceedShape ==
  ASSUME TypeOK, NEW w \in Workers, NEW row, Proceed(w, row),
         job[w].pc = "loaded", Accepted(job[w].handler, job[w].row, row), TypeOK'
  PROVE  \E j \in Job : job' = [job EXCEPT ![w] = j] /\ Deciding(w, j)
<1> DEFINE j == [job[w] EXCEPT !.pc = "storing", !.row = row]
<1>1. /\ j.pc = "storing" /\ j.row = row
      /\ j.handler = job[w].handler /\ j.id = job[w].id
  BY DEF TypeOK, Job
<1>2. job' = [job EXCEPT ![w] = j]
  BY DEF Proceed, TypeOK
<1> HIDE DEF j
<1>3. j \in Job
  BY <1>2 DEF TypeOK
<1>4. Deciding(w, j)
  BY <1>1 DEF Deciding, Proceed
<1> QED
  BY <1>2, <1>3, <1>4

LEMMA DecidingShape ==
  ASSUME TypeOK, NEW w \in Workers,
         \/ DecideReschedule(w) \/ DecideCancel(w) \/ DecideComplete(w)
         \/ DecideRequestRefund(w) \/ DecideApproveRefund(w)
         \/ DecideRollback(w) \/ DecideAssign(w)
  PROVE  \E j \in Job : job' = [job EXCEPT ![w] = j] /\ Deciding(w, j)
<1> DEFINE row == job[w].row
           h == job[w].handler
<1>1. row \in Row
  BY DEF TypeOK, Job
<1>2. job[w].pc = "loaded"
  BY DEF DecideReschedule, DecideCancel, DecideComplete, DecideRequestRefund,
         DecideApproveRefund, DecideRollback, DecideAssign, At
<1>3. TypeOK'
  BY DecideType
<1> SUFFICES \E new : Proceed(w, new) /\ Accepted(h, row, new)
  BY <1>2, <1>3, ProceedShape
<1>4. ASSUME NEW s
      PROVE  LET new == [row EXCEPT !.state = s]
             IN  /\ new.state = s
                 /\ new.session = row.session /\ new.kind = row.kind
                 /\ new.count = row.count /\ new.payment = row.payment
  BY <1>1 DEF Row
<1>5. CASE DecideReschedule(w)
  <2>1. PICK t \in PickupTimes : Proceed(w, Rescheduled(row, t))
    BY <1>5 DEF DecideReschedule
  <2>2. /\ Rescheduled(row, t).state = "rescheduled"
        /\ Rescheduled(row, t).count = row.count + 1
        /\ Rescheduled(row, t).payment = row.payment
        /\ Rescheduled(row, t).session = row.session
        /\ Rescheduled(row, t).kind = row.kind
    BY <1>1 DEF Row, Rescheduled
  <2>3. Accepted(h, row, Rescheduled(row, t))
    BY <1>5, <2>2 DEF Accepted, DecideReschedule, At
  <2> QED
    BY <2>1, <2>3
<1>6. CASE DecideCancel(w)
  <2>1. \E s \in {"pending_approval", "cancelled"} :
          Proceed(w, [row EXCEPT !.state = s])
    BY <1>6 DEF DecideCancel, Cancelled
  <2>2. h = "cancel" /\ CanCancel(row)
    BY <1>6 DEF DecideCancel, At
  <2> HIDE DEF row, h
  <2>3. \A s \in {"pending_approval", "cancelled"} :
          Accepted(h, row, [row EXCEPT !.state = s])
    BY <1>4, <2>2 DEF Accepted
  <2> QED
    BY <2>1, <2>3
<1>7. CASE DecideComplete(w)
  <2>1. /\ Completed(row, now).state = "completed"
        /\ Completed(row, now).count = row.count
        /\ Completed(row, now).payment = row.payment
        /\ Completed(row, now).session = row.session
        /\ Completed(row, now).kind = row.kind
    BY <1>1 DEF Row, Completed
  <2>2. Accepted(h, row, Completed(row, now))
    BY <1>7, <2>1 DEF Accepted, DecideComplete
  <2> QED
    BY <1>7, <2>2 DEF DecideComplete
<1>8. CASE DecideRequestRefund(w)
  <2>1. /\ RefundRequested(row).state = "refund_review"
        /\ RefundRequested(row).count = row.count
        /\ RefundRequested(row).payment = "refund_pending"
        /\ RefundRequested(row).session = row.session
        /\ RefundRequested(row).kind = row.kind
    BY <1>1 DEF Row, RefundRequested
  <2>2. Accepted(h, row, RefundRequested(row))
    BY <1>8, <2>1 DEF Accepted, DecideRequestRefund, CanRequestRefund, At
  <2> QED
    BY <1>8, <2>2 DEF DecideRequestRefund
<1>9. CASE DecideApproveRefund(w)
  <2>1. /\ RefundApproved(row).state = "refunded"
        /\ RefundApproved(row).count = row.count
        /\ RefundApproved(row).payment = "refunded"
        /\ RefundApproved(row).session = row.session
        /\ RefundApproved(row).kind = row.kind
    BY <1>1 DEF Row, RefundApproved
  <2>2. Accepted(h, row, RefundApproved(row))
    BY <1>9, <2>1 DEF Accepted, DecideApproveRefund, At
  <2> QED
    BY <1>9, <2>2 DEF DecideApproveRefund
<1>10. CASE DecideRollback(w)
  <2>1. h = "rollback" /\ CanRollback(row) /\ Proceed(w, [row EXCEPT !.state = "rolled_back"])
    BY <1>10 DEF DecideRollback, RolledBack, At
  <2>2. Accepted(h, row, [row EXCEPT !.state = "rolled_back"])
    BY <1>4, <2>1 DEF Accepted
  <2> QED
    BY <2>1, <2>2
<1>11. CASE DecideAssign(w)
  <2>1. h = "assign" /\ Proceed(w, [row EXCEPT !.state = "in_progress"])
    BY <1>11 DEF DecideAssign, At
  <2>2. Accepted(h, row, [row EXCEPT !.state = "in_progress"])
    BY <1>4, <2>1 DEF Accepted
  <2> QED
    BY <2>1, <2>2
<1> QED
  BY <1>5, <1>6, <1>7, <1>8, <1>9, <1>10, <1>11

LEMMA StoringShape ==
  ASSUME TypeOK, NEW w \in Workers, StoreOrder(w)
  PROVE  \E j \in Job : job' = [job EXCEPT ![w] = j] /\ Storing(w, j)
<1> DEFINE row == [NoRow EXCEPT !.session = job[w].row.session]
           j == IF job[w].row.state = "pending_approval" THEN Idle
                ELSE [job[w] EXCEPT !.pc = AfterStore(job[w].handler), !.row = row]
<1>1. job' = [job EXCEPT ![w] = j]
  BY DEF StoreOrder, Answer, TypeOK
<1>2. row.session = job[w].row.session
  BY DEF NoRow
<1> HIDE DEF row
<1>3. IF job[w].row.state = "pending_approval" THEN j = Idle
      ELSE /\ j.pc = AfterStore(job[w].handler)
           /\ j.id = job[w].id /\ j.handler = job[w].handler
           /\ j.row = row
  BY DEF TypeOK, Job
<1>4. TypeOK'
  BY StoreOrderType
<1> HIDE DEF j
<1>5. j \in Job
  BY <1>1, <1>4 DEF TypeOK
<1>6. Storing(w, j)
  BY <1>2, <1>3 DEF Storing, StoreOrder
<1> QED
  BY <1>1, <1>5, <1>6

LEMMA ReleasingShape ==
  ASSUME TypeOK, NEW w \in Workers, ReleaseSeat(w)
  PROVE  \E j \in Job : job' = [job EXCEPT ![w] = j] /\ Releasing(w, j)
<1> DEFINE j == [job[w] EXCEPT !.pc = "auditing"]
<1>1. job' = [job EXCEPT ![w] = j]
  BY DEF ReleaseSeat, Goto, TypeOK
<1>2. j.pc = "auditing" /\ j.id = job[w].id /\ j.handler = job[w].handler
  BY DEF TypeOK, Job
<1>3. TypeOK'
  BY ReleaseSeatType
<1> HIDE DEF j
<1>4. j \in Job
  BY <1>1, <1>3 DEF TypeOK
<1>5. Releasing(w, j)
  BY <1>2 DEF Releasing, ReleaseSeat
<1> QED
  BY <1>1, <1>4, <1>5

\* Every step is one of these shapes, or changes nothing that matters here.
LEMMA StepShape ==
  ASSUME TypeOK, [Next]_vars
  PROVE  \/ Quiet
         \/ \E w \in Workers : \E j \in Job : job' = [job EXCEPT ![w] = j] /\ Does(w, j)
<1>1. CASE UNCHANGED vars \/ Tick \/ Rest
  BY <1>1 DEF Quiet, vars, Tick, Rest
<1>2. ASSUME NEW w \in Workers,
             \/ \E s \in Sessions : Reserve(w, s)
             \/ \E t \in PickupTimes : StartDelivery(w, t)
      PROVE  \E j \in Job : job' = [job EXCEPT ![w] = j] /\ Does(w, j)
  BY <1>2, OrderingShape DEF Does
<1>3. ASSUME NEW w \in Workers, NEW h \in Handlers, NEW o \in Orders, Load(w, h, o)
      PROVE  \E j \in Job : job' = [job EXCEPT ![w] = j] /\ Does(w, j)
  BY <1>3, LoadingShape DEF Does
<1>4. ASSUME NEW w \in Workers, Serve(w)
      PROVE  \E j \in Job : job' = [job EXCEPT ![w] = j] /\ Does(w, j)
  <2>1. CASE CountOrders(w)
    BY <2>1, NumberingShape DEF Does
  <2>2. CASE InsertOrder(w)
    BY <2>2, InsertingShape DEF Does
  <2>3. CASE \/ DecideReschedule(w) \/ DecideCancel(w) \/ DecideComplete(w)
             \/ DecideRequestRefund(w) \/ DecideApproveRefund(w)
             \/ DecideRollback(w) \/ DecideAssign(w)
    BY <2>3, DecidingShape DEF Does
  <2>4. CASE StoreOrder(w)
    BY <2>4, StoringShape DEF Does
  <2>5. CASE ReleaseSeat(w)
    BY <2>5, ReleasingShape DEF Does
  <2>6. CASE Refuse(w) \/ Abort(w)
    <3>1. Idle \in Job /\ job' = [job EXCEPT ![w] = Idle] /\ Ending(w, Idle)
      BY <2>6, IdleType DEF Refuse, Abort, Answer, Ending
    <3> QED
      BY <3>1 DEF Does
  <2>7. CASE AppendAudit(w)
    <3>1. Idle \in Job /\ job' = [job EXCEPT ![w] = Idle] /\ Auditing(w, Idle)
      BY <2>7, IdleType DEF AppendAudit, Answer, Auditing
    <3> QED
      BY <3>1 DEF Does
  <2> QED
    BY <1>4, <2>1, <2>2, <2>3, <2>4, <2>5, <2>6, <2>7 DEF Serve
<1> QED
  BY <1>1, <1>2, <1>3, <1>4 DEF Next

-----------------------------------------------------------------------------
\* What a handler accepts to make of an order is an order that exists.
LEMMA AcceptedExists ==
  ASSUME NEW h, NEW o, NEW row, Accepted(h, o, row)
  PROVE  row.state # "absent"
  BY DEF Accepted

\* With one worker the copy it holds stays current.
LEMMA CopyStep ==
  ASSUME TypeOK, OneAtATime, CurrentCopy, [Next]_vars
  PROVE  CurrentCopy'
<1>1. CASE Quiet
  BY <1>1 DEF Quiet, CurrentCopy, InStep, Exists
<1>2. ASSUME NEW w \in Workers, NEW j \in Job, job' = [job EXCEPT ![w] = j],
             Does(w, j)
      PROVE  CurrentCopy'
  <2>1. \A v \in Workers : job'[v] = j /\ v = w
    BY <1>2 DEF OneAtATime, TypeOK
  <2> DEFINE k == job[w]
  <2>2. InStep(k) /\ k \in Job
    BY DEF CurrentCopy, TypeOK
  <2>3. SUFFICES /\ \A o \in Orders : ~Exists(o)' => orders'[o] = NoRow
                 /\ InStep(j)'
    BY <2>1 DEF CurrentCopy
  <2>4. CASE /\ UNCHANGED orders
             /\ \/ Ordering(w, j) \/ Numbering(w, j) \/ Loading(w, j)
                \/ Ending(w, j) \/ Auditing(w, j)
                \/ Deciding(w, j) \/ Releasing(w, j)
    <3>1. \A o \in Orders : ~Exists(o)' => orders'[o] = NoRow
      BY <2>4 DEF CurrentCopy, Exists
    <3>2. InStep(j)' <=> InStep(j)
      BY <2>4 DEF InStep, Exists
    <3>3. CASE Ordering(w, j) \/ Numbering(w, j) \/ Loading(w, j)
      BY <2>2, <3>1, <3>2, <3>3 DEF InStep, Ordering, Numbering, Loading
    <3>4. CASE Ending(w, j) \/ Auditing(w, j)
      BY <3>1, <3>2, <3>4 DEF InStep, Ending, Auditing, Idle
    <3>5. CASE Deciding(w, j)
      BY <2>2, <3>1, <3>2, <3>5 DEF InStep, Deciding
    <3>6. CASE Releasing(w, j)
      BY <2>2, <3>1, <3>2, <3>6 DEF InStep, Releasing
    <3> QED
      BY <2>4, <3>3, <3>4, <3>5, <3>6
  <2>5. ASSUME NEW o \in Orders, NEW row \in Row, Inserting(w, j, o, row)
        PROVE  (\A p \in Orders : ~Exists(p)' => orders'[p] = NoRow) /\ InStep(j)'
    <3>1. \A p \in Orders : orders'[p] = IF p = o THEN row ELSE orders[p]
      BY <2>5 DEF Inserting, TypeOK
    <3>2. row.state # "absent"
      BY <2>5 DEF Inserting
    <3>3. \A p \in Orders : ~Exists(p)' => orders'[p] = NoRow
      BY <3>1, <3>2 DEF CurrentCopy, Exists
    <3>4. InStep(j)'
      BY <2>2, <2>5 DEF InStep, Inserting
    <3> QED
      BY <3>3, <3>4
  <2>6. CASE Storing(w, j)
    <3>1. \A p \in Orders : orders'[p] = IF p = k.id THEN k.row ELSE orders[p]
      BY <2>6 DEF Storing, TypeOK
    <3>2. k.row.state # "absent"
      BY <2>2, <2>6, AcceptedExists DEF InStep, Storing
    <3>3. \A p \in Orders : ~Exists(p)' => orders'[p] = NoRow
      BY <3>1, <3>2 DEF CurrentCopy, Exists
    <3>4. InStep(j)'
      BY <2>2, <2>6 DEF InStep, Storing, AfterStore, Idle
    <3> QED
      BY <3>3, <3>4
  <2> QED
    BY <1>2, <2>4, <2>5, <2>6
       DEF Does, Ordering, Numbering, Ending, Loading, Deciding, Releasing, Auditing
<1> QED
  BY <1>1, <1>2, StepShape

LEMMA CopyInit == Init => CurrentCopy
  BY DEF Init, CurrentCopy, InStep, Idle

\* With one request in flight its copy of the row is the stored row until it
\* writes it back: nothing a handler decides on has changed under it.
THEOREM CopyCurrent == OneAtATime /\ Spec => []CurrentCopy
<1> SUFFICES ASSUME OneAtATime
             PROVE  Spec => []CurrentCopy
  OBVIOUS
<1>1. TypeOK /\ CurrentCopy /\ [Next]_vars => CurrentCopy'
  BY CopyStep
<1> QED
  BY <1>1, CopyInit, InitType, TypeStep, PTL DEF Spec

-----------------------------------------------------------------------------
\* What a step makes of one order.
LEMMA OrderStep ==
  ASSUME TypeOK, OneAtATime, CurrentCopy, [Next]_vars, NEW o \in Orders
  PROVE  \/ orders'[o] = orders[o]
         \/ /\ ~Exists(o)
            /\ orders'[o].state \in {"created", "confirmed"}
         \/ \E h \in Traffic : Accepted(h, orders[o], orders'[o])
<1>1. CASE Quiet
  BY <1>1 DEF Quiet
<1>2. ASSUME NEW w \in Workers, NEW j \in Job, job' = [job EXCEPT ![w] = j],
             Does(w, j), orders'[o] # orders[o]
      PROVE  \/ /\ ~Exists(o)
                /\ orders'[o].state \in {"created", "confirmed"}
             \/ \E h \in Traffic : Accepted(h, orders[o], orders'[o])
  <2>1. ASSUME NEW p \in Orders, NEW row \in Row, Inserting(w, j, p, row)
        PROVE  ~Exists(o) /\ orders'[o].state \in {"created", "confirmed"}
    <3>1. p = o /\ orders'[o] = row
      BY <1>2, <2>1 DEF Inserting, TypeOK
    <3> QED
      BY <2>1, <3>1 DEF Inserting
  <2>2. CASE Storing(w, j)
    <3>1. job[w].id = o /\ orders'[o] = job[w].row
      BY <1>2, <2>2 DEF Storing, TypeOK
    <3>2. job[w].pc = "storing" /\ InStep(job[w])
      BY <2>2 DEF Storing, CurrentCopy
    <3> QED
      BY <3>1, <3>2 DEF InStep
  <2> QED
    BY <1>2, <2>1, <2>2
       DEF Does, Ordering, Numbering, Ending, Loading, Deciding, Releasing, Auditing
<1> QED
  BY <1>1, <1>2, StepShape

\* An order is completed only from a state the machine completes, as the table
\* has it at that moment (CompleteBooking, CompleteDelivery).
THEOREM CompletionsFromActive == OneAtATime /\ Spec => CompletedFromActive
<1> SUFFICES ASSUME OneAtATime
             PROVE  Spec => CompletedFromActive
  OBVIOUS
<1>1. TypeOK /\ CurrentCopy /\ [Next]_vars =>
        [\A o \in Orders :
           orders'[o].state = "completed" /\ orders[o].state # "completed" =>
             orders[o].state \in {"confirmed", "rescheduled", "in_progress"}]_vars
  <2> SUFFICES ASSUME TypeOK, CurrentCopy, [Next]_vars, NEW o \in Orders,
                      orders'[o].state = "completed", orders[o].state # "completed"
               PROVE  orders[o].state \in {"confirmed", "rescheduled", "in_progress"}
    OBVIOUS
  <2>1. PICK h \in Traffic : Accepted(h, orders[o], orders'[o])
    BY OrderStep
  <2> QED
    BY <2>1 DEF Accepted, CanComplete
<1>2. TypeOK /\ CurrentCopy /\ [Next]_vars => (TypeOK /\ CurrentCopy)'
  BY TypeStep, CopyStep
<1> QED
  BY <1>1, <1>2, CopyInit, InitType, PTL DEF Spec, CompletedFromActive

\* No request takes an order out of "refunded" or "cancelled", unless an admin
\* assigns it to a courier or rolls it back.
THEOREM SettledOrdersStay ==
  OneAtATime /\ "assign" \notin Traffic /\ Spec => SettledStays
<1> SUFFICES ASSUME OneAtATime, "assign" \notin Traffic
             PROVE  Spec => SettledStays
  OBVIOUS
<1>1. TypeOK /\ CurrentCopy /\ [Next]_vars =>
        [\A o \in Orders :
           orders[o].state \in {"refunded", "cancelled"} =>
             orders'[o].state \in {orders[o].state, "rolled_back"}]_vars
  <2> SUFFICES ASSUME TypeOK, CurrentCopy, [Next]_vars, NEW o \in Orders,
                      orders[o].state \in {"refunded", "cancelled"},
                      orders'[o].state # orders[o].state
               PROVE  orders'[o].state = "rolled_back"
    OBVIOUS
  <2>1. PICK h \in Traffic : Accepted(h, orders[o], orders'[o])
    BY OrderStep DEF Exists
  <2> QED
    BY <2>1 DEF Accepted, CanReschedule, CanCancel, CanComplete, CanApproveRefund
<1>2. TypeOK /\ CurrentCopy /\ [Next]_vars => (TypeOK /\ CurrentCopy)'
  BY TypeStep, CopyStep
<1> QED
  BY <1>1, <1>2, CopyInit, InitType, PTL DEF Spec, SettledStays

-----------------------------------------------------------------------------
\* The worker's share of the entries still to be written.
LEMMA UnauditedIs ==
  ASSUME OneAtATime, NEW w \in Workers, NEW o \in Orders
  PROVE  Unaudited(o) = IF AboutToAudit(w, o, "reschedule") THEN 1 ELSE 0
  BY DEF OneAtATime, Unaudited

\* An order's own counter counts at least the reschedules in the audit log.
LEMMA CountedStep ==
  ASSUME TypeOK, OneAtATime, CurrentCopy, Counted, [Next]_vars
  PROVE  Counted'
<1>1. CASE Quiet
  BY <1>1 DEF Quiet, Counted, Unaudited, AboutToAudit
<1>2. ASSUME NEW w \in Workers, NEW j \in Job, job' = [job EXCEPT ![w] = j],
             Does(w, j)
      PROVE  Counted'
  <2> DEFINE k == job[w]
  <2>1. \A o \in Orders :
          /\ audited[o]["reschedule"] \in Nat /\ orders[o].count \in Nat
          /\ audited[o]["reschedule"] + Unaudited(o) <= orders[o].count
          /\ Unaudited(o) \in {0, 1}
    BY DEF TypeOK, Row, Counted, Unaudited, Handlers
  <2>2. \A o \in Orders :
          Unaudited(o) = IF k.id = o /\ k.handler = "reschedule"
                              /\ k.pc \in {"releasing", "auditing"} THEN 1 ELSE 0
    BY UnauditedIs DEF AboutToAudit
  <2>3. \A o \in Orders :
          Unaudited(o)' = IF j.id = o /\ j.handler = "reschedule"
                               /\ j.pc \in {"releasing", "auditing"} THEN 1 ELSE 0
    <3>1. job'[w] = j
      BY <1>2 DEF TypeOK
    <3>2. \A o \in Orders : Unaudited(o)' = IF AboutToAudit(w, o, "reschedule")' THEN 1 ELSE 0
      BY DEF OneAtATime, Unaudited
    <3> QED
      BY <3>1, <3>2 DEF AboutToAudit
  <2>4. InStep(k)
    BY DEF CurrentCopy
  <2>5. CASE \/ Ordering(w, j) \/ Numbering(w, j) \/ Ending(w, j)
             \/ Loading(w, j) \/ Deciding(w, j) \/ Releasing(w, j)
    <3>1. UNCHANGED <<orders, audited>>
      BY <2>5 DEF Ordering, Numbering, Ending, Loading, Deciding, Releasing
    <3>2. \A o \in Orders : Unaudited(o)' <= Unaudited(o)
      BY <2>2, <2>3, <2>5
         DEF Ordering, Numbering, Ending, Loading, Deciding, Releasing, Idle
    <3>3. \A o \in Orders : Unaudited(o)' \in {0, 1}
      BY <2>3
    <3> QED
      BY <2>1, <3>1, <3>2, <3>3 DEF Counted
  <2>6. ASSUME NEW o \in Orders, NEW row \in Row, Inserting(w, j, o, row)
        PROVE  Counted'
    <3>1. \A p \in Orders : orders'[p] = IF p = o THEN row ELSE orders[p]
      BY <2>6 DEF Inserting, TypeOK
    <3>2. audited' = audited
      BY <2>6 DEF Inserting
    <3>3. row.count = 0
      BY <2>4, <2>6 DEF Inserting, InStep
    <3>4. orders[o].count = 0
      BY <2>6 DEF Inserting, CurrentCopy, NoRow
    <3>5. j.handler # "reschedule"
      BY <2>4, <2>6 DEF Inserting, InStep
    <3>6. \A p \in Orders : Unaudited(p)' = 0
      BY <2>3, <3>5
    <3> QED
      BY <2>1, <3>1, <3>2, <3>3, <3>4, <3>6 DEF Counted
  <2>7. CASE Storing(w, j)
    <3>1. \A p \in Orders : orders'[p] = IF p = k.id THEN k.row ELSE orders[p]
      BY <2>7 DEF Storing, TypeOK
    <3>2. audited' = audited /\ k.pc = "storing"
      BY <2>7 DEF Storing
    <3>3. Accepted(k.handler, orders[k.id], k.row) /\ k.id \in Orders
      BY <2>4, <3>2 DEF InStep
    <3>4. k.row.count = IF k.handler = "reschedule" THEN orders[k.id].count + 1
                        ELSE orders[k.id].count
      BY <3>3 DEF Accepted
    <3>5. \A p \in Orders : Unaudited(p)' <= IF p = k.id /\ k.handler = "reschedule"
                                             THEN 1 ELSE 0
      BY <2>3, <2>7 DEF Storing, Idle
    <3>6. \A p \in Orders : Unaudited(p)' \in {0, 1}
      BY <2>3
    <3>7. \A p \in Orders : audited[p]["reschedule"] <= orders[p].count
      BY <2>1
    <3> HIDE DEF k
    <3>8. ASSUME NEW p \in Orders
          PROVE  audited[p]["reschedule"] + Unaudited(p)' <= orders'[p].count
      <4>1. CASE p = k.id
        BY <2>1, <3>1, <3>4, <3>5, <3>6, <3>7, <4>1
      <4>2. CASE p # k.id
        BY <2>1, <3>1, <3>5, <3>6, <3>7, <4>2
      <4> QED
        BY <4>1, <4>2
    <3> QED
      BY <3>2, <3>8 DEF Counted
  <2>8. CASE Auditing(w, j)
    <3>1. orders' = orders /\ k.pc = "auditing" /\ j = Idle
      BY <2>8 DEF Auditing
    <3>2. \A p \in Orders :
            audited'[p]["reschedule"] = IF p = k.id /\ k.handler = "reschedule"
                                        THEN audited[p]["reschedule"] + 1
                                        ELSE audited[p]["reschedule"]
      BY <2>8 DEF Auditing, TypeOK, Handlers
    <3>3. \A p \in Orders : Unaudited(p)' = 0
      BY <2>3, <3>1 DEF Idle
    <3> HIDE DEF k
    <3>4. ASSUME NEW p \in Orders
          PROVE  audited'[p]["reschedule"] <= orders[p].count
      BY <2>1, <2>2, <3>1, <3>2
    <3>5. \A p \in Orders : audited'[p]["reschedule"] \in Nat
      BY <2>1, <3>2
    <3> QED
      BY <3>1, <3>3, <3>4, <3>5 DEF Counted
  <2> QED
    BY <1>2, <2>5, <2>6, <2>7, <2>8 DEF Does
<1> QED
  BY <1>1, <1>2, StepShape

LEMMA CountedInit == Init => Counted
<1> SUFFICES ASSUME Init, NEW o \in Orders
             PROVE  audited[o]["reschedule"] + Unaudited(o) <= orders[o].count
  BY DEF Counted
<1>1. audited[o]["reschedule"] = 0 /\ orders[o].count = 0
  BY DEF Init, Handlers, NoRow
<1>2. Unaudited(o) = 0
  BY DEF Init, Unaudited, AboutToAudit, Idle
<1> QED
  BY <1>1, <1>2

\* The audit log never shows more accepted reschedules of an order than the
\* cap, when no request is served between another's read and its write.
THEOREM ReschedulesAccepted == OneAtATime /\ Spec => []AcceptedReschedules
<1> SUFFICES ASSUME OneAtATime
             PROVE  Spec => []AcceptedReschedules
  OBVIOUS
<1> DEFINE IInv == TypeOK /\ CurrentCopy /\ Counted
<1>1. Init => IInv
  BY InitType, CopyInit, CountedInit
<1>2. IInv /\ [Next]_vars => IInv'
  BY TypeStep, CopyStep, CountedStep
<1>3. IInv /\ RescheduleCap => AcceptedReschedules
  <2> SUFFICES ASSUME IInv, RescheduleCap, NEW o \in Orders
               PROVE  audited[o]["reschedule"] <= MaxReschedules
    BY DEF AcceptedReschedules
  <2>1. audited[o]["reschedule"] \in Nat /\ orders[o].count \in Nat
    BY DEF TypeOK, Row, Handlers
  <2>2. audited[o]["reschedule"] + Unaudited(o) <= orders[o].count
    BY DEF Counted
  <2>3. Unaudited(o) \in {0, 1}
    BY DEF Unaudited
  <2>4. orders[o].count <= MaxReschedules
    BY DEF RescheduleCap
  <2> QED
    BY <2>1, <2>2, <2>3, <2>4, MachineAssumption
<1> QED
  BY <1>1, <1>2, <1>3, ReschedulesCapped, PTL DEF Spec

-----------------------------------------------------------------------------
(* Seats.  Slack(s) is how far the counter of s is ahead of the seats in   *)
(* use.  Whatever overlaps, only a store over a cancelled booking lets it  *)
(* shrink, by one; and in the Memory store nothing else changes it.        *)

Slack(s) == booked[s] - Cardinality(SeatHolders(s)) - Cardinality(InFlight(s))

\* Worker w is counted among the requests in flight.
Flying(j, s) ==
  j.row.session = s /\ j.pc \in {"counting", "inserting", "releasing"}

One(b) == IF b THEN 1 ELSE 0

LEMMA HoldersFinite ==
  ASSUME NEW s
  PROVE  /\ IsFiniteSet(SeatHolders(s)) /\ Cardinality(SeatHolders(s)) \in Nat
         /\ IsFiniteSet(SeatHolders(s)') /\ Cardinality(SeatHolders(s)') \in Nat
<1>1. SeatHolders(s) \in SUBSET Orders /\ SeatHolders(s)' \in SUBSET Orders
  BY DEF SeatHolders
<1>2. IsFiniteSet(Orders)
  BY ServiceAssumption
<1>3. IsFiniteSet(SeatHolders(s)) /\ IsFiniteSet(SeatHolders(s)')
  BY <1>1, <1>2, FS_Subset
<1> QED
  BY <1>3, FS_CardinalityType

\* With one worker, InFlight has it or is empty.
LEMMA InFlightIs ==
  ASSUME OneAtATime, NEW w \in Workers, NEW s
  PROVE  Cardinality(InFlight(s)) = One(Flying(job[w], s))
<1>1. CASE Flying(job[w], s)
  <2>1. InFlight(s) = {w}
    BY <1>1 DEF InFlight, Flying, OneAtATime
  <2> QED
    BY <1>1, <2>1, FS_Singleton DEF One
<1>2. CASE ~Flying(job[w], s)
  <2>1. InFlight(s) = {}
    BY <1>2 DEF InFlight, Flying, OneAtATime
  <2> QED
    BY <1>2, <2>1, FS_EmptySet DEF One
<1> QED
  BY <1>1, <1>2

LEMMA InFlightFinite ==
  ASSUME NEW s
  PROVE  /\ IsFiniteSet(InFlight(s)) /\ Cardinality(InFlight(s)) \in Nat
         /\ IsFiniteSet(InFlight(s)') /\ Cardinality(InFlight(s)') \in Nat
<1>1. InFlight(s) \in SUBSET Workers /\ InFlight(s)' \in SUBSET Workers
  BY DEF InFlight
<1>2. IsFiniteSet(Workers)
  BY ServiceAssumption
<1>3. IsFiniteSet(InFlight(s)) /\ IsFiniteSet(InFlight(s)')
  BY <1>1, <1>2, FS_Subset
<1> QED
  BY <1>3, FS_CardinalityType

\* How the requests in flight for s change when one worker goes to j.
LEMMA InFlightStep ==
  ASSUME TypeOK, NEW w \in Workers, NEW j, job' = [job EXCEPT ![w] = j], NEW s
  PROVE  Cardinality(InFlight(s)') =
           Cardinality(InFlight(s)) + One(Flying(j, s)) - One(Flying(job[w], s))
<1> DEFINE before == Flying(job[w], s)
           after == Flying(j, s)
<1>1. \A v \in Workers : job'[v] = IF v = w THEN j ELSE job[v]
  BY DEF TypeOK
<1>2. w \in InFlight(s) <=> before
  BY DEF InFlight, Flying
<1>3. w \in InFlight(s)' <=> after
  BY <1>1 DEF InFlight, Flying
<1>4. \A v \in Workers \ {w} : v \in InFlight(s)' <=> v \in InFlight(s)
  BY <1>1 DEF InFlight
<1>5. InFlight(s) \subseteq Workers /\ InFlight(s)' \subseteq Workers
  BY DEF InFlight
<1> HIDE DEF before, after
<1>6. CASE before <=> after
  <2>1. InFlight(s)' = InFlight(s)
    BY <1>2, <1>3, <1>4, <1>5, <1>6
  <2>2. One(after) = One(before) /\ One(after) \in {0, 1}
    BY <1>6 DEF One
  <2> QED
    BY <2>1, <2>2, InFlightFinite DEF before, after
<1>7. CASE before /\ ~after
  <2>1. InFlight(s)' = InFlight(s) \ {w}
    BY <1>2, <1>3, <1>4, <1>5, <1>7
  <2>2. Cardinality(InFlight(s)') = Cardinality(InFlight(s)) - 1
    BY <1>2, <1>7, <2>1, InFlightFinite, FS_RemoveElement
  <2>3. One(after) = 0 /\ One(before) = 1
    BY <1>7 DEF One
  <2> QED
    BY <2>2, <2>3, InFlightFinite DEF before, after
<1>8. CASE ~before /\ after
  <2>1. InFlight(s)' = InFlight(s) \cup {w}
    BY <1>2, <1>3, <1>4, <1>5, <1>8
  <2>2. Cardinality(InFlight(s)') = Cardinality(InFlight(s)) + 1
    BY <1>2, <1>8, <2>1, InFlightFinite, FS_AddElement
  <2>3. One(after) = 1 /\ One(before) = 0
    BY <1>8 DEF One
  <2> QED
    BY <2>2, <2>3, InFlightFinite DEF before, after
<1> QED
  BY <1>6, <1>7, <1>8

\* How the holders of s change when one order of the table does.
LEMMA HoldersStep ==
  ASSUME TypeOK, NEW o \in Orders, NEW row, orders' = [orders EXCEPT ![o] = row],
         NEW s
  PROVE  LET before == orders[o].session = s /\ orders[o].state \notin {"absent", "cancelled"}
             after == row.session = s /\ row.state \notin {"absent", "cancelled"}
         IN  Cardinality(SeatHolders(s)') =
               Cardinality(SeatHolders(s)) + One(after) - One(before)
<1> DEFINE before == orders[o].session = s /\ orders[o].state \notin {"absent", "cancelled"}
           after == row.session = s /\ row.state \notin {"absent", "cancelled"}
<1>1. \A p \in Orders : orders'[p] = IF p = o THEN row ELSE orders[p]
  BY DEF TypeOK
<1>2. o \in SeatHolders(s) <=> before
  BY DEF SeatHolders, Exists
<1>3. o \in SeatHolders(s)' <=> after
  BY <1>1 DEF SeatHolders, Exists
<1>4. \A p \in Orders \ {o} : p \in SeatHolders(s)' <=> p \in SeatHolders(s)
  BY <1>1 DEF SeatHolders, Exists
<1>5. SeatHolders(s) \subseteq Orders /\ SeatHolders(s)' \subseteq Orders
  BY DEF SeatHolders
<1> HIDE DEF before, after
<1>6. CASE before <=> after
  <2>1. SeatHolders(s)' = SeatHolders(s)
    BY <1>2, <1>3, <1>4, <1>5, <1>6
  <2>2. One(after) = One(before) /\ One(after) \in {0, 1}
    BY <1>6 DEF One
  <2> QED
    BY <2>1, <2>2, HoldersFinite DEF before, after
<1>7. CASE before /\ ~after
  <2>1. SeatHolders(s)' = SeatHolders(s) \ {o}
    BY <1>2, <1>3, <1>4, <1>5, <1>7
  <2>2. Cardinality(SeatHolders(s)') = Cardinality(SeatHolders(s)) - 1
    BY <1>2, <1>7, <2>1, HoldersFinite, FS_RemoveElement
  <2>3. One(after) = 0 /\ One(before) = 1
    BY <1>7 DEF One
  <2> QED
    BY <2>2, <2>3, HoldersFinite DEF before, after
<1>8. CASE ~before /\ after
  <2>1. SeatHolders(s)' = SeatHolders(s) \cup {o}
    BY <1>2, <1>3, <1>4, <1>5, <1>8
  <2>2. Cardinality(SeatHolders(s)') = Cardinality(SeatHolders(s)) + 1
    BY <1>2, <1>8, <2>1, HoldersFinite, FS_AddElement
  <2>3. One(after) = 1 /\ One(before) = 0
    BY <1>8 DEF One
  <2> QED
    BY <2>2, <2>3, HoldersFinite DEF before, after
<1> QED
  BY <1>6, <1>7, <1>8

LEMMA HoldersSame ==
  ASSUME NEW s, UNCHANGED orders
  PROVE  Cardinality(SeatHolders(s)') = Cardinality(SeatHolders(s))
<1>1. SeatHolders(s)' = SeatHolders(s)
  BY DEF SeatHolders, Exists
<1> QED
  BY <1>1

\* A copy may be out of date, but it is of an order that exists, which has
\* the copy's session for good.
Held(j) ==
  /\ j.pc \in {"loaded", "storing"} =>
       /\ j.id \in Orders /\ Exists(j.id)
       /\ j.row.session = orders[j.id].session /\ j.row.state # "absent"
  /\ j.pc = "storing" =>
       (j.handler = "cancel" <=> j.row.state \in {"cancelled", "pending_approval"})

CopiesHeld == \A w \in Workers : Held(job[w])

LEMMA HeldStep == TypeOK /\ CopiesHeld /\ [Next]_vars => CopiesHeld'
<1> SUFFICES ASSUME TypeOK, CopiesHeld, [Next]_vars
             PROVE  CopiesHeld'
  OBVIOUS
<1>1. CASE Quiet
  BY <1>1 DEF Quiet, CopiesHeld, Held, Exists
<1>2. ASSUME NEW w \in Workers, NEW j \in Job, job' = [job EXCEPT ![w] = j],
             Does(w, j)
      PROVE  CopiesHeld'
  <2> DEFINE k == job[w]
  <2>1. \A v \in Workers : job'[v] = IF v = w THEN j ELSE job[v]
    BY <1>2 DEF TypeOK
  <2>2. Held(k)
    BY DEF CopiesHeld
  <2>3. \A o \in Orders : Exists(o) =>
          Exists(o)' /\ orders'[o].session = orders[o].session
    <3>1. CASE UNCHANGED orders
      BY <3>1 DEF Exists
    <3>2. ASSUME NEW p \in Orders, NEW row \in Row, Inserting(w, j, p, row)
          PROVE  \A o \in Orders : Exists(o) =>
                   Exists(o)' /\ orders'[o].session = orders[o].session
      BY <3>2 DEF Inserting, Exists, TypeOK
    <3>3. CASE Storing(w, j)
      BY <2>2, <3>3 DEF Storing, Held, Exists, TypeOK
    <3> QED
      BY <1>2, <3>1, <3>2, <3>3
         DEF Does, Ordering, Numbering, Ending, Loading, Deciding, Releasing, Auditing
  <2>4. \A v \in Workers : v # w => Held(job[v])'
    BY <2>1, <2>3 DEF CopiesHeld, Held
  <2>5. Held(j)'
    <3>1. CASE j.pc \notin {"loaded", "storing"}
      BY <3>1 DEF Held
    <3>2. CASE Loading(w, j)
      BY <3>2 DEF Held, Loading, Exists
    <3>3. CASE Deciding(w, j)
      <4>1. /\ j.pc = "storing" /\ j.id = k.id /\ k.pc = "loaded"
            /\ Accepted(j.handler, k.row, j.row) /\ UNCHANGED orders
        BY <3>3 DEF Deciding
      <4>2. /\ j.row.session = k.row.session /\ j.row.state # "absent"
            /\ j.handler = "cancel" <=> j.row.state \in {"cancelled", "pending_approval"}
        BY <4>1 DEF Accepted
      <4> QED
        BY <2>2, <2>3, <4>1, <4>2 DEF Held
    <3> QED
      BY <1>2, <3>1, <3>2, <3>3
         DEF Does, Ordering, Numbering, Inserting, Ending, Storing, AfterStore,
             Releasing, Auditing, Idle
  <2> QED
    BY <2>1, <2>4, <2>5 DEF CopiesHeld
<1> QED
  BY <1>1, <1>2, StepShape

\* In the Memory store a step that writes over a cancelled booking is a store.
LEMMA OverIs ==
  ASSUME TypeOK, NEW w \in Workers, NEW j \in Job, job' = [job EXCEPT ![w] = j],
         Does(w, j), NEW s
  PROVE  /\ Over(s) \in {0, 1}
         /\ StoreOrder(w) /\ orders[job[w].id].session = s
              /\ orders[job[w].id].state = "cancelled" => Over(s) = 1
         /\ ~StoreOrder(w) => Over(s) = 0
         /\ ~(orders[job[w].id].session = s /\ orders[job[w].id].state = "cancelled") =>
              Over(s) = 0
<1>1. \A v \in Workers : v # w => job'[v] = job[v]
  BY DEF TypeOK
<1>2. ASSUME NEW v \in Workers, StoreOrder(v)
      PROVE  v = w
  <2>1. PICK i \in Job : job' = [job EXCEPT ![v] = i] /\ Storing(v, i)
    BY <1>2, StoringShape
  <2>2. job'[v] = i /\ i.pc # "storing" /\ job[v].pc = "storing"
    BY <2>1 DEF Storing, AfterStore, Idle, TypeOK
  <2> QED
    BY <1>1, <2>2
<1>3. Over(s) = 1 <=> WritesOver(w, s)
  <2>1. (\E v \in Workers : WritesOver(v, s)) <=> WritesOver(w, s)
    BY <1>2 DEF WritesOver
  <2> QED
    BY <2>1 DEF Over
<1>4. Over(s) \in {0, 1}
  BY DEF Over
<1> QED
  BY <1>3, <1>4 DEF WritesOver

\* A store that is none changes no seat.
LEMMA OverQuiet ==
  ASSUME TypeOK, Quiet, NEW s
  PROVE  Over(s) = 0
<1>1. ASSUME NEW v \in Workers, StoreOrder(v)
      PROVE  FALSE
  <2>1. PICK i \in Job : job' = [job EXCEPT ![v] = i] /\ Storing(v, i)
    BY <1>1, StoringShape
  <2>2. job'[v] = i /\ i.pc # "storing" /\ job[v].pc = "storing"
    BY <2>1 DEF Storing, AfterStore, Idle, TypeOK
  <2> QED
    BY <2>2 DEF Quiet
<1> QED
  BY <1>1 DEF Over, WritesOver

\* What one worker's step does to the counter, the holders and the flights.
LEMMA SlackMoves ==
  ASSUME TypeOK, CopiesHeld, CapacityRespected, NEW w \in Workers, NEW j \in Job,
         job' = [job EXCEPT ![w] = j], Does(w, j), NEW s \in Sessions,
         booked'[s] \in Int
  PROVE  LET H == Cardinality(SeatHolders(s))
             Hn == Cardinality(SeatHolders(s)')
             G == One(Flying(job[w], s))
             Gn == One(Flying(j, s))
             D == Over(s)
         IN  /\ booked'[s] - Hn - Gn + D >= booked[s] - H - G
             /\ Store = "memory" => booked'[s] - Hn - Gn + D = booked[s] - H - G
<1> DEFINE H == Cardinality(SeatHolders(s))
           Hn == Cardinality(SeatHolders(s)')
           k == job[w]
           G == One(Flying(k, s))
           Gn == One(Flying(j, s))
           D == Over(s)
<1>1. H \in Nat /\ Hn \in Nat
  BY HoldersFinite
<1>2. booked[s] \in Int /\ booked'[s] \in Int
  BY DEF TypeOK
<1>3. G = One(Flying(k, s)) /\ Gn = One(Flying(j, s))
  OBVIOUS
<1>4. Held(k) /\ k \in Job /\ k.row \in Row
  BY DEF CopiesHeld, TypeOK, Job
<1>5. G \in {0, 1} /\ Gn \in {0, 1} /\ D \in {0, 1}
  BY DEF One, Over
<1>6. UNCHANGED orders => Hn = H
  BY HoldersSame
<1>14. k.pc # "storing" => D = 0
  BY OverIs DEF StoreOrder
<1> HIDE DEF H, Hn, G, Gn, D, k
<1>15. SUFFICES /\ booked'[s] - Hn - Gn + D >= booked[s] - H - G
                /\ Store = "memory" => booked'[s] - Hn - Gn + D = booked[s] - H - G
  BY DEF H, Hn, G, Gn, D, k
<1>7. CASE Ordering(w, j)
  <2>1. G = 0 /\ Hn = H /\ D = 0
    BY <1>3, <1>6, <1>7, <1>14 DEF Ordering, Flying, One, k
  <2>2. booked'[s] = booked[s] + Gn
    <3>1. Gn = IF j.row.session = s THEN 1 ELSE 0
      BY <1>3, <1>7 DEF Ordering, Flying, One
    <3>2. CASE j.row.session = s
      BY <1>2, <1>7, <3>1, <3>2, ServiceAssumption DEF Ordering, TypeOK
    <3>3. CASE j.row.session # s
      BY <1>2, <1>7, <3>1, <3>3, ServiceAssumption DEF Ordering, TypeOK
    <3> QED
      BY <3>2, <3>3
  <2> QED
    BY <1>1, <1>2, <1>5, <2>1, <2>2
<1>8. CASE Numbering(w, j)
  <2>1. G = Gn /\ Hn = H /\ booked' = booked /\ D = 0
    BY <1>3, <1>6, <1>8, <1>14 DEF Numbering, Flying, One, k
  <2> QED
    BY <1>1, <1>2, <1>5, <2>1
<1>9. ASSUME NEW o \in Orders, NEW row \in Row, Inserting(w, j, o, row)
      PROVE  Hn = H + G /\ Gn = 0 /\ booked' = booked
  <2>1. Gn = 0 /\ booked' = booked
    BY <1>3, <1>9 DEF Inserting, Flying, One
  <2>2. G = One(row.session = s)
    BY <1>3, <1>9 DEF Inserting, Flying, One, k
  <2>3. row.state \notin {"absent", "cancelled"} /\ orders[o].state = "absent"
    BY <1>9 DEF Inserting, Exists
  <2>4. orders' = [orders EXCEPT ![o] = row]
    BY <1>9 DEF Inserting
  <2>5. Hn = H + One(row.session = s)
    <3>1. Hn = H + One(row.session = s /\ row.state \notin {"absent", "cancelled"})
                 - One(orders[o].session = s
                       /\ orders[o].state \notin {"absent", "cancelled"})
      BY <2>4, HoldersStep DEF H, Hn
    <3> QED
      BY <1>1, <2>3, <3>1 DEF One
  <2> QED
    BY <1>1, <2>1, <2>2, <2>5 DEF One
<1>16. ASSUME NEW o \in Orders, NEW row \in Row, Inserting(w, j, o, row)
       PROVE  /\ booked'[s] - Hn - Gn + D >= booked[s] - H - G
              /\ Store = "memory" => booked'[s] - Hn - Gn + D = booked[s] - H - G
  <2>1. Hn = H + G /\ Gn = 0 /\ booked' = booked
    BY <1>9, <1>16
  <2>2. D = 0
    BY <1>14, <1>16 DEF Inserting, k
  <2> QED
    BY <1>1, <1>2, <1>5, <2>1, <2>2
<1>10. CASE Ending(w, j)
  <2>1. Hn = H /\ Gn = 0 /\ booked' = booked
    BY <1>3, <1>6, <1>10 DEF Ending, Flying, One, Idle
  <2>2. Store = "memory" => G = 0 /\ D = 0
    BY <1>3, <1>10, <1>14 DEF Ending, Flying, One, k
  <2> QED
    BY <1>1, <1>2, <1>5, <2>1, <2>2
<1>11. CASE Loading(w, j) \/ Deciding(w, j) \/ Auditing(w, j)
  <2>1. Hn = H /\ G = 0 /\ Gn = 0 /\ booked' = booked /\ D = 0
    BY <1>3, <1>6, <1>11, <1>14 DEF Loading, Deciding, Auditing, Flying, One, Idle, k
  <2> QED
    BY <1>1, <1>2, <2>1
<1>12. CASE StoreOrder(w) /\ Storing(w, j)
  <2> DEFINE old == orders[k.id]
  <2>1. k.pc = "storing" /\ booked' = booked
    BY <1>12 DEF Storing, k
  <2>2. /\ k.id \in Orders /\ old.state # "absent" /\ k.row.session = old.session
        /\ k.row.state # "absent"
        /\ k.handler = "cancel" <=> k.row.state \in {"cancelled", "pending_approval"}
    BY <1>4, <2>1 DEF Held, Exists
  <2>3. D = One(old.session = s /\ old.state = "cancelled")
    BY <1>12, OverIs DEF One, k, D
  <2>4. G = 0
    BY <1>3, <2>1 DEF Flying, One
  <2>5. Gn = One(k.row.session = s /\ k.row.state = "cancelled")
    <3>1. CASE k.row.state = "pending_approval"
      BY <1>3, <1>12, <3>1 DEF Storing, Flying, One, Idle, k
    <3>2. CASE k.row.state # "pending_approval"
      <4>1. j.pc = AfterStore(k.handler) /\ j.row.session = k.row.session
        BY <1>12, <3>2 DEF Storing, k
      <4> QED
        BY <1>3, <2>2, <3>2, <4>1 DEF Flying, One, AfterStore
    <3> QED
      BY <3>1, <3>2
  <2>6. orders' = [orders EXCEPT ![k.id] = k.row]
    BY <1>12 DEF Storing, k
  <2>7. Hn = H + One(k.row.session = s /\ k.row.state # "cancelled")
               - One(old.session = s /\ old.state # "cancelled")
    <3>1. Hn = H + One(k.row.session = s /\ k.row.state \notin {"absent", "cancelled"})
                 - One(old.session = s /\ old.state \notin {"absent", "cancelled"})
      BY <2>2, <2>6, HoldersStep DEF H, Hn
    <3> QED
      BY <2>2, <3>1 DEF One
  <2> HIDE DEF old
  <2>8. Hn + Gn = H + D
    BY <1>1, <2>2, <2>3, <2>5, <2>7 DEF One
  <2> QED
    BY <1>1, <1>2, <1>5, <2>1, <2>3, <2>4, <2>8 DEF One
<1>13. CASE Releasing(w, j)
  <2>1. Hn = H /\ Gn = 0 /\ D = 0
    BY <1>3, <1>6, <1>13, <1>14 DEF Releasing, Flying, One, k
  <2>2. G = One(k.row.session = s)
    BY <1>3, <1>13 DEF Releasing, Flying, One, k
  <2>3. CASE k.row.session # s
    <3>1. booked'[s] = booked[s]
      BY <1>13, <2>3 DEF Releasing, TypeOK, k
    <3> QED
      BY <1>1, <1>2, <2>1, <2>2, <2>3, <3>1 DEF One
  <2>4. CASE k.row.session = s
    <3>1. CanAdjust(s, -1)
      BY <1>2, ServiceAssumption DEF CanAdjust, CapacityRespected
    <3>2. G = 1
      BY <2>2, <2>4 DEF One
    <3>3. booked'[s] = booked[s] - 1 \/ (Store = "postgres" /\ booked'[s] = booked[s])
      BY <1>13, <2>4, <3>1 DEF Releasing, TypeOK, k
    <3> QED
      BY <1>1, <1>2, <2>1, <3>2, <3>3
  <2> QED
    BY <2>3, <2>4
<1> QED
  BY <1>1, <1>2, <1>5, <1>7, <1>8, <1>16, <1>10, <1>11, <1>12, <1>13 DEF Does

LEMMA SlackStep ==
  ASSUME TypeOK, CopiesHeld, CapacityRespected, [Next]_vars, NEW s \in Sessions
  PROVE  /\ Slack(s) \in Int /\ Slack(s)' \in Int /\ Over(s) \in {0, 1}
         /\ Slack(s)' + Over(s) >= Slack(s)
         /\ Store = "memory" => Slack(s)' + Over(s) = Slack(s)
<1> DEFINE H == Cardinality(SeatHolders(s))
           Hn == Cardinality(SeatHolders(s)')
           F == Cardinality(InFlight(s))
           Fn == Cardinality(InFlight(s)')
           D == Over(s)
<1>1. H \in Nat /\ Hn \in Nat /\ F \in Nat /\ Fn \in Nat
  BY HoldersFinite, InFlightFinite
<1>2. booked[s] \in Int /\ booked'[s] \in Int
  BY TypeStep DEF TypeOK
<1>3. Slack(s) = booked[s] - H - F /\ Slack(s)' = booked'[s] - Hn - Fn
  BY DEF Slack
<1>4. CASE Quiet
  <2>1. InFlight(s)' = InFlight(s)
    BY <1>4 DEF Quiet, InFlight
  <2>2. Hn = H /\ booked' = booked /\ D = 0
    BY <1>4, HoldersSame, OverQuiet DEF Quiet
  <2> HIDE DEF H, Hn, D
  <2>3. Slack(s)' = Slack(s) /\ Slack(s) \in Int
    BY <1>1, <1>2, <1>3, <2>1, <2>2
  <2> QED
    BY <2>2, <2>3 DEF D
<1>5. ASSUME NEW w \in Workers, NEW j \in Job, job' = [job EXCEPT ![w] = j],
             Does(w, j)
      PROVE  /\ Slack(s) \in Int /\ Slack(s)' \in Int /\ D \in {0, 1}
             /\ Slack(s)' + D >= Slack(s)
             /\ Store = "memory" => Slack(s)' + D = Slack(s)
  <2> DEFINE G == One(Flying(job[w], s))
             Gn == One(Flying(j, s))
  <2>1. Fn = F + Gn - G /\ G \in {0, 1} /\ Gn \in {0, 1} /\ D \in {0, 1}
    BY <1>5, InFlightStep DEF One, Over
  <2>2. /\ booked'[s] - Hn - Gn + D >= booked[s] - H - G
        /\ Store = "memory" => booked'[s] - Hn - Gn + D = booked[s] - H - G
    BY <1>2, <1>5, SlackMoves
  <2> HIDE DEF H, Hn, F, Fn, G, Gn, D
  <2>3. PICK b, c \in Int : b = booked[s] /\ c = booked'[s]
    BY <1>2
  <2>4. Slack(s) = b - H - F /\ Slack(s)' = c - Hn - Fn
    BY <1>3, <2>3
  <2>5. Slack(s) \in Int /\ Slack(s)' \in Int
    BY <1>1, <2>4
  <2>6. c - Hn - Fn = c - Hn - Gn + G - F
    BY <1>1, <2>1
  <2>7. c - Hn - Fn + D >= b - H - F
    BY <1>1, <2>1, <2>2, <2>3, <2>6
  <2>8. Store = "memory" => c - Hn - Fn + D = b - H - F
    BY <1>1, <2>1, <2>2, <2>3, <2>6
  <2> QED
    BY <2>1, <2>4, <2>5, <2>7, <2>8
<1> QED
  BY <1>4, <1>5, StepShape

LEMMA SlackInit ==
  ASSUME Init, NEW s \in Sessions
  PROVE  Slack(s) = 0
<1>1. SeatHolders(s) = {}
  BY DEF Init, SeatHolders, Exists, NoRow
<1>2. InFlight(s) = {}
  BY DEF Init, InFlight, Idle
<1>3. booked[s] = 0
  BY DEF Init
<1> QED
  BY <1>1, <1>2, <1>3, FS_EmptySet DEF Slack

\* A statement about Slack(s) is one about the counter.
LEMMA SlackIs ==
  ASSUME TypeOK, NEW s \in Sessions
  PROVE  /\ Cardinality(SeatHolders(s)) \in Nat
         /\ Cardinality(InFlight(s)) \in Nat
         /\ Slack(s) >= 0 <=>
              booked[s] >= Cardinality(SeatHolders(s)) + Cardinality(InFlight(s))
         /\ Slack(s) = 0 <=>
              booked[s] = Cardinality(SeatHolders(s)) + Cardinality(InFlight(s))
<1>1. Cardinality(SeatHolders(s)) \in Nat
  BY HoldersFinite
<1>2. Cardinality(InFlight(s)) \in Nat
  BY InFlightFinite
<1>3. booked[s] \in Int
  BY DEF TypeOK
<1> QED
  BY <1>1, <1>2, <1>3 DEF Slack

\* The counter of every session counts all the seats in use.
Ahead == \A s \in Sessions : Slack(s) >= 0
Even == \A s \in Sessions : Slack(s) = 0

\* What the steps keep, of which the two invariants above are the part to
\* prove: the copy must be current, and the counter within its capacity, for
\* the seat a cancellation returns to be one it may return.
SeatInv == TypeOK /\ CurrentCopy /\ CapacityRespected

LEMMA SeatInvHolds ==
  ASSUME OneAtATime
  PROVE  /\ Init => SeatInv /\ Even /\ Ahead
         /\ SeatInv /\ [Next]_vars => SeatInv'
<1>1. ASSUME Init
      PROVE  SeatInv /\ Even /\ Ahead
  <2>1. CapacityRespected
    BY <1>1, ServiceAssumption DEF Init, CapacityRespected
  <2>2. Even /\ Ahead
    BY <1>1, SlackInit DEF Even, Ahead
  <2> QED
    BY <1>1, <2>1, <2>2, InitType, CopyInit DEF SeatInv
<1>2. SeatInv /\ [Next]_vars => SeatInv'
  BY TypeStep, CopyStep, CapacityStep DEF SeatInv
<1> QED
  BY <1>1, <1>2

\* With one worker nobody cancels an order between a request's read and its
\* write, and clients do not change a cancelled one.
LEMMA NoneOver ==
  ASSUME TypeOK, OneAtATime, ClientTraffic, CurrentCopy, [Next]_vars, NEW s
  PROVE  CopiesHeld /\ Over(s) = 0
<1>1. ASSUME NEW w \in Workers
      PROVE  /\ Held(job[w])
             /\ job[w].pc = "storing" => orders[job[w].id].state # "cancelled"
  <2>1. InStep(job[w])
    BY DEF CurrentCopy
  <2>2. CASE job[w].pc = "storing"
    BY <2>1, <2>2 DEF InStep, Accepted, ClientTraffic, Held, Exists, CanReschedule,
                      CanCancel, CanComplete, CanApproveRefund
  <2>3. CASE job[w].pc # "storing"
    BY <2>1, <2>3 DEF InStep, Held, Exists
  <2> QED
    BY <2>2, <2>3
<1> QED
  BY <1>1 DEF CopiesHeld, Over, WritesOver, StoreOrder

LEMMA AheadStep ==
  ASSUME OneAtATime, ClientTraffic, SeatInv, Ahead, [Next]_vars
  PROVE  Ahead'
<1> SUFFICES ASSUME NEW s \in Sessions
             PROVE  Slack(s)' >= 0
  BY DEF Ahead
<1>1. Slack(s) \in Int /\ Slack(s)' \in Int /\ Slack(s)' >= Slack(s)
  BY SlackStep, NoneOver DEF SeatInv
<1>2. Slack(s) >= 0
  BY DEF Ahead
<1> QED
  BY <1>1, <1>2

\* One request at a time, and no admin rolling back or assigning: however many
\* statements fail half-way, the counter of a session never falls behind the
\* seats in use.
THEOREM SeatsAreCovered == OneAtATime /\ ClientTraffic /\ Spec => []SeatsCovered
<1> SUFFICES ASSUME OneAtATime, ClientTraffic
             PROVE  Spec => []SeatsCovered
  OBVIOUS
<1>1. Init => SeatInv /\ Ahead
  BY SeatInvHolds
<1>2. SeatInv /\ Ahead /\ [Next]_vars => SeatInv' /\ Ahead'
  BY AheadStep, SeatInvHolds
<1>3. SeatInv /\ Ahead => SeatsCovered
  BY SlackIs DEF SeatInv, Ahead, SeatsCovered
<1> QED
  BY <1>1, <1>2, <1>3, PTL DEF Spec

\* Under the same two conditions, on the Memory store, where no call fails, the
\* counter is exactly the seats in use.
THEOREM SeatsAreExact ==
  OneAtATime /\ ClientTraffic /\ Store = "memory" /\ Spec => []SeatsExact
<1> SUFFICES ASSUME OneAtATime, ClientTraffic, Store = "memory"
             PROVE  Spec => []SeatsExact
  OBVIOUS
<1>1. Init => SeatInv /\ Even
  BY SeatInvHolds
<1>2. SeatInv /\ Even /\ [Next]_vars => SeatInv' /\ Even'
  BY SlackStep, NoneOver, SeatInvHolds DEF Even, SeatInv
<1>3. SeatInv /\ Even => SeatsExact
  BY SlackIs DEF SeatInv, Even, SeatsExact
<1> QED
  BY <1>1, <1>2, <1>3, PTL DEF Spec

\* Who is expected at a session holds a seat of it.
LEMMA UpcomingHold ==
  ASSUME NEW s \in Sessions
  PROVE  /\ Cardinality(Upcoming(s)) \in Nat
         /\ Cardinality(Upcoming(s)) <= Cardinality(SeatHolders(s))
<1>1. Upcoming(s) \in SUBSET SeatHolders(s)
  BY DEF Upcoming, SeatHolders, Exists
<1>2. IsFiniteSet(SeatHolders(s))
  BY HoldersFinite
<1> QED
  BY <1>1, <1>2, FS_Subset, FS_CardinalityType

\* Under the same two conditions no session is oversold.
THEOREM NotOversold == OneAtATime /\ ClientTraffic /\ Spec => []NoOverselling
<1> SUFFICES ASSUME OneAtATime, ClientTraffic
             PROVE  Spec => []NoOverselling
  OBVIOUS
<1>1. TypeOK /\ SeatsCovered /\ CapacityRespected => NoOverselling
  <2> SUFFICES ASSUME TypeOK, SeatsCovered, CapacityRespected, NEW s \in Sessions
               PROVE  Cardinality(Upcoming(s)) <= Capacity[s]
    BY DEF NoOverselling
  <2>1. /\ Cardinality(SeatHolders(s)) \in Nat /\ Cardinality(InFlight(s)) \in Nat
        /\ booked[s] \in Int /\ Capacity[s] \in Nat
    BY SlackIs, ServiceAssumption DEF TypeOK
  <2>2. /\ booked[s] >= Cardinality(SeatHolders(s)) + Cardinality(InFlight(s))
        /\ booked[s] <= Capacity[s]
    BY DEF SeatsCovered, CapacityRespected
  <2> QED
    BY <2>1, <2>2, UpcomingHold
<1> QED
  BY <1>1, SeatsAreCovered, TypeCorrect, SeatsCapped, PTL

-----------------------------------------------------------------------------
(* Seats with any number of requests in flight and any traffic.            *)

Balanced(s) ==
  /\ Slack(s) + overwritten[s] >= 0
  /\ Store = "memory" => Slack(s) + overwritten[s] = 0

LedgerInv ==
  /\ TypeOK /\ CopiesHeld /\ CapacityRespected
  /\ overwritten \in [Sessions -> Nat]
  /\ \A s \in Sessions : Balanced(s)

LEMMA LedgerStart == LInit => LedgerInv
<1> SUFFICES ASSUME LInit
             PROVE  LedgerInv
  OBVIOUS
<1>1. CapacityRespected
  BY ServiceAssumption DEF LInit, Init, CapacityRespected
<1>2. CopiesHeld
  BY DEF LInit, Init, CopiesHeld, Held, Idle
<1>3. overwritten \in [Sessions -> Nat] /\ \A s \in Sessions : overwritten[s] = 0
  BY DEF LInit
<1>4. \A s \in Sessions : Slack(s) = 0
  BY SlackInit DEF LInit
<1> QED
  BY <1>1, <1>2, <1>3, <1>4, InitType DEF LInit, LedgerInv, Balanced

LEMMA LedgerStep == LedgerInv /\ [LNext]_ledgerVars => LedgerInv'
<1> SUFFICES ASSUME LedgerInv, [LNext]_ledgerVars
             PROVE  LedgerInv'
  OBVIOUS
<1>1. [Next]_vars
  BY DEF LNext, ledgerVars
<1>2. (TypeOK /\ CopiesHeld /\ CapacityRespected)'
  BY <1>1, TypeStep, HeldStep, CapacityStep DEF LedgerInv
<1>3. CASE LNext
  <2>1. ASSUME NEW s \in Sessions
        PROVE  /\ Over(s) \in {0, 1} /\ overwritten'[s] = overwritten[s] + Over(s)
               /\ overwritten'[s] \in Nat /\ Balanced(s)'
    <3>1. overwritten'[s] = overwritten[s] + Over(s) /\ overwritten[s] \in Nat
      BY <1>3 DEF LNext, LedgerInv
    <3>2. /\ Slack(s) \in Int /\ Slack(s)' \in Int /\ Over(s) \in {0, 1}
          /\ Slack(s)' + Over(s) >= Slack(s)
          /\ Store = "memory" => Slack(s)' + Over(s) = Slack(s)
      BY <1>1, SlackStep DEF LedgerInv
    <3>3. /\ Slack(s) + overwritten[s] >= 0
          /\ Store = "memory" => Slack(s) + overwritten[s] = 0
      <4>1. Balanced(s)
        BY DEF LedgerInv
      <4> QED
        BY <4>1 DEF Balanced
    <3>4. PICK a \in Int, b \in Int : a = Slack(s) /\ b = Slack(s)'
      BY <3>2
    <3>5. PICK m \in Nat, d \in {0, 1} : m = overwritten[s] /\ d = Over(s)
      BY <3>1, <3>2
    <3>6. overwritten'[s] = m + d /\ m + d \in Nat
      BY <3>1, <3>5
    <3>7. b + (m + d) >= 0 /\ (Store = "memory" => b + (m + d) = 0)
      <4>1. b + d >= a /\ (Store = "memory" => b + d = a)
        BY <3>2, <3>4, <3>5
      <4>2. a + m >= 0 /\ (Store = "memory" => a + m = 0)
        BY <3>3, <3>4, <3>5
      <4> QED
        BY <4>1, <4>2
    <3>8. Balanced(s)'
      BY <3>4, <3>6, <3>7 DEF Balanced
    <3> QED
      BY <3>1, <3>2, <3>6, <3>8
  <2>2. overwritten' \in [Sessions -> Nat]
    BY <1>3, <2>1 DEF LNext
  <2> QED
    BY <1>2, <2>1, <2>2 DEF LedgerInv
<1>4. CASE UNCHANGED ledgerVars
  <2>1. UNCHANGED <<orders, booked, job, overwritten>>
    BY <1>4 DEF ledgerVars, vars
  <2>2. ASSUME NEW s \in Sessions
        PROVE  Balanced(s)'
    <3>1. Balanced(s) /\ Slack(s)' = Slack(s)
      BY <2>1 DEF LedgerInv, Slack, SeatHolders, InFlight, Exists
    <3> QED
      BY <2>1, <3>1 DEF Balanced
  <2> QED
    BY <1>2, <2>1, <2>2 DEF LedgerInv
<1> QED
  BY <1>3, <1>4

\* However requests overlap, fail half-way, roll back or assign, the counter of
\* a session is behind the seats in use by no more than the cancelled bookings
\* that a request wrote over; in the Memory store by exactly that many.
THEOREM SeatsAreAccounted == LSpec => []SeatsAccounted
<1>1. LedgerInv => SeatsAccounted
  <2> SUFFICES ASSUME LedgerInv, NEW s \in Sessions
               PROVE  /\ booked[s] + overwritten[s] >= SeatsDue(s)
                      /\ Store = "memory" => booked[s] + overwritten[s] = SeatsDue(s)
    BY DEF SeatsAccounted
  <2>1. /\ Cardinality(SeatHolders(s)) \in Nat /\ Cardinality(InFlight(s)) \in Nat
        /\ booked[s] \in Int /\ overwritten[s] \in Nat
    BY SlackIs DEF LedgerInv, TypeOK
  <2>2. /\ Slack(s) + overwritten[s] >= 0
        /\ Store = "memory" => Slack(s) + overwritten[s] = 0
    <3>1. Balanced(s)
      BY DEF LedgerInv
    <3> QED
      BY <3>1 DEF Balanced
  <2>3. Slack(s) = booked[s] - SeatsDue(s) /\ SeatsDue(s) \in Nat
    BY <2>1 DEF Slack, SeatsDue
  <2> QED
    BY <2>1, <2>2, <2>3
<1> QED
  BY <1>1, LedgerStart, LedgerStep, PTL DEF LSpec

\* So a session has more bookings than seats only if cancelled ones were
\* written over, and never by more than their number.
THEOREM OversellingBounded == LSpec => []OversoldBound
<1>1. LedgerInv /\ SeatsAccounted => OversoldBound
  <2> SUFFICES ASSUME LedgerInv, SeatsAccounted, NEW s \in Sessions
               PROVE  Cardinality(SeatHolders(s)) <= Capacity[s] + overwritten[s]
    BY DEF OversoldBound
  <2>1. /\ Cardinality(SeatHolders(s)) \in Nat /\ Cardinality(InFlight(s)) \in Nat
        /\ booked[s] \in Int /\ overwritten[s] \in Nat /\ Capacity[s] \in Nat
    BY SlackIs, ServiceAssumption DEF LedgerInv, TypeOK
  <2>2. booked[s] + overwritten[s] >= SeatsDue(s) /\ booked[s] <= Capacity[s]
    BY DEF SeatsAccounted, LedgerInv, CapacityRespected
  <2> QED
    BY <2>1, <2>2 DEF SeatsDue
<1>2. LInit => LedgerInv
  BY LedgerStart
<1>3. LedgerInv /\ [LNext]_ledgerVars => LedgerInv'
  BY LedgerStep
<1> QED
  BY <1>1, <1>2, <1>3, SeatsAreAccounted, PTL DEF LSpec

-----------------------------------------------------------------------------
(* The refinement: the orders table goes through the steps of              *)
(* OrderLifecycle, each when a handler's row is stored.                    *)

\* What a client sees of an order, and of the table.
Seen(session, state, payment, count) ==
  [session |-> session, state |-> state, payment |-> payment, count |-> count]
Life == [o \in Orders |-> Seen(orders[o].session, orders[o].state,
                               orders[o].payment, orders[o].count)]

\* The changes OrderLifecycle makes to what is seen of o.
Become(o, x) == [Life EXCEPT ![o].state = x]
BecomePaid(o, x, y) == [Life EXCEPT ![o].state = x, ![o].payment = y]
BecomeCounted(o, x) == [Life EXCEPT ![o].state = x, ![o].count = @ + 1]
Replace(o, new) == [Life EXCEPT ![o] = new]

LEMMA SeenFields ==
  ASSUME NEW session, NEW state, NEW payment, NEW count
  PROVE  LET r == Seen(session, state, payment, count)
         IN  /\ r.session = session /\ r.state = state
             /\ r.payment = payment /\ r.count = count
  BY DEF Seen

\* Storing one row changes what is seen of that order only.
LEMMA LifeStep ==
  ASSUME TypeOK, NEW o \in Orders, NEW row, orders' = [orders EXCEPT ![o] = row]
  PROVE  Life' = Replace(o, Seen(row.session, row.state, row.payment, row.count))
<1> DEFINE new == Seen(row.session, row.state, row.payment, row.count)
           L(p) == Seen(orders[p].session, orders[p].state, orders[p].payment,
                        orders[p].count)
<1>1. \A p \in Orders : orders'[p] = IF p = o THEN row ELSE orders[p]
  BY DEF TypeOK
<1>2. \A p \in Orders : L(p)' = IF p = o THEN new ELSE L(p)
  BY <1>1
<1>3. Life = [p \in Orders |-> L(p)] /\ Life' = [p \in Orders |-> L(p)']
  BY DEF Life
<1> HIDE DEF new, L
<1>4. Life' = [Life EXCEPT ![o] = new]
  BY <1>2, <1>3
<1> QED
  BY <1>4 DEF new, Replace

\* Clients never see an order in progress or rolled back.
LEMMA UnmanagedStep ==
  ASSUME TypeOK, OneAtATime, ClientTraffic, CurrentCopy, Unmanaged, [Next]_vars
  PROVE  Unmanaged'
<1> SUFFICES ASSUME NEW o \in Orders
             PROVE  orders'[o].state \notin {"in_progress", "rolled_back"}
  BY DEF Unmanaged
<1>1. ASSUME NEW h \in Traffic, Accepted(h, orders[o], orders'[o])
      PROVE  orders'[o].state \notin {"in_progress", "rolled_back"}
  BY <1>1 DEF Accepted, ClientTraffic
<1> QED
  BY <1>1, OrderStep DEF Unmanaged

LEMMA LifeInit == Init => Lifecycle!Init
<1> SUFFICES ASSUME Init
             PROVE  Lifecycle!Init
  OBVIOUS
<1>1. \A o \in Orders : orders[o] = NoRow
  BY DEF Init
<1> QED
  BY <1>1 DEF Lifecycle!Init, Lifecycle!Absent, NoRow

\* A booking that is inserted takes one of the seats still free.
LEMMA SeatLeft ==
  ASSUME SeatInv, Ahead, OneAtATime, NEW w \in Workers,
         job[w].pc = "inserting", job[w].row.session \in Sessions
  PROVE  Lifecycle!Taken(job[w].row.session) < Capacity[job[w].row.session]
<1> DEFINE s == job[w].row.session
<1>1. Lifecycle!Taken(s) = Cardinality(SeatHolders(s))
  <2>1. \A o \in Orders : orders[o].session = s => Exists(o)
    BY ServiceAssumption DEF SeatInv, CurrentCopy, NoRow
  <2>2. {o \in Orders : /\ orders[o].session = s
                        /\ orders[o].state # "cancelled"} = SeatHolders(s)
    BY <2>1 DEF SeatHolders
  <2>3. Lifecycle!Taken(s) =
          Cardinality({o \in Orders : /\ orders[o].session = s
                                      /\ orders[o].state # "cancelled"})
    BY DEF Lifecycle!Taken, Lifecycle!Cardinality, Cardinality
  <2> QED
    BY <2>2, <2>3
<1>2. Cardinality(InFlight(s)) = 1
  BY InFlightIs DEF Flying, One
<1>3. booked[s] >= Cardinality(SeatHolders(s)) + Cardinality(InFlight(s))
  BY SlackIs DEF SeatInv, Ahead
<1>4. booked[s] <= Capacity[s] /\ booked[s] \in Int /\ Capacity[s] \in Nat
  BY ServiceAssumption DEF SeatInv, CapacityRespected, TypeOK
<1>5. Cardinality(SeatHolders(s)) \in Nat
  BY HoldersFinite
<1> HIDE DEF s
<1>6. Cardinality(SeatHolders(s)) < Capacity[s]
  BY <1>2, <1>3, <1>4, <1>5
<1> QED
  BY <1>1, <1>6 DEF s

\* Changing what is seen of one order, as OrderLifecycle writes it.
LEMMA LifeExcept ==
  ASSUME NEW o \in Orders, NEW x, NEW y, NEW n, NEW new,
         new = Replace(o, Seen(orders[o].session, x, y, n))
  PROVE  /\ y = orders[o].payment /\ n = orders[o].count => new = Become(o, x)
         /\ n = orders[o].count => new = BecomePaid(o, x, y)
         /\ y = orders[o].payment /\ n = orders[o].count + 1 =>
              new = BecomeCounted(o, x)
<1> DEFINE r == orders[o]
           s0 == Seen(r.session, r.state, r.payment, r.count)
           s1 == Seen(r.session, x, r.payment, r.count)
           s2 == Seen(r.session, x, y, n)
<1>1. Life = [p \in Orders |-> Life[p]]
  BY DEF Life
<1>2. Life[o] = s0
  BY DEF Life
<1>3. s0.count = r.count
  BY DEF Seen
<1>4. [s0 EXCEPT !.state = x] = s1
  BY DEF Seen
<1>5. n = r.count => [s1 EXCEPT !.payment = y] = s2
  BY DEF Seen
<1>6. y = r.payment => [s1 EXCEPT !.count = n] = s2
  BY DEF Seen
<1>7. y = r.payment /\ n = r.count => s1 = s2
  OBVIOUS
<1>8. new = [Life EXCEPT ![o] = s2]
  BY DEF Replace
<1> HIDE DEF r, s0, s1, s2, Life
<1>9. y = r.payment /\ n = r.count => new = [Life EXCEPT ![o].state = x]
  BY <1>1, <1>2, <1>4, <1>7, <1>8
<1>10. n = r.count => new = [Life EXCEPT ![o].state = x, ![o].payment = y]
  BY <1>1, <1>2, <1>4, <1>5, <1>8
<1>11. y = r.payment /\ n = r.count + 1 =>
         new = [Life EXCEPT ![o].state = x, ![o].count = @ + 1]
  BY <1>1, <1>2, <1>3, <1>4, <1>6, <1>8
<1> QED
  BY <1>9, <1>10, <1>11 DEF r, Become, BecomePaid, BecomeCounted

\* A row that a handler may store is a step of the client's order.
LEMMA StoredIsStep ==
  ASSUME TypeOK, Unmanaged, NEW o \in Orders, Exists(o), NEW row,
         orders' = [orders EXCEPT ![o] = row],
         NEW h \in Traffic, ClientTraffic, Accepted(h, orders[o], row)
  PROVE  Lifecycle!Next
<1> DEFINE r == orders[o]
<1>1. Life' = Replace(o, Seen(row.session, row.state, row.payment, row.count))
  BY LifeStep
<1>2. row.session = r.session
  BY DEF Accepted
<1>3. Life[o] = Seen(r.session, r.state, r.payment, r.count)
  BY DEF Life
<1>4. Life[o].state = r.state /\ Life[o].count = r.count
  BY <1>3, SeenFields
<1>5. r.state \notin {"absent", "in_progress", "rolled_back"} /\ r.state \in States \cup {"absent"}
  BY DEF Unmanaged, Exists, TypeOK, Row
<1>6. ASSUME h = "reschedule"
      PROVE  Lifecycle!Reschedule(o)
  <2>1. /\ r.state \in {"confirmed", "rescheduled"} /\ r.count < MaxReschedules
        /\ row.state = "rescheduled" /\ row.count = r.count + 1
        /\ row.payment = r.payment
    BY <1>6 DEF Accepted, CanReschedule
  <2>2. Life' = BecomeCounted(o, "rescheduled")
    BY <1>1, <1>2, <2>1, LifeExcept
  <2> QED
    BY <1>4, <2>1, <2>2 DEF Lifecycle!Reschedule, Life, Seen, BecomeCounted
<1>7. ASSUME h = "cancel"
      PROVE  Lifecycle!AskApproval(o) \/ Lifecycle!Cancel(o)
  <2>1. /\ r.state \notin {"cancelled", "completed", "refunded"}
        /\ row.state \in {"pending_approval", "cancelled"}
        /\ row.payment = r.payment /\ row.count = r.count
    BY <1>7 DEF Accepted, CanCancel
  <2>2. Life' = Become(o, row.state)
    BY <1>1, <1>2, <2>1, LifeExcept
  <2>3. r.state \in {"created", "confirmed", "rescheduled",
                     "pending_approval", "refund_review"}
    BY <1>5, <2>1 DEF States
  <2>4. Lifecycle!Cancellable(o)
    BY <1>4, <2>3 DEF Lifecycle!Cancellable, Life, Seen
  <2>5. CASE row.state = "pending_approval"
    BY <2>2, <2>4, <2>5 DEF Lifecycle!AskApproval, Life, Seen, Become
  <2>6. CASE row.state = "cancelled"
    BY <2>2, <2>4, <2>6 DEF Lifecycle!Cancel, Life, Seen, Become
  <2> QED
    BY <2>1, <2>5, <2>6
<1>8. ASSUME h \in {"complete_booking", "complete_delivery"}
      PROVE  Lifecycle!Complete(o)
  <2>1. /\ r.state \in {"confirmed", "rescheduled"}
        /\ row.state = "completed"
        /\ row.payment = r.payment /\ row.count = r.count
    BY <1>5, <1>8 DEF Accepted, CanComplete
  <2>2. Life' = Become(o, "completed")
    BY <1>1, <1>2, <2>1, LifeExcept
  <2> QED
    BY <1>4, <2>1, <2>2 DEF Lifecycle!Complete, Life, Seen, Become
<1>9. ASSUME h = "refund_request"
      PROVE  Lifecycle!RequestRefund(o)
  <2>1. /\ r.state = "completed"
        /\ row.state = "refund_review" /\ row.payment = "refund_pending"
        /\ row.count = r.count
    BY <1>9 DEF Accepted
  <2>2. Life' = BecomePaid(o, "refund_review", "refund_pending")
    BY <1>1, <1>2, <2>1, LifeExcept
  <2> QED
    BY <1>4, <2>1, <2>2 DEF Lifecycle!RequestRefund, Life, Seen, BecomePaid
<1>10. ASSUME h = "approve_refund"
       PROVE  Lifecycle!ApproveRefund(o)
  <2>1. /\ r.state = "refund_review"
        /\ row.state = "refunded" /\ row.payment = "refunded"
        /\ row.count = r.count
    BY <1>10 DEF Accepted, CanApproveRefund
  <2>2. Life' = BecomePaid(o, "refunded", "refunded")
    BY <1>1, <1>2, <2>1, LifeExcept
  <2> QED
    BY <1>4, <2>1, <2>2 DEF Lifecycle!ApproveRefund, Life, Seen, BecomePaid
<1>11. h \in {"reschedule", "cancel", "complete_booking", "complete_delivery",
              "refund_request", "approve_refund"}
  BY DEF Accepted, ClientTraffic
<1> QED
  BY <1>6, <1>7, <1>8, <1>9, <1>10, <1>11 DEF Lifecycle!Next

\* A row a create handler inserts is a new order of the client's.
LEMMA InsertedIsStep ==
  ASSUME SeatInv, Ahead, OneAtATime, NEW w \in Workers, NEW j, NEW o \in Orders,
         NEW row, Inserting(w, j, o, row)
  PROVE  Lifecycle!Next
<1> DEFINE k == job[w]
<1>1. Life' = Replace(o, Seen(row.session, row.state, row.payment, row.count))
  BY LifeStep DEF Inserting, SeatInv
<1>2. orders[o] = NoRow
  BY DEF Inserting, SeatInv, CurrentCopy
<1>3. Life[o] = Seen(NoSession, "absent", "unpaid", 0)
  BY <1>2 DEF Life, NoRow
<1>4. /\ k.handler = "create" => k.row.session \in Sessions
      /\ k.handler = "create_delivery" => k.row.session = NoSession
      /\ k.handler \in {"create", "create_delivery"}
      /\ k.row.payment = "unpaid" /\ k.row.count = 0
  BY DEF Inserting, SeatInv, CurrentCopy, InStep
<1>5. /\ row.session = k.row.session /\ row.payment = "unpaid" /\ row.count = 0
      /\ row.state = IF k.handler = "create" THEN "confirmed" ELSE "created"
  BY <1>4 DEF Inserting
<1>6. CASE k.handler = "create"
  <2>1. PICK s \in Sessions : s = k.row.session
    BY <1>4, <1>6
  <2>2. Life' = Replace(o, Seen(s, "confirmed", "unpaid", 0))
    BY <1>1, <1>5, <1>6, <2>1
  <2>3. Lifecycle!Taken(s) < Capacity[s]
    BY <2>1, SeatLeft DEF Inserting
  <2>4. Lifecycle!Book(o, s)
    BY <1>3, <2>2, <2>3 DEF Lifecycle!Book, Lifecycle!Absent, Life, Seen, Replace
  <2> QED
    BY <2>4 DEF Lifecycle!Next
<1>7. CASE k.handler = "create_delivery"
  <2>1. Life' = Replace(o, Seen(NoSession, "created", "unpaid", 0))
    BY <1>1, <1>4, <1>5, <1>7
  <2>2. Life' = Become(o, "created")
    BY <1>2, <2>1, LifeExcept DEF NoRow
  <2>3. Lifecycle!OrderDelivery(o)
    BY <1>3, <2>2 DEF Lifecycle!OrderDelivery, Lifecycle!Absent, Life, Seen, Become
  <2> QED
    BY <2>3 DEF Lifecycle!Next
<1> QED
  BY <1>4, <1>6, <1>7

\* Every other step leaves the table, and so what clients see, as it was.
LEMMA LifecycleStep ==
  ASSUME SeatInv, Ahead, Unmanaged, OneAtATime, ClientTraffic, [Next]_vars
  PROVE  Lifecycle!Next \/ Life' = Life
<1>1. CASE UNCHANGED orders
  BY <1>1 DEF Life
<1>2. ASSUME NEW w \in Workers, NEW j \in Job, job' = [job EXCEPT ![w] = j],
             Does(w, j), orders' # orders
      PROVE  Lifecycle!Next
  <2>1. ASSUME NEW o \in Orders, NEW row \in Row, Inserting(w, j, o, row)
        PROVE  Lifecycle!Next
    BY <2>1, InsertedIsStep
  <2>2. CASE Storing(w, j)
    <3>1. /\ InStep(job[w]) /\ job[w].pc = "storing"
          /\ orders' = [orders EXCEPT ![job[w].id] = job[w].row]
      BY <2>2 DEF SeatInv, CurrentCopy, Storing
    <3>2. PICK o \in Orders, h \in Traffic : o = job[w].id /\ h = job[w].handler
      BY <3>1 DEF InStep
    <3>3. PICK row \in Row : row = job[w].row
      BY DEF SeatInv, TypeOK, Job
    <3>4. /\ Exists(o) /\ Accepted(h, orders[o], row)
          /\ orders' = [orders EXCEPT ![o] = row]
      BY <3>1, <3>2, <3>3 DEF InStep
    <3> QED
      BY <3>4, StoredIsStep DEF SeatInv
  <2> QED
    BY <1>2, <2>1, <2>2
       DEF Does, Ordering, Numbering, Ending, Loading, Deciding, Releasing, Auditing
<1> QED
  BY <1>1, <1>2, StepShape DEF SeatInv, Quiet

\* One request at a time, the handlers together implement the atomic lifecycle
\* that OrderLifecycle promises a client, failing statements included.
THEOREM HandlersImplementLifecycle ==
  OneAtATime /\ ClientTraffic /\ Spec => ImplementsLifecycle
<1> SUFFICES ASSUME OneAtATime, ClientTraffic
             PROVE  Spec => Lifecycle!Spec
  BY DEF ImplementsLifecycle
<1> DEFINE IInv == SeatInv /\ Ahead /\ Unmanaged
<1>1. Init => IInv /\ Lifecycle!Init
  <2>1. Init => Unmanaged
    BY DEF Init, Unmanaged, NoRow
  <2> QED
    BY <2>1, SeatInvHolds, LifeInit
<1>2. IInv /\ [Next]_vars => IInv'
  BY SeatInvHolds, AheadStep, UnmanagedStep DEF SeatInv
<1>3. IInv /\ [Next]_vars =>
        [Lifecycle!Next]_([o \in Orders |-> [session |-> orders[o].session,
                                             state   |-> orders[o].state,
                                             payment |-> orders[o].payment,
                                             count   |-> orders[o].count]])
  BY LifecycleStep DEF Life, Seen
<1> QED
  BY <1>1, <1>2, <1>3, PTL DEF Spec, Lifecycle!Spec
=============================================================================
