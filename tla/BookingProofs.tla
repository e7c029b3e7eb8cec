--------------------------- MODULE BookingProofs ---------------------------
(***************************************************************************)
(* Invariants of BookingService for every number of orders, sessions and   *)
(* concurrent requests, for both stores and any traffic.                   *)
(***************************************************************************)
EXTENDS BookingService, FiniteSetTheorems, TLAPS

\* What an action leaves alone keeps its type.
LEMMA IdleType == Idle \in Job /\ NoRow \in Row
  BY MachineAssumption DEF Idle, Job, NoRow, Row, Numbers, Payments, Never

\* Each Machine method returns an order.
LEMMA MachineType ==
  ASSUME NEW o \in Row, NEW t \in Int, NEW s \in States
  PROVE  /\ [o EXCEPT !.state = s] \in Row
         /\ Rescheduled(o, t) \in Row
         /\ Completed(o, t) \in Row
         /\ RefundRequested(o) \in Row
         /\ RefundApproved(o) \in Row
<1>1. [o EXCEPT !.state = s] \in Row
  BY DEF Row
<1>2. Rescheduled(o, t) \in Row
  <2>1. o.count + 1 \in Nat
    BY DEF Row
  <2>2. [o EXCEPT !.pickup = t] \in Row
    BY DEF Row
  <2>3. [[o EXCEPT !.pickup = t] EXCEPT !.count = o.count + 1] \in Row
    BY <2>1, <2>2 DEF Row
  <2>4. [[[o EXCEPT !.pickup = t] EXCEPT !.count = o.count + 1]
           EXCEPT !.state = "rescheduled"] \in Row
    BY <2>3 DEF Row, States
  <2>5. Rescheduled(o, t) = [[[o EXCEPT !.pickup = t] EXCEPT !.count = o.count + 1]
                               EXCEPT !.state = "rescheduled"]
    BY DEF Row, Rescheduled
  <2> QED
    BY <2>4, <2>5
<1>3. Completed(o, t) \in Row
  BY DEF Row, Completed, States
<1>4. RefundRequested(o) \in Row
  BY DEF Row, RefundRequested, States, Payments
<1>5. RefundApproved(o) \in Row
  BY DEF Row, RefundApproved, States, Payments
<1> QED
  BY <1>1, <1>2, <1>3, <1>4, <1>5

\* A create handler builds an order.
LEMMA NewOrderType ==
  ASSUME TypeOK, NEW w \in Workers
  PROVE  NewOrder(w) \in Row
<1>1. job[w].row \in Row /\ job[w].seq \in Nat
  BY DEF TypeOK, Job
<1>2. DayOf[now] \in Nat
  BY ServiceAssumption DEF TypeOK
<1> DEFINE n == [day |-> DayOf[now], seq |-> job[w].seq + 1]
<1>3. n \in Numbers
  BY <1>1, <1>2 DEF Numbers
<1> HIDE DEF n
<1>4. [job[w].row EXCEPT !.number = n] \in Row
  BY <1>1, <1>3 DEF Row
<1>5. Created([job[w].row EXCEPT !.number = n]) \in Row
  BY <1>4 DEF Row, Created, States
<1>6. Confirmed(Created([job[w].row EXCEPT !.number = n])) \in Row
  BY <1>5 DEF Row, Confirmed, States
<1> QED
  BY <1>5, <1>6 DEF NewOrder, n

\* The two ways a job ends or moves on keep every job well typed.
LEMMA AnswerType ==
  ASSUME TypeOK, NEW w \in Workers, Answer(w)
  PROVE  job' \in [Workers -> Job]
  BY IdleType DEF TypeOK, Answer

LEMMA JobType ==
  ASSUME TypeOK, NEW w \in Workers, NEW j \in Job, job' = [job EXCEPT ![w] = j]
  PROVE  job' \in [Workers -> Job]
  BY DEF TypeOK

LEMMA ProceedType ==
  ASSUME TypeOK, NEW w \in Workers, NEW newRow \in Row, Proceed(w, newRow)
  PROVE  TypeOK'
<1>1. job[w] \in Job
  BY DEF TypeOK
<1>2. [job[w] EXCEPT !.pc = "storing", !.row = newRow] \in Job
  BY <1>1 DEF Job
<1>3. job' = [job EXCEPT ![w] = [job[w] EXCEPT !.pc = "storing", !.row = newRow]]
  BY DEF Proceed, TypeOK
<1>4. job' \in [Workers -> Job]
  BY <1>2, <1>3, JobType
<1> QED
  BY <1>4 DEF TypeOK, Proceed

LEMMA InitType == Init => TypeOK
  BY IdleType, ServiceAssumption DEF Init, TypeOK

LEMMA ReserveType ==
  ASSUME TypeOK, NEW w \in Workers, NEW s \in Sessions, Reserve(w, s)
  PROVE  TypeOK'
<1> DEFINE row == [NoRow EXCEPT !.session = s, !.pickup = StartsAt[s]]
           j == [Idle EXCEPT !.pc = "counting", !.handler = "create", !.row = row]
<1>1. row \in Row
  BY IdleType, ServiceAssumption DEF Row
<1> HIDE DEF row
<1>2. j \in Job
  BY <1>1, IdleType DEF Job, Handlers
<1>3. job' = [job EXCEPT ![w] = j]
  BY DEF Reserve, row
<1> HIDE DEF j
<1>4. job' \in [Workers -> Job]
  BY <1>2, <1>3, JobType
<1> QED
  BY <1>4 DEF TypeOK, Reserve, Begin

LEMMA StartDeliveryType ==
  ASSUME TypeOK, NEW w \in Workers, NEW t \in PickupTimes, StartDelivery(w, t)
  PROVE  TypeOK'
<1> DEFINE row == [NoRow EXCEPT !.kind = "delivery", !.pickup = t]
           j == [Idle EXCEPT !.pc = "counting", !.handler = "create_delivery",
                             !.row = row]
<1>1. row \in Row
  BY IdleType, ServiceAssumption DEF Row
<1> HIDE DEF row
<1>2. j \in Job
  BY <1>1, IdleType DEF Job, Handlers
<1>3. job' = [job EXCEPT ![w] = j]
  BY DEF StartDelivery, row
<1> HIDE DEF j
<1>4. job' \in [Workers -> Job]
  BY <1>2, <1>3, JobType
<1> QED
  BY <1>4 DEF TypeOK, StartDelivery, Begin

\* CountDailyOrders returns a natural number, the table being finite.
LEMMA CountOrdersType ==
  ASSUME TypeOK, NEW w \in Workers, CountOrders(w)
  PROVE  TypeOK'
<1>1. TodaysOrders \in Nat
  BY FS_Subset, FS_CardinalityType, ServiceAssumption DEF TodaysOrders
<1>2. PICK n \in Nat : job' = [job EXCEPT ![w].pc = "inserting", ![w].seq = n]
  BY <1>1 DEF CountOrders
<1>3. job[w] \in Job
  BY DEF TypeOK
<1>4. [job[w] EXCEPT !.pc = "inserting", !.seq = n] \in Job
  BY <1>3 DEF Job
<1>5. job' = [job EXCEPT ![w] = [job[w] EXCEPT !.pc = "inserting", !.seq = n]]
  BY <1>2 DEF TypeOK
<1>6. job' \in [Workers -> Job]
  BY <1>4, <1>5, JobType
<1> QED
  BY <1>6 DEF TypeOK, CountOrders

LEMMA InsertOrderType ==
  ASSUME TypeOK, NEW w \in Workers, InsertOrder(w)
  PROVE  TypeOK'
<1>1. NewOrder(w) \in Row
  BY NewOrderType
<1>2. PICK o \in Orders :
        IF Store = "postgres" /\ NumberTaken(NewOrder(w).number)
        THEN Answer(w) /\ UNCHANGED orders
        ELSE /\ orders' = [orders EXCEPT ![o] = NewOrder(w)]
             /\ job' = [job EXCEPT ![w] =
                          [Idle EXCEPT !.pc = "auditing", !.id = o,
                                       !.handler = job[w].handler]]
  BY DEF InsertOrder
<1> DEFINE j == [Idle EXCEPT !.pc = "auditing", !.id = o, !.handler = job[w].handler]
<1>3. j \in Job
  BY IdleType DEF Job, TypeOK
<1> HIDE DEF j
<1>4. CASE Store = "postgres" /\ NumberTaken(NewOrder(w).number)
  BY <1>2, <1>4, AnswerType DEF TypeOK, InsertOrder
<1>5. CASE ~(Store = "postgres" /\ NumberTaken(NewOrder(w).number))
  <2>1. job' = [job EXCEPT ![w] = j] /\ orders' = [orders EXCEPT ![o] = NewOrder(w)]
    BY <1>2, <1>5 DEF j
  <2>2. job' \in [Workers -> Job]
    BY <1>3, <2>1, JobType
  <2> QED
    BY <1>1, <2>1, <2>2 DEF TypeOK, InsertOrder
<1> QED
  BY <1>4, <1>5

LEMMA LoadType ==
  ASSUME TypeOK, NEW w \in Workers, NEW h \in Handlers, NEW o \in Orders,
         Load(w, h, o)
  PROVE  TypeOK'
<1> DEFINE j == [Idle EXCEPT !.pc = "loaded", !.id = o, !.handler = h,
                             !.row = orders[o]]
<1>1. orders[o] \in Row
  BY DEF TypeOK
<1>2. j \in Job
  BY <1>1, IdleType DEF Job
<1>3. job' = [job EXCEPT ![w] = j]
  BY DEF Load
<1> HIDE DEF j
<1>4. job' \in [Workers -> Job]
  BY <1>2, <1>3, JobType
<1> QED
  BY <1>4 DEF TypeOK, Load, Begin

LEMMA DecideType ==
  ASSUME TypeOK, NEW w \in Workers,
         \/ DecideReschedule(w) \/ DecideCancel(w) \/ DecideComplete(w)
         \/ DecideRequestRefund(w) \/ DecideApproveRefund(w)
         \/ DecideRollback(w) \/ DecideAssign(w)
  PROVE  TypeOK'
<1>1. job[w].row \in Row /\ now \in Int
  BY ServiceAssumption DEF TypeOK, Job
<1> DEFINE row == job[w].row
<1> HIDE DEF row
<1>2. row \in Row
  BY <1>1 DEF row
<1>3. CASE DecideReschedule(w)
  <2>1. PICK t \in PickupTimes : Proceed(w, Rescheduled(row, t))
    BY <1>3 DEF DecideReschedule, row
  <2>2. t \in Int
    BY ServiceAssumption
  <2>3. Rescheduled(row, t) \in Row
    BY <1>2, <2>2, MachineType DEF States
  <2> QED
    BY <2>1, <2>3, ProceedType
<1>4. CASE DecideCancel(w)
  <2>1. [row EXCEPT !.state = "pending_approval"] \in Row
    BY <1>2, <1>1, MachineType DEF States
  <2>2. Cancelled(row) \in Row
    BY <1>2, <1>1, MachineType DEF States, Cancelled
  <2>3. \/ Proceed(w, [row EXCEPT !.state = "pending_approval"])
        \/ Proceed(w, Cancelled(row))
    BY <1>4 DEF DecideCancel, row
  <2> QED
    BY <2>1, <2>2, <2>3, ProceedType
<1>5. CASE DecideComplete(w)
  <2>1. Completed(row, now) \in Row
    BY <1>1, <1>2, MachineType DEF States
  <2> QED
    BY <1>5, <2>1, ProceedType DEF DecideComplete, row
<1>6. CASE DecideRequestRefund(w)
  <2>1. RefundRequested(row) \in Row
    BY <1>1, <1>2, MachineType DEF States
  <2> QED
    BY <1>6, <2>1, ProceedType DEF DecideRequestRefund, row
<1>7. CASE DecideApproveRefund(w)
  <2>1. RefundApproved(row) \in Row
    BY <1>1, <1>2, MachineType DEF States
  <2> QED
    BY <1>7, <2>1, ProceedType DEF DecideApproveRefund, row
<1>8. CASE DecideRollback(w)
  <2>1. RolledBack(row) \in Row
    BY <1>1, <1>2, MachineType DEF States, RolledBack
  <2> QED
    BY <1>8, <2>1, ProceedType DEF DecideRollback, row
<1>9. CASE DecideAssign(w)
  <2>1. [row EXCEPT !.state = "in_progress"] \in Row
    BY <1>1, <1>2, MachineType DEF States
  <2> QED
    BY <1>9, <2>1, ProceedType DEF DecideAssign, row
<1> QED
  BY <1>3, <1>4, <1>5, <1>6, <1>7, <1>8, <1>9

LEMMA StoreOrderType ==
  ASSUME TypeOK, NEW w \in Workers, StoreOrder(w)
  PROVE  TypeOK'
<1>1. job[w] \in Job /\ job[w].row \in Row
  BY DEF TypeOK, Job
<1>2. orders' \in [Orders -> Row]
  BY <1>1 DEF TypeOK, StoreOrder
<1> DEFINE row == [NoRow EXCEPT !.session = job[w].row.session]
           j == [job[w] EXCEPT !.pc = AfterStore(job[w].handler), !.row = row]
<1>3. row \in Row
  BY <1>1, IdleType DEF Row
<1> HIDE DEF row
<1>4. j \in Job
  BY <1>1, <1>3 DEF Job, AfterStore
<1>5. Answer(w) \/ job' = [job EXCEPT ![w] = j]
  BY <1>1 DEF StoreOrder, TypeOK, row
<1> HIDE DEF j
<1>6. job' \in [Workers -> Job]
  BY <1>4, <1>5, JobType, AnswerType
<1> QED
  BY <1>2, <1>6 DEF TypeOK, StoreOrder

LEMMA ReleaseSeatType ==
  ASSUME TypeOK, NEW w \in Workers, ReleaseSeat(w)
  PROVE  TypeOK'
<1>1. job[w] \in Job
  BY DEF TypeOK
<1>2. [job[w] EXCEPT !.pc = "auditing"] \in Job
  BY <1>1 DEF Job
<1>3. job' = [job EXCEPT ![w] = [job[w] EXCEPT !.pc = "auditing"]]
  BY DEF ReleaseSeat, Goto, TypeOK
<1>4. job' \in [Workers -> Job]
  BY <1>2, <1>3, JobType
<1>5. booked' \in [Sessions -> Int]
  BY DEF TypeOK, ReleaseSeat
<1> QED
  BY <1>4, <1>5 DEF TypeOK, ReleaseSeat

LEMMA AppendAuditType ==
  ASSUME TypeOK, NEW w \in Workers, AppendAudit(w)
  PROVE  TypeOK'
<1>1. job' \in [Workers -> Job]
  BY AnswerType DEF AppendAudit
<1> DEFINE i == job[w].id
           h == job[w].handler
           counts == [audited[i] EXCEPT ![h] = audited[i][h] + 1]
<1>2. audited' = [audited EXCEPT ![i] = counts]
  BY DEF AppendAudit
<1>3. ASSUME i \in Orders
      PROVE  counts \in [Handlers -> Nat]
  <2>1. audited[i] \in [Handlers -> Nat]
    BY <1>3 DEF TypeOK
  <2>2. h \in Handlers => audited[i][h] + 1 \in Nat
    BY <2>1
  <2> QED
    BY <2>1, <2>2
<1> HIDE DEF counts, i
<1>4. audited' \in [Orders -> [Handlers -> Nat]]
  BY <1>2, <1>3 DEF TypeOK
<1> QED
  BY <1>1, <1>4 DEF TypeOK, AppendAudit

LEMMA TypeStep == TypeOK /\ [Next]_vars => TypeOK'
<1> SUFFICES ASSUME TypeOK, [Next]_vars
             PROVE  TypeOK'
  OBVIOUS
<1>1. CASE UNCHANGED vars
  BY <1>1 DEF TypeOK, vars
<1>2. CASE Tick
  BY <1>2, ServiceAssumption DEF TypeOK, Tick
<1>3. CASE Rest
  BY <1>3 DEF TypeOK, Rest, vars
<1>4. ASSUME NEW w \in Workers, NEW s \in Sessions, Reserve(w, s)
      PROVE  TypeOK'
  BY <1>4, ReserveType
<1>5. ASSUME NEW w \in Workers, NEW t \in PickupTimes, StartDelivery(w, t)
      PROVE  TypeOK'
  BY <1>5, StartDeliveryType
<1>6. ASSUME NEW w \in Workers, NEW h \in Handlers, NEW o \in Orders, Load(w, h, o)
      PROVE  TypeOK'
  BY <1>6, LoadType
<1>7. ASSUME NEW w \in Workers, Serve(w)
      PROVE  TypeOK'
  <2>1. CASE Refuse(w) \/ Abort(w)
    BY <2>1, AnswerType DEF TypeOK, Refuse, Abort
  <2> QED
    BY <1>7, <2>1, CountOrdersType, InsertOrderType, DecideType, StoreOrderType,
       ReleaseSeatType, AppendAuditType DEF Serve
<1> QED
  BY <1>1, <1>2, <1>3, <1>4, <1>5, <1>6, <1>7 DEF Next

\* Every row, every copy of a row and every counter has its type in every
\* reachable state, for all orders, sessions and concurrent requests.
THEOREM TypeCorrect == Spec => []TypeOK
  BY InitType, TypeStep, PTL DEF Spec

-----------------------------------------------------------------------------
\* Capacity: only IncrementSessionBookings touches the counter, behind its
\* guard.
LEMMA CapacityStep ==
  ASSUME TypeOK, CapacityRespected, [Next]_vars
  PROVE  CapacityRespected'
<1>1. CASE UNCHANGED booked
  BY <1>1 DEF CapacityRespected
<1>2. ASSUME NEW w \in Workers, NEW s \in Sessions, Reserve(w, s)
      PROVE  CapacityRespected'
  <2>1. booked[s] + 1 <= Capacity[s] /\ booked' = [booked EXCEPT ![s] = booked[s] + 1]
    BY <1>2 DEF Reserve, CanAdjust
  <2> QED
    BY <2>1 DEF CapacityRespected, TypeOK
<1>3. ASSUME NEW w \in Workers, ReleaseSeat(w)
      PROVE  CapacityRespected'
  <2> DEFINE s == job[w].row.session
  <2>1. \/ UNCHANGED booked
        \/ /\ s \in Sessions
           /\ booked[s] - 1 <= Capacity[s]
           /\ booked' = [booked EXCEPT ![s] = booked[s] - 1]
    BY <1>3, ServiceAssumption DEF ReleaseSeat, CanAdjust, TypeOK
  <2> HIDE DEF s
  <2> QED
    BY <2>1 DEF CapacityRespected, TypeOK
<1> QED
  BY <1>1, <1>2, <1>3
     DEF Next, vars, Tick, Rest, Serve, StartDelivery, Load, CountOrders,
         InsertOrder, DecideReschedule, DecideCancel, DecideComplete,
         DecideRequestRefund, DecideApproveRefund, DecideRollback, DecideAssign,
         Proceed, Refuse, StoreOrder, AppendAudit, Abort

-----------------------------------------------------------------------------
\* Money and reschedules.  The zero order makes no claim.
LEMMA NoRowOK == TypeOK => RowOK(NoRow)
  BY MachineAssumption, ServiceAssumption DEF RowOK, MoneyBacked, NoRow

\* A row that only takes another state, other than a state that says
\* something about money or completion, stays sound.
LEMMA RestatedOK ==
  ASSUME NEW o \in Row, RowOK(o),
         NEW s \in States \ {"completed", "refund_review", "refunded"}
  PROVE  RowOK([o EXCEPT !.state = s])
  BY DEF RowOK, MoneyBacked, Row, States

LEMMA RescheduledOK ==
  ASSUME NEW o \in Row, NEW t \in Int, RowOK(o), CanReschedule(o)
  PROVE  RowOK(Rescheduled(o, t))
<1>1. o.count + 1 <= MaxReschedules
  BY MachineAssumption DEF CanReschedule, Row
<1>2. /\ Rescheduled(o, t).count = o.count + 1
      /\ Rescheduled(o, t).state = "rescheduled"
      /\ Rescheduled(o, t).payment = o.payment
      /\ Rescheduled(o, t).completedAt = o.completedAt
  BY DEF Rescheduled, Row
<1> QED
  BY <1>1, <1>2 DEF RowOK, MoneyBacked

LEMMA CompletedOK ==
  ASSUME NEW o \in Row, TypeOK, RowOK(o)
  PROVE  RowOK(Completed(o, now))
<1>1. now \in 0 .. now
  BY ServiceAssumption DEF TypeOK
<1>2. /\ Completed(o, now).count = o.count
      /\ Completed(o, now).state = "completed"
      /\ Completed(o, now).completedAt = now
  BY DEF Completed, Row
<1> QED
  BY <1>1, <1>2 DEF RowOK, MoneyBacked

LEMMA RefundRequestedOK ==
  ASSUME NEW o \in Row, RowOK(o), CanRequestRefund(o, now)
  PROVE  RowOK(RefundRequested(o))
<1>1. /\ RefundRequested(o).count = o.count
      /\ RefundRequested(o).state = "refund_review"
      /\ RefundRequested(o).payment = "refund_pending"
      /\ RefundRequested(o).completedAt = o.completedAt
  BY DEF RefundRequested, Row
<1> QED
  BY <1>1 DEF RowOK, MoneyBacked, CanRequestRefund

LEMMA RefundApprovedOK ==
  ASSUME NEW o \in Row, RowOK(o), CanApproveRefund(o)
  PROVE  RowOK(RefundApproved(o))
<1>1. /\ RefundApproved(o).count = o.count
      /\ RefundApproved(o).state = "refunded"
      /\ RefundApproved(o).payment = "refunded"
      /\ RefundApproved(o).completedAt = o.completedAt
  BY DEF RefundApproved, Row
<1> QED
  BY <1>1 DEF RowOK, MoneyBacked, CanApproveRefund

\* A sound row handed to UpdateOrder leaves every row and copy sound.
LEMMA ProceedOK ==
  ASSUME TypeOK, RowsOK, NEW w \in Workers, NEW newRow \in Row, RowOK(newRow),
         Proceed(w, newRow)
  PROVE  RowsOK'
<1>1. \A v \in Workers : job'[v].row = IF v = w THEN newRow ELSE job[v].row
  BY DEF Proceed, TypeOK, Job
<1> QED
  BY <1>1 DEF RowsOK, RowOK, MoneyBacked, Proceed

LEMMA AnswerOK ==
  ASSUME TypeOK, RowsOK, NEW w \in Workers, Answer(w), UNCHANGED <<orders, now>>
  PROVE  RowsOK'
<1>1. \A v \in Workers : job'[v].row = IF v = w THEN NoRow ELSE job[v].row
  BY DEF Answer, TypeOK, Idle
<1>2. RowOK(NoRow)
  BY NoRowOK
<1> QED
  BY <1>1, <1>2 DEF RowsOK, RowOK, MoneyBacked

\* A job may be replaced by one that holds a sound row.
LEMMA JobRowOK ==
  ASSUME TypeOK, RowsOK, NEW w \in Workers, NEW j, RowOK(j.row),
         job' = [job EXCEPT ![w] = j], UNCHANGED <<orders, now>>
  PROVE  RowsOK'
<1>1. \A v \in Workers : job'[v].row = IF v = w THEN j.row ELSE job[v].row
  BY DEF TypeOK
<1> QED
  BY <1>1 DEF RowsOK, RowOK, MoneyBacked

LEMMA NewOrderOK ==
  ASSUME TypeOK, RowsOK, NEW w \in Workers
  PROVE  RowOK(NewOrder(w))
<1> DEFINE row == [job[w].row EXCEPT !.number = [day |-> DayOf[now],
                                                 seq |-> job[w].seq + 1]]
<1>1. job[w].row \in Row /\ RowOK(job[w].row)
  BY DEF TypeOK, Job, RowsOK
<1>2. /\ row.count = job[w].row.count
      /\ row.payment = job[w].row.payment
      /\ row.completedAt = job[w].row.completedAt
  BY <1>1 DEF Row
<1>3. \A x \in {Created(row), Confirmed(Created(row))} :
        /\ x.count = row.count
        /\ x.payment = row.payment
        /\ x.completedAt = row.completedAt
        /\ x.state \in {"created", "confirmed"}
  BY <1>1 DEF Created, Confirmed, Row
<1>4. NewOrder(w) \in {Created(row), Confirmed(Created(row))}
  BY DEF NewOrder
<1> QED
  BY <1>1, <1>2, <1>3, <1>4 DEF RowOK, MoneyBacked

LEMMA CreateOK ==
  ASSUME TypeOK, RowsOK, NEW w \in Workers,
         \/ \E s \in Sessions : Reserve(w, s)
         \/ \E t \in PickupTimes : StartDelivery(w, t)
         \/ CountOrders(w)
         \/ InsertOrder(w)
  PROVE  RowsOK'
<1>1. ASSUME NEW s \in Sessions, Reserve(w, s)
      PROVE  RowsOK'
  <2> DEFINE row == [NoRow EXCEPT !.session = s, !.pickup = StartsAt[s]]
  <2>1. RowOK(row)
    BY NoRowOK DEF RowOK, MoneyBacked, NoRow
  <2> DEFINE j == [Idle EXCEPT !.pc = "counting", !.handler = "create", !.row = row]
  <2>2. j.row = row /\ job' = [job EXCEPT ![w] = j] /\ UNCHANGED <<orders, now>>
    BY <1>1 DEF Reserve, Idle
  <2> HIDE DEF j, row
  <2> QED
    BY <2>1, <2>2, JobRowOK
<1>2. ASSUME NEW t \in PickupTimes, StartDelivery(w, t)
      PROVE  RowsOK'
  <2> DEFINE row == [NoRow EXCEPT !.kind = "delivery", !.pickup = t]
  <2>1. RowOK(row)
    BY NoRowOK DEF RowOK, MoneyBacked, NoRow
  <2> DEFINE j == [Idle EXCEPT !.pc = "counting", !.handler = "create_delivery",
                               !.row = row]
  <2>2. j.row = row /\ job' = [job EXCEPT ![w] = j] /\ UNCHANGED <<orders, now>>
    BY <1>2 DEF StartDelivery, Idle
  <2> HIDE DEF j, row
  <2> QED
    BY <2>1, <2>2, JobRowOK
<1>3. CASE CountOrders(w)
  <2>1. PICK n : job' = [job EXCEPT ![w].pc = "inserting", ![w].seq = n]
    BY <1>3 DEF CountOrders
  <2>2. \A v \in Workers : job'[v].row = job[v].row
    BY <2>1 DEF TypeOK, Job
  <2> QED
    BY <1>3, <2>2 DEF CountOrders, RowsOK, RowOK, MoneyBacked
<1>4. CASE InsertOrder(w)
  <2>1. RowOK(NewOrder(w)) /\ RowOK(NoRow)
    BY NewOrderOK, NoRowOK
  <2>2. \A o \in Orders : orders'[o] = orders[o] \/ orders'[o] = NewOrder(w)
    BY <1>4 DEF InsertOrder, TypeOK
  <2>3. \A v \in Workers : job'[v].row = job[v].row \/ job'[v].row = NoRow
    <3>1. CASE Answer(w)
      BY <3>1 DEF Answer, TypeOK, Idle
    <3>2. CASE \E o \in Orders :
                 job' = [job EXCEPT ![w] = [Idle EXCEPT !.pc = "auditing", !.id = o,
                                                        !.handler = job[w].handler]]
      BY <3>2 DEF TypeOK, Idle
    <3> QED
      BY <1>4, <3>1, <3>2 DEF InsertOrder
  <2>4. now' = now
    BY <1>4 DEF InsertOrder
  <2> QED
    BY <2>1, <2>2, <2>3, <2>4 DEF RowsOK, RowOK, MoneyBacked
<1> QED
  BY <1>1, <1>2, <1>3, <1>4

LEMMA DecideOK ==
  ASSUME TypeOK, RowsOK, NEW w \in Workers,
         \/ DecideReschedule(w) \/ DecideCancel(w) \/ DecideComplete(w)
         \/ DecideRequestRefund(w) \/ DecideApproveRefund(w)
         \/ DecideRollback(w) \/ DecideAssign(w)
  PROVE  RowsOK'
<1> DEFINE row == job[w].row
<1>1. row \in Row /\ RowOK(row) /\ now \in Int
  BY ServiceAssumption DEF TypeOK, Job, RowsOK
<1>2. \A s \in {"pending_approval", "cancelled", "rolled_back", "in_progress"} :
        RowOK([row EXCEPT !.state = s]) /\ [row EXCEPT !.state = s] \in Row
  BY <1>1, RestatedOK, MachineType DEF States
<1>3. CASE DecideReschedule(w)
  <2>1. PICK t \in PickupTimes : Proceed(w, Rescheduled(row, t))
    BY <1>3 DEF DecideReschedule
  <2>2. t \in Int
    BY ServiceAssumption
  <2>3. Rescheduled(row, t) \in Row
    BY <1>1, <2>2, MachineType DEF States
  <2>4. RowOK(Rescheduled(row, t))
    BY <1>1, <1>3, <2>2, RescheduledOK DEF DecideReschedule
  <2> QED
    BY <2>1, <2>3, <2>4, ProceedOK
<1>4. CASE DecideComplete(w)
  <2>1. Completed(row, now) \in Row
    BY <1>1, MachineType DEF States
  <2>2. RowOK(Completed(row, now))
    BY <1>1, CompletedOK
  <2> QED
    BY <1>4, <2>1, <2>2, ProceedOK DEF DecideComplete
<1>5. CASE DecideRequestRefund(w)
  <2>1. RefundRequested(row) \in Row
    BY <1>1, MachineType DEF States
  <2>2. RowOK(RefundRequested(row))
    BY <1>1, <1>5, RefundRequestedOK DEF DecideRequestRefund
  <2> QED
    BY <1>5, <2>1, <2>2, ProceedOK DEF DecideRequestRefund
<1>6. CASE DecideApproveRefund(w)
  <2>1. RefundApproved(row) \in Row
    BY <1>1, MachineType DEF States
  <2>2. RowOK(RefundApproved(row))
    BY <1>1, <1>6, RefundApprovedOK DEF DecideApproveRefund
  <2> QED
    BY <1>6, <2>1, <2>2, ProceedOK DEF DecideApproveRefund
<1>7. CASE DecideCancel(w) \/ DecideRollback(w) \/ DecideAssign(w)
  <2>1. \E s \in {"pending_approval", "cancelled", "rolled_back", "in_progress"} :
          Proceed(w, [row EXCEPT !.state = s])
    BY <1>7 DEF DecideCancel, DecideRollback, DecideAssign, Cancelled, RolledBack
  <2> HIDE DEF row
  <2> QED
    BY <1>2, <2>1, ProceedOK
<1> QED
  BY <1>3, <1>4, <1>5, <1>6, <1>7

\* UpdateOrder stores the copy, stale or not.
LEMMA StoreOK ==
  ASSUME TypeOK, RowsOK, NEW w \in Workers, StoreOrder(w)
  PROVE  RowsOK'
<1> DEFINE rest == [NoRow EXCEPT !.session = job[w].row.session]
<1>1. RowOK(NoRow) /\ RowOK(rest)
  BY NoRowOK DEF RowOK, MoneyBacked, NoRow
<1>2. \A o \in Orders : orders'[o] = orders[o] \/ orders'[o] = job[w].row
  BY DEF StoreOrder, TypeOK
<1>3. \A v \in Workers : \/ job'[v].row = job[v].row
                         \/ job'[v].row = NoRow
                         \/ job'[v].row = rest
  BY DEF StoreOrder, Answer, TypeOK, Job, Idle
<1>4. now' = now
  BY DEF StoreOrder
<1> HIDE DEF rest
<1> QED
  BY <1>1, <1>2, <1>3, <1>4 DEF RowsOK, RowOK, MoneyBacked

LEMMA RowsStep == TypeOK /\ RowsOK /\ [Next]_vars => RowsOK'
<1> SUFFICES ASSUME TypeOK, RowsOK, [Next]_vars
             PROVE  RowsOK'
  OBVIOUS
<1>1. CASE UNCHANGED vars \/ Rest
  BY <1>1 DEF RowsOK, RowOK, MoneyBacked, Rest, vars
<1>2. CASE Tick
  BY <1>2, ServiceAssumption DEF RowsOK, RowOK, MoneyBacked, Tick, TypeOK
<1>3. ASSUME NEW w \in Workers, NEW h \in Handlers, NEW o \in Orders, Load(w, h, o)
      PROVE  RowsOK'
  <2>1. RowOK(orders[o])
    BY DEF RowsOK
  <2> DEFINE j == [Idle EXCEPT !.pc = "loaded", !.id = o, !.handler = h,
                               !.row = orders[o]]
  <2>2. j.row = orders[o] /\ job' = [job EXCEPT ![w] = j] /\ UNCHANGED <<orders, now>>
    BY <1>3 DEF Load, Idle
  <2> HIDE DEF j
  <2> QED
    BY <2>1, <2>2, JobRowOK
<1>4. ASSUME NEW w \in Workers, Serve(w)
      PROVE  RowsOK'
  <2>1. CASE Refuse(w) \/ AppendAudit(w) \/ Abort(w)
    BY <2>1, AnswerOK DEF Refuse, AppendAudit, Abort
  <2>2. CASE ReleaseSeat(w)
    <3>1. \A v \in Workers : job'[v].row = job[v].row
      BY <2>2 DEF ReleaseSeat, Goto, TypeOK, Job
    <3> QED
      BY <2>2, <3>1 DEF ReleaseSeat, RowsOK, RowOK, MoneyBacked
  <2> QED
    BY <1>4, <2>1, <2>2, CreateOK, DecideOK, StoreOK DEF Serve
<1> QED
  BY <1>1, <1>2, <1>3, <1>4, CreateOK DEF Next

\* No reachable state holds an order whose payment is not backed by a
\* completion and a refund request, an order rescheduled past the cap, or a
\* session booked past its capacity, whatever requests overlap or fail.
THEOREM OrdersSafe == Spec => [](RefundsBacked /\ RescheduleCap /\ CapacityRespected)
<1> DEFINE IInv == TypeOK /\ RowsOK /\ CapacityRespected
<1>1. Init => IInv
  <2> SUFFICES ASSUME Init
               PROVE  IInv
    OBVIOUS
  <2>1. TypeOK
    BY InitType
  <2>2. RowsOK
    BY <2>1, NoRowOK DEF Init, RowsOK, Idle
  <2>3. CapacityRespected
    BY ServiceAssumption DEF Init, CapacityRespected
  <2> QED
    BY <2>1, <2>2, <2>3
<1>2. IInv /\ [Next]_vars => IInv'
  BY TypeStep, RowsStep, CapacityStep
<1>3. IInv => RefundsBacked /\ RescheduleCap /\ CapacityRespected
  BY DEF RowsOK, RowOK, RefundsBacked, RescheduleCap
<1> QED
  BY <1>1, <1>2, <1>3, PTL DEF Spec

\* No order in the table was rescheduled more often than the machine allows,
\* whichever copies were written back over one another.
THEOREM ReschedulesCapped == Spec => []RescheduleCap
<1>1. RefundsBacked /\ RescheduleCap /\ CapacityRespected => RescheduleCap
  OBVIOUS
<1> QED
  BY <1>1, OrdersSafe, PTL

\* No session's counter goes past its capacity, whatever overlaps or fails
\* between a seat's sale and its return.
THEOREM SeatsCapped == Spec => []CapacityRespected
<1>1. RefundsBacked /\ RescheduleCap /\ CapacityRespected => CapacityRespected
  OBVIOUS
<1> QED
  BY <1>1, OrdersSafe, PTL

-----------------------------------------------------------------------------
\* Every stored state is in the audit log, or about to be.

\* A job may be replaced by one that will store only what it audits.
LEMMA AccountableJobs ==
  ASSUME TypeOK, HandlersAccountable, NEW w \in Workers, NEW j, Accountable(j),
         job' = [job EXCEPT ![w] = j]
  PROVE  HandlersAccountable'
<1>1. \A v \in Workers : job'[v] = IF v = w THEN j ELSE job[v]
  BY DEF TypeOK
<1> QED
  BY <1>1 DEF HandlersAccountable, Accountable

LEMMA IdleAccountable == Accountable(Idle)
  BY DEF Accountable, Idle

\* A step of a job that owes no entry takes no entry away.
LEMMA NothingOwed ==
  ASSUME TypeOK, EveryStateAudited, NEW w \in Workers, NEW j,
         job[w].pc \notin {"releasing", "auditing"},
         job' = [job EXCEPT ![w] = j], UNCHANGED <<orders, audited>>
  PROVE  EveryStateAudited'
<1>1. \A v \in Workers \ {w} : job'[v] = job[v]
  BY DEF TypeOK
<1>2. \A o \in Orders : \A h \in Handlers, v \in Workers :
        AboutToAudit(v, o, h) => AboutToAudit(v, o, h)'
  BY <1>1 DEF AboutToAudit
<1> SUFFICES ASSUME Store = "memory", NEW o \in Orders,
                    orders[o].state \notin {"absent", "pending_approval"}
             PROVE  \E h \in Explaining(orders[o].state) :
                      \/ audited[o][h] > 0
                      \/ \E v \in Workers : AboutToAudit(v, o, h)'
  BY DEF EveryStateAudited, AboutToAudit
<1>3. PICK h \in Explaining(orders[o].state) :
        \/ audited[o][h] > 0
        \/ \E v \in Workers : AboutToAudit(v, o, h)
  BY DEF EveryStateAudited
<1>4. h \in Handlers
  BY DEF Explaining, Handlers
<1> QED
  BY <1>2, <1>3, <1>4

\* A step that stores a new state of order i and now owes its entry.
LEMMA NewlyOwed ==
  ASSUME TypeOK, EveryStateAudited, NEW w \in Workers, NEW i \in Orders,
         NEW row, NEW j,
         job[w].pc \notin {"releasing", "auditing"},
         orders' = [orders EXCEPT ![i] = row], audited' = audited,
         job' = [job EXCEPT ![w] = j],
         \/ row.state = "pending_approval"
         \/ /\ j.pc \in {"releasing", "auditing"}
            /\ j.id = i
            /\ j.handler \in Explaining(row.state)
  PROVE  EveryStateAudited'
<1>1. \A v \in Workers : job'[v] = IF v = w THEN j ELSE job[v]
  BY DEF TypeOK
<1>2. \A o \in Orders : orders'[o] = IF o = i THEN row ELSE orders[o]
  BY DEF TypeOK
<1>3. \A o \in Orders : \A h \in Handlers, v \in Workers :
        AboutToAudit(v, o, h) => AboutToAudit(v, o, h)'
  BY <1>1 DEF AboutToAudit
<1> SUFFICES ASSUME Store = "memory", NEW o \in Orders,
                    orders'[o].state \notin {"absent", "pending_approval"}
             PROVE  \E h \in Explaining(orders'[o].state) :
                      \/ audited'[o][h] > 0
                      \/ \E v \in Workers : AboutToAudit(v, o, h)'
  BY DEF EveryStateAudited, AboutToAudit
<1>4. CASE o = i
  <2>1. AboutToAudit(w, o, j.handler)'
    BY <1>1, <1>2, <1>4 DEF AboutToAudit
  <2> QED
    BY <1>2, <1>4, <2>1
<1>5. CASE o # i
  <2>1. PICK h \in Explaining(orders[o].state) :
          \/ audited[o][h] > 0
          \/ \E v \in Workers : AboutToAudit(v, o, h)
    BY <1>2, <1>5 DEF EveryStateAudited
  <2>2. h \in Handlers
    BY DEF Explaining, Handlers
  <2> QED
    BY <1>2, <1>3, <1>5, <2>1, <2>2
<1> QED
  BY <1>4, <1>5

\* A create handler builds an order in the state its audit action explains.
LEMMA NewOrderState ==
  ASSUME TypeOK, NEW w \in Workers,
         job[w].handler \in {"create", "create_delivery"}
  PROVE  job[w].handler \in Explaining(NewOrder(w).state)
<1> DEFINE row == [job[w].row EXCEPT !.number = [day |-> DayOf[now],
                                                 seq |-> job[w].seq + 1]]
<1>1. job[w].row \in Row
  BY DEF TypeOK, Job
<1>2. Created(row).state = "created" /\ Confirmed(Created(row)).state = "confirmed"
  BY <1>1 DEF Row, Created, Confirmed
<1>3. NewOrder(w) = IF job[w].handler = "create" THEN Confirmed(Created(row))
                    ELSE Created(row)
  BY <1>2 DEF NewOrder, CanConfirm
<1> QED
  BY <1>2, <1>3 DEF Explaining

\* The two create handlers.
LEMMA CreateAccounted ==
  ASSUME TypeOK, Accounted, NEW w \in Workers,
         \/ \E s \in Sessions : Reserve(w, s)
         \/ \E t \in PickupTimes : StartDelivery(w, t)
         \/ CountOrders(w)
         \/ InsertOrder(w)
  PROVE  Accounted'
<1>1. CASE \/ \E s \in Sessions : Reserve(w, s)
           \/ \E t \in PickupTimes : StartDelivery(w, t)
  <2>1. /\ job[w].pc = "idle"
        /\ UNCHANGED <<orders, audited>>
    BY <1>1 DEF Reserve, StartDelivery, Begin
  <2> DEFINE Started(j) == /\ job' = [job EXCEPT ![w] = j]
                           /\ j.pc = "counting"
                           /\ j.handler \in {"create", "create_delivery"}
  <2>2. PICK j : Started(j)
    <3>1. ASSUME NEW s \in Sessions, Reserve(w, s)
          PROVE  \E j : Started(j)
      <4> DEFINE new == [Idle EXCEPT !.pc = "counting", !.handler = "create",
                           !.row = [NoRow EXCEPT !.session = s, !.pickup = StartsAt[s]]]
      <4>1. new.pc = "counting" /\ new.handler = "create"
        BY DEF Idle
      <4>2. job' = [job EXCEPT ![w] = new]
        BY <3>1 DEF Reserve
      <4> HIDE DEF new
      <4> QED
        BY <4>1, <4>2
    <3>2. ASSUME NEW t \in PickupTimes, StartDelivery(w, t)
          PROVE  \E j : Started(j)
      <4> DEFINE new == [Idle EXCEPT !.pc = "counting", !.handler = "create_delivery",
                           !.row = [NoRow EXCEPT !.kind = "delivery", !.pickup = t]]
      <4>1. new.pc = "counting" /\ new.handler = "create_delivery"
        BY DEF Idle
      <4>2. job' = [job EXCEPT ![w] = new]
        BY <3>2 DEF StartDelivery
      <4> HIDE DEF new
      <4> QED
        BY <4>1, <4>2
    <3> QED
      BY <1>1, <3>1, <3>2
  <2>3. Accountable(j)
    BY <2>2 DEF Accountable
  <2> QED
    BY <2>1, <2>2, <2>3, AccountableJobs, NothingOwed DEF Accounted
<1>2. CASE CountOrders(w)
  <2>1. PICK n : job' = [job EXCEPT ![w].pc = "inserting", ![w].seq = n]
    BY <1>2 DEF CountOrders
  <2> DEFINE j == [job[w] EXCEPT !.pc = "inserting", !.seq = n]
  <2>2. job' = [job EXCEPT ![w] = j]
    BY <2>1 DEF TypeOK
  <2>3. job[w].pc = "counting" /\ UNCHANGED <<orders, audited>>
    BY <1>2 DEF CountOrders
  <2>4. j.pc = "inserting" /\ j.handler = job[w].handler
    BY DEF TypeOK, Job
  <2>5. Accountable(j)
    BY <2>3, <2>4 DEF Accounted, HandlersAccountable, Accountable
  <2> HIDE DEF j
  <2> QED
    BY <2>2, <2>3, <2>5, AccountableJobs, NothingOwed DEF Accounted
<1>3. CASE InsertOrder(w)
  <2>1. /\ job[w].pc = "inserting"
        /\ job[w].handler \in {"create", "create_delivery"}
        /\ audited' = audited
    BY <1>3 DEF InsertOrder, Accounted, HandlersAccountable, Accountable
  <2>2. CASE Answer(w) /\ UNCHANGED orders
    <3>1. job' = [job EXCEPT ![w] = Idle]
      BY <2>2 DEF Answer
    <3> QED
      BY <2>1, <2>2, <3>1, IdleAccountable, AccountableJobs, NothingOwed DEF Accounted
  <2>3. ASSUME NEW o \in Orders,
               orders' = [orders EXCEPT ![o] = NewOrder(w)],
               job' = [job EXCEPT ![w] = [Idle EXCEPT !.pc = "auditing", !.id = o,
                                                      !.handler = job[w].handler]]
        PROVE  Accounted'
    <3> DEFINE j == [Idle EXCEPT !.pc = "auditing", !.id = o, !.handler = job[w].handler]
    <3>1. j.pc = "auditing" /\ j.id = o /\ j.handler = job[w].handler
      BY DEF Idle
    <3>2. Accountable(j)
      BY <2>1, <3>1 DEF Accountable, Handlers
    <3>3. job[w].handler \in Explaining(NewOrder(w).state)
      BY <2>1, NewOrderState
    <3> HIDE DEF j
    <3>4. job' = [job EXCEPT ![w] = j]
      BY <2>3 DEF j
    <3>5. HandlersAccountable'
      BY <3>2, <3>4, AccountableJobs DEF Accounted
    <3>6. EveryStateAudited'
      BY <2>1, <2>3, <3>1, <3>3, <3>4, NewlyOwed DEF Accounted
    <3> QED
      BY <3>5, <3>6 DEF Accounted
  <2> QED
    BY <1>3, <2>2, <2>3 DEF InsertOrder
<1> QED
  BY <1>1, <1>2, <1>3

\* A decision leaves a row to store whose new state its handler audits.
LEMMA ProceedAccounted ==
  ASSUME TypeOK, Accounted, NEW w \in Workers, NEW row, Proceed(w, row),
         job[w].pc = "loaded",
         row.state = "pending_approval" \/ job[w].handler \in Explaining(row.state)
  PROVE  Accounted'
<1> DEFINE j == [job[w] EXCEPT !.pc = "storing", !.row = row]
<1>1. /\ j.pc = "storing" /\ j.row = row
      /\ j.handler = job[w].handler /\ j.id = job[w].id
  BY DEF TypeOK, Job
<1>2. job' = [job EXCEPT ![w] = j] /\ UNCHANGED <<orders, audited>>
  BY DEF Proceed, TypeOK
<1>3. Accountable(j)
  BY <1>1 DEF Accounted, HandlersAccountable, Accountable
<1> HIDE DEF j
<1> QED
  BY <1>2, <1>3, AccountableJobs, NothingOwed DEF Accounted

LEMMA DecideAccounted ==
  ASSUME TypeOK, Accounted, NEW w \in Workers,
         \/ DecideReschedule(w) \/ DecideCancel(w) \/ DecideComplete(w)
         \/ DecideRequestRefund(w) \/ DecideApproveRefund(w)
         \/ DecideRollback(w) \/ DecideAssign(w)
  PROVE  Accounted'
<1> DEFINE row == job[w].row
<1>1. row \in Row
  BY DEF TypeOK, Job
<1>2. job[w].pc = "loaded"
  BY DEF DecideReschedule, DecideCancel, DecideComplete, DecideRequestRefund,
         DecideApproveRefund, DecideRollback, DecideAssign, At
<1>3. CASE DecideReschedule(w)
  <2>1. PICK t \in PickupTimes : Proceed(w, Rescheduled(row, t))
    BY <1>3 DEF DecideReschedule
  <2>2. Rescheduled(row, t).state = "rescheduled"
    BY <1>1 DEF Rescheduled, Row
  <2>3. job[w].handler \in Explaining(Rescheduled(row, t).state)
    BY <1>3, <2>2 DEF DecideReschedule, At, Explaining
  <2> QED
    BY <1>2, <2>1, <2>3, ProceedAccounted
<1>4. CASE DecideCancel(w)
  <2> DEFINE waiting == [row EXCEPT !.state = "pending_approval"]
  <2>1. waiting.state = "pending_approval" /\ Cancelled(row).state = "cancelled"
    BY <1>1 DEF Cancelled, Row
  <2>2. job[w].handler \in Explaining(Cancelled(row).state)
    BY <1>4, <2>1 DEF DecideCancel, At, Explaining
  <2>3. Proceed(w, waiting) \/ Proceed(w, Cancelled(row))
    BY <1>4 DEF DecideCancel
  <2> HIDE DEF waiting
  <2> QED
    BY <1>2, <2>1, <2>2, <2>3, ProceedAccounted
<1>5. CASE DecideComplete(w)
  <2>1. Completed(row, now).state = "completed"
    BY <1>1 DEF Completed, Row
  <2>2. job[w].handler \in Explaining(Completed(row, now).state)
    BY <1>5, <2>1 DEF DecideComplete, Explaining
  <2> QED
    BY <1>2, <1>5, <2>2, ProceedAccounted DEF DecideComplete
<1>6. CASE DecideRequestRefund(w)
  <2>1. RefundRequested(row).state = "refund_review"
    BY <1>1 DEF RefundRequested, Row
  <2>2. job[w].handler \in Explaining(RefundRequested(row).state)
    BY <1>6, <2>1 DEF DecideRequestRefund, At, Explaining
  <2> QED
    BY <1>2, <1>6, <2>2, ProceedAccounted DEF DecideRequestRefund
<1>7. CASE DecideApproveRefund(w)
  <2>1. RefundApproved(row).state = "refunded"
    BY <1>1 DEF RefundApproved, Row
  <2>2. job[w].handler \in Explaining(RefundApproved(row).state)
    BY <1>7, <2>1 DEF DecideApproveRefund, At, Explaining
  <2> QED
    BY <1>2, <1>7, <2>2, ProceedAccounted DEF DecideApproveRefund
<1>8. CASE DecideRollback(w)
  <2>1. RolledBack(row).state = "rolled_back"
    BY <1>1 DEF RolledBack, Row
  <2>2. job[w].handler \in Explaining(RolledBack(row).state)
    BY <1>8, <2>1 DEF DecideRollback, At, Explaining
  <2> QED
    BY <1>2, <1>8, <2>2, ProceedAccounted DEF DecideRollback
<1>9. CASE DecideAssign(w)
  <2> DEFINE assigned == [row EXCEPT !.state = "in_progress"]
  <2>1. assigned.state = "in_progress"
    BY <1>1 DEF Row
  <2>2. job[w].handler \in Explaining(assigned.state)
    BY <1>9, <2>1 DEF DecideAssign, At, Explaining
  <2>3. Proceed(w, assigned)
    BY <1>9 DEF DecideAssign
  <2> HIDE DEF assigned
  <2> QED
    BY <1>2, <2>2, <2>3, ProceedAccounted
<1> QED
  BY <1>3, <1>4, <1>5, <1>6, <1>7, <1>8, <1>9

\* UpdateOrder: the state stored is the one this request will audit.
LEMMA StoreAccounted ==
  ASSUME TypeOK, Accounted, NEW w \in Workers, StoreOrder(w)
  PROVE  Accounted'
<1> DEFINE i == job[w].id
           row == job[w].row
           j == [job[w] EXCEPT !.pc = AfterStore(job[w].handler),
                               !.row = [NoRow EXCEPT !.session = row.session]]
<1>1. /\ job[w].pc = "storing"
      /\ i \in Orders /\ job[w].handler \in Handlers
      /\ row.state = "pending_approval" \/ job[w].handler \in Explaining(row.state)
  BY DEF StoreOrder, Accounted, HandlersAccountable, Accountable
<1>2. orders' = [orders EXCEPT ![i] = row] /\ audited' = audited
  BY DEF StoreOrder
<1>3. CASE row.state = "pending_approval"
  <2>1. job' = [job EXCEPT ![w] = Idle]
    BY <1>3 DEF StoreOrder, Answer
  <2>2. HandlersAccountable'
    BY <2>1, IdleAccountable, AccountableJobs DEF Accounted
  <2> HIDE DEF i, row
  <2>3. EveryStateAudited'
    BY <1>1, <1>2, <1>3, <2>1, NewlyOwed DEF Accounted
  <2> QED
    BY <2>2, <2>3 DEF Accounted
<1>4. CASE row.state # "pending_approval"
  <2>1. job' = [job EXCEPT ![w] = j]
    BY <1>4 DEF StoreOrder, TypeOK
  <2>2. j.pc \in {"releasing", "auditing"} /\ j.id = i /\ j.handler = job[w].handler
    BY DEF AfterStore, TypeOK, Job
  <2>3. Accountable(j)
    BY <1>1, <2>2 DEF Accountable
  <2> HIDE DEF i, row, j
  <2>4. HandlersAccountable'
    BY <2>1, <2>3, AccountableJobs DEF Accounted
  <2>5. EveryStateAudited'
    BY <1>1, <1>2, <1>4, <2>1, <2>2, NewlyOwed DEF Accounted
  <2> QED
    BY <2>4, <2>5 DEF Accounted
<1> QED
  BY <1>3, <1>4

\* The seat is given back: the entry is still owed.
LEMMA ReleaseAccounted ==
  ASSUME TypeOK, Accounted, NEW w \in Workers, ReleaseSeat(w)
  PROVE  Accounted'
<1> DEFINE j == [job[w] EXCEPT !.pc = "auditing"]
<1>1. job' = [job EXCEPT ![w] = j] /\ UNCHANGED <<orders, audited>>
  BY DEF ReleaseSeat, Goto, TypeOK
<1>2. j.pc = "auditing" /\ j.id = job[w].id /\ j.handler = job[w].handler
  BY DEF TypeOK, Job
<1>3. job[w].pc = "releasing"
  BY DEF ReleaseSeat
<1>4. Accountable(j)
  BY <1>2, <1>3 DEF Accounted, HandlersAccountable, Accountable
<1> HIDE DEF j
<1>5. \A v \in Workers : job'[v] = IF v = w THEN j ELSE job[v]
  BY <1>1 DEF TypeOK
<1>6. \A v \in Workers, o \in Orders : \A h \in Handlers :
        AboutToAudit(v, o, h) => AboutToAudit(v, o, h)'
  BY <1>2, <1>5 DEF AboutToAudit
<1>7. \A state : Explaining(state) \subseteq Handlers
  BY DEF Explaining, Handlers
<1>8. EveryStateAudited'
  BY <1>1, <1>6, <1>7 DEF Accounted, EveryStateAudited
<1> QED
  BY <1>1, <1>4, <1>8, AccountableJobs DEF Accounted

\* chain.Append pays the entry.
LEMMA AppendAccounted ==
  ASSUME TypeOK, Accounted, NEW w \in Workers, AppendAudit(w)
  PROVE  Accounted'
<1> DEFINE i == job[w].id
           g == job[w].handler
<1>1. job[w].pc = "auditing" /\ i \in Orders /\ g \in Handlers
  BY DEF AppendAudit, Accounted, HandlersAccountable, Accountable
<1>2. job' = [job EXCEPT ![w] = Idle] /\ orders' = orders
  BY DEF AppendAudit, Answer
<1>3. audited' = [audited EXCEPT ![i][g] = @ + 1]
  BY DEF AppendAudit
<1> HIDE DEF i, g
<1>4. \A o \in Orders : \A h \in Handlers :
        audited'[o][h] = IF o = i /\ h = g THEN audited[o][h] + 1 ELSE audited[o][h]
  BY <1>1, <1>3 DEF TypeOK
<1>5. \A o \in Orders : \A h \in Handlers : audited[o][h] \in Nat
  BY DEF TypeOK
<1>6. \A v \in Workers \ {w} : job'[v] = job[v]
  BY <1>2 DEF TypeOK
<1>7. \A v \in Workers, o \in Orders : \A h \in Handlers :
        AboutToAudit(v, o, h) => AboutToAudit(v, o, h)' \/ audited'[o][h] > 0
  BY <1>4, <1>5, <1>6 DEF AboutToAudit, i, g
<1>8. \A o \in Orders : \A h \in Handlers : audited[o][h] > 0 => audited'[o][h] > 0
  BY <1>4, <1>5
<1>9. \A state : Explaining(state) \subseteq Handlers
  BY DEF Explaining, Handlers
<1>10. EveryStateAudited'
  BY <1>2, <1>7, <1>8, <1>9 DEF Accounted, EveryStateAudited
<1> QED
  BY <1>2, <1>10, IdleAccountable, AccountableJobs DEF Accounted

LEMMA AccountedStep == TypeOK /\ Accounted /\ [Next]_vars => Accounted'
<1> SUFFICES ASSUME TypeOK, Accounted, [Next]_vars
             PROVE  Accounted'
  OBVIOUS
<1>1. CASE UNCHANGED vars \/ Rest \/ Tick
  BY <1>1 DEF Accounted, HandlersAccountable, EveryStateAudited, AboutToAudit,
              Rest, Tick, vars
<1>2. ASSUME NEW w \in Workers, NEW h \in Handlers, NEW o \in Orders, Load(w, h, o)
      PROVE  Accounted'
  <2> DEFINE j == [Idle EXCEPT !.pc = "loaded", !.id = o, !.handler = h,
                               !.row = orders[o]]
  <2>1. /\ job[w].pc = "idle" /\ job' = [job EXCEPT ![w] = j]
        /\ UNCHANGED <<orders, audited>>
    BY <1>2 DEF Load, Begin
  <2>2. j.pc = "loaded" /\ j.id = o /\ j.handler = h
    BY DEF Idle
  <2>3. Accountable(j)
    BY <2>2 DEF Accountable
  <2> HIDE DEF j
  <2> QED
    BY <2>1, <2>3, AccountableJobs, NothingOwed DEF Accounted
<1>3. ASSUME NEW w \in Workers, Serve(w)
      PROVE  Accounted'
  <2>1. CASE Refuse(w)
    <3>1. /\ job[w].pc = "loaded" /\ job' = [job EXCEPT ![w] = Idle]
          /\ UNCHANGED <<orders, audited>>
      BY <2>1 DEF Refuse, Answer
    <3> QED
      BY <3>1, IdleAccountable, AccountableJobs, NothingOwed DEF Accounted
  <2>2. CASE Abort(w)
    <3>1. Store = "postgres" /\ job' = [job EXCEPT ![w] = Idle]
      BY <2>2 DEF Abort, Answer
    <3> QED
      BY <3>1, IdleAccountable, AccountableJobs DEF Accounted, EveryStateAudited
  <2> QED
    BY <1>3, <2>1, <2>2, CreateAccounted, DecideAccounted, StoreAccounted,
       ReleaseAccounted, AppendAccounted DEF Serve
<1> QED
  BY <1>1, <1>2, <1>3, CreateAccounted DEF Next

\* Over the Memory store, however many requests overlap, no order is ever in a
\* state (but pending_approval) that the audit log does not explain, unless
\* the handler that stored it is just about to append the entry.
THEOREM StatesAudited == Spec => []EveryStateAudited
<1>1. Init => TypeOK /\ Accounted
  BY InitType DEF Init, Accounted, HandlersAccountable, Accountable, Idle,
                  EveryStateAudited, NoRow
<1>2. TypeOK /\ Accounted /\ [Next]_vars => (TypeOK /\ Accounted)'
  BY TypeStep, AccountedStep
<1>3. TypeOK /\ Accounted => EveryStateAudited
  BY DEF Accounted
<1> QED
  BY <1>1, <1>2, <1>3, PTL DEF Spec
=============================================================================
