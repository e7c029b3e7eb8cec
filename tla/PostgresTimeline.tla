-------------------------- MODULE PostgresTimeline --------------------------
(***************************************************************************)
(* Order.Timeline in the Postgres store: the order_events table, a row for *)
(* each event, keyed by order and place.  OrderByID reads the order, then  *)
(* its events, and ignores an error of the second read; CreateOrder and    *)
(* UpdateOrder write the order, then delete its events and insert those of *)
(* the handler's copy, a statement each and no transaction around them.    *)
(*                                                                         *)
(*   OrderByID    PLoad -> PReadEvents                                     *)
(*   CreateOrder  PInsert -> PDeleteEvents -> PInsertEvent, once per event *)
(*   UpdateOrder  PStore  -> PDeleteEvents -> PInsertEvent, once per event *)
(*                                                                         *)
(* Each other step is a step of BookingService.  An event is the state it  *)
(* records.  past and frayed are history variables.                        *)
(***************************************************************************)
EXTENDS BookingService, SequencesExt

VARIABLES
  events,  \* the order_events table: [Orders -> places -> states]
  copy,    \* the Timeline of each worker's copy of an order
  sync,    \* the statement on order_events each worker is to run next
  past,    \* history: the states each order has been stored in
  frayed   \* history: orders whose events were not read or not all written

pVars == <<events, copy, sync, past, frayed>>
allVars == <<vars, events, copy, sync, past, frayed>>

NoRows == << >>

\* Nothing to do on order_events, or what to do next.
Ready == [do |-> "none", id |-> "none", place |-> 0]
Read(o) == [do |-> "read", id |-> o, place |-> 0]
Delete(o) == [do |-> "delete", id |-> o, place |-> 0]
Insert(o, n) == [do |-> "insert", id |-> o, place |-> n]

\* The elements of t in the given places, in order.
Picked(t, places) ==
  [i \in 1 .. Cardinality(places) |->
     t[CHOOSE n \in places : Cardinality({m \in places : m <= n}) = i]]

\* SELECT ... ORDER BY seq.
Shown(o) == Picked(events[o], DOMAIN events[o])

\* s is t with some of its elements left out.
Within(s, t) == \E places \in SUBSET DOMAIN t : s = Picked(t, places)

\* The states that CancelBooking and AssignCourier set without the Machine.
Untold == {"pending_approval", "in_progress"}
Told(t) == {n \in DOMAIN t : t[n] \notin Untold}

\* Create, and for a booking Confirm.
NewTimeline(w) ==
  IF job[w].handler = "create" THEN <<"created", "confirmed">> ELSE <<"created">>

PInit ==
  /\ Init
  /\ events = [o \in Orders |-> NoRows]
  /\ copy = [w \in Workers |-> << >>]
  /\ sync = [w \in Workers |-> Ready]
  /\ past = [o \in Orders |-> << >>]
  /\ frayed = {}

Synced(w) == sync[w] = Ready
Follow(w, s) == sync' = [sync EXCEPT ![w] = s]

-----------------------------------------------------------------------------
PLoad(w, h, o) ==
  /\ Synced(w)
  /\ Load(w, h, o)
  /\ Follow(w, Read(o))
  /\ UNCHANGED <<events, copy, past, frayed>>

\* loadOrderEvents: after an error the copy has no events at all.
PReadEvents(w, failed) ==
  /\ sync[w].do = "read"
  /\ copy' = [copy EXCEPT ![w] = IF failed THEN << >> ELSE Shown(sync[w].id)]
  /\ frayed' = IF failed THEN frayed \cup {sync[w].id} ELSE frayed
  /\ Follow(w, Ready)
  /\ UNCHANGED <<vars, events, past>>

\* Mutants: the event goes first; no event is appended.
AppendEventInFront(w, event) == copy' = [copy EXCEPT ![w] = <<event>> \o @]
AppendEventForgotten(w, event) == UNCHANGED copy

AppendEvent(w, event) == copy' = [copy EXCEPT ![w] = Append(@, event)]

\* A Machine method succeeded.
PTransition(w) ==
  /\ Synced(w)
  /\ \/ DecideReschedule(w)
     \/ DecideCancel(w)
     \/ DecideComplete(w)
     \/ DecideRequestRefund(w)
     \/ DecideApproveRefund(w)
     \/ DecideRollback(w)
  /\ job'[w].row.state # "pending_approval"
  /\ AppendEvent(w, job'[w].row.state)
  /\ UNCHANGED <<events, sync, past, frayed>>

\* CancelBooking and AssignCourier set the state themselves: no event.
PSetState(w) ==
  /\ Synced(w)
  /\ DecideCancel(w) \/ DecideAssign(w)
  /\ job'[w].row.state \in Untold
  /\ UNCHANGED pVars

\* The first statement of CreateOrder; one that fails ends the request.
PInsert(w) ==
  /\ InsertOrder(w)
  /\ IF orders' = orders THEN UNCHANGED <<copy, sync, past>>
     ELSE /\ copy' = [copy EXCEPT ![w] = NewTimeline(w)]
          /\ Follow(w, Delete(job'[w].id))
          /\ past' = [past EXCEPT ![job'[w].id] = NewTimeline(w)]
  /\ UNCHANGED <<events, frayed>>

\* The first statement of UpdateOrder.
PStore(w) ==
  /\ Synced(w)
  /\ StoreOrder(w)
  /\ Follow(w, Delete(job[w].id))
  /\ past' = [past EXCEPT ![job[w].id] = Append(@, job[w].row.state)]
  /\ UNCHANGED <<events, copy, frayed>>

\* What is left to insert from place n on, if anything.
From(w, n) == IF n <= Len(copy[w]) THEN Insert(sync[w].id, n) ELSE Ready

\* replaceOrderEvents, its first statement.
PDeleteEvents(w) ==
  /\ sync[w].do = "delete"
  /\ events' = [events EXCEPT ![sync[w].id] = NoRows]
  /\ Follow(w, From(w, 1))
  /\ UNCHANGED <<vars, copy, past, frayed>>

\* The next event of the copy.  When a request that overlaps has a row in its
\* place, the primary key refuses this one and the request ends.
PInsertEvent(w) ==
  LET o == sync[w].id
      n == sync[w].place
  IN /\ sync[w].do = "insert"
     /\ IF n \in DOMAIN events[o]
        THEN /\ Answer(w)
             /\ Follow(w, Ready)
             /\ frayed' = frayed \cup {o}
             /\ UNCHANGED <<orders, booked, now, audited, served, events>>
        ELSE /\ events' = [events EXCEPT ![o] =
                  [m \in DOMAIN @ \cup {n} |-> IF m = n THEN copy[w][n] ELSE @[m]]]
             /\ Follow(w, From(w, n + 1))
             /\ UNCHANGED <<vars, frayed>>
     /\ UNCHANGED <<copy, past>>

\* The other steps of a request; a finished one lets go of its copy.
PRest(w) ==
  /\ Synced(w)
  /\ Refuse(w) \/ CountOrders(w) \/ ReleaseSeat(w) \/ AppendAudit(w)
  /\ copy' = [copy EXCEPT ![w] = << >>]
  /\ UNCHANGED <<events, sync, past, frayed>>

PStart(w) ==
  /\ Synced(w)
  /\ \/ \E s \in Sessions : Reserve(w, s)
     \/ \E t \in PickupTimes : StartDelivery(w, t)
  /\ UNCHANGED pVars

\* A statement fails, between two of them or in the middle of a rewrite.
PAbort(w) ==
  /\ Abort(w) \/ (job[w].pc = "idle" /\ ~Synced(w) /\ UNCHANGED vars)
  /\ copy' = [copy EXCEPT ![w] = << >>]
  /\ Follow(w, Ready)
  /\ frayed' = IF sync[w].do \in {"delete", "insert"} THEN frayed \cup {sync[w].id}
               ELSE frayed
  /\ UNCHANGED <<events, past>>

PServe(w) ==
  \/ \E failed \in BOOLEAN : PReadEvents(w, failed)
  \/ PTransition(w)
  \/ PSetState(w)
  \/ PInsert(w)
  \/ PStore(w)
  \/ PDeleteEvents(w)
  \/ PInsertEvent(w)
  \/ PRest(w)
  \/ PAbort(w)

PNext ==
  \/ \E w \in Workers :
       \/ PStart(w)
       \/ \E h \in Handlers, o \in Orders : PLoad(w, h, o)
       \/ PServe(w)
  \/ (Tick \/ Rest) /\ UNCHANGED pVars

PSpec == PInit /\ [][PNext]_allVars

-----------------------------------------------------------------------------
Unfrayed == {o \in Orders \ frayed : \A w \in Workers : sync[w].id # o}

\* While no request is writing about an order and none has failed to read or
\* to write its events, the timeline shows every state the order was stored
\* in by a method of the Machine, in order: that the whole of it is deleted
\* and written again on every update does not show.  (The two states that
\* handlers set themselves are not, though docs/design.md says that each
\* transition appends a timeline entry.)
TimelineWhole == \A o \in Unfrayed : Shown(o) = Picked(past[o], Told(past[o]))

\* Whatever statements fail, a timeline can lose events, for good, but never
\* shows one that did not happen, or two in the wrong order.
TimelineTruthful == \A o \in Orders : Within(Shown(o), past[o])
=============================================================================
