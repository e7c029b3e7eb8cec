---------------------------- MODULE BookingSerial ----------------------------
(***************************************************************************)
(* What the booking handlers guarantee when requests do not overlap (one   *)
(* worker), which is how the repository's tests drive them; several of     *)
(* these properties fail as soon as two requests are in flight, or an      *)
(* admin rolls back or re-assigns an order (the runs that expect a         *)
(* violation).                                                             *)
(***************************************************************************)
EXTENDS BookingService

\* Bookings of s whose student is still expected at the session.
Upcoming(s) ==
  {o \in Orders : orders[o].session = s /\ orders[o].state \in {"confirmed", "rescheduled"}}

\* Bookings of s that still own the seat reserved for them.
SeatHolders(s) ==
  {o \in Orders : orders[o].session = s /\ orders[o].state # "cancelled" /\ Exists(o)}

\* Seats of s counted in BookedSize for a request in flight: taken for a
\* booking not inserted yet, or not given back yet after a cancellation.
InFlight(s) ==
  {w \in Workers : job[w].row.session = s
                   /\ job[w].pc \in {"counting", "inserting", "releasing"}}

\* BookedSize counts exactly the seats in use: CreateBooking and
\* CancelBooking keep the counter and the orders table in step.
SeatsExact ==
  \A s \in Sessions :
    booked[s] = Cardinality(SeatHolders(s)) + Cardinality(InFlight(s))

\* However many calls fail half-way, BookedSize never counts fewer seats than
\* are in use, so CreateBooking cannot sell a seat twice.
SeatsCovered ==
  \A s \in Sessions :
    booked[s] >= Cardinality(SeatHolders(s)) + Cardinality(InFlight(s))

\* A session never has more upcoming bookings than seats.
NoOverselling == \A s \in Sessions : Cardinality(Upcoming(s)) <= Capacity[s]

\* An order accepts no more reschedule requests than the cap, counted in the
\* audit log and not in the order's own counter.
AcceptedReschedules == \A o \in Orders : audited[o]["reschedule"] <= MaxReschedules

\* The state a stored order may take next, by what it is in the table now and
\* not in the copy a handler read earlier.
CompletedFromActive ==
  [][\A o \in Orders :
       orders'[o].state = "completed" /\ orders[o].state # "completed" =>
         orders[o].state \in {"confirmed", "rescheduled", "in_progress"}]_vars

\* An order that was refunded or cancelled leaves that state only by rollback.
SettledStays ==
  [][\A o \in Orders :
       orders[o].state \in {"refunded", "cancelled"} =>
         orders'[o].state \in {orders[o].state, "rolled_back"}]_vars

-----------------------------------------------------------------------------
\* The orders table as a client of the endpoints sees it.
Lifecycle == INSTANCE OrderLifecycle WITH
  life <- [o \in Orders |-> [session |-> orders[o].session,
                             state   |-> orders[o].state,
                             payment |-> orders[o].payment,
                             count   |-> orders[o].count]]

\* One request at a time, the handlers together implement the atomic
\* lifecycle: seat counter, copies and partial failures are invisible.
ImplementsLifecycle == Lifecycle!Spec

-----------------------------------------------------------------------------
\* Once the clients have stopped, the counter settles on the seats in use: no
\* seat stays taken by a cancelled booking (memory store, one worker).
SeatsSettle ==
  <>[](\A s \in Sessions : booked[s] = Cardinality(SeatHolders(s)))
=============================================================================
