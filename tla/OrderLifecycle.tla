--------------------------- MODULE OrderLifecycle ---------------------------
(***************************************************************************)
(* What the order endpoints promise a client, one atomic step per accepted *)
(* request: the state machine of bookings and deliveries, at most          *)
(* MaxReschedules reschedules, a refund only after completion and review,  *)
(* and never more bookings of a session than it has seats.  There is no    *)
(* seat counter here: the seats taken are the bookings not cancelled.      *)
(***************************************************************************)
EXTENDS Integers, FiniteSets

CONSTANTS Orders, Sessions, NoSession, Capacity, MaxReschedules

VARIABLE life  \* per order: its session, state, payment and reschedules

Absent == [session |-> NoSession, state |-> "absent", payment |-> "unpaid",
           count |-> 0]

Taken(s) == Cardinality({o \in Orders : /\ life[o].session = s
                                        /\ life[o].state # "cancelled"})

Init == life = [o \in Orders |-> Absent]

Book(o, s) ==
  /\ life[o] = Absent
  /\ Taken(s) < Capacity[s]
  /\ life' = [life EXCEPT ![o] = [Absent EXCEPT !.session = s,
                                                !.state = "confirmed"]]

OrderDelivery(o) ==
  /\ life[o] = Absent
  /\ life' = [life EXCEPT ![o].state = "created"]

Reschedule(o) ==
  /\ life[o].state \in {"confirmed", "rescheduled"}
  /\ life[o].count < MaxReschedules
  /\ life' = [life EXCEPT ![o].state = "rescheduled", ![o].count = @ + 1]

Cancellable(o) ==
  life[o].state \in {"created", "confirmed", "rescheduled",
                     "pending_approval", "refund_review"}

AskApproval(o) ==
  /\ Cancellable(o)
  /\ life' = [life EXCEPT ![o].state = "pending_approval"]

Cancel(o) ==
  /\ Cancellable(o)
  /\ life' = [life EXCEPT ![o].state = "cancelled"]

Complete(o) ==
  /\ life[o].state \in {"confirmed", "rescheduled"}
  /\ life' = [life EXCEPT ![o].state = "completed"]

RequestRefund(o) ==
  /\ life[o].state = "completed"
  /\ life' = [life EXCEPT ![o].state = "refund_review",
                          ![o].payment = "refund_pending"]

ApproveRefund(o) ==
  /\ life[o].state = "refund_review"
  /\ life' = [life EXCEPT ![o].state = "refunded", ![o].payment = "refunded"]

Next ==
  \E o \in Orders :
    \/ \E s \in Sessions : Book(o, s)
    \/ OrderDelivery(o)
    \/ Reschedule(o)
    \/ AskApproval(o)
    \/ Cancel(o)
    \/ Complete(o)
    \/ RequestRefund(o)
    \/ ApproveRefund(o)

Spec == Init /\ [][Next]_life
=============================================================================
