----------------------------- MODULE SeatLedger -----------------------------
(***************************************************************************)
(* What the seat counters of the sessions are worth when requests overlap  *)
(* and admins roll orders back or assign them: the service with a ledger   *)
(* of the one thing that puts a counter wrong.  UpdateOrder overwrites a   *)
(* cancelled booking, whose seat CancelBooking gives back, in two ways: a  *)
(* request whose copy is older than the cancellation, and an admin's       *)
(* rollback or assignment of it, which takes no seat.  A second            *)
(* cancellation of either gives a seat back again.                         *)
(***************************************************************************)
EXTENDS BookingSerial

VARIABLE overwritten  \* history: cancelled bookings of each session written over

ledgerVars == <<vars, overwritten>>

\* Worker w stores its copy over a cancelled booking of session s.
WritesOver(w, s) ==
  /\ StoreOrder(w)
  /\ orders[job[w].id].session = s
  /\ orders[job[w].id].state = "cancelled"

Over(s) == IF \E w \in Workers : WritesOver(w, s) THEN 1 ELSE 0

LInit == Init /\ overwritten = [s \in Sessions |-> 0]

LNext == Next /\ overwritten' = [s \in Sessions |-> overwritten[s] + Over(s)]

LSpec == LInit /\ [][LNext]_ledgerVars

-----------------------------------------------------------------------------
\* The seats of s in use, or held for a request in flight.
SeatsDue(s) == Cardinality(SeatHolders(s)) + Cardinality(InFlight(s))

\* Whatever overlaps or is rolled back, BookedSize is behind the seats in use
\* by no more than the cancelled bookings written over, one for each; and in
\* the Memory store, where no call fails, by exactly that many
\* (IncrementSessionBookings called by CreateBooking and CancelBooking).
SeatsAccounted ==
  \A s \in Sessions :
    /\ booked[s] + overwritten[s] >= SeatsDue(s)
    /\ Store = "memory" => booked[s] + overwritten[s] = SeatsDue(s)

\* So a session is sold over its capacity only as often as that happened: the
\* test and the increment are one store call (memory.go, postgres.go).
OversoldBound ==
  \A s \in Sessions : Cardinality(SeatHolders(s)) <= Capacity[s] + overwritten[s]
=============================================================================
