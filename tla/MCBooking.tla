------------------------------ MODULE MCBooking ------------------------------
(***************************************************************************)
(* Instances of BookingService for TLC: one session with one seat, one     *)
(* tick to a day, windows of one tick.                                     *)
(***************************************************************************)
EXTENDS SeatLedger, TLC

MCCapacity == [s \in Sessions |-> 1]
MCStartsAt == [s \in Sessions |-> 1]
MCDayOf == [t \in 0 .. MaxTime |-> t]
MCPickupTimes == {1}

\* What students and teachers do; no admin rollback, no courier assignment.
BookingTraffic == Handlers \ {"rollback", "assign"}

Symmetry == Permutations(Workers) \cup Permutations(Orders)
=============================================================================
