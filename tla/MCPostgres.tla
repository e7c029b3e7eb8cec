----------------------------- MODULE MCPostgres -----------------------------
(***************************************************************************)
(* Instances of PostgresTimeline: one session with one seat, one tick to a *)
(* day, windows of one tick.                                               *)
(***************************************************************************)
EXTENDS PostgresTimeline, BookingSerial, TLC

MCCapacity == [s \in Sessions |-> 1]
MCStartsAt == [s \in Sessions |-> 1]
MCPickupTimes == {1}
MCDayOf == [t \in 0 .. MaxTime |-> t]

\* What students and teachers do; no admin rollback, no courier assignment.
BookingTraffic == Handlers \ {"rollback", "assign"}

Symmetry == Permutations(Orders)
=============================================================================
