----------------------------- MODULE MCTimeline -----------------------------
(***************************************************************************)
(* Instances of MemoryTimeline.  With two workers one order is enough:     *)
(* every request meets it.  With one worker there are two orders and the   *)
(* seat counter is checked along with the timelines.  Arrays: one per      *)
(* order, one per worker, one to allocate.                                 *)
(***************************************************************************)
EXTENDS MemoryTimeline, BookingSerial, TLC

MCCapacity == [s \in Sessions |-> 1]
MCStartsAt == [s \in Sessions |-> 1]
MCPickupTimes == {1}
MCDayOf == [t \in 0 .. MaxTime |-> t]

\* What students and teachers do; no admin rollback, no courier assignment.
BookingTraffic == Handlers \ {"rollback", "assign"}
=============================================================================
