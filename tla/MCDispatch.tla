----------------------------- MODULE MCDispatch -----------------------------
(***************************************************************************)
(* Dispatch for TLC: a courier of the organisation, one of no organisation *)
(* and one of another; half-hour slots, with pickups at the same time or   *)
(* half an hour apart, the later past the default cutoff.  The edit of the *)
(* facility lets that one through and closes the zone of the other.        *)
(***************************************************************************)
EXTENDS Dispatch, TLC

CONSTANTS ann, bob, cyd, org1, org2, dock, yard, site

MCRank == [c \in Couriers |-> IF c = ann THEN 1 ELSE IF c = bob THEN 2 ELSE 3]
MCCourierOrg == [c \in Couriers |-> IF c = ann THEN org1 ELSE IF c = bob THEN None ELSE org2]
MCRefuses == [c \in Couriers |-> IF c = ann THEN {yard} ELSE {}]
MCDistance == [z \in Zones |-> [c \in Couriers |-> IF c = ann THEN 1 ELSE 2]]
MCRating == [c \in Couriers |-> IF c = ann THEN 4 ELSE 5]
MCLoadOf == [c \in Couriers |-> 2]

At(t, zone) == [pickup |-> t, zone |-> zone, org |-> org1]
MCPickups == {At(39, dock), At(40, yard)}
MCFacilityEdits == {[cutoff |-> 21, closed |-> {dock}]}
MCSeeded == [f \in Facilities |-> [cutoff |-> 20, closed |-> {}]]

Symmetry == Permutations(Workers) \cup Permutations(Orders)
=============================================================================
