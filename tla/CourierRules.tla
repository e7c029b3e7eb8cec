---------------------------- MODULE CourierRules ----------------------------
(***************************************************************************)
(* internal/dispatch: which courier, if any, a delivery may be given to.   *)
(* Pure operators, no state.  Time is counted in slots, PerHour to an      *)
(* hour.  No code changes a courier's organisation, rating, load, location *)
(* or refused zones once it is seeded, so they are constants; a distance   *)
(* is what haversine makes of a location and a zone.  Nothing here depends *)
(* on what the numbers are, only on how they compare.                      *)
(***************************************************************************)
EXTENDS Integers

CONSTANTS
  Couriers,   \* ids of the users with role courier
  Orgs,       \* organisations
  Zones,      \* pickup zones
  None,       \* ""
  Rank,       \* [Couriers -> Nat], the place of each in ListUsersByRole
  CourierOrg, \* [Couriers -> Orgs \cup {None}], User.OrgID
  Refuses,    \* [Couriers -> SUBSET Zones], User.BlacklistZone
  Distance,   \* [Zones -> [Couriers -> Nat]]
  Rating,     \* [Couriers -> 0 .. MaxRating], User.Rating
  MaxRating,  \* the best rating there is
  LoadOf,     \* [Couriers -> Nat], User.Load
  PerHour     \* time slots in an hour

ASSUME RulesAssumption ==
  /\ None \notin Couriers \cup Orgs
  /\ Rank \in [Couriers -> Nat]
  /\ \A c, d \in Couriers : Rank[c] = Rank[d] => c = d
  /\ CourierOrg \in [Couriers -> Orgs \cup {None}]
  /\ Refuses \in [Couriers -> SUBSET Zones]
  /\ Distance \in [Zones -> [Couriers -> Nat]]
  /\ MaxRating \in Nat
  /\ Rating \in [Couriers -> 0 .. MaxRating]
  /\ LoadOf \in [Couriers -> Nat]
  /\ PerHour \in Nat \ {0}

Strategies == {"distance-first", "rating-first", "load-balanced"}

\* Facility.PickupCutoffHour, whatever integer an admin gave, and
\* BlacklistedZones.  A facility that is not named in the request, or not
\* found, is the zero value.
FacilityRules == [cutoff : Int, closed : SUBSET Zones]
NoFacility == [cutoff |-> 0, closed |-> {}]

DefaultCutoffHour == 20
Cutoff(facility) ==
  IF facility.cutoff = 0 THEN DefaultCutoffHour ELSE facility.cutoff

Hour(t) == (t \div PerHour) % 24

\* Less than an hour apart.
Near(t1, t2) == t1 - t2 < PerHour /\ t2 - t1 < PerHour

\* Mutant: only the cutoff of a facility counts.
ValidateCutoff(o, facility) ==
  IF Hour(o.pickup) >= Cutoff(facility) THEN "after_cutoff" ELSE "none"

\* The first conflict of the order's own pickup, or "none".
ValidatePickup(o, facility) ==
  IF Hour(o.pickup) >= Cutoff(facility) THEN "after_cutoff"
  ELSE IF o.zone \in facility.closed THEN "zone_blacklisted" ELSE "none"

\* Mutants: a window of half an hour, and one that forgets who is at work.
OverlapsLate(c, t, existing) ==
  \E o \in existing : o.courier = c /\ o.state \notin {"cancelled", "completed"}
                      /\ Near(o.pickup, t) /\ o.pickup <= t
OverlapsIdle(c, t, existing) ==
  \E o \in existing : o.courier = c /\ Near(o.pickup, t)
                      /\ o.state \notin {"cancelled", "completed", "in_progress"}

\* Only a cancelled or completed order frees its courier: one refunded or
\* rolled back does not, and neither does the order being assigned.
OverlapsExisting(c, t, existing) ==
  \E o \in existing : o.courier = c /\ o.state \notin {"cancelled", "completed"}
                      /\ Near(o.pickup, t)

EligibleCouriers(candidates, refusals, o, existing) ==
  {c \in candidates : /\ o.zone \notin refusals[c]
                      /\ ~OverlapsExisting(c, o.pickup, existing)}

\* What a strategy sorts by, least first.  An unknown one sorts by distance.
Keys(strategy, o) ==
  CASE strategy = "rating-first" -> [c \in Couriers |-> MaxRating - Rating[c]]
    [] strategy = "load-balanced" -> [c \in Couriers |-> LoadOf[c]]
    [] OTHER -> Distance[o.zone]

\* c comes before d in a stable sort by key of a list sorted by rank.
Before(key, c, d) ==
  key[c] < key[d] \/ (key[c] = key[d] /\ Rank[c] <= Rank[d])

Leads(key, S, c) == c \in S /\ \A d \in S : Before(key, c, d)

Select(key, S) == CHOOSE c \in S : Leads(key, S, c)

\* The conflict reported when no candidate is left: that of the first one.
NoneLeft(candidates, refusals, o) ==
  IF candidates = {} THEN "no_courier"
  ELSE IF o.zone \in refusals[Select(Rank, candidates)] THEN "courier_blacklist"
  ELSE "double_booked"

\* Mutant: an empty list of eligible couriers is not an error.
AssignAnyway(strategy, o, facility, candidates, refusals, existing) ==
  LET eligible == EligibleCouriers(candidates, refusals, o, existing)
      conflict == ValidatePickup(o, facility)
  IN [courier |-> IF conflict # "none" \/ eligible = {} THEN None
                  ELSE Select(Keys(strategy, o), eligible),
      conflict |-> conflict]

Assign(strategy, o, facility, candidates, refusals, existing) ==
  LET eligible == EligibleCouriers(candidates, refusals, o, existing)
      conflict == IF ValidatePickup(o, facility) # "none" THEN ValidatePickup(o, facility)
                  ELSE IF eligible = {} THEN NoneLeft(candidates, refusals, o)
                  ELSE "none"
  IN IF conflict # "none" THEN [courier |-> None, conflict |-> conflict]
     ELSE [courier |-> Select(Keys(strategy, o), eligible), conflict |-> "none"]
=============================================================================
