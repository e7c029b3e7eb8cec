------------------------------ MODULE Dispatch ------------------------------
(***************************************************************************)
(* The delivery desk: AssignCourier over the orders and facilities tables, *)
(* next to the other handlers that write back an order                     *)
(* (internal/http/handlers/delivery.go, booking.go, admin.go).  A worker   *)
(* is a goroutine serving a request, in steps of one store call each:      *)
(*                                                                         *)
(*   AssignCourier   LoadForAssign -> ReadFacility -> Decide -> Store      *)
(*   the others      LoadAndMove -> Store                                  *)
(*                                                                         *)
(* Over Postgres any call may fail.  The process may stop and start again. *)
(* BookingService has those handlers in full; here an order is what        *)
(* dispatch looks at, and windows in time and payments are left out.       *)
(* doubt, lapse and inForce are history variables.                         *)
(***************************************************************************)
EXTENDS CourierRules, FiniteSets

CONSTANTS
  Orders,        \* ids of the deliveries
  Facilities,    \* ids an admin may give a facility
  Workers,       \* requests in flight at the same time
  Store,         \* "memory" or "postgres"
  Pickups,       \* [pickup, zone, org] of the deliveries that are created
  FacilityEdits, \* bodies of AdminFacility
  Seeded,        \* the facilities of bootstrap/seed.go, NoFacility if not
                 \* one of them: a facility there is not reads the same
  MaxRequests    \* bound: number of requests begun

Pickup == [pickup : Nat, zone : Zones, org : Orgs]

ASSUME DispatchAssumption ==
  /\ IsFiniteSet(Workers)
  /\ Store \in {"memory", "postgres"}
  /\ Pickups \subseteq Pickup
  /\ FacilityEdits \subseteq FacilityRules
  /\ Seeded \in [Facilities -> FacilityRules]
  /\ MaxRequests \in Nat

Machine == INSTANCE OrderMachine
             WITH MaxReschedules <- 0, CancelWindow <- 0, RefundWindow <- 0

States == {"created", "pending_approval", "in_progress", "completed",
           "cancelled", "refund_review", "refunded", "rolled_back"}

VARIABLES
  deliveries,  \* the deliveries in the orders table, NoRow if not created
  facilities,  \* the facilities table
  job,         \* what each worker is doing
  begun,       \* number of requests begun
  doubt,       \* history: what a worker about to assign has failed to see
  lapse,       \* history: the doubt each delivery was last assigned in
  inForce      \* history: the rules that the facility an assignment names has
               \* had while the request was coming to its decision

vars == <<deliveries, facilities, job, begun, doubt, lapse, inForce>>

\* models.Order; one under way is in the hands of a courier.
Row == {o \in [state : States, courier : Couriers \cup {None},
               pickup : Nat, zone : Zones, org : Orgs] :
          o.state = "in_progress" => o.courier # None}
NoRow == [state |-> "absent"]
Exists(o) == deliveries[o] # NoRow

\* Where a request is, the order it is about, its copy of that order, the
\* facility it names, if any, and its copy of the rules of that.
Request(pc, o, row, named, rules) ==
  [pc |-> pc, id |-> o, row |-> row, named |-> named, rules |-> rules]
Idle == Request("idle", None, NoRow, None, NoFacility)

\* The rules a request naming f goes by, if it can read them.
RulesOf(f) == IF f \in Facilities THEN facilities[f] ELSE NoFacility

Init ==
  /\ deliveries = [o \in Orders |-> NoRow]
  /\ facilities = Seeded
  /\ job = [w \in Workers |-> Idle]
  /\ begun = 0
  /\ doubt = [w \in Workers |-> "none"]
  /\ lapse = [o \in Orders |-> "none"]
  /\ inForce = [w \in Workers |-> {}]

-----------------------------------------------------------------------------
\* CreateDelivery.
Create(o, p) ==
  /\ ~Exists(o)
  /\ deliveries' = [deliveries EXCEPT ![o] =
       [state |-> "created", courier |-> None,
        pickup |-> p.pickup, zone |-> p.zone, org |-> p.org]]
  /\ UNCHANGED <<facilities, job, begun, doubt, lapse, inForce>>

\* AdminFacility: an upsert of a whole row by any admin.
AdminFacility(f, rules) ==
  /\ facilities' = [facilities EXCEPT ![f] = rules]
  /\ inForce' = [w \in Workers |->
       IF job[w].pc \in {"loaded", "listing"} /\ job[w].named = f
       THEN inForce[w] \cup {rules} ELSE inForce[w]]
  /\ UNCHANGED <<deliveries, job, begun, doubt, lapse>>

Begin(w, o) ==
  /\ job[w].pc = "idle"
  /\ Exists(o)
  /\ begun < MaxRequests
  /\ begun' = begun + 1

\* OrderByID and h.can: whatever state the order is in.
LoadForAssign(w, o, f) ==
  /\ Begin(w, o)
  /\ job' = [job EXCEPT ![w] = Request("loaded", o, deliveries[o], f, NoFacility)]
  /\ inForce' = [inForce EXCEPT ![w] = {RulesOf(f)}]
  /\ UNCHANGED <<deliveries, facilities, doubt, lapse>>

\* FacilityByID, if the request names one.  Its error is ignored: the rules
\* are then the zero ones.
ReadFacility(w, read) ==
  LET rules == IF read THEN RulesOf(job[w].named) ELSE NoFacility
  IN /\ job[w].pc = "loaded"
     /\ ~read => Store = "postgres"
     /\ job' = [job EXCEPT ![w] = Request("listing", @.id, @.row, @.named, rules)]
     /\ inForce' = [inForce EXCEPT ![w] = @ \cup {rules}]
     /\ UNCHANGED <<deliveries, facilities, begun, doubt, lapse>>

\* The couriers AssignCourier passes on: those of the order's organisation.
Scoped(org) == {c \in Couriers : CourierOrg[c] \in {None, org}}

\* User.BlacklistZone as ListUsersByRole returns it: the users table of
\* Postgres has no such column.
Refusals == IF Store = "memory" THEN Refuses ELSE [c \in Couriers |-> {}]

\* ListDeliveriesByOrg.
DeliveriesOf(org) ==
  {deliveries[o] : o \in {p \in Orders : Exists(p) /\ deliveries[p].org = org}}

Assigned(o, c) == [o EXCEPT !.courier = c, !.state = "in_progress"]

\* ListUsersByRole and ListDeliveriesByOrg, whose error leaves an empty list,
\* then dispatch.Assign by the strategy the request names or the configured
\* one: a conflict ends the request.
Decide(w, strategy, listed) ==
  LET o == job[w].row
      existing == IF listed THEN DeliveriesOf(o.org) ELSE {}
      picked == Assign(strategy, o, job[w].rules, Scoped(o.org), Refusals, existing)
  IN /\ job[w].pc = "listing"
     /\ ~listed => Store = "postgres"
     /\ IF picked.conflict # "none"
        THEN /\ job' = [job EXCEPT ![w] = Idle]
             /\ inForce' = [inForce EXCEPT ![w] = {}]
             /\ UNCHANGED doubt
        ELSE /\ job' = [job EXCEPT ![w] =
                  Request("assigning", @.id, Assigned(o, picked.courier), None, NoFacility)]
             /\ doubt' = [doubt EXCEPT ![w] = IF listed THEN "none" ELSE "unlisted"]
             /\ UNCHANGED inForce
     /\ UNCHANGED <<deliveries, facilities, begun, lapse>>

\* UpdateOrder of an assignment: the whole row as it was loaded, with the
\* courier.  Every other worker that has its courier already has not seen it.
StoreAssigned(w) ==
  /\ job[w].pc = "assigning"
  /\ deliveries' = [deliveries EXCEPT ![job[w].id] = job[w].row]
  /\ lapse' = [lapse EXCEPT ![job[w].id] = doubt[w]]
  /\ doubt' = [v \in Workers |->
       IF v = w THEN "none"
       ELSE IF job[v].pc = "assigning" /\ doubt[v] = "none" THEN "raced" ELSE doubt[v]]
  /\ job' = [job EXCEPT ![w] = Idle]
  /\ inForce' = [inForce EXCEPT ![w] = {}]
  /\ UNCHANGED <<facilities, begun>>

\* The states the other handlers move an order to (BookingService has them):
\* cancel, complete, refund request, refund approval, rollback.
Moves(o) ==
  {s \in States :
     \/ s \in {"cancelled", "pending_approval"} /\ Machine!CanCancel(o)
     \/ s = "completed" /\ Machine!CanComplete(o)
     \/ s = "refund_review" /\ o.state = "completed"
     \/ s = "refunded" /\ Machine!CanApproveRefund(o)
     \/ s = "rolled_back" /\ Machine!CanRollback(o)}

\* OrderByID and the transition, which is local to the request.
LoadAndMove(w, o) ==
  /\ Begin(w, o)
  /\ \E s \in Moves(deliveries[o]) :
       job' = [job EXCEPT ![w] =
         Request("moving", o, [deliveries[o] EXCEPT !.state = s], None, NoFacility)]
  /\ UNCHANGED <<deliveries, facilities, doubt, lapse, inForce>>

StoreMoved(w) ==
  /\ job[w].pc = "moving"
  /\ deliveries' = [deliveries EXCEPT ![job[w].id] = job[w].row]
  /\ job' = [job EXCEPT ![w] = Idle]
  /\ UNCHANGED <<facilities, begun, doubt, lapse, inForce>>

\* A call whose error is not ignored fails: the request ends.
Abort(w) ==
  /\ Store = "postgres"
  /\ job[w].pc # "idle"
  /\ job' = [job EXCEPT ![w] = Idle]
  /\ doubt' = [doubt EXCEPT ![w] = "none"]
  /\ inForce' = [inForce EXCEPT ![w] = {}]
  /\ UNCHANGED <<deliveries, facilities, begun, lapse>>

\* The facilities a start leaves behind: Seed upserts its own.
Reseeded == [f \in Facilities |->
  IF Store = "memory" \/ Seeded[f] # NoFacility THEN Seeded[f] ELSE facilities[f]]

\* The process stops and starts again: its requests are gone, and in memory
\* everything stored is.
Restart ==
  /\ job' = [w \in Workers |-> Idle]
  /\ facilities' = Reseeded
  /\ IF Store = "memory"
     THEN /\ deliveries' = [o \in Orders |-> NoRow]
          /\ lapse' = [o \in Orders |-> "none"]
     ELSE UNCHANGED <<deliveries, lapse>>
  /\ doubt' = [w \in Workers |-> "none"]
  /\ inForce' = [w \in Workers |-> {}]
  /\ UNCHANGED begun

Serve(w) ==
  \/ \E read \in BOOLEAN : ReadFacility(w, read)
  \/ \E strategy \in Strategies, listed \in BOOLEAN : Decide(w, strategy, listed)
  \/ StoreAssigned(w)
  \/ StoreMoved(w)
  \/ Abort(w)

Next ==
  \/ \E o \in Orders, p \in Pickups : Create(o, p)
  \/ \E f \in Facilities, rules \in FacilityEdits : AdminFacility(f, rules)
  \/ \E w \in Workers, o \in Orders, f \in Facilities \cup {None} : LoadForAssign(w, o, f)
  \/ \E w \in Workers, o \in Orders : LoadAndMove(w, o)
  \/ \E w \in Workers : Serve(w)
  \/ Restart

Spec == Init /\ [][Next]_vars

-----------------------------------------------------------------------------
\* Type invariant; a request past its first step holds a row.
TypeOK ==
  /\ deliveries \in [Orders -> Row \cup {NoRow}]
  /\ facilities \in [Facilities -> FacilityRules]
  /\ job \in [Workers ->
       [pc : {"idle", "loaded", "listing", "assigning", "moving"},
        id : Orders \cup {None}, row : Row \cup {NoRow},
        named : Facilities \cup {None}, rules : FacilityRules]]
  /\ \A w \in Workers :
       job[w].pc # "idle" => job[w].id \in Orders /\ job[w].row \in Row
  /\ begun \in 0 .. MaxRequests
  /\ doubt \in [Workers -> {"none", "raced", "unlisted"}]
  /\ lapse \in [Orders -> {"none", "raced", "unlisted"}]
  /\ inForce \in [Workers -> SUBSET FacilityRules]

InService(o) == Exists(o) /\ deliveries[o].state = "in_progress"

\* Two deliveries that keep one courier busy in the same hour.
Clash(o1, o2) ==
  /\ o1 # o2
  /\ InService(o1) /\ InService(o2)
  /\ deliveries[o1].courier = deliveries[o2].courier
  /\ deliveries[o1].org = deliveries[o2].org
  /\ Near(deliveries[o1].pickup, deliveries[o2].pickup)

\* Whatever other requests cancel, complete, refund or reassign meanwhile, no
\* courier of an organisation has two deliveries under way within an hour of
\* each other, unless one of them was assigned after another assignment had
\* been stored since it listed the deliveries, or on a list that failed.
NoDoubleBooking ==
  \A o1, o2 \in Orders :
    Clash(o1, o2) => lapse[o1] # "none" \/ lapse[o2] # "none"

\* How bad overlapping assignments can be: as long as the lists are read, no
\* more deliveries clash with one another than requests are in flight.
ClashWidth ==
  \A S \in SUBSET {o \in Orders : lapse[o] # "unlisted"} :
    (\A o1, o2 \in S : o1 # o2 => Clash(o1, o2)) =>
      Cardinality(S) <= IF Cardinality(Workers) > 1 THEN Cardinality(Workers) ELSE 1

WellAssigned(d) ==
  /\ CourierOrg[d.courier] \in {None, d.org}
  /\ d.zone \notin Refusals[d.courier]

\* A delivery under way has a courier of its organisation or of none, one
\* who serves its zone (where the store keeps that).
Serviceable == \A o \in Orders : InService(o) => WellAssigned(deliveries[o])

Heeds(d, rules) == Hour(d.pickup) < Cutoff(rules) /\ d.zone \notin rules.closed

\* Nothing is put under way after the cutoff, or in a closed zone, of the
\* facility the dispatcher named, by the rules that facility had at one
\* moment between the request's first call and its decision: an edit by an
\* admin is heeded by every assignment that begins after it.  (A facility
\* not named, not there or not read has the default cutoff and closes no
\* zone.)
RulesHeeded ==
  [][\A o \in Orders :
       InService(o)' /\ deliveries'[o] # deliveries[o] =>
         \E w \in Workers :
           /\ job[w].id = o
           /\ \E rules \in inForce[w] : Heeds(deliveries'[o], rules)]_vars
=============================================================================
