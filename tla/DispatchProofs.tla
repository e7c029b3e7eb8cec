---------------------------- MODULE DispatchProofs ----------------------------
(***************************************************************************)
(* What dispatch decides, for every set of couriers and orders, and the    *)
(* invariants of Dispatch for every number of workers, over both stores.   *)
(***************************************************************************)
EXTENDS Dispatch, FiniteSetTheorems, WellFoundedInduction, TLAPS

-----------------------------------------------------------------------------
\* A set of natural numbers that is not empty has a least element.
LEMMA LeastNatural ==
  ASSUME NEW T \in SUBSET Nat, T # {}
  PROVE  \E m \in T : \A n \in T : m <= n
<1>1. \E m \in T : \A n \in T : ~(<<n, m>> \in OpToRel(<, Nat))
  BY NatLessThanWellFounded, WFMin
<1>2. PICK m \in T : \A n \in T : ~(<<n, m>> \in OpToRel(<, Nat))
  BY <1>1
<1>3. ASSUME NEW n \in T
      PROVE  m <= n
  <2>1. m \in Nat /\ n \in Nat
    OBVIOUS
  <2>2. ~(n < m)
    BY <1>2, <2>1 DEF OpToRel
  <2> QED
    BY <2>1, <2>2
<1> QED
  BY <1>2, <1>3

\* The keys couriers are sorted by are natural numbers.
LEMMA KeysType ==
  ASSUME NEW strategy, NEW o, o.zone \in Zones
  PROVE  Keys(strategy, o) \in [Couriers -> Nat]
<1>1. ASSUME NEW c \in Couriers
      PROVE  MaxRating - Rating[c] \in Nat
  <2>1. MaxRating \in Nat /\ Rating[c] \in 0 .. MaxRating
    BY RulesAssumption
  <2> QED
    BY <2>1
<1>2. [c \in Couriers |-> MaxRating - Rating[c]] \in [Couriers -> Nat]
  BY <1>1
<1>3. [c \in Couriers |-> LoadOf[c]] \in [Couriers -> Nat]
  BY RulesAssumption
<1>4. Distance[o.zone] \in [Couriers -> Nat]
  BY RulesAssumption
<1> QED
  BY <1>2, <1>3, <1>4 DEF Keys

\* A set of couriers that is not empty has one that a stable sort puts first.
LEMMA LeaderExists ==
  ASSUME NEW key \in [Couriers -> Nat], NEW S \in SUBSET Couriers, S # {}
  PROVE  \E c \in S : Leads(key, S, c)
<1> DEFINE keys == {key[c] : c \in S}
<1>0. keys \in SUBSET Nat /\ keys # {}
  OBVIOUS
<1>1. PICK k \in keys : \A n \in keys : k <= n
  <2> HIDE DEF keys
  <2> QED
    BY <1>0, LeastNatural
<1> DEFINE ranks == {Rank[c] : c \in {d \in S : key[d] = k}}
<1>2. ranks \in SUBSET Nat /\ ranks # {}
  <2>1. Rank \in [Couriers -> Nat]
    BY RulesAssumption
  <2>2. PICK c \in S : key[c] = k
    BY <1>1
  <2>3. Rank[c] \in ranks
    BY <2>2
  <2> QED
    BY <2>1, <2>3
<1>3. PICK r \in ranks : \A n \in ranks : r <= n
  <2> HIDE DEF ranks
  <2> QED
    BY <1>2, LeastNatural
<1>4. PICK c \in S : key[c] = k /\ Rank[c] = r
  OBVIOUS
<1>5. ASSUME NEW d \in S
      PROVE  Before(key, c, d)
  <2>1. k <= key[d] /\ key[d] \in Nat /\ k \in Nat
    BY <1>1
  <2>2. CASE key[d] = k
    BY <1>3, <1>4, <2>2 DEF Before
  <2>3. CASE key[d] # k
    BY <1>4, <2>1, <2>3 DEF Before
  <2> QED
    BY <2>2, <2>3
<1> QED
  BY <1>4, <1>5 DEF Leads

\* The courier a strategy picks is one of those it is given, and no other of
\* them has a smaller key.
LEMMA SelectLeads ==
  ASSUME NEW key \in [Couriers -> Nat], NEW S \in SUBSET Couriers, S # {}
  PROVE  /\ Select(key, S) \in S
         /\ \A d \in S : key[Select(key, S)] <= key[d]
<1>1. Leads(key, S, Select(key, S))
  BY LeaderExists DEF Select
<1> QED
  BY <1>1 DEF Leads, Before

-----------------------------------------------------------------------------
\* What a worker that is about to assign knows about its row: it is under
\* way with an eligible courier, and the order may be picked up.
LEMMA AssignFits ==
  ASSUME NEW strategy, NEW o \in Row, NEW facility \in FacilityRules,
         NEW candidates \in SUBSET Couriers, NEW refusals, NEW existing,
         Assign(strategy, o, facility, candidates, refusals, existing).conflict = "none"
  PROVE  LET c == Assign(strategy, o, facility, candidates, refusals, existing).courier
         IN /\ c \in candidates
            /\ o.zone \notin refusals[c]
            /\ ~OverlapsExisting(c, o.pickup, existing)
            /\ Heeds(o, facility)
<1> DEFINE eligible == EligibleCouriers(candidates, refusals, o, existing)
           chosen == Select(Keys(strategy, o), eligible)
<1>1. ValidatePickup(o, facility) = "none" /\ eligible # {}
  BY DEF Assign, NoneLeft
<1>2. Assign(strategy, o, facility, candidates, refusals, existing).courier = chosen
  BY <1>1 DEF Assign
<1>3. chosen \in eligible
  <2>1. o.zone \in Zones
    BY DEF Row
  <2>2. eligible \in SUBSET Couriers
    BY DEF EligibleCouriers
  <2> HIDE DEF eligible
  <2> QED
    BY <1>1, <2>1, <2>2, KeysType, SelectLeads
<1>4. Heeds(o, facility)
  <2>1. o.pickup \in Nat /\ PerHour \in Nat \ {0}
    BY RulesAssumption DEF Row
  <2>2. Hour(o.pickup) \in Int
    BY <2>1 DEF Hour
  <2>3. Cutoff(facility) \in Int
    BY DEF Cutoff, FacilityRules, DefaultCutoffHour
  <2>4. ~(Hour(o.pickup) >= Cutoff(facility)) /\ o.zone \notin facility.closed
    BY <1>1 DEF ValidatePickup
  <2> QED
    BY <2>2, <2>3, <2>4 DEF Heeds
<1> QED
  BY <1>2, <1>3, <1>4 DEF EligibleCouriers

-----------------------------------------------------------------------------
LEMMA RowIsRow == NoRow \notin Row
  BY DEF NoRow, Row, States

\* Where an order goes to when it is not assigned.
LEMMA MovesType ==
  ASSUME NEW o \in Row, NEW s \in Moves(o)
  PROVE  [o EXCEPT !.state = s] \in Row /\ s # "in_progress"
<1>1. s \in States /\ s # "in_progress"
  BY DEF Moves
<1> QED
  BY <1>1 DEF Row

-----------------------------------------------------------------------------
\* The parts of the inductive invariant.  A request goes by rules that its
\* facility had since it began.
RulesKnown == \A w \in Workers : job[w].pc = "listing" => job[w].rules \in inForce[w]

HeedsOne(d, known) == \E rules \in known : Heeds(d, rules)

\* A row about to be stored is a good assignment, or not under way.
CopiesGood ==
  \A w \in Workers :
    /\ job[w].pc = "assigning" =>
         WellAssigned(job[w].row) /\ HeedsOne(job[w].row, inForce[w])
    /\ job[w].pc = "moving" => job[w].row.state # "in_progress"

Collides(d, o) ==
  /\ InService(o)
  /\ deliveries[o].courier = d.courier
  /\ deliveries[o].org = d.org
  /\ Near(deliveries[o].pickup, d.pickup)

\* A worker without doubt is about to assign a courier who is still free.
StillFree ==
  \A w \in Workers :
    job[w].pc = "assigning" /\ doubt[w] = "none" =>
      \A o \in Orders \ {job[w].id} : ~Collides(job[w].row, o)

Safe == RulesKnown /\ CopiesGood /\ Serviceable /\ StillFree /\ NoDoubleBooking

Jobs == [pc : {"idle", "loaded", "listing", "assigning", "moving"},
         id : Orders \cup {None}, row : Row \cup {NoRow},
         named : Facilities \cup {None}, rules : FacilityRules]

LEMMA RequestType ==
  ASSUME NEW pc \in {"loaded", "listing", "assigning", "moving"}, NEW o \in Orders,
         NEW row \in Row, NEW f \in Facilities \cup {None}, NEW rules \in FacilityRules
  PROVE  /\ Request(pc, o, row, f, rules) \in Jobs
         /\ Request(pc, o, row, f, rules).id \in Orders
         /\ Request(pc, o, row, f, rules).row \in Row
  BY DEF Request, Jobs

LEMMA IdleType == Idle \in Jobs /\ Idle.pc = "idle" /\ NoFacility \in FacilityRules
  BY DEF Idle, Request, Jobs, NoFacility, FacilityRules

LEMMA RulesOfType ==
  ASSUME TypeOK, NEW f
  PROVE  RulesOf(f) \in FacilityRules
  BY IdleType DEF RulesOf, TypeOK

LEMMA ReseededType ==
  ASSUME TypeOK
  PROVE  Reseeded \in [Facilities -> FacilityRules]
  BY DispatchAssumption DEF Reseeded, TypeOK

LEMMA TypeInit == Init => TypeOK
<1> SUFFICES ASSUME Init PROVE TypeOK
  OBVIOUS
<1>1. job \in [Workers -> Jobs] /\ \A w \in Workers : job[w].pc = "idle"
  BY IdleType DEF Init
<1>2. deliveries \in [Orders -> Row \cup {NoRow}]
  BY DEF Init
<1>3. /\ facilities \in [Facilities -> FacilityRules] /\ begun \in 0 .. MaxRequests
      /\ inForce \in [Workers -> SUBSET FacilityRules]
  BY DispatchAssumption DEF Init
<1> QED
  BY <1>1, <1>2, <1>3 DEF Init, TypeOK, Jobs

\* What a worker takes on keeps the types.
LEMMA JobTyped ==
  ASSUME TypeOK, NEW w \in Workers, NEW j \in Jobs,
         j.pc # "idle" => j.id \in Orders /\ j.row \in Row,
         job' = [job EXCEPT ![w] = j]
  PROVE  /\ job' \in [Workers -> Jobs]
         /\ \A v \in Workers : job'[v].pc # "idle" => job'[v].id \in Orders /\ job'[v].row \in Row
  BY DEF TypeOK, Jobs

LEMMA AssignedType ==
  ASSUME NEW d \in Row, NEW c \in Couriers
  PROVE  /\ Assigned(d, c) \in Row
         /\ Assigned(d, c).courier = c
         /\ Assigned(d, c).pickup = d.pickup
         /\ Assigned(d, c).zone = d.zone
         /\ Assigned(d, c).org = d.org
  BY RulesAssumption DEF Assigned, Row, States

\* A request that found a courier.
Decided(w, strategy, listed) ==
  LET o == job[w].row
      existing == IF listed THEN DeliveriesOf(o.org) ELSE {}
      picked == Assign(strategy, o, job[w].rules, Scoped(o.org), Refusals, existing)
  IN /\ picked.conflict = "none"
     /\ job' = [job EXCEPT ![w] =
          Request("assigning", job[w].id, Assigned(o, picked.courier), None, NoFacility)]
     /\ doubt' = [doubt EXCEPT ![w] = IF listed THEN "none" ELSE "unlisted"]
     /\ UNCHANGED inForce

\* A request that is over.
Ended(w) ==
  /\ job' = [job EXCEPT ![w] = Idle]
  /\ inForce' = [inForce EXCEPT ![w] = {}]

LEMMA DecideSplit ==
  ASSUME TypeOK, NEW w \in Workers, NEW strategy, NEW listed, Decide(w, strategy, listed)
  PROVE  \/ Ended(w) /\ UNCHANGED doubt
         \/ Decided(w, strategy, listed)
  BY DEF Decide, Decided, Ended, TypeOK

LEMMA DecidedFits ==
  ASSUME TypeOK, NEW w \in Workers, NEW strategy, NEW listed,
         job[w].pc = "listing", Decided(w, strategy, listed)
  PROVE  \E c \in Couriers :
           LET d == job[w].row
           IN /\ job' = [job EXCEPT ![w] =
                   Request("assigning", job[w].id, Assigned(d, c), None, NoFacility)]
              /\ c \in Scoped(d.org)
              /\ d.zone \notin Refusals[c]
              /\ ~OverlapsExisting(c, d.pickup, IF listed THEN DeliveriesOf(d.org) ELSE {})
              /\ Heeds(d, job[w].rules)
<1> DEFINE d == job[w].row
           existing == IF listed THEN DeliveriesOf(d.org) ELSE {}
           picked == Assign(strategy, d, job[w].rules, Scoped(d.org), Refusals, existing)
<1>1. d \in Row /\ job[w].rules \in FacilityRules /\ Scoped(d.org) \in SUBSET Couriers
  BY DEF TypeOK, Scoped
<1>2. picked.conflict = "none"
  BY DEF Decided
<1>3. job' = [job EXCEPT ![w] =
        Request("assigning", job[w].id, Assigned(d, picked.courier), None, NoFacility)]
  BY DEF Decided
<1>4. /\ picked.courier \in Scoped(d.org)
      /\ d.zone \notin Refusals[picked.courier]
      /\ ~OverlapsExisting(picked.courier, d.pickup, existing)
      /\ Heeds(d, job[w].rules)
  <2> HIDE DEF existing, d
  <2> QED
    BY <1>1, <1>2, AssignFits
<1> DEFINE c == picked.courier
<1>5. c \in Couriers
  BY <1>1, <1>4
<1> HIDE DEF picked
<1> QED
  BY <1>3, <1>4, <1>5

LEMMA ReadSplit ==
  ASSUME TypeOK, NEW w \in Workers, NEW read, ReadFacility(w, read)
  PROVE  \E rules \in FacilityRules :
           /\ job' = [job EXCEPT ![w] =
                Request("listing", job[w].id, job[w].row, job[w].named, rules)]
           /\ inForce' = [inForce EXCEPT ![w] = inForce[w] \cup {rules}]
<1> DEFINE rules == IF read THEN RulesOf(job[w].named) ELSE NoFacility
<1>1. rules \in FacilityRules
  BY IdleType, RulesOfType
<1>2. /\ job' = [job EXCEPT ![w] =
           Request("listing", job[w].id, job[w].row, job[w].named, rules)]
      /\ inForce' = [inForce EXCEPT ![w] = inForce[w] \cup {rules}]
  BY DEF ReadFacility, TypeOK
<1> QED
  BY <1>1, <1>2

LEMMA TypeStep == TypeOK /\ [Next]_vars => TypeOK'
<1> SUFFICES ASSUME TypeOK, [Next]_vars PROVE TypeOK'
  OBVIOUS
<1>1. ASSUME NEW o \in Orders, NEW p \in Pickups, Create(o, p)
      PROVE  TypeOK'
  <2>1. p \in Pickup
    BY DispatchAssumption
  <2>2. [state |-> "created", courier |-> None,
         pickup |-> p.pickup, zone |-> p.zone, org |-> p.org] \in Row
    BY <2>1 DEF Row, States, Pickup
  <2> QED
    BY <1>1, <2>2 DEF Create, TypeOK
<1>2. ASSUME NEW f \in Facilities, NEW rules \in FacilityEdits, AdminFacility(f, rules)
      PROVE  TypeOK'
  <2>1. rules \in FacilityRules
    BY DispatchAssumption
  <2> QED
    BY <1>2, <2>1 DEF AdminFacility, TypeOK
<1>3. ASSUME NEW w \in Workers, NEW o \in Orders, NEW f \in Facilities \cup {None},
             LoadForAssign(w, o, f)
      PROVE  TypeOK'
  <2>1. deliveries[o] \in Row /\ begun' \in 0 .. MaxRequests
    BY <1>3, DispatchAssumption DEF LoadForAssign, Begin, Exists, TypeOK
  <2>2. inForce' \in [Workers -> SUBSET FacilityRules]
    BY <1>3, RulesOfType DEF LoadForAssign, TypeOK
  <2> QED
    BY <1>3, <2>1, <2>2, IdleType, RequestType, JobTyped DEF LoadForAssign, TypeOK, Jobs
<1>4. ASSUME NEW w \in Workers, NEW o \in Orders, LoadAndMove(w, o)
      PROVE  TypeOK'
  <2>1. deliveries[o] \in Row /\ begun' \in 0 .. MaxRequests
    BY <1>4, DispatchAssumption DEF LoadAndMove, Begin, Exists, TypeOK
  <2>2. PICK s \in Moves(deliveries[o]) :
          job' = [job EXCEPT ![w] =
            Request("moving", o, [deliveries[o] EXCEPT !.state = s], None, NoFacility)]
    BY <1>4 DEF LoadAndMove
  <2>3. [deliveries[o] EXCEPT !.state = s] \in Row
    BY <2>1, MovesType
  <2> QED
    BY <1>4, <2>1, <2>2, <2>3, IdleType, RequestType, JobTyped DEF LoadAndMove, TypeOK, Jobs
<1>5. ASSUME NEW w \in Workers, NEW read \in BOOLEAN, ReadFacility(w, read)
      PROVE  TypeOK'
  <2>1. PICK rules \in FacilityRules :
          /\ job' = [job EXCEPT ![w] =
               Request("listing", job[w].id, job[w].row, job[w].named, rules)]
          /\ inForce' = [inForce EXCEPT ![w] = inForce[w] \cup {rules}]
    BY <1>5, ReadSplit
  <2>2. inForce' \in [Workers -> SUBSET FacilityRules]
    BY <2>1 DEF TypeOK
  <2>3. job[w].id \in Orders /\ job[w].row \in Row /\ job[w].named \in Facilities \cup {None}
    BY <1>5 DEF ReadFacility, TypeOK
  <2> DEFINE j == Request("listing", job[w].id, job[w].row, job[w].named, rules)
  <2>4. j \in Jobs /\ j.id \in Orders /\ j.row \in Row
    BY <2>3, RequestType
  <2>5. job' = [job EXCEPT ![w] = j] /\ UNCHANGED <<deliveries, facilities, begun, doubt, lapse>>
    BY <1>5, <2>1 DEF ReadFacility
  <2> HIDE DEF j
  <2>6. /\ job' \in [Workers -> Jobs]
        /\ \A v \in Workers : job'[v].pc # "idle" => job'[v].id \in Orders /\ job'[v].row \in Row
    BY <2>4, <2>5, JobTyped
  <2> QED
    BY <2>2, <2>5, <2>6 DEF TypeOK, Jobs
<1>6. ASSUME NEW w \in Workers, NEW strategy \in Strategies, NEW listed \in BOOLEAN,
             Decide(w, strategy, listed)
      PROVE  TypeOK'
  <2>1. job[w].id \in Orders /\ job[w].row \in Row
    BY <1>6 DEF Decide, TypeOK
  <2>2. UNCHANGED <<deliveries, facilities, begun, lapse>>
    BY <1>6 DEF Decide
  <2>3. CASE Ended(w) /\ UNCHANGED doubt
    BY <2>2, <2>3, IdleType, JobTyped DEF Ended, TypeOK, Jobs
  <2>4. CASE Decided(w, strategy, listed)
    <3>1. PICK c \in Couriers :
            job' = [job EXCEPT ![w] =
              Request("assigning", job[w].id, Assigned(job[w].row, c), None, NoFacility)]
      BY <1>6, <2>4, DecidedFits DEF Decide
    <3>2. Assigned(job[w].row, c) \in Row
      BY <2>1, AssignedType
    <3>3. doubt' \in [Workers -> {"none", "raced", "unlisted"}] /\ UNCHANGED inForce
      BY <2>4 DEF Decided, TypeOK
    <3> QED
      BY <2>1, <2>2, <3>1, <3>2, <3>3, RequestType, IdleType, JobTyped DEF TypeOK, Jobs
  <2> QED
    BY <1>6, <2>3, <2>4, DecideSplit
<1>7. ASSUME NEW w \in Workers, StoreAssigned(w)
      PROVE  TypeOK'
  <2>1. job[w].id \in Orders /\ job[w].row \in Row
    BY <1>7 DEF StoreAssigned, TypeOK
  <2>2. doubt' \in [Workers -> {"none", "raced", "unlisted"}]
    BY <1>7 DEF StoreAssigned, TypeOK
  <2>3. lapse' \in [Orders -> {"none", "raced", "unlisted"}]
    BY <1>7 DEF StoreAssigned, TypeOK
  <2>4. deliveries' \in [Orders -> Row \cup {NoRow}]
    BY <1>7, <2>1 DEF StoreAssigned, TypeOK
  <2>5. inForce' \in [Workers -> SUBSET FacilityRules]
    BY <1>7 DEF StoreAssigned, TypeOK
  <2> QED
    BY <1>7, <2>2, <2>3, <2>4, <2>5, IdleType, JobTyped DEF StoreAssigned, TypeOK, Jobs
<1>8. ASSUME NEW w \in Workers, StoreMoved(w)
      PROVE  TypeOK'
  <2>1. job[w].id \in Orders /\ job[w].row \in Row
    BY <1>8 DEF StoreMoved, TypeOK
  <2> QED
    BY <1>8, <2>1, IdleType, JobTyped DEF StoreMoved, TypeOK, Jobs
<1>9. CASE UNCHANGED vars
  BY <1>9 DEF vars, TypeOK
<1>10. ASSUME NEW w \in Workers, Abort(w)
       PROVE  TypeOK'
  BY <1>10, IdleType, JobTyped DEF Abort, TypeOK, Jobs
<1>11. CASE Restart
  <2>1. job' \in [Workers -> Jobs] /\ \A w \in Workers : job'[w].pc = "idle"
    BY <1>11, IdleType DEF Restart
  <2>2. facilities' \in [Facilities -> FacilityRules]
    BY <1>11, ReseededType DEF Restart
  <2>3. deliveries' \in [Orders -> Row \cup {NoRow}]
    BY <1>11 DEF Restart, TypeOK
  <2>4. lapse' \in [Orders -> {"none", "raced", "unlisted"}]
    BY <1>11 DEF Restart, TypeOK
  <2> QED
    BY <1>11, <2>1, <2>2, <2>3, <2>4 DEF Restart, TypeOK, Jobs
<1> QED
  BY <1>1, <1>2, <1>3, <1>4, <1>5, <1>6, <1>7, <1>8, <1>9, <1>10, <1>11 DEF Next, Serve

\* Type correctness of the delivery desk: every row is a delivery, one under
\* way has a courier, and a request past its first step holds a row.
THEOREM DispatchTypeCorrect == Spec => []TypeOK
<1>1. Init => TypeOK
  BY TypeInit
<1>2. TypeOK /\ [Next]_vars => TypeOK'
  BY TypeStep
<1> QED
  BY <1>1, <1>2, PTL DEF Spec

-----------------------------------------------------------------------------
\* What makes an assignment good does not depend on the state.
LEMMA WellStays == \A d : WellAssigned(d)' <=> WellAssigned(d)
  BY DEF WellAssigned, Refusals

LEMMA HeedsStays == \A d, known : HeedsOne(d, known)' <=> HeedsOne(d, known)
  BY DEF HeedsOne, Heeds

LEMMA HeedsGrows ==
  ASSUME NEW d, NEW S, NEW T, S \subseteq T, HeedsOne(d, S)
  PROVE  HeedsOne(d, T)
  BY DEF HeedsOne

\* A step that puts no delivery under way takes nothing from what is safe.
LEMMA NothingNewInService ==
  ASSUME TypeOK, Safe,
         \A p \in Orders : InService(p)' => InService(p) /\ deliveries'[p] = deliveries[p]
  PROVE  /\ Serviceable'
         /\ UNCHANGED lapse => NoDoubleBooking'
         /\ \A d, p : p \in Orders /\ Collides(d, p)' => Collides(d, p)
<1>1. Serviceable'
  BY WellStays DEF Safe, Serviceable
<1>2. \A d, p : p \in Orders /\ Collides(d, p)' => Collides(d, p)
  BY DEF Collides
<1>3. \A p, q \in Orders : Clash(p, q)' => Clash(p, q)
  BY DEF Clash
<1>4. UNCHANGED lapse => NoDoubleBooking'
  BY <1>3 DEF Safe, NoDoubleBooking
<1> QED
  BY <1>1, <1>2, <1>4

\* The order worker w overwrites is the only one that changes.
LEMMA OthersStay ==
  ASSUME TypeOK, NEW o \in Orders, NEW d, deliveries' = [deliveries EXCEPT ![o] = d],
         NEW p \in Orders, p # o
  PROVE  deliveries'[p] = deliveries[p] /\ (InService(p)' <=> InService(p))
  BY DEF TypeOK, InService, Exists

LEMMA PutOutOfService ==
  ASSUME TypeOK, NEW o \in Orders, NEW d, d.state # "in_progress",
         deliveries' = [deliveries EXCEPT ![o] = d]
  PROVE  \A p \in Orders : InService(p)' => InService(p) /\ deliveries'[p] = deliveries[p]
<1> SUFFICES ASSUME NEW p \in Orders, InService(p)'
             PROVE  InService(p) /\ deliveries'[p] = deliveries[p]
  OBVIOUS
<1>1. p # o
  BY DEF InService, TypeOK
<1> QED
  BY <1>1, OthersStay

\* A courier the list showed free collides with no delivery there is.
LEMMA ListedIsFree ==
  ASSUME TypeOK, NEW d \in Row, NEW c \in Couriers,
         ~OverlapsExisting(c, d.pickup, DeliveriesOf(d.org)),
         NEW o \in Orders
  PROVE  ~Collides(Assigned(d, c), o)
<1> SUFFICES ASSUME Collides(Assigned(d, c), o) PROVE FALSE
  OBVIOUS
<1>1. /\ Exists(o) /\ deliveries[o].state = "in_progress"
      /\ deliveries[o].courier = c
      /\ deliveries[o].org = d.org
      /\ Near(deliveries[o].pickup, d.pickup)
  BY AssignedType DEF Collides, InService
<1>2. deliveries[o] \in DeliveriesOf(d.org)
  BY <1>1 DEF DeliveriesOf
<1> QED
  BY <1>1, <1>2 DEF OverlapsExisting

\* A restart puts nothing under way.
LEMMA RestartInService ==
  ASSUME Restart
  PROVE  \A p \in Orders : InService(p)' => InService(p) /\ deliveries'[p] = deliveries[p]
  BY DEF Restart, InService, Exists

LEMMA NearBoth == \A t1, t2 : Near(t1, t2) <=> Near(t2, t1)
  BY DEF Near

LEMMA SafeInit == Init => Safe
<1> SUFFICES ASSUME Init PROVE Safe
  OBVIOUS
<1>1. \A w \in Workers : job[w].pc = "idle"
  BY IdleType DEF Init
<1>2. \A o \in Orders : ~InService(o)
  BY DEF Init, InService, Exists
<1> QED
  BY <1>1, <1>2 DEF Safe, RulesKnown, CopiesGood, Serviceable, StillFree,
     NoDoubleBooking, Clash

LEMMA SafeStep == TypeOK /\ Safe /\ [Next]_vars => Safe'
<1> SUFFICES ASSUME TypeOK, Safe, [Next]_vars PROVE Safe'
  OBVIOUS
<1>1. ASSUME NEW o \in Orders, NEW p \in Pickups, Create(o, p)
      PROVE  Safe'
  <2> DEFINE d == [state |-> "created", courier |-> None,
                   pickup |-> p.pickup, zone |-> p.zone, org |-> p.org]
  <2>1. deliveries' = [deliveries EXCEPT ![o] = d] /\ d.state # "in_progress"
        /\ UNCHANGED <<facilities, job, doubt, lapse, inForce>>
    BY <1>1 DEF Create
  <2> HIDE DEF d
  <2>2. \A q \in Orders : InService(q)' => InService(q) /\ deliveries'[q] = deliveries[q]
    BY <2>1, PutOutOfService
  <2>3. RulesKnown' /\ CopiesGood'
    BY <2>1, WellStays, HeedsStays DEF Safe, RulesKnown, CopiesGood
  <2>4. StillFree'
    BY <2>1, <2>2, NothingNewInService DEF Safe, StillFree
  <2> QED
    BY <2>1, <2>2, <2>3, <2>4, NothingNewInService DEF Safe
<1>2. ASSUME NEW f \in Facilities, NEW rules \in FacilityEdits, AdminFacility(f, rules)
      PROVE  Safe'
  <2>1. UNCHANGED <<deliveries, job, doubt, lapse>>
        /\ \A w \in Workers : inForce[w] \subseteq inForce'[w]
    BY <1>2 DEF AdminFacility
  <2>2. RulesKnown'
    BY <2>1 DEF Safe, RulesKnown
  <2>3. CopiesGood' /\ Serviceable'
    BY <2>1, WellStays, HeedsGrows DEF Safe, CopiesGood, Serviceable, InService, Exists
  <2>4. StillFree' /\ NoDoubleBooking'
    BY <2>1 DEF Safe, StillFree, Collides, NoDoubleBooking, Clash, InService, Exists
  <2> QED
    BY <2>2, <2>3, <2>4 DEF Safe
<1>3. ASSUME NEW w \in Workers, NEW j, job' = [job EXCEPT ![w] = j],
             j.pc = "listing" => j.rules \in inForce'[w],
             j.pc = "assigning" => WellAssigned(j.row) /\ \E rules \in inForce'[w] : Heeds(j.row, rules),
             j.pc = "moving" => j.row.state # "in_progress",
             \A v \in Workers : v # w => inForce'[v] = inForce[v],
             j.pc = "assigning" /\ doubt'[w] = "none" =>
               \A o \in Orders : ~Collides(j.row, o),
             \A v \in Workers : v # w => doubt'[v] = doubt[v],
             UNCHANGED <<deliveries, lapse>>
      PROVE  Safe'
  <2>0. job'[w] = j /\ \A v \in Workers : v # w => job'[v] = job[v]
    BY <1>3 DEF TypeOK
  <2>1. RulesKnown'
    BY <1>3, <2>0 DEF Safe, RulesKnown
  <2>2. CopiesGood'
    <3> SUFFICES ASSUME NEW v \in Workers
                 PROVE  /\ job'[v].pc = "assigning" =>
                             /\ WellAssigned(job'[v].row)
                             /\ \E rules \in inForce'[v] : Heeds(job'[v].row, rules)
                        /\ job'[v].pc = "moving" => job'[v].row.state # "in_progress"
      BY WellStays, HeedsStays DEF CopiesGood, HeedsOne
    <3>1. CASE v = w
      BY <1>3, <2>0, <3>1
    <3>2. CASE v # w
      BY <1>3, <2>0, <3>2 DEF Safe, CopiesGood, HeedsOne
    <3> QED
      BY <3>1, <3>2
  <2>3. \A p \in Orders : InService(p)' => InService(p) /\ deliveries'[p] = deliveries[p]
    BY <1>3 DEF InService, Exists
  <2>4. StillFree'
    BY <1>3, <2>3, NothingNewInService DEF Safe, StillFree, TypeOK
  <2> QED
    BY <1>3, <2>1, <2>2, <2>3, <2>4, NothingNewInService DEF Safe
<1>4. ASSUME NEW w \in Workers, NEW o \in Orders, NEW f \in Facilities \cup {None},
             LoadForAssign(w, o, f)
      PROVE  Safe'
  <2> DEFINE j == Request("loaded", o, deliveries[o], f, NoFacility)
  <2>1. j.pc = "loaded"
    BY DEF Request
  <2>2. /\ job' = [job EXCEPT ![w] = j] /\ UNCHANGED <<deliveries, doubt, lapse>>
        /\ \A v \in Workers : v # w => inForce'[v] = inForce[v]
    BY <1>4 DEF LoadForAssign, TypeOK
  <2> HIDE DEF j
  <2> QED
    BY <2>1, <2>2, <1>3
<1>5. ASSUME NEW w \in Workers, NEW o \in Orders, LoadAndMove(w, o)
      PROVE  Safe'
  <2>1. PICK s \in Moves(deliveries[o]) :
          job' = [job EXCEPT ![w] =
            Request("moving", o, [deliveries[o] EXCEPT !.state = s], None, NoFacility)]
    BY <1>5 DEF LoadAndMove
  <2> DEFINE j == Request("moving", o, [deliveries[o] EXCEPT !.state = s], None, NoFacility)
  <2>2. deliveries[o] \in Row
    BY <1>5 DEF LoadAndMove, Begin, Exists, TypeOK
  <2>3. j.pc = "moving" /\ j.row.state = s
    BY <2>2 DEF Request, Row
  <2>4. s # "in_progress"
    BY <2>2, MovesType
  <2>5. job' = [job EXCEPT ![w] = j] /\ UNCHANGED <<deliveries, doubt, lapse, inForce>>
    BY <1>5, <2>1 DEF LoadAndMove
  <2> HIDE DEF j
  <2> QED
    BY <2>3, <2>4, <2>5, <1>3
<1>6. ASSUME NEW w \in Workers, NEW read \in BOOLEAN, ReadFacility(w, read)
      PROVE  Safe'
  <2>1. PICK rules \in FacilityRules :
          /\ job' = [job EXCEPT ![w] =
               Request("listing", job[w].id, job[w].row, job[w].named, rules)]
          /\ inForce' = [inForce EXCEPT ![w] = inForce[w] \cup {rules}]
    BY <1>6, ReadSplit
  <2> DEFINE j == Request("listing", job[w].id, job[w].row, job[w].named, rules)
  <2>2. j.pc = "listing" /\ j.rules \in inForce'[w]
    BY <2>1 DEF Request, TypeOK
  <2>3. /\ job' = [job EXCEPT ![w] = j] /\ UNCHANGED <<deliveries, doubt, lapse>>
        /\ \A v \in Workers : v # w => inForce'[v] = inForce[v]
    BY <1>6, <2>1 DEF ReadFacility, TypeOK
  <2> HIDE DEF j
  <2> QED
    BY <2>2, <2>3, <1>3
<1>7. ASSUME NEW w \in Workers, NEW strategy \in Strategies, NEW listed \in BOOLEAN,
             Decide(w, strategy, listed)
      PROVE  Safe'
  <2>1. UNCHANGED <<deliveries, facilities, lapse>> /\ job[w].pc = "listing"
    BY <1>7 DEF Decide
  <2>2. CASE Ended(w) /\ UNCHANGED doubt
    BY <2>1, <2>2, <1>3, IdleType DEF Ended, TypeOK
  <2>3. CASE Decided(w, strategy, listed)
    <3> DEFINE d == job[w].row
    <3>1. d \in Row /\ job[w].rules \in FacilityRules
      BY <2>1 DEF TypeOK
    <3>2. PICK c \in Couriers :
            /\ job' = [job EXCEPT ![w] =
                 Request("assigning", job[w].id, Assigned(d, c), None, NoFacility)]
            /\ c \in Scoped(d.org)
            /\ d.zone \notin Refusals[c]
            /\ ~OverlapsExisting(c, d.pickup, IF listed THEN DeliveriesOf(d.org) ELSE {})
            /\ Heeds(d, job[w].rules)
      BY <2>1, <2>3, DecidedFits
    <3> DEFINE j == Request("assigning", job[w].id, Assigned(d, c), None, NoFacility)
    <3>3. j.pc = "assigning" /\ j.row = Assigned(d, c)
      BY DEF Request
    <3>4. WellAssigned(Assigned(d, c))
      BY <3>1, <3>2, AssignedType DEF WellAssigned, Scoped
    <3>7. \E rules \in inForce'[w] : Heeds(Assigned(d, c), rules)
      <4>1. job[w].rules \in inForce'[w]
        BY <2>1, <2>3 DEF Safe, RulesKnown, Decided
      <4>2. Heeds(Assigned(d, c), job[w].rules)
        BY <3>1, <3>2, AssignedType DEF Heeds
      <4> QED
        BY <4>1, <4>2
    <3>5. ASSUME doubt'[w] = "none", NEW o \in Orders
          PROVE  ~Collides(Assigned(d, c), o)
      <4>1. listed
        BY <2>3, <3>5 DEF Decided, TypeOK
      <4> QED
        BY <3>1, <3>2, <4>1, ListedIsFree
    <3>6. /\ job' = [job EXCEPT ![w] = j] /\ UNCHANGED inForce
          /\ \A v \in Workers : v # w => doubt'[v] = doubt[v]
      BY <2>3, <3>2 DEF Decided, TypeOK
    <3> HIDE DEF j, d
    <3> QED
      BY <2>1, <3>3, <3>4, <3>5, <3>6, <3>7, <1>3
  <2> QED
    BY <1>7, <2>2, <2>3, DecideSplit
<1>8. ASSUME NEW w \in Workers, StoreAssigned(w)
      PROVE  Safe'
  <2>0. PICK o \in Orders, d \in Row : o = job[w].id /\ d = job[w].row
    BY <1>8 DEF StoreAssigned, TypeOK
  <2>1. o \in Orders /\ d \in Row /\ job[w].pc = "assigning" /\ WellAssigned(d)
    BY <1>8, <2>0 DEF StoreAssigned, TypeOK, Safe, CopiesGood
  <2>2. /\ deliveries' = [deliveries EXCEPT ![o] = d]
        /\ lapse' = [lapse EXCEPT ![o] = doubt[w]]
        /\ job' = [job EXCEPT ![w] = Idle]
        /\ UNCHANGED facilities
    BY <1>8, <2>0 DEF StoreAssigned
  <2>3. \A v \in Workers : job'[v].pc # "idle" => v # w /\ job'[v] = job[v]
    BY <2>2, IdleType DEF TypeOK
  <2>4. \A v \in Workers : job'[v].pc = "assigning" => doubt'[v] # "none"
    BY <1>8, <2>3 DEF StoreAssigned, TypeOK
  <2>5. deliveries'[o] = d
    BY <2>1, <2>2 DEF TypeOK
  <2>6. \A p \in Orders : p # o =>
          deliveries'[p] = deliveries[p] /\ (InService(p)' <=> InService(p))
    BY <2>1, <2>2, OthersStay
  <2>7. RulesKnown' /\ CopiesGood'
    <3>1. \A v \in Workers : v # w => inForce'[v] = inForce[v]
      BY <1>8 DEF StoreAssigned, TypeOK
    <3> QED
      BY <2>3, <3>1, WellStays, HeedsStays DEF Safe, RulesKnown, CopiesGood
  <2>8. Serviceable'
    BY <2>1, <2>5, <2>6, WellStays DEF Safe, Serviceable
  <2>9. StillFree'
    BY <2>4 DEF StillFree
  <2>10. NoDoubleBooking'
    <3>1. ASSUME NEW q \in Orders, q # o, Clash(o, q)' \/ Clash(q, o)'
          PROVE  Collides(d, q)
      <4>1. deliveries'[q] = deliveries[q] /\ (InService(q)' <=> InService(q))
        BY <2>6, <3>1
      <4>2. CASE Clash(o, q)'
        BY <2>5, <4>1, <4>2, NearBoth DEF Clash, Collides
      <4>3. CASE Clash(q, o)'
        BY <2>5, <4>1, <4>3, NearBoth DEF Clash, Collides
      <4> QED
        BY <3>1, <4>2, <4>3
    <3>2. doubt[w] = "none" => \A q \in Orders : q # o => ~Collides(d, q)
      BY <2>0, <2>1 DEF Safe, StillFree
    <3>3. lapse'[o] = doubt[w] /\ \A p \in Orders : p # o => lapse'[p] = lapse[p]
      BY <2>1, <2>2 DEF TypeOK
    <3>4. ASSUME NEW p \in Orders, NEW q \in Orders, p # o, q # o, Clash(p, q)'
          PROVE  Clash(p, q)
      BY <2>6, <3>4 DEF Clash
    <3>5. ASSUME NEW p \in Orders, NEW q \in Orders, Clash(p, q)'
          PROVE  lapse'[p] # "none" \/ lapse'[q] # "none"
      <4>1. p # q
        BY <3>5 DEF Clash
      <4>2. CASE p = o
        BY <3>1, <3>2, <3>3, <3>5, <4>1, <4>2
      <4>3. CASE q = o
        BY <3>1, <3>2, <3>3, <3>5, <4>1, <4>3
      <4>4. CASE p # o /\ q # o
        BY <3>3, <3>4, <3>5, <4>4 DEF Safe, NoDoubleBooking
      <4> QED
        BY <4>2, <4>3, <4>4
    <3> QED
      BY <3>5 DEF NoDoubleBooking
  <2> QED
    BY <2>7, <2>8, <2>9, <2>10 DEF Safe
<1>9. ASSUME NEW w \in Workers, StoreMoved(w)
      PROVE  Safe'
  <2>1. /\ job[w].id \in Orders
        /\ job[w].row.state # "in_progress"
        /\ deliveries' = [deliveries EXCEPT ![job[w].id] = job[w].row]
        /\ job' = [job EXCEPT ![w] = Idle]
        /\ UNCHANGED <<doubt, lapse, inForce>>
    BY <1>9 DEF StoreMoved, TypeOK, Safe, CopiesGood
  <2>2. \A p \in Orders : InService(p)' => InService(p) /\ deliveries'[p] = deliveries[p]
    BY <2>1, PutOutOfService
  <2>3. \A v \in Workers : job'[v].pc # "idle" => job'[v] = job[v]
    BY <2>1, IdleType DEF TypeOK
  <2>4. RulesKnown' /\ CopiesGood'
    BY <2>1, <2>3, IdleType, WellStays, HeedsStays DEF Safe, RulesKnown, CopiesGood, TypeOK
  <2>5. StillFree'
    BY <2>1, <2>2, <2>3, NothingNewInService DEF Safe, StillFree
  <2> QED
    BY <2>1, <2>2, <2>4, <2>5, NothingNewInService DEF Safe
<1>10. CASE UNCHANGED vars
  BY <1>10, WellStays, HeedsStays DEF vars, Safe, RulesKnown, CopiesGood, Serviceable,
     StillFree, NoDoubleBooking, Clash, Collides, InService, Exists
<1>11. ASSUME NEW w \in Workers, Abort(w)
       PROVE  Safe'
  <2>1. /\ job' = [job EXCEPT ![w] = Idle] /\ UNCHANGED <<deliveries, lapse>>
        /\ \A v \in Workers : v # w => inForce'[v] = inForce[v] /\ doubt'[v] = doubt[v]
    BY <1>11 DEF Abort, TypeOK
  <2> QED
    BY <2>1, <1>3, IdleType
<1>12. CASE Restart
  <2>1. \A w \in Workers : job'[w].pc = "idle"
    BY <1>12, IdleType DEF Restart
  <2>2. RulesKnown' /\ CopiesGood' /\ StillFree'
    BY <2>1 DEF RulesKnown, CopiesGood, StillFree
  <2>3. \A p \in Orders : InService(p)' => InService(p) /\ deliveries'[p] = deliveries[p]
    BY <1>12, RestartInService
  <2>4. NoDoubleBooking'
    <3>1. CASE Store = "memory"
      <4>1. \A p \in Orders : ~InService(p)'
        BY <1>12, <3>1 DEF Restart, InService, Exists
      <4> QED
        BY <4>1 DEF NoDoubleBooking, Clash
    <3>2. CASE Store # "memory"
      BY <1>12, <2>3, <3>2, NothingNewInService DEF Restart
    <3> QED
      BY <3>1, <3>2
  <2> QED
    BY <2>2, <2>3, <2>4, NothingNewInService DEF Safe
<1> QED
  BY <1>1, <1>2, <1>4, <1>5, <1>6, <1>7, <1>8, <1>9, <1>10, <1>11, <1>12 DEF Next, Serve

LEMMA SafeAlways == Spec => []Safe
<1>1. Init => TypeOK /\ Safe
  BY TypeInit, SafeInit
<1>2. TypeOK /\ Safe /\ [Next]_vars => (TypeOK /\ Safe)'
  BY TypeStep, SafeStep
<1> QED
  BY <1>1, <1>2, PTL DEF Spec

\* However assignments, transitions and edits of facilities overlap, and even
\* when lists of deliveries fail: two deliveries under way collide only if
\* one was assigned after another assignment it had not seen, or unlisted.
THEOREM OnlyRacesDoubleBook == Spec => []NoDoubleBooking
<1>1. Safe => NoDoubleBooking
  BY DEF Safe
<1> QED
  BY <1>1, SafeAlways, PTL

\* Every delivery under way is with a courier of its organisation, or of none,
\* who serves its zone.
THEOREM AssignmentsServiceable == Spec => []Serviceable
<1>1. Safe => Serviceable
  BY DEF Safe
<1> QED
  BY <1>1, SafeAlways, PTL

\* However edits of a facility overlap with assignments, and over Postgres
\* with reads of it that fail: what is put under way obeys the rules which the
\* facility that the request names had at one moment of it.
THEOREM AssignmentsHeedRules == Spec => RulesHeeded
<1> DEFINE Heeded(o) ==
             InService(o)' /\ deliveries'[o] # deliveries[o] =>
               \E w \in Workers :
                 /\ job[w].id = o
                 /\ \E rules \in inForce[w] : Heeds(deliveries'[o], rules)
<1>1. ASSUME TypeOK, Safe, Next, NEW o \in Orders, InService(o)', deliveries'[o] # deliveries[o]
      PROVE  \E w \in Workers :
               /\ job[w].id = o
               /\ \E rules \in inForce[w] : Heeds(deliveries'[o], rules)
  <2>1. PICK w \in Workers : StoreAssigned(w)
    <3>1. ASSUME NEW p \in Orders, NEW b \in Pickups, Create(p, b) PROVE FALSE
      <4> DEFINE d == [state |-> "created", courier |-> None,
                       pickup |-> b.pickup, zone |-> b.zone, org |-> b.org]
      <4>1. deliveries' = [deliveries EXCEPT ![p] = d] /\ d.state # "in_progress"
        BY <3>1 DEF Create
      <4> HIDE DEF d
      <4> QED
        BY <1>1, <4>1, PutOutOfService
    <3>2. ASSUME NEW w \in Workers, StoreMoved(w) PROVE FALSE
      <4>1. /\ job[w].id \in Orders /\ job[w].row.state # "in_progress"
            /\ deliveries' = [deliveries EXCEPT ![job[w].id] = job[w].row]
        BY <1>1, <3>2 DEF StoreMoved, TypeOK, Safe, CopiesGood
      <4> QED
        BY <1>1, <4>1, PutOutOfService
    <3>3. ~Restart
      BY <1>1, RestartInService
    <3>4. ~UNCHANGED deliveries
      BY <1>1
    <3> QED
      BY <1>1, <3>1, <3>2, <3>3, <3>4
         DEF Next, Serve, AdminFacility, LoadForAssign, LoadAndMove, ReadFacility, Decide, Abort
  <2>2. job[w].id \in Orders /\ deliveries' = [deliveries EXCEPT ![job[w].id] = job[w].row]
    BY <1>1, <2>1 DEF StoreAssigned, TypeOK
  <2>3. job[w].id = o /\ deliveries'[o] = job[w].row
    BY <1>1, <2>2 DEF TypeOK
  <2>4. \E rules \in inForce[w] : Heeds(job[w].row, rules)
    BY <1>1, <2>1 DEF StoreAssigned, Safe, CopiesGood, HeedsOne
  <2> QED
    BY <2>3, <2>4
<1>2. TypeOK /\ Safe /\ [Next]_vars => [\A o \in Orders : Heeded(o)]_vars
  BY <1>1
<1>3. Init => TypeOK /\ Safe
  BY TypeInit, SafeInit
<1>4. TypeOK /\ Safe /\ [Next]_vars => (TypeOK /\ Safe)'
  BY TypeStep, SafeStep
<1> QED
  BY <1>2, <1>3, <1>4, PTL DEF Spec, RulesHeeded

\* Whatever the candidates and the list of deliveries: Assign finds a courier
\* exactly when the pickup is valid and one is eligible; that courier is
\* eligible, and none that is eligible has a smaller key in the strategy.
THEOREM AssignPicksBest ==
  ASSUME NEW strategy, NEW o \in Row, NEW facility,
         NEW candidates \in SUBSET Couriers, NEW refusals, NEW existing
  PROVE  LET eligible == EligibleCouriers(candidates, refusals, o, existing)
             picked == Assign(strategy, o, facility, candidates, refusals, existing)
             key == Keys(strategy, o)
         IN /\ picked.conflict = "none" <=>
                 ValidatePickup(o, facility) = "none" /\ eligible # {}
            /\ picked.conflict = "none" =>
                 /\ picked.courier \in eligible
                 /\ \A d \in eligible : key[picked.courier] <= key[d]
<1> DEFINE eligible == EligibleCouriers(candidates, refusals, o, existing)
           picked == Assign(strategy, o, facility, candidates, refusals, existing)
<1>1. picked.conflict = "none" <=> ValidatePickup(o, facility) = "none" /\ eligible # {}
  BY DEF Assign, NoneLeft
<1>2. picked.conflict = "none" => picked.courier = Select(Keys(strategy, o), eligible)
  BY <1>1 DEF Assign
<1>3. eligible \in SUBSET Couriers /\ o.zone \in Zones
  BY DEF EligibleCouriers, Row
<1> HIDE DEF eligible, picked
<1>4. eligible # {} => /\ Select(Keys(strategy, o), eligible) \in eligible
                       /\ \A d \in eligible :
                            Keys(strategy, o)[Select(Keys(strategy, o), eligible)]
                              <= Keys(strategy, o)[d]
  BY <1>3, KeysType, SelectLeads
<1> QED
  BY <1>1, <1>2, <1>4 DEF eligible, picked

-----------------------------------------------------------------------------
\* Deliveries under way, assigned on lists that were read, that all clash.
Crowd(S) ==
  /\ S # {}
  /\ \A o \in S : InService(o) /\ lapse[o] # "unlisted"
  /\ \A o1, o2 \in S : o1 # o2 => Clash(o1, o2)

\* The workers about to add to them: they listed the deliveries before the
\* first of these was stored.
Joining(S) ==
  {w \in Workers : /\ job[w].pc = "assigning" /\ doubt[w] # "unlisted"
                   /\ \A o \in S : Collides(job[w].row, o)}

\* Whoever stored the first of them was in flight with all the others.
Crowded ==
  \A S \in SUBSET Orders :
    Crowd(S) => /\ IsFiniteSet(S)
                /\ Cardinality(S) + Cardinality(Joining(S)) <= Cardinality(Workers)

LEMMA JoiningFinite ==
  ASSUME NEW S
  PROVE  /\ IsFiniteSet(Joining(S)) /\ Cardinality(Joining(S)) \in Nat
         /\ Cardinality(Workers) \in Nat
         /\ \A w \in Workers : w \notin Joining(S) =>
              Cardinality(Joining(S)) + 1 <= Cardinality(Workers)
<1>1. IsFiniteSet(Workers) /\ Cardinality(Workers) \in Nat
  BY DispatchAssumption, FS_CardinalityType
<1>2. Joining(S) \in SUBSET Workers
  BY DEF Joining
<1>3. IsFiniteSet(Joining(S)) /\ Cardinality(Joining(S)) <= Cardinality(Workers)
      /\ (Cardinality(Workers) = Cardinality(Joining(S)) => Workers = Joining(S))
  BY <1>1, <1>2, FS_Subset
<1>4. Cardinality(Joining(S)) \in Nat
  BY <1>3, FS_CardinalityType
<1>5. ASSUME NEW w \in Workers, w \notin Joining(S)
      PROVE  Cardinality(Joining(S)) # Cardinality(Workers)
  BY <1>3, <1>5
<1> QED
  BY <1>1, <1>3, <1>4, <1>5

LEMMA CrowdedInit == Init => Crowded
<1> SUFFICES ASSUME Init, NEW S \in SUBSET Orders, Crowd(S) PROVE FALSE
  BY DEF Crowded
<1> QED
  BY DEF Crowd, Init, InService, Exists

\* A crowd there was already, and nobody new about to join it.
LEMMA CrowdStays ==
  ASSUME Crowded, NEW S \in SUBSET Orders, Crowd(S), Joining(S)' \subseteq Joining(S)
  PROVE  /\ IsFiniteSet(S)
         /\ Cardinality(S) + Cardinality(Joining(S)') <= Cardinality(Workers)
<1>1. IsFiniteSet(S) /\ Cardinality(S) + Cardinality(Joining(S)) <= Cardinality(Workers)
  BY DEF Crowded
<1>2. Cardinality(S) \in Nat /\ Cardinality(Workers) \in Nat
  BY <1>1, JoiningFinite, FS_CardinalityType
<1>3. PICK J, J2 : J = Joining(S) /\ J2 = Joining(S)'
  OBVIOUS
<1>4. IsFiniteSet(J) /\ J2 \in SUBSET J /\ Cardinality(J) \in Nat
  BY <1>3, JoiningFinite
<1>5. Cardinality(J2) \in Nat /\ Cardinality(J2) <= Cardinality(J)
  BY <1>4, FS_Subset, FS_CardinalityType
<1>6. Cardinality(S) + Cardinality(J) <= Cardinality(Workers)
  BY <1>1, <1>3
<1>7. Cardinality(S) + Cardinality(J2) <= Cardinality(Workers)
  BY <1>2, <1>4, <1>5, <1>6
<1> QED
  BY <1>1, <1>3, <1>7

\* No delivery is put under way, and no worker gets ready to assign a courier
\* who is not free.
LEMMA NoCrowdGrows ==
  ASSUME TypeOK, Crowded, UNCHANGED lapse,
         \A p \in Orders : InService(p)' => InService(p) /\ deliveries'[p] = deliveries[p],
         \A v \in Workers :
           job'[v].pc = "assigning" /\ doubt'[v] # "unlisted" =>
             \/ job[v] = job'[v] /\ doubt[v] # "unlisted"
             \/ \A o \in Orders : ~Collides(job'[v].row, o)
  PROVE  Crowded'
<1> SUFFICES ASSUME NEW S \in SUBSET Orders, Crowd(S)'
             PROVE  /\ IsFiniteSet(S)
                    /\ Cardinality(S) + Cardinality(Joining(S)') <= Cardinality(Workers)
  BY DEF Crowded
<1>1. \A d : \A p \in Orders : Collides(d, p)' => Collides(d, p)
  BY DEF Collides
<1>2. \A p, q \in Orders : Clash(p, q)' => Clash(p, q)
  BY DEF Clash
<1>3. Crowd(S)
  BY <1>2 DEF Crowd
<1>4. ASSUME NEW v \in Joining(S)' PROVE v \in Joining(S)
  <2>1. /\ v \in Workers /\ job'[v].pc = "assigning" /\ doubt'[v] # "unlisted"
    BY DEF Joining
  <2>2. \A o \in S : Collides(job'[v].row, o)
    <3>1. PICK d : d = job'[v].row
      OBVIOUS
    <3>2. \A o \in S : Collides(d, o)'
      BY <3>1 DEF Joining, Collides
    <3> QED
      BY <1>1, <3>1, <3>2
  <2>3. job[v] = job'[v] /\ doubt[v] # "unlisted"
    BY <1>3, <2>1, <2>2 DEF Crowd
  <2> QED
    BY <2>1, <2>2, <2>3 DEF Joining
<1> QED
  BY <1>3, <1>4, CrowdStays

\* A delivery joins the crowds its row clashes with; the worker that stores it
\* leaves those that are about to.
LEMMA CrowdGrows ==
  ASSUME TypeOK, Crowded, NEW w \in Workers, StoreAssigned(w)
  PROVE  Crowded'
<1>1. PICK o \in Orders, d \in Row : o = job[w].id /\ d = job[w].row
  BY DEF StoreAssigned, TypeOK
<1>2. /\ deliveries' = [deliveries EXCEPT ![o] = d]
      /\ job' = [job EXCEPT ![w] = Idle] /\ job[w].pc = "assigning"
  BY <1>1 DEF StoreAssigned
<1>3. /\ deliveries'[o] = d
      /\ \A p \in Orders : p # o =>
           deliveries'[p] = deliveries[p] /\ (InService(p)' <=> InService(p))
  BY <1>2, OthersStay DEF TypeOK
<1>4. /\ lapse'[o] = doubt[w]
      /\ \A p \in Orders : p # o => lapse'[p] = lapse[p]
  BY <1>1 DEF StoreAssigned, TypeOK
<1>5. ASSUME NEW v \in Workers, job'[v].pc = "assigning", doubt'[v] # "unlisted"
      PROVE  v # w /\ job'[v] = job[v] /\ doubt[v] # "unlisted"
  <2>1. v # w /\ job'[v] = job[v]
    BY <1>2, <1>5, IdleType DEF TypeOK
  <2>2. doubt'[v] = IF job[v].pc = "assigning" /\ doubt[v] = "none" THEN "raced" ELSE doubt[v]
    BY <2>1 DEF StoreAssigned
  <2> QED
    BY <1>5, <2>1, <2>2
<1>6. \A e : \A p \in Orders \ {o} : Collides(e, p)' => Collides(e, p)
  BY <1>3 DEF Collides
<1>7. ASSUME NEW R \in SUBSET (Orders \ {o}), NEW S \in SUBSET Orders, R \subseteq S
      PROVE  Joining(S)' \subseteq Joining(R) \ {w}
  <2> SUFFICES ASSUME NEW v \in Joining(S)' PROVE v \in Joining(R) \ {w}
    OBVIOUS
  <2>1. v \in Workers /\ job'[v].pc = "assigning" /\ doubt'[v] # "unlisted"
    BY DEF Joining
  <2>2. v # w /\ job'[v] = job[v] /\ doubt[v] # "unlisted"
    BY <1>5, <2>1
  <2>3. PICK e : e = job'[v].row
    OBVIOUS
  <2>4. \A p \in S : Collides(e, p)'
    BY <2>3 DEF Joining, Collides
  <2>5. \A p \in R : Collides(e, p)
    BY <1>6, <1>7, <2>4
  <2> QED
    BY <2>1, <2>2, <2>3, <2>5 DEF Joining
<1>8. ASSUME NEW R \in SUBSET (Orders \ {o}), NEW S \in SUBSET Orders, R \subseteq S,
             R # {}, Crowd(S)'
      PROVE  Crowd(R)
  <2>1. \A p, q \in R : Clash(p, q)' => Clash(p, q)
    BY <1>3 DEF Clash
  <2>2. \A p \in R : InService(p) /\ lapse[p] # "unlisted"
    BY <1>3, <1>4, <1>8 DEF Crowd
  <2> QED
    BY <1>8, <2>1, <2>2 DEF Crowd
<1> SUFFICES ASSUME NEW S \in SUBSET Orders, Crowd(S)'
             PROVE  /\ IsFiniteSet(S)
                    /\ Cardinality(S) + Cardinality(Joining(S)') <= Cardinality(Workers)
  BY DEF Crowded
<1>9. CASE o \notin S
  <2>1. S \in SUBSET (Orders \ {o}) /\ S # {}
    BY <1>9 DEF Crowd
  <2>2. Crowd(S) /\ Joining(S)' \subseteq Joining(S)
    BY <1>7, <1>8, <2>1
  <2> QED
    BY <2>2, CrowdStays
<1>10. CASE S = {o}
  <2>1. PICK J : J = Joining(S)'
    OBVIOUS
  <2>2. J \in SUBSET Workers /\ w \notin J
    BY <1>5, <2>1 DEF Joining
  <2>3. IsFiniteSet(Workers)
    BY DispatchAssumption
  <2>4. /\ IsFiniteSet(J) /\ Cardinality(J) <= Cardinality(Workers)
        /\ (Cardinality(Workers) = Cardinality(J) => Workers = J)
    BY <2>2, <2>3, FS_Subset
  <2>5. Cardinality(J) \in Nat /\ Cardinality(Workers) \in Nat
    BY <2>3, <2>4, FS_CardinalityType
  <2>6. Cardinality(J) # Cardinality(Workers)
    BY <2>2, <2>4
  <2>7. IsFiniteSet(S) /\ Cardinality(S) = 1
    BY <1>10, FS_Singleton
  <2>8. 1 + Cardinality(J) <= Cardinality(Workers)
    BY <2>4, <2>5, <2>6
  <2> QED
    BY <2>1, <2>7, <2>8
<1>11. CASE o \in S /\ S # {o}
  <2> DEFINE R == S \ {o}
  <2>1. R \in SUBSET (Orders \ {o}) /\ R \subseteq S /\ R # {}
    BY <1>11
  <2>2. Crowd(R) /\ Joining(S)' \subseteq Joining(R) \ {w}
    <3> HIDE DEF R
    <3> QED
      BY <1>7, <1>8, <2>1
  <2>3. w \in Joining(R)
    <3>1. doubt[w] # "unlisted"
      BY <1>4, <1>11 DEF Crowd
    <3>2. ASSUME NEW p \in R PROVE Collides(d, p)
      <4>1. Clash(o, p)'
        BY <1>11, <3>2 DEF Crowd
      <4>2. InService(p) /\ deliveries'[p] = deliveries[p]
        BY <1>3, <2>1, <4>1 DEF Clash
      <4> QED
        BY <1>3, <4>1, <4>2, NearBoth DEF Clash, Collides
    <3> QED
      BY <1>1, <1>2, <3>1, <3>2 DEF Joining
  <2>4. IsFiniteSet(R) /\ Cardinality(R) + Cardinality(Joining(R)) <= Cardinality(Workers)
    BY <2>1, <2>2 DEF Crowded
  <2>5. PICK J, J2 : J = Joining(R) /\ J2 = Joining(S)'
    OBVIOUS
  <2>6. IsFiniteSet(J) /\ Cardinality(J) \in Nat /\ J2 \subseteq J /\ w \in J /\ w \notin J2
    BY <2>2, <2>3, <2>5, JoiningFinite
  <2>7. /\ IsFiniteSet(J2) /\ Cardinality(J2) <= Cardinality(J)
        /\ (Cardinality(J) = Cardinality(J2) => J = J2)
    BY <2>6, FS_Subset
  <2>8. Cardinality(J2) \in Nat /\ Cardinality(J2) # Cardinality(J)
    BY <2>6, <2>7, FS_CardinalityType
  <2>9. IsFiniteSet(S) /\ Cardinality(S) = Cardinality(R) + 1
    <3>1. S = R \cup {o} /\ o \notin R
      BY <1>11
    <3> HIDE DEF R
    <3> QED
      BY <2>4, <3>1, FS_AddElement
  <2>10. Cardinality(R) \in Nat /\ Cardinality(Workers) \in Nat
    BY <2>4, DispatchAssumption, FS_CardinalityType
  <2>11. PICK k, n \in Nat : k = Cardinality(R) /\ n = Cardinality(Workers)
    BY <2>10
  <2>12. k + Cardinality(J) <= n
    BY <2>4, <2>5, <2>11
  <2>13. (k + 1) + Cardinality(J2) <= n
    BY <2>6, <2>7, <2>8, <2>12
  <2> QED
    BY <2>5, <2>9, <2>11, <2>13
<1> QED
  BY <1>9, <1>10, <1>11

LEMMA CrowdedStep == TypeOK /\ Safe /\ Crowded /\ [Next]_vars => Crowded'
<1> SUFFICES ASSUME TypeOK, Safe, Crowded, [Next]_vars PROVE Crowded'
  OBVIOUS
<1>1. ASSUME NEW o \in Orders, NEW p \in Pickups, Create(o, p)
      PROVE  Crowded'
  <2> DEFINE d == [state |-> "created", courier |-> None,
                   pickup |-> p.pickup, zone |-> p.zone, org |-> p.org]
  <2>1. deliveries' = [deliveries EXCEPT ![o] = d] /\ d.state # "in_progress"
        /\ UNCHANGED <<job, doubt, lapse>>
    BY <1>1 DEF Create
  <2> HIDE DEF d
  <2>2. \A q \in Orders : InService(q)' => InService(q) /\ deliveries'[q] = deliveries[q]
    BY <2>1, PutOutOfService
  <2> QED
    BY <2>1, <2>2, NoCrowdGrows
<1>2. ASSUME NEW w \in Workers, NEW j, job' = [job EXCEPT ![w] = j],
             j.pc = "assigning" /\ doubt'[w] # "unlisted" =>
               \A o \in Orders : ~Collides(j.row, o),
             \A v \in Workers : v # w => doubt'[v] = doubt[v],
             UNCHANGED lapse,
             \A p \in Orders : InService(p)' => InService(p) /\ deliveries'[p] = deliveries[p]
      PROVE  Crowded'
  <2>1. ASSUME NEW v \in Workers, job'[v].pc = "assigning", doubt'[v] # "unlisted"
        PROVE  \/ job[v] = job'[v] /\ doubt[v] # "unlisted"
               \/ \A o \in Orders : ~Collides(job'[v].row, o)
    <3>1. CASE v = w
      <4>1. job'[v] = j
        BY <1>2, <3>1 DEF TypeOK
      <4> QED
        BY <1>2, <2>1, <3>1, <4>1
    <3>2. CASE v # w
      BY <1>2, <2>1, <3>2 DEF TypeOK
    <3> QED
      BY <3>1, <3>2
  <2> QED
    BY <1>2, <2>1, NoCrowdGrows
<1>3. ASSUME UNCHANGED deliveries
      PROVE  \A p \in Orders : InService(p)' => InService(p) /\ deliveries'[p] = deliveries[p]
  BY <1>3 DEF InService, Exists
<1>4. ASSUME NEW w \in Workers, NEW o \in Orders, NEW f,
             LoadForAssign(w, o, f) \/ LoadAndMove(w, o)
      PROVE  Crowded'
  <2>1. PICK j : job' = [job EXCEPT ![w] = j] /\ j.pc \in {"loaded", "moving"}
    <3>1. CASE LoadForAssign(w, o, f)
      <4>1. Request("loaded", o, deliveries[o], f, NoFacility).pc = "loaded"
        BY DEF Request
      <4> QED
        BY <3>1, <4>1 DEF LoadForAssign
    <3>2. CASE LoadAndMove(w, o)
      <4>1. PICK s \in Moves(deliveries[o]) :
              job' = [job EXCEPT ![w] =
                Request("moving", o, [deliveries[o] EXCEPT !.state = s], None, NoFacility)]
        BY <3>2 DEF LoadAndMove
      <4>2. Request("moving", o, [deliveries[o] EXCEPT !.state = s], None, NoFacility).pc = "moving"
        BY DEF Request
      <4> QED
        BY <4>1, <4>2
    <3> QED
      BY <1>4, <3>1, <3>2
  <2>2. UNCHANGED <<deliveries, doubt, lapse>>
    BY <1>4 DEF LoadForAssign, LoadAndMove
  <2> QED
    BY <1>2, <1>3, <2>1, <2>2
<1>5. ASSUME NEW w \in Workers, NEW read \in BOOLEAN, ReadFacility(w, read)
      PROVE  Crowded'
  <2>1. PICK j : job' = [job EXCEPT ![w] = j] /\ j.pc = "listing"
    <3>1. PICK rules \in FacilityRules :
            job' = [job EXCEPT ![w] =
              Request("listing", job[w].id, job[w].row, job[w].named, rules)]
      BY <1>5, ReadSplit
    <3>2. Request("listing", job[w].id, job[w].row, job[w].named, rules).pc = "listing"
      BY DEF Request
    <3> QED
      BY <3>1, <3>2
  <2>2. UNCHANGED <<deliveries, doubt, lapse>>
    BY <1>5 DEF ReadFacility
  <2> QED
    BY <1>2, <1>3, <2>1, <2>2
<1>6. ASSUME NEW w \in Workers, NEW strategy \in Strategies, NEW listed \in BOOLEAN,
             Decide(w, strategy, listed)
      PROVE  Crowded'
  <2>1. UNCHANGED <<deliveries, lapse>> /\ job[w].pc = "listing"
    BY <1>6 DEF Decide
  <2>2. CASE Ended(w) /\ UNCHANGED doubt
    BY <1>2, <1>3, <2>1, <2>2, IdleType DEF Ended
  <2>3. CASE Decided(w, strategy, listed)
    <3> DEFINE d == job[w].row
    <3>1. PICK c \in Couriers :
            /\ job' = [job EXCEPT ![w] =
                 Request("assigning", job[w].id, Assigned(d, c), None, NoFacility)]
            /\ ~OverlapsExisting(c, d.pickup, IF listed THEN DeliveriesOf(d.org) ELSE {})
      BY <2>1, <2>3, DecidedFits
    <3> DEFINE j == Request("assigning", job[w].id, Assigned(d, c), None, NoFacility)
    <3>2. j.row = Assigned(d, c) /\ d \in Row
      BY <2>1 DEF Request, TypeOK
    <3>3. ASSUME doubt'[w] # "unlisted", NEW o \in Orders
          PROVE  ~Collides(Assigned(d, c), o)
      <4>1. listed
        BY <2>3, <3>3 DEF Decided, TypeOK
      <4> QED
        BY <3>1, <3>2, <4>1, ListedIsFree
    <3>4. job' = [job EXCEPT ![w] = j] /\ \A v \in Workers : v # w => doubt'[v] = doubt[v]
      BY <2>3, <3>1 DEF Decided, TypeOK
    <3> HIDE DEF j, d
    <3> QED
      BY <1>2, <1>3, <2>1, <3>2, <3>3, <3>4
  <2> QED
    BY <1>6, <2>2, <2>3, DecideSplit
<1>7. ASSUME NEW w \in Workers, StoreMoved(w)
      PROVE  Crowded'
  <2>1. /\ job[w].id \in Orders /\ job[w].row.state # "in_progress"
        /\ deliveries' = [deliveries EXCEPT ![job[w].id] = job[w].row]
        /\ job' = [job EXCEPT ![w] = Idle] /\ UNCHANGED <<doubt, lapse>>
    BY <1>7 DEF StoreMoved, TypeOK, Safe, CopiesGood
  <2>2. \A p \in Orders : InService(p)' => InService(p) /\ deliveries'[p] = deliveries[p]
    BY <2>1, PutOutOfService
  <2> QED
    BY <1>2, <2>1, <2>2, IdleType
<1>8. CASE UNCHANGED <<deliveries, job, doubt, lapse>>
  BY <1>3, <1>8, NoCrowdGrows
<1>9. ASSUME NEW f \in Facilities, NEW rules \in FacilityEdits, AdminFacility(f, rules)
      PROVE  Crowded'
  BY <1>8, <1>9 DEF AdminFacility
<1>10. CASE UNCHANGED vars
  BY <1>8, <1>10 DEF vars
<1>11. ASSUME NEW w \in Workers, Abort(w)
       PROVE  Crowded'
  <2>1. /\ job' = [job EXCEPT ![w] = Idle] /\ UNCHANGED <<deliveries, lapse>>
        /\ \A v \in Workers : v # w => doubt'[v] = doubt[v]
    BY <1>11 DEF Abort, TypeOK
  <2> QED
    BY <1>2, <1>3, <2>1, IdleType
<1>12. CASE Restart
  <2>1. \A v \in Workers : job'[v].pc # "assigning"
    BY <1>12, IdleType DEF Restart
  <2>2. CASE Store = "memory"
    <3>1. \A p \in Orders : ~InService(p)'
      BY <1>12, <2>2 DEF Restart, InService, Exists
    <3> QED
      BY <3>1 DEF Crowded, Crowd
  <2>3. CASE Store # "memory"
    BY <1>12, <2>1, <2>3, RestartInService, NoCrowdGrows DEF Restart
  <2> QED
    BY <2>2, <2>3
<1> QED
  BY <1>1, <1>4, <1>5, <1>6, <1>7, <1>9, <1>10, <1>11, <1>12, CrowdGrows DEF Next, Serve

\* As long as the lists of deliveries are read, AssignCourier never puts more
\* deliveries that clash with one another under way than there are requests
\* in flight: each was decided before the first of them was stored.
THEOREM ClashesNarrow == Spec => []ClashWidth
<1>1. ASSUME TypeOK, Crowded PROVE ClashWidth
  <2> SUFFICES ASSUME NEW S \in SUBSET {o \in Orders : lapse[o] # "unlisted"},
                      \A o1, o2 \in S : o1 # o2 => Clash(o1, o2)
               PROVE  Cardinality(S) <=
                        IF Cardinality(Workers) > 1 THEN Cardinality(Workers) ELSE 1
    BY DEF ClashWidth
  <2>1. Cardinality(Workers) \in Nat
    BY JoiningFinite
  <2>2. CASE S = {}
    BY <2>1, <2>2, FS_EmptySet
  <2>3. ASSUME NEW o \in S, S = {o}
        PROVE  Cardinality(S) = 1
    BY <2>3, FS_Singleton
  <2>4. ASSUME NEW o1 \in S, NEW o2 \in S, o1 # o2
        PROVE  Cardinality(S) \in Nat /\ Cardinality(S) <= Cardinality(Workers)
    <3>1. \A o \in S : InService(o)
      BY <2>4 DEF Clash
    <3>2. Crowd(S)
      BY <2>4, <3>1 DEF Crowd
    <3>3. IsFiniteSet(S) /\ Cardinality(S) + Cardinality(Joining(S)) <= Cardinality(Workers)
      BY <1>1, <3>2 DEF Crowded
    <3>4. Cardinality(S) \in Nat /\ Cardinality(Joining(S)) \in Nat
      BY <3>3, JoiningFinite, FS_CardinalityType
    <3> QED
      BY <2>1, <3>3, <3>4
  <2> QED
    BY <2>1, <2>2, <2>3, <2>4
<1>2. Init => TypeOK /\ Safe /\ Crowded
  BY TypeInit, SafeInit, CrowdedInit
<1>3. TypeOK /\ Safe /\ Crowded /\ [Next]_vars => (TypeOK /\ Safe /\ Crowded)'
  BY TypeStep, SafeStep, CrowdedStep
<1> QED
  BY <1>1, <1>2, <1>3, PTL DEF Spec
=============================================================================
