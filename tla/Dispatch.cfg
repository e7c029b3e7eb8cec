\* Three deliveries, two dispatchers at work at once over Postgres, where lists
\* and reads of the facility may fail, and an admin who edits the facility.
CONSTANTS
  ann = ann
  bob = bob
  cyd = cyd
  org1 = org1
  org2 = org2
  dock = dock
  yard = yard
  site = site
  Couriers = {ann, bob, cyd}
  Orgs = {org1, org2}
  Zones = {dock, yard}
  None = None
  Facilities = {site}
  Orders = {o1, o2, o3}
  Workers = {w1, w2}
  PerHour = 2
  MaxRating = 5
  Store = "postgres"
  MaxRequests = 3
  Rank <- MCRank
  CourierOrg <- MCCourierOrg
  Refuses <- MCRefuses
  Distance <- MCDistance
  Rating <- MCRating
  LoadOf <- MCLoadOf
  Pickups <- MCPickups
  FacilityEdits <- MCFacilityEdits
  Seeded <- MCSeeded
SPECIFICATION Spec
SYMMETRY Symmetry
INVARIANTS
  TypeOK
  NoDoubleBooking
  ClashWidth
PROPERTIES
  RulesHeeded
