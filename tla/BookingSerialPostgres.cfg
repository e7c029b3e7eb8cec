\* One request at a time, store calls that fail half-way (Postgres).
CONSTANTS
  MaxReschedules = 2
  CancelWindow = 1
  RefundWindow = 1
  Sessions = {s1}
  NoSession = NoSession
  MaxTime = 2
  Orders = {o1, o2}
  Workers = {w1}
  Store = "postgres"
  MaxRequests = 4
  Capacity <- MCCapacity
  StartsAt <- MCStartsAt
  PickupTimes <- MCPickupTimes
  DayOf <- MCDayOf
  Traffic <- BookingTraffic
SPECIFICATION PSpec
SYMMETRY Symmetry
INVARIANTS
  SeatsCovered
  TimelineWhole
  TimelineTruthful
  AcceptedReschedules
PROPERTIES
  ImplementsLifecycle
  CompletedFromActive
  SettledStays
