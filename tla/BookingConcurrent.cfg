\* Two requests in flight, every handler, failing statements: what survives.
CONSTANTS
  MaxReschedules = 2
  CancelWindow = 1
  RefundWindow = 1
  Sessions = {s1}
  NoSession = NoSession
  MaxTime = 2
  Orders = {o1, o2}
  Workers = {w1, w2}
  Store = "postgres"
  MaxRequests = 4
  Capacity <- MCCapacity
  StartsAt <- MCStartsAt
  PickupTimes <- MCPickupTimes
  DayOf <- MCDayOf
  Traffic <- Handlers
SPECIFICATION LSpec
SYMMETRY Symmetry
INVARIANTS
  TypeOK
  RefundsBacked
  SeatsAccounted
  OversoldBound
