\* design.md:74, :76: booking creation enforces capacity. Two overlapping requests
\* sell the last seat twice.
CONSTANTS
  MaxReschedules = 2
  CancelWindow = 1
  RefundWindow = 1
  Sessions = {s1}
  NoSession = NoSession
  MaxTime = 2
  Orders = {o1, o2}
  Workers = {w1, w2}
  Store = "memory"
  MaxRequests = 5
  Capacity <- MCCapacity
  StartsAt <- MCStartsAt
  PickupTimes <- MCPickupTimes
  DayOf <- MCDayOf
  Traffic <- BookingTraffic
SPECIFICATION LSpec
INVARIANTS
  NoOverselling
