\* One request at a time on the memory store: seats and timelines stay exact.
CONSTANTS
  MaxReschedules = 2
  CancelWindow = 1
  RefundWindow = 1
  Sessions = {s1}
  NoSession = NoSession
  MaxTime = 2
  Orders = {o1, o2}
  Workers = {w1}
  Store = "memory"
  MaxRequests = 5
  Arrays = {a1, a2, a3, a4}
  NilArray = NilArray
  Capacity <- MCCapacity
  StartsAt <- MCStartsAt
  PickupTimes <- MCPickupTimes
  DayOf <- MCDayOf
  Traffic <- BookingTraffic
SPECIFICATION FairTSpec
INVARIANTS
  SeatsExact
  TimelineMatchesState
PROPERTIES
  SeatsSettle
  TimelineAppendOnly
