\* Two overlapping requests on one order: slices that share a backing array.
CONSTANTS
  MaxReschedules = 2
  CancelWindow = 1
  RefundWindow = 1
  Sessions = {s1}
  NoSession = NoSession
  MaxTime = 2
  Orders = {o1}
  Workers = {w1, w2}
  Store = "memory"
  MaxRequests = 5
  Arrays = {a1, a2, a3, a4}
  NilArray = NilArray
  Capacity <- MCCapacity
  StartsAt <- MCStartsAt
  PickupTimes <- MCPickupTimes
  DayOf <- MCDayOf
  Traffic <- Handlers
SPECIFICATION TSpec
INVARIANTS
  TimelineRooted
  EveryStateAudited
  EventsAudited
