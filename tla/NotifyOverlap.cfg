\* Two senders, a transport that may fail, a night in between.
CONSTANTS
  Orders = {o1}
  Users = {u1}
  Senders = {s1, s2}
  ReminderCap = 2
  MaxAttempts = 3
  Flaky = TRUE
  Store = "postgres"
  MaxDay = 1
  MaxCalls = 3
SPECIFICATION FairSpec
INVARIANTS
  TypeOK
  Overshoot
  EveryAttemptRecorded
  UnsubscribeLag
  CapRespected
PROPERTIES
  SendsReturn
