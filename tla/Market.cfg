SPECIFICATION MarketSpec
CONSTANTS
  Askers = {alice, bob}
  Queries = {q1, q2}
  Keys = {k1, k2}
  MaxJobs = 2
  MaxAttempts = 2
  MaxTime = 1
  MaxEvents = 2
  Public = {q1}
INVARIANTS
  MarketTypeOK
  KeyBindsOneJob
  SingleFlight
  NothingWithoutItsJob
PROPERTIES
  EndedMovesByRetry
  RunsEnd
CHECK_DEADLOCK FALSE
