SPECIFICATION MarketSpec
CONSTANTS
  Askers = {alice}
  Queries = {q1}
  Keys = {k1}
  MaxJobs = 1
  MaxAttempts = 2
  MaxTime = 0
  MaxEvents = 1
  Public = {q1}
INVARIANTS
  AnsweredIsRecorded
CHECK_DEADLOCK FALSE
