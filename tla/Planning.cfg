SPECIFICATION MCSpec
CONSTANTS
  Owners = {alice, bob}
  Scopes = {narrow, wide}
  Costly = {wide}
  Schedules = {s1, s2}
  Batches = {b1}
  NoBatch = NoBatch
  MaxStrategies = 2
  MaxVersion = 2
  MaxTransfers = 1
  MaxRuns = 2
  Period = 2
  MaxTime = 4
  ReviewDelay = 1
  MaxActs = 2
  MaxFaults = 1
INVARIANTS
  PlanningTypeOK
  RunsFitTheirPlan
  ActiveCampaignHasStrategy
  OneSearchPerScope
  PlansApart
  ReviewsNotRepeated
PROPERTIES
  DueIsServed
CHECK_DEADLOCK FALSE
