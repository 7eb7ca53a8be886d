SPECIFICATION TimelineSpec
CONSTANTS
  Forever = 50
  NotStarted = NotStarted
  None = None
  NumJobs = 3
  JobSpecs <- MixedSpecs
  Cluster <- TwoNodes
  Policies <- MainPolicies
  MaxTime = 2
  MaxLatency = 1
  MaxFlips = 1
INVARIANTS ReservationKept
CHECK_DEADLOCK FALSE
