SPECIFICATION TimelineSpec
CONSTANTS
  Forever = 50
  NotStarted = NotStarted
  None = None
  NumJobs = 3
  JobSpecs <- MixedSpecs
  Cluster <- TwoNodes
  Policies <- MainPolicies
  MaxTime = 2
  MaxLatency = 1
  MaxFlips = 1
INVARIANTS PlanIsSound NoOvercommit LeftOutForCause LikeJobsInOrder BackfillIsBounded ReservationSlides
CHECK_DEADLOCK FALSE
