SPECIFICATION FairNotifySpec
CONSTANTS
  e1 = e1
  e2 = e2
  Emitters = {e1}
  Events <- MCEvents
  Rules <- MCRules
  DefaultChannels <- MCNoChannels
  Registered = {"log", "im"}
  MaxWall = 1
  MaxEvents = 2
  MaxFailures = 1
  MaxEngineRestarts = 0
PROPERTY FailedIsRetried
CHECK_DEADLOCK FALSE
