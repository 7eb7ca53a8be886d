SPECIFICATION PlaneSpec
CONSTANTS
  None = None
  NoJob = NoJob
  Cores = 4
  MemTotal = 100
  Gpus <- MCGpus
  Npus <- MCNpus
  Partitions <- MCPartitions
  Installed = {"nvidia", "ascend"}
  Scenes <- MCScenes
  Collections <- MCCollections
  Asks <- MCAsks
  NsPerSec = 4
  MaxInt = 127
  SizeMax = 256
  Words = 16
  MaxStarts = 2
  MaxKills = 1
  MaxStamp = 2
  MaxAgents = 2
  MaxFaults = 1
  MaxBreaks = 1
  MaxLosses = 1
  MaxTries = 2
  MaxDenials = 1
INVARIANTS SchedulerSeesHardware AckedIsShown OnlyChipsCollide AnswersAreTrue RunsAsAsked
PROPERTIES  StopCompletes ReportsGetThrough
CHECK_DEADLOCK FALSE
