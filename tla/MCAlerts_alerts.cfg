SPECIFICATION AlertSpec
CONSTANTS
  n1 = n1
  Never = Never
  Nodes = {n1}
  SSHNodes = {n1}
  TicksPerSecond = 2
  Timeout = 2
  ReapInterval = 3
  ReportInterval = 2
  AfterDown = 6
  Cooldown = 9
  PassTime = 2
  MaxTime = 16
  MaxLost = 2
  MaxDeaths = 1
  MaxAborts = 1
  MaxRestarts = 1
  alice = alice
  Owners = {alice}
  NoOwner = NoOwner
  NoTime = NoTime
  IdleDuration = 3
  ScanInterval = 2
  MaxClock = 5
  MaxChanges = 3
  MaxJobs = 1
  MaxDowns = 1
  MaxDetRestarts = 1
  e1 = e1
  e2 = e2
  Emitters = {e1, e2}
  Events <- MCEvents
  Rules <- MCRules
  DefaultChannels <- MCNoChannels
  Registered = {"log", "im"}
  MaxWall = 1
  MaxEvents = 3
  MaxFailures = 1
  MaxEngineRestarts = 1
INVARIANTS DownIsAnnounced HealthyStaysUp SilenceIsNoticed OncePerCooldown NobodyIsLeftOut
PROPERTIES SilenceIsDiagnosed IdleIsSteady DiskIsTold
CHECK_DEADLOCK FALSE
