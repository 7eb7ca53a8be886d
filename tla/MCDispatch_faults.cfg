SPECIFICATION FairSpec
CONSTANTS
  j1 = j1
  j2 = j2
  n1 = n1
  n2 = n2
  d1 = d1
  d2 = d2
  NoNode = NoNode
  Jobs <- OneJob
  Nodes = {n1}
  Devices = {d1}
  Inventories <- FlakyInventory
  ReqGPUs <- OneEach
  Walltimed <- AllWalltimed
  MaxLost = 1
  MaxCrashes = 1
  MaxRestarts = 1
INVARIANTS RunningIsWatched CancelledIsDropped EndIsAnnounced
PROPERTIES RunningEnds AssignedIsPickedUp CancelTakesEffect
