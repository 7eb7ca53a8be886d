SPECIFICATION Spec
CONSTANTS
  j1 = j1
  j2 = j2
  n1 = n1
  n2 = n2
  d1 = d1
  d2 = d2
  NoNode = NoNode
  Jobs <- TwoJobs
  Nodes = {n1}
  Devices = {d1}
  Inventories <- FullInventory
  ReqGPUs <- OneEach
  Walltimed <- NoWalltime
  MaxLost = 0
  MaxCrashes = 0
  MaxRestarts = 1
SYMMETRY JobSymmetry
INVARIANTS TypeOK DeviceExclusive
PROPERTY AllocationRefined
