SPECIFICATION FairProvSpec
CONSTANTS
  d1 = d1
  p1 = p1
  p2 = p2
  p3 = p3
  Boot = Boot
  NoPid = NoPid
  Diags = {d1}
  Pids = {p1, p2, p3}
  AutoRestart = TRUE
  MaxDeaths = 2
  MaxOutages = 1
  MaxCuts = 1
  MaxFailures = 1
  MaxRestarts = 1
INVARIANT AtMostOneAgent
PROPERTIES BootServes TunnelRecovers DeathIsRepaired
CHECK_DEADLOCK FALSE
