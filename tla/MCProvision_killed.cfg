SPECIFICATION FairProvSpec
CONSTANTS
  d1 = d1
  p1 = p1
  p2 = p2
  p3 = p3
  Boot = Boot
  NoPid = NoPid
  Diags = {d1}
  Pids = {p1, p2, p3}
  AutoRestart = TRUE
  MaxDeaths = 1
  MaxOutages = 0
  MaxCuts = 0
  MaxFailures = 0
  MaxRestarts = 0
PROPERTY KilledIsRestarted
CHECK_DEADLOCK FALSE
