SPECIFICATION FairLogSpec
CONSTANTS
  r1 = r1
  r2 = r2
  Readers = {r1, r2}
  Tailers = {r1}
  MaxLines = 3
  MaxLost = 2
INVARIANTS LinesOnceInOrder TailIsDelivered
PROPERTIES EndedLogIsSealed FollowersReturn ExitIsReported
CHECK_DEADLOCK FALSE
