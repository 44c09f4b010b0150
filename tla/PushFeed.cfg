CONSTANTS
  m1 = m1
  x1 = x1
  x2 = x2
  f1 = f1
  f2 = f2
  r1 = r1
  None = None
  Member = {m1}
  Request = {x1, x2}
  File = {f1, f2}
  Files <- MCFiles
  Run = {r1}
  RingCap = 2
  Strikes = 2
  MaxEvents = 3
SPECIFICATION FairSpec
INVARIANTS RowsFollowPushes ArrivalsSurviveSync SettledMayStage
PROPERTIES AnalysesEnd
CHECK_DEADLOCK FALSE
