CONSTANTS
  m1 = m1
  m2 = m2
  n1 = n1
  n2 = n2
  x1 = x1
  x2 = x2
  Host = Host
  None = None
  Member = {m1}
  Said = {n1}
  Event = {x1, x2}
  Analyzed = {x1}
  Replay = 2
  Kept = 1
  MaxJoins = 2
  MaxPrunes = 1
  Watched = {m1}
SPECIFICATION Spec
INVARIANTS NothingMissed AmendsReachMembers
CHECK_DEADLOCK FALSE
