\* Two clients over three connections: joins, reconnects, evictions and kicks
CONSTANTS
  c1 = c1
  c2 = c2
  c3 = c3
  k1 = k1
  k2 = k2
  HostId = HostId
  None = None
  Conn = {c1, c2, c3}
  Client = {k1, k2}
  Loopback = {}
  MaxData = 0
  Listeners = {}
SPECIFICATION LanSpec
SYMMETRY SymmetryAll
INVARIANTS ClientIdMapsAgree BoundToOwnSocket OneSeatPerClient RosterConverges NothingBeforeWelcome
PROPERTIES LiveMemberKept ImplementsMembership
CHECK_DEADLOCK FALSE
