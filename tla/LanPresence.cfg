\* One client runs the extension; the host and it report their editors
CONSTANTS
  c1 = c1
  c2 = c2
  c3 = c3
  k1 = k1
  k2 = k2
  HostId = HostId
  None = None
  Conn = {c1, c2}
  Client = {k1, k2}
  Loopback = {}
  MaxData = 1
  Listeners = {k1}
SPECIFICATION LanSpec
SYMMETRY Symmetry
INVARIANTS SnapshotRestoresPanel
CHECK_DEADLOCK FALSE
