\* Liveness, and the inductive invariant when one client is the host's own extension
CONSTANTS
  c1 = c1
  c2 = c2
  c3 = c3
  k1 = k1
  k2 = k2
  HostId = HostId
  None = None
  Conn = {c1, c2}
  Client = {k1, k2}
  Loopback = {k1}
  MaxData = 1
SPECIFICATION Spec
PROPERTIES DeadPeerEvicted UnauthenticatedClosed
CHECK_DEADLOCK FALSE
