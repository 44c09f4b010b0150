\* Two reviews of a push, a member and the host acting on it at once
CONSTANTS
  k1 = k1
  k2 = k2
  r1 = r1
  r2 = r2
  Host = Host
  None = None
  Review = {r1, r2}
  Client = {k1}
  Author = k1
  Admins = {Host}
  CommentCap = 1
  MaxRequests = 2
SPECIFICATION Spec
INVARIANTS CachesAgree CapHolds
PROPERTIES ChainDrains
CHECK_DEADLOCK FALSE
