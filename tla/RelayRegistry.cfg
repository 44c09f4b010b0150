\* Hosts and members over the same sockets, in every order
CONSTANTS
  c1 = c1
  c2 = c2
  c3 = c3
  c4 = c4
  s1 = s1
  s2 = s2
  m1 = m1
  m2 = m2
  None = None
  Conn = {c1, c2, c3, c4}
  Session = {s1, s2}
  Subject = {m1, m2}
  MaxSessions = 1
  MaxMembers = 2
SPECIFICATION Spec
SYMMETRY Symmetry
INVARIANTS GraceIffNoHost NoneCutOff MembersLive HostIsOwner NoneLeavesUnheard WithinCaps
CHECK_DEADLOCK FALSE
