\* Outages, refusals, kicks and disconnects in every order
CONSTANTS
  s1 = s1
  s2 = s2
  None = None
  Socket = {s1, s2}
  MaxAttempts = 10
SPECIFICATION Spec
INVARIANTS OneSocket LeftForGood HeartbeatFollowsSocket
PROPERTIES DeadHostNoticed
CHECK_DEADLOCK FALSE
