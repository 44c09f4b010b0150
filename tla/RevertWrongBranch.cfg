CONSTANTS
  p1 = p1
  x1 = x1
  Main = Main
  feature = feature
  text1 = text1
  text2 = text2
  binary = binary
  None = None
  Path = {p1}
  Content = {text1, text2}
  Text = {text1, text2}
  Garbled = text2
  Branch = {Main, feature}
  Writable = {Main, feature}
  Push = {x1}
  MaxEdits = 2
  MaxJobs = 1
  MaxBegun = 4
  MaxFaults = 0
SPECIFICATION Spec
INVARIANTS RevertRestoresItsBranch
CHECK_DEADLOCK FALSE
