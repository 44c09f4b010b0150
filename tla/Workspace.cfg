CONSTANTS
  p1 = p1
  x1 = x1
  Main = Main
  feature = feature
  text1 = text1
  text2 = text2
  binary = binary
  None = None
  Path = {p1}
  Content = {text1, text2, binary}
  Text = {text1, text2}
  Garbled = text2
  Branch = {Main, feature}
  Writable = {Main, feature}
  Push = {x1}
  MaxEdits = 1
  MaxJobs = 2
  MaxFaults = 1
  MaxBegun = 4
SPECIFICATION Spec
INVARIANTS ListedPushesUndoable RecordsNameTheirBranch RevertRestores
CHECK_DEADLOCK FALSE
