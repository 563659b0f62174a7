SPECIFICATION FairIconSpec
CONSTANTS
  j1 = j1
  j2 = j2
  Jobs = {j1, j2}
  i1 = i1
  Icons = {i1}
  WriteLimit = 2
  Settings <- IconSettings
INVARIANTS
  TimersMatchState
  PageIconsReturn
PROPERTIES
  IconSettles
CHECK_DEADLOCK FALSE
