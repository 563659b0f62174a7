SPECIFICATION FairSpec
CONSTANTS
  j1 = j1
  Jobs = {j1}
  t1 = t1
  t2 = t2
  Tabs = {t1, t2}
  NoTab = NoTab
  Threshold = 2
  CutCap = 1
  PageCap = 2
  Settings <- DeliverySettings
INVARIANTS
  DeliveredMeansLanded
  LandsOnce
  PagedOnce
PROPERTIES
  ResultsLand
CHECK_DEADLOCK FALSE
