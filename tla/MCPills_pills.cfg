SPECIFICATION FairPillSpec
CONSTANTS
  j1 = j1
  Jobs = {j1}
  t1 = t1
  t2 = t2
  Tabs = {t1, t2}
  NoTab = NoTab
  Settings <- PillSettings
INVARIANTS
  
  RunningJobsHavePills
PROPERTIES
  PillsSettle
CHECK_DEADLOCK FALSE
