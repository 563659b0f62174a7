SPECIFICATION Spec
CONSTANTS
  Tabs = {t1, t2}
  NoTab = NoTab
  Sweeps = {installed, startup}
  Buttons = {button}
  MaxWakes = 1
  Settings <- StaleSettings
INVARIANTS
  StaleIsSurfaced
  HiddenStaleAreHealed
PROPERTIES
  TextSurvives
  DeliverySpared
SYMMETRY Alike
CHECK_DEADLOCK FALSE
