SPECIFICATION FairSpec
CONSTANTS
  Count = 2
  Threshold = 2
  OksNeeded = 2
  k1 = k1
  c1 = c1
  Clients = {k1, c1}
  Readers = {k1}
  Probe = Probe
  None = None
  Profiles <- TwoRelays
  MaxEdits = 1
  Settings <- RelaySettings
INVARIANTS
  ActiveIsUsable
  RulesFollowActive
PROPERTIES
  Recovers
CHECK_DEADLOCK FALSE
