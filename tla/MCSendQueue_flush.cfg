\* A flush over a delivery whose step is in flight: sent, but not landed.
CONSTANTS
  Keys = {a, b}
  Words = {word}
  NoKey = NoKey
  MaxAttempts = 2
  MaxContextLost = 1
  MaxReclaims = 1
  HoldCap = 1
  LandedCap = 1
  Settings = {{"flush"}}
SPECIFICATION Spec
INVARIANTS
  SentAlwaysMeansLanded
SYMMETRY KeySymmetry
\* Nothing happens in a tab that is closed, or that got all its deliveries.
CHECK_DEADLOCK FALSE
