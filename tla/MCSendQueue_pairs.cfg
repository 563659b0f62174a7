\* Two deliveries, and the disturbances that part them from what is known of them.
CONSTANTS
  Keys = {a, b}
  Words = {word}
  NoKey = NoKey
  MaxAttempts = 1
  MaxContextLost = 1
  MaxReclaims = 0
  HoldCap = 1
  LandedCap = 2
  Settings = {{"close"}, {"flush"}, {"reload", "send", "redeliver"}, {"type", "send"}, {"type", "restart"}, {"type", "erase", "fail"}, {"unmount"}}
SPECIFICATION Spec
INVARIANTS
  SentMeansLanded
  LandedOnce
  ComposerIsAccountedFor
PROPERTIES
  UserTextIsSacred
SYMMETRY KeySymmetry
\* Nothing happens in a tab that is closed, or that got all its deliveries.
CHECK_DEADLOCK FALSE
