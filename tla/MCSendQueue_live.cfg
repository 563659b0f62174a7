\* Reloads, manual sends and a tab that closes, with fair ticks and replies.
CONSTANTS
  Keys = {a, b}
  Words = {word}
  NoKey = NoKey
  MaxAttempts = 2
  MaxContextLost = 1
  MaxReclaims = 1
  HoldCap = 1
  LandedCap = 1
  Settings = {{"reload", "close", "send"}}
SPECIFICATION FairSpec
PROPERTIES
  EveryDeliveryEnds
\* Nothing happens in a tab that is closed, or that got all its deliveries.
CHECK_DEADLOCK FALSE
