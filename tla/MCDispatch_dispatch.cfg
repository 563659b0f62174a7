\* Two blocks, one of which declares no thread, met by every disturbance in turn.
CONSTANTS
  t1 = t1
  t2 = t2
  b1 = b1
  b2 = b2
  thread = thread
  url = url
  NoTab = NoTab
  Unfetched = Unfetched
  Tabs = {t1, t2}
  Blocks = {b1, b2}
  Buckets = {thread, url}
  Thread = thread
  BucketOf <- MixedBlocks
  Scripts <- TwoBlocks
  MaxSends = 1
  MaxWorkers = 2
  Settings <- DispatchSettings
SPECIFICATION FairSpec
INVARIANTS
  InFlightIsRunning
  IgnoredBlocksRan
  RunsByItselfOnce
PROPERTIES
  RunsAreAuthorised
  FreshBlocksSettle
  JobsAreLearned
  RefiresEnd
CHECK_DEADLOCK FALSE
