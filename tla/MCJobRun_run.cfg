\* Jobs of both types.
CONSTANTS
  Kinds = {"claude", "bash"}
  Silences = {1, 7}
  RequestTimeout = 1
  CancelPoll = 1
  ResultPostAttempts = 2
  WedgedReapMarginFloor = 1
  PipeCap = 1
  LinesPerTick = 2
  Horizon = 11
  Settings = {{"cancel", "linger"}, {"mute", "append", "check"}, {"cancel", "result"}, {"die", "garble"}}
SPECIFICATION FairSpec
INVARIANTS
  NoTalkingJobIsEnded
  ResultIsWhole
  ResultsLand
PROPERTIES
  WorkersComeBack
  CancelledJobsStop
  RowsEnd
CHECK_DEADLOCK FALSE
