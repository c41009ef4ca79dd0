SPECIFICATION MCSpec
CONSTANTS
  Groups <- AllGroups
  On <- OnFrames
  Off <- OffFrames
  Votes = 3
  Cap = 10
  Confidence = 3
  Window = 5
  Ranges <- SomeRanges
  MinSafe = 2
  Detect = 3
  Free = 999
  Densities <- SomeDensities
  Dense = 2
  Hysteresis = 15
  CurveEnd = 12
  StepMax = 2
  YieldTimeout = 4
  MaxTimeout = 9
  LoopGap = 3
  ScanGap = 2
  Time <- Timeouts
  Distance <- Lengths
  Steps = {1, 2}
  ParkGap = 2
INVARIANTS
  SteadySceneReported TopicsCurrent
  ManoeuvreBounded YieldHolds CompleteEarned EntryStops
PROPERTIES VerdictEarned DodgeRunsOut ManoeuvreEnds
