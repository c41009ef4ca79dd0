SPECIFICATION FairSpec
CONSTANTS
  Stop = stop
  Go = go
  Turn = turn
  None = none
  Cmd <- MCCmd
  NeutralSticks = {stop}
  Frames <- FewFrames
  Library <- TwoRecordings
  MaxSamples = 2
  JoyTimeout = 0
  WatchdogPeriod = 1
  AutoTimeout = 1
  Heartbeat = 0
  NumChallenges = 1
  NumSpeeds = 1
  ReliableLink = FALSE
PROPERTIES
  PlaybackEnds
  StopReachesBoard
