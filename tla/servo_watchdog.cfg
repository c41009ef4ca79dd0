SPECIFICATION Spec
CONSTANTS
  Stop = stop
  Go = go
  Turn = turn
  None = none
  Cmd <- WithTurn
  NeutralSticks = {stop}
  Frames <- FewFrames
  Library <- TurningRecording
  MaxSamples = 2
  JoyTimeout = 1
  WatchdogPeriod = 1
  AutoTimeout = 1
  Heartbeat = 1
  NumChallenges = 1
  NumSpeeds = 1
  ReliableLink = TRUE
PROPERTIES
  WatchdogStopsRobot
