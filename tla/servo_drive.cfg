SPECIFICATION Spec
CONSTANTS
  Stop = stop
  Go = go
  Turn = turn
  None = none
  Cmd <- MCCmd
  NeutralSticks = {stop}
  Frames <- DriveFrames
  Library <- OneRecording
  MaxSamples = 2
  JoyTimeout = 1
  WatchdogPeriod = 2
  AutoTimeout = 1
  Heartbeat = 0
  NumChallenges = 1
  NumSpeeds = 2
  ReliableLink = TRUE
INVARIANTS
  JoyLossStops
  LockedMeansStopped
  AutoStreamGuard
  ModeAnnounced
  BoardFollows
PROPERTIES
  PlaybackOwnsMotors
