SPECIFICATION Spec
CONSTANTS
  None = None
  Frames <- DriveOrSwitch
  Library <- LongerRecording
  MaxSamples = 2
  JoyTimeout = 0
  WatchdogPeriod = 1
  AutoTimeout = 1
  Heartbeat = 0
  CmdTimeout = 1
  Speeds = {3}
  Top = 2
  Accel = 1
  Ramp = 2
  Grace = 0
  IdleDuration = 0
  InFlight = 1
PROPERTY EStopHaltsPlayback
VIEW ReadWithLoop
