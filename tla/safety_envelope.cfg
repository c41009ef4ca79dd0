SPECIFICATION FairSpec
CONSTANTS
  Channel <- Two
  Speed <- SpeedsTwo
  Limit = {2, 3}
  Accel <- AccelTwo
  Deadband <- DeadTwo
  Timeout = 2
  Interval = {1, 2}
  Top = 3
  HaltMax = 3
INVARIANT StopEnvelope
PROPERTY CommandFollowed
