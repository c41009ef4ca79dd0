SPECIFICATION Spec
CONSTANTS
  None = None
  Live = {"auto", "estop", "signboard", "laneLost", "lidar"}
  Lights = {}
  RpStates = {"IDLE", "PLAYBACK"}
  Pitches = {0, 2, 3}
  Signs = {TRUE}
  Overrides = {"PARKING_PLAYBACK"}
  Restarts = {2}
  LapParams = {1, 2}
  Subsumption = {TRUE, FALSE}
  Moves <- Forward
  MinDist = 0
  MaxDist = 0
  LapDist = 2
  PostObstacle = 1
  RoundaboutDist = 1
  MinDwell = 1
  Grace = 1
  IdleDuration = 2
  AgeMax = 2
  HillThreshold = 3
  HillReduction = 1
  HillHysteresis = 1
INVARIANTS StopsHaveCause ParkingStandsStill HillSteady
PROPERTIES PlaybackFromRest PlaybackOnce
