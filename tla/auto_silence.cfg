SPECIFICATION FairSpec
CONSTANTS
  None = None
  Live = {"auto", "obstruction", "boomOpen"}
  Lights = {"red"}
  RpStates = {}
  Pitches = {0}
  Signs = {}
  Overrides = {"TUNNEL"}
  Restarts = {}
  LapParams = {}
  Subsumption = {}
  Moves <- Forward
  MinDist = 0
  MaxDist = 0
  LapDist = 0
  PostObstacle = 0
  RoundaboutDist = 0
  MinDwell = 0
  Grace = 0
  IdleDuration = 0
  AgeMax = 1
  HillThreshold = 3
  HillReduction = 1
  HillHysteresis = 1
PROPERTY SilenceReleases
