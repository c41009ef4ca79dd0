SPECIFICATION Spec
CONSTANTS
  None = None
  Live = {"auto", "obstruction", "tunnel", "boomOpen"}
  Lights = {"red", "green"}
  RpStates = {}
  Pitches = {0}
  Signs = {}
  Overrides = {}
  Restarts = {1}
  LapParams = {}
  Subsumption = {}
  Moves <- Forward
  MinDist = 0
  MaxDist = 3
  LapDist = 2
  PostObstacle = 1
  RoundaboutDist = 1
  MinDwell = 1
  Grace = 0
  IdleDuration = 0
  AgeMax = 1
  HillThreshold = 3
  HillReduction = 1
  HillHysteresis = 1
INVARIANTS StopsHaveCause UrgentActsAtOnce CourseOrder
PROPERTIES LapTwoEarned
