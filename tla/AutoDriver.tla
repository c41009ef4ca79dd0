------------------------------ MODULE AutoDriver ------------------------------
(***************************************************************************)
(* The node auto_driver: a 50 Hz loop that reads the last message of every *)
(* detector, lets the claim of highest priority win and publishes one      *)
(* drive command.  Callbacks and the loop run on a single-threaded         *)
(* executor: each is one atomic step, in any order.                        *)
(*                                                                         *)
(* Commands are abstracted to their origin: "stop" is the zero Twist,      *)
(* "obstruction" and "tunnel" are whatever those modules last sent.        *)
(* Distances and pitches are integers.  How long a sensor has been silent  *)
(* and how old the hill sign is are one bit each (past the timeout or      *)
(* not); the time spent in a state is counted up to AgeMax.                *)
(***************************************************************************)
EXTENDS Integers

CONSTANTS
  None,           \* no distance, no command
  Live,           \* Boolean topics that carry messages in this instance
  Lights,         \* values of /traffic_light_state that occur
  RpStates,       \* values of the servo controller's state that are heard
  Pitches,        \* values of /imu/pitch; 0 among them
  Signs,          \* {TRUE} when the hill sign may be seen, {} otherwise
  Overrides,      \* states an operator may force with /set_challenge
  Restarts,       \* laps an operator may restart (RESET, LAP1, LAP2)
  LapParams,      \* values an operator may give the parameter current_lap
  Subsumption,    \* values of the parameter enable_subsumption_obstacle
  Moves,          \* distances one odometry message may add
  MinDist, MaxDist,
  LapDist,        \* the literal 5.0 of the lap test
  PostObstacle,   \* dist_post_obstacle_clear
  RoundaboutDist, \* dist_roundabout
  MinDwell,       \* min_state_dwell_sec
  Grace,          \* the literal 0.5 s before the end of a playback is tested
  IdleDuration,   \* parking_idle_duration
  AgeMax,         \* bound of the time counted in a state
  HillThreshold, HillReduction, HillHysteresis

ChallengeState ==
  { "MANUAL", "FINISHED", "TRAFFIC_LIGHT", "BOOM_GATE", "OBSTRUCTION", "TUNNEL",
    "PARALLEL_PARK", "PERPENDICULAR_PARK", "LANE_FOLLOW", "REVERSE_ADJUST",
    "EMERGENCY_STOP", "ROUNDABOUT", "LANE_RECOVERY", "HILL", "PARKING_IDLE",
    "PARKING_PLAYBACK" }

Flag    == { "auto", "estop", "obstruction", "lidar", "camera", "signboard",
             "tunnel", "boomOpen", "laneLost" }
Stamped == {"obstruction", "tunnel", "boomOpen", "light"}  \* with a *_last_time
Light   == {"unknown", "red", "yellow", "green"}
RpState == {"IDLE", "RECORDING", "PLAYBACK"}
Command == {"stop", "lane", "reverse", "obstruction", "tunnel", "hill"}

\* What may claim the robot, in the order of the if / elif chain.
Rank == [ estop |-> 1, obstruction |-> 2, obstacle |-> 3, roundabout |-> 4,
          parking |-> 5, tunnel |-> 6, boomGate |-> 7, light |-> 8, hill |-> 9,
          laneLost |-> 10, lane |-> 11 ]
Behaviour == DOMAIN Rank
Dist == MinDist .. MaxDist

ASSUME AutoDriverAssumption ==
  /\ None \notin Int /\ None \notin Command /\ None \notin Behaviour
  /\ Live \subseteq Flag /\ Lights \subseteq Light /\ RpStates \subseteq RpState
  /\ Pitches \subseteq Int /\ 0 \in Pitches /\ Signs \subseteq {TRUE}
  /\ Overrides \subseteq ChallengeState
  /\ Restarts \subseteq {1, 2} /\ LapParams \subseteq {1, 2}
  /\ Subsumption \subseteq BOOLEAN /\ Moves \subseteq Int
  /\ MinDist \in Int /\ MaxDist \in Int /\ 0 \in Dist
  /\ LapDist \in Nat
  /\ PostObstacle \in Nat /\ RoundaboutDist \in Nat
  /\ MinDwell \in Nat /\ Grace \in Nat /\ IdleDuration \in Nat
  /\ AgeMax \in Nat /\ MinDwell <= AgeMax /\ Grace < AgeMax /\ IdleDuration <= AgeMax
  /\ HillThreshold \in Nat /\ HillReduction \in Nat /\ HillHysteresis \in Nat

VARIABLES
  drv,   \* the fields of the node
  out,   \* what the last step published
  hist   \* history since the last restart, for the properties only

vars == <<drv, out, hist>>

Drv == [ state      : ChallengeState,
         entryAge   : 0 .. AgeMax,          \* age of state_entry_time
         entryDist  : Dist,                 \* state_entry_dist
         dist       : Dist,                 \* distance
         lap        : {1, 2},               \* current_lap, also in _param_cache
         boomArmed  : BOOLEAN,              \* _boom_gate_armed
         tlArmed    : BOOLEAN,              \* _tl_armed
         cleared    : Dist \cup {None},     \* _obs_cleared_dist
         wasActive  : BOOLEAN,              \* _obs_was_active
         parkActive : BOOLEAN,              \* parking_sequence_active
         parkDone   : BOOLEAN,              \* _parking_done
         primed     : BOOLEAN,              \* _hill_primed
         signOld    : BOOLEAN,              \* hill sign seen over hill_sign_prime_sec ago
         lastCmd    : Command,              \* last_cmd
         see        : [Flag -> BOOLEAN],    \* last Boolean of each topic
         subsume    : BOOLEAN,              \* enable_subsumption_obstacle
         obstacle   : BOOLEAN,              \* obstacle_active
         light      : Light,                \* traffic_light_state
         rp         : RpState,              \* rp_state
         pitch      : Pitches,              \* current_pitch
         stale      : SUBSET Stamped ]      \* silent for over stale_timeout

Out == [ cmd      : Command \cup {None},          \* on /cmd_vel_auto_raw
         why      : Behaviour \cup {"manual", None}, \* who won the tick
         playback : BOOLEAN ]                     \* 'playback' to the servo controller

Landmark == {"ROUNDABOUT", "TUNNEL"}
Hist == [ visited    : SUBSET Landmark,        \* landmark states entered
          obstructed : BOOLEAN,                \* a tick saw the obstruction active
          still      : 0 .. IdleDuration,      \* how long only "stop" was published
         asked      : BOOLEAN ]               \* playback asked for, not interrupted

TypeOK == drv \in Drv /\ out \in Out /\ hist \in Hist

Silent == [cmd |-> None, why |-> None, playback |-> FALSE]
Fresh  == [visited |-> {}, obstructed |-> FALSE, still |-> 0, asked |-> FALSE]

\* The node as its constructor leaves it.
Booted ==
  [ state |-> "MANUAL", entryAge |-> 0, entryDist |-> 0, dist |-> 0,
    lap |-> 1, boomArmed |-> FALSE, tlArmed |-> FALSE, cleared |-> None,
    wasActive |-> FALSE, parkActive |-> FALSE, parkDone |-> FALSE,
    primed |-> FALSE, signOld |-> TRUE, lastCmd |-> "stop",
    see |-> [t \in Flag |-> t = "boomOpen"], subsume |-> TRUE,
    obstacle |-> FALSE, light |-> "unknown", rp |-> "IDLE",
    pitch |-> 0, stale |-> Stamped ]

Init == drv = Booted /\ out = Silent /\ hist = Fresh

-----------------------------------------------------------------------------
(* The first half of the control loop: fallbacks, lap, edges.              *)

\* Mutant: a silent boom gate detector keeps its last value.
FallbacksNoBoom(d) ==
  [d EXCEPT !.see = [t \in Flag |-> IF t \in d.stale /\ t # "boomOpen" THEN FALSE ELSE @[t]],
            !.light = IF "light" \in d.stale THEN "unknown" ELSE @]

\* A silent detector reports nothing; a silent gate is open.
Fallbacks(d) ==
  [d EXCEPT !.see = [t \in Flag |-> IF t \in d.stale THEN t = "boomOpen" ELSE @[t]],
            !.light = IF "light" \in d.stale THEN "unknown" ELSE @]

\* Mutants of the lap test.
GreenForLapTwoUnarmed(d) == d.lap = 1 /\ d.dist > LapDist /\ d.light = "green"

GreenForLapTwo(d) ==
  d.lap = 1 /\ d.tlArmed /\ d.dist > LapDist /\ d.light = "green"

AdvanceLap(d) ==
  IF GreenForLapTwo(d)
  THEN [d EXCEPT !.lap = 2, !.parkActive = FALSE, !.boomArmed = FALSE,
                 !.tlArmed = FALSE, !.cleared = None, !.wasActive = FALSE]
  ELSE d

ObstructionEdge(d) ==
  IF d.see["obstruction"] THEN [d EXCEPT !.wasActive = TRUE]
  ELSE IF d.wasActive THEN [d EXCEPT !.cleared = d.dist, !.wasActive = FALSE]
  ELSE d

HillPrime(d) == [d EXCEPT !.primed = @ /\ ~d.signOld]

Prepared(d) == HillPrime(ObstructionEdge(AdvanceLap(Fallbacks(d))))

\* effective_threshold; with the hill sign it is lowered, to 1 degree at least.
Threshold(d) ==
  LET low == HillThreshold - HillReduction
  IN  IF ~d.primed THEN HillThreshold ELSE IF low > 1 THEN low ELSE 1

\* Mutant: the hysteresis has the wrong sign.
OnHillInverted(d) ==
  d.pitch >= IF d.state = "HILL" THEN Threshold(d) + HillHysteresis ELSE Threshold(d)

OnHill(d) ==
  d.pitch >= IF d.state = "HILL" THEN Threshold(d) - HillHysteresis ELSE Threshold(d)

-----------------------------------------------------------------------------
(* The priority chain.                                                     *)

\* The conditions of the chain, before the ones above them are considered.
Claim(d) ==
  [ estop       |-> d.see["estop"],
    obstruction |-> d.see["obstruction"],
    obstacle    |-> d.obstacle,
    roundabout  |-> /\ d.cleared # None /\ ~d.boomArmed
                    /\ d.dist - d.cleared >= PostObstacle,
    parking     |-> d.lap = 2 /\ ~d.parkDone /\ (d.parkActive \/ d.see["signboard"]),
    tunnel      |-> d.see["tunnel"],
    boomGate    |-> ~d.see["boomOpen"] /\ d.boomArmed,
    light       |-> d.light \in {"red", "yellow"} /\ d.tlArmed,
    hill        |-> OnHill(d),
    laneLost    |-> d.see["laneLost"],
    lane        |-> TRUE ]

Wins(claim, b) == claim[b] /\ \A c \in Behaviour : Rank[c] < Rank[b] => ~claim[c]

\* What a behaviour wants: a state, a command, and whether it asks for playback.
Want(d, target, cmd) == [drv |-> d, target |-> target, cmd |-> cmd, playback |-> FALSE]

\* Mutant: the boom gate is armed on the way in.
RoundaboutArmsEarly(d) ==
  Want([d EXCEPT !.boomArmed = TRUE, !.cleared = None], "LANE_FOLLOW", "lane")

Roundabout(d) ==
  IF d.state = "ROUNDABOUT" /\ d.dist - d.entryDist >= RoundaboutDist
  THEN Want([d EXCEPT !.boomArmed = TRUE, !.cleared = None], "LANE_FOLLOW", "lane")
  ELSE Want(d, "ROUNDABOUT", "lane")

\* The parking sequence: stand still for parking_idle_duration, have the servo
\* controller play the recorded movement ...
Idling(d) ==
  IF d.entryAge >= IdleDuration
  THEN [Want(d, "PARKING_PLAYBACK", "stop") EXCEPT !.playback = TRUE]
  ELSE Want(d, "PARKING_IDLE", "stop")

\* Mutants: the end of the sequence is not latched; the lane is followed during playback;
\* the end of the playback is tested at once.
StandingByUnlatched(d) ==
  IF d.entryAge > Grace /\ d.rp = "IDLE"
  THEN Want([d EXCEPT !.parkActive = FALSE, !.see["signboard"] = FALSE], "LANE_FOLLOW", "stop")
  ELSE Want(d, "PARKING_PLAYBACK", "stop")
StandingByFollowsLane(d) ==
  IF d.entryAge > Grace /\ d.rp = "IDLE"
  THEN Want([d EXCEPT !.parkDone = TRUE, !.parkActive = FALSE,
                      !.see["signboard"] = FALSE], "LANE_FOLLOW", "lane")
  ELSE Want(d, "PARKING_PLAYBACK", "lane")

StandingByHasty(d) ==
  IF d.rp = "IDLE"
  THEN Want([d EXCEPT !.parkDone = TRUE, !.parkActive = FALSE,
                      !.see["signboard"] = FALSE], "LANE_FOLLOW", "stop")
  ELSE Want(d, "PARKING_PLAYBACK", "stop")

\* ... and stand by until it reports IDLE.
StandingBy(d) ==
  IF d.entryAge > Grace /\ d.rp = "IDLE"
  THEN Want([d EXCEPT !.parkDone = TRUE, !.parkActive = FALSE,
                      !.see["signboard"] = FALSE], "LANE_FOLLOW", "stop")
  ELSE Want(d, "PARKING_PLAYBACK", "stop")

Parking(d) ==
  LET p == [d EXCEPT !.parkActive = TRUE]
  IN  CASE d.state = "PARKING_IDLE"     -> Idling(p)
        [] d.state = "PARKING_PLAYBACK" -> StandingBy(p)
        [] OTHER                        -> Want(p, "PARKING_IDLE", "stop")

Decision(d, b) ==
  CASE b = "estop"       -> Want(d, "EMERGENCY_STOP", "stop")
    [] b = "obstruction" -> Want(d, "OBSTRUCTION", "obstruction")
    [] b = "obstacle"    -> Want(d, "REVERSE_ADJUST", "reverse")
    [] b = "roundabout"  -> Roundabout(d)
    [] b = "parking"     -> Parking(d)
    [] b = "tunnel"      -> Want(d, "TUNNEL", "tunnel")
    [] b = "boomGate"    -> Want(d, "BOOM_GATE", "stop")
    [] b = "light"       -> Want(d, "TRAFFIC_LIGHT", "stop")
    [] b = "hill"        -> Want(d, "HILL", "hill")
    [] b = "laneLost"    -> Want(d, "LANE_RECOVERY", "stop")
    [] b = "lane"        -> Want(d, "LANE_FOLLOW", "lane")

-----------------------------------------------------------------------------
(* The second half of the control loop: arming and the dwell gate.         *)

ArmLight(d, w) ==
  [w.drv EXCEPT !.tlArmed = @ \/ (d.state = "TUNNEL" /\ w.target # "TUNNEL")]

\* Mutant: the obstruction and the light wait for the minimum dwell.
ImmediateWithoutStops ==
  { "MANUAL", "FINISHED", "BOOM_GATE", "REVERSE_ADJUST", "EMERGENCY_STOP", "HILL",
    "PARKING_IDLE", "PARKING_PLAYBACK" }

Immediate ==
  { "MANUAL", "FINISHED", "TRAFFIC_LIGHT", "BOOM_GATE", "REVERSE_ADJUST",
    "EMERGENCY_STOP", "HILL", "PARKING_IDLE", "PARKING_PLAYBACK", "OBSTRUCTION" }

\* Mutants: the dwell that is over is not asked; a state is only left at once
\* when the new one is urgent.
MaySwitchUndwelled(d, target) == target \in Immediate \/ d.state \in Immediate
MaySwitchByTarget(d, target) == target \in Immediate \/ d.entryAge >= MinDwell

MaySwitch(d, target) ==
  target \in Immediate \/ d.state \in Immediate \/ d.entryAge >= MinDwell

\* Mutant: the entry into a state is not timed.
SwitchedUntimed(d, w) ==
  LET a == ArmLight(d, w)
  IN  IF d.state = w.target \/ MaySwitch(d, w.target)
      THEN [a EXCEPT !.lastCmd = w.cmd, !.state = w.target]
      ELSE a

\* A refused switch keeps the state and repeats the last command.
Switched(d, w) ==
  LET a == ArmLight(d, w)
  IN  IF d.state = w.target
      THEN [a EXCEPT !.lastCmd = w.cmd]
      ELSE IF MaySwitch(d, w.target)
      THEN [a EXCEPT !.lastCmd = w.cmd, !.state = w.target,
                     !.entryAge = 0, !.entryDist = a.dist]
      ELSE a

-----------------------------------------------------------------------------
(* publish_cmd_vel.                                                        *)

\* A playback asked for by a node in d is still to be waited for.
MidPlayback(d) == d.state = "PARKING_PLAYBACK" /\ ~d.parkDone

\* The history after a tick that started in p, was won by b and ended in d.
Noted(h, p, b, d, playback) ==
  [ visited    |-> h.visited \cup (Landmark \cap {p.state, d.state}),
    obstructed |-> h.obstructed \/ p.see["obstruction"],
    still      |-> IF d.lastCmd = "stop" THEN h.still ELSE 0,
    asked      |-> playback \/ (h.asked /\ (b = "parking" \/ ~MidPlayback(p))) ]

ManualTick ==
  /\ ~drv.see["auto"]
  /\ drv' = IF drv.state = "MANUAL" THEN drv
            ELSE [drv EXCEPT !.state = "MANUAL", !.entryAge = 0, !.entryDist = drv.dist]
  /\ out' = [Silent EXCEPT !.why = "manual"]
  /\ hist' = [hist EXCEPT !.still = 0, !.asked = @ /\ ~MidPlayback(drv)]

AutoTick ==
  /\ drv.see["auto"]
  /\ LET p == Prepared(drv)
         h == IF p.lap = drv.lap THEN hist
              ELSE [Fresh EXCEPT !.still = hist.still, !.asked = hist.asked]
         claim == Claim(p)
     IN  \E b \in Behaviour :
           /\ Wins(claim, b)
           /\ LET w == Decision(p, b)
              IN  /\ drv' = Switched(p, w)
                  /\ out' = [cmd |-> drv'.lastCmd, why |-> b, playback |-> w.playback]
                  /\ hist' = Noted(h, p, b, drv', w.playback)

-----------------------------------------------------------------------------
(* The subscriptions.                                                      *)

Quiet == out' = Silent

Fused(s, see) == s /\ (see["lidar"] \/ see["camera"])

\* The node after it heard v on topic t.
Heard(d, t, v) ==
  LET see == [d.see EXCEPT ![t] = v]
      obstacle == IF t \in {"lidar", "camera"} THEN Fused(d.subsume, see) ELSE d.obstacle
  IN  [d EXCEPT !.see = see, !.stale = d.stale \ {t}, !.obstacle = obstacle]

BoolCallback(t, v) ==
  /\ drv' = Heard(drv, t, v)
  /\ Quiet /\ UNCHANGED hist

TrafficLightCallback(l) ==
  /\ drv' = [drv EXCEPT !.light = l, !.stale = @ \ {"light"}]
  /\ Quiet /\ UNCHANGED hist

RpStateCallback(r) ==
  /\ drv' = [drv EXCEPT !.rp = r]
  /\ Quiet /\ UNCHANGED hist

PitchCallback(a) ==
  /\ drv' = [drv EXCEPT !.pitch = a]
  /\ Quiet /\ UNCHANGED hist

HillSignCallback ==
  /\ Signs # {}
  /\ drv' = [drv EXCEPT !.primed = TRUE, !.signOld = FALSE]
  /\ Quiet /\ UNCHANGED hist

OdomCallback(m) ==
  /\ drv.dist + m \in Dist
  /\ drv' = [drv EXCEPT !.dist = @ + m]
  /\ Quiet /\ UNCHANGED hist

\* The override leaves state_entry_time and state_entry_dist alone.
SetChallenge(s) ==
  /\ drv' = [drv EXCEPT !.state = s]
  /\ hist' = [hist EXCEPT !.visited = @ \cup (Landmark \cap {s}),
                         !.asked = @ /\ (s = "PARKING_PLAYBACK" \/ ~MidPlayback(drv))]
  /\ Quiet

\* reset_competition and set_lap_2.
StartLap(d, l) ==
  [d EXCEPT !.lap = l, !.state = "LANE_FOLLOW", !.parkActive = FALSE,
            !.parkDone = FALSE, !.boomArmed = FALSE, !.tlArmed = FALSE,
            !.cleared = None, !.wasActive = FALSE,
            !.dist = 0, !.entryAge = 0, !.entryDist = 0]

Restart(l) ==
  /\ drv' = StartLap(drv, l)
  /\ hist' = Fresh
  /\ Quiet

SetLapParam(l) ==
  /\ drv' = [drv EXCEPT !.lap = l]
  /\ Quiet /\ UNCHANGED hist

\* The flag is fused again only by the next obstacle message.
SetSubsumption(v) ==
  /\ drv' = [drv EXCEPT !.subsume = v]
  /\ Quiet /\ UNCHANGED hist

-----------------------------------------------------------------------------
(* The passage of time.                                                    *)

TimePasses ==
  /\ drv.entryAge < AgeMax
  /\ drv' = [drv EXCEPT !.entryAge = @ + 1]
  /\ hist' = [hist EXCEPT !.still = IF @ < IdleDuration THEN @ + 1 ELSE @]
  /\ Quiet

GoStale(t) ==
  /\ t \notin drv.stale
  /\ drv' = [drv EXCEPT !.stale = @ \cup {t}]
  /\ Quiet /\ UNCHANGED hist

SignAges ==
  /\ ~drv.signOld
  /\ drv' = [drv EXCEPT !.signOld = TRUE]
  /\ Quiet /\ UNCHANGED hist

Next ==
  \/ ManualTick \/ AutoTick
  \/ \E t \in Live, v \in BOOLEAN : BoolCallback(t, v)
  \/ \E l \in Lights : TrafficLightCallback(l)
  \/ \E r \in RpStates : RpStateCallback(r)
  \/ \E a \in Pitches : PitchCallback(a)
  \/ HillSignCallback
  \/ \E m \in Moves : OdomCallback(m)
  \/ \E s \in Overrides : SetChallenge(s)
  \/ \E l \in Restarts : Restart(l)
  \/ \E l \in LapParams : SetLapParam(l)
  \/ \E v \in Subsumption : SetSubsumption(v)
  \/ TimePasses
  \/ \E t \in Stamped : GoStale(t)
  \/ SignAges

Spec == Init /\ [][Next]_vars

\* The 50 Hz timer keeps firing.
FairSpec == Spec /\ WF_vars(ManualTick) /\ WF_vars(AutoTick)

-----------------------------------------------------------------------------
(* Properties.  out describes the tick that has just run, so an invariant  *)
(* about out and drv is a statement about every tick of the loop.          *)

\* Urgent claims act within one tick: whatever the dwell gate holds back, an
\* e-stop, an obstruction, an obstacle, a closed gate or a red light sets its
\* own state and its own command, never a repetition of the last one.
Urgent == [ estop |-> <<"EMERGENCY_STOP", "stop">>,
            obstruction |-> <<"OBSTRUCTION", "obstruction">>,
            obstacle |-> <<"REVERSE_ADJUST", "reverse">>,
            boomGate |-> <<"BOOM_GATE", "stop">>,
            light |-> <<"TRAFFIC_LIGHT", "stop">> ]
UrgentActsAtOnce ==
  out.why \in DOMAIN Urgent =>
    drv.state = Urgent[out.why][1] /\ out.cmd = Urgent[out.why][2]

\* No stop outlives its cause: a tick of the automatic mode that ends in a
\* stopping or evading state has just seen that cause, in a fresh message where
\* the topic is stamped.  Lane recovery, no urgent state, may outlive a lost
\* lane, but only until the minimum dwell is over; the car stands for the
\* parking only in lap 2, while the sequence is open.
StopsHaveCause ==
  out.why \in Behaviour =>
    /\ drv.state = "EMERGENCY_STOP" => drv.see["estop"]
    /\ drv.state = "OBSTRUCTION" => drv.see["obstruction"] /\ "obstruction" \notin drv.stale
    /\ drv.state = "REVERSE_ADJUST" => drv.obstacle
    /\ drv.state = "BOOM_GATE" => ~drv.see["boomOpen"] /\ "boomOpen" \notin drv.stale
    /\ drv.state = "TRAFFIC_LIGHT" =>
         drv.light \in {"red", "yellow"} /\ "light" \notin drv.stale
    /\ drv.state = "LANE_RECOVERY" => drv.see["laneLost"] \/ drv.entryAge < MinDwell
    /\ drv.state \in {"PARKING_IDLE", "PARKING_PLAYBACK"} =>
         drv.lap = 2 /\ drv.parkActive /\ ~drv.parkDone

\* The gates open in the order of the course: the boom gate counts only after
\* a roundabout that followed an obstruction, the traffic light only after a
\* tunnel, all since the last restart or lap.
CourseOrder ==
  /\ drv.boomArmed => "ROUNDABOUT" \in hist.visited /\ hist.obstructed
  /\ drv.tlArmed => "TUNNEL" \in hist.visited

\* The loop starts lap 2 only on a fresh green light after a tunnel of lap 1.
LapTwoEarned ==
  [][out'.why \in Behaviour /\ drv'.lap # drv.lap =>
       /\ drv.lap = 1 /\ "TUNNEL" \in hist.visited
       /\ drv.light = "green" /\ "light" \notin drv.stale]_vars

\* Distance marks lie behind a car that never reverses: no mark of an earlier
\* lap survives a restart to delay the roundabout by a whole lap.
MarksBehind ==
  Moves \subseteq Nat =>
    drv.entryDist <= drv.dist /\ (drv.cleared # None => drv.cleared <= drv.dist)

\* The hysteresis works: after a tick, the same readings give the same answer
\* to "on the hill", although the state it depends on has just changed.
HillSteady ==
  /\ out.why = "hill" => OnHill(drv)
  /\ out.why \in {"laneLost", "lane"} => ~OnHill(drv)

\* The car parks once ("_parking_done latches True after first playback to
\* prevent immediate re-trigger"): until a restart the playback is not asked for
\* again, however often the sign is reported, unless something other than the
\* parking took the node out of PARKING_PLAYBACK before the end was noticed.
PlaybackOnce == [][out'.playback => ~hist.asked]_vars

\* While parking, the loop publishes only stop, so that nothing drives the
\* car but the playback.
ParkingStandsStill ==
  out.why \in Behaviour /\ drv.state \in {"PARKING_IDLE", "PARKING_PLAYBACK"} =>
    out.cmd = "stop"

\* The recorded movement starts from rest: when it is requested, nothing but
\* "stop" has been published for parking_idle_duration, unless an operator
\* forced the state PARKING_IDLE.
PlaybackFromRest ==
  [][out'.playback /\ "PARKING_IDLE" \notin Overrides =>
       hist.still >= IdleDuration]_vars

\* A detector whose topic is stamped (obstruction, boom gate, light) cannot hold
\* the car by dying: in lasting automatic mode, the state it is responsible for
\* is left again and again.  (The front obstacle and the lost lane come without a
\* stamp: a module that dies reporting one of them does hold the car.)
SilenceReleases ==
  \A p \in { <<"obstruction", "OBSTRUCTION">>, <<"boomOpen", "BOOM_GATE">>,
             <<"light", "TRAFFIC_LIGHT">> } :
    <>[](drv.see["auto"] /\ p[1] \in drv.stale) => []<>(drv.state # p[2])
===============================================================================
