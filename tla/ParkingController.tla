-------------------------- MODULE ParkingController --------------------------
(***************************************************************************)
(* The node parking_controller: on 'parallel' or 'perpendicular' it works  *)
(* through the phases of a manoeuvre, each ended by the distance odometry  *)
(* has counted, by the clock, and on the way in by the wall the lidar      *)
(* sees.  In the running system only the command line sends it commands.   *)
(*                                                                         *)
(* Time is counted in periods of the loop (0.05 s), distances in units one *)
(* odometry message may add.  A drive command is the direction it moves    *)
(* the car in.                                                             *)
(***************************************************************************)
EXTENDS Integers, Sequences

CONSTANTS
  Time,     \* phase -> timeout of it, park_wait_time or perp_turn_angle / 0.5
  Distance, \* phase -> distance that ends it
  Steps,    \* distances one odometry message may add
  ParkGap   \* bound: the loop runs at least every ParkGap periods

Manoeuvre ==
  [ parallel |-> << "PARALLEL_FORWARD", "PARALLEL_STEER_REVERSE",
                    "PARALLEL_STRAIGHTEN", "PARALLEL_WAIT", "PARALLEL_EXIT" >>,
    perpendicular |-> << "PERP_TURN_IN", "PERP_FORWARD", "PERP_WAIT",
                         "PERP_REVERSE_OUT" >> ]
Phase == { "PARALLEL_FORWARD", "PARALLEL_STEER_REVERSE", "PARALLEL_STRAIGHTEN",
           "PARALLEL_WAIT", "PARALLEL_EXIT", "PERP_TURN_IN", "PERP_FORWARD",
           "PERP_WAIT", "PERP_REVERSE_OUT" }
Wait  == {"PARALLEL_WAIT", "PERP_WAIT", "PERP_TURN_IN"}  \* ended by the clock only

ASSUME ParkingAssumption ==
  /\ Time \in [Phase -> Nat] /\ Distance \in [Phase -> Nat]
  /\ Steps \subseteq Nat /\ ParkGap \in Nat \ {0}

VARIABLES
  park,  \* the fields of the node
  sent,  \* the last messages on /parking_cmd_vel and /parking_complete
  lag,   \* periods since the last run of the loop
  past   \* history, for the properties only

parkVars == <<park, sent, lag, past>>

Motion == {"still", "forward", "reverse", "turn"}

ParkNode == [ phase : Phase \cup {"IDLE"},
              age   : Nat,       \* age of phase_start_time
              dist  : Nat,       \* distance_traveled - phase_start_dist
              front : BOOLEAN,   \* front_wall_dist <= lidar_stop_dist
              rear  : BOOLEAN ]  \* rear_wall_dist <= lidar_stop_dist

ParkSent == [cmd : Motion, complete : BOOLEAN]

ParkPast == [ trail  : Seq(Phase),            \* phases finished since the last command
              by     : Phase \cup {"IDLE"},   \* the phase that commanded last
              pushes : 0 .. 2,                \* its commands into a wall it knew of, running
              idle   : 0 .. ParkGap + 1 ]     \* periods since the node went idle

ParkTypeOK ==
  park \in ParkNode /\ sent \in ParkSent /\ lag \in 0 .. ParkGap /\ past \in ParkPast

ParkInit ==
  /\ park = [phase |-> "IDLE", age |-> 0, dist |-> 0, front |-> FALSE, rear |-> FALSE]
  /\ sent = [cmd |-> "still", complete |-> FALSE]
  /\ lag = 0
  /\ past = [trail |-> <<>>, by |-> "IDLE", pushes |-> 0, idle |-> 0]

Lesser(a, b) == IF a < b THEN a ELSE b

-----------------------------------------------------------------------------
(* The subscriptions.                                                      *)

StartPhase(n, p) == [n EXCEPT !.phase = p, !.age = 0, !.dist = 0]

\* Mutant: the completion of the last manoeuvre is not taken back.
StartCommandStale(m) ==
  /\ park.phase = "IDLE"
  /\ park' = StartPhase(park, Manoeuvre[m][1])
  /\ past' = [past EXCEPT !.trail = <<>>]
  /\ UNCHANGED <<sent, lag>>

\* A manoeuvre is only accepted in IDLE ...
StartCommand(m) ==
  /\ park.phase = "IDLE"
  /\ park' = StartPhase(park, Manoeuvre[m][1])
  /\ sent' = [sent EXCEPT !.complete = FALSE]
  /\ past' = [past EXCEPT !.trail = <<>>]
  /\ UNCHANGED lag

\* ... and 'stop' in any phase; it leaves the zero command to the loop.
StopCommand ==
  /\ park' = StartPhase(park, "IDLE")
  /\ past' = [past EXCEPT !.idle = IF park.phase = "IDLE" THEN @ ELSE 0]
  /\ UNCHANGED <<sent, lag>>

WallCallback(front, rear) ==
  /\ park' = [park EXCEPT !.front = front, !.rear = rear]
  /\ UNCHANGED <<sent, lag, past>>

\* A distance beyond the end of the phase, or of an idle node, tells nothing.
OdomCallback(d) ==
  /\ park.phase # "IDLE"
  /\ park' = [park EXCEPT !.dist = Lesser(Distance[park.phase], @ + d)]
  /\ UNCHANGED <<sent, lag, past>>

-----------------------------------------------------------------------------
(* control_loop.                                                           *)

MotionOf(p) ==
  CASE p \in {"PARALLEL_FORWARD", "PARALLEL_STRAIGHTEN", "PARALLEL_EXIT",
              "PERP_FORWARD"}                           -> "forward"
    [] p \in {"PARALLEL_STEER_REVERSE", "PERP_REVERSE_OUT"} -> "reverse"
    [] p = "PERP_TURN_IN"                               -> "turn"
    [] OTHER                                            -> "still"

Entry == {"PARALLEL_STEER_REVERSE", "PERP_FORWARD"}

\* The wall the motion of phase p leads to has been seen.
AtWall(p) ==
  (MotionOf(p) = "forward" /\ park.front) \/ (MotionOf(p) = "reverse" /\ park.rear)

\* Mutants: the other wall is looked at; a phase waits for its distance.
OverWrongWall(p) ==
  \/ park.age >= Time[p]
  \/ p \notin Wait /\ park.dist >= Distance[p]
  \/ p = "PARALLEL_STEER_REVERSE" /\ park.front
  \/ p = "PERP_FORWARD" /\ park.rear
OverByDistance(p) ==
  \/ p \in Wait /\ park.age >= Time[p]
  \/ p \notin Wait /\ park.dist >= Distance[p]
  \/ p \in Entry /\ AtWall(p)

Over(p) ==
  \/ park.age >= Time[p]
  \/ p \notin Wait /\ park.dist >= Distance[p]
  \/ p \in Entry /\ AtWall(p)

Sequel(p) ==
  CASE p = "PARALLEL_FORWARD"       -> "PARALLEL_STEER_REVERSE"
    [] p = "PARALLEL_STEER_REVERSE" -> "PARALLEL_STRAIGHTEN"
    [] p = "PARALLEL_STRAIGHTEN"    -> "PARALLEL_WAIT"
    [] p = "PARALLEL_WAIT"          -> "PARALLEL_EXIT"
    [] p = "PERP_TURN_IN"           -> "PERP_FORWARD"
    [] p = "PERP_FORWARD"           -> "PERP_WAIT"
    [] p = "PERP_WAIT"              -> "PERP_REVERSE_OUT"
    [] OTHER                        -> "IDLE"

IdleLoop ==
  /\ park.phase = "IDLE"
  /\ sent' = [sent EXCEPT !.cmd = "still"]
  /\ past' = [past EXCEPT !.by = "IDLE", !.pushes = 0]
  /\ UNCHANGED park

\* The command of the phase is published last, also after _finish has
\* published its zero; _finish leaves the start of the phase as it is.
PhaseLoop ==
  /\ park.phase # "IDLE"
  /\ LET p == park.phase
         finish == Over(p) /\ Sequel(p) = "IDLE"
     IN  /\ park' = IF finish THEN [park EXCEPT !.phase = "IDLE"]
                    ELSE IF Over(p) THEN StartPhase(park, Sequel(p)) ELSE park
         /\ sent' = [cmd |-> MotionOf(p), complete |-> sent.complete \/ finish]
         /\ past' = [trail  |-> IF Over(p) THEN Append(past.trail, p) ELSE past.trail,
                     by     |-> p,
                     pushes |-> IF ~AtWall(p) THEN 0
                                ELSE IF past.by = p THEN Lesser(2, past.pushes + 1) ELSE 1,
                     idle   |-> 0]

ParkLoop ==
  /\ lag > 0
  /\ IdleLoop \/ PhaseLoop
  /\ lag' = 0

\* Bound: the age of phase p saturates here, beyond every comparison with it.
AgeCap(p) == Time[p] + ParkGap + 1

\* A period passes; the age of an idle node means nothing.
ParkTick ==
  /\ lag < ParkGap
  /\ lag' = lag + 1
  /\ park' = IF park.phase = "IDLE" THEN park
              ELSE [park EXCEPT !.age = Lesser(AgeCap(park.phase), @ + 1)]
  /\ past' = [past EXCEPT !.idle = IF park.phase = "IDLE" THEN Lesser(ParkGap + 1, @ + 1)
                                   ELSE 0]
  /\ UNCHANGED sent

ParkNext ==
  \/ \E m \in DOMAIN Manoeuvre : StartCommand(m)
  \/ StopCommand
  \/ \E f \in BOOLEAN, r \in BOOLEAN : WallCallback(f, r)
  \/ \E d \in Steps : OdomCallback(d)
  \/ ParkLoop
  \/ ParkTick

ParkSpec == ParkInit /\ [][ParkNext]_parkVars

\* The 20 Hz timer keeps firing and time passes; odometry and lidar may stop.
ParkFairness == WF_parkVars(ParkLoop) /\ WF_parkVars(ParkTick)

-----------------------------------------------------------------------------
(* Properties.                                                             *)

\* No phase outlives its timeout by more than one run of the loop, whether
\* odometry and lidar are heard or not.
PhaseBounded == park.phase # "IDLE" => park.age <= Time[park.phase] + ParkGap

\* So every manoeuvre ends, also when the sensors that end its phases are dead.
ManoeuvreEnds == park.phase # "IDLE" ~> park.phase = "IDLE"

\* /parking_complete says true only after all phases of a manoeuvre, in their
\* order, with no 'stop' and no other manoeuvre in between.
CompleteEarned ==
  sent.complete => \E m \in DOMAIN Manoeuvre : past.trail = Manoeuvre[m]

\* On the way into the slot, at most one command goes against a wall that the
\* lidar has reported.
EntryStops == past.by \in Entry => past.pushes <= 1

\* However the manoeuvre ends, one run of the loop later the car is told to stand.
IdleStands == park.phase = "IDLE" /\ past.idle > ParkGap => sent.cmd = "still"
===============================================================================
