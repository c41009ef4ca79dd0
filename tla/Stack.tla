-------------------------------- MODULE Stack --------------------------------
(***************************************************************************)
(* The three nodes between the decision and the wheels, composed over      *)
(* their topics:                                                           *)
(*                                                                         *)
(*   auto_driver --/cmd_vel_auto_raw--> cmd_safety_controller              *)
(*   cmd_safety_controller --/cmd_vel_auto--> servo_controller             *)
(*   cmd_safety_controller --/cmd_safety_status--> auto_driver             *)
(*   auto_driver --/record_playback_cmd--> servo_controller                *)
(*   servo_controller --/auto_mode, /record_playback_state--> auto_driver  *)
(*                                                                         *)
(* Every step is a step of one node's module with what it sends.  The two  *)
(* command streams are repeated at 50 Hz and reach their reader at once;   *)
(* what is sent once (mode, playback) is queued, reliable and in order,    *)
(* and overtaken by anything else.  A node that is not running misses what *)
(* is sent meanwhile (volatile durability): auto_driver starts late and    *)
(* may crash and be restarted at any moment.                               *)
(*                                                                         *)
(* Time advances in steps of 0.1 s for all nodes; a queued message is      *)
(* read, and the safety loop has run, before the next.  A speed is counted *)
(* in any unit, and stands for the pwm it becomes as well: int(255 v) is   *)
(* monotonic, and zero only for speeds inside the deadband.                *)
(***************************************************************************)
EXTENDS Integers, Sequences

CONSTANTS
  None,
  Frames,         \* joystick frames (ServoController)
  Library,        \* recordings on disk (ServoController)
  MaxSamples,     \* samples of a recording (ServoController)
  JoyTimeout, WatchdogPeriod, AutoTimeout, Heartbeat,
  CmdTimeout,     \* cmd_timeout of cmd_safety_controller
  Speeds,         \* speeds auto_driver may ask for when it does not stop
  Top,            \* max_linear_speed
  Accel,          \* what max_linear_accel allows in one period
  Ramp,           \* periods the slew limiter takes from Top to zero
  Grace,          \* auto_driver waits so long before it tests for IDLE
  IdleDuration,   \* parking_idle_duration
  InFlight        \* bound of the messages queued on one topic

VARIABLES
  node, joy, menu, clock,                        \* servo_controller
  drv, out, hist,                                \* auto_driver
  target, output, estop, age, limit, halt, dt,   \* cmd_safety_controller
  net,    \* messages on their way
  up,     \* auto_driver is running
  due,    \* the safety loop has still to run in this period
  unled,  \* history: periods the car has had no leader, for one reason
  job     \* history: a playback auto_driver asked for is under way or running

servoVars  == <<node, joy, menu, clock>>
driverVars == <<drv, out, hist>>
safetyVars == <<target, output, estop, age, limit, halt, dt>>
vars == <<servoVars, driverVars, safetyVars, net, up, due, unled, job>>

Axis == {"linear"}

\* The nodes, each with what is proved about it: its proof module extends its
\* module.
Servo == INSTANCE ServoController_proofs WITH
  Cmd <- -Top .. Top, Stop <- 0, NeutralSticks <- {0},
  NumChallenges <- 1, NumSpeeds <- 1, ReliableLink <- TRUE

AgeMax == Grace + IdleDuration + 1
Driver == INSTANCE AutoDriver_proofs WITH
  Live <- {"auto", "estop", "signboard"}, Lights <- {}, RpStates <- Servo!RpState,
  Pitches <- {0}, Signs <- {}, Overrides <- {}, Restarts <- {2}, LapParams <- {},
  Subsumption <- {}, Moves <- {}, MinDist <- 0, MaxDist <- 0, LapDist <- 0,
  PostObstacle <- 0, RoundaboutDist <- 0, MinDwell <- 0,
  HillThreshold <- 1, HillReduction <- 0, HillHysteresis <- 0

Safety == INSTANCE CmdSafety_proofs WITH
  Channel <- Axis, Speed <- Speeds \cup {0}, Limit <- {Top},
  Accel <- [c \in Axis |-> Accel], Deadband <- [c \in Axis |-> 0],
  Timeout <- CmdTimeout, Interval <- {1}, HaltMax <- Ramp

ASSUME StackAssumption ==
  /\ None \notin Int /\ None \notin Driver!Command /\ None \notin Driver!Behaviour
  /\ Frames \subseteq [pressed : SUBSET Servo!Control, stick : -Top .. Top]
  /\ Library \subseteq Seq(-Top .. Top) /\ \A b \in Library : Len(b) <= MaxSamples
  /\ MaxSamples \in Nat /\ JoyTimeout \in Nat /\ Heartbeat \in Nat
  /\ WatchdogPeriod \in Nat \ {0} /\ AutoTimeout \in Nat \ {0}
  /\ CmdTimeout \in Nat /\ Grace \in Nat /\ IdleDuration \in Nat
  /\ InFlight \in Nat \ {0}
  /\ Speeds \subseteq Int /\ Top \in Nat /\ Accel \in Nat
  /\ Ramp \in Nat \ {0} /\ Accel * Ramp >= Top

Net == [ mode : Seq(BOOLEAN),          \* /auto_mode
         rp   : Seq(Servo!RpState),    \* /record_playback_state
         play : BOOLEAN ]              \* 'playback' on /record_playback_cmd

\* Longer than this the car is not left without a leader before it stands.
Patience == CmdTimeout + Ramp + 1

\* A queue holds no more than the executors let it.
TypeOK ==
  /\ Servo!TypeOK /\ Driver!TypeOK /\ Safety!TypeOK
  /\ net \in Net /\ Len(net.mode) <= InFlight /\ Len(net.rp) <= InFlight
  /\ up \in BOOLEAN /\ due \in BOOLEAN
  /\ unled \in 0 .. Patience /\ job \in BOOLEAN

Init ==
  /\ Servo!Init /\ joy.required /\ Driver!Init /\ Safety!Init
  /\ net = [mode |-> <<>>, rp |-> <<>>, play |-> FALSE]
  /\ up = FALSE /\ due = TRUE
  /\ unled = 0 /\ job = FALSE

-----------------------------------------------------------------------------
(* auto_driver.                                                            *)

SpeedOf(cmd) == IF cmd = "stop" THEN {0} ELSE Speeds

DriverLoop ==
  /\ up
  /\ Driver!ManualTick \/ Driver!AutoTick
  /\ IF out'.cmd = None THEN UNCHANGED safetyVars
     ELSE \E v \in SpeedOf(out'.cmd) : Safety!RawCmd([c \in Axis |-> v])
  /\ net' = [net EXCEPT !.play = @ \/ out'.playback]
  /\ UNCHANGED <<servoVars, up, due>>

\* What auto_driver hears of the other two nodes.
HearMode ==
  /\ net.mode # <<>>
  /\ Driver!BoolCallback("auto", Head(net.mode))
  /\ net' = [net EXCEPT !.mode = Tail(@)]
  /\ UNCHANGED <<servoVars, safetyVars, up, due>>

HearPlayback ==
  /\ net.rp # <<>>
  /\ Driver!RpStateCallback(Head(net.rp))
  /\ net' = [net EXCEPT !.rp = Tail(@)]
  /\ UNCHANGED <<servoVars, safetyVars, up, due>>

\* The status is sent once a second only: what auto_driver knows may be old.
HearStatus ==
  /\ up /\ drv.see["estop"] # estop
  /\ Driver!BoolCallback("estop", estop)
  /\ UNCHANGED <<servoVars, safetyVars, net, up, due>>

\* The parking sign, and an operator who sends LAP2.
Course ==
  /\ up
  /\ Driver!BoolCallback("signboard", TRUE) \/ Driver!Restart(2)
  /\ UNCHANGED <<servoVars, safetyVars, net, up, due>>

Start ==
  /\ ~up
  /\ up' = TRUE
  /\ UNCHANGED <<servoVars, driverVars, safetyVars, net, due>>

\* What was on its way to the node is lost with its state.
Crash ==
  /\ up
  /\ up' = FALSE
  /\ drv' = Driver!Booted /\ out' = Driver!Silent /\ hist' = Driver!Fresh
  /\ net' = [net EXCEPT !.mode = <<>>, !.rp = <<>>]
  /\ UNCHANGED <<servoVars, safetyVars, due>>

-----------------------------------------------------------------------------
(* servo_controller, and cmd_safety_controller in front of it.             *)

\* What a step of servo_controller sends: the mode when it changes, and its
\* state with every change and every step of a playback.
Sent ==
  [net EXCEPT !.mode = IF up /\ node'.told # node.told THEN Append(@, node'.told) ELSE @,
              !.rp = IF up /\ (node'.rp # node.rp \/ node'.idx # node.idx)
                     THEN Append(@, node'.rp) ELSE @]

Sends ==
  /\ net' = Sent
  /\ Len(net'.mode) <= InFlight /\ Len(net'.rp) <= InFlight

SafetyLoop ==
  /\ due
  /\ Safety!ControlLoop(1)
  /\ Servo!CmdVelAuto(output'["linear"])
  /\ Sends
  /\ due' = FALSE
  /\ UNCHANGED <<driverVars, up>>

PressEStop ==
  /\ Safety!EStop(~estop)
  /\ UNCHANGED <<servoVars, driverVars, net, up, due>>

\* A playback that is asked for at the wrong time is ignored, and answered.
HearPlay ==
  /\ net.play
  /\ IF node.rp = "IDLE" /\ node.buf # <<>> THEN Servo!PlaybackCmd ELSE UNCHANGED servoVars
  /\ net' = [net EXCEPT !.play = FALSE, !.rp = IF up THEN Append(@, node'.rp) ELSE @]
  /\ Len(net'.rp) <= InFlight
  /\ UNCHANGED <<driverVars, safetyVars, up, due>>

\* The operator at the joystick and at the dashboard's stop button.
Operator ==
  /\ Servo!JoyCallback \/ Servo!StopCmd
  /\ Sends
  /\ UNCHANGED <<driverVars, safetyVars, up, due>>

ServoTimers ==
  /\ Servo!JoyWatchdog \/ Servo!HardwareUpdateLoop \/ Servo!PlaybackTimer
  /\ Sends
  /\ UNCHANGED <<driverVars, safetyVars, up, due>>

-----------------------------------------------------------------------------
(* 0.1 s pass, once everything that is due has run.                        *)

Delivered == net.mode = <<>> /\ net.rp = <<>> /\ ~net.play

Tick ==
  /\ Delivered /\ ~due
  /\ Servo!Tick
  /\ \/ Driver!TimePasses
     \/ drv.entryAge = AgeMax /\ UNCHANGED driverVars
  /\ due' = TRUE
  /\ UNCHANGED <<safetyVars, net, up>>

Step ==
  \/ DriverLoop \/ HearMode \/ HearPlayback \/ HearStatus \/ Course \/ Start \/ Crash
  \/ SafetyLoop \/ PressEStop
  \/ HearPlay \/ Operator \/ ServoTimers
  \/ Tick

-----------------------------------------------------------------------------
(* History.                                                                *)

\* Why the car has no leader: in automatic mode and outside a playback, an
\* e-stop is pressed, or auto_driver, just started or not told, believes in
\* manual mode.
Reason ==
  IF node.manual \/ node.rp = "PLAYBACK" THEN None
  ELSE IF estop THEN "estop"
  ELSE IF ~drv.see["auto"] THEN "driver" ELSE None

Observed ==
  /\ unled' = IF Reason' = None \/ Reason' # Reason THEN 0
              ELSE IF clock'.hwDue /\ ~clock.hwDue /\ unled < Patience THEN unled + 1
              ELSE unled
  /\ job' = (net'.play \/ (job /\ node'.rp = "PLAYBACK"))

Next == Step /\ Observed

Spec == Init /\ [][Next]_vars

-----------------------------------------------------------------------------
(* Properties.                                                             *)

\* A car without a leader stands.  An e-stop, a crash of auto_driver and a
\* mode message it missed leave the last moving command in three nodes; it is
\* gone from the motor board when cmd_timeout and the ramp of the slew limiter
\* are over, and the period that was running (0.35 s, 0.375 s and 0.1 s with
\* the declared parameters), although cmd_safety_controller keeps publishing
\* and so keeps servo_controller's own stale guard from firing.
UnledCarStands == unled >= Patience => node.hw = 0

\* The playback handshake closes late, never early: auto_driver leaves the
\* parking only when the movement it asked for has been played to its end,
\* stopped or refused, however messages and the two clocks interleave.
HandshakeHolds == [][~drv.parkDone /\ drv'.parkDone => ~job]_vars

\* What the validation guide promises of the e-stop, of a playback too: once a
\* loop of cmd_safety_controller has run under it (dt # 0: no command and no
\* e-stop message since), the playback timer does not drive the car on.
EStopHaltsPlayback ==
  [][estop /\ dt # 0 /\ node.rp = "PLAYBACK" /\ node'.idx > node.idx => node'.hw = 0]_vars
=============================================================================
