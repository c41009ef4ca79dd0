--------------------------- MODULE ServoController ---------------------------
(***************************************************************************)
(* The node servo_controller: the only process that writes to the motor    *)
(* board.  Four sources compete for the board: the joystick, the stream    *)
(* /cmd_vel_auto, a recorded movement being played back, and the stops of  *)
(* the two watchdogs.  The node spins on a single-threaded executor, so a  *)
(* callback is one atomic step; callbacks interleave in any order.         *)
(*                                                                         *)
(* A drive command stands for the pair (motor pwm, servo angle).  Time is  *)
(* counted in periods of the hardware loop (0.1 s): a Tick is enabled only *)
(* when no timer callback is due, so the watchdogs are timely, while the   *)
(* playback and encoder timers (0.05 s) may fire between any two steps.    *)
(***************************************************************************)
EXTENDS Integers, Sequences

CONSTANTS
  Cmd,            \* drive commands
  Stop,           \* the command (0, servo_center)
  None,           \* "nothing sent yet": getattr(self, 'sent_motor_val', None)
  NeutralSticks,  \* stick positions within unlock_neutral_threshold
  Frames,         \* joystick frames: [pressed : SUBSET Control, stick : Cmd]
  Library,        \* sample lists of the recordings on disk
  MaxSamples,     \* bound on the length of record_buffer
  JoyTimeout,     \* joy_timeout, in periods of the hardware loop
  WatchdogPeriod, \* period of _joy_watchdog, in the same unit
  AutoTimeout,    \* auto_cmd_timeout
  Heartbeat,      \* hw_heartbeat_sec
  NumChallenges,  \* len(CHALLENGE_STATES)
  NumSpeeds,      \* len(speed_levels)
  ReliableLink    \* FALSE: a serial write may be lost without an error

Button  == {"A", "B", "X", "Y", "START", "LB", "RB"}
Pad     == {"LEFT", "RIGHT", "UP", "DOWN"}
Control == Button \cup Pad

ASSUME ServoAssumption ==
  /\ Stop \in Cmd /\ None \notin Cmd
  /\ NeutralSticks \subseteq Cmd /\ Stop \in NeutralSticks
  /\ Frames \subseteq [pressed : SUBSET Control, stick : Cmd]
  /\ MaxSamples \in Nat
  /\ Library \subseteq Seq(Cmd) /\ \A b \in Library : Len(b) <= MaxSamples
  /\ JoyTimeout \in Nat /\ AutoTimeout \in Nat \ {0} /\ Heartbeat \in Nat
  /\ WatchdogPeriod \in Nat \ {0}
  /\ NumChallenges \in Nat \ {0} /\ NumSpeeds \in Nat \ {0}
  /\ ReliableLink \in BOOLEAN

VARIABLES
  node,   \* the drive and record / playback state of the controller
  joy,    \* what the node knows of the joystick
  menu,   \* challenge_index and speed_idx
  clock   \* which periodic callbacks are due

vars == <<node, joy, menu, clock>>

RpState == {"IDLE", "RECORDING", "PLAYBACK"}
JoyAgeMax == JoyTimeout + WatchdogPeriod + 1

Node == [ rp       : RpState,                 \* rp_state
          buf      : Seq(Cmd),                \* record_buffer
          idx      : Nat,                     \* playback_index
          timer    : BOOLEAN,                 \* playback_timer is not None
          manual   : BOOLEAN,                 \* manual_mode
          told     : BOOLEAN,                 \* last value on /auto_mode
          target   : Cmd,                     \* target_motor_val, target_servo_val
          sent     : Cmd \cup {None},         \* sent_motor_val, sent_servo_val
          sendAge  : 0 .. Heartbeat + 3,      \* age of last_hw_send_time
          autoAge  : 0 .. AutoTimeout + 2,    \* age of last_auto_cmd_time
          link     : BOOLEAN,                 \* serial writes reach the board
          hw       : Cmd ]                    \* what the board executes

Joy == [ alive    : BOOLEAN,                  \* joy_alive
         unlocked : BOOLEAN,                  \* joy_unlocked
         awaiting : BOOLEAN,                  \* awaiting_neutral
         required : BOOLEAN,                  \* parameter unlock_requires_neutral
         lost     : BOOLEAN,                  \* joy_lost_reported
         prev     : SUBSET Control,           \* prev_buttons, prev_axes
         age      : 0 .. JoyAgeMax ]          \* age of last_joy_time

Menu  == [challenge : 0 .. NumChallenges - 1, speed : 0 .. NumSpeeds - 1]
Clock == [hwDue : BOOLEAN, phase : 0 .. WatchdogPeriod]

TypeOK ==
  /\ node \in Node
  /\ Len(node.buf) <= MaxSamples
  /\ joy \in Joy
  /\ menu \in Menu
  /\ clock \in Clock

Init ==
  /\ \E b \in Library \cup {<<>>}, l \in (IF ReliableLink THEN {TRUE} ELSE BOOLEAN) :
       node = [ rp |-> "IDLE", buf |-> b, idx |-> 0, timer |-> FALSE,
                manual |-> TRUE, told |-> FALSE, target |-> Stop,
                sent |-> None, sendAge |-> Heartbeat + 1, autoAge |-> 0,
                link |-> l, hw |-> Stop ]
  /\ \E r \in BOOLEAN :
       joy = [ alive |-> FALSE, unlocked |-> FALSE, awaiting |-> FALSE,
               required |-> r, lost |-> FALSE, prev |-> {}, age |-> 0 ]
  /\ menu = [challenge |-> 0, speed |-> 0]
  /\ clock = [hwDue |-> FALSE, phase |-> WatchdogPeriod]

-----------------------------------------------------------------------------
(* The methods of the node, as functions from a node to a node.            *)

\* What the board executes after a write of c: set_motor and set_pwm_servo of
\* the board's library swallow every exception of the serial port.
Written(n, c) == IF n.link THEN c ELSE n.hw

StopRobot(n) == [n EXCEPT !.target = Stop, !.hw = Written(n, Stop)]

\* Mutant: the time of the write is not noted.
SendTargetUntimed(n) == [n EXCEPT !.sent = n.target, !.hw = Written(n, n.target)]

SendTarget(n) ==
  [n EXCEPT !.sent = n.target, !.sendAge = 0, !.hw = Written(n, n.target)]

ApplyHardware(n, c) ==
  LET m == [n EXCEPT !.target = c]
  IN  IF m.target # m.sent THEN SendTarget(m) ELSE m

SetMode(n, manual) == [n EXCEPT !.manual = manual, !.told = ~manual]

StartRecording(n) == [n EXCEPT !.buf = <<>>, !.rp = "RECORDING"]

StopRecording(n) == [n EXCEPT !.rp = "IDLE"]

\* Mutant: the robot is not stopped.
StopPlaybackRolling(n) == [n EXCEPT !.timer = FALSE, !.rp = "IDLE"]

StopPlayback(n) == StopRobot([n EXCEPT !.timer = FALSE, !.rp = "IDLE"])

\* Mutant: the recording starts over at its end.
PlaybackStepLoops(n) ==
  IF n.rp # "PLAYBACK" THEN n
  ELSE IF n.idx >= Len(n.buf) THEN [n EXCEPT !.idx = 0]
  ELSE [ApplyHardware(n, n.buf[n.idx + 1]) EXCEPT !.idx = n.idx + 1]

PlaybackStep(n) ==
  IF n.rp # "PLAYBACK" THEN n
  ELSE IF n.idx >= Len(n.buf) THEN StopPlayback(n)
  ELSE [ApplyHardware(n, n.buf[n.idx + 1]) EXCEPT !.idx = n.idx + 1]

StartPlayback(n) ==
  IF n.buf = <<>> THEN n
  ELSE PlaybackStep([n EXCEPT !.rp = "PLAYBACK", !.idx = 0, !.timer = TRUE])

-----------------------------------------------------------------------------
(* The parts of joy_callback, in the order of the code.  r is the set of   *)
(* controls with a rising edge in this frame.                              *)

RecordButton(n, r) ==
  IF "A" \notin r THEN n
  ELSE IF n.rp = "IDLE" THEN StartRecording(n)
  ELSE IF n.rp = "RECORDING" THEN StopRecording(n)
  ELSE n

PlayButton(n, r) ==
  IF "X" \notin r THEN n
  ELSE IF n.rp = "IDLE" /\ n.manual THEN StartPlayback(n)
  ELSE IF n.rp = "PLAYBACK" THEN StopPlayback(n)
  ELSE n

\* D-pad left or right loads the recording b of the library.
CyclePad(n, r, b) ==
  IF n.rp = "IDLE" /\ n.manual /\ r \cap {"LEFT", "RIGHT"} # {}
  THEN [n EXCEPT !.buf = b] ELSE n

\* Mutant: switching to AUTO keeps the old age of the command stream.
ModeButtonKeepsAge(n, r) ==
  IF r \cap {"START", "Y"} = {} THEN n
  ELSE LET idle == IF n.rp = "RECORDING" THEN StopRecording(n)
                   ELSE IF n.rp = "PLAYBACK" THEN StopPlayback(n) ELSE n
           m == SetMode(idle, ~n.manual)
       IN  IF m.manual THEN StopRobot(m) ELSE m

ModeButton(n, r) ==
  IF r \cap {"START", "Y"} = {} THEN n
  ELSE LET idle == IF n.rp = "RECORDING" THEN StopRecording(n)
                   ELSE IF n.rp = "PLAYBACK" THEN StopPlayback(n)
                   ELSE n
           m == SetMode(idle, ~n.manual)
       IN  IF m.manual THEN StopRobot(m) ELSE [m EXCEPT !.autoAge = 0]

MenuButtons(u, r) ==
  LET step == (IF "RB" \in r THEN 1 ELSE 0) - (IF "LB" \in r THEN 1 ELSE 0)
      speed == IF "UP" \in r
               THEN (IF u.speed < NumSpeeds - 1 THEN u.speed + 1 ELSE u.speed)
               ELSE IF "DOWN" \in r /\ u.speed > 0 THEN u.speed - 1 ELSE u.speed
  IN  [challenge |-> (u.challenge + step) % NumChallenges, speed |-> speed]

ManualDrive(n, stick) ==
  IF n.manual /\ n.rp # "PLAYBACK" THEN ApplyHardware(n, stick) ELSE n

\* The whole handling of a frame once the controller is unlocked and neutral.
Operate(n, r, stick, b) ==
  ManualDrive(ModeButton(CyclePad(PlayButton(RecordButton(n, r), r), r, b), r), stick)

-----------------------------------------------------------------------------
(* joy_callback: one action per early return.                              *)

Heard == [joy EXCEPT !.alive = TRUE, !.lost = FALSE, !.age = 0]

\* A locked controller ignores frames without a button ...
JoyIgnored(f) ==
  /\ ~joy.unlocked /\ f.pressed \cap Button = {}
  /\ joy' = Heard
  /\ UNCHANGED <<node, menu, clock>>

\* ... and the frame that unlocks it is consumed.
JoyUnlock(f) ==
  /\ ~joy.unlocked /\ f.pressed \cap Button # {}
  /\ joy' = [Heard EXCEPT !.unlocked = TRUE, !.awaiting = joy.required,
                          !.prev = f.pressed]
  /\ node' = StopRobot(node)
  /\ UNCHANGED <<menu, clock>>

JoyNotNeutral(f) ==
  /\ joy.unlocked /\ joy.awaiting /\ f.stick \notin NeutralSticks
  /\ joy' = [Heard EXCEPT !.prev = f.pressed]
  /\ node' = StopRobot(node)
  /\ UNCHANGED <<menu, clock>>

JoyOperate(f) ==
  /\ joy.unlocked /\ (joy.awaiting => f.stick \in NeutralSticks)
  /\ LET r == f.pressed \ joy.prev
     IN  /\ \E b \in Library \cup {node.buf} : node' = Operate(node, r, f.stick, b)
         /\ menu' = MenuButtons(menu, r)
  /\ joy' = [Heard EXCEPT !.awaiting = FALSE, !.prev = f.pressed]
  /\ UNCHANGED clock

JoyCallback ==
  \E f \in Frames : JoyIgnored(f) \/ JoyUnlock(f) \/ JoyNotNeutral(f) \/ JoyOperate(f)

-----------------------------------------------------------------------------
(* The other subscriptions.                                                *)

\* Mutant: automatic commands are forwarded during playback.
CmdVelAutoAlways(c) ==
  /\ LET n == [node EXCEPT !.autoAge = 0]
     IN  node' = IF ~n.manual THEN ApplyHardware(n, c) ELSE n
  /\ UNCHANGED <<joy, menu, clock>>

CmdVelAuto(c) ==
  /\ LET n == [node EXCEPT !.autoAge = 0]
     IN  node' = IF ~n.manual /\ n.rp # "PLAYBACK" THEN ApplyHardware(n, c) ELSE n
  /\ UNCHANGED <<joy, menu, clock>>

RecordCmd ==
  /\ node.rp = "IDLE"
  /\ node' = StartRecording(node)
  /\ UNCHANGED <<joy, menu, clock>>

StopCmd ==
  /\ node.rp # "IDLE"
  /\ node' = IF node.rp = "RECORDING" THEN StopRecording(node) ELSE StopPlayback(node)
  /\ UNCHANGED <<joy, menu, clock>>

\* 'playback' comes from auto_driver and from the dashboard; unlike button X
\* it is honoured in both modes.
PlaybackCmd ==
  /\ node.rp = "IDLE" /\ node.buf # <<>>
  /\ node' = StartPlayback(node)
  /\ UNCHANGED <<joy, menu, clock>>

\* 'load:' and 'delete:' (of the recording in the buffer) need IDLE.
LoadOrDeleteCmd ==
  /\ node.rp = "IDLE"
  /\ \E b \in Library \cup {<<>>} : node' = [node EXCEPT !.buf = b]
  /\ UNCHANGED <<joy, menu, clock>>

\* 'set_active:' replaces the buffer whatever rp_state is.
SetActiveCmd ==
  /\ \E b \in Library : node' = [node EXCEPT !.buf = b]
  /\ UNCHANGED <<joy, menu, clock>>

SetRequiresNeutral(v) ==
  /\ joy' = [joy EXCEPT !.required = v, !.awaiting = v]
  /\ UNCHANGED <<node, menu, clock>>

-----------------------------------------------------------------------------
(* The timers.                                                             *)

\* Mutant: the watchdog only looks after automatic mode.
JoyWatchdogAutoOnly ==
  /\ clock.phase = 0
  /\ clock' = [clock EXCEPT !.phase = WatchdogPeriod]
  /\ IF joy.alive /\ joy.age > JoyTimeout /\ ~node.manual
     THEN /\ joy' = [joy EXCEPT !.lost = TRUE, !.unlocked = FALSE]
          /\ node' = SetMode(StopRobot(node), TRUE)
     ELSE UNCHANGED <<joy, node>>
  /\ UNCHANGED menu

JoyWatchdog ==
  /\ clock.phase = 0
  /\ clock' = [clock EXCEPT !.phase = WatchdogPeriod]
  /\ IF joy.alive /\ joy.age > JoyTimeout
     THEN /\ joy' = [joy EXCEPT !.lost = TRUE,
                                !.unlocked = IF joy.lost THEN @ ELSE FALSE]
          /\ node' = StopRobot(IF ~joy.lost /\ ~node.manual
                               THEN SetMode(node, TRUE) ELSE node)
     ELSE UNCHANGED <<joy, node>>
  /\ UNCHANGED menu

\* Mutants: the forced MANUAL mode is not published; no heartbeat.
HardwareUpdateLoopSilent ==
  /\ clock.hwDue
  /\ clock' = [clock EXCEPT !.hwDue = FALSE]
  /\ node' = IF ~node.manual /\ node.autoAge > AutoTimeout
             THEN [StopRobot(node) EXCEPT !.manual = TRUE]
             ELSE IF node.target # node.sent \/ node.sendAge > Heartbeat
             THEN SendTarget(node)
             ELSE node
  /\ UNCHANGED <<joy, menu>>

HardwareUpdateLoopNoHeartbeat ==
  /\ clock.hwDue
  /\ clock' = [clock EXCEPT !.hwDue = FALSE]
  /\ node' = IF ~node.manual /\ node.autoAge > AutoTimeout
             THEN SetMode(StopRobot(node), TRUE)
             ELSE IF node.target # node.sent THEN SendTarget(node) ELSE node
  /\ UNCHANGED <<joy, menu>>

HardwareUpdateLoop ==
  /\ clock.hwDue
  /\ clock' = [clock EXCEPT !.hwDue = FALSE]
  /\ node' = IF ~node.manual /\ node.autoAge > AutoTimeout
             THEN SetMode(StopRobot(node), TRUE)
             ELSE IF node.target # node.sent \/ node.sendAge > Heartbeat
             THEN SendTarget(node)
             ELSE node
  /\ UNCHANGED <<joy, menu>>

\* The recording part of _encoder_read_loop.
RecordSample ==
  /\ node.rp = "RECORDING" /\ Len(node.buf) < MaxSamples
  /\ node' = [node EXCEPT !.buf = Append(node.buf, node.target)]
  /\ UNCHANGED <<joy, menu, clock>>

PlaybackTimer ==
  /\ node.timer
  /\ node' = PlaybackStep(node)
  /\ UNCHANGED <<joy, menu, clock>>

Older(age, max) == IF age < max THEN age + 1 ELSE age

Tick ==
  /\ ~clock.hwDue /\ clock.phase > 0
  /\ clock' = [hwDue |-> TRUE, phase |-> clock.phase - 1]
  /\ node' = [node EXCEPT !.sendAge = Older(@, Heartbeat + 3),
                          !.autoAge = Older(@, AutoTimeout + 2)]
  /\ joy' = [joy EXCEPT !.age = Older(@, JoyAgeMax)]
  /\ UNCHANGED menu

\* The serial cable comes loose or is plugged in again.
LinkChange ==
  /\ ~ReliableLink
  /\ node' = [node EXCEPT !.link = ~node.link]
  /\ UNCHANGED <<joy, menu, clock>>

Next ==
  \/ JoyCallback
  \/ \E c \in Cmd : CmdVelAuto(c)
  \/ RecordCmd \/ StopCmd \/ PlaybackCmd \/ LoadOrDeleteCmd \/ SetActiveCmd
  \/ \E v \in BOOLEAN : SetRequiresNeutral(v)
  \/ JoyWatchdog \/ HardwareUpdateLoop
  \/ RecordSample \/ PlaybackTimer
  \/ Tick \/ LinkChange

Spec == Init /\ [][Next]_vars

\* The executor keeps serving the timers; nothing is assumed of the operator,
\* of the other nodes or of the serial cable.
FairSpec ==
  /\ Spec
  /\ WF_vars(Tick) /\ WF_vars(HardwareUpdateLoop) /\ WF_vars(JoyWatchdog)
  /\ WF_vars(PlaybackTimer)
-----------------------------------------------------------------------------
(* Properties.                                                             *)

\* Losing the joystick stops the car: once no /joy frame has come for
\* joy_timeout plus one watchdog period, the node is in manual mode and,
\* unless a recorded movement is being played, the board executes Stop.
JoyLossStops ==
  joy.alive /\ joy.age > JoyTimeout + WatchdogPeriod =>
    /\ node.manual
    /\ node.rp # "PLAYBACK" =>
         node.target = Stop /\ (ReliableLink => node.hw = Stop)

\* A locked controller (never unlocked, or locked by the watchdog) leaves the
\* node in manual mode with the car at rest, playback apart.
LockedMeansStopped ==
  ~joy.unlocked =>
    /\ node.manual
    /\ node.rp # "PLAYBACK" =>
         node.target = Stop /\ (ReliableLink => node.hw = Stop)

\* Automatic mode never outlives the stream of /cmd_vel_auto by more than
\* auto_cmd_timeout and one period of the hardware loop.
AutoStreamGuard == ~node.manual => node.autoAge <= AutoTimeout + 1

\* What the other nodes last heard on /auto_mode is the mode of this node.
ModeAnnounced == node.told = ~node.manual

\* The board executes the last command sent or has been stopped since, and a
\* difference from the target cannot last: the heartbeat refreshes the board.
BoardFollows ==
  /\ ReliableLink => node.hw \in {node.sent, Stop}
  /\ node.sendAge <= Heartbeat + 2

\* The playback timer exists exactly while a movement is played: no path
\* leaves a second timer behind that would replay at twice the speed.
TimerIffPlayback == node.timer <=> node.rp = "PLAYBACK"

\* While a movement is played neither the joystick nor /cmd_vel_auto drives:
\* the target only moves to the next sample or to Stop.
PlaybackOwnsMotors ==
  [][node.rp = "PLAYBACK" /\ node'.rp = "PLAYBACK" =>
       \/ node'.target \in {node.target, Stop}
       \/ node.idx < Len(node.buf) /\ node'.target = node.buf[node.idx + 1]]_vars

\* While a movement is played it only goes forward, every firing of its timer
\* takes it on by one sample, and it never gets beyond the longest recording.
PlaybackAdvances ==
  [][node.rp = "PLAYBACK" /\ node'.rp = "PLAYBACK" =>
       /\ node'.idx \in node.idx .. MaxSamples
       /\ PlaybackTimer => node'.idx > node.idx]_vars

\* Every playback ends, also when set_active swaps the buffer under it.
PlaybackEnds == node.rp = "PLAYBACK" ~> node.rp # "PLAYBACK"

\* A stop that was lost on the serial line is repaired: if the cable holds and
\* the target stays Stop from some time on, so does the board.
StopReachesBoard ==
  <>[](node.link /\ node.target = Stop) => <>[](node.hw = Stop)

\* What the docstring of the module promises of the watchdog: while the
\* controller stays lost, a playback whose motors the watchdog has stopped is
\* not driven on by the playback timer.
WatchdogStopsRobot ==
  [][ReliableLink /\ joy.lost /\ joy'.lost /\ node.rp = "PLAYBACK" /\ node.hw = Stop =>
       node'.hw = Stop]_vars
=============================================================================
