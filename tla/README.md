# RISA-bot: TLA+ models of the driving stack

The repository holds the software of a small autonomous car for the NXGV
driverless challenge: ROS 2 nodes in Python (`src/src/`) that read a camera, a
lidar, an IMU and a joystick, decide which challenge of the course the car is in
and drive a motor board, and the C++ driver of the lidar. This directory holds
TLA+ models of the nodes that decide, act and report, model-checked with TLC,
and proofs checked with TLAPS.

All paths below are relative to the root of the repository checkout `src/`.

## The system

Every Python node is one process with a single-threaded rclpy executor: a
callback or timer runs to its end before the next one starts, so it is one
atomic step. The hard behaviour lies between the callbacks: the order in which
topics are heard, timers that race messages, topics that fall silent, operators
who press buttons or override states at any moment, and nodes that keep a stale
picture of each other. The lidar driver has two threads that share memory, and
a cable that may be pulled.

```
 lidar -> YDLidar SDK and its node -- /scan --+          joystick --------+
 camera, IMU ---------------------------------+-> detectors               |
                                                     |                    |
 dashboard -- /set_challenge, params -----------> auto_driver             |
                   /auto_mode,                       | /cmd_vel_auto_raw  |
                   /record_playback_state -------> (reads)                |
                   /cmd_safety_status -----------> (reads)                |
                                                     v                    |
                                           cmd_safety_controller          |
                                                     | /cmd_vel_auto      |
                                                     v                    v
 dashboard, auto_driver -- /record_playback_cmd --> servo_controller -> Rosmaster board
                                                     |
                                              recordings on disk
```

### Inventory

| component | state it keeps | operations | what must hold |
|---|---|---|---|
| `control_servo/servo_controller.py` | mode, joystick lock and age, record buffer and index, playback timer, target and sent command | `joy_callback`, `cmd_vel_auto_callback`, `_record_playback_cmd_cb`, `_joy_watchdog`, `_hardware_update_loop`, `_encoder_read_loop`, `_playback_timer_cb`, parameters | one owner of the motors at a time; every silence ends in a stop in bounded time; every mode change is announced; every playback ends |
| same file, recordings on disk | one file per name, `.active_parking`, the legacy file; index, buffer, name shown, name for parking | start with migration, save, load, delete, set_active, cycle, list | what is shown is true; a crash never loses the recording chosen for parking |
| same file, odometry and IMU | filters, pose, calibration | `_encoder_read_loop`, `_imu_calibrate_cb` | numerical quality |
| `risabot_automode/auto_driver.py` | challenge state and its entry time and distance, lap, armed gates, obstruction mark, parking flags, last message per topic with its age | the 50 Hz loop `publish_cmd_vel`, 14 callbacks, `set_challenge_callback`, resets, parameters | gates open in the order of the course; emergencies act at once; no urgent stop outlives its cause, a lost lane only its dwell; parking runs once, from rest |
| `risabot_automode/cmd_safety_controller.py` | last raw command and its time, output, e-stop, limits | `_raw_cmd_cb`, `_estop_cb`, `_on_params`, `_control_loop` | bounded speed and rate; bounded stopping; a lasting command is followed |
| the three together | messages on their way | crash, restart and late start of auto_driver | a car nobody leads stands still; the playback handshake closes late, never early |
| `signage_detector.py`, `traffic_light_detector.py`, `tunnel_wall_follower.py`, `boom_gate_detector.py`, `obstacle_avoidance`, `obstacle_avoidance_camera` | hysteresis counters, window of readings, last verdict | a frame or scan callback, a heartbeat | a lasting scene is reported as it is; a verdict needs its frames; no reader keeps a verdict that was taken back |
| `YDLidar-SDK` (`CYdLidar.cpp`, `YDlidarDriver.cpp`) and `ydlidar_ros2_driver_node.cpp` | port, `m_isConnected`, `m_isScanning`, `_dataEvent`, `scan_node_buf`, the scan thread | initialize, turnOn, doProcessSimple, stop_scan, start_scan, turnOff; `cacheScanData` with its reconnection | no torn, old or repeated scan; every call returns; scans come back after the cable does; nothing left open at the end |
| `obstruction_avoidance.py` | CLEAR / STOP_TOO_CLOSE / SPLINE_DODGE, direction, progress | scan callback, 20 Hz loop | every dodge ends; no drive into a blocked path |
| `parking_controller.py` | ten phases, phase start time and distance | command callback, 20 Hz loop | every manoeuvre ends; a stop ends it from any phase |
| `line_follower_camera.py`, `heading_fusion.py` | numerical filters | frame and IMU callbacks | numerical quality |
| `health_monitor.py` | age per topic | 2 Hz report | the topics required in the mode are watched |
| `dashboard.py`, `loop_monitor.py`, `bag_regression_validator.py` | display data | HTTP, statistics | none that drives the car |
| `tools/rosmaster_lib` (vendored) | serial port | `set_motor`, `set_pwm_servo` | errors are swallowed: a caller cannot see a lost write |
| other drivers, simulator, tools, guides | | | vendored or not part of driving |

`PROJECT.json` lists each of them with its status, and the hazards of the code
with the lines where they bite.

## Modules

| module | models | proofs |
|---|---|---|
| `ServoController` | `servo_controller.py` without disk, odometry and IMU | `ServoController_proofs` |
| `RecordingStore` | the recordings of `servo_controller.py` on disk | `RecordingStore_proofs` |
| `AutoDriver` | `auto_driver.py` | `AutoDriver_proofs` |
| `CmdSafety` | `cmd_safety_controller.py` | `CmdSafety_proofs` |
| `Stack` | `AutoDriver`, `CmdSafety` and `ServoController` composed over their topics | `Stack_proofs` |
| `Detectors` | the gates of the six detectors, with the topics they share | `Detectors_proofs` |
| `LidarDriver` | the lidar driver and its node, two threads and the cable | `LidarDriver_proofs` |
| `ObstructionAvoidance` | `obstruction_avoidance.py` | `Manoeuvres_proofs` |
| `ParkingController` | `parking_controller.py` | `Manoeuvres_proofs` |
| `ScanFeed` | what a reader of `/scan` may rely on; `LidarDriver` implements it | (`FeedTheorem`) |
| `MC...` | small instances for TLC, one per module; `MCNodes` for `Detectors`, `ObstructionAvoidance` and `ParkingController` | |

### ServoController

State. `node` holds the fields of the drive and of record / playback, with two
additions: `hw`, the command the board executes, and `link`, whether serial
writes reach it. `joy` is what the node knows of the joystick, `menu` the two
indices, `clock` says which periodic callbacks are due. `told` is the value last
published on `/auto_mode`. A command of the set `Cmd` stands for a pair (motor
pwm, servo angle); the conversion of sticks and Twists into it is arithmetic
without state and is left out.

Actions. `joy_callback` is split at its early returns (`JoyIgnored`,
`JoyUnlock`, `JoyNotNeutral`, `JoyOperate`); the rest of the callback is one
step, `Operate`, that composes the buttons in the order of the code. The six
playback commands, the two watchdogs, the recording sample and the playback
timer are an action each. `Written` says what the board has after a write: the
library swallows exceptions, so the node believes a lost write. For that reason
the counter of failed writes and its limit (`hw_fail_limit`) can never move, and
are not modelled. LoadOrDeleteCmd and CyclePad draw from the constant `Library`;
which names are on disk is the subject of `RecordingStore`.

Time. One `Tick` is 0.1 s, the period of the hardware loop, and waits until the
callbacks that are due have run; `autoAge`, `sendAge` and `joy.age` saturate one
step after the largest value a guard compares with.

### RecordingStore

State. `disk`: every file is absent, torn or whole with a take; `unsynced` says
which of them only exist in the page cache. `node`: the index
(`saved_recordings`), the buffer, `current_recording_name`,
`active_parking_recording`, `_cycling_index` and `rp_state`. Names are numbers,
so that their order is that of `sorted()`. Two histories: `chosen`, the choice
for parking that reached the disk as a preference and as a file, and `mixed`,
set when `set_active` loaded a recording into a running one.

Actions. `Boot` is the end of `__init__`: migration, scan, preference. The code
rewrites files in place (`open(..., 'w')`), so a write has the outcomes whole
and torn, the node notices an exception and goes on; a `Killed` process loses
its memory only, a `PowerLoss` also tears files that were not written back.
`SetActive` swallows a preference that cannot be written, which leaves it empty
or as it was. The guards on the mode and the joystick are `ServoController`'s;
here the commands may come at any time `rp_state` allows.

### AutoDriver

State. `drv` is the node, `out` what the last step published and why, `hist`
history for the properties (landmarks visited, obstruction seen and playback asked since
the restart, how long only "stop" was published).

The control loop is cut into the pieces the code has: `Fallbacks` (stale
topics), `AdvanceLap`, `ObstructionEdge`, `HillPrime`, then the `if / elif`
chain as a table of claims with ranks (`Claim`, `Rank`, `Wins`), what each
winner wants (`Decision`), and the dwell gate (`Switched`). One `AutoTick` is
the whole of `publish_cmd_vel`. Commands are abstracted to who chose them.

Callbacks are one action each, the nine Boolean topics sharing `BoolCallback`.
Time is the age of the current state (`TimePasses`, capped at `AgeMax`) and one
bit per stamped topic (`GoStale`). Fields the code writes and never reads
(`parking_complete` and its relatives) are left out.

### CmdSafety

Integer speeds on two channels; `ControlLoop(i)` is one loop that runs `i` units
after the last one, so late loops are part of the model. `halt` and `dt` are
history. The counters and statistics the node publishes are left out.

### Stack

`Stack` instantiates the three modules above and has one action per step of one
node with what it publishes. The two command streams are repeated at 50 Hz and
reach their reader at once. What is sent once is queued and may be overtaken by
anything else: `/auto_mode` and `/record_playback_state` as sequences,
`'playback'` as a flag. `cmd_safety_status` comes once a second only, so what
auto_driver knows of the e-stop may be old. Durability is volatile: auto_driver
starts late (`TimerAction`, five seconds), crashes and is restarted at any
moment, and misses what was sent meanwhile.

The operator uses the joystick and the dashboard's stop button; recordings made
by hand and the dashboard's own playback are `ServoController`'s subject.
`cmd_safety_controller` publishes at 50 Hz whether it hears anything or not, so
the stale guard of `servo_controller` never fires in this composition: a moving
command left in the chain has to die in the safety node. Its slew limiter takes
up to `Ramp` periods from the largest speed, so a car is at rest after
`Patience` = `CmdTimeout` + `Ramp` + 1 periods: with the declared parameters
0.35 s of silence, 0.375 s of ramp and the period that was running. The history
`unled` counts the periods in which the car has, for one reason, no leader (an
e-stop; an auto_driver that believes in manual mode), `job` follows a playback
that auto_driver asked for. A car that plays a recording is led by it.

The configurations use a `VIEW` that leaves out what no guard reads: with
`MinDwell = 0` the challenge state and its age while the car does not park, a
stale command of the safety node, the age of the command stream in manual mode,
the index of a recording that is not playing, and history of `AutoDriver`. No
property reads what is left out; the view of `stack_estop` adds the `dt` its
property reads.

### Detectors

The gates between what one frame or scan shows and what is reported. What a
frame shows is arbitrary: image processing, inference and geometry stay out.
Three nodes count consecutive frames (`Counted`), `signage_detector` keeps
decaying counters (`Bumped`, `LampVoted`, `HintSeen`), `traffic_light_detector`
counts frames of one colour, the lidar node takes the median of the finite
readings of a window (`FrontSaw`). `Heartbeat` repeats a verdict.

A behaviour runs one group of nodes, chosen at the start: nodes that share no
topic do not interact. `/obstacle_detected_camera` and `/traffic_light_state`
have two writers each, and auto_driver believes whoever wrote last; the groups
of the instance put both writers together. `traffic_light_detector`,
`boom_gate_detector` and the lidar node are not started by
`competition.launch.py`; they are modelled as they would run. Changes of the
thresholds at run time, and `/tunnel_confidence`, which no node reads, are left
out.

### ObstructionAvoidance

State. `node` holds the fields of the node, `said` the two messages it repeats,
`late` the time since `last_loop_time`, `quiet` the time since the last scan.
`hist` counts how long auto_driver was left in charge of a car with something
too close in front of it (`open`).

Actions. `ScanCallback` takes the nearest reading of the forward arc, the
densities of the two halves of the smoothed histogram and whether three points
lie alongside; geometry and smoothing stay out. The points alongside are counted
with the direction held before the scan, as in the code. `ControlLoop` is one of
`Idle`, `Yield`, `Dodge`; a `Yield` that ends still reports active, a `Dodge`
that ends does not. Progress and time are counted in periods of the loop; the
clamp of `dt` to 0.1 s makes a late loop fall behind (`StepMax`). `Tick` lets
the loop be up to `LoopGap` periods late.

The launch files of the car leave the node out (`competition.launch.py:158` is a
comment); `risabot_sim/launch/sim_bringup.launch.py:83` and `ros2 run` start it.

### ParkingController

State. The phase with its age and distance and the two walls (`park`), the last
messages (`sent`), the time since the last run of the loop (`lag`), and as
history (`past`) the phases finished since the last command
(`trail`), the phase that commanded last (`by`), its commands against a wall
(`pushes`) and the time since the node went idle (`idle`).

Actions. `StartCommand` and `StopCommand` are `command_callback`, `PhaseLoop` is
one run of `control_loop` in a phase, `_start_phase` and `_finish` included: the
command of the phase is published after both. Nine phases share one rule
(`Over`: its time, its distance, on the way in its wall) and differ in tables
(`MotionOf`, `Sequel`, the constants `Time` and `Distance`). Commands are
reduced to the direction in which they move the car.

Nothing in the repository publishes on `/parking_command` (`auto_driver.py:91`
creates a publisher and never uses it); the guides send it from the command line
(`Guide/commands_reference.md:152`). The parking of the competition is a
playback, which `AutoDriver`, `Stack` and `ServoController` model.

### LidarDriver and ScanFeed

`main` is the thread of the ROS node, `thr` the scan thread (`cacheScanData`),
each with a program counter at the places where the other may come in between.
A section under `_cmd_lock` is one action where there is no scan thread, which is
whenever the main thread opens the port, sends a command or closes it
(`PortExclusive` checks that). The exception is `startMotor`: `startScan` calls
it with the new thread alive, and it drives the motor through the same port for
500 ms under `_cmd_lock` (`StartMotor` to `Motor`, the counter at `motor`). The
thread may read meanwhile, time out and reconnect; the steps of the reconnection
that take the lock wait (`CmdLockFree`). `PortExclusive` says that none of its
steps changes the port while `startMotor` holds it. `m_isScanning` is a plain flag in the code and is read and written atomically
here. Packets are abstracted to what tells one revolution from another: whether
it has a gap (torn) and whether it began before the last start (old).

The cable may be pulled and put back at any moment (`Plug`, `Unplug`): a pulled
cable makes the open descriptor useless for good. `checkAutoConnecting` is the
sequence `Retry`, `Connect`, `Ask`, `RestartOk` / `RestartFailed`.

`ScanFeed` is the abstract specification: a source that is started and stopped,
one place for a scan, every scan shown at most once. The refinement maps
`running` to "there is a scan thread", `ready` to "the buffer is full and was
filled since the start", `turn` to the bit that changes with every scan on
`/scan`.

## What is checked

Every run is small in the number of values and complete in the interleavings of
the processes it models.
Deadlock is checked in every run.

| run | checks | what it shows |
|---|---|---|
| `servo_drive` | `JoyLossStops` `LockedMeansStopped` `AutoStreamGuard` `ModeAnnounced` `BoardFollows` `PlaybackOwnsMotors` | A stop in bounded time after silence, one owner of the motors |
| `servo_live` | `PlaybackEnds` `StopReachesBoard` | Every playback ends, also under set_active; a stop lost on the serial line is repaired by the heartbeat |
| `recording_store` | `ShownIsTrue` `RestartFindsChoice` | Failing writes, kills and losses of power: what the node shows is true, and a start finds the chosen recording, or any readable one |
| `auto_course` | `StopsHaveCause` `UrgentActsAtOnce` `CourseOrder` `LapTwoEarned` | The order of the course and the laps; emergencies are not held back by the dwell gate; stops end with their cause |
| `auto_silence` | `SilenceReleases` | A dead detector on one of the stamped topics does not hold the car |
| `auto_parking` | `StopsHaveCause` `ParkingStandsStill` `HillSteady` `PlaybackFromRest` `PlaybackOnce` | The parking sequence of lap 2 under e-stops, obstacles, interruptions and overrides, once and no more when the sign is reported again; a lane lost and found inside the dwell; no flapping on the hill in front of it |
| `safety_envelope` | `StopEnvelope` `CommandFollowed` | The speed envelope under jitter and changing limits; a lasting command is followed |
| `stack` | `UnledCarStands` `HandshakeHolds` | The three nodes, with a ramp of two periods: a car without a leader stands within `cmd_timeout`, the ramp and a period; auto_driver leaves the parking only when the movement is over |
| `lidar_driver` | `PortExclusive` `WholeAndFresh` `ScanningIsServed` `CleanEnd` `CallsReturn` `ScansComeBack` `ImplementsFeed` | Both threads with the cable pulled at any moment, up to shutdown; the driver implements `ScanFeed` |
| `nodes` | `SteadySceneReported` `TopicsCurrent` `VerdictEarned` `ManoeuvreBounded` `YieldHolds` `DodgeRunsOut` `CompleteEarned` `EntryStops` `ManoeuvreEnds` | Detectors: lasting scenes are reported, verdicts are earned, topics are current with two writers. Under any scans, a silent lidar and a late loop a stop and a dodge end in bounded time, a timed-out stop is taken up again, no dodge is cut short; both parking manoeuvres end with dead sensors, are reported complete only when they are, and stop at a wall on the way in |
| `servo_watchdog` | `WatchdogStopsRobot`, violated | see Disagreements |
| `stack_estop` | `EStopHaltsPlayback`, violated | see Disagreements |

`MCNodes` holds nodes that read no topic another of them writes, so a behaviour
of it runs one: obstruction_avoidance, parking_controller or one group of
detectors. The type invariants and the smaller facts
`TimerIffPlayback`, `PlaybackAdvances`, `MarksBehind`, `SlewBound`, `CommandNears`,
`DodgeKeepsSide`, `PhaseBounded` and `IdleStands` are proved for all values of the constants and have no run.

Bounds and why they are enough:

* `ServoController`: timeouts of one or two ticks keep the order of all events
  around them (before, at, after). One moving and one stopping command tell the
  properties apart. Recordings of at most two samples have a first, a last and
  an end; `servo_watchdog` has two samples, so that one is still to be played
  after the watchdog's stop. The frames press the buttons of one concern at a time plus a chord,
  because a frame that presses two buttons at once runs both handlers.
* `RecordingStore`: two names, one of them `default` and not the first, so that
  the preferred, the first and the migrated recording differ; takes of up to two
  samples tell a new take from an old one. Three names (three million states)
  were checked by hand and show nothing else.
* `AutoDriver`: each configuration lets the topics of its question speak (`Live`,
  `Lights`, ...) and keeps the others at their initial value, which is the value
  a node that never started leaves behind. `LapDist = 2` above `MinDist = 0`
  makes the lap test both fail and hold; distances of one metre steps are enough
  because the code only compares differences with thresholds of one unit.
  `AgeMax` lies above every duration it is compared with. In `auto_silence` all
  durations and distances are zero: fairness makes the run expensive and the
  release does not depend on them.
* `CmdSafety`: speeds go beyond both limits, the deadband is above and at one
  step of acceleration, loops run after one or two units.
* `Stack`: one queued message per topic (`InFlight`), one recording of one
  sample. A full command (3) lies above the limit, is clamped to 2 and ramps in
  steps of 1, so that a car that loses its leader at full speed is seen at 2, 1
  and 0, after a `CmdTimeout` of one period. The joystick drives or switches the
  mode.
* `Detectors`: the parameters and literals of the code themselves (3 frames on,
  5 or 3 off, counters capped at 10, a window of 5).
* `ObstructionAvoidance`: a reading below, at and above `min_safe_dist` and one
  beyond `detect_dist`; densities whose ratios lie inside and outside the
  hysteresis band, and an empty scene. The loop comes one to three periods after
  the last one, so that the clamp of `dt` bites; the timeout, the curve and its
  step keep the order of the declared parameters (`CurveEnd` 12 above
  `MaxTimeout` 9 and `StepMax` 2, in the code 127, 120 and 2 periods), so that the
  timeout ends every dodge. The `ASSUME` asks for a curve longer than one run
  of the loop and a timeout no shorter than the loop's pace.
* `ParkingController`: every timeout is reached and every distance too, in one
  and in several messages; the loop may be two periods late. The age of a phase
  saturates at `AgeCap`, beyond everything it is compared with.
* `LidarDriver`: two silent reads before a reconnection instead of more, two
  rounds of two grabs: the first, the last and the one after occur for each.

Fairness. `FairSpec` of `ServoController` assumes that time passes and that the
timers are served (`WF` of `Tick`, `HardwareUpdateLoop`, `JoyWatchdog`,
`PlaybackTimer`), that of `AutoDriver` that the 50 Hz loop runs, that of
`CmdSafety` and `ParkingController` that their loops run. rclpy's executor serves ready timers in turn, and
no callback of these nodes blocks. That of `LidarDriver` assumes that both
threads are scheduled (`WF` of `MainStep` and `ThreadStep`), that a turning
device delivers, again and again, a revolution's zero point and one without a
second of silence before the next (`SF` of `GotZero`, also with `loc.sync`), and
that a device asked for ever answers once (`SF` of `RestartOk`). Nothing is
assumed about messages, operators or cables.

### Disagreements between code and comments

Two runs state what a document says of the program, and TLC refutes it. The
findings in `PROJECT.json` quote the lines.

* `servo_watchdog`: a lost controller stops the robot (`servo_controller.py:9`).
  In the trace a playback is under way when the joystick falls silent; the
  watchdog stops the board but leaves `rp_state` at PLAYBACK, and the playback
  timer drives on with the next sample.
* `stack_estop`: an e-stop halts within one control cycle
  (`Guide/competition_validation_guide.md:154`). The e-stop reaches
  `/cmd_vel_auto` only, which servo_controller ignores while it plays.

Met while modelling, and visible in the definitions without a run of their own:

* `cmd_safety_controller.py:137`: the same line of the guide does not hold of the
  driven car either. The safety controller aims at zero and keeps its slew
  limit: 0.30 m/s take 0.375 s, some 19 cycles. `StopEnvelope` states what the
  code does do, the ramp.
* `auto_driver.py:362` and `:651`: a stale-data timeout prevents stuck states if
  a module crashes (`Guide/challenges_breakdown.md:79`). The loop times out four
  topics; the lidar and camera obstacle and the lost lane are stored without a
  time and hold the car for ever. `SilenceReleases` is limited to the stamped
  ones.
* `obstruction_avoidance.py:246`: a dodge is tracked "with continuous LiDAR
  clearance verification" (line 6). With the declared parameters the curve takes
  6.33 s (0.76 m at 0.12 m/s) and the timeout is 6.0 s; past the timeout the
  verdict of the lidar is not asked, so the dodge ends by the clock, beside the
  obstacle or not. `DodgeRunsOut` states how long a dodge does last.
* `ydlidar_ros2_driver/README.md:174` calls `auto_reconnect` "hot plug"; a
  stop_scan that falls between closing and reopening the port (`Retry`,
  `Connect`) leaves the driver disconnected, and start_scan refuses from then on,
  because only `initialize` connects (`YDlidarDriver.cpp:501` and `:1848`).
* `obstruction_avoidance.py:168`: a 15 % advantage is "required to flip
  direction" (line 49), but no direction is remembered between dodges, and the
  three branches of `Direction` reduce to `left <= right`.
* `parking_controller.py:258`: movement is to terminate "immediately" at a wall of
  the slot (line 66); PARALLEL_STRAIGHTEN drives forward without reading the
  front wall (`AtWall`).
* `parking_controller.py:309`: `_finish` stops the robot, and the loop then
  publishes the moving command of the phase that is over; the zero comes from
  IDLE one run later (`PhaseLoop`).
* `auto_driver.py:819`: LANE_RECOVERY stops the car, but it is not in
  `immediate_states`: within the dwell the last moving command is repeated.
* `auto_driver.py:748`: `_parking_done` is to prevent a re-trigger after the
  first playback; a playback that is interrupted before it ended is asked for
  again (`StandingBy`, `Parking`; `PlaybackOnce` allows it).
* `auto_driver.py:662` compares with the literal 5.0 where the parameter
  `dist_lap_complete` (line 156) names the lap distance.
* `auto_driver.py:832` says "on tunnel exit": any departure from the state TUNNEL
  arms the light, an e-stop inside the tunnel too (`ArmLight`).
* `signage_detector.py:346` says three consecutive frames; a sign that is
  decaying is reported again after a miss, a sighting and a miss
  (`VerdictEarned` states what does hold).
* `servo_controller.py:290` calls `active_parking_recording` the recording used
  for the parking sign; `'playback'` plays `record_buffer`, whatever was loaded,
  cycled to or recorded last.
* `servo_controller.py:289`: `set_active` during a recording loads the buffer
  into the running recording; the samples that follow are appended to it while
  its name is shown (the history `mixed` of `RecordingStore`).
* `servo_controller.py:1013`: a deleted `default` comes back at the next start
  while the legacy file exists, and a migration that failed half way leaves a
  `default.json` that keeps it from ever being tried again.
* `Workshop/06-autonomous-parking.md:65` still names
  `~/recorded_movement.json` as the file a save writes.

## What is proved

For every value of the constants that satisfies the `ASSUME` of the module
(sets of commands, timeouts, distances, thresholds, names of any size), TLAPS
checks:

* `ServoController_proofs`: type correctness, `JoyLossStops`,
  `LockedMeansStopped`, `AutoStreamGuard`, `ModeAnnounced`, `BoardFollows`,
  `TimerIffPlayback`, `PlaybackOwnsMotors` and `PlaybackAdvances`. None of the
  timed properties is inductive: that the
  joystick has been silent for too long says nothing of a watchdog that is still
  to run. `IInv` adds what ties ages to timers: a silence not yet reported is
  younger than the next watchdog (`SilenceInv`: age + phase is bounded), an old
  command stream or an old write is about to be seen by the hardware loop
  (`StreamInv`, `HeartInv`: the age may pass its limit only while the loop is
  due), a locked controller is at rest, and what is announced is the mode
  (`NodeInv`). Each method of the node is a function from node to node, and one
  lemma per method says which parts it keeps; the handler lemmas only compose
  them.
* `AutoDriver_proofs`: type correctness, `UrgentActsAtOnce`, `StopsHaveCause`,
  `CourseOrder`, `LapTwoEarned`, `MarksBehind`, `HillSteady`, `PlaybackOnce`,
  `ParkingStandsStill` and `PlaybackFromRest`. The invariant adds `Marked`, which says where the
  marks in the node come from: an obstruction edge or cleared distance means an
  obstruction was seen, and a car in ROUNDABOUT or TUNNEL has visited it; and
  `AskedOnce`: a playback asked for and not interrupted is one the node is
  waiting for or has latched as done.
* `CmdSafety_proofs`: type correctness (which bounds the output by the largest
  limit), `StopEnvelope`, `SlewBound`, `CommandNears`, and that no published
  speed lies inside the deadband, for any number of channels. The envelope is inductive with the
  type: a slew step towards zero shrinks the speed by at least the allowed step
  or reaches zero.
* `LidarDriver_proofs`: type correctness, `PortExclusive`, `WholeAndFresh`,
  `ScanningIsServed`, `CleanEnd`, and `FeedTheorem`, that the driver implements
  `ScanFeed`: its steps are mapped one by one to steps or stutters of the feed.
  The invariant says where a scan in the buffer comes from (`Assembled`: a
  revolution that is still in step is neither torn nor old), which places of the
  two threads may meet (`Threads`, `Deaths`), what the buffer may hold when
  there is no thread (`NoLeftOver`), and when the port is open (`Connected`,
  `Ended`).
* `Detectors_proofs`: type correctness, `SteadySceneReported`, `TopicsCurrent`
  and `VerdictEarned`, for every threshold and window. The counters are tied to
  the frames just seen alike (`GateInv`, `SignInv`, `LampInv`, `HintInv`,
  `LightInv`); for the median of the front arc, `FrontInv` says the last
  readings are in the window, and the lemmas on `Shown` count them with the
  cardinality facts of finite sets.
* `RecordingStore_proofs`: type correctness, `ShownIsTrue` and
  `RestartFindsChoice`, for any set of names and takes. `ShownIsTrue` needs one
  more fact to be inductive, that a running recording has no name or was mixed
  (`RecordingUnnamed`); a restart finds the choice because of `ChoiceStored`:
  what the history calls chosen is in the preference and is a whole file.
* `Manoeuvres_proofs`, for `ObstructionAvoidance`: type correctness, `ManoeuvreBounded`,
  `YieldHolds`, `DodgeKeepsSide` and `DodgeRunsOut`. The invariant ties the clock
  of a manoeuvre to the last run of the loop (`Bounded`), says that one
  auto_driver has not been told of has just begun (`Untold`), bounds the time
  the car was open by the scan or the manoeuvre that ends it (`Open`), and the
  progress along the curve by the time it has had (`Paced`), from which
  `DodgeRunsOut` follows.
* `Manoeuvres_proofs`, for `ParkingController`: type correctness, `PhaseBounded`, `CompleteEarned`,
  `EntryStops` and `IdleStands`, for all timeouts and distances. `Reached` says
  that the trail of a manoeuvre under way is its phases so far; extending it by
  the phase that is over gives the next such trail or the whole manoeuvre
  (`TrailGrows`, with the library's facts on sequences).

* `Stack_proofs`: the composition, from its parts. `Stack` instantiates the
  proof modules of the three nodes, so their lemmas can be cited with the values
  it gives their constants, which are shown to satisfy their assumptions
  (`Constants`). Every step of `Stack` is a step of each node's own module or
  none: `SafetyImplemented` and `ServoImplemented` say `Spec` implies the
  specification of the node, `DriverImplemented` the same for auto_driver up to
  its restarts. The three are proved in this order because each needs the one
  before: what `/cmd_vel_auto` carries is a command only because the loop that
  publishes it respects its limits, and what auto_driver hears has its type only
  because servo_controller's state has. So the nodes' invariants hold in the
  composition (`Base`), and with them the nodes' guarantees (`Inherited`), a
  crashing auto_driver included.

  The two properties of the composition have an invariant each, for every
  timeout, recording and length of the queues:

  - `UnledCarStands` says nothing of the periods before the last. `Unled` adds
    them: while auto_driver believes in manual mode the command in the safety
    node has been ageing since (`Aging`), and after the loop in which it is
    stale, or the one after an e-stop, the published speed, the target and the
    board are zero (`RestAfter`). It holds because a node that waits for a leader
    is driven by nothing but `/cmd_vel_auto` (`WaitingHolds`, one case per
    callback of servo_controller): a joystick frame in automatic mode either
    does not move the car or leads into manual mode, which is another reason.
  - `HandshakeHolds` needs what is on its way. `Handshake` says that a request
    not yet read was sent in this period, and that a movement under way is known
    to auto_driver in one of three ways: it cannot act, with no message on its
    way that would let it (`Unaware`, also after a crash); it has only just asked
    and the last thing it will hear is PLAYBACK (`JustAsked`); it has heard
    PLAYBACK and nothing in the queue denies it (`Informed`). Time passes only
    over empty queues, which turns the second into the third before the grace
    period can end. The first stays true because servo_controller never enters
    automatic mode while a movement is played (`NoAutoWhilePlaying`).

Of the liveness properties, what does not need fairness is proved. A playback
only goes forward, one sample with every firing of its timer, and not beyond the
longest recording (`PlaybackAdvances`), so `PlaybackEnds` follows from a timer
that fires. Every loop of the safety node arrives at its goal or comes nearer
(`CommandNears`), so `CommandFollowed` follows from a loop that runs; its premise
`CanStart` asks for an acceleration above zero, without which it would be false
for a deadband of zero. No phase of a parking and no obstruction manoeuvre
outlives its timeout by more than a run of its loop (`PhaseBounded`,
`ManoeuvreBounded`).

Only model-checked: the liveness properties themselves (`PlaybackEnds`,
`StopReachesBoard`, `SilenceReleases`, `CommandFollowed`, `CallsReturn`,
`ScansComeBack`, `ManoeuvreEnds`), because the installed provers do not treat
fairness.

## What is not modelled

* Image processing, neural network inference, steering and filters:
  real-number computations whose results enter the models as arbitrary inputs.
* The shape of the Bezier curve and the steering of a dodge or of a parking
  phase; `/parking_status` and the lap `parking_controller.py` listens to and
  never uses.
* Odometry, IMU and `heading_fusion.py`: numerical; the decisions read the
  distance only, which is arbitrary in `AutoDriver`.
* `health_monitor.py`, the dashboard, `loop_monitor.py`: display. What the
  dashboard may request is an arbitrary input of the actions it reaches.
* Run-time changes of parameters other than those `AutoDriver`, `CmdSafety` and
  `ServoController` name.
* Most C and C++ of the checkout is vendored and takes no part in what this car
  does: the camera driver with `json.hpp` and the OpenNI headers, `cJSON`, the
  drivers of other lidar families, Windows and network ports, and a second copy
  of the SDK. The part of the SDK the car runs is `LidarDriver`. The program's
  own logic is Python.

## Plan

Done: the core (`ServoController`, `AutoDriver`, `CmdSafety`), their composition
(`Stack`), the detectors' gates, the lidar driver with its abstract feed, the
recordings on disk, the obstruction and parking nodes, and the proofs above.
Left, in this order:

1. `ObstructionAvoidance` as a partner of `AutoDriver` in `Stack`, if the car's
   launch files start it again.
2. `HealthMonitor`: which topics are watched in which mode.
