----------------------- MODULE ServoController_proofs -----------------------
(* Machine-checked invariants of the servo controller, for every set of     *)
(* commands, recordings and frames and for every timeout.                   *)
EXTENDS ServoController, TLAPS

\* What every method of the node keeps true of the node alone.
NodeInv(n) ==
  /\ n \in Node
  /\ Len(n.buf) <= MaxSamples
  /\ n.told = ~n.manual
  /\ n.timer <=> n.rp = "PLAYBACK"
  /\ ReliableLink => n.link /\ n.hw \in {n.sent, Stop}

\* How a callback that is not the passing of time may change the ages.
Ages(n, m) ==
  /\ m.sendAge \in {n.sendAge, 0}
  /\ m.autoAge \in {n.autoAge, 0}
  /\ n.manual /\ ~m.manual => m.autoAge = 0

\* The car is at rest in manual mode, or a movement is being played.
AtRest(n) ==
  /\ n.manual
  /\ n.rp # "PLAYBACK" => n.target = Stop /\ (ReliableLink => n.hw = Stop)

\* A method that keeps the node well formed.
Keeps(n, m) == NodeInv(m) /\ Ages(n, m)

-----------------------------------------------------------------------------
(* One lemma per method.                                                   *)

\* A buffer taken from disk or kept is a sequence of commands within its bound.
LEMMA LoadedBuffer ==
  ASSUME NEW b \in Library \cup {<<>>}
  PROVE  b \in Seq(Cmd) /\ Len(b) <= MaxSamples
<1>1. <<>> \in Seq(Cmd) /\ Len(<<>>) <= MaxSamples
  BY ServoAssumption
<1>2. \A x \in Library : x \in Seq(Cmd) /\ Len(x) <= MaxSamples
  BY ServoAssumption
<1> QED BY <1>1, <1>2

\* stop_robot keeps the node's invariant.
LEMMA StopRobotKeeps ==
  ASSUME NEW n, NodeInv(n)
  PROVE  /\ Keeps(n, StopRobot(n))
         /\ StopRobot(n).rp = n.rp /\ StopRobot(n).manual = n.manual
         /\ StopRobot(n).buf = n.buf
         /\ StopRobot(n).target = Stop /\ (ReliableLink => StopRobot(n).hw = Stop)
BY ServoAssumption DEF Keeps, NodeInv, Ages, StopRobot, Written, Node

\* A write of the target keeps the node's invariant.
LEMMA SendTargetKeeps ==
  ASSUME NEW n, NodeInv(n)
  PROVE  /\ Keeps(n, SendTarget(n))
         /\ SendTarget(n).rp = n.rp /\ SendTarget(n).manual = n.manual
         /\ SendTarget(n).target = n.target
         /\ ReliableLink => SendTarget(n).hw = n.target
         /\ SendTarget(n).sendAge = 0 /\ SendTarget(n).autoAge = n.autoAge
         /\ SendTarget(n).buf = n.buf /\ SendTarget(n).timer = n.timer
<1> DEFINE m == SendTarget(n)
<1>1. m \in Node
  <2>1. n \in Node /\ n.target \in Cmd /\ n.hw \in Cmd
    BY DEF NodeInv, Node
  <2>2. 0 \in 0 .. Heartbeat + 3
    BY ServoAssumption
  <2>3. Written(n, n.target) \in Cmd
    BY <2>1 DEF Written
  <2> QED BY <2>1, <2>2, <2>3 DEF SendTarget, Node
<1>2. /\ m.rp = n.rp /\ m.manual = n.manual /\ m.target = n.target /\ m.buf = n.buf
      /\ m.sendAge = 0 /\ m.autoAge = n.autoAge /\ m.timer = n.timer
      /\ m.told = n.told /\ m.link = n.link /\ m.sent = n.target
      /\ m.hw = Written(n, n.target)
  BY DEF NodeInv, SendTarget, Node
<1>3. ReliableLink => m.hw = n.target
  BY <1>2 DEF NodeInv, Written
<1>4. NodeInv(m)
  BY <1>1, <1>2, <1>3 DEF NodeInv
<1>5. Ages(n, m)
  BY <1>2 DEF Ages
<1> QED BY <1>2, <1>3, <1>4, <1>5 DEF Keeps

\* apply_hardware keeps the node's invariant.
LEMMA ApplyHardwareKeeps ==
  ASSUME NEW n, NodeInv(n), NEW c \in Cmd
  PROVE  /\ Keeps(n, ApplyHardware(n, c))
         /\ ApplyHardware(n, c).rp = n.rp /\ ApplyHardware(n, c).manual = n.manual
         /\ ApplyHardware(n, c).buf = n.buf
         /\ ApplyHardware(n, c).timer = n.timer
         /\ ApplyHardware(n, c).target = c
<1> DEFINE m == [n EXCEPT !.target = c]
<1>1. /\ NodeInv(m) /\ m.rp = n.rp /\ m.manual = n.manual /\ m.buf = n.buf
      /\ m.timer = n.timer /\ m.sendAge = n.sendAge /\ m.autoAge = n.autoAge
      /\ m.target = c
  BY DEF NodeInv, Node
<1>2. Ages(n, m)
  BY <1>1 DEF Ages
<1>3. CASE m.target # m.sent
  <2>1. ApplyHardware(n, c) = SendTarget(m)
    BY <1>3 DEF ApplyHardware
  <2> QED BY <1>1, <2>1, SendTargetKeeps DEF Keeps, Ages
<1>4. CASE m.target = m.sent
  <2>1. ApplyHardware(n, c) = m
    BY <1>4 DEF ApplyHardware
  <2> QED BY <1>1, <1>2, <2>1 DEF Keeps
<1> QED BY <1>3, <1>4

\* _stop_playback keeps the node's invariant.
LEMMA StopPlaybackKeeps ==
  ASSUME NEW n, NodeInv(n)
  PROVE  /\ Keeps(n, StopPlayback(n))
         /\ StopPlayback(n).rp = "IDLE" /\ StopPlayback(n).manual = n.manual
         /\ StopPlayback(n).target = Stop
         /\ ReliableLink => StopPlayback(n).hw = Stop
BY ServoAssumption DEF Keeps, NodeInv, Ages, StopPlayback, StopRobot, Written, Node, RpState
\* A change of mode together with its announcement keeps the node's invariant.
LEMMA SetModeKeeps ==
  ASSUME NEW n, NodeInv(n)
  PROVE  /\ Keeps(n, SetMode(n, TRUE))
         /\ SetMode(n, TRUE).manual /\ SetMode(n, TRUE).rp = n.rp
BY DEF Keeps, NodeInv, Ages, SetMode, Node

\* Starting and stopping a recording keep the node's invariant.
LEMMA RecordingKeeps ==
  ASSUME NEW n, NodeInv(n)
  PROVE  /\ n.rp = "IDLE" => Keeps(n, StartRecording(n))
         /\ n.rp = "RECORDING" => Keeps(n, StopRecording(n))
         /\ StartRecording(n).rp = "RECORDING" /\ StopRecording(n).rp = "IDLE"
         /\ StopRecording(n).manual = n.manual
         /\ n.rp = "IDLE" /\ AtRest(n) => AtRest(StartRecording(n))
         /\ n.rp = "RECORDING" /\ AtRest(n) => AtRest(StopRecording(n))
<1> USE DEF NodeInv, Node
<1>1. /\ StartRecording(n) \in Node /\ StopRecording(n) \in Node
      /\ Len(StartRecording(n).buf) <= MaxSamples
      /\ Len(StopRecording(n).buf) <= MaxSamples
  <2>1. <<>> \in Seq(Cmd) /\ Len(<<>>) <= MaxSamples
    BY ServoAssumption
  <2>2. "RECORDING" \in RpState /\ "IDLE" \in RpState
    BY DEF RpState
  <2> QED BY <2>1, <2>2 DEF StartRecording, StopRecording
<1>2. /\ StartRecording(n).rp = "RECORDING" /\ StopRecording(n).rp = "IDLE"
      /\ \A m \in {StartRecording(n), StopRecording(n)} :
           /\ m.timer = n.timer /\ m.manual = n.manual /\ m.told = n.told
           /\ m.link = n.link /\ m.hw = n.hw /\ m.sent = n.sent
           /\ m.target = n.target
           /\ m.sendAge = n.sendAge /\ m.autoAge = n.autoAge
  BY DEF StartRecording, StopRecording
<1> QED BY <1>1, <1>2 DEF Keeps, Ages, AtRest

\* Replacing the buffer keeps the node's invariant.
LEMMA LoadKeeps ==
  ASSUME NEW n, NodeInv(n), NEW b \in Seq(Cmd), Len(b) <= MaxSamples
  PROVE  /\ Keeps(n, [n EXCEPT !.buf = b])
         /\ AtRest(n) => AtRest([n EXCEPT !.buf = b])
         /\ [n EXCEPT !.buf = b].rp = n.rp
BY DEF Keeps, NodeInv, Ages, AtRest, Node

\* _playback_step keeps the node's invariant.
LEMMA PlaybackStepKeeps ==
  ASSUME NEW n, NodeInv(n)
  PROVE  /\ Keeps(n, PlaybackStep(n))
         /\ AtRest(n) => AtRest(PlaybackStep(n))
<1>1. CASE n.rp # "PLAYBACK"
  <2>1. PlaybackStep(n) = n
    BY <1>1 DEF PlaybackStep
  <2>2. Ages(n, n)
    BY DEF Ages
  <2> QED BY <2>1, <2>2 DEF Keeps
<1>2. CASE n.rp = "PLAYBACK" /\ n.idx >= Len(n.buf)
  <2>1. PlaybackStep(n) = StopPlayback(n)
    BY <1>2 DEF PlaybackStep
  <2> QED BY <2>1, StopPlaybackKeeps DEF AtRest
<1>3. CASE n.rp = "PLAYBACK" /\ ~(n.idx >= Len(n.buf))
  <2> DEFINE c == n.buf[n.idx + 1]
             a == ApplyHardware(n, c)
             m == [a EXCEPT !.idx = n.idx + 1]
  <2>1. PlaybackStep(n) = m
    BY <1>3 DEF PlaybackStep
  <2>2. /\ n.idx \in Nat /\ n.buf \in Seq(Cmd)
    BY DEF NodeInv, Node
  <2>3. n.idx + 1 \in 1 .. Len(n.buf)
    BY <2>2, <1>3
  <2>4. c \in Cmd
    BY <2>2, <2>3
  <2>5. /\ Keeps(n, a) /\ a.rp = n.rp /\ a.manual = n.manual
    BY <2>4, ApplyHardwareKeeps
  <2> HIDE DEF a
  <2>6. a \in Node /\ n.idx + 1 \in Nat
    BY <2>2, <2>5 DEF Keeps, NodeInv
  <2>7. m \in Node
    BY <2>6 DEF Node
  <2>8. /\ m.rp = a.rp /\ m.manual = a.manual /\ m.buf = a.buf /\ m.told = a.told
        /\ m.timer = a.timer /\ m.link = a.link /\ m.hw = a.hw /\ m.sent = a.sent
        /\ m.sendAge = a.sendAge /\ m.autoAge = a.autoAge
    BY <2>6 DEF Node
  <2>9. Keeps(n, m)
    BY <2>5, <2>7, <2>8 DEF Keeps, NodeInv, Ages
  <2>10. AtRest(n) => AtRest(m)
    BY <1>3, <2>5, <2>8 DEF AtRest
  <2> QED BY <2>1, <2>9, <2>10
<1> QED BY <1>1, <1>2, <1>3

\* _playback_step leaves the mode and the stream's age alone.
LEMMA PlaybackStepMode ==
  ASSUME NEW n, NodeInv(n)
  PROVE  PlaybackStep(n).manual = n.manual
<1>1. StopPlayback(n).manual = n.manual
  BY StopPlaybackKeeps
<1>2. \A c : [ApplyHardware(n, c) EXCEPT !.idx = n.idx + 1].manual = n.manual
  BY DEF NodeInv, Node, ApplyHardware, SendTarget
<1> QED BY <1>1, <1>2 DEF PlaybackStep

\* _start_playback keeps the node's invariant.
LEMMA StartPlaybackKeeps ==
  ASSUME NEW n, NodeInv(n)
  PROVE  /\ Keeps(n, StartPlayback(n)) /\ StartPlayback(n).manual = n.manual
         /\ AtRest(n) => AtRest(StartPlayback(n))
<1>1. CASE n.buf = <<>>
  <2>1. StartPlayback(n) = n
    BY <1>1 DEF StartPlayback
  <2> QED BY <2>1 DEF Keeps, Ages
<1>2. CASE n.buf # <<>>
  <2> DEFINE m == [n EXCEPT !.rp = "PLAYBACK", !.idx = 0, !.timer = TRUE]
  <2>1. StartPlayback(n) = PlaybackStep(m)
    BY <1>2 DEF StartPlayback
  <2>2. NodeInv(m)
    BY DEF NodeInv, Node, RpState
  <2>3. /\ m.manual = n.manual /\ m.sendAge = n.sendAge /\ m.autoAge = n.autoAge
        /\ m.rp = "PLAYBACK"
    BY DEF NodeInv, Node
  <2>4. AtRest(n) => AtRest(m)
    BY <2>3 DEF AtRest
  <2> HIDE DEF m
  <2>5. /\ Keeps(m, PlaybackStep(m)) /\ (AtRest(m) => AtRest(PlaybackStep(m)))
        /\ PlaybackStep(m).manual = m.manual
    BY <2>2, PlaybackStepKeeps, PlaybackStepMode
  <2> QED BY <2>1, <2>3, <2>4, <2>5 DEF Keeps, Ages
<1> QED BY <1>1, <1>2
-----------------------------------------------------------------------------
(* A frame of the joystick.                                                *)

\* Two steps that keep the invariant keep it together.
LEMMA KeepsTrans ==
  ASSUME NEW n, NEW m, NEW k, Keeps(n, m), Keeps(m, k), n.manual => m.manual
  PROVE  Keeps(n, k)
BY DEF Keeps, Ages

\* Doing nothing keeps the invariant.
LEMMA KeepsSelf == ASSUME NEW n, NodeInv(n) PROVE Keeps(n, n)
BY DEF Keeps, Ages

\* Button A keeps the node's invariant.
LEMMA RecordButtonKeeps ==
  ASSUME NEW n, NodeInv(n), NEW r
  PROVE  Keeps(n, RecordButton(n, r)) /\ RecordButton(n, r).manual = n.manual
<1>1. /\ StartRecording(n).manual = n.manual /\ StopRecording(n).manual = n.manual
  BY DEF StartRecording, StopRecording, NodeInv, Node
<1> QED BY <1>1, RecordingKeeps, KeepsSelf DEF RecordButton

\* Button X keeps the node's invariant.
LEMMA PlayButtonKeeps ==
  ASSUME NEW n, NodeInv(n), NEW r
  PROVE  Keeps(n, PlayButton(n, r)) /\ PlayButton(n, r).manual = n.manual
BY StartPlaybackKeeps, StopPlaybackKeeps, KeepsSelf DEF PlayButton

\* The D-pad keeps the node's invariant.
LEMMA CyclePadKeeps ==
  ASSUME NEW n, NodeInv(n), NEW r, NEW b \in Seq(Cmd), Len(b) <= MaxSamples
  PROVE  Keeps(n, CyclePad(n, r, b)) /\ CyclePad(n, r, b).manual = n.manual
<1>1. [n EXCEPT !.buf = b].manual = n.manual
  BY DEF NodeInv, Node
<1> QED BY <1>1, LoadKeeps, KeepsSelf DEF CyclePad

\* Start / Y keeps the node's invariant.
LEMMA ModeButtonKeeps ==
  ASSUME NEW n, NodeInv(n), NEW r
  PROVE  Keeps(n, ModeButton(n, r))
<1> DEFINE idle == IF n.rp = "RECORDING" THEN StopRecording(n)
                   ELSE IF n.rp = "PLAYBACK" THEN StopPlayback(n) ELSE n
           m == SetMode(idle, ~n.manual)
           a == [m EXCEPT !.autoAge = 0]
<1>1. CASE r \cap {"START", "Y"} = {}
  BY <1>1, KeepsSelf DEF ModeButton
<1>2. CASE r \cap {"START", "Y"} # {}
  <2>1. Keeps(n, idle) /\ idle.manual = n.manual
    <3>1. CASE n.rp = "RECORDING"
      BY <3>1, RecordingKeeps
    <3>2. CASE n.rp = "PLAYBACK"
      BY <3>2, StopPlaybackKeeps
    <3>3. CASE n.rp # "RECORDING" /\ n.rp # "PLAYBACK"
      BY <3>3, KeepsSelf
    <3> QED BY <3>1, <3>2, <3>3
  <2>2. ModeButton(n, r) = IF m.manual THEN StopRobot(m) ELSE a
    BY <1>2 DEF ModeButton
  <2> HIDE DEF idle
  <2>3. /\ NodeInv(m) /\ m.manual = ~n.manual
        /\ m.sendAge = idle.sendAge /\ m.autoAge = idle.autoAge
    BY <2>1 DEF Keeps, NodeInv, Node, SetMode
  <2> HIDE DEF m
  <2>4. CASE n.manual
    <3>1. /\ NodeInv(a) /\ a.autoAge = 0 /\ a.sendAge = m.sendAge
      <4>1. 0 \in 0 .. AutoTimeout + 2
        BY ServoAssumption
      <4> QED BY <2>3, <4>1 DEF NodeInv, Node
    <3>2. Ages(n, a)
      BY <3>1, <2>1, <2>3 DEF Keeps, Ages
    <3> QED BY <2>2, <2>3, <2>4, <3>1, <3>2 DEF Keeps
  <2>5. CASE ~n.manual
    <3>1. Keeps(m, StopRobot(m)) /\ m.manual
      BY <2>3, <2>5, StopRobotKeeps
    <3>2. Ages(n, StopRobot(m))
      BY <2>1, <2>3, <2>5, <3>1 DEF Keeps, Ages
    <3> QED BY <2>2, <3>1, <3>2 DEF Keeps
  <2> QED BY <2>4, <2>5
<1> QED BY <1>1, <1>2

\* The whole of an accepted joystick frame keeps the node's invariant.
LEMMA OperateKeeps ==
  ASSUME NEW n, NodeInv(n), NEW r, NEW c \in Cmd, NEW b \in Seq(Cmd),
         Len(b) <= MaxSamples
  PROVE  Keeps(n, Operate(n, r, c, b))
<1> DEFINE n1 == RecordButton(n, r)
           n2 == PlayButton(n1, r)
           n3 == CyclePad(n2, r, b)
           n4 == ModeButton(n3, r)
           n5 == ManualDrive(n4, c)
<1>1. Keeps(n, n1) /\ n1.manual = n.manual
  BY RecordButtonKeeps
<1> HIDE DEF n1
<1>2. Keeps(n1, n2) /\ n2.manual = n1.manual
  BY <1>1, PlayButtonKeeps DEF Keeps
<1> HIDE DEF n2
<1>3. Keeps(n2, n3) /\ n3.manual = n2.manual
  BY <1>2, CyclePadKeeps DEF Keeps
<1> HIDE DEF n3
<1>4. Keeps(n3, n4)
  BY <1>3, ModeButtonKeeps DEF Keeps
<1> HIDE DEF n4
<1>5. Keeps(n4, n5) /\ n5.manual = n4.manual
  BY <1>4, ApplyHardwareKeeps, KeepsSelf DEF Keeps, ManualDrive
<1> HIDE DEF n5
<1>6. NodeInv(n5) /\ Ages(n, n5)
  BY <1>1, <1>2, <1>3, <1>4, <1>5 DEF Keeps, Ages
<1> QED BY <1>6 DEF Operate, Keeps, n1, n2, n3, n4, n5
-----------------------------------------------------------------------------
(* The inductive invariant.                                                *)

\* The hardware loop runs once per Tick, so it meets an over-aged stream of
\* commands, or an over-aged board, one Tick after the age was exceeded.
StreamInv(n, due) ==
  ~n.manual => \/ n.autoAge <= AutoTimeout
               \/ n.autoAge = AutoTimeout + 1 /\ due

HeartInv(n, due) ==
  \/ n.sendAge <= Heartbeat
  \/ n.sendAge = Heartbeat + 1 /\ (due \/ n.manual \/ n.autoAge = 0)
  \/ n.sendAge = Heartbeat + 2 /\ due /\ (n.manual \/ n.autoAge <= 1)

\* A silent joystick is noticed before the watchdog has been round once more.
SilenceInv ==
  joy.alive /\ joy.age > JoyTimeout /\ ~joy.lost =>
    joy.age + clock.phase <= JoyTimeout + WatchdogPeriod

IInv ==
  /\ TypeOK
  /\ NodeInv(node)
  /\ joy.lost => joy.alive /\ ~joy.unlocked
  /\ ~joy.unlocked => AtRest(node)
  /\ SilenceInv
  /\ StreamInv(node, clock.hwDue)
  /\ HeartInv(node, clock.hwDue)

\* A step that lets no age grow keeps the bounds on the ages.
LEMMA KeepsTime ==
  ASSUME NEW n, NEW m, NodeInv(n), Keeps(n, m), NEW due \in BOOLEAN,
         StreamInv(n, due), HeartInv(n, due)
  PROVE  StreamInv(m, due) /\ HeartInv(m, due)
<1>1. /\ n.sendAge \in Int /\ n.autoAge \in Int
      /\ m.sendAge \in Int /\ m.autoAge \in Int
      /\ n.manual \in BOOLEAN /\ m.manual \in BOOLEAN
  BY ServoAssumption DEF Keeps, NodeInv, Node
<1> QED BY <1>1, ServoAssumption DEF Keeps, Ages, StreamInv, HeartInv

\* A callback that changes the node by one of the methods and leaves the
\* joystick and the timers alone.
LEMMA NodeStep ==
  ASSUME IInv, Keeps(node, node'), UNCHANGED <<joy, menu, clock>>,
         ~joy.unlocked => AtRest(node')
  PROVE  IInv'
<1>1. NodeInv(node)' /\ AtRest(node)' = AtRest(node')
  BY DEF Keeps, NodeInv, AtRest
<1>2. clock.hwDue \in BOOLEAN
  BY DEF IInv, TypeOK, Clock
<1>3. (StreamInv(node, clock.hwDue) /\ HeartInv(node, clock.hwDue))'
  BY <1>2, KeepsTime DEF IInv, StreamInv, HeartInv
<1>4. TypeOK'
  BY <1>1 DEF IInv, TypeOK, NodeInv
<1>5. SilenceInv'
  BY DEF IInv, SilenceInv
<1> QED BY <1>1, <1>3, <1>4, <1>5 DEF IInv

\* A frame of the joystick resets its age.
LEMMA HeardJoy ==
  ASSUME IInv
  PROVE  /\ Heard \in Joy /\ Heard.alive /\ ~Heard.lost /\ Heard.age = 0
         /\ Heard.unlocked = joy.unlocked
<1>1. 0 \in 0 .. JoyAgeMax /\ joy \in Joy
  BY ServoAssumption DEF JoyAgeMax, IInv, TypeOK
<1> QED BY <1>1 DEF Joy, Heard

\* A frame of the joystick: the new record is Heard with other fields, and
\* the node is changed by one of the methods.
LEMMA JoyStep ==
  ASSUME IInv, Keeps(node, node'), UNCHANGED clock, menu' \in Menu,
         joy' \in Joy, joy'.alive, ~joy'.lost, joy'.age = 0,
         ~joy'.unlocked => AtRest(node')
  PROVE  IInv'
<1>1. NodeInv(node)' /\ AtRest(node)' = AtRest(node')
  BY DEF Keeps, NodeInv, AtRest
<1>2. clock.hwDue \in BOOLEAN
  BY DEF IInv, TypeOK, Clock
<1>3. (StreamInv(node, clock.hwDue) /\ HeartInv(node, clock.hwDue))'
  BY <1>2, KeepsTime DEF IInv, StreamInv, HeartInv
<1>4. TypeOK'
  BY <1>1 DEF IInv, TypeOK, NodeInv
<1>5. SilenceInv'
  BY ServoAssumption DEF SilenceInv
<1> QED BY <1>1, <1>3, <1>4, <1>5 DEF IInv
-----------------------------------------------------------------------------
(* The initial states and the actions.                                     *)

\* The node starts in the invariant.
LEMMA InitInv == Init => IInv
<1> SUFFICES ASSUME Init PROVE IInv
  OBVIOUS
<1>1. /\ 0 \in 0 .. JoyAgeMax /\ 0 \in 0 .. AutoTimeout + 2
      /\ Heartbeat + 1 \in 0 .. Heartbeat + 3
      /\ WatchdogPeriod \in 0 .. WatchdogPeriod
      /\ 0 \in 0 .. NumChallenges - 1 /\ 0 \in 0 .. NumSpeeds - 1
  BY ServoAssumption DEF JoyAgeMax
<1>2. PICK b \in Library \cup {<<>>},
           l \in (IF ReliableLink THEN {TRUE} ELSE BOOLEAN) :
       node = [ rp |-> "IDLE", buf |-> b, idx |-> 0, timer |-> FALSE,
                manual |-> TRUE, told |-> FALSE, target |-> Stop,
                sent |-> None, sendAge |-> Heartbeat + 1, autoAge |-> 0,
                link |-> l, hw |-> Stop ]
  BY DEF Init
<1>3. b \in Seq(Cmd) /\ Len(b) <= MaxSamples
  BY LoadedBuffer
<1>4. NodeInv(node)
  <2>1. node \in Node
    BY <1>1, <1>2, <1>3, ServoAssumption DEF Node, RpState
  <2> QED BY <2>1, <1>2, <1>3 DEF NodeInv
<1>5. joy \in Joy /\ menu \in Menu /\ clock \in Clock
  BY <1>1 DEF Init, Joy, Menu, Clock
<1>6. AtRest(node)
  BY <1>2 DEF AtRest
<1>7. StreamInv(node, clock.hwDue) /\ HeartInv(node, clock.hwDue)
  BY <1>2, ServoAssumption DEF StreamInv, HeartInv
<1>8. ~joy.alive /\ ~joy.lost
  BY DEF Init
<1> QED BY <1>4, <1>5, <1>6, <1>7, <1>8 DEF IInv, TypeOK, NodeInv, SilenceInv

\* Every outcome of joy_callback keeps the invariant.
LEMMA JoyCallbackInv == ASSUME IInv, JoyCallback PROVE IInv'
<1>1. PICK f \in Frames :
        JoyIgnored(f) \/ JoyUnlock(f) \/ JoyNotNeutral(f) \/ JoyOperate(f)
  BY DEF JoyCallback
<1>2. f.pressed \in SUBSET Control /\ f.stick \in Cmd
  BY ServoAssumption
<1>3. NodeInv(node) /\ menu \in Menu /\ joy \in Joy
  BY DEF IInv, TypeOK
<1>4. CASE JoyIgnored(f)
  <2>1. Keeps(node, node')
    BY <1>3, <1>4, KeepsSelf DEF JoyIgnored
  <2>2. AtRest(node')
    BY <1>4 DEF JoyIgnored, IInv
  <2> QED BY <1>3, <1>4, <2>1, <2>2, HeardJoy, JoyStep DEF JoyIgnored
<1>5. CASE JoyUnlock(f)
  <2>1. Keeps(node, node')
    BY <1>3, <1>5, StopRobotKeeps DEF JoyUnlock
  <2>2. /\ joy' \in Joy /\ joy'.alive /\ ~joy'.lost /\ joy'.age = 0
        /\ joy'.unlocked
    BY <1>2, <1>3, <1>5, HeardJoy DEF JoyUnlock, Joy
  <2> QED BY <1>3, <1>5, <2>1, <2>2, JoyStep DEF JoyUnlock
<1>6. CASE JoyNotNeutral(f)
  <2>1. Keeps(node, node')
    BY <1>3, <1>6, StopRobotKeeps DEF JoyNotNeutral
  <2>2. /\ joy' \in Joy /\ joy'.alive /\ ~joy'.lost /\ joy'.age = 0
        /\ joy'.unlocked
    BY <1>2, <1>6, HeardJoy DEF JoyNotNeutral, Joy
  <2> QED BY <1>3, <1>6, <2>1, <2>2, JoyStep DEF JoyNotNeutral
<1>7. CASE JoyOperate(f)
  <2>1. Keeps(node, node')
    <3>1. PICK b \in Library \cup {node.buf} :
            node' = Operate(node, f.pressed \ joy.prev, f.stick, b)
      BY <1>7 DEF JoyOperate
    <3>2. b \in Seq(Cmd) /\ Len(b) <= MaxSamples
      BY <1>3, ServoAssumption DEF NodeInv, Node
    <3> QED BY <1>2, <1>3, <3>1, <3>2, OperateKeeps
  <2>2. /\ joy' \in Joy /\ joy'.alive /\ ~joy'.lost /\ joy'.age = 0
        /\ joy'.unlocked
    BY <1>2, <1>7, HeardJoy DEF JoyOperate, Joy
  <2>3. menu' \in Menu
    <3> DEFINE r == f.pressed \ joy.prev
    <3>1. menu' = MenuButtons(menu, r)
      BY <1>7 DEF JoyOperate
    <3>2. \A k \in Int : k % NumChallenges \in 0 .. NumChallenges - 1
      BY ServoAssumption
    <3>3. /\ menu.challenge \in Int /\ menu.speed \in 0 .. NumSpeeds - 1
      BY <1>3 DEF Menu
    <3>4. menu'.challenge \in 0 .. NumChallenges - 1
      BY <3>1, <3>2, <3>3 DEF MenuButtons
    <3>5. menu'.speed \in 0 .. NumSpeeds - 1
      BY <3>1, <3>3, ServoAssumption DEF MenuButtons
    <3>6. menu' = [challenge |-> menu'.challenge, speed |-> menu'.speed]
      BY <3>1 DEF MenuButtons
    <3> QED BY <3>4, <3>5, <3>6 DEF Menu
  <2> QED BY <1>7, <2>1, <2>2, <2>3, JoyStep DEF JoyOperate
<1> QED BY <1>1, <1>4, <1>5, <1>6, <1>7

\* cmd_vel_auto_callback keeps the invariant.
LEMMA CmdVelAutoInv == ASSUME IInv, NEW c \in Cmd, CmdVelAuto(c) PROVE IInv'
<1> DEFINE n == [node EXCEPT !.autoAge = 0]
<1>1. NodeInv(node) /\ 0 \in 0 .. AutoTimeout + 2
  BY ServoAssumption DEF IInv
<1>2. /\ NodeInv(n) /\ n.autoAge = 0 /\ n.sendAge = node.sendAge
      /\ n.manual = node.manual /\ n.rp = node.rp
      /\ n.target = node.target /\ n.hw = node.hw
  BY <1>1 DEF NodeInv, Node
<1>3. Keeps(node, n)
  BY <1>2 DEF Keeps, Ages
<1>4. node' = IF ~n.manual /\ n.rp # "PLAYBACK" THEN ApplyHardware(n, c) ELSE n
  BY DEF CmdVelAuto
<1>5. AtRest(node) => AtRest(node')
  BY <1>2, <1>4 DEF AtRest
<1> HIDE DEF n
<1>6. Keeps(n, ApplyHardware(n, c))
  BY <1>2, ApplyHardwareKeeps
<1>7. Keeps(node, node')
  BY <1>2, <1>3, <1>4, <1>6, KeepsTrans
<1> QED BY <1>5, <1>7, NodeStep DEF CmdVelAuto, IInv

\* Every record / playback command keeps the invariant.
LEMMA RecordPlaybackCmdInv ==
  ASSUME IInv, RecordCmd \/ StopCmd \/ PlaybackCmd \/ LoadOrDeleteCmd \/ SetActiveCmd
  PROVE  IInv'
<1>1. NodeInv(node) /\ node.rp \in RpState
  BY DEF IInv, NodeInv, Node
<1>2. CASE RecordCmd
  BY <1>1, <1>2, RecordingKeeps, NodeStep DEF RecordCmd, IInv
<1>3. CASE StopCmd
  <2>1. CASE node.rp = "RECORDING"
    BY <1>1, <1>3, <2>1, RecordingKeeps, NodeStep DEF StopCmd, IInv
  <2>2. CASE node.rp # "RECORDING"
    <3>1. AtRest(node) => AtRest(StopPlayback(node))
      BY <1>1, StopPlaybackKeeps DEF AtRest
    <3> QED BY <1>1, <1>3, <2>2, <3>1, StopPlaybackKeeps, NodeStep DEF StopCmd, IInv
  <2> QED BY <2>1, <2>2
<1>4. CASE PlaybackCmd
  BY <1>1, <1>4, StartPlaybackKeeps, NodeStep DEF PlaybackCmd, IInv
<1>5. CASE LoadOrDeleteCmd \/ SetActiveCmd
  <2>1. PICK b \in Library \cup {<<>>} : node' = [node EXCEPT !.buf = b]
    BY <1>5 DEF LoadOrDeleteCmd, SetActiveCmd
  <2>2. b \in Seq(Cmd) /\ Len(b) <= MaxSamples
    BY LoadedBuffer
  <2> QED BY <1>1, <1>5, <2>1, <2>2, LoadKeeps, NodeStep
          DEF LoadOrDeleteCmd, SetActiveCmd, IInv
<1> QED BY <1>2, <1>3, <1>4, <1>5

\* The playback timer keeps the invariant.
LEMMA PlaybackTimerInv == ASSUME IInv, PlaybackTimer PROVE IInv'
BY PlaybackStepKeeps, NodeStep DEF PlaybackTimer, IInv

\* Sampling a recording keeps the invariant.
LEMMA RecordSampleInv == ASSUME IInv, RecordSample PROVE IInv'
<1> DEFINE b == Append(node.buf, node.target)
<1>1. NodeInv(node) /\ node.buf \in Seq(Cmd) /\ node.target \in Cmd
  BY DEF IInv, NodeInv, Node
<1>2. b \in Seq(Cmd) /\ Len(b) <= MaxSamples
  BY <1>1, ServoAssumption DEF RecordSample
<1> QED BY <1>1, <1>2, LoadKeeps, NodeStep DEF RecordSample, IInv

\* The parameter unlock_requires_neutral may change at any time.
LEMMA SetRequiresNeutralInv ==
  ASSUME IInv, NEW v \in BOOLEAN, SetRequiresNeutral(v) PROVE IInv'
<1>1. /\ joy' \in Joy /\ joy'.alive = joy.alive /\ joy'.lost = joy.lost
      /\ joy'.unlocked = joy.unlocked /\ joy'.age = joy.age
  BY DEF SetRequiresNeutral, IInv, TypeOK, Joy
<1>2. UNCHANGED <<node, menu, clock>>
  BY DEF SetRequiresNeutral
<1> QED BY <1>1, <1>2 DEF IInv, TypeOK, SilenceInv
\* The joystick watchdog keeps the invariant.
LEMMA JoyWatchdogInv == ASSUME IInv, JoyWatchdog PROVE IInv'
<1>1. /\ NodeInv(node) /\ joy \in Joy /\ menu \in Menu /\ clock \in Clock
  BY DEF IInv, TypeOK
<1>2. /\ clock' \in Clock /\ clock'.hwDue = clock.hwDue /\ clock.hwDue \in BOOLEAN
  BY <1>1, ServoAssumption DEF JoyWatchdog, Clock
<1>3. menu' = menu
  BY DEF JoyWatchdog
<1>4. CASE joy.alive /\ joy.age > JoyTimeout
  <2> DEFINE m == IF ~joy.lost /\ ~node.manual THEN SetMode(node, TRUE) ELSE node
  <2>1. Keeps(node, m) /\ m.manual
    <3>1. joy.lost => node.manual
      BY DEF IInv, AtRest
    <3>2. node.manual \/ ~node.manual
      OBVIOUS
    <3> QED BY <1>1, <3>1, <3>2, SetModeKeeps, KeepsSelf
  <2>2. node' = StopRobot(m)
    BY <1>4 DEF JoyWatchdog
  <2> HIDE DEF m
  <2>3. Keeps(m, node') /\ AtRest(node')
    BY <2>1, <2>2, StopRobotKeeps DEF Keeps, AtRest
  <2>4. Keeps(node, node')
    BY <2>1, <2>3, KeepsTrans
  <2>5. NodeInv(node)' /\ AtRest(node)'
    BY <2>3 DEF Keeps, NodeInv, AtRest
  <2>6. (StreamInv(node, clock.hwDue) /\ HeartInv(node, clock.hwDue))'
    BY <1>1, <1>2, <2>4, KeepsTime DEF IInv, StreamInv, HeartInv
  <2>7. joy' \in Joy /\ joy'.alive /\ joy'.lost /\ ~joy'.unlocked
    <3>1. joy' = [joy EXCEPT !.lost = TRUE,
                             !.unlocked = IF joy.lost THEN joy.unlocked ELSE FALSE]
      BY <1>4 DEF JoyWatchdog
    <3>2. joy.lost => ~joy.unlocked
      BY DEF IInv
    <3>3. joy'.alive = joy.alive /\ joy'.lost /\ ~joy'.unlocked
      BY <1>1, <3>1, <3>2 DEF Joy
    <3>4. joy' \in Joy
      BY <1>1, <3>1 DEF Joy
    <3> QED BY <1>4, <3>3, <3>4
  <2>8. SilenceInv'
    BY <2>7 DEF SilenceInv
  <2> QED BY <1>1, <1>2, <1>3, <2>5, <2>6, <2>7, <2>8 DEF IInv, TypeOK, NodeInv
<1>5. CASE ~(joy.alive /\ joy.age > JoyTimeout)
  <2>1. joy' = joy /\ node' = node
    BY <1>5 DEF JoyWatchdog
  <2>2. SilenceInv'
    BY <1>5, <2>1 DEF SilenceInv
  <2> QED BY <1>2, <1>3, <2>1, <2>2 DEF IInv, TypeOK
<1> QED BY <1>4, <1>5

\* The hardware loop keeps the invariant.
LEMMA HardwareUpdateLoopInv == ASSUME IInv, HardwareUpdateLoop PROVE IInv'
<1>1. /\ NodeInv(node) /\ clock \in Clock
  BY DEF IInv, TypeOK
<1>2. /\ node.autoAge \in Int /\ node.sendAge \in Int
      /\ node.manual \in BOOLEAN /\ clock.hwDue
  BY <1>1 DEF NodeInv, Node, HardwareUpdateLoop
<1>3. clock' \in Clock /\ ~clock'.hwDue /\ clock'.phase = clock.phase
  BY <1>1 DEF HardwareUpdateLoop, Clock
<1>4. UNCHANGED <<joy, menu>>
  BY DEF HardwareUpdateLoop
<1>5. SilenceInv'
  BY <1>3, <1>4 DEF IInv, SilenceInv
<1>6. SUFFICES /\ NodeInv(node') /\ (AtRest(node) => AtRest(node'))
               /\ StreamInv(node', FALSE) /\ HeartInv(node', FALSE)
  BY <1>3, <1>4, <1>5 DEF IInv, TypeOK, NodeInv, AtRest, StreamInv, HeartInv
<1>7. CASE ~node.manual /\ node.autoAge > AutoTimeout
  <2>1. node' = SetMode(StopRobot(node), TRUE)
    BY <1>7 DEF HardwareUpdateLoop
  <2>2. Keeps(node, StopRobot(node)) /\ StopRobot(node).manual = node.manual
    BY <1>1, StopRobotKeeps
  <2>3. Keeps(StopRobot(node), node') /\ node'.manual
    BY <2>1, <2>2, SetModeKeeps DEF Keeps
  <2>4. Keeps(node, node')
    BY <2>2, <2>3, KeepsTrans
  <2>5. node'.sendAge \in {node.sendAge, 0}
    BY <2>4 DEF Keeps, Ages
  <2>6. node.sendAge <= Heartbeat + 1
    BY <1>2, <1>7, ServoAssumption DEF IInv, HeartInv
  <2>7. HeartInv(node', FALSE)
    BY <1>2, <2>3, <2>5, <2>6, ServoAssumption DEF HeartInv
  <2> QED BY <1>7, <2>3, <2>4, <2>7 DEF Keeps, AtRest, StreamInv
<1>8. CASE ~(~node.manual /\ node.autoAge > AutoTimeout)
  <2>1. CASE node.target # node.sent \/ node.sendAge > Heartbeat
    <3>1. node' = SendTarget(node)
      BY <1>8, <2>1 DEF HardwareUpdateLoop
    <3>2. /\ Keeps(node, node') /\ node'.rp = node.rp /\ node'.manual = node.manual
          /\ node'.target = node.target /\ (ReliableLink => node'.hw = node.target)
          /\ node'.sendAge = 0 /\ node'.autoAge = node.autoAge
      BY <1>1, <3>1, SendTargetKeeps
    <3> QED BY <1>2, <1>8, <3>2, ServoAssumption
            DEF Keeps, AtRest, StreamInv, HeartInv
  <2>2. CASE ~(node.target # node.sent \/ node.sendAge > Heartbeat)
    <3>1. node' = node
      BY <1>8, <2>2 DEF HardwareUpdateLoop
    <3> QED BY <1>1, <1>2, <1>8, <2>2, <3>1, ServoAssumption DEF StreamInv, HeartInv
  <2> QED BY <2>1, <2>2
<1> QED BY <1>7, <1>8

\* Time passes only when no timer is due, which keeps the ages in bounds.
LEMMA TickInv == ASSUME IInv, Tick PROVE IInv'
<1>1. /\ NodeInv(node) /\ clock \in Clock /\ joy \in Joy
  BY DEF IInv, TypeOK
<1>2. /\ clock' \in Clock /\ clock'.hwDue /\ clock'.phase = clock.phase - 1
      /\ clock.phase \in 1 .. WatchdogPeriod /\ ~clock.hwDue
  BY <1>1, ServoAssumption DEF Tick, Clock
<1>3. /\ node.sendAge \in 0 .. Heartbeat + 3 /\ node.autoAge \in 0 .. AutoTimeout + 2
      /\ joy.age \in 0 .. JoyAgeMax
  BY <1>1 DEF NodeInv, Node, Joy
<1>4. /\ Older(node.sendAge, Heartbeat + 3) \in 0 .. Heartbeat + 3
      /\ Older(node.autoAge, AutoTimeout + 2) \in 0 .. AutoTimeout + 2
      /\ Older(joy.age, JoyAgeMax) \in 0 .. JoyAgeMax
  BY <1>3, ServoAssumption DEF Older, JoyAgeMax
<1>5. /\ NodeInv(node') /\ (AtRest(node) => AtRest(node'))
      /\ node'.manual = node.manual
      /\ node'.sendAge = Older(node.sendAge, Heartbeat + 3)
      /\ node'.autoAge = Older(node.autoAge, AutoTimeout + 2)
  BY <1>1, <1>4 DEF Tick, NodeInv, Node, AtRest
<1>6. /\ joy' \in Joy /\ joy'.alive = joy.alive /\ joy'.lost = joy.lost
      /\ joy'.unlocked = joy.unlocked /\ joy'.age = Older(joy.age, JoyAgeMax)
  BY <1>1, <1>4 DEF Tick, Joy
<1>7. StreamInv(node', TRUE)
  BY <1>2, <1>3, <1>5, ServoAssumption DEF IInv, StreamInv, Older
<1>8. HeartInv(node', TRUE)
  BY <1>2, <1>3, <1>5, ServoAssumption DEF IInv, HeartInv, Older
<1>9. SilenceInv'
  BY <1>2, <1>3, <1>6, ServoAssumption DEF IInv, SilenceInv, Older, JoyAgeMax
<1>10. menu' = menu
  BY DEF Tick
<1> QED BY <1>2, <1>5, <1>6, <1>7, <1>8, <1>9, <1>10
        DEF IInv, TypeOK, NodeInv, AtRest, StreamInv, HeartInv

\* A loose cable keeps the invariant.
LEMMA LinkChangeInv == ASSUME IInv, LinkChange PROVE IInv'
<1>1. NodeInv(node)
  BY DEF IInv
<1>2. /\ Keeps(node, node') /\ (AtRest(node) => AtRest(node'))
  BY <1>1 DEF LinkChange, Keeps, Ages, NodeInv, Node, AtRest
<1> QED BY <1>2, NodeStep DEF LinkChange, IInv

\* Every step keeps the invariant.
LEMMA NextInv == ASSUME IInv, [Next]_vars PROVE IInv'
<1>1. CASE UNCHANGED vars
  BY <1>1 DEF vars, IInv, TypeOK, NodeInv, AtRest, SilenceInv, StreamInv, HeartInv
<1>2. CASE JoyCallback
  BY <1>2, JoyCallbackInv
<1>3. CASE \E c \in Cmd : CmdVelAuto(c)
  BY <1>3, CmdVelAutoInv
<1>4. CASE RecordCmd \/ StopCmd \/ PlaybackCmd \/ LoadOrDeleteCmd \/ SetActiveCmd
  BY <1>4, RecordPlaybackCmdInv
<1>5. CASE \E v \in BOOLEAN : SetRequiresNeutral(v)
  BY <1>5, SetRequiresNeutralInv
<1>6. CASE JoyWatchdog
  BY <1>6, JoyWatchdogInv
<1>7. CASE HardwareUpdateLoop
  BY <1>7, HardwareUpdateLoopInv
<1>8. CASE RecordSample
  BY <1>8, RecordSampleInv
<1>9. CASE PlaybackTimer
  BY <1>9, PlaybackTimerInv
<1>10. CASE Tick
  BY <1>10, TickInv
<1>11. CASE LinkChange
  BY <1>11, LinkChangeInv
<1> QED BY <1>1, <1>2, <1>3, <1>4, <1>5, <1>6, <1>7, <1>8, <1>9, <1>10, <1>11 DEF Next

-----------------------------------------------------------------------------
(* The theorems.                                                           *)

\* The strengthened invariant holds in every reachable state.
THEOREM Inductive == Spec => []IInv
<1>1. IInv /\ [Next]_vars => IInv'
  BY NextInv
<1> QED BY InitInv, <1>1, PTL DEF Spec

\* Every state of the servo controller is well typed.
THEOREM TypeCorrect == Spec => []TypeOK
<1>1. IInv => TypeOK
  BY DEF IInv
<1> QED BY <1>1, Inductive, PTL

\* For every joy_timeout and watchdog period: once the joystick has been
\* silent for their sum, the node is in manual mode and the board at rest,
\* unless a recorded movement is being played.
THEOREM JoyLossSafe == Spec => []JoyLossStops
<1>1. IInv => JoyLossStops
  <2> SUFFICES ASSUME IInv, joy.alive, joy.age > JoyTimeout + WatchdogPeriod
               PROVE  AtRest(node)
    BY DEF JoyLossStops, AtRest
  <2>1. clock.phase \in Nat /\ joy.age \in Nat
    BY DEF IInv, TypeOK, Clock, Joy
  <2>2. joy.lost
    BY <2>1, ServoAssumption DEF IInv, SilenceInv
  <2> QED BY <2>2 DEF IInv
<1> QED BY <1>1, Inductive, PTL

\* A controller that was never unlocked, or was locked by the watchdog, moves
\* nothing.
THEOREM LockedSafe == Spec => []LockedMeansStopped
<1>1. IInv => LockedMeansStopped
  BY DEF IInv, AtRest, LockedMeansStopped
<1> QED BY <1>1, Inductive, PTL

\* Automatic mode ends within auto_cmd_timeout and one period of the hardware
\* loop after the last automatic command.
THEOREM StreamGuarded == Spec => []AutoStreamGuard
<1>1. IInv => AutoStreamGuard
  <2> SUFFICES ASSUME IInv PROVE AutoStreamGuard
    OBVIOUS
  <2>1. node.autoAge \in Int
    BY DEF IInv, NodeInv, Node
  <2> QED BY <2>1, ServoAssumption DEF IInv, StreamInv, AutoStreamGuard
<1> QED BY <1>1, Inductive, PTL

\* The other nodes are told of every change of mode.
THEOREM ModeAlwaysAnnounced == Spec => []ModeAnnounced
<1>1. IInv => ModeAnnounced
  BY DEF IInv, NodeInv, ModeAnnounced
<1> QED BY <1>1, Inductive, PTL

\* The board executes what was sent last, or Stop, and is refreshed within
\* two periods after the heartbeat is due.
THEOREM BoardSafe == Spec => []BoardFollows
<1>1. IInv => BoardFollows
  <2> SUFFICES ASSUME IInv PROVE BoardFollows
    OBVIOUS
  <2>1. node.sendAge \in Int
    BY DEF IInv, NodeInv, Node
  <2> QED BY <2>1, ServoAssumption DEF IInv, NodeInv, HeartInv, BoardFollows
<1> QED BY <1>1, Inductive, PTL

\* There is a playback timer exactly while a movement is played.
THEOREM OneTimer == Spec => []TimerIffPlayback
<1>1. IInv => TimerIffPlayback
  BY DEF IInv, NodeInv, TimerIffPlayback
<1> QED BY <1>1, Inductive, PTL
-----------------------------------------------------------------------------
(* Who drives during a playback.                                           *)

\* What a step out of n into m may make of the target while a movement plays.
Owned(n, m) ==
  n.rp = "PLAYBACK" /\ m.rp = "PLAYBACK" =>
    \/ m.target \in {n.target, Stop}
    \/ n.idx < Len(n.buf) /\ m.target = n.buf[n.idx + 1]

\* One step of the playback takes the next sample or ends the playback.
LEMMA PlaybackStepOwned ==
  ASSUME NEW n, NodeInv(n)
  PROVE  Owned(n, PlaybackStep(n))
<1> SUFFICES ASSUME n.rp = "PLAYBACK" PROVE Owned(n, PlaybackStep(n))
  BY DEF Owned
<1>1. n.idx \in Nat /\ n.buf \in Seq(Cmd) /\ Len(n.buf) \in Nat
  BY DEF NodeInv, Node
<1>2. CASE n.idx >= Len(n.buf)
  <2>1. PlaybackStep(n).rp = "IDLE"
    BY <1>2, StopPlaybackKeeps DEF PlaybackStep
  <2> QED BY <2>1 DEF Owned
<1>3. CASE ~(n.idx >= Len(n.buf))
  <2> DEFINE c == n.buf[n.idx + 1]
             a == ApplyHardware(n, c)
  <2>1. n.idx < Len(n.buf) /\ c \in Cmd
    BY <1>1, <1>3
  <2>2. a \in Node /\ a.target = c
    BY <2>1, ApplyHardwareKeeps DEF Keeps, NodeInv
  <2>3. PlaybackStep(n) = [a EXCEPT !.idx = n.idx + 1]
    BY <1>3 DEF PlaybackStep
  <2>4. PlaybackStep(n).target = c
    BY <2>2, <2>3 DEF Node
  <2> QED BY <2>1, <2>4 DEF Owned
<1> QED BY <1>2, <1>3

\* A frame of the joystick ends a playback or leaves the node as it is: button
\* A is ignored, X and Start / Y stop, the D-pad and the sticks do nothing.
LEMMA OperateOwned ==
  ASSUME NEW n, NodeInv(n), n.rp = "PLAYBACK", NEW r, NEW c \in Cmd,
         NEW b \in Seq(Cmd), Len(b) <= MaxSamples
  PROVE  Operate(n, r, c, b).rp = "PLAYBACK" => Operate(n, r, c, b) = n
<1> DEFINE n2 == PlayButton(n, r)
           n3 == CyclePad(n2, r, b)
           n4 == ModeButton(n3, r)
           n5 == ManualDrive(n4, c)
<1>1. Operate(n, r, c, b) = n5
  BY DEF Operate, RecordButton
<1>2. NodeInv(n2) /\ (n2.rp = "IDLE" \/ n2 = n)
  <2>1. CASE "X" \in r
    <3>1. n2 = StopPlayback(n)
      BY <2>1 DEF PlayButton
    <3> QED BY <3>1, StopPlaybackKeeps DEF Keeps
  <2>2. CASE "X" \notin r
    BY <2>2 DEF PlayButton
  <2> QED BY <2>1, <2>2
<1> HIDE DEF n2
<1>3. NodeInv(n3) /\ (n3.rp = "IDLE" \/ n3 = n)
  <2>1. NodeInv(n3)
    BY <1>2, CyclePadKeeps DEF Keeps
  <2>2. [n2 EXCEPT !.buf = b].rp = n2.rp
    BY <1>2 DEF NodeInv, Node
  <2> QED BY <1>2, <2>1, <2>2 DEF CyclePad
<1> HIDE DEF n3
<1>4. NodeInv(n4) /\ (n4.rp = "IDLE" \/ n4 = n)
  <2> DEFINE idle == IF n3.rp = "RECORDING" THEN StopRecording(n3)
                     ELSE IF n3.rp = "PLAYBACK" THEN StopPlayback(n3) ELSE n3
             m == SetMode(idle, ~n3.manual)
             a == [m EXCEPT !.autoAge = 0]
  <2>1. NodeInv(n4)
    BY <1>3, ModeButtonKeeps DEF Keeps
  <2>2. CASE r \cap {"START", "Y"} = {}
    BY <1>3, <2>1, <2>2 DEF ModeButton
  <2>3. CASE r \cap {"START", "Y"} # {}
    <3>1. n4 = IF m.manual THEN StopRobot(m) ELSE a
      BY <2>3 DEF ModeButton
    <3>2. NodeInv(idle) /\ idle.rp = "IDLE"
      <4>1. CASE n3.rp = "PLAYBACK"
        BY <1>3, <4>1, StopPlaybackKeeps DEF Keeps
      <4>2. CASE n3.rp # "PLAYBACK"
        BY <1>3, <4>2
      <4> QED BY <4>1, <4>2
    <3> HIDE DEF idle
    <3>3. m.rp = "IDLE" /\ NodeInv(m)
      BY <1>3, <3>2 DEF SetMode, NodeInv, Node
    <3> HIDE DEF m
    <3>4. a.rp = "IDLE" /\ StopRobot(m).rp = "IDLE"
      BY <3>3, StopRobotKeeps DEF NodeInv, Node
    <3> QED BY <2>1, <3>1, <3>4
  <2> QED BY <2>2, <2>3
<1> HIDE DEF n4
<1>5. n5.rp = n4.rp /\ (n4.rp = "PLAYBACK" => n5 = n4)
  BY <1>4, ApplyHardwareKeeps DEF ManualDrive
<1> QED BY <1>1, <1>4, <1>5

\* A write of the target does not move it.
LEMMA SendTargetOwned == ASSUME NEW n, NodeInv(n) PROVE Owned(n, SendTarget(n))
BY SendTargetKeeps DEF Owned

\* No step of any callback lets the joystick or the automatic stream drive
\* while a movement is played.
LEMMA NextOwned == ASSUME IInv, [Next]_vars PROVE Owned(node, node')
<1> SUFFICES ASSUME node.rp = "PLAYBACK" PROVE Owned(node, node')
  BY DEF Owned
<1>1. NodeInv(node) /\ node \in Node
  BY DEF IInv, NodeInv
<1>2. Owned(node, StopRobot(node)) /\ StopRobot(node).target = Stop
  BY <1>1, StopRobotKeeps DEF Owned
<1>3. CASE node' = node
  BY <1>3 DEF Owned
<1>4. CASE JoyCallback
  <2> SUFFICES ASSUME NEW f \in Frames,
                      JoyIgnored(f) \/ JoyUnlock(f) \/ JoyNotNeutral(f) \/ JoyOperate(f)
               PROVE  Owned(node, node')
    BY <1>4 DEF JoyCallback
  <2>1. CASE JoyIgnored(f)
    BY <1>3, <2>1 DEF JoyIgnored
  <2>2. CASE JoyUnlock(f)
    BY <1>2, <2>2 DEF JoyUnlock
  <2>3. CASE JoyNotNeutral(f)
    BY <1>2, <2>3 DEF JoyNotNeutral
  <2>4. CASE JoyOperate(f)
    <3>1. PICK b \in Library \cup {node.buf} :
                 node' = Operate(node, f.pressed \ joy.prev, f.stick, b)
      BY <2>4 DEF JoyOperate
    <3>2. b \in Seq(Cmd) /\ Len(b) <= MaxSamples
      BY <1>1, LoadedBuffer DEF NodeInv, Node
    <3>3. f.stick \in Cmd
      BY ServoAssumption
    <3> QED BY <1>1, <1>3, <3>1, <3>2, <3>3, OperateOwned DEF Owned
  <2> QED BY <2>1, <2>2, <2>3, <2>4
<1>5. CASE \E c \in Cmd : CmdVelAuto(c)
  <2>1. node' = [node EXCEPT !.autoAge = 0]
    <3>1. [node EXCEPT !.autoAge = 0].rp = "PLAYBACK"
      BY <1>1 DEF Node
    <3> QED BY <1>5, <3>1 DEF CmdVelAuto
  <2> QED BY <1>1, <2>1 DEF Owned, Node
<1>6. CASE RecordCmd \/ PlaybackCmd \/ LoadOrDeleteCmd
  BY <1>6 DEF RecordCmd, PlaybackCmd, LoadOrDeleteCmd
<1>7. CASE StopCmd
  <2>1. node'.rp = "IDLE"
    BY <1>1, <1>7, StopPlaybackKeeps DEF StopCmd
  <2> QED BY <2>1 DEF Owned
<1>8. CASE SetActiveCmd
  <2>1. PICK b \in Library : node' = [node EXCEPT !.buf = b]
    BY <1>8 DEF SetActiveCmd
  <2> QED BY <1>1, <2>1 DEF Owned, Node
<1>9. CASE \E v \in BOOLEAN : SetRequiresNeutral(v)
  BY <1>3, <1>9 DEF SetRequiresNeutral
<1>10. CASE JoyWatchdog
  <2>1. NodeInv(SetMode(node, TRUE))
    BY <1>1, SetModeKeeps DEF Keeps
  <2>2. node'.target \in {node.target, Stop}
    BY <1>1, <1>10, <2>1, StopRobotKeeps DEF JoyWatchdog
  <2> QED BY <2>2 DEF Owned
<1>11. CASE HardwareUpdateLoop
  <2>1. CASE ~node.manual /\ node.autoAge > AutoTimeout
    <3>1. node' = SetMode(StopRobot(node), TRUE)
      BY <1>11, <2>1 DEF HardwareUpdateLoop
    <3>2. node'.target = Stop
      BY <1>1, <1>2, <3>1, StopRobotKeeps DEF SetMode, Keeps, NodeInv, Node
    <3> QED BY <3>2 DEF Owned
  <2>2. CASE ~(~node.manual /\ node.autoAge > AutoTimeout)
    BY <1>1, <1>3, <1>11, <2>2, SendTargetOwned DEF HardwareUpdateLoop
  <2> QED BY <2>1, <2>2
<1>12. CASE RecordSample
  BY <1>12 DEF RecordSample
<1>13. CASE PlaybackTimer
  BY <1>1, <1>13, PlaybackStepOwned DEF PlaybackTimer
<1>14. CASE Tick \/ LinkChange
  <2>1. node'.target = node.target
    BY <1>1, <1>14 DEF Tick, LinkChange, Node
  <2> QED BY <2>1 DEF Owned
<1>15. CASE UNCHANGED vars
  BY <1>3, <1>15 DEF vars
<1> QED BY <1>4, <1>5, <1>6, <1>7, <1>8, <1>9, <1>10, <1>11, <1>12, <1>13, <1>14, <1>15
        DEF Next

\* While a movement is played, whatever the joystick and the automatic stream
\* send, the target is the next sample or Stop.
THEOREM PlaybackOwned == Spec => PlaybackOwnsMotors
<1>1. IInv /\ [Next]_vars =>
        [node.rp = "PLAYBACK" /\ node'.rp = "PLAYBACK" =>
           \/ node'.target \in {node.target, Stop}
           \/ node.idx < Len(node.buf) /\ node'.target = node.buf[node.idx + 1]]_vars
  BY NextOwned DEF Owned
<1> QED BY <1>1, Inductive, PTL DEF Spec, PlaybackOwnsMotors
-----------------------------------------------------------------------------
(* What the other nodes may rely on: the handshake of the playback.        *)

\* While a movement is played on, the node does not enter automatic mode: only
\* Start / Y leads there, and it ends the playback.
LEMMA NoAutoWhilePlaying ==
  ASSUME IInv, [Next]_vars, node.rp = "PLAYBACK", node'.rp = "PLAYBACK"
  PROVE  node.manual => node'.manual
<1>1. NodeInv(node) /\ node \in Node
  BY DEF IInv, NodeInv
<1>2. StopRobot(node).manual = node.manual
  BY <1>1, StopRobotKeeps
<1>3. CASE JoyCallback
  <2> PICK f \in Frames :
        JoyIgnored(f) \/ JoyUnlock(f) \/ JoyNotNeutral(f) \/ JoyOperate(f)
    BY <1>3 DEF JoyCallback
  <2>1. CASE JoyIgnored(f)
    BY <2>1 DEF JoyIgnored
  <2>2. CASE JoyUnlock(f) \/ JoyNotNeutral(f)
    BY <1>2, <2>2 DEF JoyUnlock, JoyNotNeutral
  <2>3. CASE JoyOperate(f)
    <3>1. PICK b \in Library \cup {node.buf} :
                 node' = Operate(node, f.pressed \ joy.prev, f.stick, b)
      BY <2>3 DEF JoyOperate
    <3>2. b \in Seq(Cmd) /\ Len(b) <= MaxSamples
      BY <1>1, LoadedBuffer DEF NodeInv, Node
    <3>3. f.stick \in Cmd
      BY ServoAssumption
    <3> QED BY <1>1, <3>1, <3>2, <3>3, OperateOwned
  <2> QED BY <2>1, <2>2, <2>3
<1>4. CASE \E c \in Cmd : CmdVelAuto(c)
  <2>1. node' = [node EXCEPT !.autoAge = 0]
    <3>1. [node EXCEPT !.autoAge = 0].rp = "PLAYBACK"
      BY <1>1 DEF Node
    <3> QED BY <1>4, <3>1 DEF CmdVelAuto
  <2> QED BY <1>1, <2>1 DEF Node
<1>5. CASE RecordCmd \/ PlaybackCmd \/ LoadOrDeleteCmd
  BY <1>5 DEF RecordCmd, PlaybackCmd, LoadOrDeleteCmd
<1>6. CASE StopCmd
  BY <1>1, <1>6, StopPlaybackKeeps DEF StopCmd
<1>7. CASE SetActiveCmd \/ LinkChange \/ Tick
  BY <1>1, <1>7 DEF SetActiveCmd, LinkChange, Tick, Node
<1>8. CASE \E v \in BOOLEAN : SetRequiresNeutral(v)
  BY <1>8 DEF SetRequiresNeutral
<1>9. CASE JoyWatchdog
  <2>1. NodeInv(SetMode(node, TRUE)) /\ SetMode(node, TRUE).manual
    BY <1>1, SetModeKeeps DEF Keeps
  <2> QED BY <1>1, <1>2, <1>9, <2>1, StopRobotKeeps DEF JoyWatchdog
<1>10. CASE HardwareUpdateLoop
  <2>1. SendTarget(node).manual = node.manual
    BY <1>1, SendTargetKeeps
  <2>2. ~node.manual \/ node' \in {node, SendTarget(node)}
    BY <1>10 DEF HardwareUpdateLoop
  <2> QED BY <2>1, <2>2
<1>11. CASE RecordSample
  BY <1>11 DEF RecordSample
<1>12. CASE PlaybackTimer
  BY <1>1, <1>12, PlaybackStepMode DEF PlaybackTimer
<1>13. CASE UNCHANGED vars
  BY <1>13 DEF vars
<1> QED BY <1>3, <1>4, <1>5, <1>6, <1>7, <1>8, <1>9, <1>10, <1>11, <1>12, <1>13 DEF Next

-----------------------------------------------------------------------------
(* A playback ends: what there is to it besides the fairness of the timer. *)

\* Neither outside nor inside a playback the index passes the longest recording.
IndexInv == node.idx \in 0 .. MaxSamples

\* What one call may make of the index: forward, within the bound.
Forward(n, m) ==
  /\ m.idx \in 0 .. MaxSamples
  /\ n.rp = "PLAYBACK" /\ m.rp = "PLAYBACK" => m.idx >= n.idx

\* The methods that do not play leave the index alone.
LEMMA IndexKept ==
  ASSUME NEW n, NodeInv(n)
  PROVE  /\ StopRobot(n).idx = n.idx /\ SendTarget(n).idx = n.idx
         /\ StopPlayback(n).idx = n.idx
         /\ \A c : ApplyHardware(n, c).idx = n.idx
         /\ \A v : SetMode(n, v).idx = n.idx
         /\ StartRecording(n).idx = n.idx /\ StopRecording(n).idx = n.idx
BY DEF NodeInv, Node, StopRobot, SendTarget, StopPlayback, ApplyHardware, SetMode,
       StartRecording, StopRecording

\* One step of the playback goes on by one sample, and only within the buffer.
LEMMA PlaybackStepForward ==
  ASSUME NEW n, NodeInv(n), n.idx \in 0 .. MaxSamples
  PROVE  /\ Forward(n, PlaybackStep(n))
         /\ n.rp = "PLAYBACK" /\ PlaybackStep(n).rp = "PLAYBACK" =>
              PlaybackStep(n).idx = n.idx + 1
<1>1. n.idx \in Nat /\ Len(n.buf) \in Nat /\ Len(n.buf) <= MaxSamples /\ MaxSamples \in Nat
  BY ServoAssumption DEF NodeInv, Node
<1>2. CASE n.rp # "PLAYBACK"
  BY <1>2 DEF PlaybackStep, Forward
<1>3. CASE n.rp = "PLAYBACK" /\ n.idx >= Len(n.buf)
  <2>1. PlaybackStep(n) = StopPlayback(n)
    BY <1>3 DEF PlaybackStep
  <2>2. StopPlayback(n).rp = "IDLE" /\ StopPlayback(n).idx = n.idx
    BY StopPlaybackKeeps, IndexKept
  <2> QED BY <2>1, <2>2 DEF Forward
<1>4. CASE n.rp = "PLAYBACK" /\ ~(n.idx >= Len(n.buf))
  <2> DEFINE a == ApplyHardware(n, n.buf[n.idx + 1])
  <2>1. PlaybackStep(n) = [a EXCEPT !.idx = n.idx + 1]
    BY <1>4 DEF PlaybackStep
  <2>2. n.buf[n.idx + 1] \in Cmd
    <3>1. n.idx + 1 \in 1 .. Len(n.buf) /\ n.buf \in Seq(Cmd)
      BY <1>1, <1>4 DEF NodeInv, Node
    <3> QED BY <3>1
  <2>3. a \in Node
    BY <2>2, ApplyHardwareKeeps DEF Keeps, NodeInv
  <2> HIDE DEF a
  <2>4. PlaybackStep(n).idx = n.idx + 1
    BY <2>1, <2>3 DEF Node
  <2> QED BY <1>1, <1>4, <2>4 DEF Forward
<1> QED BY <1>2, <1>3, <1>4

\* So does a playback that starts.
LEMMA StartPlaybackForward ==
  ASSUME NEW n, NodeInv(n), n.idx \in 0 .. MaxSamples
  PROVE  StartPlayback(n).idx \in 0 .. MaxSamples
<1> DEFINE m == [n EXCEPT !.rp = "PLAYBACK", !.idx = 0, !.timer = TRUE]
<1>1. NodeInv(m)
  BY DEF NodeInv, Node, RpState
<1>2. m.idx = 0
  BY DEF NodeInv, Node
<1>3. m.idx \in 0 .. MaxSamples
  BY <1>2, ServoAssumption
<1> HIDE DEF m
<1>4. PlaybackStep(m).idx \in 0 .. MaxSamples
  BY <1>1, <1>3, PlaybackStepForward DEF Forward
<1> QED BY <1>4 DEF StartPlayback, m

\* A frame of the joystick takes a playback no step on.
LEMMA OperateForward ==
  ASSUME NEW n, NodeInv(n), n.idx \in 0 .. MaxSamples, NEW r, NEW c \in Cmd,
         NEW b \in Seq(Cmd), Len(b) <= MaxSamples
  PROVE  Forward(n, Operate(n, r, c, b))
<1> DEFINE n1 == RecordButton(n, r)
           n2 == PlayButton(n1, r)
           n3 == CyclePad(n2, r, b)
           n4 == ModeButton(n3, r)
           n5 == ManualDrive(n4, c)
<1>1. NodeInv(n1) /\ n1.idx = n.idx
  BY RecordButtonKeeps, IndexKept DEF RecordButton, Keeps
<1> HIDE DEF n1
<1>2. NodeInv(n2) /\ n2.idx \in 0 .. MaxSamples
  <2>1. NodeInv(n2)
    BY <1>1, PlayButtonKeeps DEF Keeps
  <2>2. StartPlayback(n1).idx \in 0 .. MaxSamples
    BY <1>1, StartPlaybackForward
  <2>3. StopPlayback(n1).idx = n1.idx
    BY <1>1, IndexKept
  <2> QED BY <1>1, <2>1, <2>2, <2>3 DEF PlayButton
<1> HIDE DEF n2
<1>3. NodeInv(n3) /\ n3.idx = n2.idx
  <2>1. NodeInv(n3)
    BY <1>2, CyclePadKeeps DEF Keeps
  <2>2. [n2 EXCEPT !.buf = b].idx = n2.idx
    BY <1>2 DEF NodeInv, Node
  <2> QED BY <2>1, <2>2 DEF CyclePad
<1> HIDE DEF n3
<1>4. NodeInv(n4) /\ n4.idx = n3.idx
  <2> DEFINE idle == IF n3.rp = "RECORDING" THEN StopRecording(n3)
                     ELSE IF n3.rp = "PLAYBACK" THEN StopPlayback(n3) ELSE n3
             m == SetMode(idle, ~n3.manual)
             a == [m EXCEPT !.autoAge = 0]
  <2>1. NodeInv(n4)
    BY <1>3, ModeButtonKeeps DEF Keeps
  <2>2. idle.idx = n3.idx /\ idle \in Node
    <3>1. StopRecording(n3).idx = n3.idx /\ StopPlayback(n3).idx = n3.idx
      BY <1>3, IndexKept
    <3>2. StopRecording(n3) \in Node /\ StopPlayback(n3) \in Node
      <4>1. StopRecording(n3) \in Node
        BY <1>3 DEF StopRecording, NodeInv, Node, RpState
      <4> QED BY <4>1, <1>3, StopPlaybackKeeps DEF Keeps, NodeInv
    <3> QED BY <1>3, <3>1, <3>2 DEF NodeInv
  <2> HIDE DEF idle
  <2>3. /\ m.idx = idle.idx /\ a.idx = m.idx /\ StopRobot(m).idx = m.idx
    BY <2>2 DEF SetMode, StopRobot, Node
  <2>4. n4 \in {n3, StopRobot(m), a}
    BY DEF ModeButton, idle
  <2> HIDE DEF m, a
  <2> QED BY <2>1, <2>2, <2>3, <2>4
<1> HIDE DEF n4
<1>5. n5.idx = n4.idx
  BY <1>4, IndexKept DEF ManualDrive
<1> HIDE DEF n5
<1>6. n5.idx \in 0 .. MaxSamples
  BY <1>2, <1>3, <1>4, <1>5
<1>7. Operate(n, r, c, b) = n5
  BY DEF Operate, n1, n2, n3, n4, n5
<1>8. n.rp = "PLAYBACK" /\ n5.rp = "PLAYBACK" => n5 = n
  BY <1>7, OperateOwned
<1> QED BY <1>6, <1>7, <1>8 DEF Forward

\* No step takes a playback back or beyond the longest recording.
LEMMA NextForward ==
  ASSUME IInv, IndexInv, [Next]_vars
  PROVE  Forward(node, node')
<1>1. /\ NodeInv(node) /\ node \in Node /\ node.idx \in 0 .. MaxSamples
  BY DEF IInv, NodeInv, IndexInv
<1>2. ASSUME NEW m, m.idx = node.idx PROVE Forward(node, m)
  BY <1>1, <1>2 DEF Forward
<1>3. CASE UNCHANGED vars \/ \E v \in BOOLEAN : SetRequiresNeutral(v)
  BY <1>2, <1>3 DEF vars, SetRequiresNeutral
<1>4. CASE JoyCallback
  <2> PICK f \in Frames :
        JoyIgnored(f) \/ JoyUnlock(f) \/ JoyNotNeutral(f) \/ JoyOperate(f)
    BY <1>4 DEF JoyCallback
  <2>1. CASE JoyIgnored(f)
    BY <1>2, <2>1 DEF JoyIgnored
  <2>2. CASE JoyUnlock(f) \/ JoyNotNeutral(f)
    BY <1>1, <1>2, <2>2, IndexKept DEF JoyUnlock, JoyNotNeutral
  <2>3. CASE JoyOperate(f)
    <3>1. PICK b \in Library \cup {node.buf} :
                 node' = Operate(node, f.pressed \ joy.prev, f.stick, b)
      BY <2>3 DEF JoyOperate
    <3>2. b \in Seq(Cmd) /\ Len(b) <= MaxSamples
      BY <1>1, LoadedBuffer DEF NodeInv, Node
    <3>3. f.stick \in Cmd
      BY ServoAssumption
    <3> QED BY <1>1, <3>1, <3>2, <3>3, OperateForward
  <2> QED BY <2>1, <2>2, <2>3
<1>5. CASE \E c \in Cmd : CmdVelAuto(c)
  <2>1. PICK c \in Cmd : CmdVelAuto(c)
    BY <1>5
  <2> DEFINE n == [node EXCEPT !.autoAge = 0]
  <2>2. n.idx = node.idx /\ n \in Node
    <3>1. 0 \in 0 .. AutoTimeout + 2
      BY ServoAssumption
    <3> QED BY <1>1, <3>1 DEF Node
  <2>3. ApplyHardware(n, c).idx = n.idx
    BY <2>2 DEF ApplyHardware, SendTarget, Node
  <2>4. node' \in {n, ApplyHardware(n, c)}
    BY <2>1 DEF CmdVelAuto
  <2> HIDE DEF n
  <2> QED BY <1>2, <2>2, <2>3, <2>4
<1>6. CASE RecordCmd \/ StopCmd
  BY <1>1, <1>2, <1>6, IndexKept DEF RecordCmd, StopCmd
<1>7. CASE PlaybackCmd
  BY <1>1, <1>7, StartPlaybackForward DEF PlaybackCmd, Forward
<1>8. CASE LoadOrDeleteCmd \/ SetActiveCmd \/ Tick \/ LinkChange \/ RecordSample
  <2>1. ASSUME NEW b, node' = [node EXCEPT !.buf = b] PROVE node'.idx = node.idx
    BY <1>1, <2>1 DEF Node
  <2>2. CASE LoadOrDeleteCmd \/ SetActiveCmd
    <3>1. PICK b : node' = [node EXCEPT !.buf = b]
      BY <2>2 DEF LoadOrDeleteCmd, SetActiveCmd
    <3> QED BY <1>2, <2>1, <3>1
  <2>3. CASE RecordSample
    BY <1>2, <2>1, <2>3 DEF RecordSample
  <2>4. CASE Tick \/ LinkChange
    <3>1. node'.idx = node.idx
      BY <1>1, <2>4 DEF Tick, LinkChange, Node
    <3> QED BY <1>2, <3>1
  <2> QED BY <1>8, <2>2, <2>3, <2>4
<1>9. CASE JoyWatchdog
  <2>1. NodeInv(SetMode(node, TRUE)) /\ SetMode(node, TRUE).idx = node.idx
    BY <1>1, SetModeKeeps, IndexKept DEF Keeps
  <2>2. /\ StopRobot(node).idx = node.idx
        /\ StopRobot(SetMode(node, TRUE)).idx = node.idx
    BY <1>1, <2>1, IndexKept
  <2> QED BY <1>2, <1>9, <2>2 DEF JoyWatchdog
<1>10. CASE HardwareUpdateLoop
  <2>1. NodeInv(StopRobot(node)) /\ StopRobot(node).idx = node.idx
    BY <1>1, StopRobotKeeps, IndexKept DEF Keeps
  <2>2. /\ SendTarget(node).idx = node.idx
        /\ SetMode(StopRobot(node), TRUE).idx = node.idx
    BY <1>1, <2>1, IndexKept
  <2> QED BY <1>2, <1>10, <2>2 DEF HardwareUpdateLoop
<1>11. CASE PlaybackTimer
  BY <1>1, <1>11, PlaybackStepForward DEF PlaybackTimer
<1> QED BY <1>3, <1>4, <1>5, <1>6, <1>7, <1>8, <1>9, <1>10, <1>11 DEF Next

\* For every library and every set_active in between: after at most MaxSamples
\* firings of its timer a playback has ended.
THEOREM PlaybackForward == Spec => PlaybackAdvances
<1>1. Init => IndexInv
  BY ServoAssumption DEF Init, IndexInv
<1>2. IInv /\ IndexInv /\ [Next]_vars => IndexInv'
  BY NextForward DEF Forward, IndexInv
<1>3. IInv /\ IndexInv /\ [Next]_vars =>
        [node.rp = "PLAYBACK" /\ node'.rp = "PLAYBACK" =>
           /\ node'.idx \in node.idx .. MaxSamples
           /\ PlaybackTimer => node'.idx > node.idx]_vars
  <2> SUFFICES ASSUME IInv, IndexInv, Next, node.rp = "PLAYBACK", node'.rp = "PLAYBACK"
               PROVE  /\ node'.idx \in node.idx .. MaxSamples
                      /\ PlaybackTimer => node'.idx > node.idx
    OBVIOUS
  <2>1. Forward(node, node') /\ node.idx \in 0 .. MaxSamples /\ MaxSamples \in Nat
    BY NextForward, ServoAssumption DEF IndexInv
  <2>2. PlaybackTimer => node'.idx = node.idx + 1
    BY <2>1, PlaybackStepForward DEF PlaybackTimer, IInv
  <2> QED BY <2>1, <2>2 DEF Forward
<1> QED BY <1>1, <1>2, <1>3, Inductive, PTL DEF Spec, PlaybackAdvances
===============================================================================
