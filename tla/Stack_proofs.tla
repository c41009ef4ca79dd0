----------------------------- MODULE Stack_proofs -----------------------------
(***************************************************************************)
(* Theorems about the three control nodes together, for every recording,   *)
(* frame of the joystick, timeout and length of the queues.                *)
(*                                                                         *)
(* The composition is proved from its parts: every step of Stack is shown  *)
(* to be a step of each node's own module, so that what the proof modules  *)
(* of the nodes establish holds here too.  The two theorems of the         *)
(* composition itself relate one node's belief to another node's state,    *)
(* through what is still on its way between them.                          *)
(***************************************************************************)
EXTENDS Stack, SequenceTheorems, TLAPS

\* What is proved of cmd_safety_controller: its types and its envelope.
Published == Safety!Inv

-----------------------------------------------------------------------------
(* A car without a leader.                                                 *)

\* The last loop published zero, and the board was told so.
Rest == output["linear"] = 0 /\ node.target = 0 /\ node.hw = 0

\* After n periods and the loop that follows, the car is at rest.
RestAfter(n) == unled > n \/ (unled = n /\ ~due) => Rest

\* How many periods the safety loop has run for since the car lost its leader.
Loops == IF due THEN unled - 1 ELSE unled

\* While auto_driver believes in manual mode it sends nothing, so the command
\* of the safety node ages by one with every loop.
Aging == age >= Loops \/ age = CmdTimeout + 1

\* All loops but the first n have steered for zero, or the ramp is over.
Braking(n) == halt >= Loops - n \/ halt = Ramp

Unled ==
  /\ Reason = None => unled = 0
  /\ Reason = "driver" => Aging /\ Braking(CmdTimeout) /\ RestAfter(CmdTimeout + Ramp)
  /\ Reason = "estop" => Braking(0) /\ RestAfter(Ramp)

-----------------------------------------------------------------------------
(* The playback handshake.                                                 *)

\* Every message of a queue says v.
Only(q, v) == \A i \in 1 .. Len(q) : q[i] = v

\* What a reader that believes u will believe once it has heard the queue.
After(q, u) == IF q = <<>> THEN u ELSE q[Len(q)]

\* auto_driver believes in manual mode, and nothing on its way says otherwise.
Unaware == ~drv.see["auto"] /\ Only(net.mode, FALSE)

\* It has only just asked, and what it will have heard last is PLAYBACK.
JustAsked == drv.entryAge = 0 /\ After(net.rp, drv.rp) = "PLAYBACK"

\* It has heard that a movement is played, and nothing on its way denies it.
Informed == drv.rp = "PLAYBACK" /\ Only(net.rp, "PLAYBACK")

\* A node that is down knows nothing, and nothing waits for it.
Down == ~up => ~drv.see["auto"] /\ net.mode = <<>> /\ net.rp = <<>>

UnderWay == node.rp = "PLAYBACK" /\ (Unaware \/ JustAsked \/ Informed)

\* The playback that was asked for is either still on its way, or under way.
Handshake ==
  /\ Down
  /\ net.play => drv.entryAge = 0 /\ job
  /\ job => net.play \/ UnderWay

-----------------------------------------------------------------------------
(* cmd_safety_controller in the composition.                               *)

\* The values Stack gives the nodes' constants are as the nodes assume.
LEMMA Constants ==
  /\ Servo!ServoAssumption
  /\ Driver!AutoDriverAssumption
  /\ Safety!CmdSafetyAssumption
<1>1. Servo!ServoAssumption
  BY StackAssumption DEF Servo!ServoAssumption
<1>2. Driver!AutoDriverAssumption
  BY StackAssumption
     DEF Driver!AutoDriverAssumption, Driver!Command, Driver!Behaviour, Driver!Rank,
         Driver!Flag, Driver!Light, Driver!RpState, Driver!ChallengeState, Driver!Dist,
         Servo!RpState, AgeMax
<1>3. Safety!CmdSafetyAssumption
  BY StackAssumption DEF Safety!CmdSafetyAssumption, Axis
<1> QED BY <1>1, <1>2, <1>3

\* Every step of the composition is a step of cmd_safety_controller or none.
LEMMA SafetyStep == ASSUME [Next]_vars PROVE [Safety!Next]_(Safety!vars)
<1> USE DEF Safety!Next
<1>1. CASE DriverLoop
  <2>1. SpeedOf(out'.cmd) \subseteq Speeds \cup {0}
    BY DEF SpeedOf
  <2>2. \A v \in SpeedOf(out'.cmd) : [c \in Axis |-> v] \in [Axis -> Speeds \cup {0}]
    BY <2>1
  <2> QED BY <1>1, <2>2 DEF DriverLoop, safetyVars, Safety!vars
<1>2. CASE SafetyLoop
  BY <1>2 DEF SafetyLoop
<1>3. CASE PressEStop
  <2>1. (~estop) \in BOOLEAN
    OBVIOUS
  <2> QED BY <1>3, <2>1 DEF PressEStop
<1>4. CASE UNCHANGED safetyVars
  BY <1>4 DEF safetyVars, Safety!vars
<1> QED BY <1>1, <1>2, <1>3, <1>4
        DEF Next, Step, vars, HearMode, HearPlayback, HearStatus, Course, Start, Crash,
            HearPlay, Operator, ServoTimers, Tick

\* cmd_safety_controller behaves in the composition as its own module says, for
\* every auto_driver that may crash.
THEOREM SafetyImplemented == Spec => Safety!Spec
<1>1. Init => Safety!Init
  BY DEF Init
<1> QED BY <1>1, SafetyStep, PTL DEF Spec, Safety!Spec

\* So what is proved of it alone holds in the composition.
LEMMA SafetyInv == Spec => []Published
<1>1. Safety!Spec => []Safety!Inv
  BY Constants, Safety!Inductive
<1> QED BY <1>1, SafetyImplemented, PTL DEF Published

\* One loop ages the command; once the loops steer for zero they count, and
\* after the ramp they publish zero.
LEMMA LoopBrakes ==
  ASSUME Published, Published', Safety!ControlLoop(1)
  PROVE  /\ age' = IF age < CmdTimeout + 1 THEN age + 1 ELSE age
         /\ estop \/ age' > CmdTimeout => halt' = IF halt < Ramp THEN halt + 1 ELSE Ramp
         /\ halt' = Ramp => output'["linear"] = 0
<1>1. /\ age \in 0 .. CmdTimeout + 1 /\ CmdTimeout \in Nat /\ Ramp \in Nat \ {0}
      /\ halt \in 0 .. Ramp
  BY StackAssumption DEF Published, Safety!Inv, Safety!TypeOK
<1>2. age' = IF age < CmdTimeout + 1 THEN age + 1 ELSE age
  BY <1>1 DEF Safety!ControlLoop, Safety!AtMost
<1>3. estop \/ age' > CmdTimeout => halt' = IF halt < Ramp THEN halt + 1 ELSE Ramp
  BY <1>1 DEF Safety!ControlLoop, Safety!AtMost, Safety!Stale
<1>4. ASSUME halt' = Ramp PROVE output'["linear"] = 0
  <2> DEFINE o == output'["linear"]
  <2>1. o \in -Top .. Top /\ Top \in Nat /\ Accel \in Nat /\ Accel * Ramp >= Top
    BY StackAssumption DEF Published, Safety!Inv, Safety!TypeOK, Axis
  <2>2. o = 0 \/ Safety!Abs(o) + Accel * Ramp <= Top
    BY <1>4 DEF Published, Safety!Inv, Safety!StopEnvelope, Axis
  <2> HIDE DEF o
  <2>3. Accel * Ramp \in Nat
    BY <1>1, <2>1
  <2> DEFINE d == Accel * Ramp
  <2>4. d \in Nat /\ d >= Top /\ (o = 0 \/ Safety!Abs(o) + d <= Top)
    BY <2>1, <2>2, <2>3
  <2> HIDE DEF d
  <2>5. o = 0
    BY <2>1, <2>4 DEF Safety!Abs
  <2> QED BY <2>5 DEF o
<1> QED BY <1>2, <1>3, <1>4

-----------------------------------------------------------------------------
(* servo_controller in the composition.                                    *)

\* Every step of the composition is a step of servo_controller or none.
LEMMA ServoStep ==
  ASSUME Published', [Next]_vars
  PROVE  [Servo!Next]_(Servo!vars)
<1> USE DEF Servo!Next
<1>1. CASE SafetyLoop
  <2>1. output'["linear"] \in -Top .. Top
    BY DEF Published, Safety!Inv, Safety!TypeOK, Axis
  <2> QED BY <1>1, <2>1 DEF SafetyLoop
<1>2. CASE HearPlay
  BY <1>2 DEF HearPlay, servoVars, Servo!vars
<1>3. CASE Operator
  BY <1>3 DEF Operator
<1>4. CASE ServoTimers
  BY <1>4 DEF ServoTimers
<1>5. CASE Tick
  BY <1>5 DEF Tick
<1>6. CASE UNCHANGED servoVars
  BY <1>6 DEF servoVars, Servo!vars
<1> QED BY <1>1, <1>2, <1>3, <1>4, <1>5, <1>6
        DEF Next, Step, vars, DriverLoop, HearMode, HearPlayback, HearStatus, Course,
            Start, Crash, PressEStop

\* servo_controller behaves in the composition as its own module says.
THEOREM ServoImplemented == Spec => Servo!Spec
<1>1. Init => Servo!Init
  BY DEF Init
<1> QED BY <1>1, ServoStep, SafetyInv, PTL DEF Spec, Servo!Spec

\* So it keeps the invariant that is proved of it.
LEMMA ServoInv == Spec => []Servo!IInv
BY Constants, Servo!Inductive, ServoImplemented, PTL

-----------------------------------------------------------------------------
(* The messages on their way.                                              *)

\* What is queued, and the variables of the composition, have their types.
Queued ==
  /\ net \in Net /\ Len(net.mode) <= InFlight /\ Len(net.rp) <= InFlight
  /\ up \in BOOLEAN /\ due \in BOOLEAN
  /\ unled \in 0 .. Patience /\ job \in BOOLEAN

\* A step of servo_controller queues what it announces.
LEMMA SendsTyped ==
  ASSUME Queued, Servo!IInv', Sends
  PROVE  net' \in Net /\ Len(net'.mode) <= InFlight /\ Len(net'.rp) <= InFlight
<1>1. node'.told \in BOOLEAN /\ node'.rp \in Servo!RpState
  BY DEF Servo!IInv, Servo!TypeOK, Servo!Node
<1> DEFINE m == IF up /\ node'.told # node.told THEN Append(net.mode, node'.told)
                ELSE net.mode
           r == IF up /\ (node'.rp # node.rp \/ node'.idx # node.idx)
                THEN Append(net.rp, node'.rp) ELSE net.rp
<1>2. m \in Seq(BOOLEAN) /\ r \in Seq(Servo!RpState)
  <2>1. net.mode \in Seq(BOOLEAN) /\ net.rp \in Seq(Servo!RpState)
    BY DEF Queued, Net
  <2>2. Append(net.mode, node'.told) \in Seq(BOOLEAN)
    BY <1>1, <2>1, AppendProperties
  <2>3. Append(net.rp, node'.rp) \in Seq(Servo!RpState)
    BY <1>1, <2>1, AppendProperties
  <2> QED BY <2>1, <2>2, <2>3
<1>3. net' = [net EXCEPT !.mode = m, !.rp = r]
  BY DEF Sends, Sent, Queued, Net
<1> HIDE DEF m, r
<1>4. net' \in Net
  BY <1>2, <1>3 DEF Queued, Net
<1> QED BY <1>4 DEF Sends

\* Every step of the composition is a step of auto_driver, a restart or none.
LEMMA DriverStep ==
  ASSUME Queued, Published, [Next]_vars
  PROVE  [Driver!Next]_(Driver!vars) \/ Driver!Init'
<1> USE DEF Driver!Next
<1>1. CASE DriverLoop
  BY <1>1 DEF DriverLoop
<1>2. CASE HearMode
  <2>1. net.mode \in Seq(BOOLEAN) /\ net.mode # <<>>
    BY <1>2 DEF HearMode, Queued, Net
  <2>2. Head(net.mode) \in BOOLEAN
    BY <2>1, HeadTailProperties
  <2> QED BY <1>2, <2>2 DEF HearMode
<1>3. CASE HearPlayback
  <2>1. Head(net.rp) \in Servo!RpState
    BY <1>3 DEF HearPlayback, Queued, Net
  <2> QED BY <1>3, <2>1 DEF HearPlayback
<1>4. CASE HearStatus
  BY <1>4 DEF HearStatus, Published, Safety!Inv, Safety!TypeOK
<1>5. CASE Course
  BY <1>5 DEF Course
<1>6. CASE Crash
  BY <1>6 DEF Crash, Driver!Init
<1>7. CASE Tick
  BY <1>7 DEF Tick, driverVars, Driver!vars
<1>8. CASE UNCHANGED driverVars
  BY <1>8 DEF driverVars, Driver!vars
<1> QED BY <1>1, <1>2, <1>3, <1>4, <1>5, <1>6, <1>7, <1>8
        DEF Next, Step, vars, Start, SafetyLoop, PressEStop, HearPlay, Operator,
            ServoTimers

\* An empty queue is within every bound.
LEMMA NothingQueued ==
  /\ <<>> \in Seq(BOOLEAN) /\ <<>> \in Seq(Servo!RpState)
  /\ Len(<<>>) = 0 /\ 0 <= InFlight /\ 0 \in 0 .. Patience
<1>1. <<>> \in Seq(BOOLEAN) /\ <<>> \in Seq(Servo!RpState)
  BY EmptySeq
<1> QED BY <1>1, StackAssumption DEF Patience

\* A step keeps the types of the messages and of the history.
LEMMA QueuedStep ==
  ASSUME Queued, Driver!TypeOK', Servo!IInv', [Next]_vars
  PROVE  Queued'
<1>1. CASE UNCHANGED vars
  BY <1>1 DEF vars, Queued
<1>2. CASE Next
  <2>1. unled' \in 0 .. Patience /\ job' \in BOOLEAN
    <3>1. unled' \in 0 .. Patience
      BY <1>2, StackAssumption DEF Next, Observed, Queued, Patience
    <3>2. job' \in BOOLEAN
      BY <1>2 DEF Next, Observed
    <3> QED BY <3>1, <3>2
  <2>2. SUFFICES /\ net' \in Net /\ Len(net'.mode) <= InFlight /\ Len(net'.rp) <= InFlight
                 /\ up' \in BOOLEAN /\ due' \in BOOLEAN
    BY <2>1 DEF Queued
  <2>3. /\ net.mode \in Seq(BOOLEAN) /\ net.rp \in Seq(Servo!RpState) /\ net.play \in BOOLEAN
        /\ Len(net.mode) \in Nat /\ Len(net.rp) \in Nat /\ InFlight \in Nat
    BY StackAssumption DEF Queued, Net
  <2>4. CASE DriverLoop
    <3>1. out'.playback \in BOOLEAN
      BY DEF Driver!TypeOK, Driver!Out
    <3> QED BY <2>4, <3>1 DEF DriverLoop, Queued, Net
  <2>5. CASE HearMode
    <3> DEFINE t == Tail(net.mode)
    <3>1. t \in Seq(BOOLEAN) /\ Len(t) = Len(net.mode) - 1
      BY <2>3, <2>5, HeadTailProperties DEF HearMode
    <3>2. net' = [net EXCEPT !.mode = t] /\ UNCHANGED <<up, due>>
      BY <2>5 DEF HearMode, Queued, Net
    <3> HIDE DEF t
    <3>3. net' \in Net /\ net'.mode = t /\ net'.rp = net.rp
      BY <3>1, <3>2 DEF Queued, Net
    <3> QED BY <2>3, <3>1, <3>2, <3>3 DEF Queued
  <2>6. CASE HearPlayback
    <3> DEFINE t == Tail(net.rp)
    <3>1. t \in Seq(Servo!RpState) /\ Len(t) = Len(net.rp) - 1
      BY <2>3, <2>6, HeadTailProperties DEF HearPlayback
    <3>2. net' = [net EXCEPT !.rp = t] /\ UNCHANGED <<up, due>>
      BY <2>6 DEF HearPlayback, Queued, Net
    <3> HIDE DEF t
    <3>3. net' \in Net /\ net'.rp = t /\ net'.mode = net.mode
      BY <3>1, <3>2 DEF Queued, Net
    <3> QED BY <2>3, <3>1, <3>2, <3>3 DEF Queued
  <2>7. CASE Start
    BY <2>7 DEF Start, Queued
  <2>8. CASE Crash
    <3>1. net' = [net EXCEPT !.mode = <<>>, !.rp = <<>>] /\ up' = FALSE /\ due' = due
      BY <2>8 DEF Crash
    <3> QED BY <2>3, <3>1, NothingQueued DEF Queued, Net
  <2>9. CASE SafetyLoop
    BY <2>9, SendsTyped DEF SafetyLoop, Queued
  <2>10. CASE HearPlay
    <3>1. Append(net.rp, node'.rp) \in Seq(Servo!RpState)
      BY <2>3, AppendProperties DEF Servo!IInv, Servo!TypeOK, Servo!Node
    <3> DEFINE r == IF up THEN Append(net.rp, node'.rp) ELSE net.rp
    <3>2. r \in Seq(Servo!RpState)
      BY <2>3, <3>1
    <3>3. net' = [net EXCEPT !.play = FALSE, !.rp = r] /\ Len(net'.rp) <= InFlight
      BY <2>10 DEF HearPlay, Queued, Net
    <3> HIDE DEF r
    <3> QED BY <2>10, <3>2, <3>3 DEF HearPlay, Queued, Net
  <2>11. CASE Operator
    BY <2>11, SendsTyped DEF Operator, Queued
  <2>12. CASE ServoTimers
    BY <2>12, SendsTyped DEF ServoTimers, Queued
  <2>13. CASE Tick
    BY <2>13 DEF Tick, Queued
  <2>14. CASE HearStatus \/ Course \/ PressEStop
    BY <2>14 DEF HearStatus, Course, PressEStop, Queued
  <2> QED BY <1>2, <2>4, <2>5, <2>6, <2>7, <2>8, <2>9, <2>10, <2>11, <2>12, <2>13, <2>14
          DEF Next, Step
<1> QED BY <1>1, <1>2

\* auto_driver keeps the invariant that is proved of it, crashes included.
LEMMA DriverTyped == Spec => [](Queued /\ Driver!Inv)
<1>1. Init => Queued /\ Driver!Init
  <2> SUFFICES ASSUME Init PROVE Queued
    BY DEF Init
  <2>1. net = [mode |-> <<>>, rp |-> <<>>, play |-> FALSE]
    BY DEF Init
  <2>2. net \in Net /\ net.mode = <<>> /\ net.rp = <<>>
    BY <2>1, NothingQueued DEF Net
  <2> QED BY <2>2, NothingQueued DEF Init, Queued
<1>2. Driver!Init => Driver!Inv
  BY Constants, Driver!InitInv
<1>3. Queued /\ Published /\ [Next]_vars => [Driver!Next]_(Driver!vars) \/ Driver!Init'
  BY DriverStep
<1>4. Driver!Inv /\ [Driver!Next]_(Driver!vars) => Driver!Inv'
  BY Constants, Driver!NextInv
<1>5. Driver!Inv => Driver!TypeOK
  BY DEF Driver!Inv
<1>6. Queued /\ Driver!TypeOK' /\ Servo!IInv' /\ [Next]_vars => Queued'
  BY QueuedStep
<1> QED BY <1>1, <1>2, <1>3, <1>4, <1>5, <1>6, SafetyInv, ServoInv, PTL DEF Spec

\* auto_driver behaves in the composition as its own module says, or starts anew.
THEOREM DriverImplemented ==
  Spec => Driver!Init /\ [][[Driver!Next]_(Driver!vars) \/ Driver!Init']_vars
<1>1. Init => Driver!Init
  BY DEF Init
<1> QED BY <1>1, DriverStep, DriverTyped, SafetyInv, PTL DEF Spec

\* Every variable keeps its type, and the queues their bound.
THEOREM TypeCorrect == Spec => []TypeOK
<1>1. Published /\ Servo!IInv /\ Queued /\ Driver!Inv => TypeOK
  BY DEF TypeOK, Published, Safety!Inv, Servo!IInv, Queued, Driver!Inv
<1> QED BY <1>1, SafetyInv, ServoInv, DriverTyped, PTL

-----------------------------------------------------------------------------
(* The callbacks of servo_controller, seen from outside.                   *)

\* In automatic mode and outside a playback the car waits for a leader.
Led(n) == ~n.manual /\ n.rp # "PLAYBACK"

\* A method that leaves a waiting car waiting leaves it at rest.
Holds(n, m) ==
  Led(n) /\ Led(m) => m.target \in {n.target, 0} /\ (n.hw = 0 /\ n.target = 0 => m.hw = 0)

\* A joystick frame does not drive a car that waits: in automatic mode only the
\* mode button acts, and it leads into manual mode.
LEMMA OperateHolds ==
  ASSUME NEW n, Servo!NodeInv(n), Led(n), NEW r, NEW c \in -Top .. Top, NEW b
  PROVE  Holds(n, Servo!Operate(n, r, c, b))
<1> DEFINE n1 == Servo!RecordButton(n, r)
           n2 == Servo!PlayButton(n1, r)
           n3 == Servo!CyclePad(n2, r, b)
           n4 == Servo!ModeButton(n3, r)
           n5 == Servo!ManualDrive(n4, c)
<1>1. /\ n1.manual = n.manual /\ n1.rp # "PLAYBACK"
      /\ n1.target = n.target /\ n1.hw = n.hw
  BY DEF Servo!RecordButton, Servo!StartRecording, Servo!StopRecording, Servo!NodeInv,
         Servo!Node, Led
<1>2. Servo!NodeInv(n1)
  BY Constants, Servo!RecordButtonKeeps DEF Servo!Keeps
<1> HIDE DEF n1
<1>3. n2 = n1
  BY <1>1 DEF Servo!PlayButton, Led
<1> HIDE DEF n2
<1>4. n3 = n1
  BY <1>1, <1>3 DEF Servo!CyclePad, Led
<1> HIDE DEF n3
<1>5. Servo!NodeInv(n4)
  BY <1>2, <1>4, Constants, Servo!ModeButtonKeeps DEF Servo!Keeps
<1>6. n4 = n1 \/ n4.manual
  <2> DEFINE idle == IF n1.rp = "RECORDING" THEN Servo!StopRecording(n1) ELSE n1
             m == Servo!SetMode(idle, TRUE)
  <2>1. CASE r \cap {"START", "Y"} = {}
    BY <1>4, <2>1 DEF Servo!ModeButton
  <2>2. CASE r \cap {"START", "Y"} # {}
    <3>1. m.manual /\ Servo!StopRobot(m).manual
      BY <1>2 DEF Servo!NodeInv, Servo!Node, Servo!StopRecording, Servo!SetMode,
                  Servo!StopRobot
    <3>2. ~n1.manual /\ n1.rp # "PLAYBACK"
      BY <1>1 DEF Led
    <3>3. n4 = Servo!StopRobot(m)
      BY <1>4, <2>2, <3>1, <3>2 DEF Servo!ModeButton
    <3> QED BY <3>1, <3>3
  <2> QED BY <2>1, <2>2
<1> HIDE DEF n4
<1>7. n5 = n1 \/ n5.manual
  <2>1. Servo!ApplyHardware(n4, c).manual = n4.manual
    BY <1>5, Constants, Servo!ApplyHardwareKeeps
  <2> QED BY <1>1, <1>6, <2>1 DEF Servo!ManualDrive, Led
<1> HIDE DEF n5
<1>8. Holds(n, n5)
  BY <1>1, <1>7 DEF Holds, Led
<1> QED BY <1>8 DEF Servo!Operate, n1, n2, n3, n4, n5

\* A playback that is asked for with a recording in the buffer is under way.
LEMMA StartPlaybackPlays ==
  ASSUME NEW n, Servo!NodeInv(n), n.buf # <<>>
  PROVE  Servo!StartPlayback(n).rp = "PLAYBACK"
<1> DEFINE m == [n EXCEPT !.rp = "PLAYBACK", !.idx = 0, !.timer = TRUE]
           c == m.buf[1]
<1>1. /\ m.rp = "PLAYBACK" /\ m.idx = 0 /\ m.buf = n.buf /\ m \in Servo!Node
      /\ Len(m.buf) > 0
  <2>1. n \in Servo!Node /\ n.buf \in Seq(-Top .. Top)
    BY DEF Servo!NodeInv, Servo!Node
  <2>2. Len(n.buf) \in Nat \ {0}
    BY <2>1, EmptySeq
  <2>3. m.rp = "PLAYBACK" /\ m.idx = 0 /\ m.buf = n.buf /\ m \in Servo!Node
    BY <2>1 DEF Servo!Node, Servo!RpState
  <2> QED BY <2>2, <2>3
<1>2. Servo!StartPlayback(n) = Servo!PlaybackStep(m)
  BY DEF Servo!StartPlayback
<1> HIDE DEF m
<1>3. Servo!PlaybackStep(m) = [Servo!ApplyHardware(m, c) EXCEPT !.idx = 1]
  BY <1>1 DEF Servo!PlaybackStep
<1>4. [Servo!ApplyHardware(m, c) EXCEPT !.idx = 1].rp = "PLAYBACK"
  BY <1>1 DEF Servo!ApplyHardware, Servo!SendTarget, Servo!Node
<1> QED BY <1>2, <1>3, <1>4

\* No callback but /cmd_vel_auto drives a car that waits, and only time makes
\* the hardware loop due.
LEMMA WaitingHolds ==
  ASSUME Servo!IInv, Led(node),
         \/ Servo!JoyCallback \/ Servo!StopCmd \/ Servo!PlaybackCmd
         \/ Servo!JoyWatchdog \/ Servo!HardwareUpdateLoop \/ Servo!PlaybackTimer
         \/ UNCHANGED Servo!vars
  PROVE  Holds(node, node') /\ (clock'.hwDue => clock.hwDue)
<1>1. /\ Servo!NodeInv(node) /\ clock \in Servo!Clock /\ node \in Servo!Node
      /\ node.link /\ node.target \in -Top .. Top
  BY DEF Servo!IInv, Servo!TypeOK, Servo!NodeInv, Servo!Node
<1>2. /\ Servo!StopRobot(node).target = 0 /\ Servo!StopRobot(node).hw = 0
  BY <1>1 DEF Servo!StopRobot, Servo!Written, Servo!Node
<1>3. Holds(node, node)
  BY DEF Holds
<1>4. CASE Servo!JoyCallback
  <2> PICK f \in Frames : \/ Servo!JoyIgnored(f) \/ Servo!JoyUnlock(f)
                          \/ Servo!JoyNotNeutral(f) \/ Servo!JoyOperate(f)
    BY <1>4 DEF Servo!JoyCallback
  <2>1. CASE Servo!JoyIgnored(f)
    BY <1>3, <2>1 DEF Servo!JoyIgnored, Holds
  <2>2. CASE Servo!JoyUnlock(f) \/ Servo!JoyNotNeutral(f)
    BY <1>2, <2>2 DEF Servo!JoyUnlock, Servo!JoyNotNeutral, Holds
  <2>3. CASE Servo!JoyOperate(f)
    <3>1. f.stick \in -Top .. Top
      BY StackAssumption
    <3>2. PICK b : node' = Servo!Operate(node, f.pressed \ joy.prev, f.stick, b)
      BY <2>3 DEF Servo!JoyOperate
    <3> QED BY <1>1, <2>3, <3>1, <3>2, OperateHolds DEF Servo!JoyOperate
  <2> QED BY <2>1, <2>2, <2>3
<1>5. CASE Servo!StopCmd
  BY <1>1, <1>5 DEF Servo!StopCmd, Servo!StopRecording, Servo!Node, Servo!RpState,
                    Holds, Led
<1>6. CASE Servo!PlaybackCmd
  BY <1>1, <1>6, StartPlaybackPlays DEF Servo!PlaybackCmd, Holds, Led
<1>7. CASE Servo!JoyWatchdog
  BY <1>1, <1>7 DEF Servo!JoyWatchdog, Servo!SetMode, Servo!StopRobot, Servo!Written,
                    Servo!Node, Servo!Clock, Holds, Led
<1>8. CASE Servo!HardwareUpdateLoop
  BY <1>1, <1>8 DEF Servo!HardwareUpdateLoop, Servo!SetMode, Servo!StopRobot,
                    Servo!SendTarget, Servo!Written, Servo!Node, Servo!Clock, Holds, Led
<1>9. CASE Servo!PlaybackTimer
  BY <1>3, <1>9 DEF Servo!PlaybackTimer, Servo!PlaybackStep, Led
<1>10. CASE UNCHANGED Servo!vars
  BY <1>3, <1>10 DEF Servo!vars
<1> QED BY <1>4, <1>5, <1>6, <1>7, <1>8, <1>9, <1>10

\* A zero that reaches a car in automatic mode stops it, also when the last
\* command sent was zero and the board was written to since.
LEMMA ZeroReaches ==
  ASSUME Servo!IInv, Servo!CmdVelAuto(0), Led(node)
  PROVE  node'.target = 0 /\ node'.hw = 0 /\ clock' = clock
<1>1. node \in Servo!Node /\ node.link /\ node.hw \in {node.sent, 0}
  BY DEF Servo!IInv, Servo!NodeInv
<1> QED BY <1>1 DEF Servo!CmdVelAuto, Servo!ApplyHardware, Servo!SendTarget,
                    Servo!Written, Servo!Node, Led

-----------------------------------------------------------------------------
(* A car without a leader stands.                                          *)

\* The inductive invariant of the nodes and of what is between them.
Base == Published /\ Servo!IInv /\ Queued /\ Driver!Inv

\* It holds, because each of its parts does.
LEMMA BaseInv == Spec => []Base
BY SafetyInv, ServoInv, DriverTyped, PTL DEF Base

\* A reason to have no leader is a reason of a car that waits for one.
LEMMA Reasons ==
  Reason # None =>
    /\ Led(node)
    /\ \/ Reason = "estop" /\ estop
       \/ Reason = "driver" /\ ~estop /\ ~drv.see["auto"]
BY DEF Reason, Led

\* While the reason lasts, a step other than the safety loop and the passing of
\* time leaves the car at rest and the command of the safety node as it is.
LEMMA OtherStep ==
  ASSUME Base, Next, ~SafetyLoop, ~Tick, Reason # None, Reason' = Reason
  PROVE  /\ due' = due /\ unled' = unled /\ halt' = halt
         /\ Rest => Rest'
         /\ Reason = "driver" /\ ~estop => age' = age
<1>1. Led(node) /\ Led(node)'
  BY Reasons DEF Reason, Led
<1>2. Holds(node, node') /\ (clock'.hwDue => clock.hwDue)
  <2>1. \/ Servo!JoyCallback \/ Servo!StopCmd \/ Servo!PlaybackCmd
        \/ Servo!JoyWatchdog \/ Servo!HardwareUpdateLoop \/ Servo!PlaybackTimer
        \/ UNCHANGED Servo!vars
    BY DEF Next, Step, servoVars, Servo!vars, DriverLoop, HearMode, HearPlayback,
           HearStatus, Course, Start, Crash, PressEStop, HearPlay, Operator, ServoTimers
  <2> QED BY <1>1, <2>1, WaitingHolds DEF Base
<1>3. due' = due /\ output' = output /\ halt' = halt
  BY DEF Next, Step, safetyVars, DriverLoop, HearMode, HearPlayback, HearStatus, Course,
         Start, Crash, PressEStop, HearPlay, Operator, ServoTimers,
         Safety!RawCmd, Safety!EStop
<1>4. unled' = unled
  BY <1>2 DEF Next, Observed
<1>5. Rest => Rest'
  BY <1>1, <1>2, <1>3 DEF Rest, Holds, Led
<1>6. ASSUME Reason = "driver", ~estop PROVE age' = age
  <2>1. ~drv.see["auto"]
    BY <1>6, Reasons
  <2>2. CASE DriverLoop
    <3>1. out'.cmd = None
      BY <2>1, <2>2 DEF DriverLoop, Driver!AutoTick, Driver!ManualTick, Driver!Silent
    <3> QED BY <2>2, <3>1 DEF DriverLoop, safetyVars
  <2>3. CASE ~DriverLoop
    BY <2>3 DEF Next, Step, safetyVars, HearMode, HearPlayback, HearStatus, Course,
         Start, Crash, PressEStop, HearPlay, Operator, ServoTimers, Safety!EStop
  <2> QED BY <2>2, <2>3
<1> QED BY <1>3, <1>4, <1>5, <1>6

\* Every step keeps the invariant.
LEMMA UnledStep == ASSUME Base, Base', Unled, [Next]_vars PROVE Unled'
<1>1. /\ age \in 0 .. CmdTimeout + 1 /\ age' \in 0 .. CmdTimeout + 1 /\ CmdTimeout \in Nat
      /\ halt \in 0 .. Ramp /\ halt' \in 0 .. Ramp /\ Ramp \in Nat \ {0}
      /\ unled \in 0 .. Patience /\ due \in BOOLEAN /\ Patience = CmdTimeout + Ramp + 1
  BY StackAssumption DEF Base, Published, Safety!Inv, Safety!TypeOK, Queued, Patience
<1>2. CASE UNCHANGED vars
  BY <1>2 DEF vars, servoVars, driverVars, safetyVars, Unled, Aging, Braking, Loops,
              RestAfter, Rest, Reason
<1>3. CASE Next /\ (Reason' = None \/ Reason' # Reason)
  <2>1. unled' = 0
    BY <1>3 DEF Next, Observed
  <2>2. Aging' /\ Braking(0)' /\ Braking(CmdTimeout)'
    BY <1>1, <2>1 DEF Aging, Braking, Loops
  <2>3. RestAfter(Ramp)' /\ RestAfter(CmdTimeout + Ramp)'
    BY <1>1, <2>1 DEF RestAfter
  <2> QED BY <2>1, <2>2, <2>3 DEF Unled
<1>4. CASE Next /\ Reason # None /\ Reason' = Reason
  <2>0. /\ Led(node)
        /\ \/ Reason = "estop" /\ estop /\ Braking(0) /\ RestAfter(Ramp)
           \/ /\ Reason = "driver" /\ ~estop /\ ~drv.see["auto"]
              /\ Aging /\ Braking(CmdTimeout) /\ RestAfter(CmdTimeout + Ramp)
    BY <1>4, Reasons DEF Unled
  <2>1. CASE Tick
    <3>1. /\ due = FALSE /\ due' = TRUE /\ output' = output /\ age' = age /\ halt' = halt
          /\ node'.target = node.target /\ node'.hw = node.hw
          /\ unled' = IF unled < Patience THEN unled + 1 ELSE unled
      BY <1>4, <2>1 DEF Tick, Servo!Tick, safetyVars, Next, Observed, Base, Servo!IInv,
                        Servo!NodeInv, Servo!Node, Queued
    <3>2. Rest => Rest'
      BY <3>1 DEF Rest
    <3>3. ASSUME NEW k \in {Ramp, CmdTimeout + Ramp}, RestAfter(k) PROVE RestAfter(k)'
      BY <1>1, <3>1, <3>2, <3>3 DEF RestAfter
    <3>4. /\ Aging => Aging'
          /\ \A k \in {0, CmdTimeout} : Braking(k) => Braking(k)'
      BY <1>1, <3>1 DEF Aging, Braking, Loops
    <3> QED BY <1>1, <1>4, <2>0, <3>3, <3>4 DEF Unled
  <2>2. CASE SafetyLoop
    <3>1. /\ due = TRUE /\ due' = FALSE
          /\ age' = IF age < CmdTimeout + 1 THEN age + 1 ELSE age
          /\ estop \/ age' > CmdTimeout => halt' = IF halt < Ramp THEN halt + 1 ELSE Ramp
          /\ halt' = Ramp => output'["linear"] = 0
      BY <2>2, LoopBrakes DEF SafetyLoop, Base
    <3>2. unled' = unled
      BY <1>4, <2>2 DEF SafetyLoop, Servo!CmdVelAuto, Next, Observed
    <3>3. halt' = Ramp => Rest'
      BY <2>0, <2>2, <3>1, ZeroReaches DEF SafetyLoop, Base, Rest
    <3>4. CASE Reason = "estop" /\ estop
      <4>1. Braking(0)'
        BY <1>1, <2>0, <3>1, <3>2, <3>4 DEF Braking, Loops
      <4>2. RestAfter(Ramp)'
        BY <1>1, <3>1, <3>2, <3>3, <4>1 DEF Braking, Loops, RestAfter
      <4> QED BY <1>4, <3>4, <4>1, <4>2 DEF Unled
    <3>5. CASE Reason = "driver" /\ ~estop
      <4>1. Aging'
        BY <1>1, <2>0, <3>1, <3>2, <3>5 DEF Aging, Loops
      <4>2. Braking(CmdTimeout)'
        BY <1>1, <2>0, <3>1, <3>2, <3>5, <4>1 DEF Aging, Braking, Loops
      <4>3. RestAfter(CmdTimeout + Ramp)'
        BY <1>1, <3>1, <3>2, <3>3, <4>2 DEF Braking, Loops, RestAfter
      <4> QED BY <1>4, <3>5, <4>1, <4>2, <4>3 DEF Unled
    <3> QED BY <2>0, <3>4, <3>5
  <2>3. CASE ~Tick /\ ~SafetyLoop
    <3>1. /\ due' = due /\ unled' = unled /\ halt' = halt /\ (Rest => Rest')
          /\ Reason = "driver" /\ ~estop => age' = age
      BY <1>4, <2>3, OtherStep
    <3>2. ASSUME NEW k PROVE /\ RestAfter(k) => RestAfter(k)'
                             /\ Braking(k) => Braking(k)'
      BY <3>1 DEF RestAfter, Braking, Loops
    <3>3. Reason = "driver" /\ ~estop /\ Aging => Aging'
      BY <3>1 DEF Aging, Loops
    <3> QED BY <1>4, <2>0, <3>2, <3>3 DEF Unled
  <2> QED BY <2>1, <2>2, <2>3
<1> QED BY <1>2, <1>3, <1>4

\* A car without a leader, for an e-stop, a crash of auto_driver or a mode message
\* it missed, stands when cmd_timeout, the ramp of the slew limiter and the
\* period that was running are over.
THEOREM UnledTheorem == Spec => []UnledCarStands
<1>1. Init => Unled
  <2> SUFFICES ASSUME Init PROVE Unled
    OBVIOUS
  <2>1. node.manual
    BY DEF Init, Servo!Init
  <2>2. Reason = None
    BY <2>1 DEF Reason
  <2>3. /\ unled = 0 /\ due = TRUE /\ age = CmdTimeout + 1 /\ CmdTimeout \in Nat
        /\ halt = 0 /\ Ramp \in Nat \ {0}
    BY StackAssumption DEF Init, Safety!Init
  <2>4. /\ Aging /\ Braking(0) /\ Braking(CmdTimeout)
        /\ RestAfter(Ramp) /\ RestAfter(CmdTimeout + Ramp)
    BY <2>3 DEF Aging, Braking, Loops, RestAfter
  <2> QED BY <2>2, <2>3, <2>4 DEF Unled
<1>2. Unled /\ Base => UnledCarStands
  <2> SUFFICES ASSUME Unled, Base, unled >= Patience PROVE node.hw = 0
    BY DEF UnledCarStands
  <2>1. /\ CmdTimeout \in Nat /\ Ramp \in Nat \ {0} /\ Patience = CmdTimeout + Ramp + 1
        /\ unled \in Nat
    BY StackAssumption DEF Base, Queued, Patience
  <2>2. Reason # None
    BY <2>1 DEF Unled
  <2>3. RestAfter(Ramp) \/ RestAfter(CmdTimeout + Ramp)
    BY <2>2, Reasons DEF Unled
  <2> QED BY <2>1, <2>3 DEF RestAfter, Rest
<1> QED BY <1>1, <1>2, UnledStep, BaseInv, PTL DEF Spec

-----------------------------------------------------------------------------
(* The playback handshake closes late, never early.                        *)

\* Queues, at the end where messages are added and at the end where they are
\* heard.
LEMMA QueueFacts ==
  ASSUME NEW S, NEW q \in Seq(S), NEW v \in S
  PROVE  /\ Only(<<>>, v)
         /\ Only(q, v) => Only(Append(q, v), v)
         /\ \A u : After(Append(q, v), u) = v
         /\ q # <<>> =>
              /\ Only(q, v) => Head(q) = v /\ Only(Tail(q), v)
              /\ \A u : After(Tail(q), Head(q)) = After(q, u)
<1>1. Only(<<>>, v)
  BY DEF Only
<1> DEFINE a == Append(q, v)
           t == Tail(q)
<1>2. /\ a # <<>> /\ Len(a) = Len(q) + 1 /\ a[Len(a)] = v /\ Len(q) \in Nat
      /\ \A i \in 1 .. Len(q) : a[i] = q[i]
  BY AppendProperties
<1>3. ASSUME q # <<>>
      PROVE  /\ Head(q) = q[1] /\ Len(q) \in Nat \ {0}
             /\ t \in Seq(S) /\ Len(t) = Len(q) - 1
             /\ \A i \in 1 .. Len(t) : t[i] = q[i + 1]
             /\ t = <<>> <=> Len(q) = 1
  <2>1. /\ t \in Seq(S) /\ Len(t) = Len(q) - 1
        /\ \A i \in 1 .. Len(t) : t[i] = q[i + 1]
    BY <1>3, HeadTailProperties
  <2>2. Len(q) \in Nat \ {0} /\ Head(q) = q[1]
    BY <1>3, EmptySeq
  <2>3. t = <<>> <=> Len(t) = 0
    BY <2>1, EmptySeq
  <2> QED BY <2>1, <2>2, <2>3
<1> HIDE DEF a, t
<1>4. Only(q, v) => Only(a, v)
  BY <1>2 DEF Only
<1>5. \A u : After(a, u) = v
  BY <1>2 DEF After
<1>6. ASSUME q # <<>>
      PROVE  /\ Only(q, v) => Head(q) = v /\ Only(t, v)
             /\ \A u : After(t, Head(q)) = After(q, u)
  <2>1. Only(q, v) => Head(q) = v /\ Only(t, v)
    BY <1>3, <1>6 DEF Only
  <2>2. \A u : After(q, u) = q[Len(q)]
    BY <1>6 DEF After
  <2>3. After(t, Head(q)) = q[Len(q)]
    <3>1. CASE Len(q) = 1
      <4>1. t = <<>> /\ Head(q) = q[Len(q)]
        BY <1>3, <1>6, <3>1
      <4> QED BY <4>1 DEF After
    <3>2. CASE Len(q) # 1
      <4>1. t # <<>> /\ Len(t) \in 1 .. Len(t) /\ Len(t) + 1 = Len(q)
        BY <1>3, <1>6, <3>2
      <4>2. t[Len(t)] = q[Len(q)]
        BY <1>3, <1>6, <4>1
      <4> QED BY <4>1, <4>2 DEF After
    <3> QED BY <3>1, <3>2
  <2> QED BY <2>1, <2>2, <2>3
<1> QED BY <1>1, <1>4, <1>5, <1>6 DEF a, t

\* What a step makes of auto_driver's clock, and when it closes the parking.
LEMMA DriverFacts ==
  ASSUME Base, Next
  PROVE  /\ Tick \/ drv'.entryAge \in {drv.entryAge, 0}
         /\ ~drv.parkDone /\ drv'.parkDone =>
              drv.see["auto"] /\ drv.entryAge # 0 /\ drv.rp = "IDLE"
<1>1. drv \in Driver!Drv /\ drv.entryAge \in Nat /\ Grace \in Nat
  BY StackAssumption DEF Base, Driver!Inv, Driver!TypeOK, Driver!Drv
<1>2. CASE DriverLoop
  <2>1. /\ drv'.entryAge \in {drv.entryAge, 0}
        /\ ~drv.parkDone /\ drv'.parkDone =>
             drv.see["auto"] /\ drv.entryAge > Grace /\ drv.rp = "IDLE"
    BY <1>2, Constants, Driver!TickHandshake DEF DriverLoop, Base
  <2> QED BY <1>1, <2>1
<1>3. ASSUME NEW t, NEW v, Driver!BoolCallback(t, v)
      PROVE  drv'.entryAge = drv.entryAge /\ drv'.parkDone = drv.parkDone
  BY <1>1, <1>3 DEF Driver!BoolCallback, Driver!Heard, Driver!Drv
<1>4. CASE HearMode \/ HearStatus
  BY <1>3, <1>4 DEF HearMode, HearStatus
<1>5. CASE HearPlayback
  BY <1>1, <1>5 DEF HearPlayback, Driver!RpStateCallback, Driver!Drv
<1>6. CASE Course
  <2>1. CASE Driver!Restart(2)
    BY <1>1, <2>1 DEF Driver!Restart, Driver!StartLap, Driver!Drv
  <2> QED BY <1>3, <1>6, <2>1 DEF Course
<1>7. CASE Crash
  BY <1>7 DEF Crash, Driver!Booted
<1>8. CASE Tick
  BY <1>1, <1>8 DEF Tick, driverVars, Driver!TimePasses, Driver!Drv
<1>9. CASE UNCHANGED driverVars
  BY <1>9 DEF driverVars
<1> QED BY <1>2, <1>4, <1>5, <1>6, <1>7, <1>8, <1>9
        DEF Next, Step, Start, SafetyLoop, PressEStop, HearPlay, Operator, ServoTimers

\* What servo_controller sends while the movement is played on does not make
\* auto_driver believe in its end.
LEMMA SendsUnderWay ==
  ASSUME Base, Base', [Servo!Next]_(Servo!vars), Sends, UNCHANGED driverVars,
         UnderWay, node'.rp = "PLAYBACK"
  PROVE  UnderWay'
<1>1. /\ net.mode \in Seq(BOOLEAN) /\ net.rp \in Seq(Servo!RpState)
      /\ "PLAYBACK" \in Servo!RpState /\ FALSE \in BOOLEAN /\ net \in Net
  BY DEF Base, Queued, Net, Servo!RpState
<1>2. node'.told # node.told => node'.told = FALSE
  <2>1. node.manual => node'.manual
    BY Constants, Servo!NoAutoWhilePlaying DEF Base, UnderWay
  <2>2. node.told = ~node.manual /\ node'.told = ~node'.manual
    BY DEF Base, Servo!IInv, Servo!NodeInv
  <2> QED BY <2>1, <2>2
<1>3. /\ net'.mode \in {net.mode, Append(net.mode, FALSE)}
      /\ net'.rp \in {net.rp, Append(net.rp, "PLAYBACK")}
  BY <1>1, <1>2 DEF Sends, Sent, Net
<1>4. drv' = drv
  BY DEF driverVars
<1>5. CASE Unaware
  <2>1. Only(net.mode, FALSE) => Only(Append(net.mode, FALSE), FALSE)
    BY <1>1, QueueFacts
  <2> QED BY <1>3, <1>4, <1>5, <2>1 DEF Unaware, UnderWay
<1>6. CASE JustAsked
  <2>1. After(Append(net.rp, "PLAYBACK"), drv.rp) = "PLAYBACK"
    BY <1>1, QueueFacts
  <2> QED BY <1>3, <1>4, <1>6, <2>1 DEF JustAsked, UnderWay
<1>7. CASE Informed
  <2>1. Only(net.rp, "PLAYBACK") => Only(Append(net.rp, "PLAYBACK"), "PLAYBACK")
    BY <1>1, QueueFacts
  <2> QED BY <1>3, <1>4, <1>7, <2>1 DEF Informed, UnderWay
<1> QED BY <1>5, <1>6, <1>7 DEF UnderWay

\* Nor does what auto_driver hears.
LEMMA HearsUnderWay ==
  ASSUME Base, HearMode \/ HearPlayback, UnderWay
  PROVE  UnderWay'
<1>1. /\ net.mode \in Seq(BOOLEAN) /\ net.rp \in Seq(Servo!RpState)
      /\ "PLAYBACK" \in Servo!RpState /\ FALSE \in BOOLEAN /\ net \in Net
      /\ drv \in Driver!Drv /\ "auto" \in Driver!Flag
  BY DEF Base, Queued, Net, Servo!RpState, Driver!Inv, Driver!TypeOK, Driver!Flag
<1>2. CASE HearMode
  <2>1. /\ net.mode # <<>> /\ net'.mode = Tail(net.mode) /\ net'.rp = net.rp
        /\ node' = node
    BY <1>1, <1>2 DEF HearMode, Net, servoVars
  <2>2. /\ drv'.see["auto"] = Head(net.mode) /\ drv'.rp = drv.rp
        /\ drv'.entryAge = drv.entryAge
    BY <1>1, <1>2 DEF HearMode, Driver!BoolCallback, Driver!Heard, Driver!Drv
  <2>3. Only(net.mode, FALSE) => Head(net.mode) = FALSE /\ Only(Tail(net.mode), FALSE)
    BY <1>1, <2>1, QueueFacts
  <2> QED BY <2>1, <2>2, <2>3 DEF UnderWay, Unaware, JustAsked, Informed
<1>3. CASE HearPlayback
  <2>1. /\ net.rp # <<>> /\ net'.rp = Tail(net.rp) /\ net'.mode = net.mode
        /\ node' = node
    BY <1>1, <1>3 DEF HearPlayback, Net, servoVars
  <2>2. /\ drv'.rp = Head(net.rp) /\ drv'.see = drv.see
        /\ drv'.entryAge = drv.entryAge
    BY <1>1, <1>3 DEF HearPlayback, Driver!RpStateCallback, Driver!Drv
  <2>3. /\ Only(net.rp, "PLAYBACK") =>
             Head(net.rp) = "PLAYBACK" /\ Only(Tail(net.rp), "PLAYBACK")
        /\ After(Tail(net.rp), Head(net.rp)) = After(net.rp, drv.rp)
    BY <1>1, <2>1, QueueFacts
  <2> QED BY <2>1, <2>2, <2>3 DEF UnderWay, Unaware, JustAsked, Informed
<1> QED BY <1>2, <1>3

\* A node that is down stays ignorant.
LEMMA DownStep == ASSUME Base, Down, [Next]_vars PROVE Down'
<1>1. drv \in Driver!Drv /\ net \in Net
  BY DEF Base, Queued, Driver!Inv, Driver!TypeOK
<1>2. CASE Crash
  <2>1. /\ drv' = Driver!Booted
        /\ net' = [net EXCEPT !.mode = <<>>, !.rp = <<>>]
    BY <1>2 DEF Crash
  <2>2. drv'.see["auto"] = FALSE
    BY <2>1 DEF Driver!Booted, Driver!Flag
  <2> QED BY <1>1, <2>1, <2>2 DEF Down, Net
<1>3. CASE Start
  BY <1>3 DEF Start, Down
<1>4. CASE DriverLoop \/ HearStatus \/ Course
  <2>1. up /\ up' = up
    BY <1>4 DEF DriverLoop, HearStatus, Course
  <2> QED BY <2>1 DEF Down
<1>5. CASE HearMode \/ HearPlayback
  <2>1. (net.mode # <<>> \/ net.rp # <<>>) /\ up' = up
    BY <1>5 DEF HearMode, HearPlayback
  <2> QED BY <2>1 DEF Down
<1>6. CASE SafetyLoop \/ Operator \/ ServoTimers
  <2>1. UNCHANGED <<driverVars, up>> /\ net' = Sent
    BY <1>6 DEF SafetyLoop, Operator, ServoTimers, Sends
  <2>2. drv' = drv /\ up' = up
    BY <2>1 DEF driverVars
  <2>3. ~up => Sent.mode = net.mode /\ Sent.rp = net.rp
    BY <1>1 DEF Sent, Net
  <2> QED BY <2>1, <2>2, <2>3 DEF Down
<1>7. CASE HearPlay
  <2>1. ~up => net'.mode = net.mode /\ net'.rp = net.rp
    BY <1>1, <1>7 DEF HearPlay, Net
  <2> QED BY <1>7, <2>1 DEF HearPlay, driverVars, Down
<1>8. CASE PressEStop
  BY <1>8 DEF PressEStop, driverVars, Down
<1>9. CASE Tick
  BY <1>1, <1>9 DEF Tick, driverVars, Driver!TimePasses, Driver!Drv, Down
<1>10. CASE UNCHANGED vars
  BY <1>10 DEF vars, driverVars, Down
<1> QED BY <1>2, <1>3, <1>4, <1>5, <1>6, <1>7, <1>8, <1>9, <1>10 DEF Next, Step

\* A playback that is under way, and goes on, stays under way for auto_driver.
LEMMA UnderWayStep ==
  ASSUME Base, Base', Next, ~net.play, UnderWay, node'.rp = "PLAYBACK"
  PROVE  UnderWay'
<1>1. drv \in Driver!Drv /\ net \in Net /\ "auto" \in Driver!Flag
  BY DEF Base, Queued, Driver!Inv, Driver!TypeOK, Driver!Flag
<1>2. CASE DriverLoop
  <2>1. /\ drv'.rp = drv.rp /\ drv'.see["auto"] = drv.see["auto"]
        /\ drv'.entryAge \in {drv.entryAge, 0}
    BY <1>2, Constants, Driver!TickHandshake DEF DriverLoop, Base
  <2>2. net'.mode = net.mode /\ net'.rp = net.rp /\ node' = node
    BY <1>1, <1>2 DEF DriverLoop, Net, servoVars
  <2> QED BY <2>1, <2>2 DEF UnderWay, Unaware, JustAsked, Informed
<1>3. CASE HearMode \/ HearPlayback
  BY <1>3, HearsUnderWay
<1>4. CASE HearStatus \/ Course
  <2>1. net' = net /\ node' = node
    BY <1>4 DEF HearStatus, Course, servoVars
  <2>2. ASSUME NEW t, t # "auto", NEW v, Driver!BoolCallback(t, v)
        PROVE  /\ drv'.rp = drv.rp /\ drv'.see["auto"] = drv.see["auto"]
               /\ drv'.entryAge = drv.entryAge
    BY <1>1, <2>2 DEF Driver!BoolCallback, Driver!Heard, Driver!Drv
  <2>3. Driver!Restart(2) => /\ drv'.rp = drv.rp /\ drv'.see = drv.see
                             /\ drv'.entryAge = 0
    BY <1>1 DEF Driver!Restart, Driver!StartLap, Driver!Drv
  <2>4. /\ drv'.rp = drv.rp /\ drv'.see["auto"] = drv.see["auto"]
        /\ drv'.entryAge \in {drv.entryAge, 0}
    BY <1>4, <2>2, <2>3 DEF HearStatus, Course
  <2> QED BY <2>1, <2>4 DEF UnderWay, Unaware, JustAsked, Informed
<1>5. CASE Crash
  <2>1. /\ drv' = Driver!Booted /\ node' = node
        /\ net' = [net EXCEPT !.mode = <<>>, !.rp = <<>>]
    BY <1>5 DEF Crash, servoVars
  <2>2. drv'.see["auto"] = FALSE /\ net'.mode = <<>>
    BY <1>1, <2>1 DEF Driver!Booted, Driver!Flag, Net
  <2>3. Only(<<>>, FALSE)
    BY DEF Only
  <2> QED BY <2>1, <2>2, <2>3 DEF UnderWay, Unaware
<1>6. CASE Start \/ PressEStop
  BY <1>6 DEF Start, PressEStop, servoVars, driverVars,
              UnderWay, Unaware, JustAsked, Informed
<1>7. CASE SafetyLoop \/ Operator \/ ServoTimers
  <2>1. [Servo!Next]_(Servo!vars)
    BY ServoStep DEF Base
  <2> QED BY <1>7, <2>1, SendsUnderWay DEF SafetyLoop, Operator, ServoTimers, driverVars
<1>8. CASE Tick
  <2>1. /\ net.rp = <<>> /\ net' = net /\ node'.rp = "PLAYBACK"
        /\ drv'.rp = drv.rp /\ drv'.see = drv.see
    BY <1>1, <1>8 DEF Tick, Delivered, driverVars, Driver!TimePasses, Driver!Drv
  <2>2. After(<<>>, drv.rp) = drv.rp /\ Only(<<>>, "PLAYBACK")
    BY DEF After, Only
  <2> QED BY <2>1, <2>2 DEF UnderWay, Unaware, JustAsked, Informed
<1>9. CASE HearPlay
  BY <1>9 DEF HearPlay
<1> QED BY <1>2, <1>3, <1>4, <1>5, <1>6, <1>7, <1>8, <1>9 DEF Next, Step

\* The answer to a request reaches auto_driver before its grace period ends.
LEMMA HearPlayStep ==
  ASSUME Base, Base', Handshake, HearPlay, node'.rp = "PLAYBACK"
  PROVE  UnderWay'
<1>1. /\ net \in Net /\ net.rp \in Seq(Servo!RpState) /\ "PLAYBACK" \in Servo!RpState
      /\ drv.entryAge = 0 /\ drv' = drv /\ up \in BOOLEAN
  BY DEF Base, Queued, Net, Handshake, HearPlay, driverVars, Servo!RpState
<1>2. net'.mode = net.mode
  BY <1>1 DEF HearPlay, Net
<1>3. CASE up
  <2>1. net'.rp = Append(net.rp, "PLAYBACK")
    BY <1>1, <1>3 DEF HearPlay, Net
  <2>2. After(Append(net.rp, "PLAYBACK"), drv.rp) = "PLAYBACK"
    BY <1>1, QueueFacts
  <2> QED BY <1>1, <2>1, <2>2 DEF UnderWay, JustAsked
<1>4. CASE ~up
  <2>1. Only(<<>>, FALSE)
    BY DEF Only
  <2> QED BY <1>1, <1>2, <1>4, <2>1 DEF Handshake, Down, UnderWay, Unaware
<1> QED BY <1>1, <1>3, <1>4

\* Every step keeps the invariant.
LEMMA HandshakeStep == ASSUME Base, Base', Handshake, [Next]_vars PROVE Handshake'
<1>1. CASE UNCHANGED vars
  BY <1>1 DEF vars, servoVars, driverVars, Handshake, Down, UnderWay, Unaware,
              JustAsked, Informed
<1>2. CASE Next
  <2>1. net \in Net /\ net' \in Net /\ job' = (net'.play \/ (job /\ node'.rp = "PLAYBACK"))
    BY <1>2 DEF Base, Queued, Next, Observed
  <2>2. Down'
    BY <1>2, DownStep DEF Handshake
  <2>3. ASSUME net'.play PROVE drv'.entryAge = 0
    <3>1. CASE net.play
      BY <1>2, <2>3, <3>1, DriverFacts DEF Handshake, Tick, Delivered
    <3>2. CASE ~net.play
      <4>1. DriverLoop /\ out'.playback
        <5>1. ~DriverLoop => net'.play = net.play \/ net'.play = FALSE
          BY <1>2, <2>1 DEF Next, Step, Net, HearMode, HearPlayback, HearStatus, Course,
                 Start, Crash, SafetyLoop, PressEStop, HearPlay, Operator, ServoTimers,
                 Tick, Sends, Sent
        <5>2. DriverLoop => net'.play = (net.play \/ out'.playback)
          BY <2>1 DEF DriverLoop, Net
        <5> QED BY <2>3, <3>2, <5>1, <5>2
      <4> QED BY <4>1, Constants, Driver!TickHandshake DEF DriverLoop, Base
    <3> QED BY <3>1, <3>2
  <2>4. ASSUME job', ~net'.play PROVE UnderWay'
    <3>1. job /\ node'.rp = "PLAYBACK"
      BY <2>1, <2>4
    <3>2. CASE HearPlay
      BY <3>1, <3>2, HearPlayStep
    <3>3. CASE ~HearPlay
      <4>1. ~net.play
        BY <1>2, <2>1, <2>4, <3>3
           DEF Next, Step, Net, DriverLoop, HearMode, HearPlayback, HearStatus, Course,
               Start, Crash, SafetyLoop, PressEStop, Operator, ServoTimers, Tick,
               Sends, Sent
      <4> QED BY <1>2, <3>1, <4>1, UnderWayStep DEF Handshake
    <3> QED BY <3>2, <3>3
  <2> QED BY <2>1, <2>2, <2>3, <2>4 DEF Handshake
<1> QED BY <1>1, <1>2

\* For every timeout, library and length of the queues: auto_driver closes the
\* parking only when the movement it asked for is over, or was refused.
THEOREM HandshakeTheorem == Spec => HandshakeHolds
<1>1. Init => Handshake
  <2> SUFFICES ASSUME Init PROVE Handshake
    OBVIOUS
  <2>1. /\ net = [mode |-> <<>>, rp |-> <<>>, play |-> FALSE]
        /\ drv = Driver!Booted /\ job = FALSE
    BY DEF Init, Driver!Init
  <2>2. drv.see["auto"] = FALSE
    BY <2>1 DEF Driver!Booted, Driver!Flag
  <2> QED BY <2>1, <2>2 DEF Handshake, Down
<1>2. Base /\ Handshake /\ [Next]_vars => [~drv.parkDone /\ drv'.parkDone => ~job]_vars
  <2> SUFFICES ASSUME Base, Handshake, Next, ~drv.parkDone, drv'.parkDone, job
               PROVE  FALSE
    OBVIOUS
  <2>1. drv.see["auto"] /\ drv.entryAge # 0 /\ drv.rp = "IDLE"
    BY DriverFacts
  <2>2. UnderWay
    BY <2>1 DEF Handshake
  <2> QED BY <2>1, <2>2 DEF UnderWay, Unaware, JustAsked, Informed
<1> QED BY <1>1, <1>2, HandshakeStep, BaseInv, PTL DEF Spec, HandshakeHolds

-----------------------------------------------------------------------------
(* What the nodes guarantee, they guarantee together.                      *)

\* In the stack the car still stops when the joystick is lost or locked and when
\* /cmd_vel_auto is silent, the joystick and the stream leave a movement that is
\* played alone, the envelope brakes, and auto_driver, started late and crashed
\* at will, acts on every urgent claim and stands still while it parks.
THEOREM Inherited ==
  Spec =>
    /\ [](/\ Servo!JoyLossStops /\ Servo!LockedMeansStopped /\ Servo!AutoStreamGuard
          /\ Servo!ModeAnnounced /\ Safety!StopEnvelope
          /\ Driver!UrgentActsAtOnce /\ Driver!StopsHaveCause
          /\ Driver!ParkingStandsStill)
    /\ Servo!PlaybackOwnsMotors /\ Servo!PlaybackAdvances /\ Safety!CommandNears
<1>1. /\ Servo!Spec => []Servo!JoyLossStops
      /\ Servo!Spec => []Servo!LockedMeansStopped
      /\ Servo!Spec => []Servo!AutoStreamGuard
      /\ Servo!Spec => []Servo!ModeAnnounced
  BY Constants, Servo!JoyLossSafe, Servo!LockedSafe, Servo!StreamGuarded,
     Servo!ModeAlwaysAnnounced
<1>2. /\ Servo!Spec => Servo!PlaybackOwnsMotors
      /\ Servo!Spec => Servo!PlaybackAdvances
  BY Constants, Servo!PlaybackOwned, Servo!PlaybackForward
<1>3. /\ Safety!Spec => []Safety!StopEnvelope
      /\ Safety!Spec => Safety!CommandNears
  BY Constants, Safety!StopTheorem, Safety!NearsTheorem
<1>4. Driver!Inv => /\ Driver!UrgentActsAtOnce /\ Driver!StopsHaveCause
                    /\ Driver!ParkingStandsStill
  BY DEF Driver!Inv, Driver!TickInv
<1> QED BY <1>1, <1>2, <1>3, <1>4, ServoImplemented, SafetyImplemented, DriverTyped, PTL
===============================================================================
