------------------------------ MODULE MCStack ------------------------------
(***************************************************************************)
(* Instances of Stack: the joystick drives at full speed or switches the   *)
(* mode, and there is one recording or none.                               *)
(***************************************************************************)
EXTENDS Stack

DriveOrSwitch == {[pressed |-> {}, stick |-> Top], [pressed |-> {"Y"}, stick |-> 0]}
OneRecording == {<<Top>>}
LongerRecording == {<<Top, 1>>}

\* What the next-state relation reads of auto_driver: with a dwell time of zero,
\* its challenge state and the age of it only while it parks, and neither its
\* last command nor its history.
DriverView ==
  << drv.see, drv.rp, drv.lap, drv.parkActive, drv.parkDone,
     IF drv.state \in {"PARKING_IDLE", "PARKING_PLAYBACK"}
     THEN <<drv.state, drv.entryAge>> ELSE None >>

\* Of servo_controller: the age of the command stream counts in automatic mode
\* only, the index during a playback.
ServoView ==
  [node EXCEPT !.autoAge = IF node.manual THEN 0 ELSE @,
               !.idx = IF node.rp = "PLAYBACK" THEN @ ELSE 0]

\* Of the safety controller: a command that the next loop finds stale is not
\* looked at, and neither is its age.
SafetyView ==
  << output, estop, IF age < CmdTimeout THEN <<target, age>> ELSE None >>

Read == << ServoView, joy, clock, DriverView, SafetyView,
           net, up, due, unled, job >>

\* With what tells whether the loop has run since the e-stop.
ReadWithLoop == <<Read, dt>>
=============================================================================
