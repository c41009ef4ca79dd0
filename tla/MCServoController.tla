-------------------------- MODULE MCServoController --------------------------
(* Small instances of ServoController: one or two moving commands, frames   *)
(* that press at most two controls, one or two recordings on disk.          *)
EXTENDS ServoController

CONSTANTS Go, Turn

MCCmd == {Stop, Go}
WithTurn == {Stop, Go, Turn}

Frame(p, s) == [pressed |-> p, stick |-> s]

\* Driving, recording, playing, switching modes and selecting, with two chords.
DriveFrames ==
  {Frame({}, Stop), Frame({}, Go), Frame({"A"}, Stop), Frame({"X"}, Go),
   Frame({"A", "X"}, Stop), Frame({"Y"}, Go), Frame({"UP", "LEFT"}, Stop)}

\* A joystick that drives and switches modes, for the liveness runs.
FewFrames == {Frame({}, Go), Frame({"X"}, Stop), Frame({"Y"}, Stop)}

OneRecording == {<<Go>>}
TwoRecordings == {<<Go>>, <<Go, Stop>>}

\* A recording that still moves the car after its first sample.
TurningRecording == {<<Go, Turn>>}
=============================================================================
