------------------------------ MODULE CmdSafety ------------------------------
(***************************************************************************)
(* The node cmd_safety_controller: the envelope between the challenge      *)
(* state machine and the motors.  It clamps the last raw command, limits   *)
(* its rate of change, applies a deadband and publishes on every loop,     *)
(* whether or not a raw command has arrived; an e-stop or a silent input   *)
(* makes it steer for zero.                                                *)
(*                                                                         *)
(* The two axes of a Twist are the channels.  Speeds are integers, and     *)
(* time is counted in loop intervals dt: the clock is read once per loop,  *)
(* so messages that arrive between two loops count from the earlier one.   *)
(***************************************************************************)
EXTENDS Integers

CONSTANTS
  Channel,     \* linear.x and angular.z
  Speed,       \* values a raw command may have on a channel
  Limit,       \* values max_linear_speed / max_angular_speed may be given
  Accel,       \* max_linear_accel / max_angular_accel, per unit of time
  Deadband,    \* deadband_linear / deadband_angular
  Timeout,     \* cmd_timeout
  Interval,    \* how far apart two loops may run
  Top,         \* the largest element of Limit
  HaltMax      \* bound of the time counted since the last stop cause began

ASSUME CmdSafetyAssumption ==
  /\ Speed \subseteq Int /\ 0 \in Speed
  /\ Limit \subseteq Nat /\ Top \in Limit /\ \A m \in Limit : m <= Top
  /\ Accel \in [Channel -> Nat] /\ Deadband \in [Channel -> Nat]
  /\ Timeout \in Nat /\ HaltMax \in Nat
  /\ Interval \subseteq Nat \ {0}

VARIABLES
  target,  \* target_cmd
  output,  \* output_cmd
  estop,   \* estop
  age,     \* now - last_input_t at the last loop, saturated above Timeout
  limit,   \* max_linear_speed, max_angular_speed
  halt,    \* history: time for which every loop has steered for zero
  dt       \* history: the interval before the last loop, 0 after other steps

vars == <<target, output, estop, age, limit, halt, dt>>

\* The type of output includes that no speed exceeds the largest limit.
TypeOK ==
  /\ target \in [Channel -> Speed] /\ output \in [Channel -> -Top .. Top]
  /\ estop \in BOOLEAN /\ age \in 0 .. Timeout + 1
  /\ limit \in [Channel -> Limit]
  /\ halt \in 0 .. HaltMax /\ dt \in Interval \cup {0}

\* last_input_t starts at 0.0, long before the first loop.
Init ==
  /\ target = [c \in Channel |-> 0] /\ output = [c \in Channel |-> 0]
  /\ estop = FALSE /\ age = Timeout + 1
  /\ limit = [c \in Channel |-> Top]
  /\ halt = 0 /\ dt = 0

-----------------------------------------------------------------------------
AtMost(x, bound) == IF x < bound THEN x ELSE bound
Abs(x) == IF x < 0 THEN -x ELSE x

Clamp(x, m) == IF x > m THEN m ELSE IF x < -m THEN -m ELSE x

\* Mutant: the limiter never quite arrives.
SlewNeverArrives(current, goal, step) ==
  IF goal > current + step THEN current + step
  ELSE IF goal < current - step THEN current - step
  ELSE current

\* _slew: one step towards goal.
Slew(current, goal, step) ==
  IF goal > current + step THEN current + step
  ELSE IF goal < current - step THEN current - step
  ELSE goal

Deadened(x, d) == IF Abs(x) < d THEN 0 ELSE x

\* Mutant: the input never goes stale.
StaleNever(a) == FALSE

Stale(a) == a > Timeout

\* Mutant: the e-stop does not override a fresh command.
GoalNoStop(c, a) == IF Stale(a) THEN 0 ELSE Clamp(target[c], limit[c])

\* What the loop steers for on channel c when the input is a old.
Goal(c, a) == IF estop \/ Stale(a) THEN 0 ELSE Clamp(target[c], limit[c])

-----------------------------------------------------------------------------
RawCmd(t) ==
  /\ target' = t /\ age' = 0 /\ dt' = 0
  /\ UNCHANGED <<output, estop, limit, halt>>

EStop(v) ==
  /\ estop' = v /\ dt' = 0
  /\ UNCHANGED <<target, output, age, limit, halt>>

SetLimit(c, m) ==
  /\ limit' = [limit EXCEPT ![c] = m] /\ dt' = 0
  /\ UNCHANGED <<target, output, estop, age, halt>>

ControlLoop(i) ==
  LET a == AtMost(age + i, Timeout + 1)
  IN  /\ output' = [c \in Channel |->
                      Deadened(Slew(output[c], Goal(c, a), Accel[c] * i), Deadband[c])]
      /\ age' = a
      /\ halt' = IF estop \/ Stale(a) THEN AtMost(halt + i, HaltMax) ELSE 0
      /\ dt' = i
      /\ UNCHANGED <<target, estop, limit>>

Next ==
  \/ \E t \in [Channel -> Speed] : RawCmd(t)
  \/ \E v \in BOOLEAN : EStop(v)
  \/ \E c \in Channel, m \in Limit : SetLimit(c, m)
  \/ \E i \in Interval : ControlLoop(i)

Spec == Init /\ [][Next]_vars

\* The timer of the loop keeps firing.
FairSpec == Spec /\ WF_vars(\E i \in Interval : ControlLoop(i))

-----------------------------------------------------------------------------
(* Properties.                                                             *)

\* The stopping envelope: once every loop steers for zero, be it for an e-stop
\* or a silent input, the speed shrinks with the full deceleration; so it is
\* bounded by the largest limit ever set, and zero after Top / Accel (0.30 m/s
\* at 0.8 m/s^2: some 19 loops, which is not the one that the guide promises).
StopEnvelope ==
  \A c \in Channel : output[c] = 0 \/ Abs(output[c]) + Accel[c] * halt <= Top

\* One loop changes a speed by what the acceleration allows in the time since
\* the last one, save a last jump to zero across the deadband.
SlewBound ==
  [][\A c \in Channel :
       LET jump == Abs(output'[c] - output[c])
       IN  \/ jump <= Accel[c] * dt'
           \/ output'[c] = 0 /\ jump < Accel[c] * dt' + Deadband[c]]_vars

\* A published speed is never inside the deadband.
AboveDeadband ==
  \A c \in Channel : output[c] = 0 \/ Abs(output[c]) >= Deadband[c]

\* One loop can move the output, and across the deadband (at publish_hz = 100
\* the default acceleration could not).
CanStart ==
  \A c \in Channel, i \in Interval : Accel[c] > 0 /\ Accel[c] * i >= Deadband[c]

\* Then every loop arrives at what it steers for or comes nearer to it, although
\* the deadband may throw it back to zero on the way.
CommandNears ==
  [][CanStart /\ dt' # 0 =>
       \A c \in Channel :
         LET g == Goal(c, age')
         IN  \/ output'[c] = Deadened(g, Deadband[c])
             \/ Abs(output'[c] - g) < Abs(output[c] - g)]_vars

\* So the envelope does not swallow a lasting command: if target and limit
\* stand, the input stays fresh and no e-stop comes, the output reaches the
\* clamped command.
CommandFollowed ==
  CanStart =>
    \A c \in Channel, s \in Speed, m \in Limit :
      <>[](target[c] = s /\ limit[c] = m /\ ~estop /\ age <= Timeout)
        => <>[](output[c] = Deadened(Clamp(s, m), Deadband[c]))
==============================================================================
