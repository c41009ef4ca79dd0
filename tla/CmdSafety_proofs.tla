-------------------------- MODULE CmdSafety_proofs --------------------------
(***************************************************************************)
(* Theorems about the command envelope, for any limits, accelerations,     *)
(* deadbands and loop jitter.                                              *)
(***************************************************************************)
EXTENDS CmdSafety, TLAPS

-----------------------------------------------------------------------------
(* Arithmetic of the three stages, for numbers.                            *)

\* A longer braking time brakes more.
LEMMA Scale ==
  ASSUME NEW a \in Nat, NEW x \in Nat, NEW y \in Nat
  PROVE  /\ a * x \in Nat
         /\ a * (x + y) = a * x + a * y
         /\ x <= y => a * x <= a * y
OBVIOUS

\* One step of the limiter stays within the step, between where it was and the
\* goal, and brakes at the full rate when the goal is zero.
LEMMA SlewFacts ==
  ASSUME NEW x \in Int, NEW g \in Int, NEW s \in Nat, NEW m \in Nat,
         Abs(x) <= m, Abs(g) <= m
  PROVE  /\ Slew(x, g, s) \in Int /\ Abs(Slew(x, g, s)) <= m
         /\ Abs(Slew(x, g, s) - x) <= s
         /\ g = 0 => Slew(x, g, s) = 0 \/ Abs(Slew(x, g, s)) + s = Abs(x)
BY DEF Slew, Abs

\* The deadband only ever moves a value to zero.
LEMMA DeadenedFacts ==
  ASSUME NEW x \in Int, NEW d \in Nat
  PROVE  \/ Deadened(x, d) = 0 /\ Abs(x) < d
         \/ Deadened(x, d) = x /\ Abs(x) >= d
BY DEF Deadened, Abs

\* The clamp respects the largest limit.
LEMMA ClampFacts ==
  ASSUME NEW x \in Int, NEW m \in Nat, NEW n \in Nat, m <= n
  PROVE  Clamp(x, m) \in Int /\ Abs(Clamp(x, m)) <= n
BY DEF Clamp, Abs

-----------------------------------------------------------------------------
\* What one loop does to one channel.
LEMMA LoopChannel ==
  ASSUME TypeOK, NEW i \in Interval, ControlLoop(i), NEW c \in Channel
  PROVE  /\ output'[c] \in -Top .. Top
         /\ output'[c] = 0 \/ Abs(output'[c]) >= Deadband[c]
         /\ \/ Abs(output'[c] - output[c]) <= Accel[c] * i
            \/ output'[c] = 0 /\ Abs(output'[c] - output[c]) < Accel[c] * i + Deadband[c]
         /\ estop \/ Stale(AtMost(age + i, Timeout + 1)) =>
              output'[c] = 0 \/ Abs(output'[c]) + Accel[c] * i = Abs(output[c])
<1> DEFINE a == AtMost(age + i, Timeout + 1)
           x == output[c]
           g == Goal(c, a)
           s == Accel[c] * i
           y == Slew(x, g, s)
           d == Deadband[c]
<1>1. /\ x \in Int /\ Top \in Nat /\ Abs(x) <= Top /\ d \in Nat /\ i \in Nat
      /\ Accel[c] \in Nat
  BY CmdSafetyAssumption DEF TypeOK, Abs
<1>2. s \in Nat
  BY <1>1, Scale
<1>3. /\ g \in Int /\ Abs(g) <= Top
      /\ estop \/ Stale(a) => g = 0
  <2>1. target[c] \in Int /\ limit[c] \in Nat /\ limit[c] <= Top
    BY CmdSafetyAssumption DEF TypeOK
  <2>2. Clamp(target[c], limit[c]) \in Int /\ Abs(Clamp(target[c], limit[c])) <= Top
    BY <2>1, <1>1, ClampFacts
  <2> QED BY <2>2, <1>1 DEF Goal, Abs
<1>4. output'[c] = Deadened(y, d)
  BY DEF ControlLoop
<1> HIDE DEF x, g, s, y, d, a
<1>5. /\ y \in Int /\ Abs(y) <= Top /\ Abs(y - x) <= s
      /\ g = 0 => y = 0 \/ Abs(y) + s = Abs(x)
  BY <1>1, <1>2, <1>3, SlewFacts DEF y
<1>6. \/ output'[c] = 0 /\ Abs(y) < d
      \/ output'[c] = y /\ Abs(y) >= d
  BY <1>1, <1>4, <1>5, DeadenedFacts
<1>7. output'[c] \in -Top .. Top
  BY <1>1, <1>5, <1>6 DEF Abs
<1>8. output'[c] = 0 \/ Abs(output'[c]) >= d
  BY <1>6
<1>9. \/ Abs(output'[c] - x) <= s
      \/ output'[c] = 0 /\ Abs(output'[c] - x) < s + d
  BY <1>1, <1>2, <1>5, <1>6 DEF Abs
<1>10. estop \/ Stale(a) => output'[c] = 0 \/ Abs(output'[c]) + s = Abs(x)
  BY <1>3, <1>5, <1>6
<1> QED BY <1>7, <1>8, <1>9, <1>10 DEF x, s, d, a

Inv == TypeOK /\ StopEnvelope /\ AboveDeadband

\* The node starts at rest.
LEMMA InitInv == Init => Inv
<1> SUFFICES ASSUME Init PROVE Inv
  OBVIOUS
<1>1. Top \in Nat /\ 0 \in -Top .. Top /\ Top \in Limit /\ Timeout + 1 \in 0 .. Timeout + 1
      /\ 0 \in 0 .. HaltMax
  BY CmdSafetyAssumption
<1>2. TypeOK
  BY <1>1, CmdSafetyAssumption DEF Init, TypeOK
<1>3. StopEnvelope /\ AboveDeadband
  BY DEF Init, StopEnvelope, AboveDeadband
<1> QED BY <1>2, <1>3 DEF Inv

\* A loop keeps the envelope and respects the acceleration.
LEMMA LoopInv ==
  ASSUME Inv, NEW i \in Interval, ControlLoop(i)
  PROVE  /\ Inv'
         /\ \A c \in Channel :
              \/ Abs(output'[c] - output[c]) <= Accel[c] * dt'
              \/ output'[c] = 0
                 /\ Abs(output'[c] - output[c]) < Accel[c] * dt' + Deadband[c]
<1> DEFINE a == AtMost(age + i, Timeout + 1)
<1>1. TypeOK /\ i \in Nat /\ age \in Nat /\ halt \in Nat /\ Timeout \in Nat
      /\ HaltMax \in Nat /\ Top \in Nat
  BY CmdSafetyAssumption DEF Inv, TypeOK
<1>2. /\ age' = a /\ dt' = i
      /\ halt' = IF estop \/ Stale(a) THEN AtMost(halt + i, HaltMax) ELSE 0
      /\ UNCHANGED <<target, estop, limit>>
  BY DEF ControlLoop
<1>3. a \in 0 .. Timeout + 1
  BY <1>1 DEF AtMost
<1>4. halt' \in 0 .. HaltMax /\ halt' <= halt + i /\ (~(estop \/ Stale(a)) => halt' = 0)
  BY <1>1, <1>2 DEF AtMost
<1>5. \A c \in Channel :
        /\ output'[c] \in -Top .. Top
        /\ output'[c] = 0 \/ Abs(output'[c]) >= Deadband[c]
        /\ \/ Abs(output'[c] - output[c]) <= Accel[c] * i
           \/ output'[c] = 0 /\ Abs(output'[c] - output[c]) < Accel[c] * i + Deadband[c]
        /\ estop \/ Stale(a) =>
             output'[c] = 0 \/ Abs(output'[c]) + Accel[c] * i = Abs(output[c])
  BY <1>1, LoopChannel
<1> HIDE DEF a
<1>6. TypeOK'
  <2>1. output' \in [Channel -> -Top .. Top]
    BY <1>5 DEF ControlLoop
  <2> QED BY <1>1, <1>2, <1>3, <1>4, <2>1 DEF TypeOK
<1>7. AboveDeadband'
  BY <1>5 DEF AboveDeadband
<1>8. StopEnvelope'
  <2> SUFFICES ASSUME NEW c \in Channel
               PROVE  output'[c] = 0 \/ Abs(output'[c]) + Accel[c] * halt' <= Top
    BY DEF StopEnvelope
  <2>1. Accel[c] \in Nat /\ output[c] \in Int /\ output'[c] \in -Top .. Top /\ halt' \in Nat
    BY <1>1, <1>4, <1>5, CmdSafetyAssumption DEF TypeOK
  <2>2. Accel[c] * halt' <= Accel[c] * halt + Accel[c] * i
    <3>1. halt + i \in Nat
      BY <1>1
    <3>2. Accel[c] * halt' <= Accel[c] * (halt + i)
      BY <1>4, <2>1, <3>1, Scale
    <3>3. Accel[c] * (halt + i) = Accel[c] * halt + Accel[c] * i
      BY <1>1, <2>1, Scale
    <3> QED BY <3>2, <3>3
  <2>3. /\ Accel[c] * halt \in Nat /\ Accel[c] * i \in Nat /\ Accel[c] * halt' \in Nat
        /\ Accel[c] * 0 = 0
    BY <1>1, <2>1, Scale
  <2>4. CASE estop \/ Stale(a)
    <3>1. CASE output'[c] = 0
      BY <3>1
    <3>2. CASE Abs(output'[c]) + Accel[c] * i = Abs(output[c])
      <4>1. Abs(output'[c]) \in Nat /\ Abs(output[c]) \in Nat
        BY <1>1, <2>1 DEF Abs
      <4>2. CASE output[c] = 0
        <5>1. Abs(output[c]) = 0
          BY <4>2 DEF Abs
        <5>2. Abs(output'[c]) = 0
          BY <3>2, <4>1, <5>1, <2>3
        <5> QED BY <5>2, <1>1, <2>1 DEF Abs
      <4>3. CASE Abs(output[c]) + Accel[c] * halt <= Top
        BY <3>2, <4>1, <4>3, <2>2, <2>3, <1>1
      <4> QED BY <4>2, <4>3 DEF Inv, StopEnvelope
    <3> QED BY <3>1, <3>2, <2>4, <1>5
  <2>5. CASE ~(estop \/ Stale(a))
    <3>1. halt' = 0
      BY <1>4, <2>5
    <3>2. Abs(output'[c]) <= Top /\ Abs(output'[c]) \in Nat
      BY <1>1, <2>1 DEF Abs
    <3> QED BY <3>1, <3>2, <2>3, <1>1
  <2> QED BY <2>4, <2>5
<1>9. \A c \in Channel :
        \/ Abs(output'[c] - output[c]) <= Accel[c] * dt'
        \/ output'[c] = 0 /\ Abs(output'[c] - output[c]) < Accel[c] * dt' + Deadband[c]
  BY <1>2, <1>5
<1> QED BY <1>6, <1>7, <1>8, <1>9 DEF Inv

\* The callbacks do not touch the output.
LEMMA CallbackInv ==
  ASSUME Inv,
         \/ \E t \in [Channel -> Speed] : RawCmd(t)
         \/ \E v \in BOOLEAN : EStop(v)
         \/ \E c \in Channel, m \in Limit : SetLimit(c, m)
  PROVE  Inv' /\ UNCHANGED output /\ dt' = 0
<1>1. UNCHANGED output /\ UNCHANGED halt /\ dt' = 0
  BY DEF RawCmd, EStop, SetLimit
<1>2. TypeOK'
  <2>1. CASE \E t \in [Channel -> Speed] : RawCmd(t)
    BY <2>1, CmdSafetyAssumption DEF Inv, TypeOK, RawCmd
  <2>2. CASE \E v \in BOOLEAN : EStop(v)
    BY <2>2 DEF Inv, TypeOK, EStop
  <2>3. ASSUME NEW c \in Channel, NEW m \in Limit, SetLimit(c, m) PROVE TypeOK'
    BY <2>3 DEF Inv, TypeOK, SetLimit
  <2> QED BY <2>1, <2>2, <2>3
<1>3. StopEnvelope' /\ AboveDeadband'
  BY <1>1 DEF Inv, StopEnvelope, AboveDeadband
<1> QED BY <1>1, <1>2, <1>3 DEF Inv

-----------------------------------------------------------------------------
(* The theorems.                                                           *)

\* The envelope is inductive.
THEOREM Inductive == Spec => []Inv
<1>1. Inv /\ [Next]_vars => Inv'
  <2> SUFFICES ASSUME Inv, [Next]_vars PROVE Inv'
    OBVIOUS
  <2>1. CASE Next
    BY <2>1, LoopInv, CallbackInv DEF Next
  <2>2. CASE UNCHANGED vars
    BY <2>2 DEF vars, Inv, TypeOK, StopEnvelope, AboveDeadband
  <2> QED BY <2>1, <2>2
<1> QED BY <1>1, InitInv, PTL DEF Spec

\* No published speed ever exceeds the largest limit set.
THEOREM TypeCorrect == Spec => []TypeOK
<1>1. Inv => TypeOK BY DEF Inv
<1> QED BY <1>1, Inductive, PTL

\* After an e-stop or with a silent input the car brakes at the full rate.
THEOREM StopTheorem == Spec => []StopEnvelope
<1>1. Inv => StopEnvelope BY DEF Inv
<1> QED BY <1>1, Inductive, PTL

\* No speed inside the deadband is published.
THEOREM DeadbandTheorem == Spec => []AboveDeadband
<1>1. Inv => AboveDeadband BY DEF Inv
<1> QED BY <1>1, Inductive, PTL

\* The acceleration limit holds at every loop, however late it runs.
THEOREM SlewTheorem == Spec => SlewBound
<1> DEFINE Step == \A c \in Channel :
                     LET jump == Abs(output'[c] - output[c])
                     IN  \/ jump <= Accel[c] * dt'
                         \/ output'[c] = 0 /\ jump < Accel[c] * dt' + Deadband[c]
<1>1. Inv /\ [Next]_vars => [Step]_vars
  <2> SUFFICES ASSUME Inv, Next PROVE Step
    OBVIOUS
  <2>1. CASE \E i \in Interval : ControlLoop(i)
    BY <2>1, LoopInv
  <2>2. CASE \/ \E t \in [Channel -> Speed] : RawCmd(t)
             \/ \E v \in BOOLEAN : EStop(v)
             \/ \E c \in Channel, m \in Limit : SetLimit(c, m)
    <3>1. UNCHANGED output /\ dt' = 0
      BY <2>2, CallbackInv
    <3> SUFFICES ASSUME NEW c \in Channel
                 PROVE  Abs(output'[c] - output[c]) <= Accel[c] * dt'
      OBVIOUS
    <3>2. output[c] \in Int /\ Accel[c] \in Nat
      BY CmdSafetyAssumption DEF Inv, TypeOK
    <3> QED BY <3>1, <3>2 DEF Abs
  <2> QED BY <2>1, <2>2 DEF Next
<1> QED BY <1>1, Inductive, PTL DEF Spec, SlewBound

-----------------------------------------------------------------------------
(* A lasting command is followed: what there is to it besides fairness.    *)

\* One step of the limiter, and the deadband after it, arrive or come nearer.
LEMMA NearerNumbers ==
  ASSUME NEW x \in Int, NEW g \in Int, NEW s \in Nat \ {0}, NEW d \in Nat, s >= d,
         x = 0 \/ Abs(x) >= d
  PROVE  \/ Deadened(Slew(x, g, s), d) = Deadened(g, d)
         \/ Abs(Deadened(Slew(x, g, s), d) - g) < Abs(x - g)
<1> DEFINE y == Slew(x, g, s)
<1>1. CASE g > x + s
  <2>1. y = x + s
    BY <1>1 DEF Slew
  <2> QED BY <1>1, <2>1 DEF Deadened, Abs
<1>2. CASE g < x - s
  <2>1. y = x - s
    BY <1>2 DEF Slew
  <2> QED BY <1>2, <2>1 DEF Deadened, Abs
<1>3. CASE ~(g > x + s) /\ ~(g < x - s)
  BY <1>3 DEF Slew
<1> QED BY <1>1, <1>2, <1>3

\* For every limit, jitter, acceleration and deadband that one loop can cross,
\* no loop is lost on the way to the command.
THEOREM NearsTheorem == Spec => CommandNears
<1> DEFINE Nears == CanStart /\ dt' # 0 =>
                      \A c \in Channel :
                        LET g == Goal(c, age')
                        IN  \/ output'[c] = Deadened(g, Deadband[c])
                            \/ Abs(output'[c] - g) < Abs(output[c] - g)
<1>1. Inv /\ [Next]_vars => [Nears]_vars
  <2> SUFFICES ASSUME Inv, Next, CanStart, dt' # 0, NEW c \in Channel
               PROVE  LET g == Goal(c, age')
                      IN  \/ output'[c] = Deadened(g, Deadband[c])
                          \/ Abs(output'[c] - g) < Abs(output[c] - g)
    OBVIOUS
  <2>1. PICK i \in Interval : ControlLoop(i)
    BY CallbackInv DEF Next
  <2> DEFINE x == output[c]
             g == Goal(c, age')
             s == Accel[c] * i
             d == Deadband[c]
  <2>2. /\ x \in Int /\ d \in Nat /\ Accel[c] \in Nat /\ i \in Nat \ {0}
        /\ x = 0 \/ Abs(x) >= d
    BY CmdSafetyAssumption DEF Inv, TypeOK, AboveDeadband
  <2>3. s \in Nat \ {0} /\ s >= d
    <3>1. Accel[c] > 0 /\ s >= d
      BY DEF CanStart
    <3> DEFINE a == Accel[c]
    <3>2. a \in Nat /\ a > 0
      BY <2>2, <3>1
    <3> HIDE DEF a
    <3>3. a * i \in Nat \ {0}
      BY <2>2, <3>2
    <3> QED BY <3>1, <3>3 DEF a
  <2>4. g \in Int
    <3>1. target[c] \in Int /\ limit[c] \in Nat
      BY CmdSafetyAssumption DEF Inv, TypeOK
    <3> QED BY <3>1 DEF Goal, Clamp
  <2>5. output'[c] = Deadened(Slew(x, g, s), d)
    BY <2>1 DEF ControlLoop
  <2> HIDE DEF x, g, s, d
  <2>6. \/ output'[c] = Deadened(g, d)
        \/ Abs(output'[c] - g) < Abs(x - g)
    BY <2>2, <2>3, <2>4, <2>5, NearerNumbers
  <2>7. \/ output'[c] = Deadened(Goal(c, age'), Deadband[c])
        \/ Abs(output'[c] - Goal(c, age')) < Abs(output[c] - Goal(c, age'))
    BY <2>6 DEF x, g, d
  <2> QED BY <2>7
<1> QED BY <1>1, Inductive, PTL DEF Spec, CommandNears
===============================================================================
