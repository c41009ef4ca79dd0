------------------------- MODULE ObstructionAvoidance -------------------------
(***************************************************************************)
(* The node obstruction_avoidance: a scan that finds something in front of *)
(* the car starts a stop or a dodge, and a 20 Hz loop carries it out and   *)
(* tells auto_driver when it is in charge.  Scans, loop and clock          *)
(* interleave freely; the lidar may fall silent and the loop may run late. *)
(*                                                                         *)
(* Time is counted in periods of the loop (0.05 s), the progress along the *)
(* Bezier curve in the periods it takes at forward_speed.  The histogram   *)
(* is abstracted to the density of its two halves; the shape of the curve  *)
(* and the steering along it are left out.                                 *)
(***************************************************************************)
EXTENDS Integers

CONSTANTS
  Ranges,       \* nearest readings in the forward arc that occur
  MinSafe,      \* min_safe_dist
  Detect,       \* detect_dist
  Free,         \* the literal 999.0: nothing in the forward arc
  Densities,    \* values of left_density and right_density
  Dense,        \* the literal 2.0
  Hysteresis,   \* hysteresis_ratio, in per cent
  CurveEnd,     \* progress at which t >= 0.95
  StepMax,      \* the literal 0.1: the progress one loop may add
  YieldTimeout, \* the literal 2.0 s of STOP_TOO_CLOSE
  MaxTimeout,   \* max_timeout_sec
  LoopGap,      \* bound: the loop runs at least every LoopGap periods
  ScanGap       \* a lidar whose last scan is older is silent

ASSUME ObstructionAssumption ==
  /\ Ranges \subseteq Nat /\ MinSafe \in Nat /\ Detect \in Nat /\ Free \in Ranges
  /\ MinSafe < Free /\ Densities \subseteq Nat /\ Dense \in Nat
  /\ Hysteresis \in 0 .. 100
  /\ CurveEnd \in Nat /\ StepMax \in Nat
  /\ YieldTimeout \in Nat /\ MaxTimeout \in Nat
  /\ LoopGap \in Nat \ {0} /\ ScanGap \in Nat
  \* A dodge takes more than one run of the loop.
  /\ StepMax < CurveEnd /\ LoopGap <= MaxTimeout

VARIABLES
  node,  \* the fields of the node
  said,  \* the last messages on /obstruction_active and /obstruction_cmd_vel
  late,  \* periods since last_loop_time
  quiet, \* periods since the last scan
  hist   \* history, for the properties only

vars == <<node, said, late, quiet, hist>>

AvoidState == {"CLEAR", "STOP_TOO_CLOSE", "SPLINE_DODGE"}

Least(a, b) == IF a < b THEN a ELSE b
AgeMax  == YieldTimeout + MaxTimeout + LoopGap + 1
OpenMax == ScanGap + LoopGap + 1

Node == [ state    : AvoidState,
          dir      : {-1, 0, 1},      \* avoid_dir: 1 is left
          age      : 0 .. AgeMax,     \* age of dodge_start_time
          progress : 0 .. CurveEnd,   \* dist_progress
          side     : BOOLEAN,         \* lateral_obstacle_present
          fwd      : Ranges ]         \* min_forward_dist

Said == [active : BOOLEAN, moving : BOOLEAN]

Hist == [open : 0 .. OpenMax]  \* how long auto_driver was left in charge, too close

TypeOK ==
  /\ node \in Node /\ said \in Said /\ hist \in Hist
  /\ late \in 0 .. LoopGap /\ quiet \in 0 .. ScanGap + 1

Init ==
  /\ node = [ state |-> "CLEAR", dir |-> 0, age |-> AgeMax, progress |-> 0,
              side |-> FALSE, fwd |-> Free ]
  /\ said = [active |-> FALSE, moving |-> FALSE]
  /\ late = 0 /\ quiet = ScanGap + 1
  /\ hist = [open |-> 0]

-----------------------------------------------------------------------------
(* scan_callback.                                                          *)

\* Mutant: the progress along the curve is kept from the dodge before.
StartedMidCurve(n, s) == [n EXCEPT !.state = s, !.age = 0]

Started(n, s) == [n EXCEPT !.state = s, !.age = 0, !.progress = 0]

Clearer(a, b) == 100 * a < (100 - Hysteresis) * b

\* The direction of a dodge between an obstacle density of l and r.
Direction(l, r) ==
  IF Clearer(l, r) THEN 1
  ELSE IF Clearer(r, l) THEN -1
  ELSE IF l <= r THEN 1 ELSE -1

\* Mutant: the stop, too, needs a dense histogram.
TriggeredWhenDense(n, l, r) ==
  IF n.state # "CLEAR" \/ n.fwd > Detect \/ (l <= Dense /\ r <= Dense) THEN n
  ELSE IF n.fwd < MinSafe THEN Started(n, "STOP_TOO_CLOSE")
  ELSE Started([n EXCEPT !.dir = Direction(l, r)], "SPLINE_DODGE")

Triggered(n, l, r) ==
  IF n.state # "CLEAR" THEN n
  ELSE IF n.fwd < MinSafe THEN Started(n, "STOP_TOO_CLOSE")
  ELSE IF n.fwd <= Detect /\ (l > Dense \/ r > Dense)
  THEN Started([n EXCEPT !.dir = Direction(l, r)], "SPLINE_DODGE")
  ELSE n

\* alongside: at least three points next to the car, on the side it dodges.
\* Points next to the car are only looked for while it dodges.
ScanCallback(f, l, r, alongside) ==
  /\ node' = Triggered([node EXCEPT !.fwd = f, !.side = node.dir # 0 /\ alongside], l, r)
  /\ quiet' = 0
  /\ hist' = [open |-> IF f < MinSafe THEN hist.open ELSE 0]
  /\ UNCHANGED <<said, late>>

-----------------------------------------------------------------------------
(* control_loop.                                                           *)

Idle ==
  /\ node.state = "CLEAR"
  /\ said' = [active |-> FALSE, moving |-> FALSE]
  /\ UNCHANGED node

\* The last tick of a stop still claims the car.
Yield ==
  /\ node.state = "STOP_TOO_CLOSE"
  /\ said' = [active |-> TRUE, moving |-> FALSE]
  /\ node' = IF node.fwd > MinSafe \/ node.age > YieldTimeout
             THEN Started(node, "CLEAR") ELSE node

\* Mutant: the obstacle alongside holds the car beyond the timeout.
DodgeOverUnbounded(p) == (p >= CurveEnd \/ node.age > MaxTimeout) /\ ~node.side

DodgeOver(p) ==
  /\ p >= CurveEnd \/ node.age > MaxTimeout
  /\ ~node.side \/ node.age > MaxTimeout

Dodge ==
  /\ node.state = "SPLINE_DODGE"
  /\ LET p == Least(CurveEnd, node.progress + Least(late, StepMax))
         n == [node EXCEPT !.progress = p]
     IN  /\ node' = IF DodgeOver(p) THEN [n EXCEPT !.state = "CLEAR", !.dir = 0] ELSE n
         /\ said' = [active |-> ~DodgeOver(p), moving |-> TRUE]

ControlLoop ==
  /\ late > 0
  /\ Idle \/ Yield \/ Dodge
  /\ late' = 0
  /\ hist' = [hist EXCEPT !.open = IF said'.active THEN 0 ELSE @]
  /\ UNCHANGED quiet

\* A period passes.  Too close, not in charge, and the lidar works: open.
Tick ==
  /\ late < LoopGap
  /\ late' = late + 1
  /\ quiet' = Least(ScanGap + 1, quiet + 1)
  /\ node' = [node EXCEPT !.age = Least(AgeMax, @ + 1)]
  /\ hist' = [hist EXCEPT
       !.open = IF ~said.active /\ node.fwd < MinSafe /\ quiet' <= ScanGap
                THEN Least(OpenMax, @ + 1) ELSE 0]
  /\ UNCHANGED said

Next ==
  \/ \E f \in Ranges, l \in Densities, r \in Densities, s \in BOOLEAN :
       ScanCallback(f, l, r, s)
  \/ ControlLoop
  \/ Tick

Spec == Init /\ [][Next]_vars

-----------------------------------------------------------------------------
(* Properties.                                                             *)

\* Whatever the scans show, and if none come any more, the node lets go of the
\* car within the timeout of what it is doing and one run of the loop.
ManoeuvreBounded ==
  /\ node.state = "STOP_TOO_CLOSE" => node.age <= YieldTimeout + LoopGap
  /\ node.state = "SPLINE_DODGE" => node.age <= MaxTimeout + LoopGap

\* In front of an obstacle closer than min_safe_dist the stop gives up after
\* its timeout and leaves the car to the lane; the next scan takes it back, so
\* auto_driver drives on for no longer than a scan and a run of the loop.
YieldHolds == hist.open <= ScanGap + LoopGap

\* A dodge passes the obstacle on the side it chose, however the picture changes.
DodgeKeepsSide ==
  [][node.state = "SPLINE_DODGE" /\ node'.state = "SPLINE_DODGE" =>
       node'.dir = node.dir /\ node'.dir # 0]_vars

\* A dodge is driven to its end: it lasts for its timeout, or for the time the
\* curve takes at forward_speed, less the one step of 0.1 s that the first run of
\* the loop may add for the time before the dodge.  Progress of an earlier dodge
\* or of a loop that ran late never shortens it.  As declared the curve takes
\* 6.33 s and max_timeout_sec is 6.0 s: there the timeout ends every dodge, and
\* the obstacle alongside is never asked for.
DodgeRunsOut ==
  [][node.state = "SPLINE_DODGE" /\ node'.state = "CLEAR" =>
       node.age > MaxTimeout \/ node.age + StepMax >= CurveEnd]_vars
===============================================================================
