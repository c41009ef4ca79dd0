--------------------------- MODULE Manoeuvres_proofs ---------------------------
(***************************************************************************)
(* Theorems about the two nodes that drive manoeuvres by themselves:       *)
(* obstruction_avoidance, for all distances, densities and timeouts whose  *)
(* dodge takes more than one run of the loop, and parking_controller, for  *)
(* all timeouts and distances of its phases, all odometry and any pace of  *)
(* its loop.                                                               *)
(***************************************************************************)
EXTENDS ObstructionAvoidance, ParkingController, SequenceTheorems, TLAPS

-----------------------------------------------------------------------------
(* obstruction_avoidance.                                                  *)

\* What the node is doing was begun, or looked at by the loop, in time.
Bounded ==
  /\ node.state = "STOP_TOO_CLOSE" => node.age <= YieldTimeout + late
  /\ node.state = "SPLINE_DODGE" => node.age <= MaxTimeout + late

\* A direction is held exactly while the node dodges.
Sided == node.dir # 0 <=> node.state = "SPLINE_DODGE"

\* A manoeuvre that auto_driver has not been told of has just begun.
Untold ==
  ~said.active /\ node.state # "CLEAR" => node.age <= late /\ node.progress = 0

\* How long the car may have been left open to something too close, depending
\* on what the node is doing about it.
Open ==
  /\ said.active \/ node.fwd >= MinSafe => hist.open = 0
  /\ node.state = "CLEAR" => hist.open <= quiet /\ hist.open <= ScanGap
  /\ node.state = "STOP_TOO_CLOSE" /\ ~said.active => hist.open <= ScanGap + node.age
  /\ node.state = "SPLINE_DODGE" /\ ~said.active => hist.open <= node.age

\* The progress along the curve is bounded by the time since the dodge began,
\* once the loop has run.
Paced ==
  node.state = "SPLINE_DODGE" =>
    \/ node.progress = 0 /\ node.age <= late
    \/ node.progress + late <= StepMax + node.age

IInv == TypeOK /\ Bounded /\ Sided /\ Untold /\ Open /\ Paced

-----------------------------------------------------------------------------
(* The types of the fields, as facts about numbers.                        *)

LEMMA Numbers ==
  ASSUME TypeOK
  PROVE  /\ node.age \in 0 .. AgeMax /\ node.progress \in 0 .. CurveEnd
         /\ node.fwd \in Nat /\ hist.open \in 0 .. OpenMax
         /\ late \in 0 .. LoopGap /\ quiet \in 0 .. ScanGap + 1
         /\ AgeMax = YieldTimeout + MaxTimeout + LoopGap + 1
         /\ OpenMax = ScanGap + LoopGap + 1
BY ObstructionAssumption DEF TypeOK, Node, Hist, AgeMax, OpenMax

\* A manoeuvre begins with its clock and its progress at zero.
LEMMA StartedFacts ==
  ASSUME NEW n \in Node, NEW s \in AvoidState
  PROVE  LET m == Started(n, s)
         IN  /\ m \in Node /\ m.state = s /\ m.age = 0 /\ m.progress = 0
             /\ m.dir = n.dir /\ m.side = n.side /\ m.fwd = n.fwd
<1> DEFINE m == Started(n, s)
<1>1. 0 \in 0 .. AgeMax /\ 0 \in 0 .. CurveEnd
  BY ObstructionAssumption DEF AgeMax
<1>2. m = [n EXCEPT !.state = s, !.age = 0, !.progress = 0]
  BY DEF Started
<1> HIDE DEF m
<1>3. m \in Node
  BY <1>1, <1>2 DEF Node
<1>4. /\ m.state = s /\ m.age = 0 /\ m.progress = 0
      /\ m.dir = n.dir /\ m.side = n.side /\ m.fwd = n.fwd
  BY <1>2 DEF Node
<1> QED BY <1>3, <1>4 DEF m

\* The node starts in the invariant.
LEMMA InitInv == Init => IInv
<1> SUFFICES ASSUME Init PROVE IInv
  OBVIOUS
<1>1. node \in Node
  BY ObstructionAssumption DEF Init, Node, AvoidState, AgeMax
<1>2. said \in Said /\ hist \in Hist /\ late \in 0 .. LoopGap /\ quiet \in 0 .. ScanGap + 1
  BY ObstructionAssumption DEF Init, Said, Hist, OpenMax
<1>3. Bounded /\ Sided /\ Untold /\ Open /\ Paced
  BY ObstructionAssumption DEF Init, Bounded, Sided, Untold, Open, Paced
<1> QED BY <1>1, <1>2, <1>3 DEF IInv, TypeOK

-----------------------------------------------------------------------------
(* One lemma per action.                                                   *)

\* What a scan makes of the node: outside CLEAR it only refreshes the readings.
LEMMA TriggeredFacts ==
  ASSUME NEW n \in Node, NEW l \in Densities, NEW r \in Densities,
         n.dir # 0 <=> n.state = "SPLINE_DODGE"
  PROVE  LET m == Triggered(n, l, r)
         IN  /\ m \in Node /\ m.fwd = n.fwd /\ m.side = n.side
             /\ \/ m = n /\ (n.state = "CLEAR" => n.fwd >= MinSafe)
                \/ /\ n.state = "CLEAR" /\ m.state = "STOP_TOO_CLOSE"
                   /\ m.age = 0 /\ m.progress = 0 /\ m.dir = 0
                \/ /\ n.state = "CLEAR" /\ m.state = "SPLINE_DODGE" /\ n.fwd >= MinSafe
                   /\ m.age = 0 /\ m.progress = 0 /\ m.dir # 0
<1> DEFINE m == Triggered(n, l, r)
           d == [n EXCEPT !.dir = Direction(l, r)]
<1>1. n.fwd \in Nat /\ MinSafe \in Nat /\ AvoidState = {"CLEAR", "STOP_TOO_CLOSE", "SPLINE_DODGE"}
  BY ObstructionAssumption DEF Node, AvoidState
<1>2. Direction(l, r) \in {-1, 1}
  BY DEF Direction
<1>3. /\ d \in Node /\ d.dir # 0 /\ d.fwd = n.fwd /\ d.side = n.side
  BY <1>2 DEF Node
<1>4. CASE m = n /\ (n.state = "CLEAR" => n.fwd >= MinSafe)
  BY <1>4
<1>5. CASE n.state = "CLEAR" /\ n.fwd < MinSafe /\ m = Started(n, "STOP_TOO_CLOSE")
  BY <1>1, <1>5, StartedFacts
<1>6. CASE n.state = "CLEAR" /\ ~(n.fwd < MinSafe) /\ m = Started(d, "SPLINE_DODGE")
  <2> HIDE DEF d
  <2> QED BY <1>1, <1>3, <1>6, StartedFacts
<1>7. \/ m = n /\ (n.state = "CLEAR" => ~(n.fwd < MinSafe))
      \/ n.state = "CLEAR" /\ n.fwd < MinSafe /\ m = Started(n, "STOP_TOO_CLOSE")
      \/ n.state = "CLEAR" /\ ~(n.fwd < MinSafe) /\ m = Started(d, "SPLINE_DODGE")
  BY DEF Triggered
<1> HIDE DEF m, d
<1>8. ~(n.fwd < MinSafe) => n.fwd >= MinSafe
  BY <1>1
<1> QED BY <1>4, <1>5, <1>6, <1>7, <1>8 DEF m

\* A scan keeps the invariant.
LEMMA ScanInv ==
  ASSUME IInv, NEW f \in Ranges, NEW l \in Densities, NEW r \in Densities,
         NEW s \in BOOLEAN, ScanCallback(f, l, r, s)
  PROVE  IInv'
<1> DEFINE side == node.dir # 0 /\ s
           n == [node EXCEPT !.fwd = f, !.side = side]
<1>1. /\ node \in Node /\ hist \in Hist /\ said \in Said /\ f \in Nat
      /\ MinSafe \in Nat /\ ScanGap \in Nat
  BY ObstructionAssumption DEF IInv, TypeOK
<1>2. /\ n \in Node /\ n.fwd = f /\ n.side = side /\ n.dir = node.dir
      /\ n.state = node.state /\ n.age = node.age /\ n.progress = node.progress
  BY <1>1 DEF Node
<1>3. node' = Triggered(n, l, r) /\ quiet' = 0 /\ said' = said /\ late' = late
  BY DEF ScanCallback
<1> HIDE DEF n
<1>4. /\ node' \in Node /\ node'.fwd = f /\ node'.side = side
      /\ \/ node' = n /\ (node.state = "CLEAR" => f >= MinSafe)
         \/ /\ node.state = "CLEAR" /\ node'.state = "STOP_TOO_CLOSE"
            /\ node'.age = 0 /\ node'.progress = 0 /\ node'.dir = 0
         \/ /\ node.state = "CLEAR" /\ node'.state = "SPLINE_DODGE" /\ f >= MinSafe
            /\ node'.age = 0 /\ node'.progress = 0 /\ node'.dir # 0
  BY <1>2, <1>3, TriggeredFacts DEF IInv, Sided
<1>5. hist' \in Hist
  <2>1. (IF f < MinSafe THEN hist.open ELSE 0) \in 0 .. OpenMax
    BY <1>1, ObstructionAssumption DEF Hist, OpenMax
  <2> QED BY <2>1 DEF ScanCallback, Hist
<1>6. hist'.open = (IF f < MinSafe THEN hist.open ELSE 0)
  BY DEF ScanCallback
<1>7. /\ node.age \in Nat /\ node'.age \in Nat /\ late \in Nat /\ quiet \in Nat
      /\ hist.open \in Nat /\ late \in 0 .. LoopGap /\ quiet' \in 0 .. ScanGap + 1
      /\ YieldTimeout \in Nat /\ MaxTimeout \in Nat /\ StepMax \in Nat
      /\ node.progress \in Nat
  <2>1. node'.age \in 0 .. AgeMax
    BY <1>4 DEF Node
  <2> QED BY <1>3, <2>1, Numbers, ObstructionAssumption DEF IInv
<1>8. TypeOK'
  BY <1>1, <1>3, <1>4, <1>5, <1>7 DEF TypeOK
<1>9. Bounded'
  BY <1>2, <1>3, <1>4, <1>7 DEF IInv, Bounded
<1>10. Sided'
  BY <1>2, <1>4 DEF IInv, Sided
<1>11. Untold'
  BY <1>2, <1>3, <1>4, <1>7 DEF IInv, Untold
<1>12. Open'
  <2>1. (said.active \/ node.fwd >= MinSafe => hist.open = 0)
        /\ (said.active \/ node'.fwd >= MinSafe => hist'.open = 0)
    BY <1>1, <1>4, <1>6 DEF IInv, Open
  <2>2. CASE node' = n /\ (node.state = "CLEAR" => f >= MinSafe)
    BY <1>1, <1>2, <1>3, <1>6, <1>7, <2>1, <2>2 DEF IInv, Open
  <2>3. CASE /\ node.state = "CLEAR" /\ node'.state = "STOP_TOO_CLOSE"
             /\ node'.age = 0 /\ node'.progress = 0 /\ node'.dir = 0
    BY <1>1, <1>3, <1>6, <1>7, <2>1, <2>3 DEF IInv, Open
  <2>4. CASE /\ node.state = "CLEAR" /\ node'.state = "SPLINE_DODGE" /\ f >= MinSafe
             /\ node'.age = 0 /\ node'.progress = 0 /\ node'.dir # 0
    BY <1>1, <1>3, <1>6, <1>7, <2>1, <2>4 DEF IInv, Open
  <2> QED BY <1>4, <2>2, <2>3, <2>4
<1>13. Paced'
  <2>1. CASE node' = n
    BY <1>2, <1>3, <2>1 DEF IInv, Paced
  <2>2. CASE node'.age = 0 /\ node'.progress = 0
    BY <1>3, <1>7, <2>2 DEF Paced
  <2> QED BY <1>4, <2>1, <2>2
<1> QED BY <1>8, <1>9, <1>10, <1>11, <1>12, <1>13 DEF IInv

\* A dodge that auto_driver has not been told of is not over: it has just begun,
\* and one run of the loop does not take it to its end.
LEMMA FirstLoop ==
  ASSUME IInv, node.state = "SPLINE_DODGE", ~said.active,
         DodgeOver(Least(CurveEnd, node.progress + Least(late, StepMax)))
  PROVE  FALSE
<1>1. /\ late \in 0 .. LoopGap /\ node.age \in Nat
      /\ CurveEnd \in Nat /\ StepMax \in Nat /\ LoopGap \in Nat /\ MaxTimeout \in Nat
      /\ StepMax < CurveEnd /\ LoopGap <= MaxTimeout
  BY Numbers, ObstructionAssumption DEF IInv
<1>2. node.age <= late /\ node.progress = 0
  BY DEF IInv, Untold
<1>3. node.age <= MaxTimeout
  BY <1>1, <1>2
<1>4. Least(CurveEnd, node.progress + Least(late, StepMax)) < CurveEnd
  BY <1>1, <1>2 DEF Least
<1>5. Least(CurveEnd, node.progress + Least(late, StepMax)) >= CurveEnd
  BY <1>1, <1>3 DEF DodgeOver
<1>6. Least(CurveEnd, node.progress + Least(late, StepMax)) \in Int
  BY <1>1, <1>2 DEF Least
<1> QED BY <1>1, <1>4, <1>5, <1>6

\* What a run of the loop makes of the node.
LEMMA LoopFacts ==
  ASSUME IInv, ControlLoop
  PROVE  /\ node' \in Node /\ said' \in Said /\ node'.fwd = node.fwd
         /\ node'.side = node.side
         /\ \/ node.state = "CLEAR" /\ node' = node /\ ~said'.active
            \/ /\ node.state = "STOP_TOO_CLOSE" /\ said'.active /\ node'.dir = node.dir
               /\ node'.state = "CLEAR" \/ (node' = node /\ node.age <= YieldTimeout)
            \/ /\ node.state = "SPLINE_DODGE" /\ node'.state = "CLEAR" /\ node'.dir = 0
               /\ ~said'.active /\ said.active
            \/ /\ node.state = "SPLINE_DODGE" /\ node'.state = "SPLINE_DODGE"
               /\ said'.active /\ node'.dir = node.dir /\ node'.age = node.age
               /\ node.age <= MaxTimeout
               /\ node'.progress = Least(CurveEnd, node.progress + Least(late, StepMax))
<1> DEFINE p == Least(CurveEnd, node.progress + Least(late, StepMax))
           n == [node EXCEPT !.progress = p]
<1>1. /\ node \in Node /\ late \in 0 .. LoopGap /\ node.age \in Nat /\ node.fwd \in Nat
      /\ node.progress \in Nat /\ node.side \in BOOLEAN
      /\ CurveEnd \in Nat /\ StepMax \in Nat /\ LoopGap \in Nat /\ MaxTimeout \in Nat
      /\ MinSafe \in Nat /\ YieldTimeout \in Nat
  <2>1. node.side \in BOOLEAN
    BY DEF IInv, TypeOK, Node
  <2> QED BY <2>1, Numbers, ObstructionAssumption DEF IInv, TypeOK
<1>2. CASE Idle
  BY <1>1, <1>2 DEF Idle, Said
<1>3. CASE Yield
  <2>1. said' \in Said /\ said'.active /\ node.state = "STOP_TOO_CLOSE"
    BY <1>3 DEF Yield, Said
  <2>2. CASE node.fwd > MinSafe \/ node.age > YieldTimeout
    <3>1. node' = Started(node, "CLEAR") /\ "CLEAR" \in AvoidState
      BY <1>3, <2>2 DEF Yield, AvoidState
    <3>2. /\ Started(node, "CLEAR") \in Node /\ Started(node, "CLEAR").state = "CLEAR"
          /\ Started(node, "CLEAR").dir = node.dir
          /\ Started(node, "CLEAR").side = node.side /\ Started(node, "CLEAR").fwd = node.fwd
      BY <1>1, <3>1, StartedFacts
    <3> QED BY <2>1, <3>1, <3>2
  <2>3. CASE ~(node.fwd > MinSafe \/ node.age > YieldTimeout)
    <3>1. node' = node /\ node.age <= YieldTimeout
      BY <1>1, <1>3, <2>3 DEF Yield
    <3> QED BY <1>1, <2>1, <3>1
  <2> QED BY <2>2, <2>3
<1>4. CASE Dodge
  <2>1. p \in 0 .. CurveEnd
    BY <1>1 DEF Least
  <2>2. /\ node.state = "SPLINE_DODGE"
        /\ node' = IF DodgeOver(p) THEN [n EXCEPT !.state = "CLEAR", !.dir = 0] ELSE n
        /\ said' = [active |-> ~DodgeOver(p), moving |-> TRUE]
    BY <1>4 DEF Dodge
  <2> HIDE DEF p
  <2>3. /\ n \in Node /\ n.state = node.state /\ n.dir = node.dir /\ n.age = node.age
        /\ n.progress = p /\ n.side = node.side /\ n.fwd = node.fwd
    BY <1>1, <2>1 DEF Node
  <2> HIDE DEF n
  <2>4. CASE DodgeOver(p)
    <3>1. said.active
      BY <2>2, <2>4, FirstLoop DEF p
    <3>2. said' \in Said /\ ~said'.active
      BY <2>2, <2>4 DEF Said
    <3>3. node' = [n EXCEPT !.state = "CLEAR", !.dir = 0]
      BY <2>2, <2>4
    <3>4. /\ node' \in Node /\ node'.state = "CLEAR" /\ node'.dir = 0
          /\ node'.side = n.side /\ node'.fwd = n.fwd
      BY <2>3, <3>3 DEF Node, AvoidState
    <3> QED BY <2>2, <2>3, <3>1, <3>2, <3>4
  <2>5. CASE ~DodgeOver(p)
    <3>1. node.age <= MaxTimeout
      BY <1>1, <2>5 DEF DodgeOver
    <3>2. said' \in Said /\ said'.active /\ node' = n
      BY <2>2, <2>5 DEF Said
    <3> QED BY <2>2, <2>3, <3>1, <3>2 DEF p
  <2> QED BY <2>4, <2>5
<1> QED BY <1>2, <1>3, <1>4 DEF ControlLoop

\* A run of the loop keeps the invariant.
LEMMA LoopInv ==
  ASSUME IInv, ControlLoop
  PROVE  IInv'
<1>1. /\ node.age \in Nat /\ late \in 0 .. LoopGap /\ late' = 0 /\ quiet' = quiet
      /\ node.fwd \in Nat /\ MinSafe \in Nat /\ ScanGap \in Nat /\ LoopGap \in Nat
      /\ StepMax \in Nat /\ CurveEnd \in Nat /\ hist.open \in 0 .. OpenMax
      /\ quiet \in 0 .. ScanGap + 1 /\ OpenMax \in Nat /\ node.progress \in Nat
      /\ YieldTimeout \in Nat /\ MaxTimeout \in Nat
  BY Numbers, ObstructionAssumption DEF IInv, ControlLoop, OpenMax
<1>2. /\ node' \in Node /\ said' \in Said /\ node'.fwd = node.fwd /\ node'.side = node.side
      /\ \/ node.state = "CLEAR" /\ node' = node /\ ~said'.active
         \/ /\ node.state = "STOP_TOO_CLOSE" /\ said'.active /\ node'.dir = node.dir
            /\ node'.state = "CLEAR" \/ (node' = node /\ node.age <= YieldTimeout)
         \/ /\ node.state = "SPLINE_DODGE" /\ node'.state = "CLEAR" /\ node'.dir = 0
            /\ ~said'.active /\ said.active
         \/ /\ node.state = "SPLINE_DODGE" /\ node'.state = "SPLINE_DODGE"
            /\ said'.active /\ node'.dir = node.dir /\ node'.age = node.age
            /\ node.age <= MaxTimeout
            /\ node'.progress = Least(CurveEnd, node.progress + Least(late, StepMax))
  BY LoopFacts
<1>3. /\ hist.open \in 0 .. OpenMax /\ hist \in Hist /\ 0 \in 0 .. OpenMax
      /\ hist' = [hist EXCEPT !.open = IF said'.active THEN 0 ELSE hist.open]
  BY <1>1 DEF ControlLoop, IInv, TypeOK
<1>4. /\ hist' \in Hist
      /\ hist'.open = IF said'.active THEN 0 ELSE hist.open
  BY <1>3 DEF Hist
<1>5. TypeOK'
  BY <1>1, <1>2, <1>4 DEF TypeOK
<1>6. Bounded'
  BY <1>1, <1>2 DEF Bounded
<1>7. Sided'
  BY <1>2 DEF IInv, Sided
<1>8. Untold'
  BY <1>2 DEF Untold
<1>9. Open'
  <2>1. said'.active => hist'.open = 0
    BY <1>4
  <2>2. node'.fwd >= MinSafe => hist'.open = 0
    BY <1>2, <1>4 DEF IInv, Open
  <2>3. CASE said'.active
    BY <1>1, <2>1, <2>3 DEF Open
  <2>4. CASE ~said'.active
    <3>1. node'.state = "CLEAR" /\ hist'.open = hist.open
      BY <1>2, <1>4, <2>4
    <3>2. hist.open <= quiet /\ hist.open <= ScanGap
      BY <1>1, <1>2, <2>4 DEF IInv, Open
    <3> QED BY <1>1, <2>1, <2>2, <3>1, <3>2 DEF Open
  <2> QED BY <2>3, <2>4
<1>10. Paced'
  <2> SUFFICES ASSUME node'.state = "SPLINE_DODGE"
               PROVE  node'.progress + 0 <= StepMax + node'.age
    BY <1>1 DEF Paced
  <2>1. /\ node.state = "SPLINE_DODGE" /\ node'.age = node.age
        /\ node'.progress = Least(CurveEnd, node.progress + Least(late, StepMax))
    BY <1>2
  <2>2. \/ node.progress = 0 /\ node.age <= late
        \/ node.progress + late <= StepMax + node.age
    BY <2>1 DEF IInv, Paced
  <2> QED BY <1>1, <2>1, <2>2 DEF Least
<1> QED BY <1>5, <1>6, <1>7, <1>8, <1>9, <1>10 DEF IInv

\* The clock keeps the invariant.
LEMMA TickInv ==
  ASSUME IInv, Tick
  PROVE  IInv'
<1>1. /\ node.age \in 0 .. AgeMax /\ late \in 0 .. LoopGap /\ late < LoopGap
      /\ late' = late + 1 /\ quiet \in 0 .. ScanGap + 1 /\ said' = said
      /\ node.fwd \in Nat /\ MinSafe \in Nat /\ ScanGap \in Nat /\ LoopGap \in Nat
      /\ StepMax \in Nat /\ hist.open \in 0 .. OpenMax /\ node.progress \in Nat
      /\ YieldTimeout \in Nat /\ MaxTimeout \in Nat
      /\ AgeMax = YieldTimeout + MaxTimeout + LoopGap + 1
      /\ OpenMax = ScanGap + LoopGap + 1
      /\ quiet' = Least(ScanGap + 1, quiet + 1)
  <2>1. node.progress \in Nat
    BY Numbers, ObstructionAssumption DEF IInv
  <2> QED BY <2>1, Numbers, ObstructionAssumption DEF IInv, Tick
<1>2. Least(AgeMax, node.age + 1) \in 0 .. AgeMax
  BY <1>1 DEF Least
<1>3. /\ node \in Node /\ node' = [node EXCEPT !.age = Least(AgeMax, node.age + 1)]
      /\ hist \in Hist /\ said \in Said
  BY DEF Tick, IInv, TypeOK
<1>4. /\ node' \in Node /\ node'.state = node.state /\ node'.dir = node.dir
      /\ node'.progress = node.progress /\ node'.side = node.side /\ node'.fwd = node.fwd
      /\ node'.age = Least(AgeMax, node.age + 1)
  BY <1>2, <1>3 DEF Node
<1>5. node.state # "CLEAR" => node'.age = node.age + 1
  <2>1. node.state \in AvoidState
    BY <1>3 DEF Node
  <2> QED BY <1>1, <1>4, <2>1 DEF AvoidState, Least, IInv, Bounded
<1>6. hist' \in Hist
  <2> DEFINE o == IF ~said.active /\ node.fwd < MinSafe /\ quiet' <= ScanGap
                  THEN Least(OpenMax, hist.open + 1) ELSE 0
  <2>1. o \in 0 .. OpenMax
    BY <1>1 DEF Least
  <2>2. hist' = [hist EXCEPT !.open = o]
    BY DEF Tick
  <2> HIDE DEF o
  <2> QED BY <1>3, <2>1, <2>2 DEF Hist
<1>7. hist'.open = IF ~said.active /\ node.fwd < MinSafe /\ quiet' <= ScanGap
                   THEN Least(OpenMax, hist.open + 1) ELSE 0
  BY <1>3 DEF Hist, Tick
<1>8. quiet' \in 0 .. ScanGap + 1 /\ late' \in 0 .. LoopGap
  BY <1>1 DEF Least
<1>9. TypeOK'
  BY <1>1, <1>3, <1>4, <1>6, <1>8 DEF TypeOK
<1>10. Bounded'
  BY <1>1, <1>4, <1>5 DEF IInv, Bounded
<1>11. Sided'
  BY <1>4 DEF IInv, Sided
<1>12. Untold'
  BY <1>1, <1>4, <1>5 DEF IInv, Untold
<1>13. Open'
  <2>1. CASE ~said.active /\ node.fwd < MinSafe /\ quiet' <= ScanGap
    <3>1. hist'.open <= hist.open + 1 /\ quiet' = quiet + 1 /\ hist'.open \in Int
      BY <1>1, <1>7, <2>1 DEF Least
    <3>2. node.state = "CLEAR" => hist.open <= quiet
      BY DEF IInv, Open
    <3>3. node.state = "STOP_TOO_CLOSE" => hist.open <= ScanGap + node.age
      BY <2>1 DEF IInv, Open
    <3>4. node.state = "SPLINE_DODGE" => hist.open <= node.age
      BY <2>1 DEF IInv, Open
    <3> QED BY <1>1, <1>4, <1>5, <2>1, <3>1, <3>2, <3>3, <3>4 DEF Open
  <2>2. CASE ~(~said.active /\ node.fwd < MinSafe /\ quiet' <= ScanGap)
    <3>1. hist'.open = 0 /\ node'.age \in Nat
      BY <1>1, <1>4, <1>7, <2>2 DEF Node, Least
    <3> QED BY <1>1, <1>8, <3>1 DEF Open
  <2> QED BY <2>1, <2>2
<1>14. Paced'
  BY <1>1, <1>4, <1>5 DEF IInv, Paced
<1> QED BY <1>9, <1>10, <1>11, <1>12, <1>13, <1>14 DEF IInv

-----------------------------------------------------------------------------
(* The theorems.                                                           *)

LEMMA NextInv ==
  ASSUME IInv, [Next]_vars
  PROVE  IInv'
<1>1. CASE UNCHANGED vars
  BY <1>1 DEF vars, IInv, TypeOK, Bounded, Sided, Untold, Open, Paced
<1> QED BY <1>1, ScanInv, LoopInv, TickInv DEF Next

\* The strengthening: every reachable state satisfies it.
THEOREM Inductive == Spec => []IInv
BY InitInv, NextInv, PTL DEF Spec

\* Every variable keeps its type.
THEOREM TypeCorrect == Spec => []TypeOK
BY Inductive, PTL DEF IInv

\* The node lets go of the car within the timeout of what it is doing and one
\* run of the loop, whatever the lidar shows or fails to show.
THEOREM BoundTheorem == Spec => []ManoeuvreBounded
<1>1. IInv => ManoeuvreBounded
  <2> SUFFICES ASSUME IInv PROVE ManoeuvreBounded
    OBVIOUS
  <2>1. /\ node.age \in Nat /\ late \in 0 .. LoopGap /\ LoopGap \in Nat
        /\ YieldTimeout \in Nat /\ MaxTimeout \in Nat
    BY Numbers, ObstructionAssumption DEF IInv
  <2> QED BY <2>1 DEF IInv, Bounded, ManoeuvreBounded
<1> QED BY <1>1, Inductive, PTL

\* A stop that has timed out is taken up again by the next scan, so the car is
\* open to something too close for no longer than a scan and a run of the loop.
THEOREM YieldTheorem == Spec => []YieldHolds
<1>1. IInv => YieldHolds
  <2> SUFFICES ASSUME IInv PROVE YieldHolds
    OBVIOUS
  <2>1. /\ node.age \in Nat /\ late \in 0 .. LoopGap /\ LoopGap \in Nat
        /\ ScanGap \in Nat /\ hist.open \in Nat /\ node.state \in AvoidState
    <3>1. node.state \in AvoidState
      BY DEF IInv, TypeOK, Node
    <3> QED BY <3>1, Numbers, ObstructionAssumption DEF IInv
  <2> QED BY <2>1 DEF IInv, Open, Untold, YieldHolds, AvoidState
<1> QED BY <1>1, Inductive, PTL

\* The direction chosen when a dodge begins is the one it ends with.
THEOREM SideTheorem == Spec => DodgeKeepsSide
<1>1. IInv /\ [Next]_vars =>
        [node.state = "SPLINE_DODGE" /\ node'.state = "SPLINE_DODGE" =>
           node'.dir = node.dir /\ node'.dir # 0]_vars
  <2> SUFFICES ASSUME IInv, [Next]_vars, node.state = "SPLINE_DODGE",
                      node'.state = "SPLINE_DODGE"
               PROVE  node'.dir = node.dir /\ node'.dir # 0
    OBVIOUS
  <2>1. node.dir # 0
    BY DEF IInv, Sided
  <2>2. node \in Node
    BY DEF IInv, TypeOK
  <2>3. CASE \E f \in Ranges, l \in Densities, r \in Densities, s \in BOOLEAN :
               ScanCallback(f, l, r, s)
    BY <2>1, <2>2, <2>3 DEF ScanCallback, Triggered, Node
  <2>4. CASE ControlLoop
    BY <2>1, <2>4, LoopFacts
  <2>5. CASE Tick
    BY <2>1, <2>2, <2>5 DEF Tick, Node
  <2>6. CASE UNCHANGED vars
    BY <2>1, <2>6 DEF vars
  <2> QED BY <2>3, <2>4, <2>5, <2>6 DEF Next
<1> QED BY <1>1, Inductive, PTL DEF Spec, DodgeKeepsSide

\* A dodge that ends has lasted for its timeout, or for the time its curve takes
\* less one step, for any parameters, any scans and any pace of the loop.
THEOREM RunsOutTheorem == Spec => DodgeRunsOut
<1>1. IInv /\ [Next]_vars =>
        [node.state = "SPLINE_DODGE" /\ node'.state = "CLEAR" =>
           node.age > MaxTimeout \/ node.age + StepMax >= CurveEnd]_vars
  <2> SUFFICES ASSUME IInv, [Next]_vars, node.state = "SPLINE_DODGE",
                      node'.state = "CLEAR", ~(node.age > MaxTimeout)
               PROVE  node.age + StepMax >= CurveEnd
    OBVIOUS
  <2>1. /\ node \in Node /\ node.age \in Nat /\ late \in 0 .. LoopGap
        /\ node.progress \in Nat /\ CurveEnd \in Nat /\ StepMax \in Nat
        /\ LoopGap \in Nat /\ MaxTimeout \in Nat /\ StepMax < CurveEnd
    <3>1. node.progress \in Nat
      BY Numbers, ObstructionAssumption DEF IInv
    <3> QED BY <3>1, Numbers, ObstructionAssumption DEF IInv, TypeOK
  <2>2. CASE Dodge
    <3> DEFINE p == Least(CurveEnd, node.progress + Least(late, StepMax))
    <3>1. DodgeOver(p)
      <4>1. \/ DodgeOver(p)
            \/ node' = [node EXCEPT !.progress = p]
        BY <2>2 DEF Dodge
      <4>2. node' # [node EXCEPT !.progress = p]
        BY <2>1 DEF Node
      <4> QED BY <4>1, <4>2
    <3>2. p >= CurveEnd
      BY <3>1 DEF DodgeOver
    <3> QED BY <2>1, <3>2 DEF IInv, Paced, Least
  <2>3. CASE Idle \/ Yield
    BY <2>3 DEF Idle, Yield
  <2>4. CASE \E f \in Ranges, l \in Densities, r \in Densities, s \in BOOLEAN :
               ScanCallback(f, l, r, s)
    BY <2>1, <2>4 DEF ScanCallback, Triggered, Node
  <2>5. CASE Tick
    BY <2>1, <2>5 DEF Tick, Node
  <2>6. CASE UNCHANGED vars
    BY <2>6 DEF vars
  <2> QED BY <2>2, <2>3, <2>4, <2>5, <2>6 DEF Next, ControlLoop
<1> QED BY <1>1, Inductive, PTL DEF Spec, DodgeRunsOut

-----------------------------------------------------------------------------
(* parking_controller.                                                     *)

\* Manoeuvre m has come to its i-th phase, and the trail holds the ones before.
Reached(m, i) ==
  /\ park.phase = Manoeuvre[m][i] /\ Len(past.trail) = i - 1
  /\ \A j \in 1 .. i - 1 : past.trail[j] = Manoeuvre[m][j]

\* The phase was begun, or looked at by the loop, in time.
Timed == park.phase # "IDLE" => park.age <= Time[park.phase] + lag

\* A manoeuvre under way has been through its first phases and is not complete.
Trailed ==
  park.phase # "IDLE" =>
    /\ ~sent.complete
    /\ \E m \in DOMAIN Manoeuvre : \E i \in 1 .. Len(Manoeuvre[m]) : Reached(m, i)

\* An entry that has gone on past its first command has not met its wall.
Clear == park.phase \in Entry /\ past.by = park.phase => past.pushes = 0

\* A node that has just gone idle may not have said so.
Hushed == park.phase = "IDLE" /\ sent.cmd # "still" => past.idle <= lag

ParkInv ==
  ParkTypeOK /\ Timed /\ Trailed /\ CompleteEarned /\ Clear /\ EntryStops /\ Hushed

-----------------------------------------------------------------------------
(* The phases.                                                             *)

\* A manoeuvre is a sequence of phases, each followed by the next one.
LEMMA Manoeuvres ==
  ASSUME NEW m \in DOMAIN Manoeuvre
  PROVE  /\ Manoeuvre[m] \in Seq(Phase) /\ Len(Manoeuvre[m]) \in Nat \ {0}
         /\ Manoeuvre[m][1] \in Phase /\ Manoeuvre[m][1] \notin Entry
         /\ \A i \in 1 .. Len(Manoeuvre[m]) :
              Sequel(Manoeuvre[m][i]) =
                IF i = Len(Manoeuvre[m]) THEN "IDLE" ELSE Manoeuvre[m][i + 1]
<1> DEFINE M == Manoeuvre[m]
<1>1. m = "parallel" \/ m = "perpendicular"
  BY DEF Manoeuvre
<1>2. CASE m = "parallel"
  <2>1. M = << "PARALLEL_FORWARD", "PARALLEL_STEER_REVERSE", "PARALLEL_STRAIGHTEN",
               "PARALLEL_WAIT", "PARALLEL_EXIT" >>
    BY <1>2 DEF Manoeuvre
  <2>2. M \in Seq(Phase) /\ Len(M) = 5
    BY <2>1 DEF Phase
  <2>3. /\ M[1] = "PARALLEL_FORWARD" /\ M[2] = "PARALLEL_STEER_REVERSE"
        /\ M[3] = "PARALLEL_STRAIGHTEN" /\ M[4] = "PARALLEL_WAIT" /\ M[5] = "PARALLEL_EXIT"
    BY <2>1
  <2> HIDE DEF M
  <2>4. /\ Sequel(M[1]) = M[2] /\ Sequel(M[2]) = M[3] /\ Sequel(M[3]) = M[4]
        /\ Sequel(M[4]) = M[5] /\ Sequel(M[5]) = "IDLE"
    BY <2>3 DEF Sequel
  <2>5. \A i \in 1 .. 5 : Sequel(M[i]) = IF i = 5 THEN "IDLE" ELSE M[i + 1]
    <3> TAKE i \in 1 .. 5
    <3>1. i = 1 \/ i = 2 \/ i = 3 \/ i = 4 \/ i = 5
      OBVIOUS
    <3> QED BY <2>4, <3>1
  <2>6. M[1] \in Phase /\ M[1] \notin Entry
    BY <2>3 DEF Phase, Entry
  <2> QED BY <2>2, <2>5, <2>6 DEF M
<1>3. CASE m = "perpendicular"
  <2>1. M = << "PERP_TURN_IN", "PERP_FORWARD", "PERP_WAIT", "PERP_REVERSE_OUT" >>
    BY <1>3 DEF Manoeuvre
  <2>2. M \in Seq(Phase) /\ Len(M) = 4
    BY <2>1 DEF Phase
  <2>3. /\ M[1] = "PERP_TURN_IN" /\ M[2] = "PERP_FORWARD"
        /\ M[3] = "PERP_WAIT" /\ M[4] = "PERP_REVERSE_OUT"
    BY <2>1
  <2> HIDE DEF M
  <2>4. /\ Sequel(M[1]) = M[2] /\ Sequel(M[2]) = M[3] /\ Sequel(M[3]) = M[4]
        /\ Sequel(M[4]) = "IDLE"
    BY <2>3 DEF Sequel
  <2>5. \A i \in 1 .. 4 : Sequel(M[i]) = IF i = 4 THEN "IDLE" ELSE M[i + 1]
    <3> TAKE i \in 1 .. 4
    <3>1. i = 1 \/ i = 2 \/ i = 3 \/ i = 4
      OBVIOUS
    <3> QED BY <2>4, <3>1
  <2>6. M[1] \in Phase /\ M[1] \notin Entry
    BY <2>3 DEF Phase, Entry
  <2> QED BY <2>2, <2>5, <2>6 DEF M
<1> QED BY <1>1, <1>2, <1>3

\* No phase follows itself.
LEMMA NextPhase ==
  ASSUME NEW p \in Phase
  PROVE  Sequel(p) \in Phase \cup {"IDLE"} /\ Sequel(p) # p /\ p # "IDLE"
BY DEF Phase, Sequel

\* The trail of a phase that is over: the manoeuvre has come to the next phase, or
\* the trail is the whole of it.
LEMMA TrailGrows ==
  ASSUME NEW m \in DOMAIN Manoeuvre, NEW i \in 1 .. Len(Manoeuvre[m]),
         past.trail \in Seq(Phase), park.phase \in Phase, Reached(m, i)
  PROVE  LET t == Append(past.trail, park.phase)
         IN  /\ Sequel(park.phase) = "IDLE" => t = Manoeuvre[m]
             /\ Sequel(park.phase) # "IDLE" =>
                  /\ i + 1 \in 1 .. Len(Manoeuvre[m])
                  /\ Sequel(park.phase) = Manoeuvre[m][i + 1] /\ Len(t) = i
                  /\ \A j \in 1 .. i : t[j] = Manoeuvre[m][j]
<1> DEFINE M == Manoeuvre[m]
           t == Append(past.trail, park.phase)
<1>1. M \in Seq(Phase) /\ Len(M) \in Nat \ {0} /\ i \in 1 .. Len(M)
  BY Manoeuvres
<1>2. Sequel(M[i]) = IF i = Len(M) THEN "IDLE" ELSE M[i + 1]
  BY Manoeuvres
<1>3. /\ park.phase = M[i] /\ Len(past.trail) = i - 1
      /\ \A j \in 1 .. i - 1 : past.trail[j] = M[j]
  BY DEF Reached
<1>4. /\ t \in Seq(Phase) /\ Len(t) = Len(past.trail) + 1
      /\ t[Len(past.trail) + 1] = park.phase
      /\ \A j \in 1 .. Len(past.trail) : t[j] = past.trail[j]
  BY AppendProperties
<1> HIDE DEF M, t
<1>5. Len(t) = i
  BY <1>1, <1>3, <1>4
<1>6. \A j \in 1 .. i : t[j] = M[j]
  <2> TAKE j \in 1 .. i
  <2>1. CASE j = i
    BY <1>1, <1>3, <1>4, <2>1
  <2>2. CASE j # i
    <3>1. j \in 1 .. i - 1 /\ j \in 1 .. Len(past.trail)
      BY <1>1, <1>3, <2>2
    <3> QED BY <1>3, <1>4, <3>1
  <2> QED BY <2>1, <2>2
<1>7. CASE i = Len(M)
  <2>1. Len(t) = Len(M) /\ \A j \in 1 .. Len(t) : t[j] = M[j]
    BY <1>5, <1>6, <1>7
  <2>2. t = M
    BY <1>1, <1>4, <2>1, SeqEqual
  <2>3. Sequel(park.phase) = "IDLE"
    BY <1>2, <1>3, <1>7
  <2> QED BY <2>2, <2>3 DEF M, t
<1>8. CASE i # Len(M)
  <2>1. i + 1 \in 1 .. Len(M)
    BY <1>1, <1>8
  <2>2. Sequel(park.phase) = M[i + 1]
    BY <1>2, <1>3, <1>8
  <2>3. Sequel(park.phase) # "IDLE"
    <3>1. M[i + 1] \in Phase
      BY <1>1, <2>1
    <3> QED BY <2>2, <3>1 DEF Phase
  <2> QED BY <1>5, <1>6, <2>1, <2>2, <2>3 DEF M, t
<1> QED BY <1>7, <1>8

\* A phase commands a motion.
LEMMA MotionType == ASSUME NEW p PROVE MotionOf(p) \in Motion
BY DEF MotionOf, Motion

\* The types of the fields.
LEMMA Fields ==
  ASSUME ParkTypeOK
  PROVE  /\ park \in ParkNode /\ sent \in ParkSent /\ past \in ParkPast
         /\ park.phase \in Phase \cup {"IDLE"} /\ park.age \in Nat /\ park.dist \in Nat
         /\ lag \in 0 .. ParkGap /\ ParkGap \in Nat \ {0}
         /\ past.pushes \in 0 .. 2 /\ past.idle \in 0 .. ParkGap + 1
         /\ \A p \in Phase : Time[p] \in Nat /\ Distance[p] \in Nat
BY ParkingAssumption DEF ParkTypeOK, ParkNode, ParkPast

\* A phase begins with its clock and its distance at zero.
LEMMA StartFacts ==
  ASSUME NEW n \in ParkNode, NEW p \in Phase \cup {"IDLE"}
  PROVE  /\ StartPhase(n, p) \in ParkNode /\ StartPhase(n, p).phase = p
         /\ StartPhase(n, p).age = 0
BY DEF StartPhase, ParkNode

-----------------------------------------------------------------------------
(* The invariant.                                                          *)

\* The node starts in it.
LEMMA ParkInitInv == ParkInit => ParkInv
<1> SUFFICES ASSUME ParkInit PROVE ParkInv
  OBVIOUS
<1>1. ParkTypeOK
  BY ParkingAssumption DEF ParkInit, ParkTypeOK, ParkNode, ParkSent, ParkPast, Motion
<1>2. Timed /\ Trailed /\ CompleteEarned /\ Clear /\ EntryStops /\ Hushed
  BY ParkingAssumption DEF ParkInit, Timed, Trailed, CompleteEarned, Clear, EntryStops, Hushed,
    Entry
<1> QED BY <1>1, <1>2 DEF ParkInv

\* A command for a manoeuvre keeps it.
LEMMA StartInv ==
  ASSUME ParkInv, NEW m \in DOMAIN Manoeuvre, StartCommand(m)
  PROVE  ParkInv'
<1> DEFINE p == Manoeuvre[m][1]
<1>1. p \in Phase /\ p \notin Entry
  BY Manoeuvres
<1>2. /\ park \in ParkNode /\ sent \in ParkSent /\ past \in ParkPast /\ lag \in 0 .. ParkGap
      /\ Time[p] \in Nat /\ ParkGap \in Nat \ {0}
  BY <1>1, Fields DEF ParkInv
<1>3. park' = StartPhase(park, p) /\ lag' = lag
  BY DEF StartCommand
<1> HIDE DEF p
<1>4. park' \in ParkNode /\ park'.phase = p /\ park'.age = 0
  BY <1>1, <1>2, <1>3, StartFacts
<1>5. sent' \in ParkSent /\ sent'.complete = FALSE
  BY <1>2 DEF StartCommand, ParkSent
<1>6. /\ past' \in ParkPast /\ past'.trail = << >> /\ past'.by = past.by
      /\ past'.pushes = past.pushes
  <2>1. << >> \in Seq(Phase)
    OBVIOUS
  <2> QED BY <1>2, <2>1 DEF StartCommand, ParkPast
<1>7. p # "IDLE"
  BY <1>1 DEF Phase
<1>8. ParkTypeOK'
  BY <1>2, <1>3, <1>4, <1>5, <1>6 DEF ParkTypeOK
<1>9. Timed'
  BY <1>2, <1>3, <1>4 DEF Timed
<1>10. CompleteEarned' /\ Clear' /\ Hushed'
  BY <1>1, <1>4, <1>5, <1>6, <1>7 DEF CompleteEarned, Clear, Hushed
<1>11. EntryStops'
  BY <1>6 DEF ParkInv, EntryStops
<1>12. Trailed'
  <2>1. Len(Manoeuvre[m]) \in Nat \ {0}
    BY Manoeuvres
  <2>2. 1 \in 1 .. Len(Manoeuvre[m])
    BY <2>1
  <2>3. Reached(m, 1)'
    BY <1>4, <1>6 DEF Reached, p
  <2> QED BY <1>5, <2>2, <2>3 DEF Trailed
<1> QED BY <1>8, <1>9, <1>10, <1>11, <1>12 DEF ParkInv

\* A command to stop keeps it.
LEMMA StopInv ==
  ASSUME ParkInv, StopCommand
  PROVE  ParkInv'
<1>1. /\ park \in ParkNode /\ sent \in ParkSent /\ past \in ParkPast /\ lag \in 0 .. ParkGap
      /\ ParkGap \in Nat \ {0}
  BY Fields DEF ParkInv
<1>2. park' = StartPhase(park, "IDLE") /\ sent' = sent /\ lag' = lag
  BY DEF StopCommand
<1>3. park' \in ParkNode /\ park'.phase = "IDLE"
  BY <1>1, <1>2, StartFacts
<1>4. /\ past' \in ParkPast /\ past'.trail = past.trail /\ past'.by = past.by
      /\ past'.pushes = past.pushes
      /\ past'.idle = IF park.phase = "IDLE" THEN past.idle ELSE 0
  BY <1>1 DEF StopCommand, ParkPast
<1>5. ParkTypeOK'
  BY <1>1, <1>2, <1>3, <1>4 DEF ParkTypeOK
<1>6. Timed' /\ Trailed'
  BY <1>3 DEF Timed, Trailed
<1>7. CompleteEarned'
  BY <1>2, <1>4 DEF ParkInv, CompleteEarned
<1>8. EntryStops' /\ Clear'
  <2>1. "IDLE" \notin Entry
    BY DEF Entry
  <2> QED BY <1>3, <1>4, <2>1 DEF ParkInv, EntryStops, Clear
<1>9. Hushed'
  BY <1>1, <1>2, <1>3, <1>4 DEF ParkInv, Hushed
<1> QED BY <1>5, <1>6, <1>7, <1>8, <1>9 DEF ParkInv

\* A message that moves neither the phase nor its clock keeps it.
LEMMA SensorInv ==
  ASSUME ParkInv, park' \in ParkNode, park'.phase = park.phase, park'.age = park.age,
         UNCHANGED <<sent, lag, past>>
  PROVE  ParkInv'
BY DEF ParkInv, ParkTypeOK, Timed, Trailed, Reached, CompleteEarned, Clear, EntryStops, Hushed

\* Odometry and the lidar keep it.
LEMMA WallInv ==
  ASSUME ParkInv, NEW f \in BOOLEAN, NEW r \in BOOLEAN, WallCallback(f, r)
  PROVE  ParkInv'
<1>1. park' \in ParkNode /\ park'.phase = park.phase /\ park'.age = park.age
  BY DEF ParkInv, ParkTypeOK, WallCallback, ParkNode
<1> QED BY <1>1, SensorInv DEF WallCallback

LEMMA OdomInv ==
  ASSUME ParkInv, NEW d \in Steps, OdomCallback(d)
  PROVE  ParkInv'
<1> DEFINE e == Lesser(Distance[park.phase], park.dist + d)
<1>1. park \in ParkNode /\ park.phase \in Phase /\ park.dist \in Nat /\ d \in Nat
  BY Fields, ParkingAssumption DEF ParkInv, OdomCallback
<1>2. e \in Nat
  BY <1>1, Fields DEF ParkInv, Lesser
<1>3. park' = [park EXCEPT !.dist = e]
  BY DEF OdomCallback
<1> HIDE DEF e
<1>4. park' \in ParkNode /\ park'.phase = park.phase /\ park'.age = park.age
  BY <1>1, <1>2, <1>3 DEF ParkNode
<1> QED BY <1>4, SensorInv DEF OdomCallback

\* An idle run of the loop keeps it.
LEMMA IdleInv ==
  ASSUME ParkInv, IdleLoop, lag' = 0
  PROVE  ParkInv'
<1>1. /\ park \in ParkNode /\ sent \in ParkSent /\ past \in ParkPast /\ ParkGap \in Nat \ {0}
      /\ park.phase = "IDLE" /\ park' = park
  BY Fields DEF ParkInv, IdleLoop
<1>2. sent' \in ParkSent /\ sent'.cmd = "still" /\ sent'.complete = sent.complete
  BY <1>1 DEF IdleLoop, ParkSent, Motion
<1>3. past' \in ParkPast /\ past'.by = "IDLE" /\ past'.pushes = 0 /\ past'.trail = past.trail
  <2>1. past' = [past EXCEPT !.by = "IDLE", !.pushes = 0]
    BY DEF IdleLoop
  <2>2. 0 \in 0 .. 2 /\ "IDLE" \in Phase \cup {"IDLE"}
    OBVIOUS
  <2> QED BY <1>1, <2>1, <2>2 DEF ParkPast
<1>4. ParkTypeOK'
  BY <1>1, <1>2, <1>3 DEF ParkTypeOK
<1>5. Timed' /\ Trailed' /\ Hushed'
  BY <1>1, <1>2 DEF Timed, Trailed, Hushed
<1>6. CompleteEarned'
  BY <1>2, <1>3 DEF ParkInv, CompleteEarned
<1>7. Clear' /\ EntryStops'
  BY <1>3 DEF Clear, EntryStops
<1> QED BY <1>4, <1>5, <1>6, <1>7 DEF ParkInv

\* A run of the loop in a phase keeps it.
LEMMA PhaseInv ==
  ASSUME ParkInv, PhaseLoop, lag' = 0
  PROVE  ParkInv'
<1> DEFINE p == park.phase
           finish == Over(p) /\ Sequel(p) = "IDLE"
           pushed == IF ~AtWall(p) THEN 0
                     ELSE IF past.by = p THEN Lesser(2, past.pushes + 1) ELSE 1
<1>1. /\ park \in ParkNode /\ sent \in ParkSent /\ past \in ParkPast /\ ParkGap \in Nat \ {0}
      /\ p \in Phase /\ Time[p] \in Nat /\ park.age \in Nat /\ past.pushes \in 0 .. 2
  BY Fields DEF ParkInv, PhaseLoop
<1>2. /\ park' = IF finish THEN [park EXCEPT !.phase = "IDLE"]
                 ELSE IF Over(p) THEN StartPhase(park, Sequel(p)) ELSE park
      /\ sent' = [cmd |-> MotionOf(p), complete |-> sent.complete \/ finish]
      /\ past' = [trail  |-> IF Over(p) THEN Append(past.trail, p) ELSE past.trail,
                  by |-> p, pushes |-> pushed, idle |-> 0]
  BY DEF PhaseLoop
<1>3. Sequel(p) \in Phase \cup {"IDLE"} /\ Sequel(p) # p /\ p # "IDLE"
  BY <1>1, NextPhase
<1>4. /\ ~sent.complete /\ past.trail \in Seq(Phase)
      /\ \E m \in DOMAIN Manoeuvre : \E i \in 1 .. Len(Manoeuvre[m]) : Reached(m, i)
  BY <1>1, <1>3 DEF ParkInv, Trailed, ParkPast
<1>5. /\ pushed \in 0 .. 2
      /\ p \in Entry => pushed <= 1
      /\ p \in Entry /\ ~Over(p) => pushed = 0
  <2>1. p \in Entry /\ past.by = p => past.pushes = 0
    BY DEF ParkInv, Clear
  <2>2. p \in Entry /\ AtWall(p) => Over(p)
    BY DEF Over
  <2> QED BY <1>1, <2>1, <2>2 DEF Lesser
<1>6. /\ ~Over(p) => park.age <= Time[p]
  BY <1>1 DEF Over
<1>7. /\ past' \in ParkPast /\ past'.by = p /\ past'.pushes = pushed /\ past'.idle = 0
      /\ past'.trail = IF Over(p) THEN Append(past.trail, p) ELSE past.trail
  <2>1. Append(past.trail, p) \in Seq(Phase)
    BY <1>1, <1>4
  <2> HIDE DEF pushed
  <2>2. (IF Over(p) THEN Append(past.trail, p) ELSE past.trail) \in Seq(Phase)
    BY <1>4, <2>1
  <2> QED BY <1>1, <1>2, <1>5, <2>2 DEF ParkPast
<1>8. sent' \in ParkSent /\ sent'.complete = finish
  <2>1. MotionOf(p) \in Motion
    BY MotionType
  <2>2. sent.complete = FALSE /\ finish \in BOOLEAN
    BY <1>1, <1>4 DEF ParkSent
  <2> HIDE DEF finish
  <2> QED BY <1>2, <2>1, <2>2 DEF ParkSent
<1>9. CASE ~Over(p)
  <2>1. park' = park /\ ~sent'.complete /\ past'.trail = past.trail
    BY <1>2, <1>7, <1>8, <1>9
  <2>2. ParkTypeOK'
    BY <1>1, <1>7, <1>8, <2>1 DEF ParkTypeOK
  <2>3. Timed'
    BY <1>1, <1>6, <1>9, <2>1 DEF Timed
  <2>4. Trailed' /\ CompleteEarned' /\ Hushed'
    BY <1>1, <1>3, <1>4, <2>1 DEF Trailed, Reached, CompleteEarned, Hushed
  <2>5. Clear' /\ EntryStops'
    BY <1>5, <1>7, <1>9, <2>1 DEF Clear, EntryStops
  <2> QED BY <2>2, <2>3, <2>4, <2>5 DEF ParkInv
<1>10. CASE Over(p) /\ Sequel(p) # "IDLE"
  <2>1. park' = StartPhase(park, Sequel(p)) /\ ~sent'.complete
    BY <1>2, <1>8, <1>10
  <2>2. park' \in ParkNode /\ park'.phase = Sequel(p) /\ park'.age = 0
    BY <1>1, <1>3, <2>1, StartFacts
  <2>3. ParkTypeOK'
    BY <1>1, <1>7, <1>8, <2>2 DEF ParkTypeOK
  <2>4. Timed'
    <3>1. Time[Sequel(p)] \in Nat
      BY <1>3, <1>10, Fields DEF ParkInv
    <3> QED BY <2>2, <3>1 DEF Timed
  <2>5. Trailed' /\ CompleteEarned' /\ Hushed'
    <3>0. PICK m \in DOMAIN Manoeuvre : \E k \in 1 .. Len(Manoeuvre[m]) : Reached(m, k)
      BY <1>4
    <3>1. PICK i \in 1 .. Len(Manoeuvre[m]) : Reached(m, i)
      BY <3>0
    <3>2. /\ i + 1 \in 1 .. Len(Manoeuvre[m]) /\ Sequel(p) = Manoeuvre[m][i + 1]
          /\ Len(past'.trail) = i /\ \A j \in 1 .. i : past'.trail[j] = Manoeuvre[m][j]
      BY <1>1, <1>4, <1>7, <1>10, <3>1, TrailGrows
    <3>3. Reached(m, i + 1)'
      <4>1. (i + 1) - 1 = i
        OBVIOUS
      <4> QED BY <2>2, <3>2, <4>1 DEF Reached
    <3>4. \E k \in 1 .. Len(Manoeuvre[m]) : Reached(m, k)'
      BY <3>2, <3>3
    <3> QED BY <1>3, <1>10, <2>1, <2>2, <3>4 DEF Trailed, CompleteEarned, Hushed
  <2>6. Clear' /\ EntryStops'
    BY <1>3, <1>5, <1>7, <2>2 DEF Clear, EntryStops
  <2> QED BY <2>3, <2>4, <2>5, <2>6 DEF ParkInv
<1>11. CASE Over(p) /\ Sequel(p) = "IDLE"
  <2>1. park' = [park EXCEPT !.phase = "IDLE"]
    BY <1>2, <1>11
  <2>2. park' \in ParkNode /\ park'.phase = "IDLE"
    BY <1>1, <2>1 DEF ParkNode
  <2>3. ParkTypeOK'
    BY <1>1, <1>7, <1>8, <2>2 DEF ParkTypeOK
  <2>4. Timed' /\ Trailed'
    BY <2>2 DEF Timed, Trailed
  <2>5. CompleteEarned'
    <3>0. PICK m \in DOMAIN Manoeuvre : \E k \in 1 .. Len(Manoeuvre[m]) : Reached(m, k)
      BY <1>4
    <3>1. PICK i \in 1 .. Len(Manoeuvre[m]) : Reached(m, i)
      BY <3>0
    <3>2. past'.trail = Manoeuvre[m]
      BY <1>1, <1>4, <1>7, <1>11, <3>1, TrailGrows
    <3> QED BY <3>2 DEF CompleteEarned
  <2>6. Clear' /\ EntryStops'
    BY <1>3, <1>5, <1>7, <2>2 DEF Clear, EntryStops
  <2>7. Hushed'
    BY <1>7 DEF Hushed
  <2> QED BY <2>3, <2>4, <2>5, <2>6, <2>7 DEF ParkInv
<1> QED BY <1>9, <1>10, <1>11

\* The clock keeps it.
LEMMA ParkTickInv ==
  ASSUME ParkInv, ParkTick
  PROVE  ParkInv'
<1>1. /\ park \in ParkNode /\ sent \in ParkSent /\ past \in ParkPast /\ ParkGap \in Nat \ {0}
      /\ lag \in 0 .. ParkGap /\ park.age \in Nat /\ past.idle \in 0 .. ParkGap + 1
      /\ park.phase \in Phase \cup {"IDLE"} /\ \A p \in Phase : Time[p] \in Nat
  BY Fields DEF ParkInv
<1>2. lag' = lag + 1 /\ lag' \in 0 .. ParkGap /\ sent' = sent
  BY <1>1 DEF ParkTick
<1>3. /\ park' \in ParkNode /\ park'.phase = park.phase
      /\ park'.age \in Nat /\ park'.age <= park.age + 1
  <2>1. CASE park.phase = "IDLE"
    BY <1>1, <2>1 DEF ParkTick
  <2>2. CASE park.phase # "IDLE"
    <3> DEFINE a == Lesser(AgeCap(park.phase), park.age + 1)
    <3>1. a \in Nat /\ a <= park.age + 1
      BY <1>1, <2>2 DEF Lesser, AgeCap
    <3>2. park' = [park EXCEPT !.age = a]
      BY <2>2 DEF ParkTick
    <3> HIDE DEF a
    <3> QED BY <1>1, <3>1, <3>2 DEF ParkNode
  <2> QED BY <2>1, <2>2
<1>4. /\ past' \in ParkPast /\ past'.trail = past.trail /\ past'.by = past.by
      /\ past'.pushes = past.pushes
      /\ park.phase = "IDLE" => past'.idle <= past.idle + 1
  <2> DEFINE i == IF park.phase = "IDLE" THEN Lesser(ParkGap + 1, past.idle + 1) ELSE 0
  <2>1. i \in 0 .. ParkGap + 1 /\ (park.phase = "IDLE" => i <= past.idle + 1)
    BY <1>1 DEF Lesser
  <2>2. past' = [past EXCEPT !.idle = i]
    BY DEF ParkTick
  <2> HIDE DEF i
  <2> QED BY <1>1, <2>1, <2>2 DEF ParkPast
<1>5. ParkTypeOK'
  BY <1>1, <1>2, <1>3, <1>4 DEF ParkTypeOK
<1>6. Timed'
  BY <1>1, <1>2, <1>3 DEF ParkInv, Timed
<1>7. Trailed' /\ CompleteEarned' /\ Clear' /\ EntryStops'
  BY <1>2, <1>3, <1>4 DEF ParkInv, Trailed, Reached, CompleteEarned, Clear,
    EntryStops
<1>8. Hushed'
  <2>1. past'.idle \in Nat
    BY <1>4 DEF ParkPast
  <2> QED BY <1>1, <1>2, <1>3, <1>4, <2>1 DEF ParkInv, Hushed
<1> QED BY <1>5, <1>6, <1>7, <1>8 DEF ParkInv

LEMMA ParkNextInv ==
  ASSUME ParkInv, [ParkNext]_parkVars
  PROVE  ParkInv'
<1>1. CASE UNCHANGED parkVars
  BY <1>1 DEF parkVars, ParkInv, ParkTypeOK, Timed, Trailed, Reached, CompleteEarned, Clear,
    EntryStops, Hushed
<1>2. CASE ParkLoop
  BY <1>2, IdleInv, PhaseInv DEF ParkLoop
<1> QED BY <1>1, <1>2, StartInv, StopInv, WallInv, OdomInv, ParkTickInv DEF ParkNext

-----------------------------------------------------------------------------
(* The theorems.                                                           *)

\* The strengthening: every reachable state satisfies it.
THEOREM ParkInductive == ParkSpec => []ParkInv
BY ParkInitInv, ParkNextInv, PTL DEF ParkSpec

\* Every variable keeps its type.
THEOREM ParkTypeCorrect == ParkSpec => []ParkTypeOK
BY ParkInductive, PTL DEF ParkInv

\* No phase outlives its timeout by more than one run of the loop, for any
\* timeouts and whatever odometry and the lidar say.
THEOREM PhaseTheorem == ParkSpec => []PhaseBounded
<1>1. ParkInv => PhaseBounded
  <2> SUFFICES ASSUME ParkInv, park.phase # "IDLE"
               PROVE  park.age <= Time[park.phase] + ParkGap
    BY DEF PhaseBounded
  <2>1. /\ park.age \in Nat /\ lag \in 0 .. ParkGap /\ ParkGap \in Nat
        /\ Time[park.phase] \in Nat
    BY Fields DEF ParkInv
  <2> QED BY <2>1 DEF ParkInv, Timed
<1> QED BY <1>1, ParkInductive, PTL

\* /parking_complete is true only after all phases of a manoeuvre in order.
THEOREM CompleteTheorem == ParkSpec => []CompleteEarned
BY ParkInductive, PTL DEF ParkInv

\* On the way into the slot one command at most goes against a wall seen.
THEOREM EntryTheorem == ParkSpec => []EntryStops
BY ParkInductive, PTL DEF ParkInv

\* One run of the loop after a manoeuvre ended the car is told to stand.
THEOREM IdleTheorem == ParkSpec => []IdleStands
<1>1. ParkInv => IdleStands
  <2> SUFFICES ASSUME ParkInv, park.phase = "IDLE", past.idle > ParkGap, sent.cmd # "still"
               PROVE  FALSE
    BY DEF IdleStands
  <2>1. past.idle <= lag
    BY DEF ParkInv, Hushed
  <2> QED BY <2>1, Fields DEF ParkInv
<1> QED BY <1>1, ParkInductive, PTL
===============================================================================
