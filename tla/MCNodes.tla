------------------------------ MODULE MCNodes ------------------------------
(***************************************************************************)
(* Instances of the nodes that stand alone: the detectors, whose groups    *)
(* share a topic among themselves, and the two nodes with manoeuvres of    *)
(* their own.  None of the three modules writes a topic that another one   *)
(* reads, so a behaviour runs one of them.                                 *)
(*                                                                         *)
(* Detectors: the parameters and literals of the code.                     *)
(* ObstructionAvoidance: readings below, at and above min_safe_dist and    *)
(* beyond detect_dist, densities within and outside the hysteresis band of *)
(* each other.  ParkingController: every phase can end by distance before  *)
(* its timeout, and every timeout is longer than one run of the loop.      *)
(***************************************************************************)
EXTENDS Detectors, ObstructionAvoidance, ParkingController

Group(nodes, signs, lamps, hints) ==
  [nodes |-> nodes, signs |-> signs, lamps |-> lamps, hints |-> hints]

AllGroups ==
  { Group({"signage", "edge"}, {"obstacle"}, {}, {}),
    Group({"signage", "light"}, {}, Lamp, {}),
    Group({"signage"}, {"hill"}, {}, Hint), Group({"signage"}, {"parking"}, {}, {}),
    Group({"tunnel"}, {}, {}, {}), Group({"gate"}, {}, {}, {}),
    Group({"front"}, {}, {}, {}) }

OnFrames  == [d \in TwoSided |-> 3]
OffFrames == [d \in TwoSided |-> IF d = "edge" THEN 5 ELSE 3]

SomeRanges == {1, 2, 3, 999}
SomeDensities == {0, 10, 11, 20}

Timeouts == [p \in Phase |-> IF p \in {"PARALLEL_STRAIGHTEN", "PERP_WAIT"} THEN 2 ELSE 4]
Lengths  == [p \in Phase |-> IF p = "PARALLEL_STRAIGHTEN" THEN 1 ELSE 2]

VARIABLE running

MCInit ==
  /\ DetectInit /\ Init /\ ParkInit
  /\ running \in {"detectors", "obstruction_avoidance", "parking_controller"}
  /\ running # "detectors" => group = CHOOSE g \in Groups : TRUE

MCNext ==
  \/ running = "detectors" /\ DetectNext /\ UNCHANGED <<vars, parkVars, running>>
  \/ running = "obstruction_avoidance" /\ Next /\ UNCHANGED <<detectVars, parkVars, running>>
  \/ running = "parking_controller" /\ ParkNext /\ UNCHANGED <<detectVars, vars, running>>

MCSpec ==
  /\ MCInit /\ [][MCNext]_<<detectVars, vars, parkVars, running>>
  /\ running = "parking_controller" => ParkFairness
=============================================================================
