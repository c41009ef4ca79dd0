-------------------------- MODULE AutoDriver_proofs --------------------------
(***************************************************************************)
(* Theorems about the challenge state machine, for any course, any sensor  *)
(* readings and any values of the parameters.                              *)
(*                                                                         *)
(* The loop is a pipeline: Prepared, then the winner's Decision, then the  *)
(* dwell gate Switched.  Each stage has a lemma that says what it keeps    *)
(* and what it settles; the step AutoTick only combines the three.         *)
(***************************************************************************)
EXTENDS AutoDriver, TLAPS

-----------------------------------------------------------------------------
(* Facts about the data types.                                             *)

\* The eleven claimants, none of which is the tag of a manual tick or of silence.
LEMMA Behaviours ==
  /\ Behaviour = { "estop", "obstruction", "obstacle", "roundabout", "parking",
                   "tunnel", "boomGate", "light", "hill", "laneLost", "lane" }
  /\ "manual" \notin Behaviour /\ None \notin Behaviour
<1>1. Behaviour = { "estop", "obstruction", "obstacle", "roundabout", "parking",
                    "tunnel", "boomGate", "light", "hill", "laneLost", "lane" }
  BY DEF Behaviour, Rank
<1> QED BY <1>1, AutoDriverAssumption

\* What no stage before the dwell gate changes.
Kept(d, m) ==
  /\ m.state = d.state /\ m.entryAge = d.entryAge /\ m.entryDist = d.entryDist
  /\ m.dist = d.dist /\ m.obstacle = d.obstacle /\ m.lastCmd = d.lastCmd
  /\ m.stale = d.stale /\ m.pitch = d.pitch

\* After the stale-data fallbacks whatever a detector still says is fresh.
LEMMA FallbacksFacts ==
  ASSUME NEW d \in Drv
  PROVE  LET m == Fallbacks(d)
         IN  /\ m \in Drv /\ Kept(d, m)
             /\ m.lap = d.lap /\ m.boomArmed = d.boomArmed /\ m.tlArmed = d.tlArmed
             /\ m.cleared = d.cleared /\ m.wasActive = d.wasActive
             /\ m.parkActive = d.parkActive /\ m.parkDone = d.parkDone
             /\ m.see["obstruction"] => "obstruction" \notin d.stale
             /\ ~m.see["boomOpen"] => "boomOpen" \notin d.stale
             /\ m.light # "unknown" => "light" \notin d.stale /\ m.light = d.light
<1> DEFINE m == Fallbacks(d)
<1>1. /\ m.see = [t \in Flag |-> IF t \in d.stale THEN t = "boomOpen" ELSE d.see[t]]
      /\ m.light = IF "light" \in d.stale THEN "unknown" ELSE d.light
  BY DEF Fallbacks, Drv
<1>2. m.see \in [Flag -> BOOLEAN]
  BY <1>1 DEF Drv
<1>3. m \in Drv
  BY <1>2 DEF Fallbacks, Drv, Light
<1>4. "obstruction" \in Flag /\ "boomOpen" \in Flag
  BY DEF Flag
<1>5. m.see["obstruction"] => "obstruction" \notin d.stale
  BY <1>1, <1>4
<1>6. ~m.see["boomOpen"] => "boomOpen" \notin d.stale
  BY <1>1, <1>4
<1>7. Kept(d, m) /\ m.lap = d.lap /\ m.boomArmed = d.boomArmed
      /\ m.tlArmed = d.tlArmed /\ m.cleared = d.cleared
      /\ m.wasActive = d.wasActive /\ m.parkActive = d.parkActive
      /\ m.parkDone = d.parkDone
  BY DEF Fallbacks, Drv, Kept
<1> HIDE DEF m
<1> QED BY <1>1, <1>3, <1>5, <1>6, <1>7 DEF m

\* The lap test keeps everything or starts lap 2 without gates and marks.
LEMMA AdvanceLapFacts ==
  ASSUME NEW d \in Drv
  PROVE  LET m == AdvanceLap(d)
         IN  /\ m \in Drv /\ Kept(d, m)
             /\ m.see = d.see /\ m.light = d.light
             /\ m.parkDone = d.parkDone /\ m.parkActive \in {d.parkActive, FALSE}
             /\ \/ /\ m.lap = d.lap /\ m.boomArmed = d.boomArmed
                   /\ m.tlArmed = d.tlArmed /\ m.cleared = d.cleared
                   /\ m.wasActive = d.wasActive
                \/ /\ d.lap = 1 /\ m.lap = 2 /\ d.tlArmed /\ d.light = "green"
                   /\ ~m.boomArmed /\ ~m.tlArmed /\ m.cleared = None /\ ~m.wasActive
<1>1. CASE GreenForLapTwo(d)
  BY <1>1 DEF AdvanceLap, GreenForLapTwo, Drv, Kept
<1>2. CASE ~GreenForLapTwo(d)
  BY <1>2 DEF AdvanceLap, Kept
<1> QED BY <1>1, <1>2

\* The edge detector marks the distance only where an obstruction had been active.
LEMMA ObstructionEdgeFacts ==
  ASSUME NEW d \in Drv
  PROVE  LET m == ObstructionEdge(d)
         IN  /\ m \in Drv /\ Kept(d, m)
             /\ m.see = d.see /\ m.light = d.light /\ m.lap = d.lap
             /\ m.parkDone = d.parkDone /\ m.parkActive = d.parkActive
             /\ m.boomArmed = d.boomArmed /\ m.tlArmed = d.tlArmed
             /\ m.cleared # None =>
                  d.cleared # None \/ (d.wasActive /\ m.cleared = d.dist)
             /\ m.cleared \in {d.cleared, d.dist}
             /\ m.wasActive => d.wasActive \/ m.see["obstruction"]
<1>1. "obstruction" \in Flag /\ d.see["obstruction"] \in BOOLEAN
  BY DEF Drv, Flag
<1>2. CASE d.see["obstruction"]
  BY <1>1, <1>2 DEF ObstructionEdge, Drv, Kept
<1>3. CASE ~d.see["obstruction"] /\ d.wasActive
  BY <1>1, <1>3 DEF ObstructionEdge, Drv, Kept
<1>4. CASE ~d.see["obstruction"] /\ ~d.wasActive
  BY <1>1, <1>4 DEF ObstructionEdge, Drv, Kept
<1> QED BY <1>2, <1>3, <1>4

\* The expiry of the hill prime window touches no other field.
LEMMA HillPrimeFacts ==
  ASSUME NEW d \in Drv
  PROVE  LET m == HillPrime(d)
         IN  /\ m \in Drv /\ Kept(d, m)
             /\ m.see = d.see /\ m.light = d.light /\ m.lap = d.lap
             /\ m.parkDone = d.parkDone /\ m.parkActive = d.parkActive
             /\ m.boomArmed = d.boomArmed /\ m.tlArmed = d.tlArmed
             /\ m.cleared = d.cleared /\ m.wasActive = d.wasActive
BY DEF HillPrime, Drv, Kept

\* The first half of the loop: it settles which messages are fresh, and it
\* either keeps the lap and its marks or starts lap 2 with none.
LEMMA PreparedFacts ==
  ASSUME NEW d \in Drv
  PROVE  LET p == Prepared(d)
         IN  /\ p \in Drv /\ Kept(d, p) /\ p.parkDone = d.parkDone
             /\ p.parkActive => d.parkActive
             /\ p.see["obstruction"] => "obstruction" \notin d.stale
             /\ ~p.see["boomOpen"] => "boomOpen" \notin d.stale
             /\ p.light # "unknown" => "light" \notin d.stale
             /\ p.wasActive => d.wasActive \/ p.see["obstruction"]
             /\ p.cleared \in {None, d.cleared, d.dist}
             /\ \/ /\ p.lap = d.lap
                   /\ p.boomArmed = d.boomArmed /\ p.tlArmed = d.tlArmed
                   /\ p.cleared # None => d.cleared # None \/ d.wasActive
                \/ /\ p.lap # d.lap /\ d.lap = 1 /\ d.tlArmed
                   /\ d.light = "green" /\ "light" \notin d.stale
                   /\ ~p.boomArmed /\ ~p.tlArmed /\ p.cleared = None
                   /\ p.wasActive => p.see["obstruction"]
<1> DEFINE a == Fallbacks(d)
           b == AdvanceLap(a)
           c == ObstructionEdge(b)
           p == HillPrime(c)
<1>0. p = Prepared(d) BY DEF Prepared
<1>1. a \in Drv BY FallbacksFacts
<1>2. b \in Drv BY <1>1, AdvanceLapFacts
<1>3. c \in Drv BY <1>2, ObstructionEdgeFacts
<1>4. p \in Drv /\ Kept(c, p) /\ p.see = c.see /\ p.light = c.light /\ p.lap = c.lap
      /\ p.parkDone = c.parkDone /\ p.parkActive = c.parkActive
      /\ p.boomArmed = c.boomArmed /\ p.tlArmed = c.tlArmed
      /\ p.cleared = c.cleared /\ p.wasActive = c.wasActive
  BY <1>3, HillPrimeFacts
<1>5. Kept(a, b) /\ Kept(b, c) /\ Kept(d, a)
  BY <1>1, <1>2, FallbacksFacts, AdvanceLapFacts, ObstructionEdgeFacts
<1>6. Kept(d, p)
  <2> HIDE DEF a, b, c, p
  <2> QED BY <1>4, <1>5 DEF Kept
<1>7. /\ a.lap = d.lap /\ a.boomArmed = d.boomArmed /\ a.tlArmed = d.tlArmed
      /\ a.cleared = d.cleared /\ a.wasActive = d.wasActive
      /\ a.parkActive = d.parkActive /\ a.parkDone = d.parkDone
      /\ a.see["obstruction"] => "obstruction" \notin d.stale
      /\ ~a.see["boomOpen"] => "boomOpen" \notin d.stale
      /\ a.light # "unknown" => "light" \notin d.stale /\ a.light = d.light
  BY FallbacksFacts
<1>8. /\ b.see = a.see /\ b.light = a.light
      /\ b.parkDone = a.parkDone /\ b.parkActive \in {a.parkActive, FALSE}
      /\ \/ /\ b.lap = a.lap /\ b.boomArmed = a.boomArmed
            /\ b.tlArmed = a.tlArmed /\ b.cleared = a.cleared
            /\ b.wasActive = a.wasActive
         \/ /\ a.lap = 1 /\ b.lap = 2 /\ a.tlArmed /\ a.light = "green"
            /\ ~b.boomArmed /\ ~b.tlArmed /\ b.cleared = None /\ ~b.wasActive
  BY <1>1, AdvanceLapFacts
<1>9. /\ c.see = b.see /\ c.light = b.light /\ c.lap = b.lap
      /\ c.parkDone = b.parkDone /\ c.parkActive = b.parkActive
      /\ c.boomArmed = b.boomArmed /\ c.tlArmed = b.tlArmed
      /\ c.cleared # None => b.cleared # None \/ (b.wasActive /\ c.cleared = b.dist)
      /\ c.cleared \in {b.cleared, b.dist}
      /\ c.wasActive => b.wasActive \/ c.see["obstruction"]
  BY <1>2, ObstructionEdgeFacts
<1>10. b.dist = d.dist BY <1>5 DEF Kept
<1>11. None \notin Int /\ d.dist \in Int /\ d.lap \in {1, 2}
  BY AutoDriverAssumption DEF Drv, Dist
<1> HIDE DEF a, b, c, p
<1>12. p.parkDone = d.parkDone /\ (p.parkActive => d.parkActive)
  BY <1>4, <1>7, <1>8, <1>9
<1>13. /\ p.see["obstruction"] => "obstruction" \notin d.stale
       /\ ~p.see["boomOpen"] => "boomOpen" \notin d.stale
       /\ p.light # "unknown" => "light" \notin d.stale /\ p.light = d.light
  BY <1>4, <1>7, <1>8, <1>9
<1>14. p.wasActive => d.wasActive \/ p.see["obstruction"]
  BY <1>4, <1>7, <1>8, <1>9
<1>15. p.cleared \in {None, d.cleared, d.dist}
  BY <1>4, <1>7, <1>8, <1>9, <1>10
<1>16. \/ /\ p.lap = d.lap
          /\ p.boomArmed = d.boomArmed /\ p.tlArmed = d.tlArmed
          /\ p.cleared # None => d.cleared # None \/ d.wasActive
       \/ /\ p.lap # d.lap /\ d.lap = 1 /\ d.tlArmed
          /\ d.light = "green" /\ "light" \notin d.stale
          /\ ~p.boomArmed /\ ~p.tlArmed /\ p.cleared = None
          /\ p.wasActive => p.see["obstruction"]
  <2>1. CASE /\ b.lap = a.lap /\ b.boomArmed = a.boomArmed
             /\ b.tlArmed = a.tlArmed /\ b.cleared = a.cleared
             /\ b.wasActive = a.wasActive
    BY <2>1, <1>4, <1>7, <1>9
  <2>2. CASE /\ a.lap = 1 /\ b.lap = 2 /\ a.tlArmed /\ a.light = "green"
             /\ ~b.boomArmed /\ ~b.tlArmed /\ b.cleared = None /\ ~b.wasActive
    BY <2>2, <1>4, <1>7, <1>9
  <2> QED BY <2>1, <2>2, <1>8
<1> QED BY <1>0, <1>4, <1>6, <1>12, <1>13, <1>14, <1>15, <1>16

-----------------------------------------------------------------------------
(* The winner's decision.                                                  *)

\* The states whose cause must be present.
Caused(d, s) ==
  /\ s = "EMERGENCY_STOP" => d.see["estop"]
  /\ s = "OBSTRUCTION" => d.see["obstruction"]
  /\ s = "REVERSE_ADJUST" => d.obstacle
  /\ s = "BOOM_GATE" => ~d.see["boomOpen"]
  /\ s = "TRAFFIC_LIGHT" => d.light \in {"red", "yellow"}
  /\ s = "LANE_RECOVERY" => d.see["laneLost"]

\* The parking sequence is open.
Open(d) == d.lap = 2 /\ d.parkActive /\ ~d.parkDone

\* What a decision w of behaviour b, taken in d, may be.
Sound(d, b, w) ==
  /\ w.drv \in Drv /\ w.target \in ChallengeState /\ w.cmd \in Command
  /\ w.playback \in BOOLEAN
  /\ Kept(d, w.drv)
  /\ w.drv.lap = d.lap /\ w.drv.tlArmed = d.tlArmed /\ w.drv.light = d.light
  /\ w.drv.wasActive = d.wasActive /\ w.drv.cleared \in {d.cleared, None}
  /\ w.drv.primed = d.primed
  /\ \A t \in {"estop", "obstruction", "boomOpen", "laneLost"} : w.drv.see[t] = d.see[t]
  /\ w.drv.boomArmed => d.boomArmed \/ (d.state = "ROUNDABOUT" /\ d.cleared # None)
  /\ d.parkDone => w.drv.parkDone
  /\ b = "parking" => w.target = "PARKING_PLAYBACK" \/ w.drv.parkDone
                      \/ d.state # "PARKING_PLAYBACK"
  /\ b \in DOMAIN Urgent => w.target = Urgent[b][1] /\ w.cmd = Urgent[b][2]
  /\ Caused(d, w.target)
  /\ w.target \in {"PARKING_IDLE", "PARKING_PLAYBACK"} => w.cmd = "stop" /\ Open(w.drv)
  /\ w.playback => b = "parking" /\ w.target = "PARKING_PLAYBACK"
                   /\ d.state = "PARKING_IDLE" /\ ~d.parkDone

\* A decision that changes no field and goes to a state without a cause.
LEMMA PlainDecision ==
  ASSUME NEW d \in Drv, NEW b \in Behaviour, b \notin DOMAIN Urgent,
         b # "parking",
         NEW s \in ChallengeState \ { "EMERGENCY_STOP", "OBSTRUCTION", "REVERSE_ADJUST",
               "BOOM_GATE", "TRAFFIC_LIGHT", "LANE_RECOVERY", "PARKING_IDLE",
               "PARKING_PLAYBACK" },
         NEW c \in Command
  PROVE  Sound(d, b, Want(d, s, c))
BY DEF Sound, Want, Kept, Caused

\* The urgent claimants, listed.
LEMMA UrgentDomain ==
  DOMAIN Urgent = {"estop", "obstruction", "obstacle", "boomGate", "light"}
BY DEF Urgent

\* Priority 4 arms the boom gate only on its way out of ROUNDABOUT.
LEMMA RoundaboutSound ==
  ASSUME NEW d \in Drv, Claim(d)["roundabout"]
  PROVE  Sound(d, "roundabout", Roundabout(d))
<1>1. "roundabout" \in Behaviour /\ "roundabout" \notin DOMAIN Urgent
  BY Behaviours, UrgentDomain
<1>2. d.cleared # None
  BY DEF Claim
<1> DEFINE m == [d EXCEPT !.boomArmed = TRUE, !.cleared = None]
<1>3. m \in Drv
  BY DEF Drv
<1>4. CASE d.state = "ROUNDABOUT" /\ d.dist - d.entryDist >= RoundaboutDist
  <2>1. Roundabout(d) = Want(m, "LANE_FOLLOW", "lane")
    BY <1>4 DEF Roundabout
  <2>2. /\ Kept(d, m) /\ m.lap = d.lap /\ m.tlArmed = d.tlArmed /\ m.light = d.light
        /\ m.wasActive = d.wasActive /\ m.cleared = None /\ m.see = d.see
        /\ m.parkDone = d.parkDone /\ m.parkActive = d.parkActive /\ m.primed = d.primed
    BY DEF Drv, Kept
  <2> HIDE DEF m
  <2> QED BY <2>1, <2>2, <1>1, <1>2, <1>3, <1>4
          DEF Sound, Want, Caused, ChallengeState, Command
<1>5. CASE ~(d.state = "ROUNDABOUT" /\ d.dist - d.entryDist >= RoundaboutDist)
  <2>1. Roundabout(d) = Want(d, "ROUNDABOUT", "lane")
    BY <1>5 DEF Roundabout
  <2> QED BY <2>1, <1>1, PlainDecision DEF ChallengeState, Command
<1> QED BY <1>4, <1>5

\* Priority 5 publishes stop in its two states and closes the sequence it ends.
LEMMA ParkingSound ==
  ASSUME NEW d \in Drv, Claim(d)["parking"]
  PROVE  Sound(d, "parking", Parking(d))
<1>1. "parking" \in Behaviour /\ "parking" \notin DOMAIN Urgent
  BY Behaviours, UrgentDomain
<1>2. ~d.parkDone /\ d.lap = 2
  BY DEF Claim
<1> DEFINE p == [d EXCEPT !.parkActive = TRUE]
           m == [p EXCEPT !.parkDone = TRUE, !.parkActive = FALSE,
                          !.see["signboard"] = FALSE]
<1>3. /\ p \in Drv /\ Kept(d, p) /\ p.lap = d.lap /\ p.tlArmed = d.tlArmed
      /\ p.light = d.light /\ p.wasActive = d.wasActive /\ p.cleared = d.cleared
      /\ p.see = d.see /\ p.boomArmed = d.boomArmed /\ p.parkDone = d.parkDone
      /\ p.primed = d.primed /\ p.parkActive
  BY DEF Drv, Kept
<1>4. [p.see EXCEPT !["signboard"] = FALSE] \in [Flag -> BOOLEAN]
  BY <1>3 DEF Drv, Flag
<1>5. m \in Drv /\ Kept(p, m)
  <2>1. m = [p EXCEPT !.parkDone = TRUE, !.parkActive = FALSE,
                      !.see = [p.see EXCEPT !["signboard"] = FALSE]]
    BY <1>3 DEF Drv
  <2> HIDE DEF p
  <2> QED BY <2>1, <1>3, <1>4 DEF Drv, Kept
<1>6. /\ m.lap = p.lap /\ m.tlArmed = p.tlArmed
      /\ m.light = p.light /\ m.wasActive = p.wasActive /\ m.cleared = p.cleared
      /\ m.boomArmed = p.boomArmed /\ m.parkDone /\ m.primed = p.primed
      /\ \A t \in {"estop", "obstruction", "boomOpen", "laneLost"} : m.see[t] = p.see[t]
  <2> HIDE DEF p
  <2> QED BY <1>3 DEF Drv, Flag
<1> HIDE DEF p, m
<1>7. Kept(d, m)
  BY <1>3, <1>5 DEF Kept
<1>8. \/ d.state # "PARKING_PLAYBACK" /\ Parking(d) = Want(p, "PARKING_IDLE", "stop")
      \/ Parking(d) = Want(p, "PARKING_PLAYBACK", "stop")
      \/ /\ d.state = "PARKING_IDLE"
         /\ Parking(d) = [Want(p, "PARKING_PLAYBACK", "stop") EXCEPT !.playback = TRUE]
      \/ Parking(d) = Want(m, "LANE_FOLLOW", "stop")
  BY DEF Parking, Idling, StandingBy, p, m
<1>9. d.state # "PARKING_PLAYBACK" => Sound(d, "parking", Want(p, "PARKING_IDLE", "stop"))
  BY <1>1, <1>2, <1>3 DEF Sound, Want, Caused, Open, ChallengeState, Command
<1>10. Sound(d, "parking", Want(p, "PARKING_PLAYBACK", "stop"))
  BY <1>1, <1>2, <1>3 DEF Sound, Want, Caused, Open, ChallengeState, Command
<1>11. d.state = "PARKING_IDLE" =>
         Sound(d, "parking",
               [Want(p, "PARKING_PLAYBACK", "stop") EXCEPT !.playback = TRUE])
  BY <1>1, <1>2, <1>3 DEF Sound, Want, Caused, Open, ChallengeState, Command
<1>12. Sound(d, "parking", Want(m, "LANE_FOLLOW", "stop"))
  BY <1>1, <1>3, <1>5, <1>6, <1>7 DEF Sound, Want, Caused, ChallengeState, Command
<1> QED BY <1>8, <1>9, <1>10, <1>11, <1>12

\* Whoever wins the priority chain decides soundly.
LEMMA DecisionSound ==
  ASSUME NEW d \in Drv, NEW b \in Behaviour, Wins(Claim(d), b)
  PROVE  Sound(d, b, Decision(d, b))
<1>1. Claim(d)[b]
  BY DEF Wins
<1>2. CASE b = "estop"
  BY <1>1, <1>2 DEF Decision, Sound, Want, Kept, Caused, Claim, Urgent, ChallengeState, Command
<1>3. CASE b = "obstruction"
  BY <1>1, <1>3 DEF Decision, Sound, Want, Kept, Caused, Claim, Urgent, ChallengeState, Command
<1>4. CASE b = "obstacle"
  BY <1>1, <1>4 DEF Decision, Sound, Want, Kept, Caused, Claim, Urgent, ChallengeState, Command
<1>5. CASE b = "boomGate"
  BY <1>1, <1>5 DEF Decision, Sound, Want, Kept, Caused, Claim, Urgent, ChallengeState, Command
<1>6. CASE b = "light"
  BY <1>1, <1>6 DEF Decision, Sound, Want, Kept, Caused, Claim, Urgent, ChallengeState, Command
<1>7. CASE b = "roundabout"
  BY <1>1, <1>7, RoundaboutSound DEF Decision
<1>8. CASE b = "parking"
  BY <1>1, <1>8, ParkingSound DEF Decision
<1>9. CASE b = "tunnel"
  BY <1>9, UrgentDomain, PlainDecision DEF Decision, ChallengeState, Command
<1>10. CASE b = "hill"
  BY <1>10, UrgentDomain, PlainDecision DEF Decision, ChallengeState, Command
<1>11. CASE b = "laneLost"
  BY <1>1, <1>11, UrgentDomain
     DEF Decision, Sound, Want, Kept, Caused, Claim, ChallengeState, Command
<1>12. CASE b = "lane"
  BY <1>12, UrgentDomain, PlainDecision DEF Decision, ChallengeState, Command
<1> QED BY Behaviours, <1>2, <1>3, <1>4, <1>5, <1>6, <1>7, <1>8, <1>9, <1>10, <1>11, <1>12

-----------------------------------------------------------------------------
(* The dwell gate.                                                         *)

\* Either the decision takes effect, or neither the old nor the wanted state
\* is one of the immediate ones and the last command is repeated.
LEMMA SwitchedFacts ==
  ASSUME NEW d \in Drv, NEW b \in Behaviour, NEW w, Sound(d, b, w)
  PROVE  LET m == Switched(d, w)
         IN  /\ m \in Drv
             /\ m.lap = w.drv.lap /\ m.boomArmed = w.drv.boomArmed
             /\ m.cleared = w.drv.cleared /\ m.wasActive = w.drv.wasActive
             /\ m.see = w.drv.see /\ m.light = w.drv.light /\ m.stale = d.stale
             /\ m.primed = d.primed
             /\ m.obstacle = d.obstacle /\ m.dist = d.dist /\ m.pitch = d.pitch
             /\ m.parkDone = w.drv.parkDone /\ m.parkActive = w.drv.parkActive
             /\ m.entryDist \in {d.entryDist, d.dist}
             /\ m.tlArmed => w.drv.tlArmed \/ d.state = "TUNNEL"
             /\ \/ m.state = w.target /\ m.lastCmd = w.cmd
                \/ m.state = d.state /\ m.state \notin Immediate
                   /\ w.target \notin Immediate /\ m.entryAge < MinDwell
<1> DEFINE a == ArmLight(d, w)
<1>1. /\ w.drv \in Drv /\ w.target \in ChallengeState /\ w.cmd \in Command
      /\ Kept(d, w.drv) /\ w.drv.primed = d.primed
  BY DEF Sound
<1>2. /\ a \in Drv /\ Kept(d, a) /\ a.lap = w.drv.lap /\ a.boomArmed = w.drv.boomArmed
      /\ a.cleared = w.drv.cleared /\ a.wasActive = w.drv.wasActive
      /\ a.see = w.drv.see /\ a.light = w.drv.light /\ a.primed = d.primed
      /\ a.parkDone = w.drv.parkDone /\ a.parkActive = w.drv.parkActive
      /\ a.tlArmed => w.drv.tlArmed \/ d.state = "TUNNEL"
  <2> DEFINE x == w.drv
  <2>1. x \in Drv /\ Kept(d, x) /\ x.primed = d.primed BY <1>1
  <2>2. a = [x EXCEPT !.tlArmed = x.tlArmed \/ (d.state = "TUNNEL" /\ w.target # "TUNNEL")]
    BY <2>1 DEF ArmLight, Drv
  <2> HIDE DEF x, a
  <2>3. /\ a \in Drv /\ Kept(d, a) /\ a.lap = x.lap /\ a.boomArmed = x.boomArmed
        /\ a.cleared = x.cleared /\ a.wasActive = x.wasActive
        /\ a.see = x.see /\ a.light = x.light /\ a.primed = d.primed
        /\ a.parkDone = x.parkDone /\ a.parkActive = x.parkActive
        /\ a.tlArmed => x.tlArmed \/ d.state = "TUNNEL"
    BY <2>1, <2>2 DEF Drv, Kept
  <2> QED BY <2>3 DEF x
<1>3. Switched(d, w) = IF d.state = w.target
                       THEN [a EXCEPT !.lastCmd = w.cmd]
                       ELSE IF MaySwitch(d, w.target)
                       THEN [a EXCEPT !.lastCmd = w.cmd, !.state = w.target,
                                      !.entryAge = 0, !.entryDist = a.dist]
                       ELSE a
  BY DEF Switched
<1>4. 0 \in 0 .. AgeMax
  BY AutoDriverAssumption
<1> HIDE DEF a
<1>5. CASE d.state = w.target
  BY <1>1, <1>2, <1>3, <1>5 DEF Drv, Kept
<1>6. CASE d.state # w.target /\ MaySwitch(d, w.target)
  <2> DEFINE m == [a EXCEPT !.lastCmd = w.cmd, !.state = w.target,
                            !.entryAge = 0, !.entryDist = a.dist]
  <2>1. m = Switched(d, w)
    BY <1>3, <1>6
  <2>2. m \in Drv
    BY <1>1, <1>2, <1>4 DEF Drv
  <2>3. /\ m.lap = a.lap /\ m.boomArmed = a.boomArmed /\ m.cleared = a.cleared
        /\ m.wasActive = a.wasActive /\ m.see = a.see /\ m.light = a.light
        /\ m.stale = a.stale /\ m.obstacle = a.obstacle /\ m.dist = a.dist
        /\ m.pitch = a.pitch /\ m.parkDone = a.parkDone /\ m.primed = a.primed
        /\ m.parkActive = a.parkActive /\ m.entryDist = a.dist
        /\ m.tlArmed = a.tlArmed /\ m.state = w.target /\ m.lastCmd = w.cmd
    BY <1>2 DEF Drv
  <2> HIDE DEF m
  <2> QED BY <1>2, <2>1, <2>2, <2>3 DEF Kept
<1>7. CASE d.state # w.target /\ ~MaySwitch(d, w.target)
  <2>1. d.entryAge \in Int /\ MinDwell \in Int
    BY AutoDriverAssumption DEF Drv
  <2> QED BY <1>1, <1>2, <1>3, <1>7, <2>1 DEF Kept, MaySwitch
<1> QED BY <1>5, <1>6, <1>7

-----------------------------------------------------------------------------
(* The inductive invariant.                                                *)

\* CourseOrder alone is not inductive: a roundabout is only entered because an
\* obstruction was seen, and that is remembered in cleared and wasActive.
Marked == drv.cleared # None \/ drv.wasActive => hist.obstructed

\* After a playback was asked for, the node waits for its end or has latched it.
AskedOnce == hist.asked => drv.parkDone \/ drv.state = "PARKING_PLAYBACK"

\* What the last tick settled.
TickInv == UrgentActsAtOnce /\ StopsHaveCause /\ ParkingStandsStill /\ HillSteady

Inv == TypeOK /\ CourseOrder /\ Marked /\ AskedOnce /\ MarksBehind /\ TickInv

\* The node starts in the invariant.
LEMMA InitInv == Init => Inv
<1> SUFFICES ASSUME Init PROVE Inv
  OBVIOUS
<1>1. /\ 0 \in 0 .. AgeMax /\ 0 \in Dist /\ 0 \in 0 .. IdleDuration
      /\ 0 \in Pitches /\ None \notin Int
  BY AutoDriverAssumption
<1>2. [t \in Flag |-> t = "boomOpen"] \in [Flag -> BOOLEAN]
  OBVIOUS
<1>3. drv \in Drv
  BY <1>1, <1>2 DEF Init, Booted, Drv, ChallengeState, Command, Light, RpState
<1>4. out \in Out /\ hist \in Hist
  BY <1>1 DEF Init, Booted, Out, Hist, Silent, Fresh
<1>5. out.why \notin Behaviour /\ out.why \notin DOMAIN Urgent
      /\ out.why \notin {"hill", "laneLost", "lane"}
  BY Behaviours, UrgentDomain DEF Init, Booted, Silent
<1>6. TickInv
  BY <1>5 DEF TickInv, UrgentActsAtOnce, StopsHaveCause, ParkingStandsStill, HillSteady
<1>7. CourseOrder /\ Marked /\ AskedOnce
  BY DEF Init, Booted, Fresh, CourseOrder, Marked, AskedOnce
<1>8. MarksBehind
  BY <1>1 DEF Init, Booted, MarksBehind
<1> QED BY <1>3, <1>4, <1>6, <1>7, <1>8 DEF Inv, TypeOK

-----------------------------------------------------------------------------
(* Steps that publish nothing.                                             *)

\* A step that publishes nothing says nothing about a tick.
LEMMA QuietTick ==
  ASSUME Quiet
  PROVE  out' \in Out /\ TickInv' /\ ~out'.playback /\ out'.why \notin Behaviour
<1>1. out'.why \notin Behaviour /\ out'.why \notin DOMAIN Urgent
      /\ out'.why \notin {"hill", "laneLost", "lane"}
  BY Behaviours, UrgentDomain DEF Quiet, Silent
<1>2. out' \in Out /\ ~out'.playback
  BY DEF Quiet, Silent, Out
<1> QED BY <1>1, <1>2
        DEF TickInv, UrgentActsAtOnce, StopsHaveCause, ParkingStandsStill, HillSteady

\* A callback leaves the gates, the marks and the parking latches alone.
Undisturbed ==
  /\ drv' \in Drv /\ hist' \in Hist
  /\ drv'.boomArmed = drv.boomArmed /\ drv'.tlArmed = drv.tlArmed
  /\ drv'.cleared = drv.cleared /\ drv'.wasActive = drv.wasActive
  /\ drv'.parkDone = drv.parkDone
  /\ hist'.asked => hist.asked /\ (drv'.state = drv.state \/ drv.parkDone
                                  \/ drv'.state = "PARKING_PLAYBACK"
                                  \/ drv.state # "PARKING_PLAYBACK")
  /\ drv'.entryDist = drv.entryDist
  /\ Moves \subseteq Nat => drv'.dist >= drv.dist
  /\ hist'.obstructed = hist.obstructed /\ hist.visited \subseteq hist'.visited

\* A callback that leaves gates, marks and latches alone keeps the invariant.
LEMMA UndisturbedInv ==
  ASSUME Inv, Undisturbed, Quiet
  PROVE  Inv'
<1>1. TypeOK'
  BY QuietTick DEF Undisturbed, TypeOK
<1>2. CourseOrder' /\ Marked' /\ AskedOnce'
  BY DEF Inv, Undisturbed, CourseOrder, Marked, AskedOnce
<1>3. /\ drv.entryDist \in Int /\ drv.dist \in Int /\ drv'.dist \in Int
      /\ drv.cleared \in Int \cup {None}
  BY AutoDriverAssumption DEF Inv, TypeOK, Undisturbed, Drv, Dist
<1>4. MarksBehind'
  BY <1>3 DEF Inv, Undisturbed, MarksBehind
<1> QED BY <1>1, <1>2, <1>4, QuietTick DEF Inv

\* A Boolean message changes the flag, its staleness and the fused obstacle only.
LEMMA HeardFacts ==
  ASSUME NEW d \in Drv, NEW t \in Flag, NEW v \in BOOLEAN
  PROVE  LET m == Heard(d, t, v)
         IN  /\ m \in Drv
             /\ m.boomArmed = d.boomArmed /\ m.tlArmed = d.tlArmed
             /\ m.cleared = d.cleared /\ m.wasActive = d.wasActive
             /\ m.parkDone = d.parkDone /\ m.state = d.state
             /\ m.entryDist = d.entryDist /\ m.dist = d.dist
<1> DEFINE see == [d.see EXCEPT ![t] = v]
           o == IF t \in {"lidar", "camera"} THEN Fused(d.subsume, see) ELSE d.obstacle
<1>1. see \in [Flag -> BOOLEAN] /\ "lidar" \in Flag /\ "camera" \in Flag
  BY DEF Drv, Flag
<1>2. o \in BOOLEAN
  BY <1>1 DEF Drv, Fused
<1>3. Heard(d, t, v) = [d EXCEPT !.see = see, !.stale = d.stale \ {t}, !.obstacle = o]
  BY DEF Heard
<1> HIDE DEF see, o
<1> QED BY <1>1, <1>2, <1>3 DEF Drv

Callback ==
  \/ \E t \in Live, v \in BOOLEAN : BoolCallback(t, v)
  \/ \E l \in Lights : TrafficLightCallback(l)
  \/ \E r \in RpStates : RpStateCallback(r)
  \/ \E a \in Pitches : PitchCallback(a)
  \/ HillSignCallback
  \/ \E m \in Moves : OdomCallback(m)
  \/ \E s \in Overrides : SetChallenge(s)
  \/ \E l \in LapParams : SetLapParam(l)
  \/ \E v \in Subsumption : SetSubsumption(v)
  \/ TimePasses
  \/ \E t \in Stamped : GoStale(t)
  \/ SignAges

\* All callbacks and the passage of time are of that kind.
LEMMA CallbacksUndisturbed ==
  ASSUME TypeOK, Callback
  PROVE  Undisturbed /\ Quiet
<1>0. /\ drv \in Drv /\ hist \in Hist /\ drv.dist \in Int
      /\ Live \subseteq Flag /\ Lights \subseteq Light /\ RpStates \subseteq RpState
      /\ Overrides \subseteq ChallengeState /\ LapParams \subseteq {1, 2}
      /\ Subsumption \subseteq BOOLEAN /\ Moves \subseteq Int
      /\ AgeMax \in Nat /\ IdleDuration \in Nat
  BY AutoDriverAssumption DEF TypeOK, Drv, Dist
<1>1. ASSUME NEW t \in Live, NEW v \in BOOLEAN, BoolCallback(t, v)
      PROVE  Undisturbed /\ Quiet
  <2>1. t \in Flag
    BY <1>0
  <2>2. Heard(drv, t, v) \in Drv
    BY <2>1, <1>0, HeardFacts
  <2>3. drv' = Heard(drv, t, v) /\ hist' = hist /\ Quiet
    BY <1>1 DEF BoolCallback
  <2>4. /\ drv'.boomArmed = drv.boomArmed /\ drv'.tlArmed = drv.tlArmed
        /\ drv'.cleared = drv.cleared /\ drv'.wasActive = drv.wasActive
        /\ drv'.parkDone = drv.parkDone /\ drv'.state = drv.state
        /\ drv'.entryDist = drv.entryDist /\ drv'.dist = drv.dist
    BY <1>0, <2>1, <2>3, HeardFacts
  <2>5. drv'.dist >= drv.dist
    BY <1>0, <2>4
  <2>6. drv' \in Drv /\ hist' \in Hist /\ hist'.obstructed = hist.obstructed
        /\ hist.visited \subseteq hist'.visited /\ Quiet /\ hist'.asked = hist.asked
    BY <1>0, <2>2, <2>3
  <2> QED BY <2>4, <2>5, <2>6, Zenon DEF Undisturbed
<1>2. ASSUME NEW l \in Lights, TrafficLightCallback(l)
      PROVE  Undisturbed /\ Quiet
  <2>1. drv' \in Drv
    BY <1>0, <1>2 DEF TrafficLightCallback, Drv
  <2> QED BY <1>0, <1>2, <2>1 DEF TrafficLightCallback, Drv, Undisturbed
<1>3. ASSUME NEW r \in RpStates, RpStateCallback(r)
      PROVE  Undisturbed /\ Quiet
  <2>1. drv' \in Drv
    BY <1>0, <1>3 DEF RpStateCallback, Drv
  <2> QED BY <1>0, <1>3, <2>1 DEF RpStateCallback, Drv, Undisturbed
<1>4. ASSUME NEW a \in Pitches, PitchCallback(a)
      PROVE  Undisturbed /\ Quiet
  <2>1. drv' \in Drv
    BY <1>0, <1>4 DEF PitchCallback, Drv
  <2> QED BY <1>0, <1>4, <2>1 DEF PitchCallback, Drv, Undisturbed
<1>5. CASE HillSignCallback
  <2>1. drv' \in Drv
    BY <1>0, <1>5 DEF HillSignCallback, Drv
  <2> QED BY <1>0, <1>5, <2>1 DEF HillSignCallback, Drv, Undisturbed
<1>6. ASSUME NEW m \in Moves, OdomCallback(m)
      PROVE  Undisturbed /\ Quiet
  <2>1. drv' \in Drv /\ drv'.dist = drv.dist + m /\ m \in Int
    BY <1>0, <1>6 DEF OdomCallback, Drv
  <2> QED BY <1>0, <1>6, <2>1 DEF OdomCallback, Drv, Undisturbed
<1>7. ASSUME NEW s \in Overrides, SetChallenge(s)
      PROVE  Undisturbed /\ Quiet
  <2>1. hist' \in Hist /\ hist'.obstructed = hist.obstructed
        /\ hist.visited \subseteq hist'.visited
        /\ hist'.asked = (hist.asked /\ (s = "PARKING_PLAYBACK" \/ ~MidPlayback(drv)))
    BY <1>0, <1>7 DEF SetChallenge, Hist, MidPlayback
  <2>2. /\ drv' = [drv EXCEPT !.state = s] /\ s \in ChallengeState /\ Quiet
    BY <1>0, <1>7 DEF SetChallenge
  <2>3. /\ drv' \in Drv /\ drv'.state = s
        /\ drv'.boomArmed = drv.boomArmed /\ drv'.tlArmed = drv.tlArmed
        /\ drv'.cleared = drv.cleared /\ drv'.wasActive = drv.wasActive
        /\ drv'.parkDone = drv.parkDone
        /\ drv'.entryDist = drv.entryDist /\ drv'.dist = drv.dist
    BY <1>0, <2>2 DEF Drv
  <2>4. drv'.dist >= drv.dist
    BY <1>0, <2>3
  <2>5. hist'.asked => hist.asked /\ (drv.parkDone \/ drv'.state = "PARKING_PLAYBACK"
                                     \/ drv.state # "PARKING_PLAYBACK")
    BY <2>1, <2>3 DEF MidPlayback
  <2> QED BY <2>1, <2>2, <2>3, <2>4, <2>5 DEF Undisturbed
<1>8. ASSUME NEW l \in LapParams, SetLapParam(l)
      PROVE  Undisturbed /\ Quiet
  <2>1. drv' \in Drv
    BY <1>0, <1>8 DEF SetLapParam, Drv
  <2> QED BY <1>0, <1>8, <2>1 DEF SetLapParam, Drv, Undisturbed
<1>9. ASSUME NEW v \in Subsumption, SetSubsumption(v)
      PROVE  Undisturbed /\ Quiet
  <2>1. drv' \in Drv
    BY <1>0, <1>9 DEF SetSubsumption, Drv
  <2> QED BY <1>0, <1>9, <2>1 DEF SetSubsumption, Drv, Undisturbed
<1>10. CASE TimePasses
  <2>1. drv.entryAge + 1 \in 0 .. AgeMax
    BY <1>0, <1>10 DEF TimePasses, Drv
  <2>2. drv' \in Drv
    BY <1>0, <1>10, <2>1 DEF TimePasses, Drv
  <2>3. hist.still \in 0 .. IdleDuration
    BY <1>0 DEF Hist
  <2>4. hist' \in Hist /\ hist'.obstructed = hist.obstructed
        /\ hist.visited \subseteq hist'.visited /\ hist'.asked = hist.asked
    BY <1>0, <1>10, <2>3 DEF TimePasses, Hist
  <2> QED BY <1>0, <1>10, <2>2, <2>4 DEF TimePasses, Drv, Undisturbed
<1>11. ASSUME NEW t \in Stamped, GoStale(t)
      PROVE  Undisturbed /\ Quiet
  <2>1. drv' \in Drv
    BY <1>0, <1>11 DEF GoStale, Drv
  <2> QED BY <1>0, <1>11, <2>1 DEF GoStale, Drv, Undisturbed
<1>12. CASE SignAges
  <2>1. drv' \in Drv
    BY <1>0, <1>12 DEF SignAges, Drv
  <2> QED BY <1>0, <1>12, <2>1 DEF SignAges, Drv, Undisturbed
<1> QED
  BY <1>1, <1>2, <1>3, <1>4, <1>5, <1>6, <1>7, <1>8, <1>9, <1>10, <1>11, <1>12
  DEF Callback

\* RESET, LAP1 and LAP2 clear gates, marks and latches together.
LEMMA RestartInv ==
  ASSUME Inv, NEW l \in {1, 2}, Restart(l)
  PROVE  Inv' /\ Quiet
<1>1. /\ 0 \in 0 .. AgeMax /\ 0 \in Dist /\ 0 \in 0 .. IdleDuration
      /\ drv \in Drv
  BY AutoDriverAssumption DEF Inv, TypeOK
<1>2. /\ drv' \in Drv
      /\ ~drv'.boomArmed /\ ~drv'.tlArmed /\ drv'.cleared = None /\ ~drv'.wasActive
      /\ ~drv'.parkDone /\ drv'.entryDist = 0 /\ drv'.dist = 0
  BY <1>1 DEF Restart, StartLap, Drv, ChallengeState
<1>3. hist' \in Hist /\ ~hist'.asked
  BY <1>1 DEF Restart, Fresh, Hist
<1>4. Quiet
  BY DEF Restart
<1>5. TypeOK' /\ TickInv'
  BY <1>2, <1>3, <1>4, QuietTick DEF TypeOK
<1>6. CourseOrder' /\ Marked' /\ AskedOnce' /\ MarksBehind'
  BY <1>2, <1>3 DEF CourseOrder, Marked, AskedOnce, MarksBehind
<1> QED BY <1>4, <1>5, <1>6 DEF Inv

-----------------------------------------------------------------------------
(* The two branches of the control loop.                                   *)

\* The early return of the loop in manual mode keeps the invariant.
LEMMA ManualTickInv ==
  ASSUME Inv, ManualTick
  PROVE  Inv'
<1>1. drv \in Drv /\ hist \in Hist /\ 0 \in 0 .. AgeMax /\ 0 \in 0 .. IdleDuration
  BY AutoDriverAssumption DEF Inv, TypeOK
<1>2. /\ drv' \in Drv
      /\ drv'.boomArmed = drv.boomArmed /\ drv'.tlArmed = drv.tlArmed
      /\ drv'.cleared = drv.cleared /\ drv'.wasActive = drv.wasActive
      /\ drv'.parkDone = drv.parkDone
      /\ drv'.dist = drv.dist /\ drv'.entryDist \in {drv.entryDist, drv.dist}
  <2>1. CASE drv.state = "MANUAL"
    BY <1>1, <2>1 DEF ManualTick
  <2>2. CASE drv.state # "MANUAL"
    <3> DEFINE m == [drv EXCEPT !.state = "MANUAL", !.entryAge = 0, !.entryDist = drv.dist]
    <3>1. drv' = m
      BY <2>2 DEF ManualTick
    <3>2. m \in Drv
      BY <1>1 DEF Drv, ChallengeState
    <3>3. /\ m.boomArmed = drv.boomArmed /\ m.tlArmed = drv.tlArmed
          /\ m.cleared = drv.cleared /\ m.wasActive = drv.wasActive
          /\ m.parkDone = drv.parkDone
          /\ m.dist = drv.dist /\ m.entryDist = drv.dist
      BY <1>1 DEF Drv
    <3> HIDE DEF m
    <3> QED BY <3>1, <3>2, <3>3
  <2> QED BY <2>1, <2>2
<1>3. /\ hist' \in Hist /\ hist'.obstructed = hist.obstructed
      /\ hist'.visited = hist.visited
      /\ hist'.asked = (hist.asked /\ ~MidPlayback(drv))
  BY <1>1 DEF ManualTick, Hist, MidPlayback
<1>4. out' \in Out /\ out'.why = "manual"
  BY DEF ManualTick, Silent, Out
<1>5. TickInv'
  BY <1>4, Behaviours, UrgentDomain
     DEF TickInv, UrgentActsAtOnce, StopsHaveCause, ParkingStandsStill, HillSteady
<1>6. CourseOrder' /\ Marked' /\ AskedOnce'
  BY <1>2, <1>3 DEF Inv, CourseOrder, Marked, AskedOnce, MidPlayback
<1>7. drv.dist \in Int
  BY <1>1, AutoDriverAssumption DEF Drv, Dist
<1>8. MarksBehind'
  BY <1>2, <1>7 DEF Inv, MarksBehind
<1> QED BY <1>2, <1>3, <1>4, <1>5, <1>6, <1>8 DEF Inv, TypeOK

\* The automatic branch keeps the invariant and earns lap 2.
LEMMA AutoTickInv ==
  ASSUME Inv, AutoTick
  PROVE  /\ Inv'
         /\ drv'.lap # drv.lap =>
              /\ drv.lap = 1 /\ "TUNNEL" \in hist.visited
              /\ drv.light = "green" /\ "light" \notin drv.stale
<1> DEFINE p == Prepared(drv)
           h == IF p.lap = drv.lap THEN hist
                ELSE [Fresh EXCEPT !.still = hist.still, !.asked = hist.asked]
<1>1. PICK b \in Behaviour :
        /\ Wins(Claim(p), b)
        /\ drv' = Switched(p, Decision(p, b))
        /\ out' = [cmd |-> drv'.lastCmd, why |-> b, playback |-> Decision(p, b).playback]
        /\ hist' = Noted(h, p, b, drv', Decision(p, b).playback)
  BY DEF AutoTick
<1> DEFINE w == Decision(p, b)
<1>2. drv \in Drv /\ hist \in Hist
  BY DEF Inv, TypeOK
<1>3. /\ p \in Drv /\ Kept(drv, p) /\ p.parkDone = drv.parkDone
      /\ p.parkActive => drv.parkActive
      /\ p.see["obstruction"] => "obstruction" \notin drv.stale
      /\ ~p.see["boomOpen"] => "boomOpen" \notin drv.stale
      /\ p.light # "unknown" => "light" \notin drv.stale
      /\ p.wasActive => drv.wasActive \/ p.see["obstruction"]
      /\ p.cleared \in {None, drv.cleared, drv.dist}
      /\ \/ /\ p.lap = drv.lap
            /\ p.boomArmed = drv.boomArmed /\ p.tlArmed = drv.tlArmed
            /\ p.cleared # None => drv.cleared # None \/ drv.wasActive
         \/ /\ p.lap # drv.lap /\ drv.lap = 1 /\ drv.tlArmed
            /\ drv.light = "green" /\ "light" \notin drv.stale
            /\ ~p.boomArmed /\ ~p.tlArmed /\ p.cleared = None
            /\ p.wasActive => p.see["obstruction"]
  BY <1>2, PreparedFacts
<1> HIDE DEF p
<1>4. Sound(p, b, w)
  BY <1>1, <1>3, DecisionSound
<1> HIDE DEF w
<1>5. /\ drv' \in Drv
      /\ drv'.lap = w.drv.lap /\ drv'.boomArmed = w.drv.boomArmed
      /\ drv'.cleared = w.drv.cleared /\ drv'.wasActive = w.drv.wasActive
      /\ drv'.see = w.drv.see /\ drv'.light = w.drv.light /\ drv'.stale = p.stale
      /\ drv'.primed = p.primed
      /\ drv'.obstacle = p.obstacle /\ drv'.dist = p.dist /\ drv'.pitch = p.pitch
      /\ drv'.parkDone = w.drv.parkDone /\ drv'.parkActive = w.drv.parkActive
      /\ drv'.entryDist \in {p.entryDist, p.dist}
      /\ drv'.tlArmed => w.drv.tlArmed \/ p.state = "TUNNEL"
      /\ \/ drv'.state = w.target /\ drv'.lastCmd = w.cmd
         \/ drv'.state = p.state /\ drv'.state \notin Immediate
            /\ w.target \notin Immediate /\ drv'.entryAge < MinDwell
  <2>1. drv' = Switched(p, w)
    BY <1>1 DEF w
  <2> QED BY <2>1, <1>3, <1>4, SwitchedFacts
<1>6. /\ out'.why = b /\ out'.cmd = drv'.lastCmd /\ out'.playback = w.playback
      /\ out' = [cmd |-> drv'.lastCmd, why |-> b, playback |-> w.playback]
  BY <1>1 DEF w
<1>7. /\ h \in Hist /\ h.asked = hist.asked
      /\ p.lap = drv.lap => h = hist
  <2>1. Fresh \in Hist
    BY AutoDriverAssumption DEF Fresh, Hist
  <2> QED BY <1>2, <2>1, AutoDriverAssumption DEF Hist
<1> HIDE DEF h
<1>8. /\ hist' \in Hist
      /\ hist'.visited = h.visited \cup (Landmark \cap {p.state, drv'.state})
      /\ hist'.obstructed = (h.obstructed \/ p.see["obstruction"])
      /\ hist'.asked = (w.playback \/ (h.asked /\ (b = "parking" \/ ~MidPlayback(p))))
  <2>1. w.playback \in BOOLEAN /\ p.see["obstruction"] \in BOOLEAN
    BY <1>3, <1>4 DEF Sound, Drv, Flag
  <2>2. hist' = Noted(h, p, b, drv', w.playback)
    BY <1>1 DEF w
  <2>3. 0 \in 0 .. IdleDuration
    BY AutoDriverAssumption
  <2>4. h.asked \in BOOLEAN
    BY <1>7 DEF Hist
  <2> QED BY <1>7, <2>1, <2>2, <2>3, <2>4 DEF Noted, Hist
<1>9. TypeOK'
  <2>1. drv'.lastCmd \in Command
    BY <1>5 DEF Drv
  <2>2. w.playback \in BOOLEAN
    BY <1>4 DEF Sound
  <2>3. out' \in Out
    BY <1>6, <2>1, <2>2 DEF Out
  <2> QED BY <1>5, <1>8, <2>3 DEF TypeOK
<1>10. UrgentActsAtOnce'
  <2>1. b \in DOMAIN Urgent => w.target = Urgent[b][1] /\ w.cmd = Urgent[b][2]
    BY <1>4 DEF Sound
  <2>2. b \in DOMAIN Urgent => Urgent[b][1] \in Immediate
    BY UrgentDomain DEF Urgent, Immediate
  <2> QED BY <1>5, <1>6, <2>1, <2>2 DEF UrgentActsAtOnce
<1>11. StopsHaveCause'
  <2>1. /\ drv'.state \in { "EMERGENCY_STOP", "OBSTRUCTION", "REVERSE_ADJUST",
                             "BOOM_GATE", "TRAFFIC_LIGHT" } => Caused(p, drv'.state)
        /\ drv'.state = "LANE_RECOVERY" =>
             Caused(p, drv'.state) \/ drv'.entryAge < MinDwell
        /\ drv'.state \in {"PARKING_IDLE", "PARKING_PLAYBACK"} => Open(w.drv)
    BY <1>4, <1>5 DEF Sound, Immediate
  <2>2. /\ drv'.see["estop"] = p.see["estop"]
        /\ drv'.see["obstruction"] = p.see["obstruction"]
        /\ drv'.see["boomOpen"] = p.see["boomOpen"]
        /\ drv'.see["laneLost"] = p.see["laneLost"]
        /\ drv'.light = p.light /\ drv'.stale = drv.stale
    BY <1>3, <1>4, <1>5 DEF Sound, Kept
  <2> QED BY <1>3, <1>5, <2>1, <2>2 DEF StopsHaveCause, Caused, Open
<1>12. ParkingStandsStill'
  BY <1>4, <1>5, <1>6 DEF ParkingStandsStill, Sound, Immediate
<1>13. HillSteady'
  <2>1. HillThreshold \in Nat /\ HillReduction \in Nat /\ HillHysteresis \in Nat
        /\ Pitches \subseteq Int
    BY AutoDriverAssumption
  <2>2. Threshold(p) \in Int /\ p.pitch \in Int
    <3>1. p.pitch \in Int
      BY <1>3, <2>1 DEF Drv
    <3>2. HillThreshold - HillReduction \in Int
      BY <2>1
    <3> QED BY <2>1, <3>1, <3>2 DEF Threshold
  <2>3. Threshold(drv)' = Threshold(p) /\ drv'.pitch = p.pitch
    BY <1>5 DEF Threshold
  <2>4. CASE b = "hill"
    <3>1. OnHill(p)
      BY <1>1, <2>4 DEF Wins, Claim
    <3>2. w.target = "HILL"
      BY <2>4 DEF w, Decision, Want
    <3>3. drv'.state = "HILL"
      BY <1>5, <3>2 DEF Immediate
    <3>4. p.pitch >= Threshold(p) - HillHysteresis
      BY <2>1, <2>2, <3>1 DEF OnHill
    <3>5. OnHill(drv)'
      BY <2>3, <3>3, <3>4 DEF OnHill
    <3> QED BY <1>6, <2>4, <3>5 DEF HillSteady
  <2>5. CASE b \in {"laneLost", "lane"}
    <3>1. ~Claim(p)["hill"]
      BY <1>1, <2>5, Behaviours DEF Wins, Rank
    <3>2. ~OnHill(p)
      BY <3>1 DEF Claim
    <3>3. w.target # "HILL"
      BY <2>5 DEF w, Decision, Want
    <3>4. drv'.state # "HILL"
      BY <1>5, <3>3 DEF Immediate
    <3>5. ~(p.pitch >= Threshold(p))
      BY <2>1, <2>2, <3>2 DEF OnHill
    <3>6. ~OnHill(drv)'
      BY <2>3, <3>4, <3>5 DEF OnHill
    <3> QED BY <1>6, <2>5, <3>6 DEF HillSteady
  <2>6. CASE b \notin {"hill", "laneLost", "lane"}
    BY <1>6, <2>6 DEF HillSteady
  <2> QED BY <2>4, <2>5, <2>6
<1>14. AskedOnce'
  <2> SUFFICES ASSUME hist'.asked PROVE drv'.parkDone \/ drv'.state = "PARKING_PLAYBACK"
    BY DEF AskedOnce
  <2>1. CASE w.playback
    BY <1>4, <1>5, <2>1 DEF Sound, Immediate
  <2>2. CASE h.asked /\ (b = "parking" \/ ~MidPlayback(p))
    <3>1. p.parkDone \/ p.state = "PARKING_PLAYBACK"
      BY <1>3, <1>7, <2>2 DEF Inv, AskedOnce, Kept
    <3>2. p.parkDone \/ b = "parking"
      BY <2>2, <3>1 DEF MidPlayback
    <3> QED BY <1>4, <1>5, <3>1, <3>2 DEF Sound, Immediate
  <2> QED BY <1>8, <2>1, <2>2
<1>15. Marked'
  BY <1>3, <1>4, <1>5, <1>7, <1>8 DEF Inv, Marked, Sound
<1>16. CourseOrder'
  <2>1. drv'.boomArmed => \/ p.boomArmed
                          \/ p.state = "ROUNDABOUT" /\ p.cleared # None
    BY <1>4, <1>5 DEF Sound
  <2>2. drv'.tlArmed => p.tlArmed \/ p.state = "TUNNEL"
    BY <1>4, <1>5 DEF Sound
  <2>3. p.boomArmed => "ROUNDABOUT" \in h.visited /\ h.obstructed
    BY <1>3, <1>7 DEF Inv, CourseOrder
  <2>4. p.tlArmed => "TUNNEL" \in h.visited
    BY <1>3, <1>7 DEF Inv, CourseOrder
  <2>5. p.cleared # None => h.obstructed
    BY <1>3, <1>7 DEF Inv, Marked
  <2> QED BY <1>8, <2>1, <2>2, <2>3, <2>4, <2>5 DEF CourseOrder, Landmark
<1>17. MarksBehind'
  <2>1. drv.dist \in Int /\ drv.entryDist \in Int /\ None \notin Int
    BY <1>2, AutoDriverAssumption DEF Drv, Dist
  <2>2. drv'.dist = drv.dist /\ drv'.entryDist \in {drv.entryDist, drv.dist}
    BY <1>3, <1>5 DEF Kept
  <2>3. drv'.cleared \in {None, drv.cleared, drv.dist}
    BY <1>3, <1>4, <1>5 DEF Sound
  <2> QED BY <2>1, <2>2, <2>3 DEF Inv, MarksBehind
<1>18. drv'.lap # drv.lap =>
         /\ drv.lap = 1 /\ "TUNNEL" \in hist.visited
         /\ drv.light = "green" /\ "light" \notin drv.stale
  <2>1. drv'.lap = p.lap
    BY <1>4, <1>5 DEF Sound
  <2> QED BY <2>1, <1>3 DEF Inv, CourseOrder
<1> QED BY <1>9, <1>10, <1>11, <1>12, <1>13, <1>14, <1>15, <1>16, <1>17, <1>18
        DEF Inv, TickInv

-----------------------------------------------------------------------------
(* The theorems.                                                           *)

\* Every step keeps the invariant.
LEMMA NextInv == ASSUME Inv, [Next]_vars PROVE Inv'
<1>1. CASE ManualTick
  BY <1>1, ManualTickInv
<1>2. CASE AutoTick
  BY <1>2, AutoTickInv
<1>3. CASE Callback
  BY <1>3, CallbacksUndisturbed, UndisturbedInv DEF Inv
<1>4. ASSUME NEW l \in Restarts, Restart(l) PROVE Inv'
  BY <1>4, RestartInv, AutoDriverAssumption
<1>5. CASE UNCHANGED vars
  BY <1>5 DEF vars, Inv, TypeOK, CourseOrder, Marked, AskedOnce, MarksBehind,
     TickInv, UrgentActsAtOnce, StopsHaveCause, ParkingStandsStill, HillSteady,
     OnHill, Threshold
<1> QED BY <1>1, <1>2, <1>3, <1>4, <1>5 DEF Next, Callback

\* Inv is inductive.
THEOREM Inductive == Spec => []Inv
BY InitInv, NextInv, PTL DEF Spec

\* Every field of auto_driver keeps its type.
THEOREM TypeCorrect == Spec => []TypeOK
<1>1. Inv => TypeOK BY DEF Inv
<1> QED BY <1>1, Inductive, PTL

\* An e-stop, obstruction, obstacle, closed gate or red light acts in the tick
\* that sees it, whatever the dwell gate holds back.
THEOREM UrgentTheorem == Spec => []UrgentActsAtOnce
<1>1. Inv => UrgentActsAtOnce BY DEF Inv, TickInv
<1> QED BY <1>1, Inductive, PTL

\* A stopping or evading state never outlives its cause, lane recovery not
\* beyond the minimum dwell.
THEOREM StopsTheorem == Spec => []StopsHaveCause
<1>1. Inv => StopsHaveCause BY DEF Inv, TickInv
<1> QED BY <1>1, Inductive, PTL

\* The gates open in the order of the course.
THEOREM CourseTheorem == Spec => []CourseOrder
<1>1. Inv => CourseOrder BY DEF Inv
<1> QED BY <1>1, Inductive, PTL

\* The loop starts lap 2 only on a fresh green light after a tunnel.
THEOREM LapTwoTheorem == Spec => LapTwoEarned
<1>1. Inv /\ [Next]_vars =>
        [out'.why \in Behaviour /\ drv'.lap # drv.lap =>
           /\ drv.lap = 1 /\ "TUNNEL" \in hist.visited
           /\ drv.light = "green" /\ "light" \notin drv.stale]_vars
  <2> SUFFICES ASSUME Inv, Next, out'.why \in Behaviour, drv'.lap # drv.lap
               PROVE  /\ drv.lap = 1 /\ "TUNNEL" \in hist.visited
                      /\ drv.light = "green" /\ "light" \notin drv.stale
    OBVIOUS
  <2>1. CASE ManualTick
    BY <2>1, Behaviours DEF ManualTick, Silent
  <2>2. CASE AutoTick
    BY <2>2, AutoTickInv
  <2>3. CASE Callback
    BY <2>3, CallbacksUndisturbed, QuietTick DEF Inv
  <2>4. ASSUME NEW l \in Restarts, Restart(l) PROVE FALSE
    BY <2>4, RestartInv, QuietTick, AutoDriverAssumption
  <2> QED BY <2>1, <2>2, <2>3, <2>4 DEF Next, Callback
<1> QED BY <1>1, Inductive, PTL DEF Spec, LapTwoEarned

\* No distance mark of an earlier lap survives a restart.
THEOREM MarksTheorem == Spec => []MarksBehind
<1>1. Inv => MarksBehind BY DEF Inv
<1> QED BY <1>1, Inductive, PTL

\* The hill decision does not chatter.
THEOREM HillTheorem == Spec => []HillSteady
<1>1. Inv => HillSteady BY DEF Inv, TickInv
<1> QED BY <1>1, Inductive, PTL

\* While parking, the loop commands no motion.
THEOREM StandstillTheorem == Spec => []ParkingStandsStill
<1>1. Inv => ParkingStandsStill BY DEF Inv, TickInv
<1> QED BY <1>1, Inductive, PTL

\* Until a restart the playback is asked for once, unless the node was taken out
\* of PARKING_PLAYBACK before it had noticed the end.
THEOREM OnceTheorem == Spec => PlaybackOnce
<1>1. Inv /\ [Next]_vars => [out'.playback => ~hist.asked]_vars
  <2> SUFFICES ASSUME Inv, Next, out'.playback PROVE ~hist.asked
    OBVIOUS
  <2>1. CASE ManualTick
    BY <2>1 DEF ManualTick, Silent
  <2>2. CASE AutoTick
    <3> DEFINE p == Prepared(drv)
    <3>1. PICK b \in Behaviour :
            /\ Wins(Claim(p), b)
            /\ out' = [cmd |-> drv'.lastCmd, why |-> b,
                       playback |-> Decision(p, b).playback]
      BY <2>2 DEF AutoTick
    <3>2. p \in Drv /\ p.state = drv.state /\ p.parkDone = drv.parkDone
      BY PreparedFacts DEF Inv, TypeOK, Kept
    <3> HIDE DEF p
    <3>3. Sound(p, b, Decision(p, b))
      BY <3>1, <3>2, DecisionSound
    <3>4. p.state = "PARKING_IDLE" /\ ~p.parkDone
      BY <3>1, <3>3 DEF Sound
    <3> QED BY <3>2, <3>4 DEF Inv, AskedOnce
  <2>3. CASE Callback
    BY <2>3, CallbacksUndisturbed, QuietTick DEF Inv
  <2>4. ASSUME NEW l \in Restarts, Restart(l) PROVE FALSE
    BY <2>4, RestartInv, QuietTick, AutoDriverAssumption
  <2> QED BY <2>1, <2>2, <2>3, <2>4 DEF Next, Callback
<1> QED BY <1>1, Inductive, PTL DEF Spec, PlaybackOnce
-----------------------------------------------------------------------------
(* The playback starts from rest.                                          *)

\* The wait before the playback is spent at rest: PARKING_IDLE is entered with
\* a stop and every tick in it repeats the stop.
Rest ==
  "PARKING_IDLE" \notin Overrides /\ drv.state = "PARKING_IDLE" =>
    hist.still >= drv.entryAge \/ hist.still >= IdleDuration

\* The dwell gate neither delays the entry into PARKING_IDLE nor restarts the
\* wait in it.
LEMMA SwitchedIntoIdle ==
  ASSUME NEW d \in Drv, NEW b \in Behaviour, NEW w, Sound(d, b, w),
         Switched(d, w).state = "PARKING_IDLE"
  PROVE  LET m == Switched(d, w)
         IN  /\ m.lastCmd = "stop"
             /\ \/ m.entryAge = 0
                \/ d.state = "PARKING_IDLE" /\ m.entryAge = d.entryAge
<1> DEFINE a == ArmLight(d, w)
           m == Switched(d, w)
<1>1. w.drv \in Drv /\ Kept(d, w.drv)
  BY DEF Sound
<1>2. m.lastCmd = "stop"
  <2>1. w.target = "PARKING_IDLE" /\ m.lastCmd = w.cmd
    BY SwitchedFacts DEF Immediate
  <2> QED BY <2>1 DEF Sound
<1>3. a \in Drv /\ a.entryAge = d.entryAge /\ a.state = d.state
  <2> DEFINE x == w.drv
  <2>1. x \in Drv /\ Kept(d, x) BY <1>1
  <2>2. a = [x EXCEPT !.tlArmed = x.tlArmed \/ (d.state = "TUNNEL" /\ w.target # "TUNNEL")]
    BY <2>1 DEF ArmLight, Drv
  <2> HIDE DEF x, a
  <2> QED BY <2>1, <2>2 DEF Drv, Kept
<1>4. m = IF d.state = w.target
          THEN [a EXCEPT !.lastCmd = w.cmd]
          ELSE IF MaySwitch(d, w.target)
          THEN [a EXCEPT !.lastCmd = w.cmd, !.state = w.target,
                         !.entryAge = 0, !.entryDist = a.dist]
          ELSE a
  BY DEF Switched
<1> HIDE DEF a
<1>5. m.state = "PARKING_IDLE"
  OBVIOUS
<1> HIDE DEF m
<1>6. m.entryAge = 0 \/ (d.state = "PARKING_IDLE" /\ m.entryAge = d.entryAge)
  <2>1. CASE d.state = w.target
    BY <1>3, <1>4, <1>5, <2>1 DEF Drv
  <2>2. CASE d.state # w.target /\ MaySwitch(d, w.target)
    BY <1>3, <1>4, <2>2 DEF Drv
  <2>3. CASE d.state # w.target /\ ~MaySwitch(d, w.target)
    BY <1>3, <1>4, <1>5, <2>3
  <2> QED BY <2>1, <2>2, <2>3
<1> QED BY <1>2, <1>6 DEF m

\* A tick asks for the playback only in PARKING_IDLE after its wait, and it
\* keeps the time at rest as long as the node stays there.
LEMMA AutoTickRest ==
  ASSUME Inv, Rest, AutoTick
  PROVE  /\ Rest'
         /\ out'.playback => drv.state = "PARKING_IDLE" /\ drv.entryAge >= IdleDuration
<1> DEFINE p == Prepared(drv)
           h == IF p.lap = drv.lap THEN hist
                ELSE [Fresh EXCEPT !.still = hist.still, !.asked = hist.asked]
<1>1. PICK b \in Behaviour :
        /\ Wins(Claim(p), b)
        /\ drv' = Switched(p, Decision(p, b))
        /\ out' = [cmd |-> drv'.lastCmd, why |-> b, playback |-> Decision(p, b).playback]
        /\ hist' = Noted(h, p, b, drv', Decision(p, b).playback)
  BY DEF AutoTick
<1> DEFINE w == Decision(p, b)
<1>2. drv \in Drv /\ hist \in Hist
  BY DEF Inv, TypeOK
<1>3. p \in Drv /\ p.state = drv.state /\ p.entryAge = drv.entryAge
  BY <1>2, PreparedFacts DEF Kept
<1> HIDE DEF p
<1>4. Sound(p, b, w)
  BY <1>1, <1>3, DecisionSound
<1>5. h.still = hist.still
  BY <1>2 DEF Fresh
<1>6. hist'.still = IF drv'.lastCmd = "stop" THEN hist.still ELSE 0
  BY <1>1, <1>5 DEF Noted
<1>7. Rest'
  <2> SUFFICES ASSUME ("PARKING_IDLE" \notin Overrides)', drv'.state = "PARKING_IDLE"
               PROVE  hist'.still >= drv'.entryAge \/ hist'.still >= IdleDuration
    BY DEF Rest
  <2> HIDE DEF w
  <2>1. /\ drv'.lastCmd = "stop"
        /\ \/ drv'.entryAge = 0
           \/ p.state = "PARKING_IDLE" /\ drv'.entryAge = p.entryAge
    <3>1. drv' = Switched(p, w)
      BY <1>1 DEF w
    <3> QED BY <1>3, <1>4, <3>1, SwitchedIntoIdle
  <2>2. hist.still \in 0 .. IdleDuration /\ IdleDuration \in Nat
    BY <1>2, AutoDriverAssumption DEF Hist
  <2> QED BY <1>3, <1>6, <2>1, <2>2 DEF Rest
<1>8. ASSUME out'.playback
      PROVE  drv.state = "PARKING_IDLE" /\ drv.entryAge >= IdleDuration
  <2>1. w.playback
    BY <1>1, <1>8
  <2>2. b = "parking"
    <3> SUFFICES ASSUME b # "parking" PROVE FALSE
      OBVIOUS
    <3>1. Decision(p, b).playback = FALSE
      BY Behaviours DEF Decision, Want, Roundabout
    <3> QED BY <2>1, <3>1
  <2> DEFINE q == [p EXCEPT !.parkActive = TRUE]
  <2>3. q.state = p.state /\ q.entryAge = p.entryAge
    BY <1>3 DEF Drv
  <2>4. Parking(p).playback
    BY <2>1, <2>2 DEF Decision
  <2>5. p.state = "PARKING_IDLE" /\ p.entryAge >= IdleDuration
    <3> HIDE DEF q
    <3>1. Parking(p) = CASE p.state = "PARKING_IDLE"     -> Idling(q)
                         [] p.state = "PARKING_PLAYBACK" -> StandingBy(q)
                         [] OTHER                        -> Want(q, "PARKING_IDLE", "stop")
      BY DEF Parking, q
    <3>2. ~StandingBy(q).playback /\ ~Want(q, "PARKING_IDLE", "stop").playback
      BY DEF StandingBy, Want
    <3>3. p.state = "PARKING_IDLE" /\ Idling(q).playback
      BY <2>4, <3>1, <3>2
    <3>4. q.entryAge >= IdleDuration
      BY <3>3 DEF Idling, Want
    <3> QED BY <2>3, <3>3, <3>4
  <2> QED BY <1>3, <2>5
<1> QED BY <1>7, <1>8

\* The callbacks leave the state, the wait and the time at rest alone; the
\* passing of time lengthens both, and only an operator enters the state.
LEMMA CallbackRest ==
  ASSUME Inv, Rest, Callback
  PROVE  Rest'
<1>1. /\ drv \in Drv /\ hist \in Hist /\ IdleDuration \in Nat /\ Live \subseteq Flag
      /\ hist.still \in 0 .. IdleDuration /\ drv.entryAge \in Nat
  BY AutoDriverAssumption DEF Inv, TypeOK, Hist, Drv
<1>2. CASE TimePasses
  <2>1. /\ drv'.state = drv.state /\ drv'.entryAge = drv.entryAge + 1
        /\ hist'.still = IF hist.still < IdleDuration THEN hist.still + 1 ELSE hist.still
    BY <1>1, <1>2 DEF TimePasses, Drv, Hist
  <2> QED BY <1>1, <2>1 DEF Rest
<1>3. ASSUME NEW s \in Overrides, SetChallenge(s)
      PROVE  Rest'
  <2>1. drv'.state = s
    BY <1>1, <1>3 DEF SetChallenge, Drv
  <2> QED BY <2>1 DEF Rest
<1>4. CASE drv'.state = drv.state /\ drv'.entryAge = drv.entryAge /\ hist' = hist
  BY <1>4 DEF Rest
<1>5. ASSUME NEW t \in Live, NEW v \in BOOLEAN, BoolCallback(t, v)
      PROVE  Rest'
  <2>1. drv' = Heard(drv, t, v) /\ hist' = hist
    BY <1>5 DEF BoolCallback
  <2>2. Heard(drv, t, v).state = drv.state /\ Heard(drv, t, v).entryAge = drv.entryAge
    BY <1>1 DEF Heard, Drv
  <2> QED BY <1>4, <2>1, <2>2
<1>6. ASSUME NEW l \in Lights, TrafficLightCallback(l)
      PROVE  Rest'
  BY <1>1, <1>4, <1>6 DEF TrafficLightCallback, Drv
<1>7. ASSUME NEW r \in RpStates, RpStateCallback(r)
      PROVE  Rest'
  BY <1>1, <1>4, <1>7 DEF RpStateCallback, Drv
<1>8. ASSUME NEW a \in Pitches, PitchCallback(a)
      PROVE  Rest'
  BY <1>1, <1>4, <1>8 DEF PitchCallback, Drv
<1>9. CASE HillSignCallback
  BY <1>1, <1>4, <1>9 DEF HillSignCallback, Drv
<1>10. ASSUME NEW m \in Moves, OdomCallback(m)
       PROVE  Rest'
  BY <1>1, <1>4, <1>10 DEF OdomCallback, Drv
<1>11. ASSUME NEW l \in LapParams, SetLapParam(l)
       PROVE  Rest'
  BY <1>1, <1>4, <1>11 DEF SetLapParam, Drv
<1>12. ASSUME NEW v \in Subsumption, SetSubsumption(v)
       PROVE  Rest'
  BY <1>1, <1>4, <1>12 DEF SetSubsumption, Drv
<1>13. ASSUME NEW t \in Stamped, GoStale(t)
       PROVE  Rest'
  BY <1>1, <1>4, <1>13 DEF GoStale, Drv
<1>14. CASE SignAges
  BY <1>1, <1>4, <1>14 DEF SignAges, Drv
<1> QED BY <1>2, <1>3, <1>5, <1>6, <1>7, <1>8, <1>9, <1>10, <1>11, <1>12, <1>13, <1>14
        DEF Callback

\* The time at rest covers the wait in every reachable state.
LEMMA RestInductive == Spec => []Rest
<1>1. Init => Rest
  BY DEF Init, Booted, Rest
<1>2. Inv /\ Rest /\ [Next]_vars => Rest'
  <2> SUFFICES ASSUME Inv, Rest, [Next]_vars PROVE Rest'
    OBVIOUS
  <2>1. CASE ManualTick
    <3>1. drv'.state = "MANUAL"
      BY <2>1 DEF ManualTick, Inv, TypeOK, Drv
    <3> QED BY <3>1 DEF Rest
  <2>2. CASE AutoTick
    BY <2>2, AutoTickRest
  <2>3. CASE Callback
    BY <2>3, CallbackRest
  <2>4. ASSUME NEW l \in Restarts, Restart(l) PROVE Rest'
    <3>1. drv'.state = "LANE_FOLLOW"
      BY <2>4 DEF Restart, StartLap, Inv, TypeOK, Drv
    <3> QED BY <3>1 DEF Rest
  <2>5. CASE UNCHANGED vars
    BY <2>5 DEF vars, Rest
  <2> QED BY <2>1, <2>2, <2>3, <2>4, <2>5 DEF Next, Callback
<1> QED BY <1>1, <1>2, Inductive, PTL DEF Spec

\* For every parking_idle_duration: when the loop asks for the recorded
\* movement, only stop has been published for that long.
THEOREM RestTheorem == Spec => PlaybackFromRest
<1>1. Inv /\ Rest /\ [Next]_vars =>
        [out'.playback /\ "PARKING_IDLE" \notin Overrides =>
           hist.still >= IdleDuration]_vars
  <2> SUFFICES ASSUME Inv, Rest, Next, out'.playback, "PARKING_IDLE" \notin Overrides
               PROVE  hist.still >= IdleDuration
    OBVIOUS
  <2>1. CASE ManualTick
    BY <2>1 DEF ManualTick, Silent
  <2>2. CASE AutoTick
    <3>1. drv.state = "PARKING_IDLE" /\ drv.entryAge >= IdleDuration
      BY <2>2, AutoTickRest
    <3>2. /\ drv.entryAge \in Int /\ hist.still \in Int /\ IdleDuration \in Int
      BY AutoDriverAssumption DEF Inv, TypeOK, Drv, Hist
    <3> QED BY <3>1, <3>2 DEF Rest
  <2>3. CASE Callback
    BY <2>3, CallbacksUndisturbed, QuietTick DEF Inv
  <2>4. ASSUME NEW l \in Restarts, Restart(l) PROVE FALSE
    BY <2>4, RestartInv, QuietTick, AutoDriverAssumption
  <2> QED BY <2>1, <2>2, <2>3, <2>4 DEF Next, Callback
<1> QED BY <1>1, Inductive, RestInductive, PTL DEF Spec, PlaybackFromRest
-----------------------------------------------------------------------------
(* What the other nodes may rely on in a tick: the handshake of the        *)
(* playback.                                                               *)

\* The first half of the loop overwrites neither the mode nor what the servo
\* controller said.
LEMMA PreparedHears ==
  ASSUME NEW d \in Drv
  PROVE  Prepared(d).rp = d.rp /\ Prepared(d).see["auto"] = d.see["auto"]
<1> DEFINE a == Fallbacks(d)
           b == AdvanceLap(a)
           c == ObstructionEdge(b)
<1>1. a \in Drv /\ a.rp = d.rp /\ a.see["auto"] = d.see["auto"]
  <2>1. "auto" \in Flag /\ "auto" \notin d.stale
    BY DEF Flag, Drv, Stamped
  <2>2. /\ a.see = [t \in Flag |-> IF t \in d.stale THEN t = "boomOpen" ELSE d.see[t]]
        /\ a.rp = d.rp
    BY DEF Fallbacks, Drv
  <2> QED BY <2>1, <2>2, FallbacksFacts
<1> HIDE DEF a
<1>2. b \in Drv /\ b.rp = a.rp /\ b.see = a.see
  <2>1. b.rp = a.rp
    BY <1>1 DEF AdvanceLap, Drv
  <2> QED BY <1>1, <2>1, AdvanceLapFacts
<1> HIDE DEF b
<1>3. c \in Drv /\ c.rp = b.rp /\ c.see = b.see
  <2>1. c.rp = b.rp
    BY <1>2 DEF ObstructionEdge, Drv
  <2> QED BY <1>2, <2>1, ObstructionEdgeFacts
<1> HIDE DEF c
<1>4. HillPrime(c).rp = c.rp /\ HillPrime(c).see = c.see
  BY <1>3 DEF HillPrime, Drv
<1> QED BY <1>1, <1>2, <1>3, <1>4 DEF Prepared, a, b, c

\* No decision overwrites them either.  The parking is closed only after the
\* grace period and a report of IDLE, and the playback is asked for only on
\* the way into PARKING_PLAYBACK.
LEMMA DecisionHears ==
  ASSUME NEW d \in Drv, NEW b \in Behaviour
  PROVE  LET w == Decision(d, b)
         IN  /\ w.drv.rp = d.rp /\ w.drv.see["auto"] = d.see["auto"]
             /\ w.drv.parkDone /\ ~d.parkDone => d.entryAge > Grace /\ d.rp = "IDLE"
             /\ w.playback => w.target = "PARKING_PLAYBACK" /\ d.state = "PARKING_IDLE"
<1> DEFINE Hears(w) ==
      /\ w.drv.rp = d.rp /\ w.drv.see["auto"] = d.see["auto"]
      /\ w.drv.parkDone /\ ~d.parkDone => d.entryAge > Grace /\ d.rp = "IDLE"
      /\ w.playback => w.target = "PARKING_PLAYBACK" /\ d.state = "PARKING_IDLE"
           p == [d EXCEPT !.parkActive = TRUE]
           m == [p EXCEPT !.parkDone = TRUE, !.parkActive = FALSE,
                          !.see["signboard"] = FALSE]
           o == [d EXCEPT !.boomArmed = TRUE, !.cleared = None]
<1>1. \A s, c : Hears(Want(d, s, c))
  BY DEF Want
<1>2. Hears(Roundabout(d))
  <2>1. o.rp = d.rp /\ o.see = d.see /\ o.parkDone = d.parkDone
    BY DEF Drv
  <2>2. \A s, c : Hears(Want(o, s, c))
    BY <2>1 DEF Want
  <2> QED BY <1>1, <2>2 DEF Roundabout
<1>3. Hears(Parking(d))
  <2>1. /\ p \in Drv /\ p.rp = d.rp /\ p.see = d.see /\ p.parkDone = d.parkDone
        /\ p.entryAge = d.entryAge /\ p.state = d.state
    BY DEF Drv
  <2>2. m.rp = p.rp /\ m.see["auto"] = p.see["auto"]
    <3>1. m.rp = p.rp /\ m.see = [p.see EXCEPT !["signboard"] = FALSE]
      BY <2>1 DEF Drv
    <3>2. p.see \in [Flag -> BOOLEAN] /\ "auto" \in Flag
      BY <2>1 DEF Drv, Flag
    <3> QED BY <3>1, <3>2
  <2> HIDE DEF p, m
  <2>3. \A s, c : Hears(Want(p, s, c))
    BY <2>1 DEF Want
  <2>4. d.state = "PARKING_IDLE" => Hears(Idling(p))
    <3>1. CASE p.entryAge >= IdleDuration
      <4>1. /\ Idling(p).drv = p /\ Idling(p).target = "PARKING_PLAYBACK"
        BY <3>1 DEF Idling, Want
      <4> QED BY <2>1, <4>1
    <3>2. CASE ~(p.entryAge >= IdleDuration)
      BY <2>3, <3>2 DEF Idling
    <3> QED BY <3>1, <3>2
  <2>5. Hears(StandingBy(p))
    <3>1. CASE p.entryAge > Grace /\ p.rp = "IDLE"
      <4>1. StandingBy(p).drv = m /\ ~StandingBy(p).playback
        BY <3>1 DEF StandingBy, Want, m
      <4> QED BY <2>1, <2>2, <3>1, <4>1
    <3>2. CASE ~(p.entryAge > Grace /\ p.rp = "IDLE")
      BY <2>3, <3>2 DEF StandingBy
    <3> QED BY <3>1, <3>2
  <2>6. Parking(d) = CASE d.state = "PARKING_IDLE"     -> Idling(p)
                       [] d.state = "PARKING_PLAYBACK" -> StandingBy(p)
                       [] OTHER                        -> Want(p, "PARKING_IDLE", "stop")
    BY DEF Parking, p
  <2> HIDE DEF Hears
  <2> QED BY <2>3, <2>4, <2>5, <2>6
<1> HIDE DEF Hears
<1>4. Hears(Decision(d, b))
  BY <1>1, <1>2, <1>3, Behaviours DEF Decision
<1> QED BY <1>4 DEF Hears

\* Closing the parking takes automatic mode, the end of the grace period and a
\* report of IDLE; asking for the playback restarts the grace period.
LEMMA TickHandshake ==
  ASSUME Inv, ManualTick \/ AutoTick
  PROVE  /\ drv'.rp = drv.rp /\ drv'.see["auto"] = drv.see["auto"]
         /\ drv'.entryAge \in {drv.entryAge, 0}
         /\ out'.playback => drv'.entryAge = 0
         /\ ~drv.parkDone /\ drv'.parkDone =>
              drv.see["auto"] /\ drv.entryAge > Grace /\ drv.rp = "IDLE"
<1>1. drv \in Drv
  BY DEF Inv, TypeOK
<1>2. CASE ManualTick
  <2>1. ~out'.playback
    BY <1>2 DEF ManualTick, Silent
  <2> QED BY <1>1, <1>2, <2>1 DEF ManualTick, Drv
<1>3. CASE AutoTick
  <2> DEFINE p == Prepared(drv)
  <2>1. PICK b \in Behaviour :
          /\ Wins(Claim(p), b)
          /\ drv' = Switched(p, Decision(p, b))
          /\ out' = [cmd |-> drv'.lastCmd, why |-> b, playback |-> Decision(p, b).playback]
    BY <1>3 DEF AutoTick
  <2> DEFINE w == Decision(p, b)
             a == ArmLight(p, w)
             n == [a EXCEPT !.lastCmd = w.cmd, !.state = w.target,
                            !.entryAge = 0, !.entryDist = a.dist]
             k == [a EXCEPT !.lastCmd = w.cmd]
  <2>2. /\ p \in Drv /\ p.entryAge = drv.entryAge /\ p.state = drv.state
        /\ p.parkDone = drv.parkDone
        /\ p.rp = drv.rp /\ p.see["auto"] = drv.see["auto"]
    BY <1>1, PreparedFacts, PreparedHears DEF Kept
  <2> HIDE DEF p
  <2>3. Sound(p, b, w)
    BY <2>1, <2>2, DecisionSound
  <2>4. /\ w.drv.rp = p.rp /\ w.drv.see["auto"] = p.see["auto"]
        /\ w.drv.parkDone /\ ~p.parkDone => p.entryAge > Grace /\ p.rp = "IDLE"
        /\ w.playback => w.target = "PARKING_PLAYBACK" /\ p.state = "PARKING_IDLE"
    BY <2>2, DecisionHears
  <2> HIDE DEF w
  <2>5. w.drv \in Drv /\ w.drv.entryAge = p.entryAge
    BY <2>3 DEF Sound, Kept
  <2>6. /\ a \in Drv /\ a.rp = w.drv.rp /\ a.see = w.drv.see
        /\ a.entryAge = w.drv.entryAge /\ a.parkDone = w.drv.parkDone
    BY <2>5 DEF ArmLight, Drv
  <2> HIDE DEF a
  <2>7. /\ n.rp = a.rp /\ n.see = a.see /\ n.entryAge = 0 /\ n.parkDone = a.parkDone
        /\ k.rp = a.rp /\ k.see = a.see /\ k.entryAge = a.entryAge
        /\ k.parkDone = a.parkDone
    BY <2>6 DEF Drv
  <2>8. /\ drv' \in {a, k, n}
        /\ p.state # w.target /\ w.target \in Immediate => drv' = n
    BY <2>1 DEF Switched, MaySwitch, a, w
  <2> HIDE DEF n, k
  <2>9. out'.playback => drv' = n
    BY <2>1, <2>4, <2>8 DEF Immediate, w
  <2>10. drv.see["auto"]
    BY <1>3 DEF AutoTick
  <2> QED BY <2>2, <2>4, <2>5, <2>6, <2>7, <2>8, <2>9, <2>10
<1> QED BY <1>2, <1>3
===============================================================================
