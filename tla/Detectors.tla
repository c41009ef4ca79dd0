------------------------------ MODULE Detectors ------------------------------
(***************************************************************************)
(* The gates between what a detector sees in one frame or scan and what it *)
(* reports: obstacle_avoidance_camera ("edge"), tunnel_wall_follower       *)
(* ("tunnel") and boom_gate_detector ("gate") count consecutive frames for *)
(* and against; signage_detector keeps a counter per sign, two for the     *)
(* lamp and two for the tunnel signs; traffic_light_detector counts frames *)
(* of one colour; obstacle_avoidance ("front") takes the median of the     *)
(* finite ones among its last readings.  Every node publishes its verdict  *)
(* after a frame and repeats it from a heartbeat.  Two topics have two     *)
(* writers each, and auto_driver believes whoever wrote last.              *)
(*                                                                         *)
(* Image processing, inference and geometry are left out: what one frame   *)
(* shows is arbitrary.  Nodes that share no topic do not interact, so a    *)
(* behaviour runs one group of nodes, chosen at the start.                 *)
(***************************************************************************)
EXTENDS Integers, FiniteSets, Sequences

CONSTANTS
  Groups,      \* what may run together: [nodes, signs, lamps, hints]
  On, Off,     \* frames for and against a verdict: hysteresis_on / _off and alike
  Votes,       \* the literal 3 of signage_detector
  Cap,         \* the literal 10 of signage_detector; the history counts up to it, too
  Confidence,  \* required_confidence of traffic_light_detector
  Window       \* buffer_size of obstacle_avoidance

TwoSided == {"edge", "tunnel", "gate"}
Detector     == TwoSided \cup {"signage", "light", "front"}
Sign     == {"hill", "obstacle", "parking"}
Lamp     == {"red", "green"}
Hint     == {"tunnel", "end"}
Colour   == {"unknown", "red", "yellow", "green"}
Reading  == {"near", "far", "none"}   \* nothing in the front arc: none
Topic    == Sign \cup {"tunnel", "gate", "light", "front"}

ASSUME DetectorsAssumption ==
  /\ \A g \in Groups : /\ g.nodes \subseteq Detector /\ g.signs \subseteq Sign
                       /\ g.lamps \subseteq Lamp /\ g.hints \subseteq Hint
  /\ On \in [TwoSided -> 1 .. Cap] /\ Off \in [TwoSided -> 1 .. Cap]
  /\ Cap \in Nat /\ Votes \in 2 .. Cap
  /\ Confidence \in 1 .. Cap
  /\ Window \in Nat \ {0} /\ Window <= Cap

VARIABLES
  group,  \* the nodes that run, and what the camera may show
  two,    \* counters and verdict of the two-sided gates
  sign,   \* counter and verdict per sign (_cnt_*, *_sign_active)
  lamp,   \* _cnt_red, _cnt_green, traffic_light_active
  hint,   \* _cnt_tunnel, _cnt_endtunnel, tunnel_active
  light,  \* cv_state, confidence_count, current_state
  front,  \* distance_buffer, obstacle_active_any
  heard,  \* the last message on each topic
  run,    \* history: what a gate saw last, and in how many frames running
  votes,  \* history: lamp votes per colour since the last vote for the other
  sighted \* history: sightings (up to two) since the sign was last gone for Cap frames

detectVars == <<group, two, sign, lamp, hint, light, front, heard, run, votes, sighted>>

Stream == TwoSided \cup Sign \cup {"lamp", "hint", "light", "front"}

\* What one frame can show a gate.
Scenes(g) == CASE g = "lamp" -> Lamp \cup {"none"} [] g = "hint" -> Hint \cup {"none"}
               [] g = "light" -> Colour [] g = "front" -> Reading [] OTHER -> BOOLEAN

DetectTypeOK ==
  /\ group \in Groups
  /\ two \in [TwoSided -> [hits : Nat, misses : Nat, verdict : BOOLEAN]]
  /\ \A d \in TwoSided : two[d].hits <= On[d] /\ two[d].misses <= Off[d]
  /\ sign \in [Sign -> [cnt : 0 .. Cap, verdict : BOOLEAN]]
  /\ lamp \in [red : 0 .. Cap, green : 0 .. Cap, verdict : Colour]
  /\ hint \in [tunnel : 0 .. Cap, end : 0 .. Cap, verdict : BOOLEAN]
  /\ light \in [seen : Colour, count : 0 .. Confidence, verdict : Colour]
  /\ front.buf \in Seq(Reading) /\ Len(front.buf) <= Window /\ front.verdict \in BOOLEAN
  /\ DOMAIN heard = Topic
  /\ \A t \in Topic : heard[t] \in IF t = "light" THEN Colour ELSE BOOLEAN
  /\ DOMAIN run = Stream
  /\ \A g \in Stream : run[g] \in [saw : Scenes(g), frames : 0 .. Cap]
  /\ votes \in [Lamp -> 0 .. Votes]
  /\ sighted \in [Sign -> 0 .. 2]

DetectInit ==
  /\ group \in Groups
  /\ two = [d \in TwoSided |-> [hits |-> 0, misses |-> 0, verdict |-> FALSE]]
  /\ sign = [s \in Sign |-> [cnt |-> 0, verdict |-> FALSE]]
  /\ lamp = [red |-> 0, green |-> 0, verdict |-> "unknown"]
  /\ hint = [tunnel |-> 0, end |-> 0, verdict |-> FALSE]
  /\ light = [seen |-> "unknown", count |-> 0, verdict |-> "unknown"]
  /\ front = [buf |-> <<>>, verdict |-> FALSE]
  /\ heard = [t \in Topic |-> IF t = "light" THEN "unknown" ELSE t = "gate"]
  /\ run = [g \in Stream |->
              [saw |-> CASE g \in {"lamp", "hint", "front"} -> "none"
                         [] g = "light" -> "unknown" [] OTHER -> FALSE,
               frames |-> 0]]
  /\ votes = [c \in Lamp |-> 0]
  /\ sighted = [s \in Sign |-> 0]

-----------------------------------------------------------------------------
(* The counters.                                                           *)

AtMost(n, bound) == IF n < bound THEN n ELSE bound
Less(n) == IF n > 0 THEN n - 1 ELSE 0

\* Mutant: the counter for is not reset by a frame against.
CountedForgetting(g, d, seen) ==
  LET hits   == IF seen THEN AtMost(g.hits + 1, On[d]) ELSE g.hits
      misses == IF seen THEN 0 ELSE AtMost(g.misses + 1, Off[d])
  IN  [hits |-> hits, misses |-> misses,
       verdict |-> hits >= On[d] \/ (misses < Off[d] /\ g.verdict)]

\* A gate after a frame that shows its object or not.  The code of "edge" and
\* "gate" lets the counters run; beyond their thresholds that tells nothing.
Counted(g, d, seen) ==
  LET hits   == IF seen THEN AtMost(g.hits + 1, On[d]) ELSE 0
      misses == IF seen THEN 0 ELSE AtMost(g.misses + 1, Off[d])
  IN  [hits |-> hits, misses |-> misses,
       verdict |-> hits >= On[d] \/ (misses < Off[d] /\ g.verdict)]

\* Mutant: the counter is not capped.
BumpedUncapped(s, seen) ==
  LET cnt == IF seen THEN s.cnt + 1 ELSE Less(s.cnt)
  IN  [cnt |-> cnt, verdict |-> IF seen THEN cnt >= Votes ELSE cnt > 0]

\* _bump: a sign needs Votes sightings to come on, and is on at every miss that
\* leaves something in the counter.
Bumped(s, seen) ==
  LET cnt == IF seen THEN AtMost(s.cnt + 1, Cap) ELSE Less(s.cnt)
  IN  [cnt |-> cnt, verdict |-> IF seen THEN cnt >= Votes ELSE cnt > 0]

\* What the lamp boxes of a frame say, and what remains of it.
LampVoted(l, v) ==
  LET red   == IF v = "red" THEN AtMost(l.red + 1, Cap)
               ELSE IF v = "green" THEN 0 ELSE Less(l.red)
      green == IF v = "green" THEN AtMost(l.green + 1, Cap)
               ELSE IF v = "red" THEN 0 ELSE Less(l.green)
  IN  [red |-> red, green |-> green,
       verdict |-> IF v = "red" /\ red >= Votes THEN "red"
                   ELSE IF v = "green" /\ green >= Votes THEN "green"
                   ELSE IF v = "none" /\ red = 0 /\ green = 0 THEN "unknown"
                   ELSE l.verdict]

\* The pair of tunnel signs: advisory, read by no other node.
HintSeen(h, v) ==
  LET tunnel == IF v = "tunnel" THEN AtMost(h.tunnel + 1, Cap)
                ELSE IF v = "end" THEN 0 ELSE Less(h.tunnel)
      end    == IF v = "end" THEN AtMost(h.end + 1, Cap)
                ELSE IF v = "tunnel" THEN 0 ELSE Less(h.end)
  IN  [tunnel |-> tunnel, end |-> end,
       verdict |-> \/ v = "tunnel" /\ tunnel >= Votes
                   \/ h.verdict /\ ~(v = "end" /\ end >= Votes)]

LightSaw(l, c) ==
  LET count == IF c = l.seen THEN AtMost(l.count + 1, Confidence) ELSE 1
  IN  [seen |-> c, count |-> count,
       verdict |-> IF count >= Confidence THEN c ELSE l.verdict]

Shown(buf, k) == Cardinality({i \in DOMAIN buf : buf[i] = k})

\* The front arc: sorted(valid)[len(valid) // 2] is near, where valid are the
\* readings of the window that are not infinite.
FrontSaw(f, r) ==
  LET all == Append(f.buf, r)
      buf == IF Len(all) > Window THEN Tail(all) ELSE all
  IN  [buf |-> buf,
       verdict |-> Shown(buf, "near") > (Shown(buf, "near") + Shown(buf, "far")) \div 2]

-----------------------------------------------------------------------------
(* What the nodes publish.                                                 *)

\* auto_driver's picture h after a message of node n, which reports its verdict
\* in the state of all gates g.
Told(h, n) ==
  [t \in Topic |->
     CASE n = "signage" /\ t \in Sign -> sign'[t].verdict
       [] n = "signage" /\ t = "light" -> lamp'.verdict
       [] n = "edge" /\ t = "obstacle" -> two'["edge"].verdict
       [] n = "tunnel" /\ t = "tunnel" -> two'["tunnel"].verdict
       [] n = "gate" /\ t = "gate" -> ~two'["gate"].verdict
       [] n = "front" /\ t = "front" -> front'.verdict
       [] n = "light" /\ t = "light" -> light'.verdict
       [] OTHER -> h[t]]

\* History.
Ran(r, v) == [saw |-> v, frames |-> IF r.saw = v THEN AtMost(r.frames + 1, Cap) ELSE 1]

Voted(vs, v) ==
  IF v \notin Lamp THEN vs
  ELSE [c \in Lamp |-> IF c = v THEN AtMost(vs[c] + 1, Votes) ELSE 0]

-----------------------------------------------------------------------------
(* One frame or scan per node, and the heartbeats.                         *)

\* color_callback of obstacle_avoidance_camera, scan_callback of the others.
Scan(d, seen) ==
  /\ d \in group.nodes
  /\ two' = [two EXCEPT ![d] = Counted(@, d, seen)]
  /\ heard' = Told(heard, d)
  /\ run' = [run EXCEPT ![d] = Ran(@, seen)]
  /\ UNCHANGED <<group, sign, lamp, hint, light, front, votes, sighted>>

\* _update_states and publish_states.
Frame(signs, v, h) ==
  /\ "signage" \in group.nodes
  /\ sign' = [s \in Sign |-> Bumped(sign[s], s \in signs)]
  /\ lamp' = LampVoted(lamp, v)
  /\ hint' = HintSeen(hint, h)
  /\ heard' = Told(heard, "signage")
  /\ run' = [s \in Stream |-> CASE s \in Sign -> Ran(run[s], s \in signs)
                               [] s = "lamp" -> Ran(run[s], v)
                               [] s = "hint" -> Ran(run[s], h)
                               [] OTHER -> run[s]]
  /\ votes' = Voted(votes, v)
  /\ sighted' = [s \in Sign |-> IF s \in signs THEN AtMost(sighted[s] + 1, 2)
                                ELSE IF run'[s].frames >= Cap THEN 0 ELSE sighted[s]]
  /\ UNCHANGED <<group, two, light, front>>

\* Mutant: off by one in the test that lets the colour out.
LightFrameLate(c) ==
  /\ "light" \in group.nodes
  /\ light' = LightSaw(light, c)
  /\ heard' = IF light.count >= Confidence THEN Told(heard, "light") ELSE heard
  /\ run' = [run EXCEPT !["light"] = Ran(@, c)]
  /\ UNCHANGED <<group, two, sign, lamp, hint, front, votes, sighted>>

\* color_callback of traffic_light_detector publishes only what it is sure of.
LightFrame(c) ==
  /\ "light" \in group.nodes
  /\ light' = LightSaw(light, c)
  /\ heard' = IF light'.count >= Confidence THEN Told(heard, "light") ELSE heard
  /\ run' = [run EXCEPT !["light"] = Ran(@, c)]
  /\ UNCHANGED <<group, two, sign, lamp, hint, front, votes, sighted>>

\* A reading of at most 5 cm is taken for a broken packet and left out; the node
\* publishes all the same.
FrontScan(r) ==
  /\ "front" \in group.nodes
  /\ IF r = "corrupt" THEN UNCHANGED <<front, run>>
     ELSE /\ front' = FrontSaw(front, r)
          /\ run' = [run EXCEPT !["front"] = Ran(@, r)]
  /\ heard' = Told(heard, "front")
  /\ UNCHANGED <<group, two, sign, lamp, hint, light, votes, sighted>>

Heartbeat(n) ==
  /\ n \in group.nodes
  /\ UNCHANGED <<group, two, sign, lamp, hint, light, front, run, votes, sighted>>
  /\ heard' = Told(heard, n)

DetectNext ==
  \/ \E d \in TwoSided, seen \in BOOLEAN : Scan(d, seen)
  \/ \E signs \in SUBSET group.signs, v \in group.lamps \cup {"none"},
        h \in group.hints \cup {"none"} : Frame(signs, v, h)
  \/ \E c \in Colour : LightFrame(c)
  \/ \E r \in Reading \cup {"corrupt"} : FrontScan(r)
  \/ \E n \in Detector : Heartbeat(n)

DetectSpec == DetectInit /\ [][DetectNext]_detectVars

-----------------------------------------------------------------------------
(* Properties.                                                             *)

\* The part of SteadySceneReported about counters.
SteadyCounters ==
  /\ \A d \in TwoSided :
       LET r == run[d]
       IN  r.frames >= (IF r.saw THEN On[d] ELSE Off[d]) => (two[d].verdict <=> r.saw)
  /\ \A s \in Sign :
       LET r == run[s]
       IN  r.frames >= (IF r.saw THEN Votes ELSE Cap) => (sign[s].verdict <=> r.saw)
  /\ LET r == run["lamp"]
     IN  /\ r.saw \in Lamp /\ r.frames >= Votes => lamp.verdict = r.saw
         /\ r.saw = "none" /\ r.frames >= Cap => lamp.verdict = "unknown"
  /\ LET r == run["hint"]
     IN  r.saw \in Hint /\ r.frames >= Votes => (hint.verdict <=> r.saw = "tunnel")
  /\ LET r == run["light"]
     IN  r.frames >= Confidence => light.verdict = r.saw

\* The part of SteadySceneReported about the median of the front arc.
SteadyFront ==
  LET r == run["front"]
  IN  r.frames >= (IF r.saw = "none" THEN Window ELSE Window \div 2 + 1)
        => (front.verdict <=> r.saw = "near")

\* A scene that stays as it is gets reported as it is, whatever was seen before:
\* after so many frames alike no gate is left with an old verdict.  A sign or a
\* lamp that has gone needs the whole counter to empty, an object that left an
\* empty front arc the whole window.
SteadySceneReported == SteadyCounters /\ SteadyFront

\* A verdict changes only on evidence: consecutive frames for a two-sided gate
\* and the traffic light detector, Votes votes with none for the other colour
\* between them for the lamp; for a sign a second sighting since it was last gone for
\* Cap frames, the last one in this frame or the one before.  (The comment at _bump
\* says three consecutive frames, which does not hold: M S M after a decaying run
\* reports the sign again.)
VerdictEarned ==
  [][/\ \A d \in TwoSided :
          ~(two'[d].verdict <=> two[d].verdict) =>
            /\ run'[d].saw <=> two'[d].verdict
            /\ run'[d].frames >= IF two'[d].verdict THEN On[d] ELSE Off[d]
     /\ light'.verdict # light.verdict =>
          run'["light"].saw = light'.verdict /\ run'["light"].frames >= Confidence
     /\ lamp'.verdict # lamp.verdict =>
          lamp'.verdict = "unknown" \/ votes'[lamp'.verdict] >= Votes
     /\ \A s \in Sign :
          sign'[s].verdict /\ ~sign[s].verdict =>
            sighted'[s] = 2 /\ (run'[s].saw \/ run[s].saw) ]_detectVars

\* What auto_driver last heard on a topic is the present verdict of a node that
\* writes to it: between two writers it may be either, but never one that its
\* node has taken back.
TopicsCurrent ==
  /\ \A s \in Sign :
       heard[s] \in {sign[s].verdict} \cup (IF s = "obstacle" THEN {two["edge"].verdict} ELSE {})
  /\ heard["tunnel"] = two["tunnel"].verdict
  /\ heard["gate"] = ~two["gate"].verdict
  /\ heard["front"] = front.verdict
  /\ heard["light"] \in {lamp.verdict, light.verdict}
=============================================================================
