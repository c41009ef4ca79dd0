-------------------------- MODULE Detectors_proofs --------------------------
(***************************************************************************)
(* Proofs about Detectors, for every threshold and every set of groups.    *)
(* Each kind of gate has an invariant that ties its counters to the frames *)
(* it saw (GateInv, SignInv, LampInv, HintInv, LightInv) and one lemma     *)
(* about one frame; the steps of the nodes only compose them.              *)
(***************************************************************************)
EXTENDS Detectors, FiniteSetTheorems, TLAPS

Gate == [hits : Nat, misses : Nat, verdict : BOOLEAN]
Runs(S) == [saw : S, frames : 0 .. Cap]

\* The counters of a two-sided gate are the frames it has just seen alike.
GateInv(g, r, d) ==
  /\ r.frames > 0 /\ r.saw => g.hits = AtMost(r.frames, On[d]) /\ g.misses = 0
  /\ r.frames > 0 /\ ~r.saw => g.misses = AtMost(r.frames, Off[d]) /\ g.hits = 0
  /\ r.frames = 0 => g.hits = 0 /\ g.misses = 0
  /\ g.hits >= On[d] => g.verdict
  /\ g.misses >= Off[d] => ~g.verdict

\* The counter of a sign is at least the sightings just made and at most what
\* the frames without one have left of it.
SignInv(s, r, n) ==
  /\ r.frames > 0 /\ r.saw => s.cnt >= r.frames /\ (s.verdict <=> s.cnt >= Votes)
  /\ r.frames > 0 /\ ~r.saw => s.cnt + r.frames <= Cap /\ (s.verdict <=> s.cnt > 0)
  /\ r.frames = 0 => s.cnt = 0 /\ ~s.verdict
  /\ s.cnt >= 1 => n >= 1
  /\ s.cnt >= 2 => n = 2

LampInv(l, r, vs) ==
  /\ r.frames > 0 /\ r.saw = "red" =>
       l.red >= r.frames /\ (l.red >= Votes => l.verdict = "red")
  /\ r.frames > 0 /\ r.saw = "green" =>
       l.green >= r.frames /\ (l.green >= Votes => l.verdict = "green")
  /\ r.frames > 0 /\ r.saw = "none" =>
       /\ l.red + r.frames <= Cap /\ l.green + r.frames <= Cap
       /\ l.red = 0 /\ l.green = 0 => l.verdict = "unknown"
  /\ AtMost(l.red, Votes) <= vs["red"] /\ AtMost(l.green, Votes) <= vs["green"]

HintInv(h, r) ==
  /\ r.frames > 0 /\ r.saw = "tunnel" =>
       h.tunnel >= r.frames /\ (h.tunnel >= Votes => h.verdict)
  /\ r.frames > 0 /\ r.saw = "end" =>
       h.end >= r.frames /\ (h.end >= Votes => ~h.verdict)

LightInv(l, r) ==
  /\ r.saw = l.seen /\ l.count = AtMost(r.frames, Confidence)
  /\ l.count >= Confidence => l.verdict = l.seen

\* The verdict is the median of the window, which ends in the last readings.
FrontInv(f, r) ==
  /\ f.verdict <=> Shown(f.buf, "near") > (Shown(f.buf, "near") + Shown(f.buf, "far")) \div 2
  /\ AtMost(r.frames, Window) <= Len(f.buf)
  /\ \A i \in 1 .. Len(f.buf) : i > Len(f.buf) - r.frames => f.buf[i] = r.saw

Counters ==
  /\ \A d \in TwoSided : GateInv(two[d], run[d], d)
  /\ \A s \in Sign : SignInv(sign[s], run[s], sighted[s])
  /\ LampInv(lamp, run["lamp"], votes)
  /\ HintInv(hint, run["hint"])
  /\ LightInv(light, run["light"])
  /\ FrontInv(front, run["front"])

-----------------------------------------------------------------------------
(* One frame at one gate.                                                  *)

\* A frame more of what was seen, or the first of something else.
LEMMA RanLemma ==
  ASSUME NEW S, NEW r \in Runs(S), NEW v \in S
  PROVE  /\ Ran(r, v) \in Runs(S)
         /\ Ran(r, v).saw = v
         /\ Ran(r, v).frames > 0
         /\ r.saw = v => Ran(r, v).frames = AtMost(r.frames + 1, Cap)
         /\ r.saw # v => Ran(r, v).frames = 1
BY DetectorsAssumption DEF Runs, Ran, AtMost

LEMMA RanBoolean ==
  ASSUME NEW r \in Runs(BOOLEAN), NEW seen \in BOOLEAN
  PROVE  /\ r.frames \in 0 .. Cap
         /\ Ran(r, seen).frames \in 1 .. Cap
         /\ Ran(r, seen).saw <=> seen
         /\ (r.saw <=> seen) => Ran(r, seen).frames = AtMost(r.frames + 1, Cap)
         /\ ~(r.saw <=> seen) => Ran(r, seen).frames = 1
<1>1. r.saw \in BOOLEAN /\ r.frames \in 0 .. Cap
  BY DEF Runs
<1>2. (r.saw <=> seen) => r.saw = seen
  BY <1>1
<1>3. ~(r.saw <=> seen) => r.saw # seen
  BY <1>1
<1>4. Ran(r, seen).saw = seen /\ Ran(r, seen).frames > 0 /\ Ran(r, seen) \in Runs(BOOLEAN)
  BY RanLemma
<1>5. Ran(r, seen).frames \in 1 .. Cap
  BY <1>4, DetectorsAssumption DEF Runs
<1>6. QED
  BY <1>1, <1>2, <1>3, <1>4, <1>5, RanLemma

LEMMA CountedLemma ==
  ASSUME NEW d \in TwoSided, NEW g \in Gate, NEW r \in Runs(BOOLEAN), NEW seen \in BOOLEAN,
         g.hits <= On[d], g.misses <= Off[d], GateInv(g, r, d)
  PROVE  /\ Counted(g, d, seen) \in Gate
         /\ Counted(g, d, seen).hits <= On[d] /\ Counted(g, d, seen).misses <= Off[d]
         /\ GateInv(Counted(g, d, seen), Ran(r, seen), d)
         /\ ~(Counted(g, d, seen).verdict <=> g.verdict) =>
              /\ Ran(r, seen).saw <=> Counted(g, d, seen).verdict
              /\ Ran(r, seen).frames >= IF Counted(g, d, seen).verdict THEN On[d] ELSE Off[d]
<1>1. On[d] \in 1 .. Cap /\ Off[d] \in 1 .. Cap /\ Cap \in Nat
  BY DetectorsAssumption
<1> DEFINE c == Counted(g, d, seen)  q == Ran(r, seen)
<1>2. (q.saw <=> seen) /\ q.frames \in 1 .. Cap
  BY RanBoolean
<1>0. /\ (r.saw <=> seen) => q.frames = AtMost(r.frames + 1, Cap)
      /\ ~(r.saw <=> seen) => q.frames = 1
      /\ r.frames \in 0 .. Cap
      /\ g.hits \in Nat /\ g.misses \in Nat
  BY RanBoolean DEF Gate
<1>3. CASE seen = TRUE
  <2>1. c.hits = AtMost(g.hits + 1, On[d]) /\ c.misses = 0
    BY <1>3 DEF Counted
  <2>2. c.verdict <=> c.hits >= On[d] \/ g.verdict
    <3>1. c.verdict <=> c.hits >= On[d] \/ (c.misses < Off[d] /\ g.verdict)
      BY DEF Counted
    <3>2. c.misses < Off[d]
      BY <1>1, <2>1
    <3>3. QED
      BY <3>1, <3>2
  <2>3. c.hits = AtMost(q.frames, On[d])
    <3>1. CASE r.saw
      <4>1. q.frames = AtMost(r.frames + 1, Cap)
        BY <1>0, <1>3, <3>1
      <4>2. g.hits = AtMost(r.frames, On[d])
        BY <1>0, <1>1, <3>1 DEF GateInv, AtMost
      <4>3. QED
        BY <4>1, <4>2, <1>0, <1>1, <2>1 DEF AtMost
    <3>2. CASE ~r.saw
      <4>1. q.frames = 1
        BY <1>0, <1>3, <3>2
      <4>2. g.hits = 0
        BY <1>0, <3>2 DEF GateInv
      <4>3. QED
        BY <4>1, <4>2, <1>1, <2>1 DEF AtMost
    <3>3. QED
      BY <3>1, <3>2
  <2>4. c \in Gate /\ c.hits <= On[d] /\ c.misses <= Off[d]
    BY <1>1, <1>3 DEF Counted, Gate, AtMost
  <2>5. c.verdict /\ ~g.verdict => c.hits >= On[d]
    BY <2>2
  <2>6. g.verdict => c.verdict
    BY <2>2
  <2>7. GateInv(c, q, d)
    <3>1. c.hits >= On[d] => c.verdict
      BY <2>2
    <3>2. ~(c.misses >= Off[d]) /\ ~(q.frames = 0)
      BY <1>1, <1>2, <2>1
    <3>3. QED
      BY <1>2, <1>3, <2>1, <2>3, <3>1, <3>2, Zenon DEF GateInv
  <2>8. c.hits >= On[d] => q.frames >= On[d]
    BY <1>1, <1>2, <2>3 DEF AtMost
  <2>9. QED
    BY <1>2, <1>3, <2>4, <2>5, <2>6, <2>7, <2>8
<1>4. CASE seen = FALSE
  <2>1. c.misses = AtMost(g.misses + 1, Off[d]) /\ c.hits = 0
    BY <1>4 DEF Counted
  <2>2. c.verdict <=> c.misses < Off[d] /\ g.verdict
    BY <1>1, <1>4 DEF Counted, Gate
  <2>3. c.misses = AtMost(q.frames, Off[d])
    <3>1. CASE r.saw
      BY <1>0, <1>1, <1>4, <2>1, <3>1 DEF GateInv, AtMost
    <3>2. CASE ~r.saw
      BY <1>0, <1>1, <1>4, <2>1, <3>2 DEF GateInv, AtMost
    <3>3. QED
      BY <3>1, <3>2
  <2>4. c \in Gate /\ c.hits <= On[d] /\ c.misses <= Off[d]
    BY <1>1, <1>4 DEF Counted, Gate, AtMost
  <2>5. ~c.verdict /\ g.verdict => c.misses >= Off[d]
    BY <1>1, <2>2, <2>4 DEF Gate
  <2>6. c.verdict => g.verdict
    BY <2>2
  <2>7. GateInv(c, q, d)
    <3>1. c.misses >= Off[d] => ~c.verdict
      BY <1>1, <2>2, <2>4 DEF Gate
    <3>2. ~(c.hits >= On[d]) /\ ~(q.frames = 0)
      BY <1>1, <1>2, <2>1
    <3>3. QED
      BY <1>2, <1>4, <2>1, <2>3, <3>1, <3>2, Zenon DEF GateInv
  <2>8. c.misses >= Off[d] => q.frames >= Off[d]
    BY <1>1, <1>2, <2>3 DEF AtMost
  <2>9. QED
    BY <1>2, <1>4, <2>4, <2>5, <2>6, <2>7, <2>8
<1>5. QED
  BY <1>3, <1>4

Seen(n, seen, frames) ==
  IF seen THEN AtMost(n + 1, 2) ELSE IF frames >= Cap THEN 0 ELSE n

LEMMA BumpedLemma ==
  ASSUME NEW s \in [cnt : 0 .. Cap, verdict : BOOLEAN], NEW r \in Runs(BOOLEAN),
         NEW n \in 0 .. 2, NEW seen \in BOOLEAN, SignInv(s, r, n)
  PROVE  /\ Bumped(s, seen) \in [cnt : 0 .. Cap, verdict : BOOLEAN]
         /\ Seen(n, seen, Ran(r, seen).frames) \in 0 .. 2
         /\ SignInv(Bumped(s, seen), Ran(r, seen), Seen(n, seen, Ran(r, seen).frames))
         /\ Bumped(s, seen).verdict /\ ~s.verdict =>
              /\ Seen(n, seen, Ran(r, seen).frames) = 2
              /\ Ran(r, seen).saw \/ r.saw
<1>1. Cap \in Nat /\ Votes \in 2 .. Cap
  BY DetectorsAssumption
<1> DEFINE b == Bumped(s, seen)  q == Ran(r, seen)  m == Seen(n, seen, q.frames)
<1>2. /\ (q.saw <=> seen) /\ q.frames \in 1 .. Cap /\ r.frames \in 0 .. Cap
      /\ (r.saw <=> seen) => q.frames = AtMost(r.frames + 1, Cap)
      /\ ~(r.saw <=> seen) => q.frames = 1
  BY RanBoolean
<1>3. s.cnt \in 0 .. Cap /\ s.verdict \in BOOLEAN
  OBVIOUS
<1>4. CASE seen = TRUE
  <2>1. b.cnt = AtMost(s.cnt + 1, Cap) /\ (b.verdict <=> b.cnt >= Votes)
    BY <1>4 DEF Bumped
  <2>2. m = AtMost(n + 1, 2)
    BY <1>4 DEF Seen
  <2>3. b.cnt \in 1 .. Cap /\ m \in 1 .. 2
    BY <1>1, <1>3, <2>1, <2>2 DEF AtMost
  <2>4. b \in [cnt : 0 .. Cap, verdict : BOOLEAN]
    BY <1>1, <1>3, <1>4 DEF Bumped, AtMost
  <2>5. b.cnt >= q.frames
    <3>1. CASE r.saw
      <4>1. q.frames = AtMost(r.frames + 1, Cap)
        BY <1>2, <1>4, <3>1
      <4>2. s.cnt >= r.frames
        BY <1>2, <1>3, <3>1 DEF SignInv
      <4>3. QED
        BY <4>1, <4>2, <1>1, <1>2, <1>3, <2>1 DEF AtMost
    <3>2. CASE ~r.saw
      <4>1. q.frames = 1
        BY <1>2, <1>4, <3>2
      <4>2. QED
        BY <4>1, <2>3
    <3>3. QED
      BY <3>1, <3>2
  <2>6. b.cnt >= 2 => m = 2
    BY <1>1, <1>3, <2>1, <2>2 DEF SignInv, AtMost
  <2>7. q.frames > 0 /\ ~(q.frames = 0) /\ (b.cnt >= 1 => m >= 1)
    BY <1>2, <2>3
  <2>8. SignInv(b, q, m)
    BY <1>2, <1>4, <2>1, <2>5, <2>6, <2>7, Zenon DEF SignInv
  <2>9. b.verdict => m = 2
    BY <1>1, <2>1, <2>3, <2>6
  <2>10. q.saw
    BY <1>2, <1>4
  <2>11. m \in 0 .. 2
    BY <2>3
  <2>12. QED
    BY <2>4, <2>8, <2>9, <2>10, <2>11, Zenon
<1>5. CASE seen = FALSE
  BY <1>1, <1>5 DEF Runs, SignInv, Bumped, Ran, Seen, AtMost, Less
<1>6. QED
  BY <1>4, <1>5

LEMMA LampLemma ==
  ASSUME NEW l \in [red : 0 .. Cap, green : 0 .. Cap, verdict : Colour],
         NEW r \in Runs(Lamp \cup {"none"}), NEW vs \in [Lamp -> 0 .. Votes],
         NEW v \in Lamp \cup {"none"}, LampInv(l, r, vs)
  PROVE  /\ LampVoted(l, v) \in [red : 0 .. Cap, green : 0 .. Cap, verdict : Colour]
         /\ Voted(vs, v) \in [Lamp -> 0 .. Votes]
         /\ LampInv(LampVoted(l, v), Ran(r, v), Voted(vs, v))
         /\ LampVoted(l, v).verdict # l.verdict =>
              \/ LampVoted(l, v).verdict = "unknown"
              \/ Voted(vs, v)[LampVoted(l, v).verdict] >= Votes
<1>1. Cap \in Nat /\ Votes \in 2 .. Cap
  BY DetectorsAssumption
<1>2. CASE v = "red"
  BY <1>1, <1>2 DEF Runs, LampInv, LampVoted, Voted, Ran, AtMost, Less, Lamp, Colour
<1>3. CASE v = "green"
  BY <1>1, <1>3 DEF Runs, LampInv, LampVoted, Voted, Ran, AtMost, Less, Lamp, Colour
<1>4. CASE v = "none"
  BY <1>1, <1>4 DEF Runs, LampInv, LampVoted, Voted, Ran, AtMost, Less, Lamp, Colour
<1>5. QED
  BY <1>2, <1>3, <1>4 DEF Lamp

LEMMA HintLemma ==
  ASSUME NEW h \in [tunnel : 0 .. Cap, end : 0 .. Cap, verdict : BOOLEAN],
         NEW r \in Runs(Hint \cup {"none"}), NEW v \in Hint \cup {"none"}, HintInv(h, r)
  PROVE  /\ HintSeen(h, v) \in [tunnel : 0 .. Cap, end : 0 .. Cap, verdict : BOOLEAN]
         /\ HintInv(HintSeen(h, v), Ran(r, v))
<1>1. Cap \in Nat /\ Votes \in 2 .. Cap
  BY DetectorsAssumption
<1>2. CASE v = "tunnel"
  BY <1>1, <1>2 DEF Runs, HintInv, HintSeen, Ran, AtMost, Less, Hint
<1>3. CASE v = "end"
  BY <1>1, <1>3 DEF Runs, HintInv, HintSeen, Ran, AtMost, Less, Hint
<1>4. CASE v = "none"
  BY <1>1, <1>4 DEF Runs, HintInv, HintSeen, Ran, AtMost, Less, Hint
<1>5. QED
  BY <1>2, <1>3, <1>4 DEF Hint

LEMMA LightLemma ==
  ASSUME NEW l \in [seen : Colour, count : 0 .. Confidence, verdict : Colour],
         NEW r \in Runs(Colour), NEW c \in Colour, LightInv(l, r)
  PROVE  /\ LightSaw(l, c) \in [seen : Colour, count : 0 .. Confidence, verdict : Colour]
         /\ LightInv(LightSaw(l, c), Ran(r, c))
         /\ LightSaw(l, c).verdict # l.verdict =>
              /\ Ran(r, c).saw = LightSaw(l, c).verdict
              /\ Ran(r, c).frames >= Confidence
<1>1. Cap \in Nat /\ Confidence \in 1 .. Cap
  BY DetectorsAssumption
<1>2. CASE c = l.seen
  BY <1>1, <1>2 DEF Runs, LightInv, LightSaw, Ran, AtMost
<1>3. CASE c # l.seen
  BY <1>1, <1>3 DEF Runs, LightInv, LightSaw, Ran, AtMost
<1>4. QED
  BY <1>2, <1>3

LEMMA FrontLemma ==
  ASSUME NEW f, f.buf \in Seq(Reading), Len(f.buf) <= Window,
         NEW r \in Runs(Reading), NEW v \in Reading, FrontInv(f, r)
  PROVE  /\ FrontSaw(f, v).buf \in Seq(Reading) /\ Len(FrontSaw(f, v).buf) <= Window
         /\ FrontSaw(f, v).verdict \in BOOLEAN
         /\ FrontInv(FrontSaw(f, v), Ran(r, v))
<1> DEFINE all == Append(f.buf, v)  buf == FrontSaw(f, v).buf  q == Ran(r, v)
<1>1. Window \in Nat \ {0} /\ Cap \in Nat /\ Window <= Cap
  BY DetectorsAssumption
<1>2. /\ r.frames \in 0 .. Cap /\ q.frames \in 1 .. Cap /\ q.saw = v
      /\ r.saw = v => q.frames = AtMost(r.frames + 1, Cap)
      /\ r.saw # v => q.frames = 1
  BY RanLemma, <1>1 DEF Runs
<1>3. /\ all \in Seq(Reading) /\ Len(all) = Len(f.buf) + 1 /\ Len(f.buf) \in Nat
      /\ \A i \in 1 .. Len(f.buf) : all[i] = f.buf[i]
      /\ all[Len(f.buf) + 1] = v
  OBVIOUS
<1>4. buf = IF Len(all) > Window THEN Tail(all) ELSE all
  BY DEF FrontSaw
<1>5. FrontSaw(f, v).verdict <=>
        Shown(buf, "near") > (Shown(buf, "near") + Shown(buf, "far")) \div 2
  BY DEF FrontSaw
<1>6. FrontSaw(f, v).verdict \in BOOLEAN
  BY DEF FrontSaw
<1>7. ASSUME NEW i \in 1 .. Len(all), i > Len(all) - q.frames PROVE all[i] = q.saw
  <2>1. CASE i = Len(f.buf) + 1
    BY <1>2, <1>3, <2>1
  <2>2. CASE i # Len(f.buf) + 1
    <3>1. i \in 1 .. Len(f.buf)
      BY <1>3, <2>2
    <3>2. r.saw = v /\ i > Len(f.buf) - r.frames
      BY <1>1, <1>2, <1>3, <1>7, <2>2 DEF AtMost
    <3>3. QED
      BY <1>2, <1>3, <3>1, <3>2 DEF FrontInv
  <2>3. QED
    BY <2>1, <2>2
<1>8. CASE Len(all) > Window
  <2>1. /\ buf = Tail(all) /\ Len(buf) = Len(f.buf) /\ Len(f.buf) = Window
        /\ buf \in Seq(Reading)
        /\ \A i \in 1 .. Len(buf) : buf[i] = all[i + 1] /\ i + 1 \in 1 .. Len(all)
    BY <1>1, <1>3, <1>4, <1>8
  <2>2. ASSUME NEW i \in 1 .. Len(buf), i > Len(buf) - q.frames PROVE buf[i] = q.saw
    <3>1. i + 1 > Len(all) - q.frames
      BY <1>2, <1>3, <2>1, <2>2
    <3>2. QED
      BY <1>7, <2>1, <3>1
  <2>3. AtMost(q.frames, Window) <= Len(buf)
    BY <1>1, <1>2, <2>1 DEF AtMost
  <2>4. QED
    BY <1>5, <1>6, <2>1, <2>2, <2>3, <1>1 DEF FrontInv
<1>9. CASE ~(Len(all) > Window)
  <2>1. buf = all /\ Len(buf) <= Window
    BY <1>1, <1>3, <1>4, <1>9
  <2>2. AtMost(q.frames, Window) <= Len(buf)
    <3>1. AtMost(r.frames, Window) <= Len(f.buf)
      BY DEF FrontInv
    <3>2. QED
      BY <1>1, <1>2, <1>3, <2>1, <3>1 DEF AtMost
  <2>3. QED
    BY <1>3, <1>5, <1>6, <1>7, <2>1, <2>2 DEF FrontInv
<1>10. QED
  BY <1>8, <1>9

\* A run of m readings alike at the end of a window of at most n.
LEMMA ShownLemma ==
  ASSUME NEW buf \in Seq(Reading), NEW k \in Reading, NEW m \in Nat, m <= Len(buf),
         \A i \in 1 .. Len(buf) : i > Len(buf) - m => buf[i] = k
  PROVE  /\ \A j \in Reading : Shown(buf, j) \in Nat
         /\ Shown(buf, k) >= m
         /\ \A j \in Reading \ {k} : Shown(buf, k) + Shown(buf, j) <= Len(buf)
<1> DEFINE At(j) == {i \in DOMAIN buf : buf[i] = j}
<1>1. /\ DOMAIN buf = 1 .. Len(buf) /\ Len(buf) \in Nat
      /\ IsFiniteSet(1 .. Len(buf)) /\ Cardinality(1 .. Len(buf)) = Len(buf)
  <2>1. DOMAIN buf = 1 .. Len(buf) /\ Len(buf) \in Nat
    OBVIOUS
  <2>2. 1 \in Int /\ Len(buf) \in Int
    BY <2>1
  <2>3. /\ IsFiniteSet(1 .. Len(buf))
        /\ Cardinality(1 .. Len(buf)) = IF 1 > Len(buf) THEN 0 ELSE Len(buf) - 1 + 1
    BY <2>2, FS_Interval
  <2>4. QED
    BY <2>1, <2>3
<1>2. ASSUME NEW j PROVE IsFiniteSet(At(j)) /\ Cardinality(At(j)) \in Nat
  <2>1. At(j) \in SUBSET (1 .. Len(buf))
    BY <1>1
  <2>2. IsFiniteSet(At(j))
    BY <1>1, <2>1, FS_Subset
  <2>3. QED
    BY <2>2, FS_CardinalityType
<1>3. Cardinality(At(k)) >= m
  <2> DEFINE end == Len(buf) - m + 1 .. Len(buf)
  <2>1. end \in SUBSET At(k)
    BY <1>1
  <2>2. Cardinality(end) = m
    <3>1. Len(buf) - m + 1 \in Int /\ Len(buf) \in Int
      BY <1>1
    <3>2. Cardinality(end) = IF Len(buf) - m + 1 > Len(buf) THEN 0
                             ELSE Len(buf) - (Len(buf) - m + 1) + 1
      BY <3>1, FS_Interval
    <3>3. QED
      BY <1>1, <3>2
  <2>3. Cardinality(end) <= Cardinality(At(k))
    BY <1>2, <2>1, FS_Subset
  <2>4. QED
    BY <2>2, <2>3
<1>4. ASSUME NEW j \in Reading \ {k} PROVE Cardinality(At(k)) + Cardinality(At(j)) <= Len(buf)
  <2>1. At(k) \cap At(j) = {} /\ At(k) \cup At(j) \in SUBSET (1 .. Len(buf))
    BY <1>1
  <2>2. Cardinality(At(k) \cup At(j)) <= Len(buf)
    BY <1>1, <2>1, FS_Subset
  <2>3. Cardinality(At(k) \cup At(j)) =
          Cardinality(At(k)) + Cardinality(At(j)) - Cardinality(At(k) \cap At(j))
    BY <1>2, FS_Union
  <2>4. Cardinality(At(k) \cap At(j)) = 0
    BY <2>1, FS_EmptySet
  <2>5. Cardinality(At(k)) \in Nat /\ Cardinality(At(j)) \in Nat
    BY <1>2
  <2> HIDE DEF At
  <2>6. QED
    BY <1>1, <2>2, <2>3, <2>4, <2>5
<1>5. QED
  BY <1>2, <1>3, <1>4 DEF Shown
-----------------------------------------------------------------------------
(* The nodes.                                                              *)

IInv == DetectTypeOK /\ Counters /\ TopicsCurrent

\* What the step properties say of a step.
Earned ==
  /\ \A d \in TwoSided :
       ~(two'[d].verdict <=> two[d].verdict) =>
         /\ run'[d].saw <=> two'[d].verdict
         /\ run'[d].frames >= IF two'[d].verdict THEN On[d] ELSE Off[d]
  /\ light'.verdict # light.verdict =>
       run'["light"].saw = light'.verdict /\ run'["light"].frames >= Confidence
  /\ lamp'.verdict # lamp.verdict =>
       lamp'.verdict = "unknown" \/ votes'[lamp'.verdict] >= Votes
  /\ \A s \in Sign :
       sign'[s].verdict /\ ~sign[s].verdict =>
         sighted'[s] = 2 /\ (run'[s].saw \/ run[s].saw)

LEMMA Streams ==
  /\ \A d \in TwoSided : d \in Stream /\ Scenes(d) = BOOLEAN
  /\ \A s \in Sign : s \in Stream /\ Scenes(s) = BOOLEAN
  /\ "lamp" \in Stream /\ Scenes("lamp") = Lamp \cup {"none"}
  /\ "hint" \in Stream /\ Scenes("hint") = Hint \cup {"none"}
  /\ "light" \in Stream /\ Scenes("light") = Colour
  /\ "front" \in Stream /\ Scenes("front") = Reading
BY DEF Stream, Scenes, TwoSided, Sign

LEMMA InitInv == DetectInit => IInv
<1> SUFFICES ASSUME DetectInit PROVE IInv
  OBVIOUS
<1>1. /\ Cap \in Nat /\ Votes \in 2 .. Cap /\ Confidence \in 1 .. Cap /\ Window \in Nat
      /\ \A d \in TwoSided : On[d] \in 1 .. Cap /\ Off[d] \in 1 .. Cap
  BY DetectorsAssumption
<1>2. DetectTypeOK
  <2>1. \A g \in Stream : run[g] \in [saw : Scenes(g), frames : 0 .. Cap]
    <3>1. \A g \in TwoSided \cup Sign : run[g].saw \in Scenes(g)
      BY DEF DetectInit, Stream, Scenes, TwoSided, Sign
    <3>2. /\ run["lamp"].saw \in Scenes("lamp") /\ run["hint"].saw \in Scenes("hint")
          /\ run["light"].saw \in Scenes("light") /\ run["front"].saw \in Scenes("front")
      BY DEF DetectInit, Stream, Scenes, Reading, Colour
    <3>3. \A g \in Stream : run[g] = [saw |-> run[g].saw, frames |-> 0]
      BY DEF DetectInit
    <3>4. \A g \in Stream : run[g].saw \in Scenes(g)
      BY <3>1, <3>2 DEF Stream
    <3>5. ASSUME NEW g \in Stream PROVE run[g] \in [saw : Scenes(g), frames : 0 .. Cap]
      <4>1. run[g] = [saw |-> run[g].saw, frames |-> 0] /\ run[g].saw \in Scenes(g)
        BY <3>3, <3>4
      <4>2. 0 \in 0 .. Cap
        BY <1>1
      <4>3. QED
        BY <4>1, <4>2
    <3>6. QED
      BY <3>5
  <2>2. \A t \in Topic : heard[t] \in IF t = "light" THEN Colour ELSE BOOLEAN
    BY DEF DetectInit, Colour
  <2>3. /\ group \in Groups
        /\ two \in [TwoSided -> [hits : Nat, misses : Nat, verdict : BOOLEAN]]
        /\ \A d \in TwoSided : two[d].hits <= On[d] /\ two[d].misses <= Off[d]
        /\ sign \in [Sign -> [cnt : 0 .. Cap, verdict : BOOLEAN]]
    BY <1>1 DEF DetectInit
  <2>4. /\ lamp \in [red : 0 .. Cap, green : 0 .. Cap, verdict : Colour]
        /\ hint \in [tunnel : 0 .. Cap, end : 0 .. Cap, verdict : BOOLEAN]
        /\ light \in [seen : Colour, count : 0 .. Confidence, verdict : Colour]
    BY <1>1 DEF DetectInit, Colour
  <2>5. front.buf \in Seq(Reading) /\ Len(front.buf) <= Window /\ front.verdict \in BOOLEAN
    BY <1>1 DEF DetectInit
  <2>6. /\ DOMAIN heard = Topic /\ DOMAIN run = Stream
        /\ votes \in [Lamp -> 0 .. Votes] /\ sighted \in [Sign -> 0 .. 2]
    BY <1>1 DEF DetectInit
  <2>7. QED
    BY <2>1, <2>2, <2>3, <2>4, <2>5, <2>6 DEF DetectTypeOK
<1>3. Counters
  <2>1. FrontInv(front, run["front"])
    <3>1. /\ front.buf = << >> /\ Len(front.buf) = 0 /\ ~front.verdict
          /\ run["front"].frames = 0
      BY Streams DEF DetectInit
    <3>2. \A k : Shown(front.buf, k) = 0
      BY <3>1, FS_EmptySet DEF Shown
    <3>3. ~(0 > (0 + 0) \div 2)
      OBVIOUS
    <3>4. QED
      BY <1>1, <3>1, <3>2, <3>3 DEF FrontInv, AtMost
  <2>2. QED
    BY <1>1, <2>1 DEF DetectInit, Counters, GateInv, SignInv, LampInv, HintInv, LightInv, AtMost,
       TwoSided, Sign, Stream, Lamp, Colour
<1>4. TopicsCurrent
  BY DEF DetectInit, TopicsCurrent, Sign, TwoSided, Topic
<1>5. QED
  BY <1>2, <1>3, <1>4 DEF IInv

\* What DetectTypeOK says of the history, gate by gate.
LEMMA Typed ==
  DetectTypeOK =>
    /\ \A d \in TwoSided : two[d] \in Gate /\ run[d] \in Runs(BOOLEAN)
    /\ \A s \in Sign : /\ run[s] \in Runs(BOOLEAN)
                        /\ sign[s] \in [cnt : 0 .. Cap, verdict : BOOLEAN]
    /\ run["lamp"] \in Runs(Lamp \cup {"none"}) /\ run["hint"] \in Runs(Hint \cup {"none"})
    /\ run["light"] \in Runs(Colour) /\ run["front"] \in Runs(Reading)
BY Streams DEF DetectTypeOK, Gate, Runs

LEMMA ScanStep ==
  ASSUME IInv, NEW d \in TwoSided, NEW seen \in BOOLEAN, Scan(d, seen)
  PROVE  IInv' /\ Earned
<1>1. /\ two' = [two EXCEPT ![d] = Counted(two[d], d, seen)]
      /\ run' = [run EXCEPT ![d] = Ran(run[d], seen)]
      /\ heard' = Told(heard, d)
      /\ UNCHANGED <<group, sign, lamp, hint, light, front, votes, sighted>>
  BY DEF Scan
<1>2. DetectTypeOK /\ Counters /\ TopicsCurrent
  BY DEF IInv
<1>3. /\ two'[d] = Counted(two[d], d, seen) /\ run'[d] = Ran(run[d], seen)
      /\ \A e \in TwoSided \ {d} : two'[e] = two[e]
      /\ \A g \in Stream \ {d} : run'[g] = run[g]
  BY <1>1, <1>2, Streams DEF DetectTypeOK
<1>4. /\ two'[d] \in Gate /\ two'[d].hits <= On[d] /\ two'[d].misses <= Off[d]
      /\ GateInv(two'[d], run'[d], d)
      /\ ~(two'[d].verdict <=> two[d].verdict) =>
           /\ run'[d].saw <=> two'[d].verdict
           /\ run'[d].frames >= IF two'[d].verdict THEN On[d] ELSE Off[d]
  BY <1>2, <1>3, Typed, CountedLemma DEF DetectTypeOK, Counters
<1>5. run'[d] \in Runs(BOOLEAN)
  BY <1>2, <1>3, Typed, RanLemma
<1>6. DetectTypeOK'
  <2>1. two' \in [TwoSided -> Gate]
    BY <1>1, <1>2, <1>3, <1>4 DEF DetectTypeOK, Gate
  <2>2. \A e \in TwoSided : two'[e].hits <= On[e] /\ two'[e].misses <= Off[e]
    BY <1>2, <1>3, <1>4 DEF DetectTypeOK
  <2>3. DOMAIN run' = Stream /\ \A g \in Stream : run'[g] \in [saw : Scenes(g), frames : 0 .. Cap]
    BY <1>1, <1>2, <1>3, <1>5, Streams DEF DetectTypeOK, Runs
  <2>4. DOMAIN heard' = Topic
    BY <1>1 DEF Told
  <2>5. \A t \in Topic : heard'[t] \in IF t = "light" THEN Colour ELSE BOOLEAN
    BY <1>1, <1>2, <2>1 DEF Told, DetectTypeOK, TwoSided, Gate
  <2>6. QED
    BY <1>1, <1>2, <2>1, <2>2, <2>3, <2>4, <2>5 DEF DetectTypeOK, Gate
<1>7. Counters'
  BY <1>1, <1>2, <1>3, <1>4, Streams DEF Counters, TwoSided, Sign
<1>8. TopicsCurrent'
  BY <1>1, <1>2, <1>3 DEF TopicsCurrent, Told, Topic, TwoSided, Sign, DetectTypeOK
<1>9. Earned
  BY <1>1, <1>3, <1>4 DEF Earned
<1>10. QED
  BY <1>6, <1>7, <1>8, <1>9 DEF IInv

LEMMA LightStep ==
  ASSUME IInv, NEW c \in Colour, LightFrame(c)
  PROVE  IInv' /\ Earned
<1>1. /\ light' = LightSaw(light, c)
      /\ run' = [run EXCEPT !["light"] = Ran(run["light"], c)]
      /\ heard' = IF light'.count >= Confidence THEN Told(heard, "light") ELSE heard
      /\ UNCHANGED <<group, two, sign, lamp, hint, front, votes, sighted>>
  BY DEF LightFrame
<1>2. DetectTypeOK /\ Counters /\ TopicsCurrent
  BY DEF IInv
<1>3. /\ run'["light"] = Ran(run["light"], c)
      /\ \A g \in Stream \ {"light"} : run'[g] = run[g]
  BY <1>1, <1>2, Streams DEF DetectTypeOK
<1>4. /\ light' \in [seen : Colour, count : 0 .. Confidence, verdict : Colour]
      /\ LightInv(light', run'["light"])
      /\ light'.verdict # light.verdict =>
           run'["light"].saw = light'.verdict /\ run'["light"].frames >= Confidence
  <2>1. /\ light \in [seen : Colour, count : 0 .. Confidence, verdict : Colour]
        /\ run["light"] \in Runs(Colour) /\ LightInv(light, run["light"])
    BY <1>2, Typed DEF DetectTypeOK, Counters
  <2>2. QED
    BY <1>1, <1>3, <2>1, LightLemma
<1>5. run'["light"] \in Runs(Colour)
  BY <1>2, <1>3, Typed, RanLemma
<1>6. light'.verdict # light.verdict => light'.count >= Confidence
  BY <1>1 DEF LightSaw
<1>7. DetectTypeOK'
  <2>1. DOMAIN run' = Stream /\ \A g \in Stream : run'[g] \in [saw : Scenes(g), frames : 0 .. Cap]
    BY <1>1, <1>2, <1>3, <1>5, Streams DEF DetectTypeOK, Runs
  <2>2. DOMAIN heard' = Topic
    BY <1>1, <1>2 DEF Told, DetectTypeOK
  <2>3. \A t \in Topic : heard'[t] \in IF t = "light" THEN Colour ELSE BOOLEAN
    BY <1>1, <1>2, <1>4 DEF Told, DetectTypeOK
  <2>4. QED
    BY <1>1, <1>2, <1>4, <2>1, <2>2, <2>3 DEF DetectTypeOK
<1>8. Counters'
  BY <1>1, <1>2, <1>3, <1>4, Streams DEF Counters, TwoSided, Sign
<1>9. TopicsCurrent'
  BY <1>1, <1>2, <1>6 DEF TopicsCurrent, Told, Topic, Sign, DetectTypeOK
<1>10. Earned
  BY <1>1, <1>4 DEF Earned
<1>11. QED
  BY <1>7, <1>8, <1>9, <1>10 DEF IInv

LEMMA FrontStep ==
  ASSUME IInv, NEW r \in Reading \cup {"corrupt"}, FrontScan(r)
  PROVE  IInv' /\ Earned
<1>1. /\ heard' = Told(heard, "front")
      /\ UNCHANGED <<group, two, sign, lamp, hint, light, votes, sighted>>
  BY DEF FrontScan
<1>2. DetectTypeOK /\ Counters /\ TopicsCurrent
  BY DEF IInv
<1>3. /\ front'.buf \in Seq(Reading) /\ Len(front'.buf) <= Window /\ front'.verdict \in BOOLEAN
      /\ DOMAIN run' = Stream /\ run'["front"] \in Runs(Reading)
      /\ \A g \in Stream \ {"front"} : run'[g] = run[g]
      /\ FrontInv(front', run'["front"])
  <2>1. CASE r = "corrupt"
    BY <1>2, <2>1, Typed DEF FrontScan, DetectTypeOK, Counters
  <2>2. CASE r \in Reading
    <3>1. front' = FrontSaw(front, r) /\ run' = [run EXCEPT !["front"] = Ran(run["front"], r)]
      BY <2>2 DEF FrontScan, Reading
    <3>2. run'["front"] = Ran(run["front"], r) /\ DOMAIN run' = Stream
          /\ \A g \in Stream \ {"front"} : run'[g] = run[g]
      BY <1>2, <3>1, Streams DEF DetectTypeOK
    <3>3. /\ front.buf \in Seq(Reading) /\ Len(front.buf) <= Window
          /\ run["front"] \in Runs(Reading) /\ FrontInv(front, run["front"])
      BY <1>2, Typed DEF DetectTypeOK, Counters
    <3>4. Ran(run["front"], r) \in Runs(Reading)
      BY <2>2, <3>3, RanLemma
    <3>5. QED
      BY <2>2, <3>1, <3>2, <3>3, <3>4, FrontLemma
  <2>3. QED
    BY <2>1, <2>2
<1>4. DetectTypeOK'
  <2>1. \A g \in Stream : run'[g] \in [saw : Scenes(g), frames : 0 .. Cap]
    BY <1>2, <1>3, Streams DEF DetectTypeOK, Runs
  <2>2. DOMAIN heard' = Topic
    BY <1>1 DEF Told
  <2>3. \A t \in Topic : heard'[t] \in IF t = "light" THEN Colour ELSE BOOLEAN
    BY <1>1, <1>2, <1>3 DEF Told, DetectTypeOK
  <2>4. QED
    BY <1>1, <1>2, <1>3, <2>1, <2>2, <2>3 DEF DetectTypeOK
<1>5. Counters'
  BY <1>1, <1>2, <1>3, Streams DEF Counters, TwoSided, Sign
<1>6. TopicsCurrent'
  BY <1>1, <1>2 DEF TopicsCurrent, Told, Topic, Sign, DetectTypeOK
<1>7. Earned
  BY <1>1 DEF Earned
<1>8. QED
  BY <1>4, <1>5, <1>6, <1>7 DEF IInv

LEMMA HeartbeatStep ==
  ASSUME IInv, NEW n \in Detector, Heartbeat(n)
  PROVE  IInv' /\ Earned
<1>1. heard' = Told(heard, n) /\ UNCHANGED <<group, two, sign, lamp, hint, light, front, run, votes, sighted>>
  BY DEF Heartbeat
<1>2. DetectTypeOK /\ Counters /\ TopicsCurrent
  BY DEF IInv
<1>3. DetectTypeOK'
  <2>1. DOMAIN heard' = Topic
    BY <1>1 DEF Told
  <2>2. /\ \A d \in TwoSided : two'[d].verdict \in BOOLEAN
        /\ \A s \in Sign : sign'[s].verdict \in BOOLEAN
        /\ lamp'.verdict \in Colour /\ light'.verdict \in Colour /\ front'.verdict \in BOOLEAN
        /\ \A t \in Topic : heard[t] \in IF t = "light" THEN Colour ELSE BOOLEAN
    BY <1>1, <1>2 DEF DetectTypeOK
  <2>3. ASSUME NEW t \in Topic PROVE heard'[t] \in IF t = "light" THEN Colour ELSE BOOLEAN
    <3>1. CASE t = "light"
      BY <1>1, <2>2, <3>1 DEF Told, Sign
    <3>2. CASE t \in Sign
      BY <1>1, <2>2, <3>2 DEF Told, Sign, TwoSided
    <3>3. CASE t \in {"tunnel", "gate", "front"}
      BY <1>1, <2>2, <3>3 DEF Told, Sign, TwoSided
    <3>4. QED
      BY <3>1, <3>2, <3>3 DEF Topic
  <2>4. QED
    BY <1>1, <1>2, <2>1, <2>3 DEF DetectTypeOK
<1>4. Counters'
  BY <1>1, <1>2 DEF Counters
<1>5. TopicsCurrent'
  BY <1>1, <1>2 DEF TopicsCurrent, Told, Topic, Sign, DetectTypeOK, TwoSided
<1>6. Earned
  BY <1>1 DEF Earned
<1>7. QED
  BY <1>3, <1>4, <1>5, <1>6 DEF IInv

LEMMA FrameStep ==
  ASSUME IInv, NEW signs \in SUBSET Sign, NEW v \in Lamp \cup {"none"},
         NEW h \in Hint \cup {"none"}, Frame(signs, v, h)
  PROVE  IInv' /\ Earned
<1>1. /\ sign' = [s \in Sign |-> Bumped(sign[s], s \in signs)]
      /\ lamp' = LampVoted(lamp, v) /\ hint' = HintSeen(hint, h) /\ votes' = Voted(votes, v)
      /\ heard' = Told(heard, "signage")
      /\ UNCHANGED <<group, two, light, front>>
  BY DEF Frame
<1>2. DetectTypeOK /\ Counters /\ TopicsCurrent
  BY DEF IInv
<1>3. /\ DOMAIN run' = Stream
      /\ \A s \in Sign : run'[s] = Ran(run[s], s \in signs)
      /\ run'["lamp"] = Ran(run["lamp"], v) /\ run'["hint"] = Ran(run["hint"], h)
      /\ \A g \in Stream \ (Sign \cup {"lamp", "hint"}) : run'[g] = run[g]
  <2>1. run' = [s \in Stream |-> CASE s \in Sign -> Ran(run[s], s \in signs)
                                    [] s = "lamp" -> Ran(run[s], v)
                                    [] s = "hint" -> Ran(run[s], h)
                                    [] OTHER -> run[s]]
    BY DEF Frame
  <2>2. "lamp" \notin Sign /\ "hint" \notin Sign
    BY DEF Sign
  <2>3. \A s \in Sign : run'[s] = Ran(run[s], s \in signs)
    BY <2>1, <2>2, Streams
  <2>4. run'["lamp"] = Ran(run["lamp"], v)
    BY <2>1, <2>2, Streams
  <2>5. run'["hint"] = Ran(run["hint"], h)
    BY <2>1, <2>2, Streams
  <2>6. \A g \in Stream \ (Sign \cup {"lamp", "hint"}) : run'[g] = run[g]
    BY <2>1
  <2>7. QED
    BY <2>1, <2>3, <2>4, <2>5, <2>6
<1>4. /\ sighted' = [s \in Sign |-> Seen(sighted[s], s \in signs, run'[s].frames)]
      /\ \A s \in Sign : sighted'[s] = Seen(sighted[s], s \in signs, Ran(run[s], s \in signs).frames)
  <2>1. sighted' = [s \in Sign |-> Seen(sighted[s], s \in signs, run'[s].frames)]
    BY DEF Frame, Seen
  <2>2. QED
    BY <1>3, <2>1
<1>5. ASSUME NEW s \in Sign
      PROVE  /\ sign'[s] \in [cnt : 0 .. Cap, verdict : BOOLEAN]
             /\ sighted'[s] \in 0 .. 2
             /\ run'[s] \in Runs(BOOLEAN)
             /\ SignInv(sign'[s], run'[s], sighted'[s])
             /\ sign'[s].verdict /\ ~sign[s].verdict =>
                  sighted'[s] = 2 /\ (run'[s].saw \/ run[s].saw)
  <2>1. /\ sign[s] \in [cnt : 0 .. Cap, verdict : BOOLEAN] /\ run[s] \in Runs(BOOLEAN)
        /\ sighted[s] \in 0 .. 2 /\ SignInv(sign[s], run[s], sighted[s])
    BY <1>2, Typed DEF DetectTypeOK, Counters
  <2> DEFINE seen == s \in signs
  <2>2. seen \in BOOLEAN
    OBVIOUS
  <2>3. /\ sign'[s] = Bumped(sign[s], seen) /\ run'[s] = Ran(run[s], seen)
        /\ sighted'[s] = Seen(sighted[s], seen, Ran(run[s], seen).frames)
    BY <1>1, <1>3, <1>4
  <2> HIDE DEF seen
  <2>4. run'[s] \in Runs(BOOLEAN)
    BY <2>1, <2>2, <2>3, RanLemma
  <2>5. QED
    BY <2>1, <2>2, <2>3, <2>4, BumpedLemma
<1>6. /\ lamp' \in [red : 0 .. Cap, green : 0 .. Cap, verdict : Colour]
      /\ votes' \in [Lamp -> 0 .. Votes]
      /\ run'["lamp"] \in Runs(Lamp \cup {"none"})
      /\ LampInv(lamp', run'["lamp"], votes')
      /\ lamp'.verdict # lamp.verdict =>
           lamp'.verdict = "unknown" \/ votes'[lamp'.verdict] >= Votes
  <2>1. /\ lamp \in [red : 0 .. Cap, green : 0 .. Cap, verdict : Colour]
        /\ run["lamp"] \in Runs(Lamp \cup {"none"}) /\ votes \in [Lamp -> 0 .. Votes]
        /\ LampInv(lamp, run["lamp"], votes)
    BY <1>2, Typed DEF DetectTypeOK, Counters
  <2>2. Ran(run["lamp"], v) \in Runs(Lamp \cup {"none"})
    BY <2>1, RanLemma
  <2>3. /\ LampVoted(lamp, v) \in [red : 0 .. Cap, green : 0 .. Cap, verdict : Colour]
        /\ Voted(votes, v) \in [Lamp -> 0 .. Votes]
        /\ LampInv(LampVoted(lamp, v), Ran(run["lamp"], v), Voted(votes, v))
        /\ LampVoted(lamp, v).verdict # lamp.verdict =>
             \/ LampVoted(lamp, v).verdict = "unknown"
             \/ Voted(votes, v)[LampVoted(lamp, v).verdict] >= Votes
    BY <2>1, LampLemma
  <2>4. QED
    BY <1>1, <1>3, <2>2, <2>3
<1>7. /\ hint' \in [tunnel : 0 .. Cap, end : 0 .. Cap, verdict : BOOLEAN]
      /\ run'["hint"] \in Runs(Hint \cup {"none"})
      /\ HintInv(hint', run'["hint"])
  <2>1. /\ hint \in [tunnel : 0 .. Cap, end : 0 .. Cap, verdict : BOOLEAN]
        /\ run["hint"] \in Runs(Hint \cup {"none"}) /\ HintInv(hint, run["hint"])
    BY <1>2, Typed DEF DetectTypeOK, Counters
  <2>2. Ran(run["hint"], h) \in Runs(Hint \cup {"none"})
    BY <2>1, RanLemma
  <2>3. /\ HintSeen(hint, h) \in [tunnel : 0 .. Cap, end : 0 .. Cap, verdict : BOOLEAN]
        /\ HintInv(HintSeen(hint, h), Ran(run["hint"], h))
    BY <2>1, HintLemma
  <2>4. QED
    BY <1>1, <1>3, <2>2, <2>3
<1>8. DetectTypeOK'
  <2>1. sign' \in [Sign -> [cnt : 0 .. Cap, verdict : BOOLEAN]] /\ sighted' \in [Sign -> 0 .. 2]
    BY <1>1, <1>4, <1>5
  <2>2. \A g \in Stream : run'[g] \in [saw : Scenes(g), frames : 0 .. Cap]
    <3>1. \A g \in Sign \cup {"lamp", "hint"} : run'[g] \in [saw : Scenes(g), frames : 0 .. Cap]
      BY <1>5, <1>6, <1>7, Streams DEF Runs
    <3>2. \A g \in Stream \ (Sign \cup {"lamp", "hint"}) :
            run'[g] \in [saw : Scenes(g), frames : 0 .. Cap]
      BY <1>2, <1>3 DEF DetectTypeOK
    <3>3. QED
      BY <3>1, <3>2
  <2>3. DOMAIN heard' = Topic
    BY <1>1 DEF Told
  <2>4. /\ \A s \in Sign : sign'[s].verdict \in BOOLEAN
        /\ lamp'.verdict \in Colour
        /\ \A t \in Topic : heard[t] \in IF t = "light" THEN Colour ELSE BOOLEAN
    BY <1>2, <1>5, <1>6 DEF DetectTypeOK
  <2>5. \A t \in Topic : heard'[t] \in IF t = "light" THEN Colour ELSE BOOLEAN
    BY <1>1, <2>4 DEF Told, Sign
  <2>6. QED
    BY <1>1, <1>2, <1>3, <1>6, <1>7, <2>1, <2>2, <2>3, <2>5 DEF DetectTypeOK
<1>9. Counters'
  <2>1. \A d \in TwoSided : GateInv(two'[d], run'[d], d)
    BY <1>1, <1>2, <1>3, Streams DEF Counters, TwoSided, Sign
  <2>2. LightInv(light', run'["light"]) /\ FrontInv(front', run'["front"])
    BY <1>1, <1>2, <1>3, Streams DEF Counters, Sign
  <2>3. QED
    BY <1>5, <1>6, <1>7, <2>1, <2>2 DEF Counters
<1>10. TopicsCurrent'
  BY <1>1, <1>2 DEF TopicsCurrent, Told, Topic, Sign, DetectTypeOK
<1>11. Earned
  BY <1>1, <1>5, <1>6 DEF Earned
<1>12. QED
  BY <1>8, <1>9, <1>10, <1>11 DEF IInv

LEMMA StepInv == IInv /\ [DetectNext]_detectVars => IInv' /\ (Earned \/ UNCHANGED detectVars)
<1> SUFFICES ASSUME IInv, [DetectNext]_detectVars PROVE IInv' /\ (Earned \/ UNCHANGED detectVars)
  OBVIOUS
<1>1. CASE \E d \in TwoSided, seen \in BOOLEAN : Scan(d, seen)
  BY <1>1, ScanStep
<1>2. CASE \E signs \in SUBSET group.signs, v \in group.lamps \cup {"none"},
               h \in group.hints \cup {"none"} : Frame(signs, v, h)
  <2>1. group.signs \subseteq Sign /\ group.lamps \subseteq Lamp /\ group.hints \subseteq Hint
    BY DetectorsAssumption DEF IInv, DetectTypeOK
  <2>2. PICK signs \in SUBSET group.signs, v \in group.lamps \cup {"none"},
             h \in group.hints \cup {"none"} : Frame(signs, v, h)
    BY <1>2
  <2>3. signs \in SUBSET Sign /\ v \in Lamp \cup {"none"} /\ h \in Hint \cup {"none"}
    BY <2>1
  <2>4. QED
    BY <2>2, <2>3, FrameStep
<1>3. CASE \E c \in Colour : LightFrame(c)
  BY <1>3, LightStep
<1>4. CASE \E r \in Reading \cup {"corrupt"} : FrontScan(r)
  BY <1>4, FrontStep
<1>5. CASE \E n \in Detector : Heartbeat(n)
  BY <1>5, HeartbeatStep
<1>6. CASE UNCHANGED detectVars
  BY <1>6 DEF detectVars, IInv, DetectTypeOK, Counters, TopicsCurrent
<1>7. QED
  BY <1>1, <1>2, <1>3, <1>4, <1>5, <1>6 DEF DetectNext

LEMMA SpecInv == DetectSpec => []IInv
<1>1. IInv /\ [DetectNext]_detectVars => IInv'
  BY StepInv
<1>2. QED
  BY InitInv, <1>1, PTL DEF DetectSpec

LEMMA CountersSteady == DetectTypeOK /\ Counters => SteadyCounters
<1> SUFFICES ASSUME DetectTypeOK, Counters PROVE SteadyCounters
  OBVIOUS
<1>1. /\ Cap \in Nat /\ Votes \in 2 .. Cap /\ Confidence \in 1 .. Cap
      /\ \A d \in TwoSided : On[d] \in 1 .. Cap /\ Off[d] \in 1 .. Cap
  BY DetectorsAssumption
<1>2. ASSUME NEW d \in TwoSided, run[d].frames >= (IF run[d].saw THEN On[d] ELSE Off[d])
      PROVE  two[d].verdict <=> run[d].saw
  <2>1. two[d] \in Gate /\ run[d] \in Runs(BOOLEAN) /\ GateInv(two[d], run[d], d)
    BY Typed DEF Counters
  <2>2. /\ run[d].saw \in BOOLEAN /\ run[d].frames \in 0 .. Cap
        /\ two[d].hits \in Nat /\ two[d].misses \in Nat
    BY <2>1 DEF Gate, Runs
  <2>3. CASE run[d].saw
    BY <1>1, <1>2, <2>1, <2>2, <2>3 DEF GateInv, AtMost
  <2>4. CASE ~run[d].saw
    BY <1>1, <1>2, <2>1, <2>2, <2>4 DEF GateInv, AtMost
  <2>5. QED
    BY <2>3, <2>4
<1>3. ASSUME NEW s \in Sign, run[s].frames >= (IF run[s].saw THEN Votes ELSE Cap)
      PROVE  sign[s].verdict <=> run[s].saw
  <2>1. /\ sign[s] \in [cnt : 0 .. Cap, verdict : BOOLEAN] /\ run[s] \in Runs(BOOLEAN)
        /\ SignInv(sign[s], run[s], sighted[s])
    BY Typed DEF Counters
  <2>2. /\ run[s].saw \in BOOLEAN /\ run[s].frames \in 0 .. Cap
        /\ sign[s].cnt \in 0 .. Cap /\ sign[s].verdict \in BOOLEAN
    BY <2>1 DEF Runs
  <2>3. CASE run[s].saw
    BY <1>1, <1>3, <2>1, <2>2, <2>3 DEF SignInv
  <2>4. CASE ~run[s].saw
    BY <1>1, <1>3, <2>1, <2>2, <2>4 DEF SignInv
  <2>5. QED
    BY <2>3, <2>4
<1>4. /\ run["lamp"].saw \in Lamp /\ run["lamp"].frames >= Votes => lamp.verdict = run["lamp"].saw
      /\ run["lamp"].saw = "none" /\ run["lamp"].frames >= Cap => lamp.verdict = "unknown"
  <2>1. /\ LampInv(lamp, run["lamp"], votes) /\ run["lamp"].frames \in 0 .. Cap
        /\ lamp.red \in 0 .. Cap /\ lamp.green \in 0 .. Cap
    BY Typed DEF Counters, DetectTypeOK, Runs
  <2>2. run["lamp"].saw = "red" /\ run["lamp"].frames >= Votes => lamp.verdict = "red"
    BY <1>1, <2>1 DEF LampInv
  <2>3. run["lamp"].saw = "green" /\ run["lamp"].frames >= Votes => lamp.verdict = "green"
    BY <1>1, <2>1 DEF LampInv
  <2>4. run["lamp"].saw = "none" /\ run["lamp"].frames >= Cap => lamp.verdict = "unknown"
    BY <1>1, <2>1 DEF LampInv
  <2>5. QED
    BY <2>2, <2>3, <2>4 DEF Lamp
<1>5. run["hint"].saw \in Hint /\ run["hint"].frames >= Votes
        => (hint.verdict <=> run["hint"].saw = "tunnel")
  BY <1>1, Typed DEF Counters, HintInv, DetectTypeOK, Hint, Runs
<1>6. run["light"].frames >= Confidence => light.verdict = run["light"].saw
  BY <1>1, Typed DEF Counters, LightInv, AtMost, DetectTypeOK, Runs
<1>7. QED
  BY <1>2, <1>3, <1>4, <1>5, <1>6 DEF SteadyCounters

LEMMA MedianSteady == DetectTypeOK /\ Counters => SteadyFront
<1> SUFFICES ASSUME DetectTypeOK, Counters,
                    run["front"].frames >= IF run["front"].saw = "none" THEN Window
                                           ELSE Window \div 2 + 1
             PROVE  front.verdict <=> run["front"].saw = "near"
  BY DEF SteadyFront
<1> DEFINE k == run["front"].saw  m == AtMost(run["front"].frames, Window)
           near == Shown(front.buf, "near")  far == Shown(front.buf, "far")
<1>1. Window \in Nat \ {0} /\ Window <= Cap /\ Cap \in Nat
  BY DetectorsAssumption
<1>2. /\ run["front"].frames \in 0 .. Cap /\ k \in Reading
      /\ front.buf \in Seq(Reading) /\ Len(front.buf) <= Window
      /\ FrontInv(front, run["front"])
  BY Typed DEF DetectTypeOK, Counters, Runs
<1>3. /\ m \in Nat /\ m <= Len(front.buf) /\ m <= Window
      /\ m >= IF k = "none" THEN Window ELSE Window \div 2 + 1
      /\ \A i \in 1 .. Len(front.buf) : i > Len(front.buf) - m => front.buf[i] = k
  <2>1. m \in Nat /\ m <= Window /\ m <= run["front"].frames
    BY <1>1, <1>2 DEF AtMost
  <2>2. m <= Len(front.buf)
    BY <1>2 DEF FrontInv
  <2>3. m >= IF k = "none" THEN Window ELSE Window \div 2 + 1
    BY <1>1, <1>2 DEF AtMost
  <2>4. ASSUME NEW i \in 1 .. Len(front.buf), i > Len(front.buf) - m PROVE front.buf[i] = k
    <3>1. i > Len(front.buf) - run["front"].frames
      BY <1>2, <2>1, <2>4
    <3>2. QED
      BY <1>2, <3>1 DEF FrontInv
  <2>5. QED
    BY <2>1, <2>2, <2>3, <2>4
<1>4. /\ \A j \in Reading : Shown(front.buf, j) \in Nat
      /\ Shown(front.buf, k) >= m
      /\ \A j \in Reading \ {k} : Shown(front.buf, k) + Shown(front.buf, j) <= Len(front.buf)
  <2> HIDE DEF m, k
  <2>1. QED
    BY <1>2, <1>3, ShownLemma
<1>5. near \in Nat /\ far \in Nat /\ (front.verdict <=> near > (near + far) \div 2)
  BY <1>2, <1>4 DEF FrontInv, Reading
<1>6. Len(front.buf) \in Nat /\ Len(front.buf) <= Window
  BY <1>2
<1>7. CASE k = "near"
  <2>1. near >= Window \div 2 + 1 /\ near + far <= Window
    BY <1>1, <1>3, <1>4, <1>6, <1>7 DEF Reading
  <2> HIDE DEF near, far
  <2>2. near > (near + far) \div 2
    BY <1>1, <1>5, <2>1
  <2>3. QED
    BY <1>5, <1>7, <2>2
<1>8. CASE k = "far"
  <2>1. far >= Window \div 2 + 1 /\ near + far <= Window
    BY <1>1, <1>3, <1>4, <1>6, <1>8 DEF Reading
  <2> HIDE DEF near, far
  <2>2. ~(near > (near + far) \div 2)
    BY <1>1, <1>5, <2>1
  <2>3. QED
    BY <1>5, <1>8, <2>2
<1>9. CASE k = "none"
  <2>1. near = 0
    BY <1>1, <1>3, <1>4, <1>5, <1>6, <1>9 DEF Reading
  <2> HIDE DEF near, far
  <2>2. ~(near > (near + far) \div 2)
    BY <1>5, <2>1
  <2>3. QED
    BY <1>5, <1>9, <2>2
<1>10. QED
  BY <1>2, <1>7, <1>8, <1>9 DEF Reading

-----------------------------------------------------------------------------
(* The results.                                                            *)

\* The counters, verdicts and topics of the nodes keep their types and bounds.
THEOREM TypeCorrect == DetectSpec => []DetectTypeOK
<1>1. IInv => DetectTypeOK
  BY DEF IInv
<1>2. QED
  BY SpecInv, <1>1, PTL

\* Whatever hysteresis the nodes are given, what auto_driver last heard on a
\* topic is the present verdict of one of its writers.
THEOREM TopicsTheorem == DetectSpec => []TopicsCurrent
<1>1. IInv => TopicsCurrent
  BY DEF IInv
<1>2. QED
  BY SpecInv, <1>1, PTL

\* Whatever hysteresis and window the nodes are given, a gate that saw the same
\* scene for as many frames as its counter or window asks for reports that scene,
\* from any state it can be in.
THEOREM SteadyTheorem == DetectSpec => []SteadySceneReported
<1>1. IInv => SteadySceneReported
  BY CountersSteady, MedianSteady DEF IInv, SteadySceneReported
<1>2. QED
  BY SpecInv, <1>1, PTL

\* Whatever hysteresis the nodes are given, no verdict changes without the frames
\* or the votes that it stands for.
THEOREM EarnedTheorem == DetectSpec => VerdictEarned
<1>1. IInv /\ [DetectNext]_detectVars => [Earned]_detectVars
  BY StepInv
<1>2. QED
  BY SpecInv, <1>1, PTL DEF DetectSpec, VerdictEarned, Earned
=============================================================================
