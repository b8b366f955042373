--------------------------- MODULE NetplayProofs ---------------------------
(***************************************************************************)
(* What is true of Netplay for every set of players, every prediction      *)
(* window and input delay, and whatever packets are lost, repeated,        *)
(* reordered or left over from an earlier match.                           *)
(*                                                                         *)
(* The argument in one paragraph.  A queue holds a prefix of what its      *)
(* player pressed.  As long as no guess of it was wrong, every frame was   *)
(* simulated with the input filed for it or, past the last one filed, with *)
(* the latest input, which is what the queue still guesses; when a guess   *)
(* was wrong this holds up to that frame (Tracks).  A saved state is the   *)
(* history up to its frame, and the ring holds the last CellCount frames   *)
(* (Ring), so going back to the first wrong frame gives a history with     *)
(* nothing wrong in it, and simulating forward again keeps that.           *)
(***************************************************************************)
EXTENDS Netplay, SequenceTheorems, NaturalsInduction, WellFoundedInduction, TLAPS

Frame == Nat \cup {NullFrame}

Queue == [inputs : Seq(Int), predicting : Frame, guess : Int, first_bad : Frame,
          last_requested : Frame]

History == Seq([Players -> Int])

Engine == [cur : Nat, state : History, head : Slots,
           cells : [Slots -> [frame : Frame, state : History]],
           queues : [Players -> Queue]]

Peer == [state : {"syncing", "running", "gone"}, latched : BOOLEAN, left : Int, acked : Frame]

-----------------------------------------------------------------------------
(* One queue, of player x, against a history st of cur frames *)

\* A guess stands on the next frame to be filed and repeats the latest input;
\* the frames simulated are right up to the first wrong guess.
Tracks(q, st, x, cur) ==
  /\ q.predicting # NullFrame => q.predicting = Len(q.inputs)
  /\ q.first_bad # NullFrame =>
       q.predicting # NullFrame /\ q.first_bad < Len(q.inputs) /\ q.first_bad < cur
  /\ q.first_bad = NullFrame /\ q.predicting # NullFrame =>
       q.guess = Latest(q) /\ q.predicting < cur
  /\ \A f \in 0..(cur - 1) :
       q.first_bad = NullFrame \/ f < q.first_bad =>
         st[f + 1][x] = IF f < Len(q.inputs) THEN q.inputs[f + 1] ELSE Latest(q)

\* Not in the middle of a rollback: the last frame was asked for, and a frame
\* past the last input is guessed.
Settled(q, cur) ==
  /\ q.last_requested = cur - 1
  /\ q.predicting = NullFrame => cur <= Len(q.inputs)

-----------------------------------------------------------------------------
(* One engine, whose next frame never simulated yet is M *)

\* How many frames before M the cell i was written.
Age(i, head) == IF i < head THEN head - i ELSE head - i + CellCount

Ring(e, M) ==
  \A i \in Slots :
    e.cells[i].frame = IF Age(i, e.head) <= M THEN M - Age(i, e.head) ELSE NullFrame

\* A saved state below cur is the history up to its frame.
CellsTrue(e) ==
  \A i \in Slots :
    LET c == e.cells[i] IN
    c.frame # NullFrame =>
      /\ Len(c.state) = c.frame
      /\ c.frame < e.cur => \A k \in 1..c.frame : c.state[k] = e.state[k]

EngineInv(e, M) ==
  /\ e \in Engine
  /\ Len(e.state) = e.cur
  /\ Ring(e, M)
  /\ CellsTrue(e)
  /\ \A x \in Players : Tracks(e.queues[x], e.state, x, e.cur)

-----------------------------------------------------------------------------
(* The match *)

\* What x pressed, as far as it has played.
Truth(x) == engine[x].queues[x].inputs

PrefixOf(s, t) == Len(s) <= Len(t) /\ \A k \in 1..Len(s) : s[k] = t[k]

TypeOK ==
  /\ engine \in [Players -> Engine]
  /\ DOMAIN peers = Players /\ \A p \in Players : peers[p] \in [Others(p) -> Peer]
  /\ running \in [Players -> BOOLEAN]
  /\ confirmed \in [Players -> Frame]
  /\ DOMAIN sums = Players

EnginesInv ==
  \A p \in Players :
    /\ EngineInv(engine[p], engine[p].cur)
    /\ \A x \in Players : Settled(engine[p].queues[x], engine[p].cur)

\* A player knows its own inputs: it never guesses them, and the frames its
\* delay skips are filled with the default.
OwnInv ==
  \A p \in Players :
    LET q == engine[p].queues[p] IN
    /\ q.predicting = NullFrame /\ q.first_bad = NullFrame
    /\ engine[p].cur = 0 => q.inputs = <<>>
    /\ engine[p].cur > 0 => /\ Len(q.inputs) = engine[p].cur + InputDelay[p]
                            /\ \A k \in 1..InputDelay[p] : q.inputs[k] = Default

QueuesInv == \A p, x \in Players : PrefixOf(engine[p].queues[x].inputs, Truth(x))

\* A packet of inputs repeats what its sender pressed and leaves no hole; an
\* ack names a frame that came in.
InputSent(m) ==
  /\ m.body.start \in Nat /\ m.body.inputs \in Seq(Int)
  /\ m.body.start >= InputDelay[m.from]
  /\ m.body.start = InputDelay[m.from] \/ m.body.start <= Len(engine[m.to].queues[m.from].inputs)
  /\ m.body.start + Len(m.body.inputs) <= Len(Truth(m.from))
  /\ \A k \in 1..Len(m.body.inputs) : m.body.inputs[k] = Truth(m.from)[m.body.start + k]

AckSent(m) ==
  m.body.frame \in Frame /\ m.body.frame <= LastReceived(m.from, m.to)

PacketInv(m) ==
  /\ m.from \in Players /\ m.to \in Players /\ m.from # m.to
  /\ m.magic = "now" /\ m.body.kind = "input" => InputSent(m)
  /\ m.magic = "now" /\ m.body.kind = "ack" => AckSent(m)

NetInv == \A m \in net : PacketInv(m)

\* While nobody was given up on, p runs at most MaxPrediction frames ahead of
\* what it has of the others.
AheadInv ==
  \A p \in Players : Live(p) =>
    /\ \A q \in Others(p) : /\ confirmed[p] <= LastReceived(p, q)
                            /\ engine[p].cur <= Len(engine[p].queues[q].inputs) + MaxPrediction
    /\ \A q \in Players :
         LET bad == engine[p].queues[q].first_bad
         IN  bad # NullFrame => engine[p].cur <= bad + MaxPrediction

\* A checksum is published of a state simulated with what everybody pressed.
SumsInv ==
  \A p \in Players : Live(p) => \A s \in sums[p] :
    /\ s.frame \in Nat /\ s.state \in History /\ Len(s.state) = s.frame
    /\ \A x \in Players : /\ s.frame <= Len(Truth(x))
                          /\ \A k \in 1..s.frame : s.state[k][x] = Truth(x)[k]

IInv ==
  /\ TypeOK /\ EnginesInv /\ OwnInv /\ QueuesInv /\ NetInv /\ AckedInputsArrived
  /\ AheadInv /\ SumsInv

-----------------------------------------------------------------------------
(* Counting *)

\* Numbers are well-founded.
LEMMA LeastNat ==
  ASSUME NEW S \in SUBSET Nat, S # {}
  PROVE  \E x \in S : \A y \in S : x <= y
<1> DEFINE R == OpToRel(<, Nat)
<1>1. IsWellFoundedOn(R, Nat) BY NatLessThanWellFounded, Zenon
<1>2. \A x, y \in Nat : x < y => <<x, y>> \in R BY Zenon DEF OpToRel
<1> HIDE DEF R
<1>3. PICK x \in S : \A y \in S : ~ (<<y, x>> \in R) BY <1>1, WFMin, Zenon
<1>4. \A y \in S : ~ (y < x) BY <1>2, <1>3
<1> QED BY <1>4

\* A least frame, which may be NullFrame.
LEMMA LeastFrame ==
  ASSUME NEW S \in SUBSET Frame, S # {}
  PROVE  \E x \in S : \A y \in S : x <= y
<1>1. CASE NullFrame \in S
  <2>1. \A y \in S : NullFrame <= y BY DEF Frame, NullFrame
  <2> QED BY <1>1, <2>1
<1>2. CASE NullFrame \notin S
  <2>1. S \in SUBSET Nat BY <1>2 DEF Frame
  <2> QED BY <2>1, LeastNat
<1> QED BY <1>1, <1>2

\* Induction over a set of numbers.
LEMMA Climb ==
  ASSUME NEW S \in SUBSET Nat, 0 \in S, \A n \in S : n + 1 \in S
  PROVE  \A n \in Nat : n \in S
<1> SUFFICES ASSUME NEW m \in Nat, m \notin S PROVE FALSE OBVIOUS
<1> DEFINE T == {n \in Nat : n \notin S}
<1>1. T \in SUBSET Nat /\ T # {} OBVIOUS
<1>2. PICK x \in T : \A y \in T : x <= y BY <1>1, LeastNat
<1>3. x # 0 OBVIOUS
<1>4. x - 1 \in Nat /\ x - 1 \notin T BY <1>2, <1>3
<1>5. x - 1 \in S BY <1>4
<1>6. (x - 1) + 1 \in S BY <1>5
<1> QED BY <1>6

-----------------------------------------------------------------------------
(* The loops, step by step *)

\* The loop of Fill, one File a round.
LEMMA FillSteps ==
  ASSUME NEW q, NEW input, NEW gap \in Nat
  PROVE  \E F : /\ F[0] = q
                /\ \A k \in 1..gap : F[k] = File(F[k - 1], input)
                /\ Fill(q, input, gap) = F[gap]
<1> DEFINE Fits(F, n) == F = [k \in 0..n |-> IF k = 0 THEN q ELSE File(F[k - 1], input)]
           S == {n \in Nat : \E F : Fits(F, n)}
<1>1. 0 \in S
  <2> DEFINE F == [k \in 0..0 |-> q]
  <2>1. Fits(F, 0) OBVIOUS
  <2> QED BY <2>1
<1>2. ASSUME NEW n \in S PROVE n + 1 \in S
  <2>1. PICK F : Fits(F, n) OBVIOUS
  <2> DEFINE G == [k \in 0..(n + 1) |-> IF k = n + 1 THEN File(F[n], input) ELSE F[k]]
  <2>2. \A k \in 0..n : G[k] = F[k] OBVIOUS
  <2>3. ASSUME NEW k \in 0..(n + 1)
        PROVE  G[k] = IF k = 0 THEN q ELSE File(G[k - 1], input)
    <3>1. CASE k = n + 1
      <4>1. G[k] = File(F[n], input) BY <3>1
      <4>2. G[k - 1] = F[n] BY <3>1, <2>2
      <4> QED BY <4>1, <4>2, <3>1
    <3>2. CASE k # n + 1
      <4>1. k \in 0..n BY <3>2
      <4>2. F[k] = IF k = 0 THEN q ELSE File(F[k - 1], input) BY <2>1, <4>1
      <4>3. k # 0 => k - 1 \in 0..n BY <4>1
      <4> QED BY <4>1, <4>2, <4>3, <2>2
    <3> QED BY <3>1, <3>2
  <2>4. Fits(G, n + 1) BY <2>3
  <2> HIDE DEF G
  <2> QED BY <2>4
<1>3. S \in SUBSET Nat OBVIOUS
<1> HIDE DEF S
<1>4. gap \in S BY <1>1, <1>2, <1>3, Climb
<1> DEFINE Filled == CHOOSE F : Fits(F, gap)
<1>5. Fits(Filled, gap) BY <1>4 DEF S
<1>6. Fill(q, input, gap) = Filled[gap] BY DEF Fill
<1> HIDE DEF Filled
<1>7. Filled[0] = q /\ \A k \in 1..gap : Filled[k] = File(Filled[k - 1], input) BY <1>5
<1> QED BY <1>6, <1>7

Feeds(F, q, from, new) ==
  /\ F[0] = q
  /\ \A k \in 1..Len(new) : F[k] = AddInput(F[k - 1], from + k - 1, 0, new[k])
  /\ Feed(q, from, new) = F[Len(new)]

\* The loop of Feed, one AddInput a round.
LEMMA FeedSteps ==
  ASSUME NEW q, NEW from, NEW new, Len(new) \in Nat
  PROVE  \E F : Feeds(F, q, from, new)
<1> DEFINE Fits(F, n) ==
             F = [k \in 0..n |-> IF k = 0 THEN q ELSE AddInput(F[k - 1], from + k - 1, 0, new[k])]
           S == {n \in Nat : \E F : Fits(F, n)}
<1>1. 0 \in S
  <2> DEFINE F == [k \in 0..0 |-> q]
  <2>1. Fits(F, 0) OBVIOUS
  <2> QED BY <2>1
<1>2. ASSUME NEW n \in S PROVE n + 1 \in S
  <2>1. PICK F : Fits(F, n) OBVIOUS
  <2> DEFINE G == [k \in 0..(n + 1) |-> IF k = n + 1 THEN AddInput(F[n], from + k - 1, 0, new[k])
                                        ELSE F[k]]
  <2>2. \A k \in 0..n : G[k] = F[k] OBVIOUS
  <2>3. ASSUME NEW k \in 0..(n + 1)
        PROVE  G[k] = IF k = 0 THEN q ELSE AddInput(G[k - 1], from + k - 1, 0, new[k])
    <3>1. CASE k = n + 1
      <4>1. G[k] = AddInput(F[n], from + k - 1, 0, new[k]) BY <3>1
      <4>2. G[k - 1] = F[n] BY <3>1, <2>2
      <4> QED BY <4>1, <4>2, <3>1
    <3>2. CASE k # n + 1
      <4>1. k \in 0..n BY <3>2
      <4>2. F[k] = IF k = 0 THEN q ELSE AddInput(F[k - 1], from + k - 1, 0, new[k])
        BY <2>1, <4>1
      <4>3. k # 0 => k - 1 \in 0..n BY <4>1
      <4> QED BY <4>1, <4>2, <4>3, <2>2
    <3> QED BY <3>1, <3>2
  <2>4. Fits(G, n + 1) BY <2>3
  <2>5. n + 1 \in Nat OBVIOUS
  <2> HIDE DEF G
  <2>6. \E H : Fits(H, n + 1) BY <2>4, Zenon
  <2> QED BY <2>5, <2>6, Zenon
<1>3. S \in SUBSET Nat OBVIOUS
<1> HIDE DEF S
<1>4. Len(new) \in S BY <1>1, <1>2, <1>3, Climb
<1> DEFINE Fed == CHOOSE F : Fits(F, Len(new))
<1>5. Fits(Fed, Len(new)) BY <1>4 DEF S
<1>6. Feed(q, from, new) = Fed[Len(new)] BY DEF Feed
<1> HIDE DEF Fed
<1>7. /\ Fed[0] = q
      /\ \A k \in 1..Len(new) : Fed[k] = AddInput(Fed[k - 1], from + k - 1, 0, new[k])
  BY <1>5
<1>8. Feeds(Fed, q, from, new) BY <1>6, <1>7 DEF Feeds
<1> QED BY <1>8, Zenon

\* The loop of Simulated, one frame a round.
LEMMA SimulatedSteps ==
  ASSUME NEW e, NEW m \in Nat
  PROVE  \E F : /\ F[0] = e
                /\ \A k \in 1..m : F[k] = Simulate(F[k - 1])
                /\ Simulated(e, m) = F[m]
<1> DEFINE Fits(F, n) == F = [k \in 0..n |-> IF k = 0 THEN e ELSE Simulate(F[k - 1])]
           S == {n \in Nat : \E F : Fits(F, n)}
<1>1. 0 \in S
  <2> DEFINE F == [k \in 0..0 |-> e]
  <2>1. Fits(F, 0) OBVIOUS
  <2> QED BY <2>1
<1>2. ASSUME NEW n \in S PROVE n + 1 \in S
  <2>1. PICK F : Fits(F, n) OBVIOUS
  <2> DEFINE G == [k \in 0..(n + 1) |-> IF k = n + 1 THEN Simulate(F[n]) ELSE F[k]]
  <2>2. \A k \in 0..n : G[k] = F[k] OBVIOUS
  <2>3. ASSUME NEW k \in 0..(n + 1) PROVE G[k] = IF k = 0 THEN e ELSE Simulate(G[k - 1])
    <3>1. CASE k = n + 1
      <4>1. G[k] = Simulate(F[n]) BY <3>1
      <4>2. G[k - 1] = F[n] BY <3>1, <2>2
      <4> QED BY <4>1, <4>2, <3>1
    <3>2. CASE k # n + 1
      <4>1. k \in 0..n BY <3>2
      <4>2. F[k] = IF k = 0 THEN e ELSE Simulate(F[k - 1]) BY <2>1, <4>1
      <4>3. k # 0 => k - 1 \in 0..n BY <4>1
      <4> QED BY <4>1, <4>2, <4>3, <2>2
    <3> QED BY <3>1, <3>2
  <2>4. Fits(G, n + 1) BY <2>3
  <2> HIDE DEF G
  <2> QED BY <2>4
<1>3. S \in SUBSET Nat OBVIOUS
<1> HIDE DEF S
<1>4. m \in S BY <1>1, <1>2, <1>3, Climb
<1> DEFINE After == CHOOSE F : Fits(F, m)
<1>5. Fits(After, m) BY <1>4 DEF S
<1>6. Simulated(e, m) = After[m] BY DEF Simulated
<1> HIDE DEF After
<1>7. After[0] = e /\ \A k \in 1..m : After[k] = Simulate(After[k - 1]) BY <1>5
<1> QED BY <1>6, <1>7

-----------------------------------------------------------------------------
(* Filing inputs *)

\* A queue of a player at rest, between two frames.
AtRest(q, st, x, cur) == q \in Queue /\ Tracks(q, st, x, cur) /\ Settled(q, cur)

\* r is q with inputs added: a guess of q is judged where it stands, and a
\* queue that guesses nothing still does not.
Grows(q, r) ==
  /\ PrefixOf(q.inputs, r.inputs)
  /\ r.first_bad = q.first_bad \/ (q.first_bad = NullFrame /\ r.first_bad >= Len(q.inputs))
  /\ q.predicting = NullFrame =>
       r.predicting = NullFrame /\ r.first_bad = q.first_bad

\* The fields of a queue.
LEMMA QueueIsRecord ==
  ASSUME NEW q \in Queue
  PROVE  /\ q.inputs \in Seq(Int) /\ Len(q.inputs) \in Nat
         /\ q.predicting \in Frame /\ q.guess \in Int /\ q.first_bad \in Frame
         /\ q.last_requested \in Frame /\ Latest(q) \in Int
<1>1. q.inputs \in Seq(Int) /\ q.predicting \in Frame /\ q.guess \in Int
      /\ q.first_bad \in Frame /\ q.last_requested \in Frame
  BY DEF Queue
<1>2. Len(q.inputs) \in Nat BY <1>1
<1>3. Latest(q) \in Int BY <1>1, <1>2 DEF Latest, Default
<1> QED BY <1>1, <1>2, <1>3

\* The fields File leaves.
LEMMA FileFields ==
  ASSUME NEW q \in Queue, NEW v \in Int
  PROVE  /\ File(q, v) \in Queue
         /\ File(q, v).inputs = Append(q.inputs, v)
         /\ File(q, v).first_bad =
              IF q.predicting # NullFrame /\ q.first_bad = NullFrame /\ q.guess # v
                THEN Len(q.inputs) ELSE q.first_bad
         /\ File(q, v).predicting =
              IF \/ q.predicting = NullFrame
                 \/ q.predicting = q.last_requested /\ File(q, v).first_bad = NullFrame
                THEN NullFrame ELSE q.predicting + 1
         /\ File(q, v).guess = q.guess
         /\ File(q, v).last_requested = q.last_requested
<1> DEFINE bad == IF q.predicting # NullFrame /\ q.first_bad = NullFrame /\ q.guess # v
                    THEN Len(q.inputs) ELSE q.first_bad
           pred == IF q.predicting = NullFrame \/ (q.predicting = q.last_requested /\ bad = NullFrame)
                     THEN NullFrame ELSE q.predicting + 1
           ins == Append(q.inputs, v)
<1>1. File(q, v) = [q EXCEPT !.inputs = ins, !.first_bad = bad, !.predicting = pred]
  BY DEF File
<1>2. ins \in Seq(Int) BY QueueIsRecord
<1>3. bad \in Frame BY QueueIsRecord DEF Frame
<1>4. pred \in Frame BY QueueIsRecord DEF Frame, NullFrame
<1>5. q \in [inputs : Seq(Int), predicting : Frame, guess : Int, first_bad : Frame,
             last_requested : Frame] BY DEF Queue
<1> HIDE DEF ins, bad, pred
<1>6. /\ [q EXCEPT !.inputs = ins, !.first_bad = bad, !.predicting = pred] \in Queue
      /\ [q EXCEPT !.inputs = ins, !.first_bad = bad, !.predicting = pred].inputs = ins
      /\ [q EXCEPT !.inputs = ins, !.first_bad = bad, !.predicting = pred].first_bad = bad
      /\ [q EXCEPT !.inputs = ins, !.first_bad = bad, !.predicting = pred].predicting = pred
      /\ [q EXCEPT !.inputs = ins, !.first_bad = bad, !.predicting = pred].guess = q.guess
      /\ [q EXCEPT !.inputs = ins, !.first_bad = bad, !.predicting = pred].last_requested
           = q.last_requested
  BY <1>2, <1>3, <1>4, <1>5 DEF Queue
<1>7. /\ File(q, v) \in Queue /\ File(q, v).inputs = ins /\ File(q, v).first_bad = bad
      /\ File(q, v).predicting = pred /\ File(q, v).guess = q.guess
      /\ File(q, v).last_requested = q.last_requested
  BY <1>1, <1>6
<1>8. pred = IF \/ q.predicting = NullFrame
                \/ q.predicting = q.last_requested /\ File(q, v).first_bad = NullFrame
               THEN NullFrame ELSE q.predicting + 1
  BY <1>7 DEF pred
<1> QED BY <1>7, <1>8 DEF ins, bad

\* What Append adds and keeps.
LEMMA AppendFacts ==
  ASSUME NEW S, NEW s \in Seq(S), NEW v \in S
  PROVE  /\ Append(s, v) \in Seq(S) /\ Len(Append(s, v)) = Len(s) + 1
         /\ \A k \in 1..Len(s) : Append(s, v)[k] = s[k]
         /\ Append(s, v)[Len(s) + 1] = v
OBVIOUS

\* Filing the real input settles the guess on that frame: right, it stands for
\* the next frame or is over; wrong, the frame is remembered.
LEMMA FileTracks ==
  ASSUME NEW q, NEW st, NEW x, NEW cur \in Nat, NEW v \in Int, AtRest(q, st, x, cur)
  PROVE  /\ AtRest(File(q, v), st, x, cur) /\ Grows(q, File(q, v))
         /\ File(q, v).inputs = Append(q.inputs, v)
<1> DEFINE r == File(q, v)
           L == Len(q.inputs)
<1>1. q \in Queue BY DEF AtRest
<1>2. /\ q.inputs \in Seq(Int) /\ L \in Nat
      /\ q.predicting \in Frame /\ q.guess \in Int /\ q.first_bad \in Frame
      /\ q.last_requested \in Frame /\ Latest(q) \in Int
  BY <1>1, QueueIsRecord
<1>3. /\ r \in Queue /\ r.inputs = Append(q.inputs, v)
      /\ r.first_bad = IF q.predicting # NullFrame /\ q.first_bad = NullFrame /\ q.guess # v
                         THEN L ELSE q.first_bad
      /\ r.predicting =
           IF \/ q.predicting = NullFrame
              \/ q.predicting = q.last_requested /\ r.first_bad = NullFrame
             THEN NullFrame ELSE q.predicting + 1
      /\ r.guess = q.guess /\ r.last_requested = q.last_requested
  BY <1>1, FileFields
<1>4. /\ Len(r.inputs) = L + 1 /\ r.inputs[L + 1] = v
      /\ \A k \in 1..L : r.inputs[k] = q.inputs[k]
  BY <1>2, <1>3, AppendFacts
<1>5. Latest(r) = v BY <1>3, <1>4, <1>2 DEF Latest
<1>6. /\ q.predicting # NullFrame => q.predicting = L
      /\ q.first_bad # NullFrame => q.predicting # NullFrame /\ q.first_bad < L /\ q.first_bad < cur
      /\ q.first_bad = NullFrame /\ q.predicting # NullFrame => q.guess = Latest(q) /\ q.predicting < cur
      /\ q.last_requested = cur - 1
      /\ q.predicting = NullFrame => cur <= L
  BY DEF AtRest, Tracks, Settled
<1>7. \A f \in 0..(cur - 1) :
        q.first_bad = NullFrame \/ f < q.first_bad =>
          st[f + 1][x] = IF f < L THEN q.inputs[f + 1] ELSE Latest(q)
  BY DEF AtRest, Tracks
<1>8. r.inputs = Append(q.inputs, v) BY <1>3
<1> HIDE DEF r, L
<1>9. /\ r.predicting # NullFrame => r.predicting = L + 1
      /\ r.first_bad # NullFrame =>
           r.predicting # NullFrame /\ r.first_bad < L + 1 /\ r.first_bad < cur
      /\ r.first_bad = NullFrame /\ r.predicting # NullFrame => r.guess = v /\ r.predicting < cur
      /\ r.last_requested = cur - 1
      /\ r.predicting = NullFrame => cur <= L + 1
  BY <1>2, <1>3, <1>6 DEF Frame, NullFrame
<1>10. ASSUME NEW f \in 0..(cur - 1), r.first_bad = NullFrame \/ f < r.first_bad
      PROVE  st[f + 1][x] = IF f < L + 1 THEN r.inputs[f + 1] ELSE v
  <2>1. f \in Nat /\ f < cur OBVIOUS
  <2>2. f < L => r.inputs[f + 1] = q.inputs[f + 1]
    <3>1. f < L => f + 1 \in 1..L BY <2>1, <1>2
    <3> QED BY <3>1, <1>4
  <2>3. q.first_bad = NullFrame \/ f < q.first_bad
    BY <2>1, <1>2, <1>3, <1>6, <1>10 DEF Frame, NullFrame
  <2>4. st[f + 1][x] = IF f < L THEN q.inputs[f + 1] ELSE Latest(q) BY <1>7, <2>3
  <2>5. ~(f < L) => /\ q.predicting # NullFrame /\ q.first_bad = NullFrame
                    /\ Latest(q) = v
    BY <2>1, <1>2, <1>3, <1>6, <1>10, <2>3 DEF Frame, NullFrame
  <2>6. f = L => r.inputs[f + 1] = v BY <1>4
  <2> QED BY <2>1, <2>2, <2>4, <2>5, <2>6, <1>2
<1>11. Tracks(r, st, x, cur) BY <1>4, <1>5, <1>9, <1>10 DEF Tracks
<1>12. Settled(r, cur) BY <1>9, <1>4 DEF Settled
<1>13. Grows(q, r)
  <2>1. PrefixOf(q.inputs, r.inputs) BY <1>2, <1>4 DEF PrefixOf, L
  <2>2. r.first_bad = q.first_bad \/ (q.first_bad = NullFrame /\ r.first_bad >= Len(q.inputs))
    BY <1>3, <1>2 DEF L
  <2> QED BY <2>1, <2>2, <1>3, <1>6 DEF Grows
<1> QED BY <1>3, <1>11, <1>12, <1>13, <1>8 DEF AtRest, r

\* A queue nothing was added to.
LEMMA GrowsRefl == \A q \in Queue : Grows(q, q)
BY QueueIsRecord DEF Grows, PrefixOf

\* A prefix of a prefix.
LEMMA PrefixTrans ==
  ASSUME NEW S, NEW a \in Seq(S), NEW b \in Seq(S), NEW c \in Seq(S),
         PrefixOf(a, b), PrefixOf(b, c)
  PROVE  PrefixOf(a, c)
BY DEF PrefixOf

\* Inputs added in two rounds.
LEMMA GrowsTrans ==
  ASSUME NEW a \in Queue, NEW b \in Queue, NEW c \in Queue, Grows(a, b), Grows(b, c)
  PROVE  Grows(a, c)
<1>1. PrefixOf(a.inputs, c.inputs) BY QueueIsRecord, PrefixTrans DEF Grows
<1>2. Len(a.inputs) <= Len(b.inputs) BY DEF Grows, PrefixOf
<1>3. /\ Len(a.inputs) \in Nat /\ Len(b.inputs) \in Nat
      /\ a.first_bad \in Frame /\ b.first_bad \in Frame /\ c.first_bad \in Frame
  BY QueueIsRecord
<1> QED BY <1>1, <1>2, <1>3 DEF Grows, Frame, NullFrame

\* r is q with v filed for each frame up to n.
Padded(q, v, n, r, st, x, cur) ==
  /\ AtRest(r, st, x, cur) /\ Grows(q, r) /\ Len(r.inputs) = n
  /\ \A k \in (Len(q.inputs) + 1)..n : r.inputs[k] = v

\* One more input after the padding.
LEMMA FileAgain ==
  ASSUME NEW q, NEW st, NEW x, NEW cur \in Nat, NEW v \in Int, AtRest(q, st, x, cur),
         NEW n \in Nat, n >= Len(q.inputs), NEW r, Padded(q, v, n, r, st, x, cur), NEW w \in Int
  PROVE  /\ AtRest(File(r, w), st, x, cur) /\ Grows(q, File(r, w))
         /\ Len(File(r, w).inputs) = n + 1 /\ File(r, w).inputs[n + 1] = w
         /\ \A k \in (Len(q.inputs) + 1)..n : File(r, w).inputs[k] = v
<1>1. AtRest(r, st, x, cur) BY DEF Padded
<1>2. AtRest(r, st, x, cur) /\ Grows(q, r) /\ Len(r.inputs) = n BY DEF Padded
<1>3. /\ AtRest(File(r, w), st, x, cur) /\ Grows(r, File(r, w))
      /\ File(r, w).inputs = Append(r.inputs, w)
  BY <1>1, FileTracks, Zenon
<1>4. q \in Queue /\ r \in Queue /\ File(r, w) \in Queue BY <1>2, <1>3 DEF AtRest
<1>5. Grows(q, File(r, w)) BY <1>2, <1>3, <1>4, GrowsTrans
<1>6. r.inputs \in Seq(Int) /\ Len(q.inputs) \in Nat BY <1>4, QueueIsRecord
<1>7. /\ Len(Append(r.inputs, w)) = n + 1 /\ Append(r.inputs, w)[n + 1] = w
      /\ \A k \in 1..n : Append(r.inputs, w)[k] = r.inputs[k]
  BY <1>2, <1>6, AppendFacts
<1>8. \A k \in (Len(q.inputs) + 1)..n : k \in 1..n /\ r.inputs[k] = v BY <1>6 DEF Padded
<1> QED BY <1>3, <1>5, <1>7, <1>8

\* The padding itself.
LEMMA FillTracks ==
  ASSUME NEW q, NEW st, NEW x, NEW cur \in Nat, NEW v \in Int, AtRest(q, st, x, cur),
         NEW gap \in Nat
  PROVE  Padded(q, v, Len(q.inputs) + gap, Fill(q, v, gap), st, x, cur)
<1>1. PICK F : /\ F[0] = q
               /\ \A k \in 1..gap : F[k] = File(F[k - 1], v)
               /\ Fill(q, v, gap) = F[gap]
  BY FillSteps
<1>2. PICK L \in Nat : L = Len(q.inputs) BY QueueIsRecord DEF AtRest
<1> DEFINE S == {k \in Nat : k <= gap => Padded(q, v, L + k, F[k], st, x, cur)}
<1>3. 0 \in S
  <2>1. Grows(q, q) BY GrowsRefl DEF AtRest
  <2>2. Padded(q, v, L + 0, q, st, x, cur) BY <2>1, <1>2 DEF Padded
  <2> QED BY <2>2, <1>1
<1>4. ASSUME NEW k \in S PROVE k + 1 \in S
  <2> SUFFICES ASSUME k \in Nat, k <= gap => Padded(q, v, L + k, F[k], st, x, cur), k + 1 <= gap
               PROVE  Padded(q, v, L + (k + 1), F[k + 1], st, x, cur)
    OBVIOUS
  <2> DEFINE r == F[k]
  <2>1. k \in Nat /\ L + k \in Nat /\ L + k >= Len(q.inputs) BY <1>2
  <2>2. Padded(q, v, L + k, r, st, x, cur) BY <2>1
  <2>3. F[k + 1] = File(r, v)
    <3>1. k + 1 \in 1..gap /\ (k + 1) - 1 = k BY <2>1
    <3> QED BY <3>1, <1>1
  <2> HIDE DEF r
  <2>4. /\ AtRest(File(r, v), st, x, cur) /\ Grows(q, File(r, v))
        /\ Len(File(r, v).inputs) = (L + k) + 1 /\ File(r, v).inputs[(L + k) + 1] = v
        /\ \A i \in (L + 1)..(L + k) : File(r, v).inputs[i] = v
    BY <2>1, <2>2, <1>2, FileAgain
  <2>5. ASSUME NEW i \in (L + 1)..(L + (k + 1)) PROVE File(r, v).inputs[i] = v
    <3>1. i \in (L + 1)..(L + k) \/ i = (L + k) + 1 OBVIOUS
    <3> QED BY <3>1, <2>4
  <2>6. (L + k) + 1 = L + (k + 1) OBVIOUS
  <2> QED BY <2>3, <2>4, <2>5, <2>6, <1>2 DEF Padded
<1>5. S \in SUBSET Nat OBVIOUS
<1> HIDE DEF S
<1>6. gap \in S BY <1>3, <1>4, <1>5, Climb
<1> QED BY <1>6, <1>1, <1>2 DEF S

\* r is q with v filed up to n and then new.
Extended(q, v, n, new, r, st, x, cur) ==
  /\ AtRest(r, st, x, cur) /\ Grows(q, r) /\ Len(r.inputs) = n + Len(new)
  /\ \A k \in (Len(q.inputs) + 1)..n : r.inputs[k] = v
  /\ \A k \in 1..Len(new) : r.inputs[n + k] = new[k]

\* r is q with its latest input repeated up to n and then w.
Added(q, n, w, r, st, x, cur) ==
  /\ AtRest(r, st, x, cur) /\ Grows(q, r)
  /\ Len(r.inputs) = n + 1 /\ r.inputs[n + 1] = w
  /\ \A k \in (Len(q.inputs) + 1)..n : r.inputs[k] = Latest(q)

\* An input for a frame at or past the end fills the gap and follows it.
LEMMA AddTracks ==
  ASSUME NEW q, NEW st, NEW x, NEW cur \in Nat, AtRest(q, st, x, cur),
         NEW frame \in Nat, NEW delay \in Nat, frame + delay >= Len(q.inputs), NEW w \in Int
  PROVE  Added(q, frame + delay, w, AddInput(q, frame, delay, w), st, x, cur)
<1>1. PICK L \in Nat : L = Len(q.inputs) BY QueueIsRecord DEF AtRest
<1>2. Latest(q) \in Int BY QueueIsRecord DEF AtRest
<1> DEFINE gap == frame + delay - L
           p == Fill(q, Latest(q), gap)
<1>3. frame + delay >= L BY <1>1
<1>4. gap \in Nat /\ L + gap = frame + delay /\ ~(gap < 0) BY <1>3
<1>5. AddInput(q, frame, delay, w) = File(p, w) BY <1>1, <1>4 DEF AddInput
<1> DEFINE v == Latest(q)
<1>6. v \in Int BY <1>2
<1> HIDE DEF v
<1>7. Padded(q, v, L + gap, Fill(q, v, gap), st, x, cur)
  <2> HIDE DEF gap
  <2> QED BY <1>1, <1>4, <1>6, FillTracks
<1>8. Fill(q, v, gap) = p BY DEF v
<1> HIDE DEF p
<1>9. Padded(q, v, frame + delay, p, st, x, cur) BY <1>4, <1>7, <1>8
<1> DEFINE n == frame + delay
<1>10. n \in Nat /\ n >= Len(q.inputs) OBVIOUS
<1>11. Padded(q, v, n, p, st, x, cur) BY <1>9
<1> HIDE DEF n
<1>12. /\ AtRest(File(p, w), st, x, cur) /\ Grows(q, File(p, w))
       /\ Len(File(p, w).inputs) = n + 1 /\ File(p, w).inputs[n + 1] = w
       /\ \A k \in (Len(q.inputs) + 1)..n : File(p, w).inputs[k] = v
  BY <1>6, <1>10, <1>11, FileAgain
<1> QED BY <1>5, <1>12 DEF n, v, Added

\* A packet that begins at or past the end of the queue is filed whole.
LEMMA FeedTracks ==
  ASSUME NEW q, NEW st, NEW x, NEW cur \in Nat, AtRest(q, st, x, cur),
         NEW from \in Nat, from >= Len(q.inputs), NEW new \in Seq(Int)
  PROVE  LET r == Feed(q, from, new) IN
         /\ new = <<>> => r = q
         /\ new # <<>> => Extended(q, Latest(q), from, new, r, st, x, cur)
<1> DEFINE v == Latest(q)
<1>1. Len(new) \in Nat OBVIOUS
<1>2. PICK F : Feeds(F, q, from, new) BY <1>1, FeedSteps, Zenon
<1>3. /\ F[0] = q
      /\ \A k \in 1..Len(new) : F[k] = AddInput(F[k - 1], from + k - 1, 0, new[k])
      /\ Feed(q, from, new) = F[Len(new)]
  BY <1>2 DEF Feeds
<1>4. v \in Int /\ q \in Queue BY QueueIsRecord DEF AtRest
<1>5. PICK L \in Nat : L = Len(q.inputs) BY <1>4, QueueIsRecord
<1> DEFINE At(k, r) == /\ AtRest(r, st, x, cur) /\ Grows(q, r)
                       /\ k > 0 => Len(r.inputs) = from + k
                       /\ k = 0 => r = q
                       /\ k > 0 => \A i \in (L + 1)..from : r.inputs[i] = v
                       /\ \A i \in 1..k : r.inputs[from + i] = new[i]
           S == {k \in Nat : k <= Len(new) => At(k, F[k])}
<1>6. 0 \in S
  <2>1. Grows(q, q) BY <1>4, GrowsRefl
  <2>2. At(0, q) BY <2>1
  <2> HIDE DEF At
  <2> QED BY <2>2, <1>3
<1>7. ASSUME NEW k \in S PROVE k + 1 \in S
  <2> SUFFICES ASSUME k + 1 <= Len(new) PROVE At(k + 1, F[k + 1])
    <3> HIDE DEF At
    <3> QED OBVIOUS
  <2> DEFINE r == F[k]
             w == new[k + 1]
             t == AddInput(r, from + k, 0, w)
  <2>1. k \in Nat OBVIOUS
  <2>2. At(k, r) BY <2>1, <1>1
  <2>3. w \in Int
    <3>1. k + 1 \in 1..Len(new) BY <2>1
    <3> QED BY <3>1
  <2>4. F[k + 1] = t
    <3>1. k + 1 \in 1..Len(new) /\ (k + 1) - 1 = k /\ from + (k + 1) - 1 = from + k BY <2>1
    <3> QED BY <3>1, <1>3
  <2> HIDE DEF r, w
  <2>5. from + k \in Nat /\ from + k + 0 = from + k /\ from + k >= Len(r.inputs)
    BY <2>1, <2>2, <1>5
  <2> DEFINE n == from + k
  <2>6. n \in Nat /\ n + 0 = n /\ n + 0 >= Len(r.inputs) BY <2>5
  <2>7. t = AddInput(r, n, 0, w) OBVIOUS
  <2> HIDE DEF t, n
  <2>8. AtRest(r, st, x, cur) /\ Grows(q, r) BY <2>2
  <2>9. /\ AtRest(t, st, x, cur) /\ Grows(r, t)
        /\ Len(t.inputs) = n + 0 + 1 /\ t.inputs[n + 0 + 1] = w
        /\ \A i \in (Len(r.inputs) + 1)..(n + 0) : t.inputs[i] = Latest(r)
    <3> HIDE DEF At, S
    <3>1. 0 \in Nat OBVIOUS
    <3>2. Added(r, n + 0, w, AddInput(r, n, 0, w), st, x, cur)
      BY <2>3, <2>6, <2>8, <3>1, AddTracks
    <3>3. Added(r, n + 0, w, t, st, x, cur) BY <2>7, <3>2
    <3> QED BY <3>3 DEF Added
  <2>10. Grows(q, t)
    <3>1. r \in Queue /\ t \in Queue BY <2>8, <2>9 DEF AtRest
    <3> QED BY <3>1, <1>4, <2>8, <2>9, GrowsTrans
  <2>11. Len(t.inputs) = from + (k + 1) BY <2>9, <2>1, <2>6 DEF n
  <2>12. Len(r.inputs) \in Nat /\ PrefixOf(r.inputs, t.inputs)
    BY <2>8, <2>9, QueueIsRecord DEF AtRest, Grows
  <2>13. ASSUME NEW i \in (L + 1)..from PROVE t.inputs[i] = v
    <3>1. CASE k = 0
      <4>1. r = q BY <2>2, <3>1
      <4>2. i \in (Len(r.inputs) + 1)..(n + 0) BY <3>1, <4>1, <1>5 DEF n
      <4> QED BY <4>1, <4>2, <2>9
    <3>2. CASE k > 0
      <4>1. r.inputs[i] = v /\ Len(r.inputs) = from + k BY <2>2, <3>2
      <4>2. i \in 1..Len(r.inputs) BY <4>1, <2>1, <1>4
      <4> QED BY <4>1, <4>2, <2>12 DEF PrefixOf
    <3> QED BY <3>1, <3>2, <2>1
  <2>14. ASSUME NEW i \in 1..(k + 1) PROVE t.inputs[from + i] = new[i]
    <3>1. CASE i = k + 1
      <4>1. from + i = n + 0 + 1 BY <3>1, <2>1 DEF n
      <4> QED BY <4>1, <2>9, <3>1 DEF w
    <3>2. CASE i # k + 1
      <4>1. i \in 1..k /\ k > 0 BY <3>2, <2>1
      <4>2. r.inputs[from + i] = new[i] /\ Len(r.inputs) = from + k BY <2>2, <4>1
      <4>3. from + i \in 1..Len(r.inputs) BY <4>1, <4>2, <2>1
      <4> QED BY <4>2, <4>3, <2>12 DEF PrefixOf
    <3> QED BY <3>1, <3>2
  <2>15. At(k + 1, t) BY <2>1, <2>9, <2>10, <2>11, <2>13, <2>14
  <2> HIDE DEF At
  <2> QED BY <2>15, <2>4
<1>8. S \in SUBSET Nat OBVIOUS
<1> HIDE DEF S
<1>9. Len(new) \in S BY <1>1, <1>6, <1>7, <1>8, Climb
<1>10. At(Len(new), F[Len(new)])
  <2> HIDE DEF At
  <2> QED BY <1>9, <1>1 DEF S
<1> DEFINE r == Feed(q, from, new)
<1>11. At(Len(new), r) BY <1>10, <1>3
<1> HIDE DEF r
<1>12. new = <<>> => Len(new) = 0 OBVIOUS
<1>13. new # <<>> => Len(new) > 0 OBVIOUS
<1>14. new = <<>> => r = q BY <1>11, <1>12
<1>15. ASSUME new # <<>> PROVE Extended(q, v, from, new, r, st, x, cur)
  BY <1>11, <1>13, <1>15, <1>5 DEF Extended
<1> QED BY <1>14, <1>15 DEF r

-----------------------------------------------------------------------------
(* Simulating a frame *)

\* The fields Asked leaves.
LEMMA AskedFields ==
  ASSUME NEW q \in Queue, NEW cur \in Nat
  PROVE  LET r == Asked(q, cur)
             new == q.predicting = NullFrame /\ cur >= Len(q.inputs)
         IN  /\ r \in Queue /\ r.inputs = q.inputs /\ r.first_bad = q.first_bad
             /\ r.last_requested = cur
             /\ r.predicting = IF new THEN Len(q.inputs) ELSE q.predicting
             /\ r.guess = IF new THEN Latest(q) ELSE q.guess
<1>1. PICK L \in Nat : L = Len(q.inputs) BY QueueIsRecord
<1>2. PICK v \in Int : v = Latest(q) BY QueueIsRecord
<1>3. LastAdded(q) + 1 = L /\ (cur > LastAdded(q) <=> cur >= L)
  <2>1. LastAdded(q) = L - 1 BY <1>1 DEF LastAdded
  <2> QED BY <2>1
<1>4. L \in Frame /\ cur \in Frame BY DEF Frame
<1>5. q \in [inputs : Seq(Int), predicting : Frame, guess : Int, first_bad : Frame,
             last_requested : Frame] BY DEF Queue
<1>6. CASE q.predicting = NullFrame /\ cur >= L
  <2>1. Asked(q, cur) = [q EXCEPT !.last_requested = cur, !.predicting = L, !.guess = v]
    BY <1>6, <1>2, <1>3 DEF Asked
  <2> DEFINE r == [q EXCEPT !.last_requested = cur, !.predicting = L, !.guess = v]
  <2>2. /\ r \in Queue /\ r.inputs = q.inputs /\ r.first_bad = q.first_bad
        /\ r.last_requested = cur /\ r.predicting = L /\ r.guess = v
    BY <1>4, <1>5 DEF Queue
  <2> HIDE DEF r
  <2> QED BY <2>1, <2>2, <1>1, <1>2, <1>6 DEF r
<1>7. CASE ~(q.predicting = NullFrame /\ cur >= L)
  <2>1. Asked(q, cur) = [q EXCEPT !.last_requested = cur] BY <1>7, <1>3 DEF Asked
  <2> DEFINE r == [q EXCEPT !.last_requested = cur]
  <2>2. /\ r \in Queue /\ r.inputs = q.inputs /\ r.first_bad = q.first_bad
        /\ r.last_requested = cur /\ r.predicting = q.predicting /\ r.guess = q.guess
    BY <1>4, <1>5 DEF Queue
  <2> HIDE DEF r
  <2> QED BY <2>1, <2>2, <1>1, <1>7 DEF r
<1> QED BY <1>6, <1>7

\* What the queue answers.
LEMMA AnswerValue ==
  ASSUME NEW q \in Queue, NEW cur \in Nat
  PROVE  /\ Answer(q, cur) \in Int
         /\ Answer(q, cur) = IF q.predicting # NullFrame THEN q.guess
                             ELSE IF cur < Len(q.inputs) THEN q.inputs[cur + 1] ELSE Latest(q)
<1>1. PICK L \in Nat : L = Len(q.inputs) BY QueueIsRecord
<1>2. PICK s \in Seq(Int) : s = q.inputs BY QueueIsRecord
<1>3. cur <= LastAdded(q) <=> cur < L
  <2>1. LastAdded(q) = L - 1 BY <1>1 DEF LastAdded
  <2> QED BY <2>1
<1>4. cur < L => s[cur + 1] \in Int
  <2>1. L = Len(s) BY <1>1, <1>2
  <2>2. cur < L => cur + 1 \in 1..L OBVIOUS
  <2> QED BY <2>1, <2>2
<1>5. Answer(q, cur) = IF q.predicting # NullFrame THEN q.guess
                       ELSE IF cur < L THEN s[cur + 1] ELSE Latest(q)
  BY <1>2, <1>3 DEF Answer
<1>6. q.guess \in Int /\ Latest(q) \in Int BY QueueIsRecord
<1>7. Answer(q, cur) \in Int BY <1>4, <1>5, <1>6
<1> QED BY <1>1, <1>2, <1>5, <1>7

\* The queue answers with the filed input, or with the guess it keeps.
LEMMA AskedTracks ==
  ASSUME NEW q \in Queue, NEW st \in History, NEW cur \in Nat, Len(st) = cur,
         NEW x \in Players, NEW ans \in [Players -> Int], ans[x] = Answer(q, cur),
         Tracks(q, st, x, cur)
  PROVE  AtRest(Asked(q, cur), Append(st, ans), x, cur + 1)
<1> DEFINE r == Asked(q, cur)
           st2 == Append(st, ans)
<1>1. PICK L \in Nat : L = Len(q.inputs) BY QueueIsRecord
<1>2. PICK v \in Int : v = Latest(q) BY QueueIsRecord
<1>3. /\ r \in Queue /\ r.inputs = q.inputs /\ r.first_bad = q.first_bad
      /\ r.last_requested = cur
      /\ r.predicting = IF q.predicting = NullFrame /\ cur >= L THEN L ELSE q.predicting
      /\ r.guess = IF q.predicting = NullFrame /\ cur >= L THEN v ELSE q.guess
  BY <1>1, <1>2, AskedFields
<1>4. ans[x] = IF q.predicting # NullFrame THEN q.guess
               ELSE IF cur < L THEN q.inputs[cur + 1] ELSE v
  BY <1>1, <1>2, AnswerValue
<1>5. Latest(r) = v BY <1>2, <1>3 DEF Latest
<1>6. (\A k \in 1..cur : st2[k] = st[k]) /\ st2[cur + 1] = ans
  BY AppendFacts DEF History
<1>7. /\ q.predicting # NullFrame => q.predicting = L
      /\ q.first_bad # NullFrame => q.predicting # NullFrame /\ q.first_bad < L /\ q.first_bad < cur
      /\ q.first_bad = NullFrame /\ q.predicting # NullFrame => q.guess = v /\ q.predicting < cur
  BY <1>1, <1>2 DEF Tracks
<1>8. \A f \in 0..(cur - 1) :
        q.first_bad = NullFrame \/ f < q.first_bad =>
          st[f + 1][x] = IF f < L THEN q.inputs[f + 1] ELSE v
  BY <1>1, <1>2 DEF Tracks
<1>9. q.predicting \in Frame /\ q.first_bad \in Frame BY QueueIsRecord
<1>10. Len(r.inputs) = L BY <1>1, <1>3
<1> HIDE DEF r, st2
<1>11. /\ r.predicting # NullFrame => r.predicting = L
       /\ r.first_bad # NullFrame =>
            r.predicting # NullFrame /\ r.first_bad < L /\ r.first_bad < cur + 1
       /\ r.first_bad = NullFrame /\ r.predicting # NullFrame => r.guess = v /\ r.predicting < cur + 1
       /\ r.last_requested = (cur + 1) - 1
       /\ r.predicting = NullFrame => cur + 1 <= L
  BY <1>3, <1>7, <1>9 DEF Frame, NullFrame
<1>12. ASSUME NEW f \in 0..((cur + 1) - 1), r.first_bad = NullFrame \/ f < r.first_bad
       PROVE  st2[f + 1][x] = IF f < L THEN r.inputs[f + 1] ELSE v
  <2>1. CASE f < cur
    <3>1. f \in 0..(cur - 1) /\ f + 1 \in 1..cur BY <2>1
    <3> QED BY <3>1, <1>3, <1>6, <1>8, <1>12
  <2>2. CASE f = cur
    <3>1. r.first_bad = NullFrame BY <2>2, <1>3, <1>7, <1>9, <1>12 DEF Frame, NullFrame
    <3>2. st2[f + 1][x] = ans[x] BY <2>2, <1>6
    <3> QED BY <3>1, <3>2, <2>2, <1>3, <1>4, <1>7, <1>9 DEF Frame, NullFrame
  <2>3. f \in Nat /\ f <= cur OBVIOUS
  <2> QED BY <2>1, <2>2, <2>3
<1>13. Tracks(r, st2, x, cur + 1) BY <1>5, <1>10, <1>11, <1>12 DEF Tracks
<1>14. Settled(r, cur + 1) BY <1>10, <1>11 DEF Settled
<1> QED BY <1>3, <1>13, <1>14 DEF AtRest, r, st2

-----------------------------------------------------------------------------
(* The ring of cells *)

\* What the constants are.
LEMMA Sizes ==
  /\ MaxPrediction \in Nat /\ MaxPrediction >= 1
  /\ CellCount \in Nat /\ CellCount = MaxPrediction + 2 /\ CellCount >= 3
  /\ Slots = 0..(CellCount - 1) /\ InputDelay \in [Players -> Nat]
BY NetplayAssumption DEF CellCount, Slots

\* The head wraps around the ring.
LEMMA NextSlot ==
  ASSUME NEW h \in Slots
  PROVE  (h + 1) % CellCount = IF h + 1 = CellCount THEN 0 ELSE h + 1
<1>1. PICK n \in Nat : n = CellCount /\ n >= 3 BY Sizes
<1>2. h \in Nat /\ h < n BY <1>1, Sizes
<1>3. (h + 1) % n = IF h + 1 = n THEN 0 ELSE h + 1 BY <1>1, <1>2, SMT
<1> QED BY <1>1, <1>3

\* A cell has one age, an age one cell, and a save makes the others older.
LEMMA AgeFacts ==
  ASSUME NEW h \in Slots
  PROVE  /\ \A i \in Slots : Age(i, h) \in 1..CellCount
         /\ \A i, j \in Slots : Age(i, h) = Age(j, h) => i = j
         /\ \A a \in 1..CellCount : \E i \in Slots : Age(i, h) = a
         /\ Age(h, (h + 1) % CellCount) = 1
         /\ \A i \in Slots \ {h} : Age(i, (h + 1) % CellCount) = Age(i, h) + 1
         /\ (h + 1) % CellCount \in Slots
<1>1. PICK n \in Nat : n = CellCount /\ n >= 3 BY Sizes
<1>2. Slots = 0..(n - 1) BY <1>1, Sizes
<1>3. \A i, g : Age(i, g) = IF i < g THEN g - i ELSE g - i + n BY <1>1 DEF Age
<1>4. h \in Nat /\ h < n BY <1>2
<1>5. \A i \in 0..(n - 1) : Age(i, h) \in 1..n BY <1>3, <1>4
<1>6. \A i, j \in 0..(n - 1) : Age(i, h) = Age(j, h) => i = j BY <1>3, <1>4
<1>7. ASSUME NEW a \in 1..n PROVE \E i \in 0..(n - 1) : Age(i, h) = a
  <2> DEFINE i == IF a <= h THEN h - a ELSE h - a + n
  <2>1. i \in 0..(n - 1) BY <1>4
  <2>2. (IF i < h THEN h - i ELSE h - i + n) = a BY <1>4
  <2>3. Age(i, h) = a BY <2>2, <1>3
  <2> HIDE DEF i
  <2> QED BY <2>1, <2>3
<1>8. (h + 1) % CellCount = IF h + 1 = n THEN 0 ELSE h + 1 BY <1>1, NextSlot
<1>9. PICK g : g = (h + 1) % CellCount OBVIOUS
<1>10. g = IF h + 1 = n THEN 0 ELSE h + 1 BY <1>8, <1>9
<1>11. g \in 0..(n - 1) BY <1>10, <1>4, <1>1
<1>12. Age(h, g) = 1 BY <1>10, <1>3, <1>4
<1>13. \A i \in 0..(n - 1) : i # h => Age(i, g) = Age(i, h) + 1 BY <1>10, <1>3, <1>4
<1> QED BY <1>1, <1>2, <1>5, <1>6, <1>7, <1>9, <1>11, <1>12, <1>13

\* The fields of an engine.
LEMMA EngineIsRecord ==
  ASSUME NEW e \in Engine
  PROVE  /\ e.cur \in Nat /\ e.state \in History /\ e.head \in Slots
         /\ e.cells \in [Slots -> [frame : Frame, state : History]]
         /\ e.queues \in [Players -> Queue]
         /\ \A x \in Players : e.queues[x] \in Queue
         /\ \A i \in Slots : e.cells[i].frame \in Frame /\ e.cells[i].state \in History
<1>1. /\ e.cur \in Nat /\ e.state \in History /\ e.head \in Slots
      /\ e.cells \in [Slots -> [frame : Frame, state : History]]
      /\ e.queues \in [Players -> Queue]
  BY DEF Engine
<1> QED BY <1>1

\* A frame of the window is in exactly the cell of its age.
LEMMA HeldInRing ==
  ASSUME NEW e, NEW M \in Nat, EngineInv(e, M), NEW f \in Nat
  PROVE  /\ HoldsFrame(e, f) # {} <=> f < M /\ M - f <= CellCount
         /\ \A i, j \in HoldsFrame(e, f) : i = j
<1>1. e \in Engine /\ Ring(e, M) BY DEF EngineInv
<1>2. PICK h \in Slots : h = e.head BY <1>1, EngineIsRecord
<1>3. \A i \in Slots : e.cells[i].frame = IF Age(i, h) <= M THEN M - Age(i, h) ELSE NullFrame
  BY <1>1, <1>2 DEF Ring
<1>4. \A i \in Slots : Age(i, h) \in 1..CellCount BY AgeFacts
<1>5. ASSUME NEW i \in Slots PROVE i \in HoldsFrame(e, f) <=> Age(i, h) = M - f
  <2>1. i \in HoldsFrame(e, f) <=> e.cells[i].frame = f BY DEF HoldsFrame
  <2>2. Age(i, h) \in Nat /\ Age(i, h) >= 1 BY <1>4, Sizes
  <2> QED BY <2>1, <2>2, <1>3 DEF NullFrame
<1>6. \A i, j \in HoldsFrame(e, f) : i = j
  <2>1. \A i, j \in Slots : Age(i, h) = Age(j, h) => i = j BY AgeFacts
  <2>2. HoldsFrame(e, f) \subseteq Slots BY DEF HoldsFrame
  <2> QED BY <2>1, <2>2, <1>5
<1>7. ASSUME f < M, M - f <= CellCount PROVE HoldsFrame(e, f) # {}
  <2>1. M - f \in 1..CellCount BY <1>7, Sizes
  <2>2. PICK i \in Slots : Age(i, h) = M - f BY <2>1, AgeFacts
  <2> QED BY <2>2, <1>5
<1>8. ASSUME HoldsFrame(e, f) # {} PROVE f < M /\ M - f <= CellCount
  <2>1. PICK i \in Slots : i \in HoldsFrame(e, f) BY <1>8 DEF HoldsFrame
  <2>2. Age(i, h) = M - f /\ Age(i, h) \in 1..CellCount BY <2>1, <1>4, <1>5
  <2> QED BY <2>2, Sizes
<1> QED BY <1>6, <1>7, <1>8

\* The frames the ring reaches after a save of frame cur.
Reach(cur, M) == IF cur = M THEN M + 1 ELSE M

\* s is e with the state at hand saved.
Saved(e, s, M) ==
  /\ s \in Engine /\ s.cur = e.cur /\ s.state = e.state /\ s.queues = e.queues
  /\ Ring(s, Reach(e.cur, M))
  /\ \A j \in Slots : \/ s.cells[j] = [frame |-> e.cur, state |-> e.state]
                      \/ s.cells[j] = e.cells[j] /\ e.cells[j].frame # e.cur

\* A frame saved for the first time takes the oldest cell.
LEMMA SaveNew ==
  ASSUME NEW e, EngineInv(e, e.cur)
  PROVE  Saved(e, Save(e), e.cur)
<1> DEFINE cell == [frame |-> e.cur, state |-> e.state]
           cells == [e.cells EXCEPT ![e.head] = cell]
           head == (e.head + 1) % CellCount
           s == [e EXCEPT !.cells = cells, !.head = head]
<1>1. e \in Engine /\ Ring(e, e.cur) BY DEF EngineInv
<1>2. /\ e.cur \in Nat /\ e.state \in History /\ e.head \in Slots
      /\ e.cells \in [Slots -> [frame : Frame, state : History]]
      /\ e.queues \in [Players -> Queue]
  BY <1>1, EngineIsRecord
<1>3. HoldsFrame(e, e.cur) = {} BY <1>2, HeldInRing
<1>4. Save(e) = s BY <1>3 DEF Save
<1>5. cell \in [frame : Frame, state : History] BY <1>2 DEF Frame
<1>6. cells \in [Slots -> [frame : Frame, state : History]] BY <1>2, <1>5
<1>7. head \in Slots BY <1>2, AgeFacts
<1>8. cells[e.head] = cell /\ \A j \in Slots \ {e.head} : cells[j] = e.cells[j] BY <1>2
<1>9. cell.frame = e.cur OBVIOUS
<1> HIDE DEF cell, cells, head
<1>10. /\ s \in Engine /\ s.cur = e.cur /\ s.state = e.state /\ s.queues = e.queues
       /\ s.cells = cells /\ s.head = head
  BY <1>1, <1>6, <1>7 DEF Engine
<1> HIDE DEF s
<1>11. \A j \in Slots : e.cells[j].frame # e.cur BY <1>3 DEF HoldsFrame
<1>12. Ring(s, e.cur + 1)
  <2> DEFINE N == e.cur + 1
  <2>1. \A i \in Slots : Age(i, e.head) \in 1..CellCount BY <1>2, AgeFacts
  <2>2. ASSUME NEW i \in Slots
        PROVE  cells[i].frame = IF Age(i, head) <= N THEN N - Age(i, head) ELSE NullFrame
    <3>1. CASE i = e.head
      <4>1. Age(i, head) = 1 BY <3>1, <1>2, AgeFacts DEF head
      <4>2. cells[i].frame = e.cur BY <3>1, <1>8, <1>9
      <4> QED BY <4>1, <4>2, <1>2
    <3>2. CASE i # e.head
      <4>1. Age(i, head) = Age(i, e.head) + 1 BY <3>2, <1>2, AgeFacts DEF head
      <4>2. cells[i].frame = IF Age(i, e.head) <= e.cur THEN e.cur - Age(i, e.head) ELSE NullFrame
        BY <3>2, <1>1, <1>8 DEF Ring
      <4>3. PICK a \in Nat : a = Age(i, e.head) BY <2>1, Sizes
      <4>4. Age(i, head) = a + 1 /\ cells[i].frame = IF a <= e.cur THEN e.cur - a ELSE NullFrame
        BY <4>1, <4>2, <4>3
      <4> QED BY <4>4, <1>2
    <3> QED BY <3>1, <3>2
  <2> HIDE DEF N
  <2>3. Ring(s, N) BY <2>2, <1>10 DEF Ring
  <2> QED BY <2>3 DEF N
<1>13. \A j \in Slots : s.cells[j] = cell \/ (s.cells[j] = e.cells[j] /\ e.cells[j].frame # e.cur)
  BY <1>8, <1>10, <1>11
<1>14. Reach(e.cur, e.cur) = e.cur + 1 BY DEF Reach
<1>15. Saved(e, s, e.cur) BY <1>10, <1>12, <1>13, <1>14 DEF Saved, cell
<1> QED BY <1>4, <1>15

\* A frame saved again takes the cell it had.
LEMMA SaveAgain ==
  ASSUME NEW e, NEW M \in Nat, EngineInv(e, M), e.cur < M, M - e.cur <= CellCount
  PROVE  Saved(e, Save(e), M)
<1> DEFINE cell == [frame |-> e.cur, state |-> e.state]
           i == CHOOSE i \in HoldsFrame(e, e.cur) : TRUE
           cells == [e.cells EXCEPT ![i] = cell]
           s == [e EXCEPT !.cells = cells]
<1>1. e \in Engine /\ Ring(e, M) BY DEF EngineInv
<1>2. /\ e.cur \in Nat /\ e.state \in History /\ e.head \in Slots
      /\ e.cells \in [Slots -> [frame : Frame, state : History]]
      /\ e.queues \in [Players -> Queue]
  BY <1>1, EngineIsRecord
<1>3. HoldsFrame(e, e.cur) # {} /\ \A a, b \in HoldsFrame(e, e.cur) : a = b
  BY <1>2, HeldInRing
<1>4. Save(e) = s BY <1>3 DEF Save
<1>5. i \in HoldsFrame(e, e.cur) BY <1>3
<1>6. i \in Slots /\ e.cells[i].frame = e.cur BY <1>5 DEF HoldsFrame
<1>7. \A j \in Slots \ {i} : e.cells[j].frame # e.cur
  <2> HIDE DEF i
  <2> QED BY <1>3, <1>5 DEF HoldsFrame
<1> HIDE DEF i
<1>8. cell \in [frame : Frame, state : History] BY <1>2 DEF Frame
<1>9. cells \in [Slots -> [frame : Frame, state : History]] BY <1>2, <1>8
<1>10. cells[i] = cell /\ \A j \in Slots \ {i} : cells[j] = e.cells[j] BY <1>2, <1>6
<1>11. cell.frame = e.cur OBVIOUS
<1> HIDE DEF cell, cells
<1>12. /\ s \in Engine /\ s.cur = e.cur /\ s.state = e.state /\ s.queues = e.queues
       /\ s.cells = cells /\ s.head = e.head
  BY <1>1, <1>9 DEF Engine
<1> HIDE DEF s
<1>13. \A j \in Slots : cells[j].frame = e.cells[j].frame BY <1>6, <1>10, <1>11
<1>14. Ring(s, M) BY <1>1, <1>12, <1>13 DEF Ring
<1>15. \A j \in Slots : s.cells[j] = cell \/ (s.cells[j] = e.cells[j] /\ e.cells[j].frame # e.cur)
  BY <1>7, <1>10, <1>12
<1>16. Reach(e.cur, M) = M BY <1>2 DEF Reach
<1>17. Saved(e, s, M) BY <1>12, <1>14, <1>15, <1>16 DEF Saved, cell
<1> QED BY <1>4, <1>17

\* t has the inputs of e and its wrong guesses, and guesses for no player whose
\* inputs reach past n and that e did not guess for.
SameInputs(e, t, n) ==
  \A x \in Players :
    /\ t.queues[x].inputs = e.queues[x].inputs
    /\ t.queues[x].first_bad = e.queues[x].first_bad
    /\ e.queues[x].predicting = NullFrame /\ n < Len(e.queues[x].inputs) =>
         t.queues[x].predicting = NullFrame

Resting(e) == \A x \in Players : AtRest(e.queues[x], e.state, x, e.cur)

\* A frame simulated for the first time, or again after a load.
LEMMA SimulateInv ==
  ASSUME NEW e, NEW M \in Nat, EngineInv(e, M), e.cur <= M, M - e.cur <= CellCount
  PROVE  /\ EngineInv(Simulate(e), Reach(e.cur, M))
         /\ Simulate(e).cur = e.cur + 1 /\ Resting(Simulate(e))
         /\ SameInputs(e, Simulate(e), e.cur)
<1> DEFINE s == Save(e)
           ans == [q \in Players |-> Answer(e.queues[q], e.cur)]
           qs == [q \in Players |-> Asked(e.queues[q], e.cur)]
           st == Append(e.state, ans)
           cur == e.cur + 1
           t == [s EXCEPT !.state = st, !.queues = qs, !.cur = cur]
<1>1. e \in Engine /\ CellsTrue(e) /\ Len(e.state) = e.cur BY DEF EngineInv
<1>2. /\ e.cur \in Nat /\ e.state \in History /\ e.head \in Slots
      /\ \A x \in Players : e.queues[x] \in Queue
      /\ \A i \in Slots : e.cells[i].frame \in Frame /\ e.cells[i].state \in History
  BY <1>1, EngineIsRecord
<1>3. Saved(e, s, M)
  <2>1. CASE e.cur = M BY <2>1, SaveNew
  <2>2. CASE e.cur # M
    <3>1. e.cur < M BY <2>2, <1>2
    <3> QED BY <3>1, SaveAgain
  <2> QED BY <2>1, <2>2
<1>4. Simulate(e) = t BY <1>3 DEF Simulate, Saved
<1>5. ans \in [Players -> Int] BY <1>2, AnswerValue
<1>6. qs \in [Players -> Queue] BY <1>2, AskedFields
<1>7. /\ st \in History /\ Len(st) = cur /\ st[cur] = ans
      /\ \A k \in 1..e.cur : st[k] = e.state[k]
  BY <1>1, <1>2, <1>5, AppendFacts DEF History
<1>8. cur \in Nat BY <1>2
<1>9. s \in Engine BY <1>3 DEF Saved
<1>10. \A x \in Players : ans[x] = Answer(e.queues[x], e.cur) /\ qs[x] = Asked(e.queues[x], e.cur)
  OBVIOUS
<1>11. \A x \in Players : AtRest(qs[x], st, x, cur)
  <2> SUFFICES ASSUME NEW x \in Players PROVE AtRest(qs[x], st, x, cur) OBVIOUS
  <2>1. Tracks(e.queues[x], e.state, x, e.cur) BY DEF EngineInv
  <2>2. ans[x] = Answer(e.queues[x], e.cur) BY <1>10
  <2> HIDE DEF ans
  <2>3. AtRest(Asked(e.queues[x], e.cur), Append(e.state, ans), x, e.cur + 1)
    BY <2>1, <2>2, <1>1, <1>2, <1>5, AskedTracks
  <2> QED BY <2>3, <1>10
<1> HIDE DEF s, ans, qs, st, cur
<1>12. /\ t \in Engine /\ t.state = st /\ t.queues = qs /\ t.cur = cur
       /\ t.cells = s.cells /\ t.head = s.head
  BY <1>6, <1>7, <1>8, <1>9 DEF Engine
<1> HIDE DEF t
<1>13. Ring(t, Reach(e.cur, M)) BY <1>3, <1>12 DEF Saved, Ring
<1>14. CellsTrue(t)
  <2> SUFFICES ASSUME NEW i \in Slots, t.cells[i].frame # NullFrame
               PROVE  /\ Len(t.cells[i].state) = t.cells[i].frame
                      /\ t.cells[i].frame < cur =>
                           \A k \in 1..t.cells[i].frame : t.cells[i].state[k] = st[k]
    BY <1>12 DEF CellsTrue
  <2>1. CASE t.cells[i] = [frame |-> e.cur, state |-> e.state]
    <3>1. t.cells[i].frame = e.cur /\ t.cells[i].state = e.state BY <2>1
    <3> QED BY <3>1, <1>1, <1>7
  <2>2. CASE t.cells[i] = e.cells[i] /\ e.cells[i].frame # e.cur
    <3>1. PICK f \in Nat : f = e.cells[i].frame BY <1>2, <2>2 DEF Frame
    <3>2. /\ Len(e.cells[i].state) = f
          /\ f < e.cur => \A k \in 1..f : e.cells[i].state[k] = e.state[k]
      BY <3>1, <2>2, <1>1 DEF CellsTrue
    <3>3. f # e.cur BY <2>2, <3>1
    <3>4. f < cur => f < e.cur BY <3>3, <1>2 DEF cur
    <3>5. f < e.cur => \A k \in 1..f : k \in 1..e.cur BY <1>2
    <3>6. f < cur => \A k \in 1..f : e.cells[i].state[k] = st[k] BY <3>2, <3>4, <3>5, <1>7
    <3> QED BY <2>2, <3>1, <3>2, <3>6
  <2>3. \/ t.cells[i] = [frame |-> e.cur, state |-> e.state]
        \/ t.cells[i] = e.cells[i] /\ e.cells[i].frame # e.cur
    BY <1>3, <1>12 DEF Saved
  <2> QED BY <2>1, <2>2, <2>3
<1>15. \A x \in Players : AtRest(t.queues[x], t.state, x, t.cur) BY <1>11, <1>12
<1>16. EngineInv(t, Reach(e.cur, M))
  BY <1>7, <1>12, <1>13, <1>14, <1>15 DEF EngineInv, AtRest
<1>17. SameInputs(e, t, e.cur)
  <2> SUFFICES ASSUME NEW x \in Players
               PROVE  /\ t.queues[x].inputs = e.queues[x].inputs
                      /\ t.queues[x].first_bad = e.queues[x].first_bad
                      /\ e.queues[x].predicting = NullFrame /\ e.cur < Len(e.queues[x].inputs) =>
                           t.queues[x].predicting = NullFrame
    BY DEF SameInputs
  <2>1. t.queues[x] = Asked(e.queues[x], e.cur) BY <1>10, <1>12
  <2>2. PICK q \in Queue : q = e.queues[x] BY <1>2
  <2>3. PICK L \in Nat : L = Len(q.inputs) BY QueueIsRecord
  <2>4. /\ Asked(q, e.cur).inputs = q.inputs /\ Asked(q, e.cur).first_bad = q.first_bad
        /\ Asked(q, e.cur).predicting =
             IF q.predicting = NullFrame /\ e.cur >= L THEN L ELSE q.predicting
    BY <1>2, <2>3, AskedFields
  <2>5. e.cur < L => ~(e.cur >= L) BY <1>2
  <2> QED BY <2>1, <2>2, <2>3, <2>4, <2>5
<1> QED BY <1>4, <1>12, <1>15, <1>16, <1>17 DEF Resting, cur

-----------------------------------------------------------------------------
(* Rolling back *)

\* The first wrong frame is one that was simulated, and no other is below it.
LEMMA BadFacts ==
  ASSUME NEW e, EngineInv(e, e.cur), BadFrames(e) # {}
  PROVE  /\ FirstBad(e) \in Nat /\ FirstBad(e) < e.cur /\ FirstBad(e) \in BadFrames(e)
         /\ \A x \in Players : e.queues[x].first_bad # NullFrame =>
              FirstBad(e) <= e.queues[x].first_bad
<1>1. e \in Engine BY DEF EngineInv
<1>2. \A x \in Players : e.queues[x].first_bad \in Frame BY <1>1, EngineIsRecord, QueueIsRecord
<1>3. BadFrames(e) \in SUBSET Nat BY <1>2 DEF BadFrames, Frame
<1>4. \E f \in BadFrames(e) : \A g \in BadFrames(e) : f <= g BY <1>3, LeastNat
<1>5. FirstBad(e) \in BadFrames(e) /\ \A g \in BadFrames(e) : FirstBad(e) <= g
  BY <1>4 DEF FirstBad
<1>6. PICK x \in Players : FirstBad(e) = e.queues[x].first_bad /\ e.queues[x].first_bad # NullFrame
  BY <1>5 DEF BadFrames
<1>7. Tracks(e.queues[x], e.state, x, e.cur) BY DEF EngineInv
<1>8. FirstBad(e) < e.cur BY <1>6, <1>7 DEF Tracks
<1>9. \A y \in Players : e.queues[y].first_bad # NullFrame => e.queues[y].first_bad \in BadFrames(e)
  BY DEF BadFrames
<1> QED BY <1>3, <1>5, <1>8, <1>9

\* The fields Reset leaves.
LEMMA ResetFields ==
  ASSUME NEW q \in Queue
  PROVE  /\ Reset(q) \in Queue /\ Reset(q).inputs = q.inputs
         /\ Reset(q).predicting = NullFrame /\ Reset(q).first_bad = NullFrame
         /\ Latest(Reset(q)) = Latest(q)
<1>1. NullFrame \in Frame BY DEF Frame
<1>2. /\ Reset(q) \in Queue /\ Reset(q).inputs = q.inputs
      /\ Reset(q).predicting = NullFrame /\ Reset(q).first_bad = NullFrame
  BY <1>1 DEF Reset, Queue
<1> QED BY <1>2 DEF Latest

\* Back to the first wrong frame: up to it the history was right.
LEMMA LoadedInv ==
  ASSUME NEW e, EngineInv(e, e.cur), BadFrames(e) # {}, HoldsFrame(e, FirstBad(e)) # {}
  PROVE  /\ EngineInv(Loaded(e), e.cur) /\ Loaded(e).cur = FirstBad(e)
         /\ e.cur - FirstBad(e) <= CellCount
         /\ \A x \in Players : /\ Loaded(e).queues[x].inputs = e.queues[x].inputs
                               /\ Loaded(e).queues[x].predicting = NullFrame
                               /\ Loaded(e).queues[x].first_bad = NullFrame
<1>1. e \in Engine /\ CellsTrue(e) /\ Len(e.state) = e.cur /\ Ring(e, e.cur) BY DEF EngineInv
<1>2. /\ e.cur \in Nat /\ e.state \in History /\ e.head \in Slots
      /\ \A x \in Players : e.queues[x] \in Queue
      /\ \A i \in Slots : e.cells[i].frame \in Frame /\ e.cells[i].state \in History
  BY <1>1, EngineIsRecord
<1>3. PICK b \in Nat : b = FirstBad(e) BY BadFacts
<1>4. /\ b < e.cur
      /\ \A x \in Players : e.queues[x].first_bad # NullFrame => b <= e.queues[x].first_bad
  BY <1>3, BadFacts
<1> DEFINE i == CHOOSE i \in HoldsFrame(e, FirstBad(e)) : TRUE
           st == e.cells[i].state
           qs == [q \in Players |-> Reset(e.queues[q])]
           t == [e EXCEPT !.state = st, !.cur = b, !.queues = qs]
<1>5. Loaded(e) = t BY <1>3 DEF Loaded
<1>6. i \in HoldsFrame(e, FirstBad(e)) OBVIOUS
<1> HIDE DEF i
<1>7. i \in Slots /\ e.cells[i].frame = b BY <1>6, <1>3 DEF HoldsFrame
<1>8. e.cur - b <= CellCount BY <1>2, <1>3, HeldInRing
<1>9. b # NullFrame BY DEF NullFrame
<1>10. Len(st) = b /\ \A k \in 1..b : st[k] = e.state[k] BY <1>1, <1>4, <1>7, <1>9 DEF CellsTrue
<1>11. st \in History BY <1>2, <1>7
<1>12. qs \in [Players -> Queue] BY <1>2, ResetFields
<1>13. \A x \in Players : /\ qs[x].inputs = e.queues[x].inputs /\ qs[x].predicting = NullFrame
                          /\ qs[x].first_bad = NullFrame /\ Latest(qs[x]) = Latest(e.queues[x])
  BY <1>2, ResetFields
<1> HIDE DEF st, qs
<1>14. /\ t \in Engine /\ t.cur = b /\ t.state = st /\ t.queues = qs
       /\ t.cells = e.cells /\ t.head = e.head
  BY <1>1, <1>11, <1>12 DEF Engine
<1> HIDE DEF t
<1>15. Ring(t, e.cur) BY <1>1, <1>14 DEF Ring
<1>16. CellsTrue(t)
  <2> SUFFICES ASSUME NEW j \in Slots, e.cells[j].frame # NullFrame
               PROVE  /\ Len(e.cells[j].state) = e.cells[j].frame
                      /\ e.cells[j].frame < b =>
                           \A k \in 1..e.cells[j].frame : e.cells[j].state[k] = st[k]
    BY <1>14 DEF CellsTrue
  <2>1. PICK f \in Nat : f = e.cells[j].frame BY <1>2 DEF Frame
  <2>2. /\ Len(e.cells[j].state) = f
        /\ f < e.cur => \A k \in 1..f : e.cells[j].state[k] = e.state[k]
    BY <2>1, <1>1 DEF CellsTrue
  <2>3. f < b => f < e.cur /\ \A k \in 1..f : k \in 1..b BY <1>2, <1>4
  <2>4. f < b => \A k \in 1..f : e.cells[j].state[k] = st[k] BY <2>2, <2>3, <1>10
  <2> QED BY <2>1, <2>2, <2>4
<1>17. ASSUME NEW x \in Players PROVE Tracks(qs[x], st, x, b)
  <2>1. PICK L \in Nat : L = Len(e.queues[x].inputs) BY <1>2, QueueIsRecord
  <2>2. e.queues[x].first_bad \in Frame BY <1>2, QueueIsRecord
  <2>3. \A f \in 0..(e.cur - 1) :
          e.queues[x].first_bad = NullFrame \/ f < e.queues[x].first_bad =>
            e.state[f + 1][x] = IF f < L THEN e.queues[x].inputs[f + 1] ELSE Latest(e.queues[x])
    BY <2>1 DEF EngineInv, Tracks
  <2>4. ASSUME NEW f \in 0..(b - 1)
        PROVE  st[f + 1][x] = IF f < L THEN qs[x].inputs[f + 1] ELSE Latest(qs[x])
    <3>1. f \in 0..(e.cur - 1) /\ f + 1 \in 1..b BY <1>2, <1>4
    <3>2. e.queues[x].first_bad = NullFrame \/ f < e.queues[x].first_bad
      <4>1. CASE e.queues[x].first_bad # NullFrame
        <5>1. b <= e.queues[x].first_bad /\ e.queues[x].first_bad \in Nat
          BY <4>1, <1>4, <2>2 DEF Frame
        <5> QED BY <5>1
      <4> QED BY <4>1
    <3>3. st[f + 1] = e.state[f + 1] BY <3>1, <1>10
    <3> QED BY <3>1, <3>2, <3>3, <2>3, <1>13
  <2>5. Len(qs[x].inputs) = L BY <2>1, <1>13
  <2> QED BY <2>4, <2>5, <1>13 DEF Tracks
<1>18. EngineInv(t, e.cur) BY <1>10, <1>14, <1>15, <1>16, <1>17 DEF EngineInv
<1> QED BY <1>3, <1>5, <1>8, <1>13, <1>14, <1>18

\* Forward again from a loaded state to the frame after M.
LEMMA SimulatedInv ==
  ASSUME NEW e, NEW M \in Nat, EngineInv(e, M), e.cur <= M, M - e.cur <= CellCount
  PROVE  LET t == Simulated(e, M - e.cur + 1) IN
         /\ EngineInv(t, M + 1) /\ t.cur = M + 1 /\ Resting(t) /\ SameInputs(e, t, M)
<1>1. e \in Engine BY DEF EngineInv
<1>2. PICK c \in Nat : c = e.cur BY <1>1, EngineIsRecord
<1>3. PICK n \in Nat : n = M - c + 1 /\ c <= M /\ M - c <= CellCount /\ n >= 1 BY <1>2
<1>4. PICK F : /\ F[0] = e
               /\ \A k \in 1..n : F[k] = Simulate(F[k - 1])
               /\ Simulated(e, n) = F[n]
  BY SimulatedSteps
<1> DEFINE At(k, r) == /\ EngineInv(r, IF k = n THEN M + 1 ELSE M)
                       /\ r.cur = c + k /\ SameInputs(e, r, M)
                       /\ k > 0 => Resting(r)
           S == {k \in Nat : k <= n => At(k, F[k])}
<1>5. 0 \in S
  <2>1. SameInputs(e, e, M) BY DEF SameInputs
  <2>2. At(0, e) BY <2>1, <1>2, <1>3
  <2> HIDE DEF At
  <2> QED BY <2>2, <1>4
<1>6. ASSUME NEW k \in S PROVE k + 1 \in S
  <2> SUFFICES ASSUME k \in Nat, k <= n => At(k, F[k]), k + 1 <= n PROVE At(k + 1, F[k + 1])
    <3> HIDE DEF At
    <3> QED OBVIOUS
  <2> DEFINE r == F[k]
  <2>1. F[k + 1] = Simulate(r)
    <3>1. k + 1 \in 1..n /\ (k + 1) - 1 = k OBVIOUS
    <3> QED BY <3>1, <1>4
  <2>2. k <= n /\ k # n OBVIOUS
  <2>3. EngineInv(r, M) /\ r.cur = c + k /\ SameInputs(e, r, M) BY <2>2
  <2> HIDE DEF r
  <2>4. r.cur <= M /\ M - r.cur <= CellCount BY <2>3, <1>3, Sizes
  <2> DEFINE t == Simulate(r)
  <2>5. EngineInv(t, Reach(r.cur, M)) /\ t.cur = r.cur + 1 /\ Resting(t) /\ SameInputs(r, t, r.cur)
    BY <2>3, <2>4, SimulateInv
  <2> HIDE DEF t
  <2>6. Reach(r.cur, M) = IF k + 1 = n THEN M + 1 ELSE M
    <3>1. r.cur = M <=> k + 1 = n BY <2>3, <1>3
    <3> QED BY <3>1 DEF Reach
  <2>7. t.cur = c + (k + 1) BY <2>3, <2>5
  <2>8. SameInputs(e, t, M)
    <3> SUFFICES ASSUME NEW x \in Players
                 PROVE  /\ t.queues[x].inputs = e.queues[x].inputs
                        /\ t.queues[x].first_bad = e.queues[x].first_bad
                        /\ e.queues[x].predicting = NullFrame /\ M < Len(e.queues[x].inputs) =>
                             t.queues[x].predicting = NullFrame
      BY DEF SameInputs
    <3>1. PICK L \in Nat : L = Len(e.queues[x].inputs) BY <1>1, EngineIsRecord, QueueIsRecord
    <3>2. /\ r.queues[x].inputs = e.queues[x].inputs
          /\ r.queues[x].first_bad = e.queues[x].first_bad
          /\ e.queues[x].predicting = NullFrame /\ M < L => r.queues[x].predicting = NullFrame
      BY <2>3, <3>1 DEF SameInputs
    <3>3. /\ t.queues[x].inputs = r.queues[x].inputs
          /\ t.queues[x].first_bad = r.queues[x].first_bad
          /\ r.queues[x].predicting = NullFrame /\ r.cur < L => t.queues[x].predicting = NullFrame
      BY <2>5, <3>1, <3>2 DEF SameInputs
    <3>4. M < L => r.cur < L BY <2>3, <2>4
    <3> QED BY <3>1, <3>2, <3>3, <3>4
  <2>9. At(k + 1, t) BY <2>5, <2>6, <2>7, <2>8
  <2> HIDE DEF At
  <2> QED BY <2>1, <2>9 DEF t
<1>7. S \in SUBSET Nat OBVIOUS
<1> HIDE DEF S
<1>8. n \in S BY <1>5, <1>6, <1>7, Climb
<1>9. At(n, F[n])
  <2> HIDE DEF At
  <2> QED BY <1>8 DEF S
<1> DEFINE t == Simulated(e, n)
<1>10. At(n, t) BY <1>4, <1>9
<1> HIDE DEF t
<1>11. EngineInv(t, M + 1) /\ t.cur = M + 1 /\ Resting(t) /\ SameInputs(e, t, M) BY <1>10, <1>3
<1> QED BY <1>2, <1>3, <1>11 DEF t

\* advance_frame: whether it rolls back or not, one frame further.
LEMMA AdvancedInv ==
  ASSUME NEW e, EngineInv(e, e.cur)
  PROVE  LET t == Advanced(e) IN
         /\ EngineInv(t, t.cur) /\ t.cur = e.cur + 1 /\ Resting(t)
         /\ \A x \in Players :
              /\ t.queues[x].inputs = e.queues[x].inputs
              /\ /\ e.queues[x].predicting = NullFrame /\ e.queues[x].first_bad = NullFrame
                 /\ e.cur < Len(e.queues[x].inputs)
                 => t.queues[x].predicting = NullFrame /\ t.queues[x].first_bad = NullFrame
              /\ BadFrames(e) = {} \/ HoldsFrame(e, FirstBad(e)) # {} =>
                   t.queues[x].first_bad = NullFrame
<1>1. e \in Engine BY DEF EngineInv
<1>2. PICK c \in Nat : c = e.cur BY <1>1, EngineIsRecord
<1>3. CASE BadFrames(e) # {} /\ HoldsFrame(e, FirstBad(e)) # {}
  <2> DEFINE l == Loaded(e)
  <2>1. /\ EngineInv(l, e.cur) /\ l.cur = FirstBad(e)
        /\ e.cur - FirstBad(e) <= CellCount
        /\ \A x \in Players : /\ l.queues[x].inputs = e.queues[x].inputs
                              /\ l.queues[x].predicting = NullFrame
                              /\ l.queues[x].first_bad = NullFrame
    BY <1>3, LoadedInv
  <2>2. FirstBad(e) \in Nat /\ FirstBad(e) < e.cur BY <1>3, BadFacts
  <2>3. Advanced(e) = Simulated(l, e.cur - FirstBad(e) + 1) BY <1>3 DEF Advanced
  <2> HIDE DEF l
  <2> DEFINE t == Simulated(l, c - l.cur + 1)
  <2>4. EngineInv(l, c) /\ l.cur <= c /\ c - l.cur <= CellCount BY <2>1, <2>2, <1>2
  <2>5. EngineInv(t, c + 1) /\ t.cur = c + 1 /\ Resting(t) /\ SameInputs(l, t, c)
    BY <2>4, SimulatedInv
  <2>6. Advanced(e) = t BY <2>1, <2>3, <1>2
  <2> HIDE DEF t
  <2>7. ASSUME NEW x \in Players
        PROVE  /\ t.queues[x].inputs = e.queues[x].inputs
               /\ t.queues[x].first_bad = NullFrame
               /\ c < Len(e.queues[x].inputs) => t.queues[x].predicting = NullFrame
    BY <2>1, <2>5 DEF SameInputs
  <2> QED BY <2>5, <2>6, <2>7, <1>2
<1>4. CASE ~(BadFrames(e) # {} /\ HoldsFrame(e, FirstBad(e)) # {})
  <2> DEFINE t == Simulate(e)
  <2>1. Advanced(e) = t BY <1>4 DEF Advanced
  <2>2. e.cur \in Nat /\ e.cur <= e.cur /\ e.cur - e.cur <= CellCount BY <1>2, Sizes
  <2>3. EngineInv(t, Reach(e.cur, e.cur)) /\ t.cur = e.cur + 1 /\ Resting(t) /\ SameInputs(e, t, e.cur)
    BY <2>2, SimulateInv
  <2> HIDE DEF t
  <2>4. Reach(e.cur, e.cur) = t.cur BY <2>3 DEF Reach
  <2>5. BadFrames(e) = {} => \A x \in Players : e.queues[x].first_bad = NullFrame BY DEF BadFrames
  <2>6. ASSUME NEW x \in Players
        PROVE  /\ t.queues[x].inputs = e.queues[x].inputs
               /\ t.queues[x].first_bad = e.queues[x].first_bad
               /\ e.queues[x].predicting = NullFrame /\ e.cur < Len(e.queues[x].inputs) =>
                    t.queues[x].predicting = NullFrame
    BY <2>3 DEF SameInputs
  <2> QED BY <2>1, <2>3, <2>4, <2>5, <2>6, <1>4
<1> QED BY <1>3, <1>4

-----------------------------------------------------------------------------
(* Packets *)

\* The end of a sequence.
LEMMA Suffix ==
  ASSUME NEW s \in Seq(Int), NEW a \in Nat
  PROVE  /\ SubSeq(s, a + 1, Len(s)) \in Seq(Int)
         /\ Len(SubSeq(s, a + 1, Len(s))) = IF a <= Len(s) THEN Len(s) - a ELSE 0
         /\ \A k \in 1..(Len(s) - a) : SubSeq(s, a + 1, Len(s))[k] = s[a + k]
<1>1. PICK n \in Nat : n = Len(s) OBVIOUS
<1>2. \A i \in (a + 1)..n : s[i] \in Int
  <2>1. \A i \in (a + 1)..n : i \in 1..n OBVIOUS
  <2> QED BY <2>1, <1>1
<1>3. a + 1 \in Int /\ n \in Int OBVIOUS
<1> DEFINE b == a + 1
           t == SubSeq(s, b, n)
<1>4. b \in Int /\ \A i \in b..n : s[i] \in Int BY <1>2
<1> HIDE DEF b
<1>5. /\ t \in Seq(Int) /\ Len(t) = IF b <= n THEN n - b + 1 ELSE 0
      /\ \A i \in 1..(n - b + 1) : t[i] = s[b + i - 1]
  BY <1>3, <1>4, SubSeqProperties
<1> HIDE DEF t
<1>6. Len(t) = IF a <= n THEN n - a ELSE 0 BY <1>5 DEF b
<1>7. ASSUME NEW k \in 1..(n - a) PROVE t[k] = s[a + k]
  <2>1. k \in 1..(n - b + 1) /\ b + k - 1 = a + k BY DEF b
  <2> QED BY <2>1, <1>5
<1> QED BY <1>1, <1>5, <1>6, <1>7 DEF t, b

\* What is known of the players and their queues.
LEMMA Typed ==
  ASSUME TypeOK
  PROVE  \A p, x \in Players :
           /\ engine[p] \in Engine /\ engine[p].cur \in Nat /\ engine[p].queues[x] \in Queue
           /\ engine[p].queues[x].inputs \in Seq(Int) /\ Len(engine[p].queues[x].inputs) \in Nat
           /\ LastReceived(p, x) = Len(engine[p].queues[x].inputs) - 1
<1> SUFFICES ASSUME NEW p \in Players, NEW x \in Players
             PROVE  /\ engine[p] \in Engine /\ engine[p].cur \in Nat
                    /\ engine[p].queues[x] \in Queue
                    /\ engine[p].queues[x].inputs \in Seq(Int)
                    /\ Len(engine[p].queues[x].inputs) \in Nat
                    /\ LastReceived(p, x) = Len(engine[p].queues[x].inputs) - 1
  OBVIOUS
<1>1. engine[p] \in Engine BY DEF TypeOK
<1>2. engine[p].cur \in Nat /\ engine[p].queues[x] \in Queue BY <1>1, EngineIsRecord
<1>3. engine[p].queues[x].inputs \in Seq(Int) /\ Len(engine[p].queues[x].inputs) \in Nat
  BY <1>2, QueueIsRecord
<1> QED BY <1>1, <1>2, <1>3 DEF LastReceived, LastAdded

\* The same after a step.
LEMMA TypedNext ==
  ASSUME TypeOK'
  PROVE  \A p, x \in Players :
           /\ engine'[p] \in Engine /\ engine'[p].cur \in Nat /\ engine'[p].queues[x] \in Queue
           /\ engine'[p].queues[x].inputs \in Seq(Int) /\ Len(engine'[p].queues[x].inputs) \in Nat
           /\ LastReceived(p, x)' = Len(engine'[p].queues[x].inputs) - 1
<1> SUFFICES ASSUME NEW p \in Players, NEW x \in Players
             PROVE  /\ engine'[p] \in Engine /\ engine'[p].cur \in Nat
                    /\ engine'[p].queues[x] \in Queue
                    /\ engine'[p].queues[x].inputs \in Seq(Int)
                    /\ Len(engine'[p].queues[x].inputs) \in Nat
                    /\ LastReceived(p, x)' = Len(engine'[p].queues[x].inputs) - 1
  OBVIOUS
<1>1. engine'[p] \in Engine BY DEF TypeOK
<1>2. engine'[p].cur \in Nat /\ engine'[p].queues[x] \in Queue BY <1>1, EngineIsRecord
<1>3. engine'[p].queues[x].inputs \in Seq(Int) /\ Len(engine'[p].queues[x].inputs) \in Nat
  BY <1>2, QueueIsRecord
<1> QED BY <1>1, <1>2, <1>3 DEF LastReceived, LastAdded

\* No input is forgotten.
Kept == \A p, x \in Players : PrefixOf(engine[p].queues[x].inputs, engine'[p].queues[x].inputs)

\* What was true of a packet when it was sent stays true.
LEMMA OldPackets ==
  ASSUME TypeOK, TypeOK', Kept, NEW m, PacketInv(m)
  PROVE  PacketInv(m)'
<1>1. m.from \in Players /\ m.to \in Players /\ m.from # m.to BY DEF PacketInv
<1>2. PICK a, b \in Players : a = m.from /\ b = m.to BY <1>1
<1>3. /\ PrefixOf(engine[a].queues[a].inputs, engine'[a].queues[a].inputs)
      /\ PrefixOf(engine[b].queues[a].inputs, engine'[b].queues[a].inputs)
      /\ PrefixOf(engine[a].queues[b].inputs, engine'[a].queues[b].inputs)
  BY DEF Kept
<1>4. PICK s, t \in Seq(Int) : s = engine[a].queues[a].inputs /\ t = engine'[a].queues[a].inputs
  BY Typed, TypedNext
<1>5. PICK n1, n2, n3, n4 \in Nat :
        /\ n1 = Len(engine[b].queues[a].inputs) /\ n2 = Len(engine'[b].queues[a].inputs)
        /\ n3 = Len(engine[a].queues[b].inputs) /\ n4 = Len(engine'[a].queues[b].inputs)
  BY Typed, TypedNext
<1>6. n1 <= n2 /\ n3 <= n4 BY <1>3, <1>5 DEF PrefixOf
<1>7. Len(s) <= Len(t) /\ \A k \in 1..Len(s) : s[k] = t[k] BY <1>3, <1>4 DEF PrefixOf
<1>8. ASSUME InputSent(m) PROVE InputSent(m)'
  <2>1. PICK st \in Nat, ins \in Seq(Int) : st = m.body.start /\ ins = m.body.inputs
    BY <1>8 DEF InputSent
  <2>2. /\ st >= InputDelay[a] /\ (st = InputDelay[a] \/ st <= n1)
        /\ st + Len(ins) <= Len(s) /\ \A k \in 1..Len(ins) : ins[k] = s[st + k]
    BY <1>2, <1>4, <1>5, <1>8, <2>1 DEF InputSent, Truth
  <2>3. st = InputDelay[a] \/ st <= n2 BY <2>2, <1>6
  <2>4. st + Len(ins) <= Len(t)
    <3>1. Len(ins) \in Nat /\ Len(s) \in Nat /\ Len(t) \in Nat OBVIOUS
    <3> QED BY <3>1, <2>2, <1>7
  <2>5. ASSUME NEW k \in 1..Len(ins) PROVE ins[k] = t[st + k]
    <3>1. Len(ins) \in Nat /\ Len(s) \in Nat OBVIOUS
    <3>2. st + k \in 1..Len(s) BY <3>1, <2>2
    <3> QED BY <3>2, <2>2, <1>7
  <2> QED BY <1>2, <1>4, <1>5, <2>1, <2>2, <2>3, <2>4, <2>5 DEF InputSent, Truth
<1>9. ASSUME AckSent(m) PROVE AckSent(m)'
  <2>1. m.body.frame \in Frame /\ m.body.frame <= LastReceived(a, b) BY <1>2, <1>9 DEF AckSent
  <2>2. LastReceived(a, b) = n3 - 1 /\ LastReceived(a, b)' = n4 - 1
    BY <1>5, Typed, TypedNext
  <2>3. m.body.frame <= n4 - 1 BY <2>1, <2>2, <1>6 DEF Frame, NullFrame
  <2> QED BY <1>2, <2>1, <2>2, <2>3 DEF AckSent
<1> QED BY <1>1, <1>8, <1>9 DEF PacketInv

\* The inputs a tick sends begin where the peer's begin to be missing.
LEMMA InputsGoOut ==
  ASSUME TypeOK', NEW p \in Players, NEW q \in Others(p), NEW acked \in Frame,
         acked <= LastReceived(q, p)',
         NEW m \in InputPackets(p, q, engine'[p].queues[p], acked)
  PROVE  PacketInv(m)'
<1>1. PICK s \in Seq(Int) : s = engine'[p].queues[p].inputs BY TypedNext
<1>2. q \in Players /\ q # p BY DEF Others
<1>3. PICK n \in Nat : n = Len(engine'[q].queues[p].inputs) /\ acked <= n - 1 BY <1>2, TypedNext
<1>4. PICK d \in Nat : d = InputDelay[p] BY Sizes
<1>5. PICK L \in Nat : L = Len(s) OBVIOUS
<1> DEFINE todo == Pending(p, engine'[p].queues[p], acked)
           start == CHOOSE f \in todo : \A g \in todo : f <= g
<1>6. todo = {f \in d..(L - 1) : f > acked} BY <1>1, <1>4, <1>5 DEF Pending, LastAdded
<1>7. /\ todo # {}
      /\ m = Packet(p, q, [kind |-> "input", start |-> start,
                           inputs |-> SubSeq(engine'[p].queues[p].inputs, start + 1,
                                             Len(engine'[p].queues[p].inputs))])
  BY DEF InputPackets
<1>8. todo \in SUBSET Nat BY <1>6
<1> HIDE DEF todo
<1>9. \E f \in todo : \A g \in todo : f <= g BY <1>7, <1>8, LeastNat
<1>10. start \in todo /\ \A g \in todo : start <= g BY <1>9
<1> HIDE DEF start
<1>11. PICK a \in Nat : a = start /\ a \in d..(L - 1) BY <1>6, <1>10
<1>12. a = d \/ a <= n
  <2>1. CASE a > d
    <3>1. a - 1 \in d..(L - 1) BY <2>1, <1>11
    <3>2. a - 1 \notin todo BY <1>10, <1>11
    <3>3. ~(a - 1 > acked) BY <3>1, <3>2, <1>6
    <3> QED BY <3>3, <1>3 DEF Frame, NullFrame
  <2> QED BY <2>1, <1>11
<1> DEFINE ins == SubSeq(s, a + 1, Len(s))
<1>13. /\ ins \in Seq(Int) /\ Len(ins) = IF a <= Len(s) THEN Len(s) - a ELSE 0
       /\ \A k \in 1..(Len(s) - a) : ins[k] = s[a + k]
  BY Suffix
<1>14. m = Packet(p, q, [kind |-> "input", start |-> a, inputs |-> ins]) BY <1>1, <1>7, <1>11
<1> HIDE DEF ins
<1>15. Len(ins) = L - a /\ \A k \in 1..(L - a) : ins[k] = s[a + k] BY <1>5, <1>11, <1>13
<1>16. /\ m.from = p /\ m.to = q /\ m.magic = "now" /\ m.body.kind = "input"
       /\ m.body.start = a /\ m.body.inputs = ins
  BY <1>14 DEF Packet
<1>17. a + (L - a) <= L /\ a >= d BY <1>11
<1>18. InputSent(m)'
  BY <1>1, <1>3, <1>4, <1>5, <1>12, <1>13, <1>15, <1>16, <1>17 DEF InputSent, Truth
<1> QED BY <1>2, <1>16, <1>18 DEF PacketInv

-----------------------------------------------------------------------------
(* A poll, whatever it drained: the engine, the peers and the replies it      *)
(* leaves are such that the tick and the session keep the invariant.          *)

EngStep(p, eng) ==
  /\ eng \in Engine /\ eng.cur = engine[p].cur /\ eng.state = engine[p].state
  /\ eng.head = engine[p].head /\ eng.cells = engine[p].cells
  /\ eng.queues[p] = engine[p].queues[p]
  /\ \A x \in Players : /\ AtRest(eng.queues[x], eng.state, x, eng.cur)
                        /\ Grows(engine[p].queues[x], eng.queues[x])
                        /\ PrefixOf(eng.queues[x].inputs, Truth(x))

PrsStep(p, prs) ==
  /\ prs \in [Others(p) -> Peer]
  /\ \A q \in Others(p) : /\ prs[q].acked <= LastReceived(q, p)
                          /\ peers[p][q].state = "gone" => prs[q].state = "gone"

RepStep(p, eng, R) ==
  \A m \in R : /\ m.from = p /\ m.to \in Others(p) /\ m.body.kind # "input"
               /\ m.body.kind = "ack" => m.body.frame = LastAdded(eng.queues[m.to])

Polled(p, eng, prs, R) ==
  /\ Refresh(p, eng, prs)
  /\ net' = net \cup R \cup Ticked(p, eng, prs)
  /\ sums' = sums

\* The confirmed frame never passes what came in from a peer that is there.
LEMMA ConfirmedFacts ==
  ASSUME TypeOK, NEW p \in Players, NEW eng \in Engine, NEW prs
  PROVE  /\ ConfirmedAfter(p, eng, prs) \in Frame
         /\ /\ \A q \in Others(p) : prs[q].state # "gone"
            /\ \A q \in Others(p) : confirmed[p] <= LastAdded(eng.queues[q])
            => \A q \in Others(p) : ConfirmedAfter(p, eng, prs) <= LastAdded(eng.queues[q])
<1> DEFINE live == {q \in Others(p) : prs[q].state # "gone"}
           known == {LastAdded(eng.queues[q]) : q \in live}
           least == CHOOSE f \in known : \A g \in known : f <= g
<1>1. PICK c \in Frame : c = confirmed[p] BY DEF TypeOK
<1>2. eng.cur \in Nat /\ \A x \in Players : eng.queues[x] \in Queue BY EngineIsRecord
<1>3. \A x \in Players : LastAdded(eng.queues[x]) \in Frame
  <2> TAKE x \in Players
  <2>1. PICK n \in Nat : n = Len(eng.queues[x].inputs) BY <1>2, QueueIsRecord
  <2>2. n - 1 \in Frame BY DEF Frame, NullFrame
  <2> QED BY <2>1, <2>2 DEF LastAdded
<1>4. known \in SUBSET Frame BY <1>3 DEF Others
<1>5. ConfirmedAfter(p, eng, prs) = Max2(c, IF live = {} THEN eng.cur ELSE least)
  BY <1>1 DEF ConfirmedAfter
<1>6. live # {} => least \in known /\ \A g \in known : least <= g
  <2> SUFFICES ASSUME live # {} PROVE least \in known /\ \A g \in known : least <= g OBVIOUS
  <2>1. known # {} OBVIOUS
  <2> HIDE DEF known
  <2>2. \E f \in known : \A g \in known : f <= g BY <2>1, <1>4, LeastFrame
  <2> QED BY <2>2
<1> DEFINE w == IF live = {} THEN eng.cur ELSE least
<1>7. w \in Frame
  <2> HIDE DEF live, known, least
  <2> QED BY <1>2, <1>4, <1>6 DEF Frame
<1>8. ASSUME live # {} PROVE w = least BY <1>8
<1>9. \A q \in live : LastAdded(eng.queues[q]) \in known OBVIOUS
<1>10. live \subseteq Others(p) OBVIOUS
<1>11. (\A q \in Others(p) : prs[q].state # "gone") => live = Others(p) OBVIOUS
<1> HIDE DEF live, known, least, w
<1>12. ConfirmedAfter(p, eng, prs) = Max2(c, w) BY <1>5 DEF w
<1>13. Max2(c, w) \in Frame BY <1>7 DEF Max2
<1>14. ASSUME \A q \in Others(p) : prs[q].state # "gone",
              \A q \in Others(p) : confirmed[p] <= LastAdded(eng.queues[q])
       PROVE  \A q \in Others(p) : ConfirmedAfter(p, eng, prs) <= LastAdded(eng.queues[q])
  <2> TAKE q \in Others(p)
  <2>1. live # {} /\ q \in live BY <1>11, <1>14
  <2>2. w <= LastAdded(eng.queues[q]) BY <2>1, <1>6, <1>8, <1>9
  <2>3. c <= LastAdded(eng.queues[q]) BY <1>1, <1>14
  <2> QED BY <2>2, <2>3, <1>12 DEF Max2
<1> QED BY <1>12, <1>13, <1>14

\* What a poll changes.
LEMMA PolledTypes ==
  ASSUME IInv, NEW p \in Players, NEW eng, NEW prs, NEW R,
         EngStep(p, eng), PrsStep(p, prs), Polled(p, eng, prs, R)
  PROVE  /\ TypeOK' /\ Kept
         /\ engine'[p] = eng /\ \A r \in Players \ {p} : engine'[r] = engine[r]
         /\ peers'[p] = prs /\ \A r \in Players \ {p} : peers'[r] = peers[r]
         /\ confirmed'[p] = ConfirmedAfter(p, eng, prs)
         /\ \A r \in Players \ {p} : confirmed'[r] = confirmed[r]
         /\ \A x \in Players : Truth(x)' = Truth(x)
         /\ \A r \in Players : Live(r)' => Live(r)
<1>1. TypeOK BY DEF IInv
<1>2. eng \in Engine /\ prs \in [Others(p) -> Peer] BY DEF EngStep, PrsStep
<1>3. /\ engine' = [engine EXCEPT ![p] = eng]
      /\ peers' = [peers EXCEPT ![p] = prs]
      /\ running' = [running EXCEPT ![p] = @ \/ \A q \in Others(p) : prs[q].state = "running"]
      /\ confirmed' = [confirmed EXCEPT ![p] = ConfirmedAfter(p, eng, prs)]
      /\ sums' = sums
  BY DEF Polled, Refresh
<1>4. engine' \in [Players -> Engine] /\ engine'[p] = eng
      /\ \A r \in Players \ {p} : engine'[r] = engine[r]
  BY <1>1, <1>2, <1>3 DEF TypeOK
<1>5. DOMAIN peers' = Players /\ peers'[p] = prs /\ \A r \in Players \ {p} : peers'[r] = peers[r]
  BY <1>1, <1>3 DEF TypeOK
<1>6. ConfirmedAfter(p, eng, prs) \in Frame BY <1>1, <1>2, ConfirmedFacts
<1>7. confirmed' \in [Players -> Frame] /\ confirmed'[p] = ConfirmedAfter(p, eng, prs)
      /\ \A r \in Players \ {p} : confirmed'[r] = confirmed[r]
  BY <1>1, <1>3, <1>6 DEF TypeOK
<1>8. running' \in [Players -> BOOLEAN]
  <2>1. running \in [Players -> BOOLEAN] BY <1>1 DEF TypeOK
  <2>2. PICK b \in BOOLEAN : b = (running[p] \/ \A q \in Others(p) : prs[q].state = "running")
    OBVIOUS
  <2>3. running' = [running EXCEPT ![p] = b] BY <1>3, <2>2
  <2> QED BY <2>1, <2>3
<1>9. \A r \in Players : peers'[r] \in [Others(r) -> Peer]
  <2>1. \A r \in Players : peers[r] \in [Others(r) -> Peer] BY <1>1 DEF TypeOK
  <2> QED BY <2>1, <1>2, <1>5
<1>10. DOMAIN sums' = Players BY <1>1, <1>3 DEF TypeOK
<1>11. TypeOK' BY <1>4, <1>5, <1>7, <1>8, <1>9, <1>10 DEF TypeOK
<1>12. Kept
  <2> SUFFICES ASSUME NEW r \in Players, NEW x \in Players
               PROVE  PrefixOf(engine[r].queues[x].inputs, engine'[r].queues[x].inputs)
    BY DEF Kept
  <2>1. CASE r = p BY <2>1, <1>4 DEF EngStep, Grows
  <2>2. CASE r # p
    <3>1. engine'[r] = engine[r] BY <2>2, <1>4
    <3>2. Len(engine[r].queues[x].inputs) \in Nat BY <1>1, Typed
    <3> QED BY <3>1, <3>2 DEF PrefixOf
  <2> QED BY <2>1, <2>2
<1>13. \A x \in Players : Truth(x)' = Truth(x) BY <1>4 DEF Truth, EngStep
<1>14. ASSUME NEW r \in Players, Live(r)' PROVE Live(r)
  <2> SUFFICES ASSUME NEW q \in Others(r) PROVE peers[r][q].state # "gone" BY DEF Live
  <2>1. peers'[r][q].state # "gone" BY <1>14 DEF Live
  <2>2. CASE r = p BY <2>1, <2>2, <1>5 DEF PrsStep
  <2>3. CASE r # p BY <2>1, <2>3, <1>5
  <2> QED BY <2>2, <2>3
<1> QED BY <1>4, <1>5, <1>7, <1>11, <1>12, <1>13, <1>14

\* The packets a poll sends are true, and so are the acks it believes.
LEMMA PolledNet ==
  ASSUME IInv, NEW p \in Players, NEW eng, NEW prs, NEW R,
         EngStep(p, eng), PrsStep(p, prs), RepStep(p, eng, R), Polled(p, eng, prs, R)
  PROVE  NetInv' /\ AckedInputsArrived'
<1>1. /\ TypeOK' /\ Kept
      /\ engine'[p] = eng /\ \A r \in Players \ {p} : engine'[r] = engine[r]
      /\ peers'[p] = prs /\ \A r \in Players \ {p} : peers'[r] = peers[r]
  BY PolledTypes
<1>2. TypeOK /\ NetInv /\ AckedInputsArrived BY DEF IInv
<1>3. \A r, x \in Players : /\ LastReceived(r, x) <= LastReceived(r, x)'
                            /\ LastReceived(r, x)' \in Frame /\ LastReceived(r, x) \in Frame
  <2> TAKE r, x \in Players
  <2>1. PICK a, b \in Nat : a = Len(engine[r].queues[x].inputs) /\ b = Len(engine'[r].queues[x].inputs)
    BY <1>1, <1>2, Typed, TypedNext
  <2>2. a <= b BY <2>1, <1>1 DEF Kept, PrefixOf
  <2>3. LastReceived(r, x) = a - 1 /\ LastReceived(r, x)' = b - 1
    BY <2>1, <1>1, <1>2, Typed, TypedNext
  <2>4. a - 1 <= b - 1 /\ a - 1 \in Frame /\ b - 1 \in Frame BY <2>2 DEF Frame, NullFrame
  <2> QED BY <2>3, <2>4
<1>4. \A r \in Players : \A q \in Others(r) : peers'[r][q].acked \in Frame
  BY <1>1 DEF TypeOK, Peer
<1>5. ASSUME NEW r \in Players, NEW q \in Others(r)
      PROVE  peers'[r][q].acked <= LastReceived(q, r)'
  <2>1. q \in Players BY DEF Others
  <2>2. peers'[r][q].acked <= LastReceived(q, r)
    <3>1. CASE r = p BY <3>1, <1>1 DEF PrsStep
    <3>2. CASE r # p BY <3>2, <1>1, <1>2 DEF AckedInputsArrived
    <3> QED BY <3>1, <3>2
  <2> QED BY <2>1, <2>2, <1>3, <1>4 DEF Frame, NullFrame
<1>6. AckedInputsArrived' BY <1>5 DEF AckedInputsArrived
<1>7. ASSUME NEW m \in net PROVE PacketInv(m)' BY <1>1, <1>2, OldPackets DEF NetInv
<1>8. ASSUME NEW m \in R PROVE PacketInv(m)'
  <2>1. /\ m.from = p /\ m.to \in Others(p) /\ m.body.kind # "input"
        /\ m.body.kind = "ack" => m.body.frame = LastAdded(eng.queues[m.to])
    BY DEF RepStep
  <2>2. m.to \in Players /\ m.to # p BY <2>1 DEF Others
  <2>3. LastReceived(p, m.to)' = LastAdded(eng.queues[m.to]) BY <1>1 DEF LastReceived
  <2>4. LastReceived(p, m.to)' \in Frame BY <1>3, <2>2
  <2>5. LastReceived(p, m.to)' <= LastReceived(p, m.to)' BY <2>4 DEF Frame, NullFrame
  <2>6. m.body.kind = "ack" => AckSent(m)' BY <2>1, <2>3, <2>4, <2>5 DEF AckSent
  <2> QED BY <2>1, <2>2, <2>6 DEF PacketInv
<1>9. ASSUME NEW m \in Ticked(p, eng, prs) PROVE PacketInv(m)'
  <2>1. PICK q \in Others(p) :
          m \in IF prs[q].state = "syncing"
                  THEN {Packet(p, q, [kind |-> "request", token |-> prs[q].left])}
                ELSE IF prs[q].state = "running"
                  THEN InputPackets(p, q, eng.queues[p], prs[q].acked) ELSE {}
    BY <1>9 DEF Ticked
  <2>2. q \in Players /\ q # p BY DEF Others
  <2>3. CASE m = Packet(p, q, [kind |-> "request", token |-> prs[q].left])
    <3>1. m.from = p /\ m.to = q /\ m.body.kind = "request" BY <2>3 DEF Packet
    <3> QED BY <3>1, <2>2 DEF PacketInv
  <2>4. CASE m \in InputPackets(p, q, engine'[p].queues[p], prs[q].acked)
    <3>1. prs[q].acked \in Frame /\ prs[q].acked <= LastReceived(q, p)' BY <1>1, <1>4, <1>5
    <3> QED BY <3>1, <2>4, <1>1, InputsGoOut
  <2> QED BY <2>1, <2>3, <2>4, <1>1
<1>10. net' = net \cup R \cup Ticked(p, eng, prs) BY DEF Polled
<1>11. NetInv' BY <1>7, <1>8, <1>9, <1>10 DEF NetInv
<1> QED BY <1>6, <1>11

\* A poll keeps the invariant.
LEMMA PolledInv ==
  ASSUME IInv, NEW p \in Players, NEW eng, NEW prs, NEW R,
         EngStep(p, eng), PrsStep(p, prs), RepStep(p, eng, R), Polled(p, eng, prs, R)
  PROVE  IInv'
<1>1. /\ TypeOK' /\ Kept
      /\ engine'[p] = eng /\ \A r \in Players \ {p} : engine'[r] = engine[r]
      /\ peers'[p] = prs /\ \A r \in Players \ {p} : peers'[r] = peers[r]
      /\ confirmed'[p] = ConfirmedAfter(p, eng, prs)
      /\ \A r \in Players \ {p} : confirmed'[r] = confirmed[r]
      /\ \A x \in Players : Truth(x)' = Truth(x)
      /\ \A r \in Players : Live(r)' => Live(r)
  BY PolledTypes
<1>2. TypeOK /\ EnginesInv /\ OwnInv /\ QueuesInv /\ AheadInv /\ SumsInv BY DEF IInv
<1>3. NetInv' /\ AckedInputsArrived' BY PolledNet
<1>4. EnginesInv'
  <2> SUFFICES ASSUME NEW r \in Players
               PROVE  /\ EngineInv(engine'[r], engine'[r].cur)
                      /\ \A x \in Players : Settled(engine'[r].queues[x], engine'[r].cur)
    BY DEF EnginesInv
  <2>1. CASE r = p
    <3>1. EngineInv(engine[p], engine[p].cur) BY <1>2 DEF EnginesInv
    <3>2. Ring(eng, eng.cur) BY <3>1 DEF EngineInv, EngStep, Ring
    <3>3. CellsTrue(eng) BY <3>1 DEF EngineInv, EngStep, CellsTrue
    <3>4. Len(eng.state) = eng.cur /\ eng \in Engine BY <3>1 DEF EngineInv, EngStep
    <3>5. \A x \in Players : Tracks(eng.queues[x], eng.state, x, eng.cur) /\ Settled(eng.queues[x], eng.cur)
      BY DEF EngStep, AtRest
    <3> QED BY <2>1, <1>1, <3>2, <3>3, <3>4, <3>5 DEF EngineInv
  <2>2. CASE r # p BY <2>2, <1>1, <1>2 DEF EnginesInv
  <2> QED BY <2>1, <2>2
<1>5. OwnInv'
  <2>1. \A r \in Players : engine'[r].queues[r] = engine[r].queues[r] /\ engine'[r].cur = engine[r].cur
    BY <1>1 DEF EngStep
  <2> QED BY <2>1, <1>2 DEF OwnInv
<1>6. QueuesInv'
  <2> SUFFICES ASSUME NEW r \in Players, NEW x \in Players
               PROVE  PrefixOf(engine'[r].queues[x].inputs, Truth(x))
    BY <1>1 DEF QueuesInv
  <2>1. CASE r = p BY <2>1, <1>1 DEF EngStep
  <2>2. CASE r # p BY <2>2, <1>1, <1>2 DEF QueuesInv
  <2> QED BY <2>1, <2>2
<1>7. AheadInv'
  <2> SUFFICES ASSUME NEW r \in Players, Live(r)'
               PROVE  /\ \A q \in Others(r) :
                           /\ confirmed'[r] <= LastReceived(r, q)'
                           /\ engine'[r].cur <= Len(engine'[r].queues[q].inputs) + MaxPrediction
                      /\ \A q \in Players :
                           engine'[r].queues[q].first_bad # NullFrame =>
                             engine'[r].cur <= engine'[r].queues[q].first_bad + MaxPrediction
    BY DEF AheadInv
  <2>1. Live(r) BY <1>1
  <2>2. /\ \A q \in Others(r) :
             /\ confirmed[r] <= LastReceived(r, q)
             /\ engine[r].cur <= Len(engine[r].queues[q].inputs) + MaxPrediction
        /\ \A q \in Players :
             engine[r].queues[q].first_bad # NullFrame =>
               engine[r].cur <= engine[r].queues[q].first_bad + MaxPrediction
    BY <2>1, <1>2 DEF AheadInv
  <2>3. CASE r # p
    <3>1. engine'[r] = engine[r] /\ confirmed'[r] = confirmed[r] BY <2>3, <1>1
    <3>2. \A q : LastReceived(r, q)' = LastReceived(r, q) BY <3>1 DEF LastReceived
    <3> QED BY <2>2, <3>1, <3>2
  <2>4. CASE r = p
    <3>1. eng.cur = engine[p].cur /\ eng \in Engine BY DEF EngStep
    <3>2. PICK c \in Nat : c = engine[p].cur BY <1>2, Typed
    <3>3. \A q \in Players : /\ Len(engine[p].queues[q].inputs) \in Nat
                             /\ Len(eng.queues[q].inputs) \in Nat
                             /\ Len(engine[p].queues[q].inputs) <= Len(eng.queues[q].inputs)
      <4> TAKE q \in Players
      <4>1. PrefixOf(engine[p].queues[q].inputs, eng.queues[q].inputs) BY DEF EngStep, Grows
      <4>2. eng.queues[q] \in Queue BY <3>1, EngineIsRecord
      <4> QED BY <4>1, <4>2, <1>2, Typed, QueueIsRecord DEF PrefixOf
    <3>4. ASSUME NEW q \in Others(p)
          PROVE  /\ confirmed[p] <= LastAdded(eng.queues[q])
                 /\ c <= Len(eng.queues[q].inputs) + MaxPrediction
      <4>1. q \in Players BY DEF Others
      <4>2. PICK a, b \in Nat : a = Len(engine[p].queues[q].inputs) /\ b = Len(eng.queues[q].inputs)
                                /\ a <= b
        BY <3>3, <4>1
      <4>3. confirmed[p] \in Frame BY <1>2 DEF TypeOK
      <4>4. confirmed[p] <= a - 1 /\ c <= a + MaxPrediction
        BY <2>2, <2>4, <3>2, <4>1, <4>2 DEF LastReceived, LastAdded
      <4>5. a <= b BY <4>2
      <4>6. PICK k \in Frame : k = confirmed[p] BY <4>3
      <4>7. k <= a - 1 BY <4>4, <4>6
      <4>8. k <= b - 1 /\ c <= b + MaxPrediction
        BY <4>4, <4>5, <4>7, Sizes DEF Frame, NullFrame
      <4>9. confirmed[p] <= b - 1 /\ c <= b + MaxPrediction BY <4>6, <4>8
      <4> QED BY <4>2, <4>9 DEF LastAdded
    <3>5. \A q \in Others(p) : confirmed'[p] <= LastReceived(p, q)'
      <4>1. \A q \in Others(p) : prs[q].state # "gone" BY <2>4, <1>1 DEF Live
      <4>2. \A q \in Others(p) : confirmed[p] <= LastAdded(eng.queues[q]) BY <3>4
      <4>3. \A q \in Others(p) : ConfirmedAfter(p, eng, prs) <= LastAdded(eng.queues[q])
        BY <3>1, <4>1, <4>2, <1>2, ConfirmedFacts
      <4> QED BY <4>3, <1>1 DEF LastReceived
    <3>6. ASSUME NEW q \in Players, eng.queues[q].first_bad # NullFrame
          PROVE  c <= eng.queues[q].first_bad + MaxPrediction
      <4>1. CASE eng.queues[q].first_bad = engine[p].queues[q].first_bad
        BY <3>6, <4>1, <2>2, <2>4, <3>2
      <4>2. CASE eng.queues[q].first_bad # engine[p].queues[q].first_bad
        <5>1. eng.queues[q].first_bad >= Len(engine[p].queues[q].inputs) BY <4>2 DEF EngStep, Grows
        <5>2. q # p BY <4>2 DEF EngStep
        <5>3. c <= Len(engine[p].queues[q].inputs) + MaxPrediction
          BY <5>2, <2>2, <2>4, <3>2 DEF Others
        <5>4. PICK a \in Nat : a = Len(engine[p].queues[q].inputs) BY <3>3
        <5>5. PICK b \in Frame : b = eng.queues[q].first_bad
          BY <3>1, EngineIsRecord, QueueIsRecord
        <5>6. b >= a /\ c <= a + MaxPrediction BY <5>1, <5>3, <5>4, <5>5
        <5>7. c <= b + MaxPrediction BY <5>6, Sizes DEF Frame, NullFrame
        <5> QED BY <5>5, <5>7
      <4> QED BY <4>1, <4>2
    <3> QED BY <2>4, <1>1, <3>1, <3>2, <3>4, <3>5, <3>6
  <2> QED BY <2>3, <2>4
<1>8. SumsInv'
  <2>1. sums' = sums BY DEF Polled
  <2>2. ASSUME NEW r \in Players, Live(r)', NEW s \in sums'[r]
        PROVE  /\ s.frame \in Nat /\ s.state \in History /\ Len(s.state) = s.frame
               /\ \A x \in Players : /\ s.frame <= Len(Truth(x)')
                                     /\ \A k \in 1..s.frame : s.state[k][x] = Truth(x)'[k]
    <3>1. Live(r) /\ s \in sums[r] BY <2>1, <2>2, <1>1
    <3>2. /\ s.frame \in Nat /\ s.state \in History /\ Len(s.state) = s.frame
          /\ \A x \in Players : /\ s.frame <= Len(Truth(x))
                                /\ \A k \in 1..s.frame : s.state[k][x] = Truth(x)[k]
      BY <3>1, <1>2 DEF SumsInv
    <3> QED BY <3>2, <1>1
  <2> QED BY <2>2 DEF SumsInv
<1> QED BY <1>1, <1>3, <1>4, <1>5, <1>6, <1>7, <1>8 DEF IInv

\* What a packet of inputs makes of the queue: a longer prefix of what its
\* sender pressed.
LEMMA QueueAfterInv ==
  ASSUME IInv, NEW p \in Players, NEW q \in Others(p), NEW m,
         m.from = q, m.to = p, InputSent(m)
  PROVE  LET r == QueueAfter(p, q, m.body) IN
         /\ AtRest(r, engine[p].state, q, engine[p].cur)
         /\ Grows(engine[p].queues[q], r) /\ PrefixOf(r.inputs, Truth(q))
<1>1. TypeOK /\ EnginesInv /\ OwnInv /\ QueuesInv BY DEF IInv
<1>2. q \in Players BY DEF Others
<1>3. PICK Q \in Queue : Q = engine[p].queues[q] BY <1>1, <1>2, Typed
<1>4. PICK T \in Seq(Int) : T = Truth(q) BY <1>1, <1>2, Typed DEF Truth
<1>5. PICK s \in Nat, ins \in Seq(Int) : s = m.body.start /\ ins = m.body.inputs BY DEF InputSent
<1>6. PICK L, n, N \in Nat : L = Len(Q.inputs) /\ n = Len(ins) /\ N = Len(T) BY QueueIsRecord
<1>7. PICK d \in Nat : d = InputDelay[q] BY <1>2, Sizes
<1>8. /\ s >= d /\ (s = d \/ s <= L) /\ s + n <= N
      /\ \A k \in 1..n : ins[k] = T[s + k]
  BY <1>3, <1>4, <1>5, <1>6, <1>7 DEF InputSent
<1>9. PICK cur \in Nat, st \in History : cur = engine[p].cur /\ st = engine[p].state
  BY <1>1, Typed, EngineIsRecord
<1>10. AtRest(Q, st, q, cur)
  BY <1>1, <1>2, <1>3, <1>9 DEF EnginesInv, EngineInv, AtRest
<1>11. L <= N /\ \A k \in 1..L : Q.inputs[k] = T[k]
  BY <1>1, <1>2, <1>3, <1>4, <1>6 DEF QueuesInv, PrefixOf
<1>12. LastReceived(p, q) = L - 1 BY <1>1, <1>2, <1>3, <1>6, Typed
<1> DEFINE new == NewInputs(p, q, m.body)
           from == s + n - Len(new)
           r == Feed(Q, from, new)
<1>13. QueueAfter(p, q, m.body) = r BY <1>3, <1>5, <1>6 DEF QueueAfter
<1>14. AtRest(r, st, q, cur) /\ Grows(Q, r) /\ PrefixOf(r.inputs, T)
  <2>1. CASE new = <<>>
    <3>1. Len(new) = 0 BY <2>1
    <3> HIDE DEF new
    <3>2. Len(new) \in Nat BY <3>1
    <3> HIDE DEF from
    <3>3. PICK F : Feeds(F, Q, from, new) BY <3>2, FeedSteps, Zenon
    <3>4. r = Q BY <3>1, <3>3 DEF Feeds
    <3>5. Grows(Q, Q) BY GrowsRefl
    <3>6. PrefixOf(Q.inputs, T) BY <1>6, <1>11 DEF PrefixOf
    <3> QED BY <3>4, <3>5, <3>6, <1>10
  <2>2. CASE new # <<>>
    <3> DEFINE skip == Max2(L - s, 0)
    <3>1. skip \in Nat BY DEF Max2
    <3>2. ~(L - 1 # NullFrame /\ s > L)
      <4>1. (L - 1) + 1 = L OBVIOUS
      <4> QED BY <2>2, <4>1, <1>5, <1>12 DEF NewInputs
    <3>3. new = SubSeq(ins, skip + 1, Len(ins))
      <4>1. (L - 1) + 1 = L OBVIOUS
      <4>2. (L - 1) + 1 - s = L - s OBVIOUS
      <4> QED BY <3>2, <4>1, <4>2, <1>5, <1>12 DEF NewInputs
    <3>4. s <= L \/ (L = 0 /\ s = d) BY <3>2, <1>8 DEF NullFrame
    <3>5. skip = IF s <= L THEN L - s ELSE 0 BY DEF Max2
    <3> HIDE DEF skip
    <3>6. /\ SubSeq(ins, skip + 1, Len(ins)) \in Seq(Int)
          /\ Len(SubSeq(ins, skip + 1, Len(ins))) = IF skip <= Len(ins) THEN Len(ins) - skip ELSE 0
          /\ \A k \in 1..(Len(ins) - skip) : SubSeq(ins, skip + 1, Len(ins))[k] = ins[skip + k]
      BY <3>1, Suffix
    <3>7. /\ new \in Seq(Int) /\ Len(new) = IF skip <= n THEN n - skip ELSE 0
          /\ \A k \in 1..(n - skip) : new[k] = ins[skip + k]
      <4> HIDE DEF new
      <4> QED BY <3>3, <3>6, <1>6
    <3> HIDE DEF new
    <3>8. Len(new) > 0 BY <2>2, <3>7
    <3>9. skip < n /\ Len(new) = n - skip BY <3>1, <3>7, <3>8
    <3>10. from = s + skip BY <3>9, <3>1
    <3> HIDE DEF from
    <3>11. from \in Nat /\ from >= L /\ (from = L \/ (L = 0 /\ from = d))
      BY <3>1, <3>4, <3>5, <3>10
    <3>12. from >= Len(Q.inputs) BY <3>11, <1>6
    <3>13. Extended(Q, Latest(Q), from, new, r, st, q, cur)
      BY <1>10, <2>2, <3>7, <3>11, <3>12, FeedTracks
    <3> HIDE DEF r
    <3>14. /\ AtRest(r, st, q, cur) /\ Grows(Q, r) /\ Len(r.inputs) = from + Len(new)
           /\ \A k \in (L + 1)..from : r.inputs[k] = Latest(Q)
           /\ \A k \in 1..Len(new) : r.inputs[from + k] = new[k]
      BY <3>13, <1>6 DEF Extended
    <3>15. Len(r.inputs) = s + n BY <3>1, <3>9, <3>10, <3>14
    <3>16. \A k \in 1..L : r.inputs[k] = Q.inputs[k] BY <3>14, <1>6 DEF Grows, PrefixOf
    <3>17. ASSUME NEW k \in (L + 1)..from PROVE r.inputs[k] = T[k]
      <4>1. L = 0 /\ from = d BY <3>11
      <4>2. Q.inputs = <<>> BY <4>1, <1>6, QueueIsRecord
      <4>3. r.inputs[k] = Default BY <3>14, <4>2 DEF Latest
      <4>4. N > 0 BY <1>8, <3>1, <3>9
      <4>5. T # <<>> BY <4>4, <1>6
      <4>6. engine[q].cur > 0
        <5>1. engine[q].cur \in Nat BY <1>1, <1>2, Typed
        <5>2. engine[q].cur # 0 BY <4>5, <1>1, <1>2, <1>4 DEF OwnInv, Truth
        <5> QED BY <5>1, <5>2
      <4>7. \A j \in 1..d : T[j] = Default BY <4>6, <1>1, <1>2, <1>4, <1>7 DEF OwnInv, Truth
      <4>8. k \in 1..d BY <4>1
      <4> QED BY <4>3, <4>7, <4>8
    <3>18. ASSUME NEW k \in (from + 1)..(s + n) PROVE r.inputs[k] = T[k]
      <4>1. PICK j \in Nat : j = k - from BY <3>11
      <4>2. j \in 1..(n - skip) /\ k = from + j /\ skip + j \in 1..n /\ s + (skip + j) = k
        BY <4>1, <3>1, <3>9, <3>10
      <4>3. r.inputs[k] = new[j] BY <4>2, <3>9, <3>14
      <4>4. new[j] = ins[skip + j] BY <4>2, <3>7
      <4>5. ins[skip + j] = T[k] BY <4>2, <1>8
      <4> QED BY <4>3, <4>4, <4>5
    <3>19. ASSUME NEW k \in 1..(s + n) PROVE r.inputs[k] = T[k]
      <4>1. k \in 1..L \/ k \in (L + 1)..from \/ k \in (from + 1)..(s + n) BY <3>11
      <4> QED BY <4>1, <3>16, <3>17, <3>18, <1>11
    <3>20. PrefixOf(r.inputs, T) BY <3>15, <3>19, <1>6, <1>8 DEF PrefixOf
    <3> QED BY <3>14, <3>20
  <2> QED BY <2>1, <2>2
<1> QED BY <1>3, <1>4, <1>9, <1>13, <1>14

\* The engine with one queue replaced.
LEMMA EngineGrown ==
  ASSUME IInv, NEW p \in Players, NEW q \in Others(p), NEW r,
         AtRest(r, engine[p].state, q, engine[p].cur), Grows(engine[p].queues[q], r),
         PrefixOf(r.inputs, Truth(q))
  PROVE  LET eng == [engine[p] EXCEPT !.queues[q] = r]
         IN  EngStep(p, eng) /\ eng.queues[q] = r
<1> DEFINE eng == [engine[p] EXCEPT !.queues[q] = r]
<1>1. TypeOK /\ EnginesInv /\ QueuesInv BY DEF IInv
<1>2. PICK e \in Engine : e = engine[p] BY <1>1, Typed
<1>3. q \in Players /\ q # p BY DEF Others
<1>4. r \in Queue BY DEF AtRest
<1> DEFINE qs == [e.queues EXCEPT ![q] = r]
<1>5. e.queues \in [Players -> Queue] BY EngineIsRecord
<1>6. qs \in [Players -> Queue] /\ qs[q] = r /\ \A x \in Players \ {q} : qs[x] = e.queues[x]
  BY <1>3, <1>4, <1>5
<1>7. eng = [e EXCEPT !.queues = qs] BY <1>2
<1> HIDE DEF eng, qs
<1>8. /\ eng \in Engine /\ eng.cur = e.cur /\ eng.state = e.state
      /\ eng.head = e.head /\ eng.cells = e.cells /\ eng.queues = qs
  BY <1>6, <1>7 DEF Engine
<1>9. ASSUME NEW x \in Players
      PROVE  /\ AtRest(qs[x], e.state, x, e.cur) /\ Grows(e.queues[x], qs[x])
             /\ PrefixOf(qs[x].inputs, Truth(x))
  <2>1. CASE x = q BY <2>1, <1>2, <1>6
  <2>2. CASE x # q
    <3>1. qs[x] = e.queues[x] /\ e.queues[x] \in Queue BY <2>2, <1>5, <1>6
    <3>2. AtRest(e.queues[x], e.state, x, e.cur)
      BY <3>1, <1>1, <1>2 DEF EnginesInv, EngineInv, AtRest
    <3>3. Grows(e.queues[x], e.queues[x]) BY <3>1, GrowsRefl
    <3>4. PrefixOf(e.queues[x].inputs, Truth(x)) BY <1>1, <1>2 DEF QueuesInv
    <3> QED BY <3>1, <3>2, <3>3, <3>4
  <2> QED BY <2>1, <2>2
<1>10. EngStep(p, eng) BY <1>2, <1>3, <1>6, <1>8, <1>9 DEF EngStep
<1> QED BY <1>6, <1>8, <1>10 DEF eng

\* A poll that drains nothing.
LEMMA EngineStays ==
  ASSUME IInv, NEW p \in Players
  PROVE  EngStep(p, engine[p]) /\ PrsStep(p, peers[p])
<1>1. TypeOK /\ EnginesInv /\ QueuesInv /\ AckedInputsArrived BY DEF IInv
<1>2. ASSUME NEW x \in Players
      PROVE  /\ AtRest(engine[p].queues[x], engine[p].state, x, engine[p].cur)
             /\ Grows(engine[p].queues[x], engine[p].queues[x])
             /\ PrefixOf(engine[p].queues[x].inputs, Truth(x))
  <2>1. engine[p].queues[x] \in Queue BY <1>1, Typed
  <2> QED BY <2>1, <1>1, GrowsRefl DEF EnginesInv, EngineInv, AtRest, QueuesInv
<1>3. EngStep(p, engine[p]) BY <1>1, <1>2, Typed DEF EngStep
<1>4. PrsStep(p, peers[p]) BY <1>1 DEF PrsStep, TypeOK, AckedInputsArrived
<1> QED BY <1>3, <1>4

\* PollNothing keeps the invariant.
LEMMA PollNothingInv ==
  ASSUME IInv, NEW p \in Players, PollNothing(p)
  PROVE  IInv'
<1>1. EngStep(p, engine[p]) /\ PrsStep(p, peers[p]) BY EngineStays
<1>2. RepStep(p, engine[p], {}) BY DEF RepStep
<1>3. Polled(p, engine[p], peers[p], {}) BY DEF PollNothing, Polled
<1> QED BY <1>1, <1>2, <1>3, PolledInv

\* Disconnect keeps the invariant: a peer given up on stays so.
LEMMA DisconnectInv ==
  ASSUME IInv, NEW p \in Players, NEW q \in Others(p), Disconnect(p, q)
  PROVE  IInv'
<1> DEFINE prs == [peers[p] EXCEPT ![q].state = "gone"]
<1>1. EngStep(p, engine[p]) /\ PrsStep(p, peers[p]) BY EngineStays
<1>2. RepStep(p, engine[p], {}) BY DEF RepStep
<1>3. Polled(p, engine[p], prs, {}) BY DEF Disconnect, Polled
<1>4. peers[p] \in [Others(p) -> Peer] BY DEF IInv, TypeOK
<1> DEFINE r == [peers[p][q] EXCEPT !.state = "gone"]
<1>5. r \in Peer /\ r.acked = peers[p][q].acked /\ r.state = "gone" BY <1>4 DEF Peer
<1>6. prs = [peers[p] EXCEPT ![q] = r] OBVIOUS
<1> HIDE DEF r
<1>7. prs \in [Others(p) -> Peer] /\ prs[q] = r /\ \A x \in Others(p) \ {q} : prs[x] = peers[p][x]
  BY <1>4, <1>5, <1>6
<1> HIDE DEF prs
<1>8. PrsStep(p, prs) BY <1>1, <1>5, <1>7 DEF PrsStep
<1> QED BY <1>1, <1>2, <1>3, <1>8, PolledInv

\* Poll keeps the invariant, whatever the packet.
LEMMA PollInv ==
  ASSUME IInv, NEW p \in Players, NEW m \in net, Poll(p, m)
  PROVE  IInv'
<1> DEFINE q == m.from
           admitted == Admits(p, q, m)
           prs == IF admitted THEN [peers[p] EXCEPT ![q] = PeerAfter(p, q, m)] ELSE peers[p]
           queue == IF admitted /\ m.body.kind = "input" THEN QueueAfter(p, q, m.body)
                    ELSE engine[p].queues[q]
           eng == [engine[p] EXCEPT !.queues[q] = queue]
           R == Replies(p, q, m, eng)
<1>1. /\ m.to = p /\ Refresh(p, eng, prs)
      /\ net' = net \cup R \cup Ticked(p, eng, prs) /\ sums' = sums
  BY DEF Poll
<1>2. PacketInv(m) BY DEF IInv, NetInv
<1>3. q \in Others(p) BY <1>1, <1>2 DEF PacketInv, Others
<1>4. admitted /\ m.body.kind # "reply" => m.magic = "now" BY DEF Admits
<1>5. EngStep(p, eng) /\ eng.queues[q] = queue
  <2>1. CASE admitted /\ m.body.kind = "input"
    <3>1. InputSent(m) BY <2>1, <1>2, <1>4 DEF PacketInv
    <3>2. queue = QueueAfter(p, q, m.body) BY <2>1
    <3>3. /\ AtRest(queue, engine[p].state, q, engine[p].cur)
          /\ Grows(engine[p].queues[q], queue) /\ PrefixOf(queue.inputs, Truth(q))
      BY <1>1, <1>3, <3>1, <3>2, QueueAfterInv
    <3> HIDE DEF queue, q
    <3> QED BY <1>3, <3>3, EngineGrown
  <2>2. CASE ~(admitted /\ m.body.kind = "input")
    <3>1. queue = engine[p].queues[q] BY <2>2
    <3>2. EngStep(p, engine[p]) BY EngineStays
    <3>3. q \in Players BY <1>3 DEF Others
    <3> HIDE DEF queue, q, admitted
    <3>4. /\ AtRest(queue, engine[p].state, q, engine[p].cur)
          /\ Grows(engine[p].queues[q], queue) /\ PrefixOf(queue.inputs, Truth(q))
      BY <3>1, <3>2, <3>3 DEF EngStep
    <3> QED BY <1>3, <3>4, EngineGrown
  <2> QED BY <2>1, <2>2
<1>6. PrsStep(p, prs)
  <2>1. PrsStep(p, peers[p]) BY EngineStays
  <2>2. CASE ~admitted BY <2>1, <2>2
  <2>3. CASE admitted
    <3> DEFINE peer == peers[p][q]
               r == PeerAfter(p, q, m)
    <3>1. peers[p] \in [Others(p) -> Peer] BY <2>1 DEF PrsStep
    <3>2. peer \in Peer /\ peer.acked <= LastReceived(q, p) /\ peer.acked \in Frame /\ peer.left \in Int
      BY <1>3, <2>1 DEF PrsStep, Peer
    <3>3. r \in Peer /\ r.acked <= LastReceived(q, p) /\ (peer.state = "gone" => r.state = "gone")
      <4> HIDE DEF peer
      <4>1. CASE m.body.kind = "reply" /\ peer.state = "syncing" /\ m.body.token = peer.left
        <5> DEFINE s == IF peer.left = 1 THEN "running" ELSE peer.state
                   lf == peer.left - 1
        <5>1. r = [peer EXCEPT !.latched = TRUE, !.left = lf, !.state = s]
          BY <4>1 DEF PeerAfter, peer
        <5>2. s \in {"syncing", "running", "gone"} /\ lf \in Int BY <4>1, <3>2
        <5> HIDE DEF s, lf, r
        <5>3. r \in Peer /\ r.acked = peer.acked BY <5>1, <5>2, <3>2 DEF Peer
        <5> QED BY <5>3, <4>1, <3>2
      <4>2. CASE m.body.kind = "ack"
        <5>1. AckSent(m) BY <4>2, <2>3, <1>2, <1>4 DEF PacketInv
        <5>2. PICK f \in Frame : f = m.body.frame /\ f <= LastReceived(q, p)
          BY <5>1, <1>1 DEF AckSent
        <5> DEFINE a == Max2(peer.acked, f)
        <5>3. r = [peer EXCEPT !.acked = a] BY <4>2, <5>2 DEF PeerAfter, peer
        <5>4. a \in Frame /\ a <= LastReceived(q, p) BY <5>2, <3>2 DEF Max2
        <5> HIDE DEF a, r
        <5>5. r \in Peer /\ r.acked = a /\ r.state = peer.state BY <5>3, <5>4, <3>2 DEF Peer
        <5> QED BY <5>4, <5>5
      <4>3. CASE /\ ~(m.body.kind = "reply" /\ peer.state = "syncing" /\ m.body.token = peer.left)
                 /\ m.body.kind # "ack"
        <5>1. r = peer BY <4>3 DEF PeerAfter, peer
        <5> QED BY <5>1, <3>2
      <4> QED BY <4>1, <4>2, <4>3
    <3> HIDE DEF q, r
    <3>4. prs = [peers[p] EXCEPT ![q] = r] BY <2>3 DEF r
    <3> HIDE DEF prs
    <3>5. prs \in [Others(p) -> Peer] /\ prs[q] = r
          /\ \A x \in Others(p) \ {q} : prs[x] = peers[p][x]
      BY <1>3, <3>1, <3>3, <3>4
    <3> QED BY <3>3, <3>5, <2>1 DEF PrsStep
  <2> QED BY <2>2, <2>3
<1>7. RepStep(p, eng, R)
  <2> HIDE DEF eng, q
  <2> SUFFICES ASSUME NEW n \in R
               PROVE  /\ n.from = p /\ n.to \in Others(p) /\ n.body.kind # "input"
                      /\ n.body.kind = "ack" => n.body.frame = LastAdded(eng.queues[n.to])
    BY DEF RepStep
  <2>1. n = SyncReply(p, q, m.body.token) \/ n = InputAck(p, q, LastAdded(eng.queues[q]))
    BY DEF Replies
  <2>2. CASE n = SyncReply(p, q, m.body.token)
    <3>1. n.from = p /\ n.to = q /\ n.body.kind = "reply" BY <2>2 DEF SyncReply, Packet
    <3> QED BY <3>1, <1>3
  <2>3. CASE n = InputAck(p, q, LastAdded(eng.queues[q]))
    <3>1. n.from = p /\ n.to = q /\ n.body.kind = "ack" /\ n.body.frame = LastAdded(eng.queues[q])
      BY <2>3 DEF InputAck, Packet
    <3> QED BY <3>1, <1>3
  <2> QED BY <2>1, <2>2, <2>3
<1>8. Polled(p, eng, prs, R) BY <1>1 DEF Polled
<1> HIDE DEF eng, prs, R
<1> QED BY <1>5, <1>6, <1>7, <1>8, PolledInv

-----------------------------------------------------------------------------
(* advance_frame *)

\* The player's own queue gets its input, after the frames the delay skips.
LEMMA OwnAdded ==
  ASSUME IInv, NEW p \in Players, NEW input \in Int
  PROVE  LET q == engine[p].queues[p]
             r == AddInput(q, engine[p].cur, InputDelay[p], input)
         IN  /\ AtRest(r, engine[p].state, p, engine[p].cur)
             /\ PrefixOf(q.inputs, r.inputs)
             /\ r.predicting = NullFrame /\ r.first_bad = NullFrame
             /\ Len(r.inputs) = engine[p].cur + InputDelay[p] + 1
             /\ \A k \in 1..InputDelay[p] : r.inputs[k] = Default
<1>1. TypeOK /\ EnginesInv /\ OwnInv BY DEF IInv
<1>2. PICK q \in Queue : q = engine[p].queues[p] BY <1>1, Typed
<1>3. PICK cur \in Nat, st \in History : cur = engine[p].cur /\ st = engine[p].state
  BY <1>1, Typed, EngineIsRecord
<1>4. PICK d \in Nat : d = InputDelay[p] BY Sizes
<1>5. AtRest(q, st, p, cur) BY <1>1, <1>2, <1>3 DEF EnginesInv, EngineInv, AtRest
<1>6. PICK L \in Nat : L = Len(q.inputs) BY QueueIsRecord
<1>7. /\ q.predicting = NullFrame /\ q.first_bad = NullFrame
      /\ cur = 0 => q.inputs = <<>>
      /\ cur > 0 => L = cur + d /\ \A k \in 1..d : q.inputs[k] = Default
  BY <1>1, <1>2, <1>3, <1>4, <1>6 DEF OwnInv
<1>8. cur = 0 => L = 0 /\ Latest(q) = Default BY <1>6, <1>7 DEF Latest
<1>9. cur + d >= L BY <1>7, <1>8
<1> DEFINE r == AddInput(q, cur, d, input)
<1>10. cur + d >= Len(q.inputs) BY <1>6, <1>9
<1>11. /\ AtRest(r, st, p, cur) /\ Grows(q, r)
       /\ Len(r.inputs) = cur + d + 1 /\ r.inputs[cur + d + 1] = input
       /\ \A k \in (Len(q.inputs) + 1)..(cur + d) : r.inputs[k] = Latest(q)
  <2>1. Added(q, cur + d, input, r, st, p, cur) BY <1>5, <1>10, AddTracks
  <2> HIDE DEF r
  <2> QED BY <2>1 DEF Added
<1> HIDE DEF r
<1>12. PrefixOf(q.inputs, r.inputs) /\ r.predicting = NullFrame /\ r.first_bad = NullFrame
  BY <1>7, <1>11 DEF Grows
<1>13. ASSUME NEW k \in 1..d PROVE r.inputs[k] = Default
  <2>1. CASE cur = 0
    <3>1. k \in (L + 1)..(cur + d) BY <2>1, <1>8
    <3> QED BY <3>1, <2>1, <1>6, <1>8, <1>11
  <2>2. CASE cur > 0
    <3>1. k \in 1..L BY <2>2, <1>7
    <3> QED BY <3>1, <2>2, <1>6, <1>7, <1>12 DEF PrefixOf
  <2> QED BY <2>1, <2>2
<1> QED BY <1>2, <1>3, <1>4, <1>11, <1>12, <1>13 DEF r

\* An input is a number.
LEMMA InputsAreNumbers == \A p \in Players : \A i \in Inputs[p] : i \in Int
BY NetplayAssumption

\* A sequence begins with itself.
LEMMA PrefixRefl == \A s \in Seq(Int) : PrefixOf(s, s)
BY DEF PrefixOf

\* What the player's engine is after an advance.
Stepped(p, e) ==
  /\ EngineInv(e, e.cur) /\ e.cur = engine[p].cur + 1 /\ Resting(e)
  /\ \A x \in Others(p) : e.queues[x].inputs = engine[p].queues[x].inputs
  /\ PrefixOf(Truth(p), e.queues[p].inputs)
  /\ e.queues[p].predicting = NullFrame /\ e.queues[p].first_bad = NullFrame
  /\ Len(e.queues[p].inputs) = e.cur + InputDelay[p]
  /\ \A k \in 1..InputDelay[p] : e.queues[p].inputs[k] = Default
  /\ Live(p) => \A x \in Players : e.queues[x].first_bad = NullFrame

\* The engine after advance_frame, rolled back or not.
LEMMA StepOfEngine ==
  ASSUME IInv, NEW p \in Players, NEW input \in Int
  PROVE  Stepped(p, Advanced([engine[p] EXCEPT !.queues[p] =
                                AddInput(engine[p].queues[p], engine[p].cur, InputDelay[p], input)]))
<1> DEFINE own == AddInput(engine[p].queues[p], engine[p].cur, InputDelay[p], input)
           qs == [engine[p].queues EXCEPT ![p] = own]
           e == [engine[p] EXCEPT !.queues[p] = own]
           t == Advanced(e)
<1>1. TypeOK /\ EnginesInv /\ OwnInv /\ AheadInv BY DEF IInv
<1>2. /\ AtRest(own, engine[p].state, p, engine[p].cur)
      /\ PrefixOf(engine[p].queues[p].inputs, own.inputs)
      /\ own.predicting = NullFrame /\ own.first_bad = NullFrame
      /\ Len(own.inputs) = engine[p].cur + InputDelay[p] + 1
      /\ \A k \in 1..InputDelay[p] : own.inputs[k] = Default
  BY OwnAdded
<1> HIDE DEF own
<1>3. engine[p] \in Engine /\ EngineInv(engine[p], engine[p].cur) BY <1>1, Typed DEF EnginesInv
<1>4. engine[p].queues \in [Players -> Queue] /\ own \in Queue
  BY <1>2, <1>3, EngineIsRecord DEF AtRest
<1>5. /\ qs \in [Players -> Queue] /\ qs[p] = own
      /\ \A x \in Others(p) : qs[x] = engine[p].queues[x]
  BY <1>4 DEF Others
<1>6. e = [engine[p] EXCEPT !.queues = qs] OBVIOUS
<1> HIDE DEF qs, e
<1>7. /\ e \in Engine /\ e.cur = engine[p].cur /\ e.state = engine[p].state
      /\ e.head = engine[p].head /\ e.cells = engine[p].cells /\ e.queues = qs
  BY <1>3, <1>5, <1>6 DEF Engine
<1>8. EngineInv(e, e.cur)
  <2>1. Ring(e, e.cur) BY <1>3, <1>7 DEF EngineInv, Ring
  <2>2. CellsTrue(e) BY <1>3, <1>7 DEF EngineInv, CellsTrue
  <2>3. Len(e.state) = e.cur BY <1>3, <1>7 DEF EngineInv
  <2>4. ASSUME NEW x \in Players PROVE Tracks(e.queues[x], e.state, x, e.cur)
    <3>1. CASE x = p BY <3>1, <1>2, <1>5, <1>7 DEF AtRest
    <3>2. CASE x # p
      <4>1. x \in Others(p) BY <3>2 DEF Others
      <4> QED BY <4>1, <1>3, <1>5, <1>7 DEF EngineInv
    <3> QED BY <3>1, <3>2
  <2> QED BY <2>1, <2>2, <2>3, <2>4, <1>7 DEF EngineInv
<1>9. /\ EngineInv(t, t.cur) /\ t.cur = e.cur + 1 /\ Resting(t)
      /\ \A x \in Players :
           /\ t.queues[x].inputs = e.queues[x].inputs
           /\ /\ e.queues[x].predicting = NullFrame /\ e.queues[x].first_bad = NullFrame
              /\ e.cur < Len(e.queues[x].inputs)
              => t.queues[x].predicting = NullFrame /\ t.queues[x].first_bad = NullFrame
           /\ BadFrames(e) = {} \/ HoldsFrame(e, FirstBad(e)) # {} =>
                t.queues[x].first_bad = NullFrame
  BY <1>8, AdvancedInv
<1> HIDE DEF t
<1>10. PICK c, d \in Nat : c = engine[p].cur /\ d = InputDelay[p] BY <1>1, Typed, Sizes
<1>11. c < c + d + 1 /\ (c + 1) + d = c + d + 1 OBVIOUS
<1>12. t.queues[p].predicting = NullFrame /\ t.queues[p].first_bad = NullFrame
       /\ t.queues[p].inputs = own.inputs
  BY <1>2, <1>5, <1>7, <1>9, <1>10, <1>11
<1>13. Len(t.queues[p].inputs) = t.cur + InputDelay[p]
  BY <1>2, <1>7, <1>9, <1>10, <1>11, <1>12
<1>14. \A x \in Others(p) : t.queues[x].inputs = engine[p].queues[x].inputs
  BY <1>5, <1>7, <1>9 DEF Others
<1>15. ASSUME Live(p), BadFrames(e) # {} PROVE HoldsFrame(e, FirstBad(e)) # {}
  <2>1. FirstBad(e) \in Nat /\ FirstBad(e) < e.cur /\ FirstBad(e) \in BadFrames(e)
    BY <1>8, <1>15, BadFacts
  <2>2. PICK b \in Nat : b = FirstBad(e) BY <2>1
  <2>3. PICK x \in Players : b = e.queues[x].first_bad /\ b # NullFrame BY <2>1, <2>2 DEF BadFrames
  <2>4. x # p BY <2>3, <1>2, <1>5, <1>7
  <2>5. engine[p].queues[x].first_bad = b BY <2>3, <2>4, <1>5, <1>7 DEF Others
  <2>6. engine[p].cur <= b + MaxPrediction BY <2>3, <2>5, <1>1, <1>15 DEF AheadInv
  <2>7. b < c /\ c - b <= CellCount BY <2>1, <2>2, <2>6, <1>7, <1>10, Sizes
  <2>8. EngineInv(e, c) BY <1>7, <1>8, <1>10
  <2> QED BY <2>2, <2>7, <2>8, HeldInRing
<1>16. Live(p) => \A x \in Players : t.queues[x].first_bad = NullFrame BY <1>9, <1>15
<1>17. PrefixOf(Truth(p), t.queues[p].inputs) BY <1>2, <1>12 DEF Truth
<1>18. \A k \in 1..InputDelay[p] : t.queues[p].inputs[k] = Default BY <1>2, <1>12
<1>19. Stepped(p, t) BY <1>7, <1>9, <1>12, <1>13, <1>14, <1>16, <1>17, <1>18 DEF Stepped
<1> QED BY <1>19 DEF t, e, own

\* A saved state of a frame that is confirmed is what everybody pressed.
LEMMA SavedIsTruth ==
  ASSUME IInv, NEW p \in Players, Live(p), NEW e, Stepped(p, e),
         NEW i \in HoldsFrame(e, confirmed[p]) \ HoldsFrame(e, NullFrame)
  PROVE  /\ confirmed[p] \in Nat /\ e.cells[i].state \in History
         /\ Len(e.cells[i].state) = confirmed[p]
         /\ \A x \in Players :
              /\ confirmed[p] <= Len(e.queues[x].inputs)
              /\ \A k \in 1..confirmed[p] : e.cells[i].state[k][x] = e.queues[x].inputs[k]
<1>1. TypeOK /\ AheadInv BY DEF IInv
<1>2. EngineInv(e, e.cur) /\ e \in Engine BY DEF Stepped, EngineInv
<1>3. i \in Slots /\ e.cells[i].frame = confirmed[p] /\ confirmed[p] # NullFrame BY DEF HoldsFrame
<1>4. PICK f \in Nat : f = confirmed[p] BY <1>1, <1>3 DEF TypeOK, Frame
<1>5. e.cells[i].state \in History BY <1>2, <1>3, EngineIsRecord
<1>6. PICK c \in Nat : c = e.cur BY <1>2, EngineIsRecord
<1>7. HoldsFrame(e, f) # {} BY <1>4
<1>8. f < c BY <1>2, <1>6, <1>7, HeldInRing
<1>9. Len(e.cells[i].state) = f /\ \A k \in 1..f : e.cells[i].state[k] = e.state[k]
  BY <1>2, <1>3, <1>4, <1>6, <1>8 DEF EngineInv, CellsTrue
<1>10. ASSUME NEW x \in Players
       PROVE  f < Len(e.queues[x].inputs)
  <2>1. PICK L \in Nat : L = Len(e.queues[x].inputs) BY <1>2, EngineIsRecord, QueueIsRecord
  <2>2. CASE x = p
    <3>1. PICK d \in Nat : d = InputDelay[p] BY Sizes
    <3>2. L = c + d BY <2>1, <2>2, <3>1, <1>6 DEF Stepped
    <3>3. f < L BY <3>2, <1>8
    <3> QED BY <3>3, <2>1
  <2>3. CASE x # p
    <3>1. x \in Others(p) BY <2>3 DEF Others
    <3>2. confirmed[p] <= LastReceived(p, x) BY <3>1, <1>1 DEF AheadInv
    <3>3. LastReceived(p, x) = L - 1 BY <3>1, <2>1 DEF Stepped, LastReceived, LastAdded
    <3>4. f <= L - 1 BY <3>2, <3>3, <1>4
    <3>5. f < L BY <3>4
    <3> QED BY <3>5, <2>1
  <2> QED BY <2>2, <2>3
<1>11. ASSUME NEW x \in Players, NEW k \in 1..f
       PROVE  e.cells[i].state[k][x] = e.queues[x].inputs[k]
  <2>1. e.queues[x].first_bad = NullFrame BY DEF Stepped
  <2>2. PICK L \in Nat : L = Len(e.queues[x].inputs) BY <1>2, EngineIsRecord, QueueIsRecord
  <2>3. f < L BY <2>2, <1>10
  <2>4. k - 1 \in 0..(c - 1) /\ (k - 1) + 1 = k /\ k - 1 < L BY <2>3, <1>8
  <2>5. \A g \in 0..(c - 1) :
          e.state[g + 1][x] = IF g < L THEN e.queues[x].inputs[g + 1] ELSE Latest(e.queues[x])
    BY <2>1, <2>2, <1>2, <1>6 DEF EngineInv, Tracks
  <2>6. e.state[k][x] = e.queues[x].inputs[k] BY <2>4, <2>5
  <2> QED BY <2>6, <1>9
<1>12. ASSUME NEW x \in Players PROVE f <= Len(e.queues[x].inputs)
  <2>1. PICK L \in Nat : L = Len(e.queues[x].inputs) BY <1>2, EngineIsRecord, QueueIsRecord
  <2>2. f < L BY <2>1, <1>10
  <2>3. f <= L BY <2>2
  <2> QED BY <2>1, <2>3
<1> QED BY <1>4, <1>5, <1>9, <1>11, <1>12

\* Advance keeps the invariant.
LEMMA AdvanceInv ==
  ASSUME IInv, NEW p \in Players, NEW input \in Inputs[p], Advance(p, input)
  PROVE  IInv'
<1> DEFINE e == Advanced([engine[p] EXCEPT !.queues[p] =
                            AddInput(engine[p].queues[p], engine[p].cur, InputDelay[p], input)])
           f == confirmed[p]
           saved == {[frame |-> f, state |-> e.cells[i].state] :
                       i \in HoldsFrame(e, f) \ HoldsFrame(e, NullFrame)}
           new == IF \E s \in sums[p] : s.frame = f THEN {} ELSE saved
<1>1. /\ CanAdvance(p) /\ engine' = [engine EXCEPT ![p] = e]
      /\ sums' = [sums EXCEPT ![p] = @ \cup new]
      /\ peers' = peers /\ running' = running /\ confirmed' = confirmed /\ net' = net
  BY DEF Advance, Summed
<1>2. /\ TypeOK /\ EnginesInv /\ OwnInv /\ QueuesInv /\ NetInv /\ AckedInputsArrived
      /\ AheadInv /\ SumsInv
  BY DEF IInv
<1>3. Stepped(p, e) BY InputsAreNumbers, StepOfEngine
<1> HIDE DEF e
<1>4. new \subseteq saved OBVIOUS
<1> HIDE DEF new
<1>5. e \in Engine BY <1>3 DEF Stepped, EngineInv
<1>6. /\ engine' \in [Players -> Engine] /\ engine'[p] = e
      /\ \A r \in Players \ {p} : engine'[r] = engine[r]
  BY <1>1, <1>2, <1>5 DEF TypeOK
<1>7. /\ DOMAIN sums' = Players /\ sums'[p] = sums[p] \cup new
      /\ \A r \in Players \ {p} : sums'[r] = sums[r]
  BY <1>1, <1>2 DEF TypeOK
<1>8. TypeOK' BY <1>1, <1>2, <1>6, <1>7 DEF TypeOK
<1>9. Kept
  <2> SUFFICES ASSUME NEW r \in Players, NEW x \in Players
               PROVE  PrefixOf(engine[r].queues[x].inputs, engine'[r].queues[x].inputs)
    BY DEF Kept
  <2>1. CASE r = p /\ x = p BY <2>1, <1>3, <1>6 DEF Stepped, Truth
  <2>2. CASE ~(r = p /\ x = p)
    <3>1. engine'[r].queues[x].inputs = engine[r].queues[x].inputs
      BY <2>2, <1>3, <1>6 DEF Stepped, Others
    <3>2. engine[r].queues[x].inputs \in Seq(Int) BY <1>2, Typed
    <3> QED BY <3>1, <3>2, PrefixRefl
  <2> QED BY <2>1, <2>2
<1>10. EnginesInv'
  <2> SUFFICES ASSUME NEW r \in Players
               PROVE  /\ EngineInv(engine'[r], engine'[r].cur)
                      /\ \A x \in Players : Settled(engine'[r].queues[x], engine'[r].cur)
    BY DEF EnginesInv
  <2>1. CASE r = p BY <2>1, <1>3, <1>6 DEF Stepped, Resting, AtRest
  <2>2. CASE r # p BY <2>2, <1>2, <1>6 DEF EnginesInv
  <2> QED BY <2>1, <2>2
<1>11. OwnInv'
  <2> SUFFICES ASSUME NEW r \in Players
               PROVE  /\ engine'[r].queues[r].predicting = NullFrame
                      /\ engine'[r].queues[r].first_bad = NullFrame
                      /\ engine'[r].cur = 0 => engine'[r].queues[r].inputs = <<>>
                      /\ engine'[r].cur > 0 =>
                           /\ Len(engine'[r].queues[r].inputs) = engine'[r].cur + InputDelay[r]
                           /\ \A k \in 1..InputDelay[r] : engine'[r].queues[r].inputs[k] = Default
    BY DEF OwnInv
  <2>1. CASE r = p
    <3>1. engine[p].cur \in Nat BY <1>2, Typed
    <3>2. e.cur # 0 BY <3>1, <1>3 DEF Stepped
    <3> QED BY <2>1, <3>2, <1>3, <1>6 DEF Stepped
  <2>2. CASE r # p BY <2>2, <1>2, <1>6 DEF OwnInv
  <2> QED BY <2>1, <2>2
<1>12. \A x \in Players : PrefixOf(Truth(x), Truth(x)') BY <1>9 DEF Kept, Truth
<1>13. \A x \in Players : Truth(x) \in Seq(Int) /\ Truth(x)' \in Seq(Int)
  BY <1>2, <1>8, Typed, TypedNext DEF Truth
<1>14. QueuesInv'
  <2> SUFFICES ASSUME NEW r \in Players, NEW x \in Players
               PROVE  PrefixOf(engine'[r].queues[x].inputs, Truth(x)')
    BY DEF QueuesInv
  <2>1. CASE r = p /\ x = p
    <3>1. engine'[r].queues[x].inputs = Truth(x)' BY <2>1 DEF Truth
    <3> QED BY <3>1, <1>13, PrefixRefl
  <2>2. CASE ~(r = p /\ x = p)
    <3>1. engine'[r].queues[x].inputs = engine[r].queues[x].inputs
      BY <2>2, <1>3, <1>6 DEF Stepped, Others
    <3>2. engine[r].queues[x].inputs \in Seq(Int) BY <1>2, Typed
    <3>3. PrefixOf(engine[r].queues[x].inputs, Truth(x)) BY <1>2 DEF QueuesInv
    <3> QED BY <3>1, <3>2, <3>3, <1>12, <1>13, PrefixTrans
  <2> QED BY <2>1, <2>2
<1>15. NetInv' BY <1>1, <1>2, <1>8, <1>9, OldPackets DEF NetInv
<1>16. AckedInputsArrived'
  <2> SUFFICES ASSUME NEW r \in Players, NEW q \in Others(r)
               PROVE  peers'[r][q].acked <= LastReceived(q, r)'
    BY DEF AckedInputsArrived
  <2>1. q \in Players BY DEF Others
  <2>2. PICK a, b \in Nat : a = Len(engine[q].queues[r].inputs) /\ b = Len(engine'[q].queues[r].inputs)
    BY <2>1, <1>2, <1>8, Typed, TypedNext
  <2>3. a <= b BY <2>1, <2>2, <1>9 DEF Kept, PrefixOf
  <2>4. LastReceived(q, r) = a - 1 /\ LastReceived(q, r)' = b - 1
    BY <2>1, <2>2, <1>2, <1>8, Typed, TypedNext
  <2>5. PICK k \in Frame : k = peers[r][q].acked BY <1>2 DEF TypeOK, Peer
  <2>6. k <= a - 1 BY <2>4, <2>5, <1>2 DEF AckedInputsArrived
  <2>7. k <= b - 1 BY <2>3, <2>6 DEF Frame, NullFrame
  <2> QED BY <2>4, <2>5, <2>7, <1>1
<1>17. \A r \in Players : Live(r)' <=> Live(r) BY <1>1 DEF Live
<1>18. AheadInv'
  <2> SUFFICES ASSUME NEW r \in Players, Live(r)
               PROVE  /\ \A q \in Others(r) :
                           /\ confirmed'[r] <= LastReceived(r, q)'
                           /\ engine'[r].cur <= Len(engine'[r].queues[q].inputs) + MaxPrediction
                      /\ \A q \in Players :
                           engine'[r].queues[q].first_bad # NullFrame =>
                             engine'[r].cur <= engine'[r].queues[q].first_bad + MaxPrediction
    BY <1>17 DEF AheadInv
  <2>1. /\ \A q \in Others(r) :
             /\ confirmed[r] <= LastReceived(r, q)
             /\ engine[r].cur <= Len(engine[r].queues[q].inputs) + MaxPrediction
        /\ \A q \in Players :
             engine[r].queues[q].first_bad # NullFrame =>
               engine[r].cur <= engine[r].queues[q].first_bad + MaxPrediction
    BY <1>2 DEF AheadInv
  <2>2. CASE r # p
    <3>1. engine'[r] = engine[r] /\ confirmed'[r] = confirmed[r] BY <2>2, <1>1, <1>6
    <3>2. \A q : LastReceived(r, q)' = LastReceived(r, q) BY <3>1 DEF LastReceived
    <3> QED BY <2>1, <3>1, <3>2
  <2>3. CASE r = p
    <3>1. \A q \in Players : e.queues[q].first_bad = NullFrame BY <2>3, <1>3 DEF Stepped
    <3>2. ASSUME NEW q \in Others(p)
          PROVE  /\ confirmed[p] <= LastReceived(p, q)'
                 /\ e.cur <= Len(e.queues[q].inputs) + MaxPrediction
      <4>1. q \in Players BY DEF Others
      <4>2. e.queues[q].inputs = engine[p].queues[q].inputs BY <1>3 DEF Stepped
      <4>3. LastReceived(p, q)' = LastReceived(p, q) BY <4>2, <1>6 DEF LastReceived, LastAdded
      <4>4. PICK L, c \in Nat, k \in Frame : L = Len(engine[p].queues[q].inputs)
                                            /\ c = engine[p].cur /\ k = confirmed[p]
        BY <4>1, <1>2, Typed DEF TypeOK
      <4>5. k <= L - 1 BY <4>1, <4>4, <2>1, <2>3, <1>2, Typed
      <4>6. FramesAhead(p) < MaxPrediction BY <1>1 DEF CanAdvance
      <4>7. FramesAhead(p) = IF k = NullFrame THEN c ELSE IF c > k THEN c - k ELSE 0
        BY <4>4 DEF FramesAhead
      <4>8. c + 1 <= L + MaxPrediction BY <4>5, <4>6, <4>7, Sizes DEF Frame, NullFrame
      <4>9. e.cur = c + 1 BY <4>4, <1>3 DEF Stepped
      <4> QED BY <4>2, <4>3, <4>4, <4>8, <4>9, <2>1, <2>3
    <3> QED BY <2>3, <3>1, <3>2, <1>1, <1>6
  <2> QED BY <2>2, <2>3
<1>19. SumsInv'
  <2> SUFFICES ASSUME NEW r \in Players, Live(r), NEW s \in sums'[r]
               PROVE  /\ s.frame \in Nat /\ s.state \in History /\ Len(s.state) = s.frame
                      /\ \A x \in Players : /\ s.frame <= Len(Truth(x)')
                                            /\ \A k \in 1..s.frame : s.state[k][x] = Truth(x)'[k]
    BY <1>17 DEF SumsInv
  <2>1. CASE s \in sums[r]
    <3>1. /\ s.frame \in Nat /\ s.state \in History /\ Len(s.state) = s.frame
          /\ \A x \in Players : /\ s.frame <= Len(Truth(x))
                                /\ \A k \in 1..s.frame : s.state[k][x] = Truth(x)[k]
      BY <2>1, <1>2 DEF SumsInv
    <3>2. PICK n \in Nat : n = s.frame BY <3>1
    <3>3. ASSUME NEW x \in Players
          PROVE  n <= Len(Truth(x)') /\ \A k \in 1..n : s.state[k][x] = Truth(x)'[k]
      <4>1. PICK a, b \in Nat : a = Len(Truth(x)) /\ b = Len(Truth(x)') BY <1>13
      <4>2. a <= b /\ \A k \in 1..a : Truth(x)[k] = Truth(x)'[k] BY <4>1, <1>12 DEF PrefixOf
      <4>3. n <= a /\ \A k \in 1..n : s.state[k][x] = Truth(x)[k] BY <3>1, <3>2, <4>1
      <4>4. n <= b /\ \A k \in 1..n : k \in 1..a BY <4>2, <4>3
      <4> QED BY <4>1, <4>2, <4>3, <4>4
    <3> QED BY <3>1, <3>2, <3>3
  <2>2. CASE s \notin sums[r]
    <3>1. r = p /\ s \in saved BY <2>2, <1>4, <1>7
    <3>2. PICK i \in HoldsFrame(e, f) \ HoldsFrame(e, NullFrame) :
            s = [frame |-> f, state |-> e.cells[i].state]
      BY <3>1
    <3>3. s.frame = f /\ s.state = e.cells[i].state BY <3>2
    <3>4. /\ f \in Nat /\ e.cells[i].state \in History /\ Len(e.cells[i].state) = f
          /\ \A x \in Players :
               /\ f <= Len(e.queues[x].inputs)
               /\ \A k \in 1..f : e.cells[i].state[k][x] = e.queues[x].inputs[k]
      BY <3>1, <1>3, SavedIsTruth
    <3>5. PICK n \in Nat : n = f BY <3>4
    <3>6. ASSUME NEW x \in Players
          PROVE  n <= Len(Truth(x)') /\ \A k \in 1..n : e.cells[i].state[k][x] = Truth(x)'[k]
      <4>1. PrefixOf(e.queues[x].inputs, Truth(x)') BY <1>6, <1>14 DEF QueuesInv
      <4>2. PICK a \in Nat : a = Len(e.queues[x].inputs) BY <1>5, EngineIsRecord, QueueIsRecord
      <4>3. PICK b \in Nat : b = Len(Truth(x)') BY <1>13
      <4>4. a = Len(e.queues[x].inputs) /\ b = Len(Truth(x)') BY <4>2, <4>3
      <4>5. a <= b /\ \A k \in 1..a : e.queues[x].inputs[k] = Truth(x)'[k] BY <4>1, <4>4 DEF PrefixOf
      <4>6. n <= a /\ \A k \in 1..n : e.cells[i].state[k][x] = e.queues[x].inputs[k]
        BY <3>4, <3>5, <4>4
      <4>7. n <= b /\ \A k \in 1..n : k \in 1..a BY <4>5, <4>6
      <4> QED BY <4>4, <4>5, <4>6, <4>7
    <3> QED BY <3>3, <3>4, <3>5, <3>6
  <2> QED BY <2>1, <2>2
<1> QED BY <1>8, <1>10, <1>11, <1>14, <1>15, <1>16, <1>18, <1>19 DEF IInv

-----------------------------------------------------------------------------
(* The invariant, and what it says *)

\* The fields of a new queue.
LEMMA EmptyQueueFields ==
  /\ EmptyQueue \in Queue /\ EmptyQueue.inputs = <<>> /\ EmptyQueue.predicting = NullFrame
  /\ EmptyQueue.first_bad = NullFrame /\ EmptyQueue.last_requested = NullFrame
<1>1. NullFrame \in Frame /\ Default \in Int /\ <<>> \in Seq(Int) BY DEF Frame, Default
<1> QED BY <1>1 DEF EmptyQueue, Queue

\* The invariant holds at first.
LEMMA InitInv == Init => IInv
<1> SUFFICES ASSUME Init PROVE IInv OBVIOUS
<1>1. NullFrame = -1 /\ NullFrame \in Frame BY DEF Frame, NullFrame
<1> DEFINE e == NewEngine
<1>2. 0 \in Slots BY Sizes
<1>3. <<>> \in History /\ Len(<<>>) = 0 BY DEF History
<1> DEFINE cells == [i \in Slots |-> [frame |-> NullFrame, state |-> <<>>]]
           qs == [q \in Players |-> EmptyQueue]
<1>4. cells \in [Slots -> [frame : Frame, state : History]]
      /\ \A i \in Slots : cells[i].frame = NullFrame
  BY <1>1, <1>3
<1>5. qs \in [Players -> Queue] /\ \A x \in Players : qs[x] = EmptyQueue BY EmptyQueueFields
<1>6. e = [cur |-> 0, state |-> <<>>, head |-> 0, cells |-> cells, queues |-> qs] BY DEF NewEngine
<1> HIDE DEF cells, qs, e
<1>7. /\ e \in Engine /\ e.cur = 0 /\ e.state = <<>> /\ e.head = 0
      /\ e.cells = cells /\ e.queues = qs
  BY <1>2, <1>3, <1>4, <1>5, <1>6 DEF Engine
<1>8. Ring(e, 0)
  <2>1. \A i \in Slots : Age(i, 0) \in 1..CellCount BY <1>2, AgeFacts
  <2>2. \A i \in Slots : Age(i, 0) \in Nat /\ Age(i, 0) >= 1 BY <2>1, Sizes
  <2> QED BY <2>2, <1>4, <1>7 DEF Ring
<1>9. CellsTrue(e) BY <1>4, <1>7 DEF CellsTrue
<1>10. \A x \in Players : Tracks(EmptyQueue, <<>>, x, 0) /\ Settled(EmptyQueue, 0)
  BY EmptyQueueFields, <1>1, <1>3 DEF Tracks, Settled
<1>11. EngineInv(e, 0) BY <1>3, <1>5, <1>7, <1>8, <1>9, <1>10 DEF EngineInv
<1>12. \A p \in Players : engine[p] = e BY DEF Init, e
<1>13. \A p, x \in Players : engine[p].queues[x] = EmptyQueue /\ engine[p].cur = 0
  BY <1>5, <1>7, <1>12
<1>14. NewPeer \in Peer /\ NewPeer.acked = NullFrame
  <2>1. SyncRoundtrips \in Int BY NetplayAssumption
  <2> QED BY <2>1, <1>1 DEF NewPeer, Peer
<1>15. \A p \in Players : peers[p] \in [Others(p) -> Peer] /\ \A q \in Others(p) : peers[p][q] = NewPeer
  BY <1>14 DEF Init
<1>16. TypeOK
  <2>1. engine \in [Players -> Engine] BY <1>7 DEF Init, e
  <2>2. DOMAIN peers = Players BY DEF Init
  <2>3. running \in [Players -> BOOLEAN] BY DEF Init
  <2>4. confirmed \in [Players -> Frame] BY <1>1 DEF Init
  <2>5. DOMAIN sums = Players BY DEF Init
  <2> QED BY <2>1, <2>2, <2>3, <2>4, <2>5, <1>15 DEF TypeOK
<1>17. EnginesInv BY <1>5, <1>7, <1>10, <1>11, <1>12 DEF EnginesInv
<1>18. OwnInv BY <1>13, EmptyQueueFields DEF OwnInv
<1>19. QueuesInv BY <1>13, EmptyQueueFields DEF QueuesInv, PrefixOf, Truth
<1>20. NetInv
  <2>1. \A m \in Leftovers : PacketInv(m) BY NetplayAssumption DEF PacketInv
  <2> QED BY <2>1 DEF Init, NetInv
<1>21. \A p, x \in Players : LastReceived(p, x) = -1
  BY <1>3, <1>13, EmptyQueueFields DEF LastReceived, LastAdded
<1>22. AckedInputsArrived
  <2> SUFFICES ASSUME NEW p \in Players, NEW q \in Others(p)
               PROVE  peers[p][q].acked <= LastReceived(q, p)
    BY DEF AckedInputsArrived
  <2>1. LastReceived(q, p) = -1 BY <1>21 DEF Others
  <2>2. peers[p][q].acked = -1 BY <1>1, <1>14, <1>15
  <2> QED BY <2>1, <2>2
<1>23. AheadInv
  <2>1. \A p \in Players : confirmed[p] = NullFrame BY DEF Init
  <2>2. \A p, q \in Players : /\ confirmed[p] <= LastReceived(p, q)
                              /\ engine[p].cur <= Len(engine[p].queues[q].inputs) + MaxPrediction
                              /\ engine[p].queues[q].first_bad = NullFrame
    BY <1>1, <1>3, <1>13, <1>21, <2>1, EmptyQueueFields, Sizes
  <2> QED BY <2>2 DEF AheadInv, Others
<1>24. SumsInv BY DEF Init, SumsInv
<1> QED BY <1>16, <1>17, <1>18, <1>19, <1>20, <1>22, <1>23, <1>24 DEF IInv

\* Every step keeps it.
LEMMA NextInv == IInv /\ [Next]_vars => IInv'
<1> SUFFICES ASSUME IInv, [Next]_vars PROVE IInv' OBVIOUS
<1>1. CASE UNCHANGED vars
  <2>1. /\ engine' = engine /\ peers' = peers /\ running' = running
        /\ confirmed' = confirmed /\ sums' = sums /\ net' = net
    BY <1>1 DEF vars
  <2>2. TypeOK' /\ EnginesInv' /\ OwnInv' BY <2>1 DEF IInv, TypeOK, EnginesInv, OwnInv
  <2>3. QueuesInv' BY <2>1 DEF IInv, QueuesInv, Truth
  <2>4. NetInv' BY <2>1 DEF IInv, NetInv, PacketInv, InputSent, AckSent, Truth, LastReceived
  <2>5. AckedInputsArrived' /\ AheadInv'
    BY <2>1 DEF IInv, AckedInputsArrived, AheadInv, LastReceived, Live
  <2>6. SumsInv' BY <2>1 DEF IInv, SumsInv, Live, Truth
  <2> QED BY <2>2, <2>3, <2>4, <2>5, <2>6 DEF IInv
<1>2. CASE Next
  <2>1. PICK p \in Players : \/ \E m \in net : Poll(p, m)
                             \/ PollNothing(p)
                             \/ \E q \in Others(p) : Disconnect(p, q)
                             \/ \E input \in Inputs[p] : Advance(p, input)
    BY <1>2 DEF Next
  <2> QED BY <2>1, PollInv, PollNothingInv, DisconnectInv, AdvanceInv
<1> QED BY <1>1, <1>2

\* It always holds.
LEMMA Invariant == Spec => []IInv
<1>1. Init => IInv BY InitInv
<1>2. IInv /\ [Next]_vars => IInv' BY NextInv
<1> QED BY <1>1, <1>2, PTL DEF Spec

\* Rollback works in every match: once no wrong guess is outstanding, what a
\* player simulated is what the others pressed, as far as it has their inputs
\* (check_simulation).
THEOREM RollbackIsRight == Spec => []SimulatedWithTheTruth
<1>1. IInv => SimulatedWithTheTruth
  <2> SUFFICES ASSUME IInv, NEW p \in Players, NEW q \in Players, BadFrames(engine[p]) = {},
                      NEW f \in 0..(engine[p].cur - 1), f <= LastReceived(p, q)
               PROVE  engine[p].state[f + 1][q] = engine[q].queues[q].inputs[f + 1]
    BY DEF SimulatedWithTheTruth
  <2>1. TypeOK /\ EnginesInv /\ QueuesInv BY DEF IInv
  <2>2. PICK L \in Nat : L = Len(engine[p].queues[q].inputs) BY <2>1, Typed
  <2>3. LastReceived(p, q) = L - 1 BY <2>1, <2>2, Typed
  <2>4. engine[p].cur \in Nat BY <2>1, Typed
  <2>5. f \in Nat /\ f < L BY <2>3, <2>4
  <2>6. engine[p].queues[q].first_bad = NullFrame BY DEF BadFrames
  <2>7. engine[p].state[f + 1][q] = engine[p].queues[q].inputs[f + 1]
    BY <2>1, <2>2, <2>5, <2>6 DEF EnginesInv, EngineInv, Tracks
  <2>8. f + 1 \in 1..L BY <2>5
  <2>9. engine[p].queues[q].inputs[f + 1] = Truth(q)[f + 1]
    BY <2>1, <2>2, <2>8 DEF QueuesInv, PrefixOf
  <2> QED BY <2>7, <2>9 DEF Truth
<1> QED BY <1>1, Invariant, PTL

\* While nobody was given up on, the frame to roll back to is always in the
\* ring: the prediction limit and the number of cells fit together
\* (adjust_simulation, SavedStates).
THEOREM WindowSuffices == Spec => []RollbackTargetSaved
<1>1. IInv => RollbackTargetSaved
  <2> SUFFICES ASSUME IInv, NEW p \in Players
               PROVE  /\ \A q \in Players :
                           engine[p].queues[q].predicting # NullFrame =>
                             engine[p].queues[q].predicting = Len(engine[p].queues[q].inputs)
                      /\ Live(p) /\ BadFrames(engine[p]) # {} =>
                           HoldsFrame(engine[p], FirstBad(engine[p])) # {}
    BY DEF RollbackTargetSaved
  <2>1. TypeOK /\ EnginesInv /\ AheadInv BY DEF IInv
  <2>2. EngineInv(engine[p], engine[p].cur) BY <2>1 DEF EnginesInv
  <2>3. \A q \in Players : engine[p].queues[q].predicting # NullFrame =>
          engine[p].queues[q].predicting = Len(engine[p].queues[q].inputs)
    BY <2>2 DEF EngineInv, Tracks
  <2>4. ASSUME Live(p), BadFrames(engine[p]) # {}
        PROVE  HoldsFrame(engine[p], FirstBad(engine[p])) # {}
    <3>1. PICK c \in Nat : c = engine[p].cur BY <2>1, Typed
    <3>2. PICK b \in Nat : b = FirstBad(engine[p]) BY <2>2, <2>4, BadFacts
    <3>3. b < engine[p].cur /\ b \in BadFrames(engine[p]) BY <3>2, <2>2, <2>4, BadFacts
    <3>4. PICK q \in Players : b = engine[p].queues[q].first_bad /\ b # NullFrame
      BY <3>3 DEF BadFrames
    <3>5. c <= b + MaxPrediction BY <3>1, <3>4, <2>1, <2>4 DEF AheadInv
    <3>6. b < c /\ c - b <= CellCount BY <3>1, <3>3, <3>5, Sizes
    <3>7. EngineInv(engine[p], c) BY <2>2, <3>1
    <3> QED BY <3>2, <3>6, <3>7, HeldInRing
  <2> QED BY <2>3, <2>4
<1> QED BY <1>1, Invariant, PTL

\* A player stops resending only what arrived, whatever acks are in flight,
\* those of an earlier match included (last_acked_frame, admit).
THEOREM AcksAreHonest == Spec => []AckedInputsArrived
<1>1. IInv => AckedInputsArrived BY DEF IInv
<1> QED BY <1>1, Invariant, PTL

\* Two published checksums of a frame agree as long as nobody was given up on:
\* both are of the state everybody's inputs give (publish_checksum).
THEOREM ChecksumsAgree == Spec => []NoFalseDesync
<1>1. IInv => NoFalseDesync
  <2> SUFFICES ASSUME IInv, AllLive, NEW p \in Players, NEW q \in Players,
                      NEW s \in sums[p], NEW t \in sums[q], s.frame = t.frame
               PROVE  s.state = t.state
    BY DEF NoFalseDesync
  <2>1. SumsInv BY DEF IInv
  <2>2. Live(p) /\ Live(q) BY DEF AllLive
  <2>3. PICK n \in Nat : n = s.frame BY <2>1, <2>2 DEF SumsInv
  <2>4. PICK a \in History : a = s.state BY <2>1, <2>2 DEF SumsInv
  <2>5. PICK b \in History : b = t.state BY <2>1, <2>2 DEF SumsInv
  <2>6. Len(a) = n /\ Len(b) = n
    BY <2>1, <2>2, <2>3, <2>4, <2>5 DEF SumsInv
  <2>7. \A k \in 1..n : \A x \in Players : a[k][x] = b[k][x]
    BY <2>1, <2>2, <2>3, <2>4, <2>5 DEF SumsInv
  <2>8. \A k \in 1..n : a[k] \in [Players -> Int] /\ b[k] \in [Players -> Int]
    BY <2>6 DEF History
  <2>9. \A k \in 1..n : a[k] = b[k] BY <2>7, <2>8
  <2>10. a = b BY <2>6, <2>9, SeqEqual DEF History
  <2> QED BY <2>4, <2>5, <2>10
<1> QED BY <1>1, Invariant, PTL
=============================================================================
