---------------------------- MODULE OutboxProofs ----------------------------
(***************************************************************************)
(* Proofs about Outbox, for every set of peers and frames and every bound. *)
(*                                                                         *)
(* The verdicts: counting the probes of a peer is awkward to induct on, so *)
(* the invariant says where a probe is: still running, or its verdict in   *)
(* the channel.                                                            *)
(*                                                                         *)
(* The parked frames: every way to send goes through send_if_warm or a     *)
(* dial that refuse a path that may not carry payload (Tried), and a flush *)
(* is a loop of such attempts that leaves, after each round, the parked    *)
(* ones of the frames it has looked at, in order (Sofar).                  *)
(***************************************************************************)
EXTENDS Outbox, FiniteSetTheorems, NaturalsInduction, WellFoundedInduction, TLAPS

Verdicts == [peer : Peers, direct : BOOLEAN]

Behind(p) == probes[p] > 0 \/ \E i \in 1..Len(verdicts) : verdicts[i].peer = p

ProofTypes ==
  /\ direct \in [Peers -> {"unknown", "pending", "relayOnly", "direct"}]
  /\ probes \in [Peers -> Nat]
  /\ verdicts \in Seq(Verdicts)

\* The inductive invariant.
ProbeKept == ProofTypes /\ \A p \in Peers : direct[p] = "pending" => Behind(p)

\* The probes of a peer are a number, and a probe behind it makes it positive.
LEMMA UnheardCounts ==
  ASSUME ProofTypes, NEW p \in Peers
  PROVE  Unheard(p) \in Nat /\ (Behind(p) => Unheard(p) > 0)
<1> DEFINE S == {i \in 1..Len(verdicts) : verdicts[i].peer = p}
<1>1. Len(verdicts) \in Nat BY DEF ProofTypes
<1>2. IsFiniteSet(1..Len(verdicts)) BY <1>1, FS_Interval
<1>3. IsFiniteSet(S) BY <1>2, FS_Subset
<1>4. Cardinality(S) \in Nat BY <1>3, FS_CardinalityType
<1>5. S # {} => Cardinality(S) # 0 BY <1>3, FS_EmptySet
<1>6. Behind(p) => probes[p] > 0 \/ S # {} BY DEF Behind
<1>7. probes[p] \in Nat BY DEF ProofTypes
<1>8. Unheard(p) = probes[p] + Cardinality(S) BY DEF Unheard
<1> HIDE DEF S
<1> QED BY <1>4, <1>5, <1>6, <1>7, <1>8

\* A step that starts probes of ps and calls exactly them pending keeps the
\* invariant, whatever it does to the verdicts of the others.
LEMMA ProbesStarted ==
  ASSUME ProbeKept, NEW ps \in SUBSET Peers, StartProbes(ps),
         direct' = [p \in Peers |-> IF p \in ps THEN "pending" ELSE direct[p]],
         UNCHANGED verdicts
  PROVE  ProbeKept'
<1>1. ProofTypes' BY DEF ProbeKept, ProofTypes, StartProbes
<1>2. ASSUME NEW p \in Peers, direct'[p] = "pending"
      PROVE  Behind(p)'
  <2>1. CASE p \in ps
    BY <1>2, <2>1 DEF ProbeKept, ProofTypes, StartProbes, Behind
  <2>2. CASE p \notin ps
    <3>1. direct[p] = "pending" BY <1>2, <2>2
    <3>2. probes'[p] = probes[p] BY <2>2 DEF StartProbes
    <3> QED BY <3>1, <3>2 DEF ProbeKept, Behind
  <2> QED BY <2>1, <2>2
<1> QED BY <1>1, <1>2 DEF ProbeKept

\* A step that leaves the probes alone and calls nobody pending who was not.
LEMMA ProbesUntouched ==
  ASSUME ProbeKept, UNCHANGED <<probes, verdicts>>,
         direct' \in [Peers -> {"unknown", "pending", "relayOnly", "direct"}],
         \A p \in Peers : direct'[p] = "pending" => direct[p] = "pending"
  PROVE  ProbeKept'
BY DEF ProbeKept, ProofTypes, Behind

\* A probe that ends hands its place to its verdict.
LEMMA ProbeBecomesVerdict ==
  ASSUME ProbeKept, NEW q \in Peers, ProbeEnds(q)
  PROVE  ProbeKept'
<1>1. PICK d \in BOOLEAN : verdicts' = Append(verdicts, [peer |-> q, direct |-> d])
  BY DEF ProbeEnds
<1>2. /\ probes[q] > 0 /\ probes' = [probes EXCEPT ![q] = @ - 1]
      /\ direct' = direct
  BY DEF ProbeEnds
<1>3. [peer |-> q, direct |-> d] \in Verdicts BY DEF Verdicts
<1>4. verdicts' \in Seq(Verdicts) BY <1>1, <1>3 DEF ProbeKept, ProofTypes
<1>5. probes' \in [Peers -> Nat] BY <1>2 DEF ProbeKept, ProofTypes
<1>6. /\ Len(verdicts') = Len(verdicts) + 1
      /\ verdicts'[Len(verdicts) + 1].peer = q
      /\ \A i \in 1..Len(verdicts) : verdicts'[i] = verdicts[i]
  BY <1>1, <1>3 DEF ProbeKept, ProofTypes
<1>7. Len(verdicts) \in Nat BY DEF ProbeKept, ProofTypes
<1>8. ASSUME NEW p \in Peers, direct'[p] = "pending"
      PROVE  Behind(p)'
  <2>1. Behind(p) BY <1>2, <1>8 DEF ProbeKept
  <2>2. CASE p = q BY <2>2, <1>6, <1>7 DEF Behind
  <2>3. CASE p # q
    <3>1. probes'[p] = probes[p] BY <2>3, <1>2 DEF ProbeKept, ProofTypes
    <3> QED BY <2>1, <3>1, <1>6, <1>7 DEF Behind
  <2> QED BY <2>2, <2>3
<1> QED BY <1>2, <1>4, <1>5, <1>8 DEF ProbeKept, ProofTypes

\* A verdict that is heard settles its peer: whatever it says and whenever it
\* comes, that peer is not pending after it (graft_proven, demote_unproven).
LEMMA VerdictSettles ==
  ASSUME ProbeKept, OnOutcome
  PROVE  ProbeKept'
<1> DEFINE q == Head(verdicts).peer
<1>1. /\ verdicts \in Seq(Verdicts) /\ verdicts # <<>>
      /\ verdicts' = Tail(verdicts) /\ probes' = probes
  BY DEF OnOutcome, ProbeKept, ProofTypes
<1>2. /\ Len(verdicts) \in Nat \ {0} /\ verdicts' \in Seq(Verdicts)
      /\ Len(verdicts') = Len(verdicts) - 1
      /\ \A i \in 1..Len(verdicts') : verdicts'[i] = verdicts[i + 1]
      /\ Head(verdicts) = verdicts[1] /\ verdicts[1] \in Verdicts
  BY <1>1
<1>3. q \in Peers BY <1>2 DEF Verdicts
<1>4. \E v \in {"unknown", "relayOnly", "direct"} : direct' = [direct EXCEPT ![q] = v]
  BY <1>3 DEF OnOutcome, GraftProven, Demoted, ProbeKept, ProofTypes
<1>5. ASSUME NEW p \in Peers, direct'[p] = "pending"
      PROVE  Behind(p)'
  <2>1. p # q /\ direct[p] = "pending"
    BY <1>3, <1>4, <1>5 DEF ProbeKept, ProofTypes
  <2>2. Behind(p) BY <2>1 DEF ProbeKept
  <2>3. CASE probes[p] > 0 BY <2>3, <1>1 DEF Behind
  <2>4. CASE \E i \in 1..Len(verdicts) : verdicts[i].peer = p
    <3>1. PICK i \in 1..Len(verdicts) : verdicts[i].peer = p BY <2>4
    <3>2. i # 1 BY <3>1, <2>1, <1>2
    <3>3. i - 1 \in 1..Len(verdicts') BY <3>1, <3>2, <1>2
    <3>4. verdicts'[i - 1] = verdicts[i] BY <3>1, <3>3, <1>2
    <3> QED BY <3>1, <3>3, <3>4 DEF Behind
  <2> QED BY <2>2, <2>3, <2>4 DEF Behind
<1>6. direct' \in [Peers -> {"unknown", "pending", "relayOnly", "direct"}]
  BY <1>4 DEF ProbeKept, ProofTypes
<1> QED BY <1>1, <1>2, <1>5, <1>6 DEF ProbeKept, ProofTypes

\* A re-bridge probes every candidate it takes the verdict of.
LEMMA RebridgeProbes ==
  ASSUME ProbeKept, NEW cooling, Rebridge(cooling), peer_endpoints \subseteq Peers
  PROVE  ProbeKept'
<1> DEFINE ps == IF relay_transport THEN {} ELSE Candidates(TRUE, cooling)
<1>1. ps \in SUBSET Peers BY DEF Candidates
<1>2. /\ StartProbes(ps) /\ UNCHANGED verdicts
      /\ direct' = [p \in Peers |-> IF p \in ps THEN "pending" ELSE direct[p]]
  BY DEF Rebridge
<1> HIDE DEF ps
<1> QED BY <1>1, <1>2, ProbesStarted

\* The dial hints name peers; the inductive invariant needs it for the probes
\* of a tick.
IInv == ProbeKept /\ peer_endpoints \subseteq Peers

\* Every step keeps a probe behind every pending verdict.
LEMMA StepKeepsProbe == IInv /\ [Next]_vars => IInv'
<1> SUFFICES ASSUME IInv, [Next]_vars PROVE IInv' OBVIOUS
<1>1. ProbeKept /\ peer_endpoints \subseteq Peers BY DEF IInv
<1>2. CASE UNCHANGED vars
  BY <1>1, <1>2 DEF IInv, ProbeKept, ProofTypes, Behind, vars, links, proofs
<1>3. ASSUME UNCHANGED <<proofs, peer_endpoints>> PROVE IInv'
  BY <1>1, <1>3 DEF IInv, ProbeKept, ProofTypes, Behind, proofs
<1>4. ASSUME NEW f \in Frames,
             \/ SendApp(f) \/ WriteDone(f) \/ WriteFails(f) \/ DialDone(f)
             \/ \E lane \in {"background", "reply", "batch"} : SendInBackground(f, lane)
      PROVE  IInv'
  <2>1. UNCHANGED <<proofs, peer_endpoints>>
    BY <1>4 DEF SendApp, WriteDone, WriteFails, DialDone, SendInBackground, Settle, links
  <2> QED BY <2>1, <1>3
<1>5. ASSUME NEW p \in Peers, ProbeEnds(p) PROVE IInv'
  BY <1>1, <1>5, ProbeBecomesVerdict DEF IInv, ProbeEnds, links
<1>6. ASSUME NEW p \in Peers, \/ NeighborDown(p) \/ ConnCloses(p) \/ DialCooldownEnds(p)
                              \/ RelinkCooldownEnds(p)
                              \/ \E to \in {"none", "relay", "direct"} : PathChanges(p, to)
      PROVE  IInv'
  <2>1. UNCHANGED <<proofs, peer_endpoints>>
    BY <1>6 DEF NeighborDown, ConnCloses, DialCooldownEnds, RelinkCooldownEnds, PathChanges, links
  <2> QED BY <2>1, <1>3
<1>7. ASSUME NEW p \in Peers, PeerInfo(p) PROVE IInv'
  <2> DEFINE defer == p \notin known_endpoints /\ p \in Lower
             try == ~defer /\ Cardinality(linked) < MaxPeers /\ p \notin linked \cup relink
             ps == NeedsProbe(IF try THEN {p} ELSE {}, direct)
  <2>1. /\ StartProbes(ps) /\ UNCHANGED verdicts /\ peer_endpoints' = peer_endpoints \cup {p}
        /\ direct' = [q \in Peers |-> IF q \in ps THEN "pending" ELSE direct[q]]
    BY <1>7 DEF PeerInfo
  <2>2. ps \in SUBSET Peers BY DEF NeedsProbe
  <2> HIDE DEF ps
  <2> QED BY <1>1, <2>1, <2>2, ProbesStarted DEF IInv
<1>8. ASSUME NEW p \in Peers, NEW reading \in {"direct", "relayOnly", direct[p]},
             NeighborUp(p, reading)
      PROVE  IInv'
  <2>1. /\ UNCHANGED <<probes, verdicts, peer_endpoints>>
        /\ direct' = [direct EXCEPT ![p] = IF relay_transport THEN reading ELSE "direct"]
    BY <1>8 DEF NeighborUp
  <2>2. /\ direct' \in [Peers -> {"unknown", "pending", "relayOnly", "direct"}]
        /\ \A q \in Peers : direct'[q] = "pending" => direct[q] = "pending"
    BY <1>1, <2>1 DEF ProbeKept, ProofTypes
  <2> QED BY <1>1, <2>1, <2>2, ProbesUntouched DEF IInv
<1>9. ASSUME NEW p \in Peers, NEW reading \in {"direct", "relayOnly"}, Census(p, reading)
      PROVE  IInv'
  <2>1. /\ UNCHANGED <<probes, verdicts, peer_endpoints>>
        /\ direct' = [direct EXCEPT ![p] = reading]
    BY <1>9 DEF Census, links
  <2>2. /\ direct' \in [Peers -> {"unknown", "pending", "relayOnly", "direct"}]
        /\ \A q \in Peers : direct'[q] = "pending" => direct[q] = "pending"
    BY <1>1, <2>1 DEF ProbeKept, ProofTypes
  <2> QED BY <1>1, <2>1, <2>2, ProbesUntouched DEF IInv
<1>10. ASSUME NEW p \in Peers, NEW graceful \in BOOLEAN, Forget(p, graceful) PROVE IInv'
  <2>1. /\ UNCHANGED <<probes, verdicts>> /\ peer_endpoints' = peer_endpoints \ {p}
        /\ direct' = [direct EXCEPT ![p] = "unknown"]
    BY <1>10 DEF Forget
  <2>2. /\ direct' \in [Peers -> {"unknown", "pending", "relayOnly", "direct"}]
        /\ \A q \in Peers : direct'[q] = "pending" => direct[q] = "pending"
    BY <1>1, <2>1 DEF ProbeKept, ProofTypes
  <2> QED BY <1>1, <2>1, <2>2, ProbesUntouched DEF IInv
<1>11. CASE OnOutcome
  BY <1>1, <1>11, VerdictSettles DEF IInv, OnOutcome
<1>12. CASE Inbound
  BY <1>12, <1>3 DEF Inbound
<1>13. CASE AliveTick
  <2> DEFINE ps == NeedsProbe(IF relay_transport THEN {} ELSE Candidates(FALSE, relink), direct)
  <2>1. /\ StartProbes(ps) /\ UNCHANGED <<verdicts, peer_endpoints>>
        /\ direct' = [q \in Peers |-> IF q \in ps THEN "pending" ELSE direct[q]]
    BY <1>13 DEF AliveTick
  <2>2. ps \in SUBSET Peers BY <1>1 DEF NeedsProbe, Candidates
  <2> HIDE DEF ps
  <2> QED BY <1>1, <2>1, <2>2, ProbesStarted DEF IInv
<1>14. CASE HealTick
  BY <1>1, <1>14, RebridgeProbes DEF IInv, HealTick, links
<1>15. ASSUME NEW starved \in BOOLEAN, Degrade(starved) PROVE IInv'
  BY <1>1, <1>15, RebridgeProbes DEF IInv, Degrade
<1> QED
  BY <1>2, <1>4, <1>5, <1>6, <1>7, <1>8, <1>9, <1>10, <1>11, <1>12, <1>13, <1>14, <1>15
     DEF Next

\* A pending verdict always has a probe behind it, for any number of peers,
\* frames and probes at once: ensure_direct starts one as it sets the verdict,
\* and no leave, return, re-bridge or late outcome separates the two.
THEOREM PendingIsProbed == Spec => []PendingHasProbe
<1>1. Init => IInv
  BY DEF Init, IInv, ProbeKept, ProofTypes
<1>2. IInv => PendingHasProbe
  BY UnheardCounts DEF IInv, ProbeKept, PendingHasProbe
<1> QED BY <1>1, <1>2, StepKeepsProbe, PTL DEF Spec

-----------------------------------------------------------------------------
(* The parked frames *)

Fates == {"new", "parked", "writing", "batching", "dialing", "redialing", "sent", "failed"}

\* What the operators of the pool take and return.
State == [open : SUBSET Peers, cool : SUBSET Peers, fate : [Frames -> Fates], ok : BOOLEAN]

Numbered(s) == \A i, j \in 1..Len(s) : i < j => s[i] < s[j]

\* ParkedInOrder with what keeps it: a frame yet to be sent comes after every
\* parked one, so parking it at the end keeps the order.
BufferInv ==
  /\ pending \in Seq(Frames)
  /\ pool \in [open : SUBSET Peers, cool : SUBSET Peers]
  /\ fate \in [Frames -> Fates]
  /\ \A f \in Frames : fate[f] = "parked" <=> \E i \in 1..Len(pending) : pending[i] = f
  /\ Numbered(pending)
  /\ \A g \in Frames : fate[g] = "new" => \A i \in 1..Len(pending) : pending[i] < g

\* No frame reaches the wire in this step but on a path that may carry it.
Carried == \A f \in Frames :
             fate[f] \notin OnTheWire /\ fate'[f] \in OnTheWire => PayloadAllowed(To[f])

\* r is st after an attempt to send f: nothing else changed, and f is on a wire
\* that may carry it, being dialed for, or where it was.
Tried(st, f, r) ==
  /\ r \in State
  /\ \A g \in Frames : g # f => r.fate[g] = st.fate[g]
  /\ r.ok => \/ r.fate[f] \in OnTheWire /\ PayloadAllowed(To[f])
             \/ r.fate[f] = "dialing"
  /\ ~r.ok => r.fate = st.fate

\* The fields of a state.
LEMMA StateIsRecord ==
  ASSUME NEW st \in State
  PROVE  /\ st.open \in SUBSET Peers /\ st.cool \in SUBSET Peers
         /\ st.fate \in [Frames -> Fates] /\ st.ok \in BOOLEAN
BY DEF State

\* A dial leaves the frames alone.
LEMMA DialedState ==
  ASSUME NEW st \in State, NEW p \in Peers
  PROVE  /\ Dialed(st, p) \in State /\ Dialed(st, p).fate = st.fate
         /\ WarmOrDial(st, p) \in State /\ WarmOrDial(st, p).fate = st.fate
<1>1. Dialed(st, p) \in State /\ Dialed(st, p).fate = st.fate BY DEF Dialed, State
<1>2. WarmOrDial(st, p) \in State /\ WarmOrDial(st, p).fate = st.fate BY <1>1 DEF WarmOrDial, State
<1> QED BY <1>1, <1>2

\* A refusal changes nothing.
LEMMA Refused ==
  ASSUME NEW st \in State, NEW f \in Frames
  PROVE  Tried(st, f, [st EXCEPT !.ok = FALSE])
<1> DEFINE r == [st EXCEPT !.ok = FALSE]
<1>1. r \in State /\ r.fate = st.fate /\ r.ok = FALSE BY DEF State
<1> HIDE DEF r
<1>2. Tried(st, f, r) BY <1>1 DEF Tried
<1> QED BY <1>2 DEF r

\* send_if_warm refuses what its connection may not carry.
LEMMA WarmTries ==
  ASSUME NEW st \in State, NEW f \in Frames
  PROVE  Tried(st, f, SendIfWarm(st, f))
<1>1. CASE WarmAllowed(To[f])
  <2> DEFINE r == [st EXCEPT !.fate[f] = "writing", !.ok = TRUE]
  <2>1. /\ r \in State /\ r.ok /\ r.fate[f] = "writing"
        /\ \A g \in Frames : g # f => r.fate[g] = st.fate[g]
    BY DEF State, Fates
  <2>2. SendIfWarm(st, f) = r BY <1>1 DEF SendIfWarm
  <2> HIDE DEF r
  <2> QED BY <1>1, <2>1, <2>2 DEF Tried, WarmAllowed, OnTheWire
<1>2. CASE ~WarmAllowed(To[f])
  <2>1. SendIfWarm(st, f) = [st EXCEPT !.ok = FALSE] BY <1>2 DEF SendIfWarm
  <2> QED BY <2>1, Refused
<1> QED BY <1>1, <1>2

\* So does a fresh connection.
LEMMA SendOnTries ==
  ASSUME NEW st \in State, NEW f \in Frames
  PROVE  Tried(st, f, SendOn(st, f))
<1>1. CASE st.ok /\ PayloadAllowed(To[f])
  <2> DEFINE r == [st EXCEPT !.fate[f] = "sent"]
  <2>1. /\ r \in State /\ r.ok = st.ok /\ r.fate[f] = "sent"
        /\ \A g \in Frames : g # f => r.fate[g] = st.fate[g]
    BY DEF State, Fates
  <2>2. SendOn(st, f) = r BY <1>1 DEF SendOn
  <2> HIDE DEF r
  <2> QED BY <1>1, <2>1, <2>2 DEF Tried, OnTheWire
<1>2. CASE ~(st.ok /\ PayloadAllowed(To[f]))
  <2>1. SendOn(st, f) = [st EXCEPT !.ok = FALSE] BY <1>2 DEF SendOn
  <2> QED BY <2>1, Refused
<1> QED BY <1>1, <1>2

\* And deliver, whatever verdicts and hints it goes by.
LEMMA DeliverTries ==
  ASSUME NEW st \in State, NEW f \in Frames, NEW known, NEW dir
  PROVE  Tried(st, f, Deliver(st, f, known, dir))
<1>1. To[f] \in Peers BY OutboxAssumption
<1>2. Tried(st, f, [st EXCEPT !.ok = FALSE]) BY Refused
<1>3. Tried(st, f, SendIfWarm(st, f)) BY WarmTries
<1>4. Tried(st, f, SendOn(WarmOrDial(st, To[f]), f))
  <2> DEFINE d == WarmOrDial(st, To[f])
  <2>1. d \in State /\ d.fate = st.fate BY <1>1, DialedState
  <2> HIDE DEF d
  <2>2. Tried(d, f, SendOn(d, f)) BY <2>1, SendOnTries
  <2>3. Tried(st, f, SendOn(d, f)) BY <2>1, <2>2 DEF Tried
  <2> QED BY <2>3 DEF d
<1> QED BY <1>2, <1>3, <1>4 DEF Deliver, SendUnicast

-----------------------------------------------------------------------------
(* The loop of a flush *)

\* Numbers are well-founded.
LEMMA LeastNat ==
  ASSUME NEW S \in SUBSET Nat, S # {}
  PROVE  \E x \in S : \A y \in S : x <= y
<1> DEFINE R == OpToRel(<, Nat)
<1>1. IsWellFoundedOn(R, Nat) BY NatLessThanWellFounded, Zenon
<1>2. \A x, y \in Nat : x < y => <<x, y>> \in R BY Zenon DEF OpToRel
<1> HIDE DEF R
<1>3. PICK x \in S : \A y \in S : ~ (<<y, x>> \in R) BY <1>1, WFMin, Zenon
<1>4. \A y \in S : ~ (y < x) BY <1>2, <1>3
<1> QED BY <1>4

\* Induction over a set of numbers.
LEMMA Climb ==
  ASSUME NEW S \in SUBSET Nat, 0 \in S, \A n \in S : n + 1 \in S
  PROVE  \A n \in Nat : n \in S
<1> SUFFICES ASSUME NEW m \in Nat, m \notin S PROVE FALSE OBVIOUS
<1> DEFINE T == {n \in Nat : n \notin S}
<1>1. T \in SUBSET Nat /\ T # {} OBVIOUS
<1>2. PICK x \in T : \A y \in T : x <= y BY <1>1, LeastNat
<1>3. x # 0 OBVIOUS
<1>4. x - 1 \in Nat /\ x - 1 \notin T BY <1>2, <1>3
<1>5. x - 1 \in S BY <1>4
<1>6. (x - 1) + 1 \in S BY <1>5
<1> QED BY <1>6

Start == [st |-> Now, left |-> <<>>]

\* F gives the rounds of a flush.
Flushes(F, known, dir) ==
  /\ F[0] = Start
  /\ \A k \in 1..Len(pending) : F[k] = FlushOne(F[k - 1], pending[k], known, dir)
  /\ Flushed(known, dir) = F[Len(pending)]

\* A flush has rounds.
LEMMA FlushSteps ==
  ASSUME NEW known, NEW dir, Len(pending) \in Nat
  PROVE  \E F : Flushes(F, known, dir)
<1> DEFINE Fits(F, n) ==
             F = [k \in 0..n |-> IF k = 0 THEN [st |-> Now, left |-> <<>>]
                                 ELSE FlushOne(F[k - 1], pending[k], known, dir)]
           S == {n \in Nat : \E F : Fits(F, n)}
<1>1. 0 \in S
  <2> DEFINE F == [k \in 0..0 |-> [st |-> Now, left |-> <<>>]]
  <2>1. Fits(F, 0) OBVIOUS
  <2> QED BY <2>1
<1>2. ASSUME NEW n \in S PROVE n + 1 \in S
  <2>1. PICK F : Fits(F, n) OBVIOUS
  <2> DEFINE G == [k \in 0..(n + 1) |-> IF k = n + 1 THEN FlushOne(F[n], pending[k], known, dir)
                                        ELSE F[k]]
  <2>2. \A k \in 0..n : G[k] = F[k] OBVIOUS
  <2>3. ASSUME NEW k \in 0..(n + 1)
        PROVE  G[k] = IF k = 0 THEN [st |-> Now, left |-> <<>>]
                      ELSE FlushOne(G[k - 1], pending[k], known, dir)
    <3>1. CASE k = n + 1
      <4>1. G[k] = FlushOne(F[n], pending[k], known, dir) BY <3>1
      <4>2. G[k - 1] = F[n] BY <3>1, <2>2
      <4> QED BY <4>1, <4>2, <3>1
    <3>2. CASE k # n + 1
      <4>1. k \in 0..n BY <3>2
      <4>2. F[k] = IF k = 0 THEN [st |-> Now, left |-> <<>>]
                   ELSE FlushOne(F[k - 1], pending[k], known, dir)
        BY <2>1, <4>1
      <4>3. k # 0 => k - 1 \in 0..n BY <4>1
      <4> QED BY <4>1, <4>2, <4>3, <2>2
    <3> QED BY <3>1, <3>2
  <2>4. Fits(G, n + 1) BY <2>3
  <2>5. n + 1 \in Nat OBVIOUS
  <2> HIDE DEF G
  <2>6. \E H : Fits(H, n + 1) BY <2>4, Zenon
  <2> QED BY <2>5, <2>6, Zenon
<1>3. S \in SUBSET Nat OBVIOUS
<1> HIDE DEF S
<1>4. Len(pending) \in S BY <1>1, <1>2, <1>3, Climb
<1> DEFINE After == CHOOSE F : Fits(F, Len(pending))
<1>5. Fits(After, Len(pending)) BY <1>4 DEF S
<1>6. Flushed(known, dir) = After[Len(pending)] BY DEF Flushed
<1> HIDE DEF After
<1>7. After[0] = Start BY <1>5 DEF Start
<1>8. \A k \in 1..Len(pending) : After[k] = FlushOne(After[k - 1], pending[k], known, dir)
  BY <1>5
<1>9. Flushes(After, known, dir) BY <1>6, <1>7, <1>8 DEF Flushes
<1> QED BY <1>9

\* After k rounds: st has every frame that was not parked as it was, what is left
\* is what is parked of the first k, in order, and the rest is still parked.
Sofar(k, st, left) ==
  /\ st \in State /\ left \in Seq(Frames)
  /\ \A f \in Frames : fate[f] # "parked" => st.fate[f] = fate[f]
  /\ \A i \in (k + 1)..Len(pending) : st.fate[pending[i]] = "parked"
  /\ \A i \in 1..k : st.fate[pending[i]] # "new"
  /\ \A j \in 1..Len(left) : /\ st.fate[left[j]] = "parked"
                             /\ \E i \in 1..k : left[j] = pending[i]
  /\ \A i \in 1..k : st.fate[pending[i]] = "parked" => \E j \in 1..Len(left) : left[j] = pending[i]
  /\ Numbered(left)
  /\ \A f \in Frames :
       fate[f] \notin OnTheWire /\ st.fate[f] \in OnTheWire => PayloadAllowed(To[f])

\* A round in which the frame leaves the buffer.
LEMMA RoundSends ==
  ASSUME BufferInv, NEW k \in Nat, k < Len(pending), NEW st, NEW left, Sofar(k, st, left),
         NEW r \in State, NEW f, f = pending[k + 1],
         \A g \in Frames : g # f => r.fate[g] = st.fate[g],
         r.fate[f] \notin {"parked", "new"},
         r.fate[f] \in OnTheWire => PayloadAllowed(To[f])
  PROVE  Sofar(k + 1, r, left)
<1>1. PICK n \in Nat : n = Len(pending) BY DEF BufferInv
<1>2. k + 1 \in 1..n /\ \A i \in 1..n : pending[i] \in Frames BY <1>1 DEF BufferInv
<1>3. ASSUME NEW i \in 1..n, i # k + 1 PROVE pending[i] # f
  <2>1. pending[i] \in Nat /\ f \in Nat BY <1>2, OutboxAssumption
  <2>2. pending[i] < f \/ f < pending[i] BY <1>1, <1>2, <1>3 DEF BufferInv, Numbered
  <2> QED BY <2>1, <2>2
<1>4. f \in Frames /\ fate[f] = "parked" BY <1>1, <1>2 DEF BufferInv
<1>5. \A j \in 1..Len(left) : left[j] \in Frames /\ left[j] # f
  BY <1>1, <1>2, <1>3 DEF Sofar
<1>6. \A g \in Frames : fate[g] # "parked" => r.fate[g] = fate[g] BY <1>4 DEF Sofar
<1>7. \A i \in (k + 1 + 1)..n : r.fate[pending[i]] = "parked" BY <1>1, <1>2, <1>3 DEF Sofar
<1>8. \A i \in 1..(k + 1) : r.fate[pending[i]] # "new" BY <1>1, <1>2, <1>3 DEF Sofar
<1>9. ASSUME NEW j \in 1..Len(left)
      PROVE  r.fate[left[j]] = "parked" /\ \E i \in 1..(k + 1) : left[j] = pending[i]
  <2>1. st.fate[left[j]] = "parked" BY DEF Sofar
  <2>2. PICK i \in 1..k : left[j] = pending[i] BY DEF Sofar
  <2>3. i \in 1..(k + 1) OBVIOUS
  <2> QED BY <1>5, <2>1, <2>2, <2>3
<1>10. ASSUME NEW i \in 1..(k + 1), r.fate[pending[i]] = "parked"
       PROVE  \E j \in 1..Len(left) : left[j] = pending[i]
  <2>1. i # k + 1 BY <1>10
  <2>2. i \in 1..k /\ i \in 1..n BY <2>1, <1>1
  <2>3. pending[i] \in Frames /\ pending[i] # f BY <1>2, <1>3, <2>1, <2>2
  <2>4. st.fate[pending[i]] = "parked" BY <1>10, <2>3
  <2> QED BY <2>2, <2>4 DEF Sofar
<1>11. \A g \in Frames :
         fate[g] \notin OnTheWire /\ r.fate[g] \in OnTheWire => PayloadAllowed(To[g])
  BY <1>4 DEF Sofar
<1>12. left \in Seq(Frames) /\ Numbered(left) BY DEF Sofar
<1> QED BY <1>1, <1>6, <1>7, <1>8, <1>9, <1>10, <1>11, <1>12 DEF Sofar

\* A round in which it is queued again.
LEMMA RoundRequeues ==
  ASSUME BufferInv, NEW k \in Nat, k < Len(pending), NEW st, NEW left, Sofar(k, st, left),
         NEW r \in State, r.fate = st.fate
  PROVE  Sofar(k + 1, r, Append(left, pending[k + 1]))
<1>1. PICK n \in Nat : n = Len(pending) BY DEF BufferInv
<1>2. PICK f \in Frames : f = pending[k + 1] BY <1>1 DEF BufferInv
<1>3. PICK m \in Nat : m = Len(left) BY DEF Sofar
<1> DEFINE more == Append(left, f)
<1>4. /\ more \in Seq(Frames) /\ Len(more) = m + 1 /\ more[m + 1] = f
      /\ \A j \in 1..m : more[j] = left[j]
  BY <1>2, <1>3 DEF Sofar
<1> HIDE DEF more
<1>5. k + 1 \in 1..n /\ \A i \in 1..n : pending[i] \in Frames BY <1>1 DEF BufferInv
<1>6. \A i \in 1..k : pending[i] < f BY <1>1, <1>2, <1>5 DEF BufferInv, Numbered
<1>7. \A j \in 1..m : left[j] < f BY <1>3, <1>6 DEF Sofar
<1>8. r.fate[f] = "parked" BY <1>1, <1>2, <1>5 DEF Sofar
<1>9. Numbered(more)
  <2>1. ASSUME NEW i \in 1..(m + 1), NEW j \in 1..(m + 1), i < j PROVE more[i] < more[j]
    <3>1. i \in 1..m BY <2>1
    <3>2. CASE j = m + 1 BY <3>1, <3>2, <1>4, <1>7
    <3>3. CASE j \in 1..m BY <3>1, <3>3, <2>1, <1>3, <1>4 DEF Sofar, Numbered
    <3> QED BY <3>2, <3>3
  <2> QED BY <2>1, <1>4 DEF Numbered
<1>10. ASSUME NEW j \in 1..(m + 1)
       PROVE  r.fate[more[j]] = "parked" /\ \E i \in 1..(k + 1) : more[j] = pending[i]
  <2>1. CASE j = m + 1 BY <2>1, <1>2, <1>4, <1>8
  <2>2. CASE j \in 1..m BY <2>2, <1>3, <1>4 DEF Sofar
  <2> QED BY <2>1, <2>2
<1>11. ASSUME NEW i \in 1..(k + 1), r.fate[pending[i]] = "parked"
       PROVE  \E j \in 1..(m + 1) : more[j] = pending[i]
  <2>1. CASE i = k + 1 BY <2>1, <1>2, <1>4
  <2>2. CASE i \in 1..k
    <3>1. PICK j \in 1..m : left[j] = pending[i] BY <2>2, <1>3, <1>11 DEF Sofar
    <3> QED BY <3>1, <1>4
  <2> QED BY <2>1, <2>2
<1>12. \A i \in 1..(k + 1) : r.fate[pending[i]] # "new" BY <1>2, <1>8 DEF Sofar
<1>13. \A i \in (k + 1 + 1)..n : r.fate[pending[i]] = "parked" BY <1>1 DEF Sofar
<1>14. /\ \A g \in Frames : fate[g] # "parked" => r.fate[g] = fate[g]
       /\ \A g \in Frames :
            fate[g] \notin OnTheWire /\ r.fate[g] \in OnTheWire => PayloadAllowed(To[g])
  BY DEF Sofar
<1>15. Sofar(k + 1, r, more)
  BY <1>1, <1>4, <1>9, <1>10, <1>11, <1>12, <1>13, <1>14 DEF Sofar
<1> QED BY <1>2, <1>15 DEF more

\* A round of the flush.
LEMMA RoundKeeps ==
  ASSUME BufferInv, NEW k \in Nat, k < Len(pending), NEW acc, Sofar(k, acc.st, acc.left),
         NEW known, NEW dir
  PROVE  LET r == FlushOne(acc, pending[k + 1], known, dir) IN Sofar(k + 1, r.st, r.left)
<1>1. PICK f \in Frames : f = pending[k + 1] BY DEF BufferInv
<1> DEFINE st == acc.st
           left == acc.left
           sent == Deliver(st, f, known, dir)
           r == FlushOne(acc, f, known, dir)
<1>2. st \in State BY DEF Sofar
<1>3. Tried(st, f, sent) BY <1>2, DeliverTries
<1>4. sent \in State BY <1>3 DEF Tried
<1>5. sent.ok \in BOOLEAN BY <1>4, StateIsRecord
<1>6. st.fate[f] = "parked" BY <1>1 DEF Sofar, BufferInv
<1>7. CASE sent.ok
  <2>1. r.st = sent /\ r.left = left BY <1>7 DEF FlushOne
  <2>2. /\ \A g \in Frames : g # f => sent.fate[g] = st.fate[g]
        /\ sent.fate[f] \notin {"parked", "new"}
        /\ sent.fate[f] \in OnTheWire => PayloadAllowed(To[f])
    BY <1>3, <1>7 DEF Tried, OnTheWire
  <2> HIDE DEF r, sent
  <2>3. Sofar(k + 1, sent, left) BY <1>1, <1>4, <2>2, RoundSends
  <2> QED BY <2>1, <2>3, <1>1 DEF r
<1>8. CASE ~sent.ok /\ Len(left) < Cap
  <2>1. r.st = sent /\ r.left = Append(left, f) BY <1>8 DEF FlushOne, Requeue
  <2>2. sent.fate = st.fate BY <1>3, <1>8 DEF Tried
  <2> HIDE DEF r, sent
  <2>3. Sofar(k + 1, sent, Append(left, pending[k + 1])) BY <1>4, <2>2, RoundRequeues
  <2> QED BY <2>1, <2>3, <1>1 DEF r
<1>9. CASE ~sent.ok /\ ~(Len(left) < Cap)
  <2> DEFINE lost == [sent EXCEPT !.fate[f] = "failed"]
  <2>1. r.st = lost /\ r.left = left BY <1>9 DEF FlushOne
  <2>2. sent.fate = st.fate BY <1>3, <1>9 DEF Tried
  <2> HIDE DEF r, sent
  <2>3. /\ lost \in State /\ lost.fate[f] = "failed"
        /\ \A g \in Frames : g # f => lost.fate[g] = st.fate[g]
    BY <1>4, <2>2 DEF State, Fates
  <2> HIDE DEF lost
  <2>4. lost.fate[f] \notin {"parked", "new"} /\ lost.fate[f] \notin OnTheWire
    BY <2>3 DEF OnTheWire
  <2>5. Sofar(k + 1, lost, left) BY <1>1, <2>3, <2>4, RoundSends
  <2> QED BY <2>1, <2>5, <1>1 DEF r
<1> QED BY <1>5, <1>7, <1>8, <1>9

\* The whole flush.
LEMMA FlushKeeps ==
  ASSUME BufferInv, NEW known, NEW dir
  PROVE  Sofar(Len(pending), Flushed(known, dir).st, Flushed(known, dir).left)
<1>1. PICK n \in Nat : n = Len(pending) BY DEF BufferInv
<1>2. PICK F : Flushes(F, known, dir) BY <1>1, FlushSteps
<1> DEFINE At(k) == Sofar(k, F[k].st, F[k].left)
           S == {k \in Nat : k <= n => At(k)}
<1>3. At(0)
  <2>1. F[0].st = Now /\ F[0].left = <<>> BY <1>2 DEF Flushes, Start
  <2>2. Now \in State /\ Now.fate = fate BY DEF Now, State, BufferInv
  <2>3. \A i \in 1..n : pending[i] \in Frames /\ fate[pending[i]] = "parked"
    BY <1>1 DEF BufferInv
  <2>4. Sofar(0, Now, <<>>) BY <1>1, <2>2, <2>3 DEF Sofar, Numbered
  <2> QED BY <2>1, <2>4
<1>4. ASSUME NEW k \in Nat, k < n, At(k) PROVE At(k + 1)
  <2>1. k + 1 \in 1..n /\ (k + 1) - 1 = k BY <1>4
  <2>2. F[k + 1] = FlushOne(F[k], pending[k + 1], known, dir) BY <1>1, <1>2, <2>1 DEF Flushes
  <2> QED BY <1>1, <1>4, <2>2, RoundKeeps
<1> HIDE DEF At
<1>5. S \in SUBSET Nat /\ 0 \in S BY <1>3
<1>6. \A k \in S : k + 1 \in S BY <1>4
<1> HIDE DEF S
<1>7. n \in S BY <1>5, <1>6, Climb
<1>8. At(n) BY <1>7 DEF S
<1> QED BY <1>1, <1>2, <1>8 DEF At, Flushes

-----------------------------------------------------------------------------
(* Every step *)

\* A flush keeps the buffer in order and sends on paths that may carry it.
LEMMA FlushStep ==
  ASSUME BufferInv, NEW edge, NEW known, NEW dir, FlushIf(edge, known, dir)
  PROVE  BufferInv' /\ Carried
<1>1. CASE ~edge
  <2>1. UNCHANGED <<pending, pool, fate>> BY <1>1 DEF FlushIf, out
  <2> QED BY <2>1 DEF BufferInv, Carried, Numbered
<1>2. CASE edge
  <2> DEFINE st == Flushed(known, dir).st
             left == Flushed(known, dir).left
  <2>1. pending' = left /\ TakePool(st) BY <1>2 DEF FlushIf
  <2>2. PICK n \in Nat : n = Len(pending) BY DEF BufferInv
  <2>3. Sofar(n, st, left) BY <2>2, FlushKeeps
  <2> HIDE DEF st, left
  <2>4. fate' = st.fate /\ pool' = [open |-> st.open, cool |-> st.cool] BY <2>1 DEF TakePool
  <2>5. st \in State /\ left \in Seq(Frames) BY <2>3 DEF Sofar
  <2>6. /\ pending' \in Seq(Frames) /\ fate' \in [Frames -> Fates]
        /\ pool' \in [open : SUBSET Peers, cool : SUBSET Peers]
    BY <2>1, <2>4, <2>5, StateIsRecord
  <2>7. ASSUME NEW f \in Frames
        PROVE  st.fate[f] = "parked" <=> \E j \in 1..Len(left) : left[j] = f
    <3>1. ASSUME st.fate[f] = "parked" PROVE \E j \in 1..Len(left) : left[j] = f
      <4>1. fate[f] = "parked" BY <3>1, <2>3 DEF Sofar
      <4>2. PICK i \in 1..n : pending[i] = f BY <4>1, <2>2 DEF BufferInv
      <4> QED BY <3>1, <4>2, <2>3 DEF Sofar
    <3>2. ASSUME NEW j \in 1..Len(left), left[j] = f PROVE st.fate[f] = "parked"
      BY <3>2, <2>3 DEF Sofar
    <3> QED BY <3>1, <3>2
  <2>8. Numbered(left) BY <2>3 DEF Sofar
  <2>9. ASSUME NEW g \in Frames, st.fate[g] = "new", NEW j \in 1..Len(left)
        PROVE  left[j] < g
    <3>1. fate[g] # "parked"
      <4> SUFFICES ASSUME fate[g] = "parked" PROVE FALSE OBVIOUS
      <4>1. PICK i \in 1..n : pending[i] = g BY <2>2 DEF BufferInv
      <4> QED BY <4>1, <2>9, <2>3 DEF Sofar
    <3>2. fate[g] = "new" BY <3>1, <2>3, <2>9 DEF Sofar
    <3>3. PICK i \in 1..n : left[j] = pending[i] BY <2>3 DEF Sofar
    <3> QED BY <2>2, <3>2, <3>3 DEF BufferInv
  <2>10. Carried BY <2>3, <2>4 DEF Sofar, Carried
  <2>11. BufferInv'
    BY <2>1, <2>4, <2>6, <2>7, <2>8, <2>9 DEF BufferInv, Numbered
  <2> QED BY <2>10, <2>11
<1> QED BY <1>1, <1>2

\* A step that sets the fate of one frame that was not parked.
LEMMA FrameMoves ==
  ASSUME BufferInv, NEW f \in Frames, fate[f] # "parked", NEW r \in State,
         \A g \in Frames : g # f => r.fate[g] = fate[g],
         r.fate[f] \notin {"parked", "new"},
         fate[f] \notin OnTheWire /\ r.fate[f] \in OnTheWire => PayloadAllowed(To[f]),
         TakePool(r), UNCHANGED pending
  PROVE  BufferInv' /\ Carried
<1>1. fate' = r.fate /\ pool' = [open |-> r.open, cool |-> r.cool] BY DEF TakePool
<1>2. /\ fate' \in [Frames -> Fates] /\ pool' \in [open : SUBSET Peers, cool : SUBSET Peers]
  BY <1>1, StateIsRecord
<1>3. Carried BY <1>1 DEF Carried
<1>4. \A g \in Frames : fate'[g] = "parked" <=> fate[g] = "parked" BY <1>1
<1>5. \A g \in Frames : fate'[g] = "new" => fate[g] = "new" BY <1>1
<1>6. BufferInv' BY <1>2, <1>4, <1>5 DEF BufferInv, Numbered
<1> QED BY <1>3, <1>6

\* A step that leaves the frames alone.
LEMMA FramesStay ==
  ASSUME BufferInv, UNCHANGED <<pending, fate>>,
         pool' \in [open : SUBSET Peers, cool : SUBSET Peers]
  PROVE  BufferInv' /\ Carried
BY DEF BufferInv, Carried, Numbered

\* What is taken of the pool at the start of a handler.
LEMMA NowIsState == BufferInv => Now \in State /\ Now.fate = fate
BY DEF BufferInv, Now, State

\* An attempt whose failure is final.
LEMMA AttemptMoves ==
  ASSUME BufferInv, NEW f \in Frames, fate[f] # "parked", NEW st \in State, st.fate = fate,
         NEW r, Tried(st, f, r), TakePool(Or(r, f, "failed")), UNCHANGED pending
  PROVE  BufferInv' /\ Carried
<1> DEFINE o == Or(r, f, "failed")
<1>1. r \in State BY DEF Tried
<1>2. r.ok \in BOOLEAN BY <1>1, StateIsRecord
<1>3. CASE r.ok
  <2>1. o = r BY <1>3 DEF Or
  <2>2. /\ \A g \in Frames : g # f => r.fate[g] = fate[g]
        /\ r.fate[f] \notin {"parked", "new"}
        /\ r.fate[f] \in OnTheWire => PayloadAllowed(To[f])
    BY <1>3 DEF Tried, OnTheWire
  <2> QED BY <1>1, <2>1, <2>2, FrameMoves
<1>4. CASE ~r.ok
  <2> DEFINE e == [r EXCEPT !.fate[f] = "failed"]
  <2>1. o = e BY <1>4 DEF Or
  <2>2. r.fate = fate BY <1>4 DEF Tried
  <2>3. /\ e \in State /\ e.fate[f] = "failed"
        /\ \A g \in Frames : g # f => e.fate[g] = fate[g]
    BY <1>1, <2>2 DEF State, Fates
  <2>4. TakePool(e) BY <2>1
  <2> HIDE DEF e, o
  <2>5. e.fate[f] \notin {"parked", "new"} /\ e.fate[f] \notin OnTheWire BY <2>3 DEF OnTheWire
  <2> QED BY <2>3, <2>4, <2>5, FrameMoves
<1> QED BY <1>2, <1>3, <1>4

\* The sends that never wait.
LEMMA StartedTries ==
  ASSUME NEW st \in State, NEW f \in Frames, NEW lane
  PROVE  Tried(st, f, Started(st, f, lane))
<1>1. Tried(st, f, [st EXCEPT !.ok = FALSE]) BY Refused
<1> DEFINE warm == SendIfWarm(st, f)
<1>2. Tried(st, f, warm) BY WarmTries
<1>3. ASSUME warm.ok PROVE Tried(st, f, [warm EXCEPT !.fate[f] = "batching"])
  <2> DEFINE b == [warm EXCEPT !.fate[f] = "batching"]
  <2>1. /\ warm \in State /\ \A g \in Frames : g # f => warm.fate[g] = st.fate[g]
    BY <1>2 DEF Tried
  <2>2. PayloadAllowed(To[f])
    <3>1. CASE WarmAllowed(To[f]) BY <3>1 DEF WarmAllowed
    <3>2. CASE ~WarmAllowed(To[f])
      <4>1. warm = [st EXCEPT !.ok = FALSE] BY <3>2 DEF SendIfWarm
      <4>2. ~[st EXCEPT !.ok = FALSE].ok BY DEF State
      <4> QED BY <1>3, <4>1, <4>2
    <3> QED BY <3>1, <3>2
  <2> HIDE DEF warm
  <2>3. /\ b \in State /\ b.fate[f] = "batching" /\ b.ok = warm.ok
        /\ \A g \in Frames : g # f => b.fate[g] = warm.fate[g]
    BY <2>1 DEF State, Fates
  <2> HIDE DEF b
  <2>4. Tried(st, f, b) BY <1>3, <2>1, <2>2, <2>3 DEF Tried, OnTheWire
  <2> QED BY <2>4 DEF b
<1>4. Tried(st, f, DialInBackground(st, f))
  <2> DEFINE d == [st EXCEPT !.fate[f] = "dialing", !.ok = TRUE]
  <2>1. /\ d \in State /\ d.fate[f] = "dialing" /\ d.ok = TRUE
        /\ \A g \in Frames : g # f => d.fate[g] = st.fate[g]
    BY DEF State, Fates
  <2> HIDE DEF d
  <2>2. Tried(st, f, d) BY <2>1 DEF Tried
  <2> QED BY <1>1, <2>2 DEF DialInBackground, d
<1> QED BY <1>1, <1>2, <1>3, <1>4 DEF Started

\* A frame that is due is parked behind the others, or refused by a full buffer.
LEMMA ParkKeeps ==
  ASSUME BufferInv, NEW f \in Frames, Due(f), Park(f), UNCHANGED pool
  PROVE  BufferInv' /\ Carried
<1>1. fate[f] = "new" /\ \A g \in Frames : g < f => fate[g] # "new" BY DEF Due
<1>2. CASE Len(pending) < Cap
  <2>1. pending' = Append(pending, f) /\ fate' = [fate EXCEPT ![f] = "parked"]
    BY <1>2 DEF Park
  <2>2. PICK n \in Nat : n = Len(pending) BY DEF BufferInv
  <2>3. /\ pending' \in Seq(Frames) /\ Len(pending') = n + 1 /\ pending'[n + 1] = f
        /\ \A i \in 1..n : pending'[i] = pending[i]
    BY <2>1, <2>2 DEF BufferInv
  <2>4. /\ fate' \in [Frames -> Fates] /\ fate'[f] = "parked"
        /\ \A g \in Frames : g # f => fate'[g] = fate[g]
    BY <2>1 DEF BufferInv, Fates
  <2>5. \A i \in 1..n : pending[i] < f BY <1>1, <2>2 DEF BufferInv
  <2>6. ASSUME NEW g \in Frames
        PROVE  fate'[g] = "parked" <=> \E i \in 1..(n + 1) : pending'[i] = g
    <3>1. CASE g = f BY <3>1, <2>3, <2>4
    <3>2. CASE g # f
      <4>1. fate'[g] = "parked" <=> \E i \in 1..n : pending[i] = g
        BY <3>2, <2>2, <2>4 DEF BufferInv
      <4>2. (\E i \in 1..(n + 1) : pending'[i] = g) <=> \E i \in 1..n : pending[i] = g
        BY <3>2, <2>3
      <4> QED BY <4>1, <4>2
    <3> QED BY <3>1, <3>2
  <2>7. ASSUME NEW i \in 1..(n + 1), NEW j \in 1..(n + 1), i < j PROVE pending'[i] < pending'[j]
    <3>1. i \in 1..n BY <2>7
    <3>2. CASE j = n + 1 BY <3>1, <3>2, <2>3, <2>5
    <3>3. CASE j \in 1..n BY <3>1, <3>3, <2>7, <2>2, <2>3 DEF BufferInv, Numbered
    <3> QED BY <3>2, <3>3
  <2>8. ASSUME NEW g \in Frames, fate'[g] = "new", NEW i \in 1..(n + 1) PROVE pending'[i] < g
    <3>1. g # f /\ fate[g] = "new" BY <2>4, <2>8
    <3>2. CASE i = n + 1
      <4>1. f \in Nat /\ g \in Nat BY OutboxAssumption
      <4>2. ~(g < f) BY <1>1, <3>1
      <4> QED BY <3>1, <3>2, <4>1, <4>2, <2>3
    <3>3. CASE i \in 1..n BY <3>1, <3>3, <2>2, <2>3 DEF BufferInv
    <3> QED BY <3>2, <3>3
  <2>9. BufferInv' BY <2>3, <2>4, <2>6, <2>7, <2>8 DEF BufferInv, Numbered
  <2>10. Carried BY <2>4 DEF Carried, OnTheWire
  <2> QED BY <2>9, <2>10
<1>3. CASE ~(Len(pending) < Cap)
  <2>1. pending' = pending /\ fate' = [fate EXCEPT ![f] = "failed"] BY <1>3 DEF Park
  <2>2. /\ fate' \in [Frames -> Fates] /\ fate'[f] = "failed"
        /\ \A g \in Frames : g # f => fate'[g] = fate[g]
    BY <2>1 DEF BufferInv, Fates
  <2>3. Carried BY <2>2 DEF Carried, OnTheWire
  <2>4. \A g \in Frames : /\ fate'[g] = "parked" <=> fate[g] = "parked"
                          /\ fate'[g] = "new" => fate[g] = "new"
    BY <1>1, <2>2
  <2>5. BufferInv' BY <2>1, <2>2, <2>4 DEF BufferInv, Numbered
  <2> QED BY <2>3, <2>5
<1> QED BY <1>2, <1>3

\* The steps of one frame.
LEMMA FrameSteps ==
  ASSUME BufferInv, NEW f \in Frames,
         \/ SendApp(f) \/ WriteDone(f) \/ WriteFails(f) \/ DialDone(f)
         \/ \E lane \in {"background", "reply", "batch"} : SendInBackground(f, lane)
  PROVE  BufferInv' /\ Carried
<1>1. Now \in State /\ Now.fate = fate BY NowIsState
<1>2. To[f] \in Peers BY OutboxAssumption
<1>3. CASE SendApp(f)
  <2>1. Due(f) BY <1>3 DEF SendApp
  <2>2. CASE Park(f) /\ UNCHANGED pool BY <2>1, <2>2, ParkKeeps
  <2>3. CASE /\ TakePool(Or(Deliver(Now, f, peer_endpoints, direct), f, "failed"))
             /\ UNCHANGED pending
    <3>1. fate[f] # "parked" BY <2>1 DEF Due
    <3>2. Tried(Now, f, Deliver(Now, f, peer_endpoints, direct)) BY <1>1, DeliverTries
    <3> HIDE DEF Now
    <3> QED BY <1>1, <2>3, <3>1, <3>2, AttemptMoves
  <2> QED BY <1>3, <2>2, <2>3 DEF SendApp
<1>4. ASSUME NEW lane, SendInBackground(f, lane) PROVE BufferInv' /\ Carried
  <2>1. /\ Due(f) /\ TakePool(Or(Started(Now, f, lane), f, "failed")) /\ UNCHANGED pending
    BY <1>4 DEF SendInBackground
  <2>2. fate[f] # "parked" BY <2>1 DEF Due
  <2>3. Tried(Now, f, Started(Now, f, lane)) BY <1>1, StartedTries
  <2> QED BY <1>1, <2>1, <2>2, <2>3, AttemptMoves
<1>5. CASE WriteDone(f)
  <2> DEFINE r == [Now EXCEPT !.fate[f] = "sent"]
  <2>1. fate[f] \in OnTheWire /\ fate[f] # "parked" BY <1>5 DEF WriteDone, OnTheWire
  <2>2. TakePool(r) /\ UNCHANGED pending BY <1>5 DEF WriteDone, Settle
  <2>3. /\ r \in State /\ r.fate[f] = "sent" /\ \A g \in Frames : g # f => r.fate[g] = fate[g]
    BY <1>1 DEF State, Fates
  <2> HIDE DEF r
  <2> QED BY <2>1, <2>2, <2>3, FrameMoves
<1>6. CASE WriteFails(f)
  <2> DEFINE x == IF fate[f] = "batching" \/ To[f] \in pool.cool THEN "failed" ELSE "redialing"
             r == [Now EXCEPT !.open = @ \ {To[f]}, !.fate[f] = x]
  <2>1. fate[f] \in OnTheWire /\ fate[f] # "parked" BY <1>6 DEF WriteFails, OnTheWire
  <2>2. TakePool(r) /\ UNCHANGED pending BY <1>6 DEF WriteFails, Settle
  <2>3. x \in {"failed", "redialing"} OBVIOUS
  <2> HIDE DEF x
  <2>4. /\ r \in State /\ r.fate[f] = x /\ \A g \in Frames : g # f => r.fate[g] = fate[g]
    BY <1>1, <2>3 DEF State, Fates
  <2> HIDE DEF r
  <2> QED BY <2>1, <2>2, <2>3, <2>4, FrameMoves
<1>7. CASE DialDone(f)
  <2> DEFINE d == Dialed(Now, To[f])
  <2>1. fate[f] # "parked" BY <1>7 DEF DialDone
  <2>2. TakePool(Or(SendOn(d, f), f, "failed")) /\ UNCHANGED pending BY <1>7 DEF DialDone, Settle
  <2>3. d \in State /\ d.fate = fate BY <1>1, <1>2, DialedState
  <2> HIDE DEF d
  <2>4. Tried(d, f, SendOn(d, f)) BY <2>3, SendOnTries
  <2> QED BY <2>1, <2>2, <2>3, <2>4, AttemptMoves
<1> QED BY <1>3, <1>4, <1>5, <1>6, <1>7

\* Every step keeps the buffer, and sends only on a path that may carry payload.
LEMMA StepKeepsBuffer == BufferInv /\ [Next]_vars => BufferInv' /\ Carried
<1> SUFFICES ASSUME BufferInv, [Next]_vars PROVE BufferInv' /\ Carried OBVIOUS
<1>1. pool \in [open : SUBSET Peers, cool : SUBSET Peers] BY DEF BufferInv
<1>2. ASSUME UNCHANGED out PROVE BufferInv' /\ Carried
  <2>1. UNCHANGED <<pending, fate, pool>> BY <1>2 DEF out
  <2> QED BY <1>1, <2>1, FramesStay
<1>3. CASE UNCHANGED vars BY <1>2, <1>3 DEF vars
<1>4. ASSUME NEW f \in Frames,
             \/ SendApp(f) \/ WriteDone(f) \/ WriteFails(f) \/ DialDone(f)
             \/ \E lane \in {"background", "reply", "batch"} : SendInBackground(f, lane)
      PROVE  BufferInv' /\ Carried
  BY <1>4, FrameSteps
<1>5. ASSUME NEW p \in Peers, ProbeEnds(p) PROVE BufferInv' /\ Carried
  <2>1. PICK d \in {WarmOrDial(Now, p), Dialed(Now, p)} : TakePool(d) /\ UNCHANGED pending
    BY <1>5 DEF ProbeEnds
  <2>2. d \in State /\ d.fate = fate BY <2>1, DialedState, NowIsState
  <2>3. UNCHANGED <<pending, fate>> /\ pool' = [open |-> d.open, cool |-> d.cool]
    BY <2>1, <2>2 DEF TakePool
  <2>4. pool' \in [open : SUBSET Peers, cool : SUBSET Peers] BY <2>2, <2>3, StateIsRecord
  <2> QED BY <2>3, <2>4, FramesStay
<1>6. ASSUME NEW p \in Peers, \/ NeighborDown(p) \/ RelinkCooldownEnds(p)
                              \/ \E to \in {"none", "relay", "direct"} : PathChanges(p, to)
                              \/ \E reading \in {"direct", "relayOnly"} : Census(p, reading)
      PROVE  BufferInv' /\ Carried
  BY <1>2, <1>6 DEF NeighborDown, RelinkCooldownEnds, PathChanges, Census
<1>7. ASSUME NEW p \in Peers, \/ ConnCloses(p) \/ DialCooldownEnds(p)
                              \/ \E graceful \in BOOLEAN : Forget(p, graceful)
      PROVE  BufferInv' /\ Carried
  <2>1. UNCHANGED <<pending, fate>> BY <1>7 DEF ConnCloses, DialCooldownEnds, Forget
  <2>2. pool' \in [open : SUBSET Peers, cool : SUBSET Peers]
    BY <1>1, <1>7 DEF ConnCloses, DialCooldownEnds, Forget
  <2> QED BY <2>1, <2>2, FramesStay
<1>8. ASSUME NEW p \in Peers, \/ PeerInfo(p)
                              \/ \E reading \in {"direct", "relayOnly", direct[p]} :
                                   NeighborUp(p, reading)
      PROVE  BufferInv' /\ Carried
  BY <1>8, FlushStep DEF PeerInfo, NeighborUp
<1>9. CASE OnOutcome BY <1>2, <1>9, FlushStep DEF OnOutcome, GraftProven
<1>10. CASE Inbound \/ AliveTick BY <1>10, FlushStep DEF Inbound, AliveTick
<1>11. CASE HealTick \/ \E starved \in BOOLEAN : Degrade(starved)
  BY <1>2, <1>11 DEF HealTick, Degrade
<1> QED BY <1>3, <1>4, <1>5, <1>6, <1>7, <1>8, <1>9, <1>10, <1>11 DEF Next

\* At first nothing is parked.
LEMMA InitBuffer == Init => BufferInv
<1> SUFFICES ASSUME Init PROVE BufferInv OBVIOUS
<1>1. pending = <<>> /\ pool = [open |-> {}, cool |-> {}] /\ fate = [f \in Frames |-> "new"]
  BY DEF Init
<1>2. pending \in Seq(Frames) /\ Len(pending) = 0 BY <1>1
<1> QED BY <1>1, <1>2 DEF BufferInv, Numbered, Fates

\* The buffer holds exactly the frames that are parked, in the order they were
\* sent, for any peers, frames and capacity: whatever a flush, a full buffer or
\* a failing dial sends, keeps or drops (flush_pending, BoundedQueue).
THEOREM ParkingKeepsOrder == Spec => []ParkedInOrder
<1>1. BufferInv => ParkedInOrder
  BY DEF BufferInv, ParkedInOrder, Numbered, ToSet
<1> QED BY <1>1, InitBuffer, StepKeepsBuffer, PTL DEF Spec

\* With the relay lookup only, no step hands a frame to a connection whose path
\* is not direct in that step: deliver, the background dials, the flushes and
\* the batches all end in payload_allowed_on, whatever verdict routed the frame.
THEOREM RelayIsLookupOnly == Spec => RelayCarriesNoPayload
<1>1. Carried => (~relay_transport =>
                    \A f \in Frames :
                      fate[f] \notin OnTheWire /\ fate'[f] \in OnTheWire =>
                        path[To[f]] = "direct")
  BY DEF Carried, PayloadAllowed
<1> QED BY <1>1, InitBuffer, StepKeepsBuffer, PTL DEF Spec, RelayCarriesNoPayload
=============================================================================
