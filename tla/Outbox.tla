------------------------------- MODULE Outbox -------------------------------
(***************************************************************************)
(* One member's send decision (transport/send.rs, transport/pool.rs), the  *)
(* frames it parks (pending_outbound), and the direct-path probes and links*)
(* that free them (transport/probe.rs, gossip/recv.rs, gossip/heal.rs).    *)
(*                                                                         *)
(* The event loop runs one handler at a time, so a handler is one action,  *)
(* the dials it awaits included.  What it spawns (a stream write, a        *)
(* background dial, a probe) ends in an action of its own, between any two *)
(* handlers.  The member runs no WebRTC: a peer's direct path is UDP, and  *)
(* there are no path watchers.                                             *)
(*                                                                         *)
(* `path` is what iroh can do for a peer: no path, the relay only, or a    *)
(* direct one; it changes at any time, and a pooled connection rides it.   *)
(* A frame on the gossip plane is written or refused at once and never     *)
(* waits for a peer, so only directed frames are modelled.                 *)
(***************************************************************************)
EXTENDS Integers, Sequences, FiniteSets, SequencesExt

CONSTANTS Peers,
          Lower,     \* the peers whose endpoint id is below ours
          Frames,    \* directed frames, numbered in the order they are sent
          To,        \* frame -> its addressee
          Cap,       \* PENDING_OUTBOUND_CAP
          MaxPeers,  \* max_peers
          MaxProbes, \* bound: probes of one peer running or unheard
          MaxLeaves  \* bound: times a peer leaves or is forgotten

ASSUME OutboxAssumption ==
  /\ Lower \subseteq Peers
  /\ Frames \subseteq Nat
  /\ To \in [Frames -> Peers]
  /\ Cap \in Nat \ {0} /\ MaxPeers \in Nat \ {0}
  /\ MaxProbes \in Nat \ {0} /\ MaxLeaves \in Nat

VARIABLES relay_transport, \* whether the relay may carry payload
          meshed, degraded,
          peer_endpoints,  \* peers with a dial hint
          known_endpoints, \* peers ever advertised to us
          linked,          \* linked_endpoints
          direct,          \* peer -> unknown, pending, relayOnly or direct
          relink,          \* peers on the relink cooldown
          pending,         \* pending_outbound
          pool,            \* [open, cool]: peers with a pooled connection, and
                           \* peers on the dial-failure cooldown
          fate,            \* frame -> new, parked, writing, batching (a write as
                           \* part of a batch), dialing, redialing, sent, or failed
                           \* (an error to the caller, or logged and lost)
          probes,          \* peer -> probe tasks running
          verdicts,        \* the DirectOutcome channel
          path, leaves

links == <<meshed, degraded, peer_endpoints, known_endpoints, linked, relink>>
proofs == <<direct, probes, verdicts>>
out == <<pending, pool, fate>>
world == <<path, leaves>>
vars == <<relay_transport, links, proofs, out, world>>

-----------------------------------------------------------------------------
(* transport/pool.rs.  An operator takes the pool and the fates, and returns *)
(* them with the outcome: st is [open, cool, fate, ok].                      *)

Now == [open |-> pool.open, cool |-> pool.cool, fate |-> fate, ok |-> TRUE]

\* payload_allowed_on, and wait_direct on a connection that is given time.
PayloadAllowed(p) == relay_transport \/ path[p] = "direct"

\* Fault: the relay is refused on a fresh connection only.
PayloadOnWarm(p) == TRUE

\* send_if_warm: whether the selected path of the open connection will do.
WarmAllowed(p) == PayloadAllowed(p)

\* A dial: failing starts the cooldown, connecting ends it.
Dialed(st, p) ==
  IF path[p] = "none" THEN [st EXCEPT !.cool = @ \cup {p}, !.ok = FALSE]
  ELSE [st EXCEPT !.open = @ \cup {p}, !.cool = @ \ {p}, !.ok = TRUE]

\* warm_or_dial
WarmOrDial(st, p) ==
  IF p \in st.open THEN [st EXCEPT !.ok = TRUE]
  ELSE IF p \in st.cool THEN [st EXCEPT !.ok = FALSE]
  ELSE Dialed(st, p)

\* dial_and_send once dialed: a connection with only the relay to send on is
\* an error too.
SendOn(dialed, f) ==
  IF dialed.ok /\ PayloadAllowed(To[f])
    THEN [dialed EXCEPT !.fate[f] = "sent"]
    ELSE [dialed EXCEPT !.ok = FALSE]

\* send_if_warm hands the frame to a spawned write, and reports it sent.
SendIfWarm(st, f) ==
  IF WarmAllowed(To[f]) THEN [st EXCEPT !.fate[f] = "writing", !.ok = TRUE]
                        ELSE [st EXCEPT !.ok = FALSE]

\* send_unicast: warm first, else dial inline.
SendUnicast(st, f) ==
  IF To[f] \in st.open THEN SendIfWarm(st, f)
                     ELSE SendOn(WarmOrDial(st, To[f]), f)

\* InFlightDial: the entry of the in-flight set goes with its task.
Dialing == {To[f] : f \in {g \in Frames : fate[g] = "dialing"}}

\* dial_and_send_in_background, and the cold leg of send_batch_in_background.
DialInBackground(st, f) ==
  IF To[f] \in st.cool \cup Dialing THEN [st EXCEPT !.ok = FALSE]
  ELSE [st EXCEPT !.fate[f] = "dialing", !.ok = TRUE]

-----------------------------------------------------------------------------
(* transport/send.rs *)

\* held: the relay is lookup only and no direct path is proven.
Held(p, dir) == ~relay_transport /\ dir[p] # "direct"

\* deliver: route, then send_unicast; a held or undeliverable frame is an error.
Deliver(st, f, known, dir) ==
  IF To[f] \notin known \/ Held(To[f], dir) THEN [st EXCEPT !.ok = FALSE]
  ELSE SendUnicast(st, f)

\* The sends that never wait, by the lane they take.
\*   background: deliver_in_background, routed like deliver
\*   reply:      auto_pong's send_best_effort, which dials a linked peer only
\*   batch:      unicast_answer_target, then send_batch_in_background
MayStart(p, lane) ==
  /\ p \in peer_endpoints
  /\ lane = "reply" \/ ~Held(p, direct)
  /\ lane = "batch" => p \in linked

MayDial(p, lane) == lane = "reply" => p \in linked

Started(st, f, lane) ==
  LET warm == SendIfWarm(st, f)
  IN  IF ~MayStart(To[f], lane) THEN [st EXCEPT !.ok = FALSE]
      ELSE IF To[f] \in st.open
        THEN IF warm.ok /\ lane = "batch" THEN [warm EXCEPT !.fate[f] = "batching"] ELSE warm
      ELSE IF MayDial(To[f], lane) THEN DialInBackground(st, f)
      ELSE [st EXCEPT !.ok = FALSE]

-----------------------------------------------------------------------------
(* flush_pending, under the verdicts and the dial hints in force by then *)

\* Fault: what could not be sent is put back in front.
RequeueInFront(queue, f) == <<f>> \o queue

Requeue(queue, f) == Append(queue, f)

\* One frame through deliver: it is sent, queued again, or lost to a full buffer.
FlushOne(acc, f, known, dir) ==
  LET sent == Deliver(acc.st, f, known, dir)
  IN  IF sent.ok THEN [st |-> sent, left |-> acc.left]
      ELSE IF Len(acc.left) < Cap THEN [st |-> sent, left |-> Requeue(acc.left, f)]
      ELSE [st |-> [sent EXCEPT !.fate[f] = "failed"], left |-> acc.left]

\* Every frame in order.
Flushed(known, dir) ==
  LET After[k \in 0..Len(pending)] ==
        IF k = 0 THEN [st |-> Now, left |-> <<>>]
        ELSE FlushOne(After[k - 1], pending[k], known, dir)
  IN  After[Len(pending)]

TakePool(st) ==
  /\ pool' = [open |-> st.open, cool |-> st.cool]
  /\ fate' = st.fate

FlushIf(edge, known, dir) ==
  IF edge THEN LET done == Flushed(known, dir)
               IN  pending' = done.left /\ TakePool(done.st)
          ELSE UNCHANGED out

-----------------------------------------------------------------------------
(* transport/probe.rs *)

Unheard(p) == probes[p] + Cardinality({i \in 1..Len(verdicts) : verdicts[i].peer = p})

\* Fault: only a peer never probed before is.
NeedsProbeOnce(ps, dir) == {p \in ps : dir[p] = "unknown"}

\* ensure_direct for each of ps: the peers it starts a probe of.
NeedsProbe(ps, dir) ==
  IF relay_transport THEN {} ELSE {p \in ps : dir[p] \notin {"direct", "pending"}}

StartProbes(ps) ==
  /\ \A p \in ps : Unheard(p) < MaxProbes
  /\ probes' = [p \in Peers |-> IF p \in ps THEN probes[p] + 1 ELSE probes[p]]

\* ... and those it lets be grafted at once.
MayGraft(ps, dir) == IF relay_transport THEN ps ELSE {p \in ps : dir[p] = "direct"}

\* retry_candidates
Candidates(distrust, cooling) ==
  {p \in peer_endpoints : /\ distrust \/ p \notin linked
                          /\ direct[p] # "pending" /\ p \notin cooling}

\* retry_direct after a resume or starvation: every verdict is forgotten first.
Rebridge(cooling) ==
  LET ps == IF relay_transport THEN {} ELSE Candidates(TRUE, cooling)
  IN  /\ direct' = [p \in Peers |-> IF p \in ps THEN "pending" ELSE direct[p]]
      /\ StartProbes(ps)
      /\ UNCHANGED verdicts

\* The relink cooldown of the peers a graft is asked for.
Grafted(ps) ==
  relink \cup {p \in ps : p \notin linked /\ Cardinality(linked) < MaxPeers}

\* Fault: a late negative verdict leaves a pending peer pending.
NotDemoted(p) == direct[p]

\* demote_unproven: only a peer still pending is demoted.
Demoted(p) == IF direct[p] = "pending" THEN "relayOnly" ELSE direct[p]

-----------------------------------------------------------------------------
Init ==
  /\ relay_transport \in BOOLEAN
  /\ meshed = FALSE /\ degraded = FALSE
  /\ peer_endpoints = {} /\ known_endpoints = {} /\ linked = {} /\ relink = {}
  /\ direct = [p \in Peers |-> "unknown"]
  /\ probes = [p \in Peers |-> 0] /\ verdicts = <<>>
  /\ pending = <<>> /\ pool = [open |-> {}, cool |-> {}]
  /\ fate = [f \in Frames |-> "new"]
  /\ path \in [Peers -> {"none", "relay", "direct"}]
  /\ leaves = 0

(* What the application asks to send *)

\* The application sends its frames in order.
Due(f) == fate[f] = "new" /\ \A g \in Frames : g < f => fate[g] # "new"

Park(f) ==
  IF Len(pending) < Cap
    THEN pending' = Append(pending, f) /\ fate' = [fate EXCEPT ![f] = "parked"]
    ELSE fate' = [fate EXCEPT ![f] = "failed"] /\ UNCHANGED pending

Or(st, f, otherwise) == IF st.ok THEN st ELSE [st EXCEPT !.fate[f] = otherwise]

\* send_app: unmeshed or held, the frame is parked; any other failure to
\* deliver is the caller's.
SendApp(f) ==
  /\ Due(f)
  /\ IF ~meshed \/ (To[f] \in peer_endpoints /\ Held(To[f], direct))
       THEN Park(f) /\ UNCHANGED pool
       ELSE /\ TakePool(Or(Deliver(Now, f, peer_endpoints, direct), f, "failed"))
            /\ UNCHANGED pending
  /\ UNCHANGED <<relay_transport, links, proofs, world>>

\* deliver_in_background, send_best_effort and a digest's answer.
SendInBackground(f, lane) ==
  /\ Due(f)
  /\ TakePool(Or(Started(Now, f, lane), f, "failed"))
  /\ UNCHANGED <<relay_transport, links, proofs, pending, world>>

(* What the spawned tasks do *)

Settle(st) ==
  /\ TakePool(st)
  /\ UNCHANGED <<relay_transport, links, proofs, pending, world>>

\* The write of send_if_warm or of a batch on an open connection.
WriteDone(f) ==
  /\ fate[f] \in {"writing", "batching"}
  /\ Settle([Now EXCEPT !.fate[f] = "sent"])

\* ... fails: whatever connection is pooled by now is dropped.  A batch stops
\* there, a single frame is dialed for once more.
WriteFails(f) ==
  /\ fate[f] \in {"writing", "batching"}
  /\ Settle([Now EXCEPT !.open = @ \ {To[f]},
                           !.fate[f] = IF fate[f] = "batching" \/ To[f] \in pool.cool
                                         THEN "failed" ELSE "redialing"])

\* The dial of a task ends, whatever became of the peer since it began; a
\* failure is only logged.
DialDone(f) ==
  /\ fate[f] \in {"dialing", "redialing"}
  /\ Settle(Or(SendOn(Dialed(Now, To[f]), f), f, "failed"))

\* ensure_direct's task: connect, then wait for a direct path.  Its dial may
\* have begun before the connection now pooled.
ProbeEnds(p) ==
  \E dialed \in {WarmOrDial(Now, p), Dialed(Now, p)} :
    /\ probes[p] > 0
    /\ probes' = [probes EXCEPT ![p] = @ - 1]
    /\ verdicts' = Append(verdicts, [peer |-> p, direct |-> dialed.ok /\ path[p] = "direct"])
    /\ TakePool(dialed)
    /\ UNCHANGED <<relay_transport, links, direct, pending, world>>

(* What the event loop hears *)

\* graft_proven
GraftProven(p) ==
  LET dir == [direct EXCEPT ![p] = "direct"]
  IN  /\ direct' = dir
      /\ relink' = Grafted({p})
      /\ FlushIf(meshed /\ pending # <<>>, peer_endpoints, dir)

\* on_outcome
OnOutcome ==
  /\ verdicts # <<>>
  /\ verdicts' = Tail(verdicts)
  /\ LET p == Head(verdicts).peer
     IN  \/ Head(verdicts).direct /\ GraftProven(p)
         \/ /\ ~Head(verdicts).direct
            /\ direct' = [direct EXCEPT ![p] = Demoted(p)]
            /\ UNCHANGED <<relink, out>>
  /\ UNCHANGED <<relay_transport, meshed, degraded, peer_endpoints, known_endpoints,
                 linked, probes, world>>

\* NeighborUp sets meshed, and ends the degraded state if it was not.
StillDegraded == degraded /\ meshed

\* NeighborUp.  With the relay lookup only the accept gate lets a link up on a
\* direct path alone, and the link is the proof; otherwise conn_path's reading
\* is recorded (observe_path).
NeighborUp(p, reading) ==
  LET dir == [direct EXCEPT ![p] = IF relay_transport THEN reading ELSE "direct"]
  IN  /\ p \notin linked
      /\ path[p] = "direct" \/ (relay_transport /\ path[p] = "relay")
      /\ linked' = linked \cup {p}
      /\ direct' = dir
      /\ meshed' = TRUE
      /\ degraded' = StillDegraded
      /\ FlushIf(~meshed, peer_endpoints, dir)
      /\ UNCHANGED <<relay_transport, peer_endpoints, known_endpoints, relink, probes,
                     verdicts, world>>

\* NeighborDown: the verdict outlives the link.
NeighborDown(p) ==
  /\ p \in linked
  /\ linked' = linked \ {p}
  /\ UNCHANGED <<relay_transport, meshed, degraded, peer_endpoints, known_endpoints,
                 relink, proofs, out, world>>

\* note_inbound, on the edge where a degraded node hears something.
Inbound ==
  /\ degraded
  /\ meshed' = TRUE /\ degraded' = FALSE
  /\ FlushIf(TRUE, peer_endpoints, direct)
  /\ UNCHANGED <<relay_transport, peer_endpoints, known_endpoints, linked, relink,
                 proofs, world>>

\* handle_peer_info: record, flush, then dial or leave the first dial to the
\* lower id.
PeerInfo(p) ==
  LET known == peer_endpoints \cup {p}
      defer == p \notin known_endpoints /\ p \in Lower
      try == ~defer /\ Cardinality(linked) < MaxPeers /\ p \notin linked \cup relink
      probe == NeedsProbe(IF try THEN {p} ELSE {}, direct)
  IN  /\ peer_endpoints' = known
      /\ known_endpoints' = known_endpoints \cup {p}
      /\ FlushIf(meshed /\ pending # <<>>, known, direct)
      /\ relink' = IF defer \/ try THEN relink \cup {p} ELSE relink
      /\ direct' = [q \in Peers |-> IF q \in probe THEN "pending" ELSE direct[q]]
      /\ StartProbes(probe)
      /\ UNCHANGED <<relay_transport, meshed, degraded, linked, verdicts, world>>

\* A graceful Left, which also drops the pooled connection and its cooldown, or
\* a peer the sweep forgets, which does not.
Forget(p, graceful) ==
  /\ p \in peer_endpoints /\ leaves < MaxLeaves
  /\ leaves' = leaves + 1
  /\ peer_endpoints' = peer_endpoints \ {p}
  /\ direct' = [direct EXCEPT ![p] = "unknown"]
  /\ pool' = IF graceful THEN [open |-> pool.open \ {p}, cool |-> pool.cool \ {p}] ELSE pool
  /\ UNCHANGED <<relay_transport, meshed, degraded, known_endpoints, linked, relink,
                 pending, fate, probes, verdicts, path>>

(* What the timers do *)

\* The alive tick's retry_direct.
AliveTick ==
  LET ps == IF relay_transport THEN {} ELSE Candidates(FALSE, relink)
      probe == NeedsProbe(ps, direct)
      graft == MayGraft(ps, direct)
  IN  /\ direct' = [p \in Peers |-> IF p \in probe THEN "pending" ELSE direct[p]]
      /\ StartProbes(probe)
      /\ relink' = Grafted(graft)
      /\ FlushIf(graft # {} /\ meshed /\ pending # <<>>, peer_endpoints, direct)
      /\ UNCHANGED <<relay_transport, meshed, degraded, peer_endpoints, known_endpoints,
                     linked, verdicts, world>>

\* The heal tick of a node with no link left.
HealTick ==
  /\ linked = {} /\ known_endpoints # {}
  /\ Rebridge(relink)
  /\ UNCHANGED <<relay_transport, links, out, world>>

\* The heal tick after a resume, and the starvation watchdog (which also clears
\* the relink cooldowns): note_degraded, then rebridge_known, which finds
\* nobody when nobody is known.
Degrade(starved) ==
  LET cooling == IF starved THEN {} ELSE relink
  IN  /\ starved => known_endpoints # {}
      /\ meshed' = FALSE /\ degraded' = TRUE
      /\ relink' = cooling
      /\ Rebridge(cooling)
      /\ UNCHANGED <<relay_transport, peer_endpoints, known_endpoints, linked, out, world>>

\* tick_state_refresh, while DEBUG is live: conn_path's reading of a link is recorded,
\* and nothing is flushed.
Census(p, reading) ==
  /\ p \in linked
  /\ relay_transport \/ reading # "relayOnly"
  /\ direct' = [direct EXCEPT ![p] = reading]
  /\ UNCHANGED <<relay_transport, links, probes, verdicts, out, world>>

DialCooldownEnds(p) ==
  /\ p \in pool.cool
  /\ pool' = [pool EXCEPT !.cool = @ \ {p}]
  /\ UNCHANGED <<relay_transport, links, proofs, pending, fate, world>>

RelinkCooldownEnds(p) ==
  /\ p \in relink
  /\ relink' = relink \ {p}
  /\ UNCHANGED <<relay_transport, meshed, degraded, peer_endpoints, known_endpoints,
                 linked, proofs, out, world>>

(* What the network does *)

PathChanges(p, to) ==
  /\ path[p] # to
  /\ path' = [path EXCEPT ![p] = to]
  /\ UNCHANGED <<relay_transport, links, proofs, out, leaves>>

ConnCloses(p) ==
  /\ p \in pool.open
  /\ pool' = [pool EXCEPT !.open = @ \ {p}]
  /\ UNCHANGED <<relay_transport, links, proofs, pending, fate, world>>

Next ==
  \/ \E f \in Frames : \/ SendApp(f) \/ WriteDone(f) \/ WriteFails(f) \/ DialDone(f)
                       \/ \E lane \in {"background", "reply", "batch"} : SendInBackground(f, lane)
  \/ \E p \in Peers :
       \/ ProbeEnds(p) \/ NeighborDown(p) \/ PeerInfo(p) \/ ConnCloses(p)
       \/ DialCooldownEnds(p) \/ RelinkCooldownEnds(p)
       \/ \E reading \in {"direct", "relayOnly", direct[p]} : NeighborUp(p, reading)
       \/ \E reading \in {"direct", "relayOnly"} : Census(p, reading)
       \/ \E graceful \in BOOLEAN : Forget(p, graceful)
       \/ \E to \in {"none", "relay", "direct"} : PathChanges(p, to)
  \/ OnOutcome \/ Inbound \/ AliveTick \/ HealTick
  \/ \E starved \in BOOLEAN : Degrade(starved)

Spec == Init /\ [][Next]_vars

\* Tasks end, the loop serves its channels, and timers fire.
FairSpec ==
  /\ Spec
  /\ WF_vars(OnOutcome) /\ WF_vars(AliveTick)
  /\ \A p \in Peers : /\ WF_vars(ProbeEnds(p))
                      /\ WF_vars(DialCooldownEnds(p)) /\ WF_vars(RelinkCooldownEnds(p))

-----------------------------------------------------------------------------
(* Properties *)

\* Parking keeps what it accepts, in the order it was sent: a frame leaves the
\* buffer only into the transport, whatever flushes in between could not send
\* (flush_pending, BoundedQueue).
ParkedInOrder ==
  /\ {f \in Frames : fate[f] = "parked"} = ToSet(pending)
  /\ \A i, j \in 1..Len(pending) : i < j => pending[i] < pending[j]

\* A pending verdict has a probe behind it, however the peer left, came back
\* and was distrusted meanwhile: retry_candidates skips a pending peer, so one
\* without a probe would be held for good (ensure_direct, demote_unproven).
PendingHasProbe ==
  \A p \in Peers : direct[p] = "pending" => Unheard(p) > 0

OnTheWire == {"writing", "batching", "sent"}

\* With the relay lookup only, no frame is handed to a connection whose
\* selected path is not direct at that moment, although the verdict that routed
\* it may be older than the path (payload_allowed_on).
RelayCarriesNoPayload ==
  [][~relay_transport =>
       \A f \in Frames :
         fate[f] \notin OnTheWire /\ fate'[f] \in OnTheWire =>
           path[To[f]] = "direct"]_vars

\* The relay is lookup only, and the peer can be reached directly.
Reachable(p) ==
  ~relay_transport /\ p \in peer_endpoints /\ path[p] = "direct" /\ meshed

Waiting(p) == \E f \in Frames : fate[f] = "parked" /\ To[f] = p

\* What is parked for a peer leaves once it stays reachable and unlinked,
\* whatever verdicts of earlier probes are still to come: the alive tick probes
\* it again until one flushes the buffer (retry_direct, graft_proven).  A
\* linked peer is no candidate of the tick, so it is left out.
HoldEnds ==
  \A p \in Peers : <>[](Reachable(p) /\ p \notin linked) => []<>~Waiting(p)
=============================================================================
