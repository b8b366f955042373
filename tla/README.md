# fofoca: a TLA+ verification project

fofoca is a serverless gossip engine: every member of a mesh runs the same
event loop over an iroh endpoint, there is no coordinator, and everything a
member knows it learnt from signed frames that other members flooded, re-sent or
addressed to it. This directory models the engine's protocol logic in TLA+,
checks it with TLC on small instances, and proves most of its safety properties with
TLAPS for every value of the constants. `PROJECT.json` lists components, runs, the line map,
mutants, hazards and theorems; this file explains them.

Contents: [Inventory](#inventory) · [Hard behaviours](#hard-behaviours) ·
[Modules](#modules-and-how-they-correspond-to-the-code) ·
[Runs and bounds](#runs-and-bounds) · [Fairness](#fairness) ·
[Disagreements](#where-the-code-and-its-documentation-disagree) ·
[Proofs](#proofs) · [Limits](#what-is-only-model-checked-and-what-is-not-modelled) ·
[Plan](#plan)

## Inventory

About 43 700 lines of implementation in sixteen crates. The parts that keep
state and the way they interact:

| part (crate or path) | state | operations | talks to |
|---|---|---|---|
| Message log and indexes (`daemon/message_log.rs`, `daemon/state.rs`, `gossip/recv.rs`) | bounded log, dedup set `seen`, fork index, causal index | ingest a frame, retain an own frame, evict | fed by all three delivery planes; read by anti-entropy and the app |
| Anti-entropy of the log (`gossip/antientropy.rs`) | sweep cursor, per-author cooldown | digest tick, serve a digest | reads the log, sends through the transport |
| Shared documents (`fofoca-doc`, `gossip/antientropy.rs`, `gossip/broadcast.rs`) | automerge document, orphan buffer, serve windows, fast rounds | write, ingest, drain, heads digest, serve, ask back | frames through `recv.rs`, `seen` is shared with the log |
| Roster and presence (`lifecycle/`) | peers, last_seen, quiet list, dial hints, surfaced | observe, presence handlers, timeout sweep | every verified frame; events to the operator |
| Beacon and healing (`beacon/`, `daemon/beacon_arm.rs`, `daemon/heal.rs`, `gossip/heal.rs`) | held rendezvous, rival probe, relay rung, re-check deadline | claim, probe, verdict, shed, heal, re-home | event loop arms; probe and close tasks off the loop |
| Rollback netplay (`fofoca-netplay`) | input queues, saved states, per-peer protocol | poll, advance, roll back, handshake, disconnect | packets over the mesh driver |
| Netplay lobby (`fofoca-netplay/src/mesh/lobby.rs`) | presence, epoch, match | propose, adopt, announce, expire | mailbox of the mesh driver |
| Outbox, pooled links (`transport/send.rs`, `pool.rs`, `probe.rs`, `path.rs`, `gossip/heal.rs`) | parked frames, pool and its cooldowns, path verdicts, links | route, park, flush, dial, probe, re-bridge | every directed frame; spawned writes, dials and probes |
| WebRTC (`transport/webrtc.rs`, `admission.rs`, `direct_gossip.rs`, `fofoca-iroh-webrtc-transport`) | session registry, admissions, negotiations, the rendezvous session | offer, answer, attach, detach, refuse, retire, graft | a signal connection per round, drivers and browser hooks, the gossip link of the rendezvous |
| Multihop (`fofoca-iroh-multihop-transport`) | link vectors, writers and their queues, a byte budget | flood, route, enqueue, dial, write, retire | link-state frames of the gossip layer, the underlay endpoint |
| Reassembly (`fofoca-protocol/src/reassembly.rs`, `daemon/state.rs`) | partial groups and their budgets, groups already surfaced | ingest a shard, complete off the log, sweep, repair | between dedup, the message log and dispatch |
| Event loop, IPC, shutdown, state file (`daemon/`, `transport/ipc.rs`) | timers, sockets, a file | one `select!` arm at a time | everything |
| Chunks, blobs, streams (`fofoca-chunks`, `blob/`, `fofoca-stream`) | chunk store, tickets, stream logs | put, sweep, serve, read | direct connections |
| Discovery, names, crypto, bindings, logging | caches, none | parsing, hashing, I/O | |

A member's event loop is a single tokio task: each arm of its `select!` runs to
completion before the next, so an arm is one atomic action with respect to the
member's own state. What does interleave is everything off the loop: other
members, the network, and the tasks an arm spawns (probes, endpoint closes,
dials), whose results come back as another arm.

## Hard behaviours

`PROJECT.json` lists them as hazards, each at its line. In short: arrival order
differs between members while retained state must not (log, documents, lobby);
caches and indexes must follow evictions; dedup remembers what was then dropped;
re-sends are bounded and must still make progress; a probe's verdict is applied
seconds after it was asked for; two members act at the same instant without an
arbiter (beacon, lobby); a peer that was given up on is heard again (netplay);
bounded queues refuse or evict at their limit; a task that was replaced finishes
after its successor started (sessions, writers); and the two ends of a session
give up at different moments. Protocol state is not persisted: a member that
restarts is a new member. What must survive a crash is the chunk store.

## Modules and how they correspond to the code

**MessageLog** (operators only): push, the per-author eviction rule, windows over
the log, what may be re-sent to whom. Used by History and AntiEntropy.

**History**: one member's ingest path. `Ingest` is `recv.rs` from the dedup gate
to `retain_and_index`; `RetainOwn` is `retain_own_broadcast`. `author_seqs` and
`forked` are the fork index, `by_hash` and `dag_heads` the causal index; a frame's
content hash is the frame. *Correct when* retention is a function of the set of
frames received (`RetainedIsCanonical`: two members that received the same frames
agree, whatever the order), the indexes never outlive or miss an entry
(`IndexBounded`, and the last conjunct of `RetainedIsCanonical`), nobody is accused without two conflicting
frames (`NoFalseFork`), and evidence goes only with its own frame.

**AntiEntropy**: several members with MessageLog logs, a lossy, reordering wire,
digests in flight, the sweep cursor and the per-author cooldown. *Correct when*
a frame owed to a member is not missed for good while its digests span the
frame's date (`Recovers`), nothing the asker had is re-sent (`ResendsOnlyGaps`) and a directed frame is only ever on the wire
between its two ends (`DirectedStaysPrivate`).

**Roster**: one member's membership view: `Ingest` is `observe` followed by the
handler of the frame's kind, `TickSweep` the timeout sweep. Time is abstracted to
recent or expired. *Correct when* the four maps agree at every step and silence
empties the roster.

**MeshDoc**: the shared documents. A document is the sequence of applied changes;
a change carries its dependencies and just enough content for the per-entry gate.
`Ingest` is `fofoca_doc::ingest` with buffering and draining, `HandleDigest` the
serve, close and ask-back logic of `handle_state_digest`. *Correct when* applied
changes are causally closed, no change is marked seen and then lost, nothing
ready stays buffered, and the documents converge.

**Beacon**: the rendezvous role. One action per arm (`HealTick`, `HardHealTick`,
`ResubscribeTick`, `StarvedTick`, `ReclaimTick`, `ShedBeacon`, `DeferShed`,
`Verdict`, `RungChange`, `NeighborUp`, `NeighborDown`, `Startup`, `Leave`), the
probe task and the endpoint close as actions of their own, and the inline ladder
walk of a private claim split at its awaits (`TryBind`, `Serve`, `AskPort`,
`AbandonWalk`) because other members run in between. *Correct when* the first
election of a private mesh is unique, a split of a public mesh is always looked
at again and ends once the origin is back, and a mesh with a live member that may
co-host is always served again.

**Netplay**: the whole of a rollback match for any set of players: input queues
with predictions, the save ring, load and re-simulation, the handshake with its
latch, input packets and acks, disconnects and checksums. The game is its input
history. *Correct when* a confirmed frame was simulated with the true inputs, the
state to roll back to is still saved, an acknowledged input arrived, checksums of
players that play the same match never differ, and the match completes.

**Lobby**: presence, proposals ranked by epoch and session id, adoption and
re-announcement. *Correct when* a match names the same players for everyone in
it, a peer never moves back, and the best-ranked proposal is held and finally
adopted by all of its players that can be reached one by one: packets are addressed by
nickname (`Reachable`).

**Outbox**: one member's directed sends. `SendApp` is `send_app` with `deliver`,
`SendInBackground` the three sends that never wait (`deliver_in_background`,
`send_best_effort`, a digest's batch); writes, background dials and probes are
spawned tasks and end in actions of their own (`WriteDone`, `WriteFails`,
`DialDone`, `ProbeEnds`), between any two handlers of the loop. `direct` is the
verdict per peer, `verdicts` the channel it comes back on, `pool` the open
connections and the dial cooldowns, `path` what the network can really do at that
moment. The member runs no WebRTC, so there are no path watchers. *Correct when*
parking loses and reorders nothing, a pending verdict always has a probe behind
it, a relay that is lookup only is never given payload, and a hold ends once the
peer stays reachable.

**Reassembly**: one member's shards, from the dedup window to the surfaced body.
`Receive` is `mark_seen` and `handle_shard`: retain a small group's shard,
`ReassemblyStore::ingest` (contradictions, duplicates, the group, author and
global budgets, the author's own stalest groups evicted to make room), then the
completion off the log. `Sweep` is `tick_prune`, `RepairTickets` the
application's repair query, and time passes in `Tick`. *Correct when* every byte
charged is buffered now and the budgets hold (`ChargedIsBuffered`), a surfaced
body is one author's whole body and surfaces once (`SurfacedOnce`), a small group
the log holds whole has been reassembled whatever the store forgot
(`WholeInLogIsReassembled`), and no partial group stays (`PartialsEnd`).

**SessionTable** is the abstract specification of a table of sessions: a slot is
filled when free and with something that drives it, whatever ends takes only its
own entry, and the owner may let an entry go. **Rtc** is what the code does: the
admission (`try_admit`, its guards, the cap-refusal cooldown), the rounds of both
roles split at their awaits (`Dial`, `Accept`, `SendAnswer`, `ReadAnswer`,
`Attach`, `Fulfil`, `RoundFails`), the registry with its generations, the drivers
and browser hooks that retire a half (`HalfEnds`), and the rendezvous link that a
session carries (`HealTick`, `Graft`, `NeighborUp`, `NeighborDown`, `GraftFails`),
with endpoints that close and come back empty. `Rtc!IsTable` is the refinement,
with `entry` the ids in the slots and `running` the halves driven. *Correct when*
it refines the table, sessions and rounds together stay below the ceiling
(`CapHolds`), and once the network is calm every pair within the ceiling, and
every member without a link to the rendezvous, gets a session that stays
(`PairConnects`, `RendezvousRelinks`).

**LinkState** and **Multihop**: LinkState is the routing table of one member under
link vectors that arrive late, again and out of order, while links move and
members leave for good; Multihop extends it with the forwarder: callers of
`enqueue` and the writer tasks, one action per atomic operation or lock, over the
first hops of the routes LinkState resolves. *Correct when* a route whose origins
have all been heard is one the network has (`RoutesAreLive`), every cell's bytes
are released once (`BytesAccounted`), and a writer that still takes cells is the
one the map lists, or one that was replaced (`WriterIsListed`).

**Chunks**: FsStore. `Create`, `Write`, `Sync` and `Rename` are the steps of
`write_atomic`, on a temporary file that all writers of a name share; `Mark`,
`Sweep` and `SweepOne` the reclamation pass, `Clear` an eviction, `Crash` a crash
at any step with what had reached the disk. *Correct when* a torn file appears
only under a name that two puts wrote at once (`TornOnlyIfShared`), and a pass
takes no chunk of a root it keeps (`LiveSurvives`).

Each `MC<module>` module gives values to constants. MCNetplay adds a second initial
state, a match under way (`Underway`, below). Definitions introduced by
"Fault:" or "Mutant:" are deliberately wrong variants that the mutation check
substitutes; the specifications do not use them.

## Runs and bounds

| run | instance | shows |
|---|---|---|
| `MCHistory` | 6 received frames of 2 authors (one equivocates), 1 own frame, log of 3, dedup set of 7 | retention and indexes, all orders and repetitions |
| `MCAntiEntropy` | 2 members, 4 frames (a broadcast of each, one directed, one directed to an absent member) at two dates, window 2, 1 re-send per serve | recovery, privacy, no useless re-send |
| `MCRoster` | 2 nicknames, quiet list of 1, 5 frames | agreement of the maps, draining |
| `MCMeshDoc` | 2 members, 3 changes in one or two chains, orphan buffer of 1, 1 change per answer | convergence under loss |
| `MCBeacon` | 3 meshes: origin and joiner, two probing members, private mesh of 3 on 2 ports; 1 or 2 faults | arbitration and its liveness |
| `MCNetplay` | 2 players, one with an input delay, prediction window 2, 2 handshake round trips; a match of 2 frames from its start, with leftovers of an earlier one, and a match under way of 9 and 5 frames whose ring of 4 states is full | rollback safety, and that the match completes |
| `MCLobby` | 3 peers, named differently or 2 of them alike, 2 that may start a match, 2 epochs | ranking and adoption |
| `MCOutbox` | 1 peer, 2 frames on any lane, a buffer of 2, relay lookup only or not, 2 probes at once, 1 departure | parking, probing and the relay rule |
| `MCReassembly` | 2 authors, 6 shards of 2 group ids, dedup window of 2, budgets of 3, 4 and 5 bytes, clocks of 1 and 2 | budgets, one whole body, no stuck group |
| `MCRtc` | a native node, a tab and a rendezvous in a tab, ceiling 1, 2 sessions at once; three topologies, faults until calm | refinement of SessionTable, the ceiling, reconnection |
| `MCMultihop` | 4 members in a square; 2 vectors each, a flaky link and a leaver, or 2 callers, 2 writer tasks at once, queue 1, budget 2 | routes, bytes, the writer map |
| `MCChunks` | 2 files sharing a chunk, 2 threads (symmetric), one pass, crashes anywhere | atomic puts, reclamation |

The bounds are the smallest in which the interesting cases occur. A log of three
overflows with two frames of one author, which separates "oldest arrival" from
"oldest of the fullest author". A dedup set of seven never forgets within the
run, so History's properties are about the indexes. In AntiEntropy member 2
may miss two frames of member 1 at once, and a budget of one then answers its digest
in part; with four frames logged the older slice of the digest is served too. An orphan buffer
of one and one change per answer do the same for the documents, so that progress across rounds is
what is checked. A quiet list of one evicts on the second silent peer.
In Netplay a match of two frames from its start is all the handshake and the leftovers
need, but does not reach the prediction limit. `Underway` does: it is a match in which
`CellCount` (four) frames were played, every packet arriving before the next frame
and the second player not pressing, so that the ring holds its four states and the
next save overwrites the oldest. From there the first player runs ahead, the second has
one frame to play, stalls the first at the limit by being late, and makes a wrong guess of
it on frame 4 that is rolled back into the wrapped ring. The state is one that `Init` and `Next`
lead to, with what is still in flight lost. Lobby's `Names` has everyone called differently,
or two alike, in which case nothing is promised to those two; that one of the three starts no match
(`Starters`) leaves two concurrent proposers and a third that only follows. Two ports
give the ladder a lower and a higher rung, and the fault budget of a mesh
(crashes, dead tasks, rung changes, frozen processes, dials that miss) is finite
because the liveness properties are about what happens after the faults. Two
epochs make a stale proposal compete with a newer one. Peers do not share state
in Outbox apart from the buffer and the link count, so one peer is enough; two
frames can be reordered (a full buffer, which refuses the newest, needs a third:
only the theorems cover it), and two probes with one departure let a verdict of a
peer that left reach the peer that came back. Reassembly's budgets let one group
fit and two of one author not, so that admission evicts, overflows and refuses;
its two group ids never fill `reassembled_groups` (GroupsCap), which holds as many ids as
the log holds frames. In Rtc three topologies are three questions (a pair, a
member and the rendezvous, two members competing for its only slot); the last is
calm from the start, because with faults its states are only products of the
others', and two ids let a session and the one that replaces it live at once.
Two writers at once are a writer and the one that replaced it, and a queue of one is
full while its writer dials. Two callers find the budget used up between them. In
Chunks one file's row is there from the start and names one chunk, the other's names both:
the second chunk is garbage until that row is put, and must survive from then on.

`CHECK_DEADLOCK FALSE` is set where the bounded instance ends: all frames
delivered, the match played out, the last epoch proposed, all sessions up, or the
writer ids used up by tasks that never end (below). `MCRoster` and `MCChunks`
check for deadlock.

## Fairness

* *AntiEntropy, MeshDoc*: each member's digest tick recurs (`interval.tick()` of
  the loop), the cooldown and the serve window expire by the clock (before the
  next tick), and the network delivers a message that is sent again and again
  (strong fairness of delivery: gossip floods over several links; any single copy
  may be lost).
* *Roster*: the sweep timer recurs, and silence lasts long enough to expire.
* *Beacon*: the heal ticker recurs; a dial, a ladder walk and an endpoint close
  are bounded by the timeouts in the code; a due re-check is deferred at most
  `MAX_SHED_DEFERRALS` times; the co-host grace period ends.
* *Netplay*: a player polls and, when the session lets it, advances; fresh packets
  that are re-sent on the cadence of `poll` get through.
* *Outbox*: a probe ends (its deadline), the loop serves the outcome channel, the
  alive tick recurs and cooldowns run out. Nothing is assumed of writes, links,
  announcements or the network: the property's premise is a path that stays.
* *Reassembly*: the prune timer fires and time passes. Nothing is assumed of
  arrivals.
* *Rtc*: the network calms down at some point; from then on a round ends by
  success or by its deadlines, an arriving connection is accepted, a driver
  notices that its half was detached or that the far one is gone (ICE consent, DTLS
  close), cooldowns expire, and the retry and heal ticks recur. In the calm a heal
  tick comes only once the round and the graft it started are over: the interval
  (15 s) is longer than a graft on an attached session takes.
* *Lobby*: an adopted match is re-announced for as long as it is held, and a peer whose
  nickname is its own receives an announcement that is repeated. The driver sends a lobby packet
  to each nickname of its roster (`driver.rs:214-229`), and of two players that share one
  `lobby.rs:63-68` says they "are not separately reachable": of these nothing is assumed,
  although they still hear, by chance, and take part.

No fairness is assumed of faults, losses, new messages or user input.

## Where the code and its documentation disagree

Each of these was met while translating the code and bounds what a property
claims; none of them is carried as a run.

* Netplay: `on_message` never looks at `PeerState::Disconnected`, so an input packet
  of a peer already given up on still reaches the input queue. Confirmation has
  moved on without that peer, and the misprediction it exposes may lie outside the
  saved window. `sync.rs:207-209` says "Only reachable if `max_prediction` was
  exceeded without stalling, which `add_local_input` prevents". `RollbackTargetSaved`
  is about players not given up on.
* Netplay: `lib.rs:30-32` calls lockstep "the same algorithm with `max_prediction` set to
  zero". `add_local_input` (`sync.rs:115`) refuses an input as soon as `frames_ahead()` reaches
  `max_prediction`: with zero that is at once, and no frame is ever simulated; a window of one
  without an input delay stops after the first. `NetplayAssumption` asks for at least one, and the run
  takes two.
* AntiEntropy: a digest covers the newest window and one older slice, each between the dates of its
  first and last frame (`window_at`). A frame dated between two slices of a log larger than a
  window, or before its oldest frame, is in neither and is never asked for, while `antientropy.rs:1-10` says gaps are
  recovered. `Recovers` is about the frames that the slices span (`AskedFor`).
* MeshDoc: `forges_foreign_entry` (`fofoca-doc/src/lib.rs:221`) compares a guarded
  field before and after on the replica at hand. A member that writes a free field
  under `/peers/<nick>` before it has seen that entry vivifies an object of its
  own; the change is applied where the owner's concurrent entry is not yet held,
  refused where it is, and the documents never agree again, while `lib.rs:5-6` says
  automerge "merges them conflict-free". `MCMeshDoc` has members write under their
  own entries (`WritesTo`).
* Beacon: `build_rendezvous_endpoint` binds the first free port of the ladder
  without asking the higher ones, so a lower port that is let go yields a second
  beacon in a private mesh, where nothing re-checks; `beacon/mod.rs:23` says
  "Exactly one member per mesh is the beacon". The property is
  `FirstElectionIsUnique`.
* Chunks: two puts of one chunk at the same time share a temporary file: one
  renames what the other has just truncated, and a crash before the second
  `write_all` or `sync_all` leaves a torn file under the final name, which
  `write_atomic`'s comment rules out. `TornOnlyIfShared` says that nothing else
  does.
* Multihop: `enqueue` says "a full or dead queue drops the cell", but a full queue
  replaces its live writer; the replaced task holds a sender of its own channel
  and never sees it close, so `MAX_WRITERS` bounds the entries of the map and not
  the tasks. `remove_origin` has no caller, so the last vector of a member that
  left is kept; a route through it is only avoided because its neighbours stop
  naming it.
* Reassembly: `reassembled_groups` is keyed by the group id alone and written
  before the gate, so a second author's group of the same id, or a body the gate
  refuses, takes the id's one chance to surface. The store reaps a big group while
  `seen` remembers its shards: until they age out, a repair that re-sends them is
  dropped as repeats.
* Rtc: the accept gate of direct gossip decides by id order who offers, although
  offers to the rendezvous ignore the order; with a rendezvous id below the
  member's, the gate refuses a graft it should hold. The model puts the
  rendezvous above the members. A `DirectOutcome` heard after its session died marks a
  UDP pair direct, and `wants_session` then makes no new offer until its path
  changes; only lane pairs, which do not ask, are modelled.

Two more explain why a property is stated for less than the documentation
says. `WinnerIsAdopted` is about the winning match: a proposal that does not
name a peer is dropped by it, so a peer named only in the losing proposal of an
epoch stays in an abandoned match (`lobby.rs:264-265` says the peers "converge
without a round trip"), and so may a peer whose nickname another one has: `blocker` refuses to
propose with two alike in view, but the second may come later or be known to others only. `HoldEnds` is about an unlinked peer: a re-bridge takes the
verdict of a linked peer away, and if its probe then fails the peer is relay-only
and linked, which `retry_candidates` and `handle_peer_info` both skip; with the
path back and the link still up, what is parked for it waits until the link
drops or, at DEBUG level, a census reads the path and something else flushes
(`send.rs:177` says "the alive tick probes every known peer, so the hold is
short"). Nodes without path watchers are affected.

Smaller ones: a `NeighborUp` of a node that is
already meshed, and the census, set a verdict to direct without a flush; on a mesh
whose relay carries payload a parked frame whose dial failed is only tried again on
a `PeerInfo`; a write that fails late drops whatever connection is pooled by then; `SEEN_IDS_CAP` is sized to cover
the retention window (`tuning.rs:17-21`) but plumbing frames also occupy the dedup
set, so a retained frame's id can age out before the frame; link-state vectors
are retained by their author only (`event_loop.rs:440-444`), so every digest of
another member asks for them and they use up re-send budget
(`antientropy.rs:107-108`); a probe started before a rung change or a reopened
arbitration still counts as a first free reading (`state.rs:290-295` asks for both
in one arbitration); `PENDING_OUTBOUND_CAP` is documented as dropping the oldest
while the bounded queue refuses the newest.

## Proofs

Eight modules hold proofs, each for every value of the constants of the module it
extends. They rest on the assumptions named there and on the library's theorems.
Every invariant, action property and refinement that a run checks is the conclusion
of a theorem here; only liveness is left to TLC. `StoreProofs` and `MeshProofs` put
several components side by side, whose specifications share no state: where their names
would meet they carry the component's (`LobbySpec`, `RosterSpec`, `AntiEntropySpec`, `DocSpec`).

| module | theorems | states, of the runs' properties |
|---|---|---|
| `HistoryProofs` | `TypeCorrect`, `IndexesStayInLog`, `ForksAreReal`, `RetentionIsCanonical`, `EvidenceIsKept`, `DedupRemembers` | `IndexBounded`, `NoFalseFork`, `RetainedIsCanonical`, `EvidenceGoesWithItsFrame` |
| `NetplayProofs` | `RollbackIsRight`, `WindowSuffices`, `AcksAreHonest`, `ChecksumsAgree` | `SimulatedWithTheTruth`, `RollbackTargetSaved`, `AckedInputsArrived`, `NoFalseDesync` |
| `ReassemblyProofs` | `ChargesAreExact`, `BodiesSurfaceOnce`, `LogCompletes`, `RoomForAll` | `ChargedIsBuffered`, `SurfacedOnce`, `WholeInLogIsReassembled` |
| `MultihopProofs` | `ChargesBalance`, `SuccessorKeepsEntry`, `RoutesConverge` | `BytesAccounted`, `WriterIsListed`, `RoutesAreLive` |
| `StoreProofs` (Chunks, MeshDoc) | `TornByOverlapOnly`, `PassSparesLive`; `SeenStaysAccountedFor`, `DocumentsOnlyGrow` | `TornOnlyIfShared`, `LiveSurvives`; `SeenIsAccountedFor` |
| `MeshProofs` (Lobby, Roster, Beacon, AntiEntropy) | `LobbyTypeCorrect`, `HandlesAgree`, `BestMatchSurvives`, `NoMatchResurrected`; `RosterMapsAgree`; `FirstElectionHolds`; `DirectedFramesStayPrivate`, `ShortLogsResendOnlyGaps`, `FewFramesAreCovered` | the lobby's invariants and its action property; `MapsAgree`; `FirstElectionIsUnique`; `DirectedStaysPrivate`, `ResendsOnlyGaps` |
| `OutboxProofs` | `PendingIsProbed`, `ParkingKeepsOrder`, `RelayIsLookupOnly` | `PendingHasProbe`, `ParkedInOrder`, `RelayCarriesNoPayload` |
| `RtcProofs` | `SessionsImplementTheTable`, `NoPhantomSlot`, `CeilingHolds` | the refinement of SessionTable, the ceiling |

Loops are recursive functions of a number (`Fill`, `Feed`, `Simulated` of Netplay,
`Flushed` of Outbox, `Drained` of MeshDoc). The
prover cannot instantiate the library's induction over an operator, so the
proofs take the set of the numbers for which the claim holds and show that it
contains 0 and goes on (`Climb`, from the well-foundedness of the numbers), after
showing that the recursive function exists. Where a fact is about finite sets, the argument is
a least counterexample or a cardinality.

### The message log

`HistoryProofs` proves, for every set of frames and every capacity, that the log and
the dedup set stay within their caps, that the fork and causal indexes never hold
an entry whose frame was evicted, and that a flagged key signed two different frames at
one sequence number. The inductive invariant is `IInv == TypeOK /\ IndexBounded /\
NoFalseFork`: the flag of a fork rests on the recorded evidence, the evidence on
the index being within the log, and the log on its type. The delicate lemmas are
`FullestExists` and `VictimExists` (the eviction rule always finds a victim) and
`PushFacts` (what a push keeps and drops).

`RetentionIsCanonical` and `EvidenceIsKept` are proved of every behaviour in which the
dedup set has not forgotten a frame that was retained (`[]Remembered`). The
premise cannot be dropped: `seen` is a bounded FIFO, and a frame that is delivered
again after its id fell out is retained a second time, so that the log holds it
twice. `DedupRemembers` shows that the premise holds whenever the frames number at
most the dedup capacity, as they do in the run. The argument is that
eviction takes the frame that comes last in an order of the retained set alone: the log
holds the first `Capacity` frames of everything retained (`KeptInv`, `Top`), a
push adds one frame and drops the last of the order, and two sets that are both the
first of one order are equal. Assumptions: `CapacityAssumption`,
`FramesAssumption` (authenticated frames have distinct ids), `SeenCapAssumption`.

### Rollback netplay

`NetplayProofs` proves the four safety properties of a match for any players,
input delays, prediction window, handshake length and number of frames, with
packets lost, repeated, reordered and left over from an earlier match. None of
them is inductive. `IInv` adds:

* per queue, what the history was simulated with (`Tracks`): up to the first wrong guess, or
  everywhere if there is none, each frame has the input that is filed for it, and past the
  last one filed the input the queue still guesses;
* per engine, that a cell of the ring holds the history up to its frame (`CellsTrue`) and that
  the last `CellCount` frames are in it (`Ring`);
* between players, that a queue is a prefix of what its player pressed (`QueuesInv`), that a packet of
  inputs repeats what was pressed and leaves no hole, that an ack names a frame that
  came in (`NetInv`), and that a player's own queue is never guessed (`OwnInv`);
* how far ahead a player runs while nobody was given up on (`AheadInv`), and that a published checksum is of a
  state simulated with what everybody pressed (`SumsInv`).

Going back to the first wrong frame then gives a history with nothing wrong in it, and
simulating forward keeps that (`Simulated`, one induction over the frames
simulated again). `NetplayAssumption` says of packets of an earlier match only that
their nonce is not the one of this match: the code draws it at random (a u32), and a
collision is not modelled.

### Message shards

`ChargesAreExact` needs no premise: every shard of a store is counted once, under its
slot, group and author (`Sound`), and every path that drops a group gives back what
it charged. Sums are cardinalities of sets of units (`SumOf`), so that the prover can
add and take away a group by the theorems on finite sets. `BodiesSurfaceOnce` and
`LogCompletes` are proved of the behaviours in which `reassembled_groups` still has
room for a new id (`[]HasRoom`); `RoomForAll` shows that it has as long as there are at most
`GroupsCap` group ids. The premise is the code's own bound: past it the set forgets
the oldest group, whose shards, delivered again, surface a second body. The
invariant (`OnceInv`) adds that every surfaced group is in the set, and treats the log
together with the set, because a shard is put into the log in the step that looks for
the rest of its group there.

### Roster

`RosterMapsAgree` proves `MapsAgree` almost as it stands: `RosterInv` only adds that the
quiet list is a list of nicks and the roster finite. The work is in the two ways of
changing the quiet list, which is a sequence: taking a nick off leaves no repeat
and loses nobody else (`QuietWithoutFacts`), and inserting those that went quiet, in
any order, drops from its front only what exceeds the cap, whose dial hints go with them.

### Beacon

`FirstElectionHolds` is about a private mesh, any number of processes and a ladder of any length, up
to the first time a port is let go. `ElectionInv` says that a walk, and a beacon
that came of one, has only dead ports behind it (`DeadBelow`): taken by somebody who
does not answer for our mesh and never will. A port that a member of ours has bound and
does not serve yet is not dead, and no walk gets past it, because the spaced attempts of
`rung_serves_our_mesh` outlast that moment. Of two beacons the one on the higher port would have
the other's port dead behind it, and a beacon's port is not dead. What other meshes, crashes and
dead tasks do before a port is let go only leaves dead ports dead (`StaysDead`, `StaysTaken`);
a public mesh has no ladder and `FirstElectionIsUnique` says nothing of it (`PrivateSteps` picks out the steps that matter).

### Anti-entropy

`DirectedFramesStayPrivate` needs only that logs hold and the wire carries what was
authored (`DirectedInv`), and that a push keeps entries of the log and the frame pushed,
whatever it evicts (`PushKeepsOnly`). Clocks, losses and the size of the log play no part.

`ResendsOnlyGaps` is false of long logs: a digest then describes the newest window and one older
slice, and what lies between is offered again. `ShortLogsResendOnlyGaps` proves it of the
behaviours in which members received no more than their log and the two windows
hold, of kinds that are retained (`[]WindowsCover`), and `FewFramesAreCovered` shows
that the premise holds of every history of at most so many frames, as
in the run. `CoverInv` says that a log is then what its member received, that the sweep
starts at its front at every tick, and that a digest names all its sender had.

### Shared documents

`SeenStaysAccountedFor` holds of any members, plan of writes, caps, losses and
reorderings. `DocInv` adds what an arriving change is judged by: a change depends on
changes that exist and never changes itself, because its id is new. That in
turn is because an author numbers its changes by what it holds of its own, and no
document ever loses a change (`NewIdIsNew`, `OwnGrows`). Draining is the
step that needs an induction: what has left the buffer has its past in the document, the batch
at hand is ready, and either nothing is ready any more or twice the buffer, less a
pass begun, bounds the steps to go (`Draining`, `DrainStepKeeps`), so that nothing ready
is left at the end (`DrainedFacts`). A change that arrives ready cannot be in the buffer, because
nothing in the buffer was ready; one that is buffered may push out another,
whose frame is then forgotten (`BufferedFacts`). `DocumentsOnlyGrow` is an action
property of the same invariant: no step alters a change or takes one out of a document, so
that nothing undoes what `Converges`, which stays with TLC, waits for.

### Multihop

`ChargesBalance` is proved for every number of hops, callers, writers, queue places and bytes: a cell
is with a caller, at a place of a queue or in a writer's hand, and each step moves,
adds or takes exactly one. The invariant `PoolInv` says which phases have a cell in
hand, that an entry's writer runs to that hop, that a caller's writer exists, and
that a writer that ended holds nothing. `SuccessorKeepsEntry` is a part of it.
`RoutesConverge` needs `LinkInv`: a member numbers its vectors, the table holds the
newest vector heard of each, and nothing is linked to a member that left. The table
still holds the last vector of such a member, so it is not equal to the links there
are; the proof walks a path backwards from its end (a least counterexample) to show that a path over the table
leads only through members that are present.

### Chunk stores

`TornByOverlapOnly` needs to know whose the temporary file is. `WriteInv` says that
a writer whose handle is on it and that nobody joined has decided what it holds by the
step it is at (`LoneFileIsIntact`), and that what an unshared name has under its final
name was synced before the rename (`UnsharedIsSafe`), so a crash that drops unsynced bytes
does not tear it. `PassSparesLive` rests on `PassInv`: the roots
marked so far have their leaves in the marks, and what is left to sweep meets no leaf of a kept
root. Assumptions: `ChunksAssumption` (a row and a chunk never share a name),
`NoneAssumption`.

### Lobby, outbox, WebRTC

`MeshProofs` proves of the lobby, for every set of players and every number of epochs,
`LobbyTypeCorrect`, `HandlesAgree` (a match names the same players for everyone in
it), `BestMatchSurvives` (the best-ranked proposal is held by somebody at every
step) and the action property `NoMatchResurrected` (a peer never moves to a
lower-ranked match). The inductive invariant `LobbyInv` is `TypeOK /\ ProposalsKept`: every
packet in flight is a proposal somebody made, one of its players is in that match
or in one that outranks it, and a player is in one match at most. It rests on `IdAssumption`, the code's
own reliance on the session id telling the proposals of an epoch apart.

`OutboxProofs` proves `PendingIsProbed`: for any number of peers, frames and probes at
once, a pending verdict has a probe running or an outcome in the channel. The
inductive invariant `IInv` says where the probe is instead of counting
(`Behind`), types the three variables of the argument and keeps the dial hints
within the peers. One lemma per way of touching the verdicts: a step that starts
probes (`ProbesStarted`), one that only settles verdicts (`ProbesUntouched`), a
probe that ends (`ProbeBecomesVerdict`), an outcome that is heard
(`VerdictSettles`: the peer it names is not pending afterwards, so losing the
outcome from the channel costs nothing) and a re-bridge (`RebridgeProbes`).

`ParkingKeepsOrder` and `RelayIsLookupOnly` share `BufferInv`: the buffer is the parked
frames in order, and a frame the application has yet to send comes after all of
them, so that parking it at the end keeps the order. Every way to send is an
attempt that moves its own frame only, and onto a wire only if the path may
carry payload (`Tried`: `WarmTries`, `SendOnTries`, `DeliverTries`, `StartedTries`). A flush is a
loop of such attempts; after k rounds what is left is what is still parked of the first k,
in order, and the rest is untouched (`Sofar`, `RoundSends`, `RoundRequeues`).

`RtcProofs` proves, for any number of nodes, any ceiling and any number of rounds
at once, that the code's sessions refine the abstract table
(`SessionsImplementTheTable`: `Spec => IsTable`), hence that no slot is a phantom
(`NoPhantomSlot`), and that the ceiling holds (`CeilingHolds`: `Spec => []CapHolds`).
The step that needs an invariant is `Attach`: the abstract `Open` asks that the half
be not yet driven. That is `DrivenIsAttached` (only an attached round has a driven
half), which a new round keeps only if its id is fresh: `DialIsFresh` for the
offerer, `ArrivalIsFresh` for the connection an answerer accepts, and `IdIsOnePair`,
so that no third end uses the id. `IInv` is their conjunction with the types.
`CapHolds` is inductive together with `IInv`: `try_admit` counts both kinds, a round
and its session are of the same peer, and the cardinality lemmas bound the union. Assumption:
`RtcAssumption` (finitely many, ordered node ids; `None` is no value).

## What is only model-checked, and what is not modelled

Only model-checked:

* every liveness property (`Recovers`, `Converges`, `SilenceEmptiesRoster`,
  `MatchCompletes`, `WinnerIsAdopted`, `BeaconReturns`, `OriginIsAlone`, `HoldEnds`,
  `PartialsEnd`, `PairConnects`, `RendezvousRelinks`): fairness and ENABLED are outside
  the prover;
* `ResendsOnlyGaps` in a log that has evicted or outgrown the two windows of a digest: there it
  does not hold, as said above.

Simplifications that a reader of a module should know:

* Outbox, `SendOn`: a `send_one` that fails on a connection that is up (`pool.rs:367-370`) is
  not a case of its own. It comes to steps there are: the path goes, the connection closes
  (`ConnCloses`), the dial fails.
* MeshDoc, `Sent`: a later digest of a member takes the place of one still in flight, instead of
  travelling beside it.
* Multihop, `HandleLinkState`: vectors are genuine. The code does not tie the origin a vector
  names to the author of the frame it came in.
* Rtc: `PairConnects` is checked for a native node that offers and a tab that answers, and
  `RendezvousRelinks` for a rendezvous id above the members' (see the disagreements).
* Beacon: `OriginIsAlone` binds in the mesh of an origin and a joiner. Whether two probing
  members that shed and re-claim in step ever come apart is a matter of the jitter of their
  timers, which the model does not have.

What the theorems do not lift: the models' bounds on data (a frame is a record of a few
fields, a link costs 1) and the environment (losses, clocks, crashes as the
modules state them) are part of what is proved about.

Abstracted: clocks (a timer may fire at any time after it could), addresses and
payloads, cryptography (a signature is an unforgeable author), automerge
(external: closure, heads and conflict winner as its calls behave), the iroh
overlay (external: loses, duplicates and reorders). Not modelled, with reasons,
are the components whose status is `not_modelled` in `PROJECT.json`: mostly parsing,
encodings, bindings and I/O, which keep no protocol state. Within modelled parts:
ShardCache (nothing fills it), the framing of multihop cells and disjoint routes
(nothing asks for them), the bind table, FsOrigin, MemStore and the IndexedDB
store of `fofoca-chunks`, the UDP race, the nudge and the path watchers of a WebRTC node. Chunks
takes names and renames as durable in the order they were made. FsOrigin derives
its coverage from chunks two files may share, so a chunk of one evicts into the
other's; it has no model yet.

## Plan

Modelled so far, in the order of importance to the system: History, AntiEntropy,
Roster, Netplay, Lobby, MeshDoc, Beacon, Outbox, Reassembly, Rtc over SessionTable,
Multihop over LinkState, Chunks. Next:

1. FastRounds: when a document round may ask again, and that it stops; the backoff
   of the starvation watchdog.
2. Path watchers and the UDP race, composed with Outbox's verdicts.
3. FsOrigin, blobs and streams: readers of a growing stream, an eviction under a
   fetch.
4. Shutdown and IPC.

Every safety property that a run checks is proved. Theorems next: the safety that
the models above bring with them, and ranking arguments for the liveness properties, stated as
action properties (a step that never undoes progress), for which PTL is not needed.
