------------------------------- MODULE Roster -------------------------------
(***************************************************************************)
(* One member's view of who is in the mesh (lifecycle/): the roster layer  *)
(* (peers, quiet, last_seen, quiet_since), the dial hints peer_endpoints   *)
(* that live with it, and the presentation layer (surfaced and the joined/ *)
(* left/peer_timeout/peer_return events an operator is shown).             *)
(*                                                                         *)
(* A frame that passed dedup reaches Observe, then its kind's handler; both*)
(* run in one event-loop step.  Kinds that behave alike are one value:     *)
(*   joined, left, alive   presence                                        *)
(*   peerinfo              carries the author's endpoint                   *)
(*   state                 State and Meta, durable and replayed            *)
(*   other                 app frames, digests, ping, pong, link state     *)
(* `fresh` is message.timestamp >= joined_at (surfaceable): a replayed     *)
(* frame from before our join is not.                                      *)
(***************************************************************************)
EXTENDS Integers, Sequences, FiniteSets

CONSTANTS Nicks,    \* the other members' nicknames
          QuietCap, \* QUIET_CAP
          MaxFrames \* bound: frames delivered in a behaviour

ASSUME RosterAssumption == QuietCap \in Nat \ {0} /\ MaxFrames \in Nat

Kinds == {"joined", "left", "alive", "peerinfo", "state", "other"}

VARIABLES peers,          \* the roster
          last_seen,      \* nick -> "none", "recent" or "expired"
          quiet,          \* nicks evicted as silent, oldest first
          quiet_since,    \* nicks whose last-heard instant is retained
          surfaced,       \* nicks whose arrival was shown
          peer_endpoints, \* nicks with a dial hint
          shown,          \* nick -> what the events say: absent, present, quiet
          frames          \* frames delivered so far

rostervars == <<peers, last_seen, quiet, quiet_since, surfaced, peer_endpoints, shown, frames>>

QuietSet == {quiet[i] : i \in 1..Len(quiet)}

\* BoundedFifoSet::remove: a listed nick, listed once, leaves the eviction queue.
QuietWithout(q, n) ==
  LET at == CHOOSE i \in 1..Len(q) : q[i] = n
  IN  IF \E i \in 1..Len(q) : q[i] = n
        THEN [j \in 1..(Len(q) - 1) |-> IF j < at THEN q[j] ELSE q[j + 1]]
        ELSE q

-----------------------------------------------------------------------------
(* membership::compute *)

Returned(n) == n \in QuietSet

JoinedNew(n, kind) == kind \notin {"left", "state"} /\ n \notin peers

(* membership::apply *)

\* Fault: a peer that returns stays listed as quiet.
QuietAfterKept(n) == quiet

QuietAfter(n) == IF Returned(n) THEN QuietWithout(quiet, n) ELSE quiet

PeersAfter(n, kind) ==
  IF Returned(n) \/ JoinedNew(n, kind) THEN peers \cup {n} ELSE peers

(* observe: what the operator is shown *)

ShowsReturn(n, fresh) == fresh /\ Returned(n)

ShowsArrival(n, kind, fresh) ==
  /\ fresh /\ ~Returned(n) /\ n \notin surfaced
  /\ kind \notin {"joined", "left", "alive"}

\* handle_presence: a `joined` that is news and not a return.
AnnouncesArrival(n, kind, fresh) ==
  kind = "joined" /\ JoinedNew(n, kind) /\ fresh /\ ~Returned(n)

SurfacedAfter(n, kind, fresh) ==
  IF \/ ShowsReturn(n, fresh)
     \/ ShowsArrival(n, kind, fresh)
     \/ AnnouncesArrival(n, kind, fresh)
  THEN surfaced \cup {n} ELSE surfaced

-----------------------------------------------------------------------------
RosterInit ==
  /\ peers = {} /\ quiet = <<>> /\ quiet_since = {}
  /\ last_seen = [n \in Nicks |-> "none"]
  /\ surfaced = {} /\ peer_endpoints = {}
  /\ shown = [n \in Nicks |-> "absent"]
  /\ frames = 0

\* observe and the handler of every kind but `left`; a PeerInfo also records
\* its author's endpoint.
Deliver(n, kind, fresh) ==
  /\ kind # "left"
  /\ peers' = PeersAfter(n, kind)
  /\ quiet' = QuietAfter(n)
  /\ surfaced' = SurfacedAfter(n, kind, fresh)
  /\ shown' = IF n \in surfaced' /\ (n \notin surfaced \/ ShowsReturn(n, fresh))
                THEN [shown EXCEPT ![n] = "present"] ELSE shown
  /\ peer_endpoints' = IF kind = "peerinfo" THEN peer_endpoints \cup {n} ELSE peer_endpoints

\* observe, then the Left arm of handle_presence: off the roster, dial hint
\* dropped, and the departure shown if the arrival was (observe may just have
\* shown a return).
Farewell(n, fresh) ==
  /\ peers' = PeersAfter(n, "left") \ {n}
  /\ quiet' = QuietWithout(QuietAfter(n), n)
  /\ surfaced' = SurfacedAfter(n, "left", fresh) \ {n}
  /\ shown' = IF n \in SurfacedAfter(n, "left", fresh)
                THEN [shown EXCEPT ![n] = "absent"] ELSE shown
  /\ peer_endpoints' = peer_endpoints \ {n}

\* A frame that passed dedup; any frame is a heartbeat of its author.
Ingest(n, kind, fresh) ==
  /\ frames < MaxFrames
  /\ frames' = frames + 1
  /\ last_seen' = [last_seen EXCEPT ![n] = "recent"]
  /\ UNCHANGED quiet_since
  /\ IF kind = "left" THEN Farewell(n, fresh) ELSE Deliver(n, kind, fresh)

\* ALIVE_TIMEOUT_SECS pass without a frame from n.
Silence(n) ==
  /\ last_seen[n] = "recent"
  /\ last_seen' = [last_seen EXCEPT ![n] = "expired"]
  /\ UNCHANGED <<peers, quiet, quiet_since, surfaced, peer_endpoints, shown, frames>>

Expired == {n \in Nicks : last_seen[n] = "expired"}

\* The evictees that go quiet: on the roster, and shown as present.
GoQuiet == Expired \cap peers \cap surfaced

\* Every order a HashMap iteration may insert them in, the cap applied as each
\* goes in; a nick that is listed is not inserted again (BoundedFifoSet::insert).
Orders(S) == {f \in [1..Cardinality(S) -> S] : \A i, j \in DOMAIN f : f[i] = f[j] => i = j}

QuietInserted(order) ==
  LET all == quiet \o order
      over == Len(all) - QuietCap
  IN  IF over > 0 THEN SubSeq(all, over + 1, Len(all)) ELSE all

\* Fault: an unsurfaced ghost loses its heartbeat but stays on the roster.
SweptPeersKeepingGhosts == peers \ GoQuiet

SweptPeers == peers \ Expired

\* The silently evicted lose their hint, then every nick neither active nor
\* quiet does.
SweptHints(kept) ==
  (peer_endpoints \ ((Expired \cap peers) \ surfaced)) \cap (SweptPeers \cup kept)

SweptSince(kept) == (quiet_since \cup GoQuiet) \cap kept

TickSweep ==
  /\ \E order \in Orders(GoQuiet \ QuietSet) :
       /\ quiet' = QuietInserted(order)
       /\ LET kept == {quiet'[i] : i \in 1..Len(quiet')} IN
            /\ quiet_since' = SweptSince(kept)
            /\ peer_endpoints' = SweptHints(kept)
  /\ last_seen' = [n \in Nicks |-> IF n \in Expired THEN "none" ELSE last_seen[n]]
  /\ peers' = SweptPeers
  /\ surfaced' = surfaced \ GoQuiet
  /\ shown' = [n \in Nicks |-> IF n \in GoQuiet THEN "quiet" ELSE shown[n]]
  /\ UNCHANGED frames

RosterNext ==
  \/ \E n \in Nicks, kind \in Kinds, fresh \in BOOLEAN : Ingest(n, kind, fresh)
  \/ \E n \in Nicks : Silence(n)
  \/ TickSweep

RosterSpec == RosterInit /\ [][RosterNext]_rostervars

\* Time passes and the sweep ticks.
RosterFairSpec == RosterSpec /\ WF_rostervars(TickSweep) /\ \A n \in Nicks : WF_rostervars(Silence(n))

-----------------------------------------------------------------------------
(* Properties *)

\* Types; the roster and the quiet list never disagree about a nick and the
\* quiet list names each nick once (roster_snapshot chains the two), whoever is
\* on the roster is still timed, so the sweep can evict it, whoever is quiet still
\* has its recency although its last_seen is gone, and a dial hint outlives
\* neither, so nickname churn cannot grow peer_endpoints (tick_sweep's retain).
MapsAgree ==
  /\ peers \subseteq Nicks /\ surfaced \subseteq Nicks
  /\ last_seen \in [Nicks -> {"none", "recent", "expired"}]
  /\ Len(quiet) <= QuietCap
  /\ peers \cap QuietSet = {}
  /\ \A i, j \in 1..Len(quiet) : quiet[i] = quiet[j] => i = j
  /\ \A n \in peers : last_seen[n] # "none"
  /\ QuietSet \subseteq quiet_since
  /\ peer_endpoints \subseteq peers \cup QuietSet
  /\ shown \in [Nicks -> {"absent", "present", "quiet"}]
  /\ frames \in 0..MaxFrames

\* When nobody speaks any more the roster drains.
SilenceEmptiesRoster == <>[](peers = {})
=============================================================================
