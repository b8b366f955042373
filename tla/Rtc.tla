-------------------------------- MODULE Rtc --------------------------------
(***************************************************************************)
(* WebRTC sessions between members: who may negotiate one and how many     *)
(* (transport/admission.rs), the offer and answer round with its deadlines *)
(* (transport/webrtc.rs), the session registry and the drivers and hooks   *)
(* that retire a session (fofoca-iroh-webrtc-transport), and the link to   *)
(* the rendezvous that a session carries (gossip/recv.rs, daemon/heal.rs,  *)
(* transport/direct_gossip.rs).                                            *)
(*                                                                         *)
(* Every pair needs the lane: one end at least has no UDP, and the relay   *)
(* is lookup only.  The race of a session against a UDP punch, and the     *)
(* path watchers that judge it, are left out.                              *)
(*                                                                         *)
(* An end is <<n, q>>: node n's half of the pair {n, q}.  A round, its     *)
(* signal connection, the session it negotiates and the registry           *)
(* generation of each half carry one id, free again once nothing holds it. *)
(* Handlers, accept and the spawned rounds and drivers interleave; what    *)
(* runs under a lock or without an await is one action.                    *)
(***************************************************************************)
EXTENDS Naturals, FiniteSets

CONSTANTS Nodes,       \* endpoint ids, ordered
          Tabs,        \* the nodes in a browser
          Rendezvous,  \* the id the beacon serves: answers and never offers
          Topologies,  \* the peers each node may know: one is in force
          CalmFrom,    \* bound: the topologies that are calm from the start
          Restarts,    \* the nodes whose endpoint is closed and rebuilt
          Cap,         \* MAX_DIRECT_PEERS
          Ids,         \* bound: rounds and sessions that exist at once
          None

Ends == {e \in Nodes \X Nodes : e[1] # e[2]}

\* What the offerer sees of its signal connection.
Connection ==
  [from : Nodes, to : Nodes, st : {"arriving", "open", "answered", "refused", "closed"}]

ASSUME RtcAssumption ==
  /\ Nodes \subseteq Nat /\ IsFiniteSet(Nodes)
  /\ Tabs \subseteq Nodes /\ Restarts \subseteq Nodes
  /\ Topologies \subseteq [Nodes -> SUBSET Nodes]
  /\ Cap \in Nat
  /\ None \notin Ids \cup [id : Ids, live : BOOLEAN] \cup Connection

VARIABLES known,     \* node -> peers whose address it has
          round,     \* end -> None, or [id, offers, phase]: the round that
                     \* holds the admission slot.  An offer is in phase dial,
                     \* exchange, complete or attached; an answer in read,
                     \* complete or attached
          signal,    \* id -> None, or [from, to, st] of the signal connection
          slot,      \* end -> None, or [id, live]: the registry
          driven,    \* <<end, id>>: the halves a driver or the hooks run
          cooling,   \* node -> peers that refused it at their cap
          closed,    \* nodes whose admission is closed
          linked,    \* rendezvous_linked
          stale,     \* rendezvous_session_stale
          graft,     \* node -> none, proven (the outcome is queued), dialing
          stable     \* the network is calm: nothing fails but by its own
                     \* deadlines, and a session that attaches is linked, or
                     \* refused, within a heal interval

sessions == <<slot, driven>>
link == <<linked, stale, graft>>
vars == <<known, round, signal, sessions, cooling, closed, link, stable>>

Other(e) == <<e[2], e[1]>>

-----------------------------------------------------------------------------
(* registry.rs, over a table of slots *)

Live(slots, e) == slots[e] # None /\ slots[e].live

Holds(slots, e, id) == slots[e] # None /\ slots[e].id = id

\* remove: whatever its generation, a reservation too.
Removed(slots, e) == [slots EXCEPT ![e] = None]

\* Fault: a close hook removes the slot whoever holds it.
RemovedAny(slots, e, id) == Removed(slots, e)

\* Fault: a close hook gives up on a reservation only.
RemovedReservation(slots, e, id) ==
  IF Holds(slots, e, id) /\ ~slots[e].live THEN Removed(slots, e) ELSE slots

\* remove_if_generation
RemovedIfGeneration(slots, e, id) ==
  IF Holds(slots, e, id) THEN Removed(slots, e) ELSE slots

-----------------------------------------------------------------------------
(* admission.rs *)

InFlight(rounds, n) == {q \in Nodes \ {n} : rounds[<<n, q>>] # None}

LivePeers(slots, n) == {q \in Nodes \ {n} : Live(slots, <<n, q>>)}

\* Fault: the rounds in flight are not counted.
BelowCapLive(n, slots) == Cardinality(LivePeers(slots, n)) < Cap

BelowCap(n, slots) ==
  Cardinality(LivePeers(slots, n)) + Cardinality(InFlight(round, n)) < Cap

\* try_admit: why a round of n with q may not start, or "admitted".
TryAdmit(e, slots) ==
  LET n == e[1]
  IN  IF n \in closed THEN "shuttingDown"
      ELSE IF round[e] # None THEN "inFlight"
      ELSE IF Live(slots, e) THEN "haveSession"
      ELSE IF e[2] \in cooling[n] THEN "cooling"
      ELSE IF ~BelowCap(n, slots) THEN "atCap"
      ELSE "admitted"

Runs(e, id) == round[e] # None /\ round[e].id = id

\* An id nothing holds.
FreeIds ==
  {id \in Ids : /\ signal[id] = None
                /\ \A e \in Ends : ~Runs(e, id) /\ <<e, id>> \notin driven}

NewId == CHOOSE id \in FreeIds : TRUE

StartOffer(e) ==
  /\ FreeIds # {}
  /\ round' = [round EXCEPT ![e] = [id |-> NewId, offers |-> TRUE, phase |-> "dial"]]

-----------------------------------------------------------------------------
(* The round *)

\* negotiate_session, of retry_sessions or a peer's arrival: the lower id
\* offers, and the rendezvous is no peer.
Negotiate(e) ==
  /\ e[2] \in known[e[1]] \ {Rendezvous}
  /\ e[1] # Rendezvous
  /\ e[1] < e[2]
  /\ TryAdmit(e, slot) = "admitted"
  /\ StartOffer(e)
  /\ UNCHANGED <<known, signal, sessions, cooling, closed, link, stable>>

Enter(e, phase) == round' = [round EXCEPT ![e].phase = phase]

\* dial_signal_round once its offer is gathered: the connection is made.
Dial(e) ==
  /\ round[e] # None /\ round[e].phase = "dial"
  /\ e[2] \notin closed
  /\ Enter(e, "exchange")
  /\ signal' = [signal EXCEPT ![round[e].id] = [from |-> e[1], to |-> e[2], st |-> "arriving"]]
  /\ UNCHANGED <<known, sessions, cooling, closed, link, stable>>

\* Whether the offerer still waits on the connection.
Waiting(id) == Runs(<<signal[id].from, signal[id].to>>, id)

\* The answerer's end of the connection, closed for the offerer to see.
Closed(id, why) ==
  signal' = [signal EXCEPT ![id] = IF Waiting(id) THEN [@ EXCEPT !.st = why] ELSE None]

\* A fresh offer proves the offerer's half of a session we hold is gone.
DetachHeld(e) == IF Live(slot, e) THEN Removed(slot, e) ELSE slot

\* WebRtcSignalAcceptor::accept
Accept(id) ==
  /\ signal[id] # None /\ signal[id].st = "arriving"
  /\ LET e == <<signal[id].to, signal[id].from>>
         verdict == TryAdmit(e, DetachHeld(e))
     IN  /\ slot' = DetachHeld(e)
         /\ \/ /\ verdict = "admitted"
               /\ round' = [round EXCEPT ![e] = [id |-> id, offers |-> FALSE, phase |-> "read"]]
               /\ signal' = [signal EXCEPT ![id].st = "open"]
            \/ /\ verdict # "admitted"
               /\ Closed(id, IF verdict = "atCap" THEN "refused" ELSE "closed")
               /\ UNCHANGED round
  /\ UNCHANGED <<known, driven, cooling, closed, link, stable>>

\* answer_one: the answer is on the wire before the negotiation is driven.
SendAnswer(e) ==
  /\ round[e] # None /\ round[e].phase = "read" /\ Waiting(round[e].id)
  /\ Enter(e, "complete")
  /\ signal' = [signal EXCEPT ![round[e].id].st = "answered"]
  /\ UNCHANGED <<known, sessions, cooling, closed, link, stable>>

\* exchange_envelopes returns the answer.
ReadAnswer(e) ==
  /\ round[e] # None /\ round[e].phase = "exchange"
  /\ signal[round[e].id].st = "answered"
  /\ Enter(e, "complete")
  /\ UNCHANGED <<known, signal, sessions, cooling, closed, link, stable>>

\* The far half of session id exists: its round completes it, or it is driven.
FarHalf(e, id) ==
  \/ <<Other(e), id>> \in driven
  \/ Runs(Other(e), id) /\ round[Other(e)].phase \in {"complete", "attached"}

\* A browser's offerer attaches before ICE has met the far half; everyone else
\* once the channel is there.
MayAttach(e) == FarHalf(e, round[e].id) \/ (e[1] \in Tabs /\ round[e].offers)

\* reserve, and what starts to drive the half.  The native slot is filled by
\* Fulfil, the browser's at once.
Attach(e) ==
  /\ round[e] # None /\ round[e].phase = "complete"
  /\ MayAttach(e)
  /\ slot[e] = None
  /\ Enter(e, "attached")
  /\ slot' = [slot EXCEPT ![e] = [id |-> round[e].id, live |-> e[1] \in Tabs]]
  /\ driven' = driven \cup {<<e, round[e].id>>}
  /\ UNCHANGED <<known, signal, cooling, closed, link, stable>>

\* The round leaves, and its connection with the last of the two rounds.
Leave(e, why) ==
  LET id == round[e].id
  IN  /\ round' = [round EXCEPT ![e] = None]
      /\ IF round[e].offers
           THEN signal' = IF signal[id] # None /\ signal[id].st # "arriving" /\ ~Runs(Other(e), id)
                            THEN [signal EXCEPT ![id] = None] ELSE signal
           ELSE Closed(id, why)

\* The tail of a round that attached: the rendezvous offer reports the path.
Proven(e) ==
  graft' = IF round[e].offers /\ e[2] = Rendezvous
             THEN [graft EXCEPT ![e[1]] = "proven"] ELSE graft

\* fulfil and commit on a native node, the channel opening and commit in a tab
\* (which does not look at the slot again).
Fulfil(e) ==
  /\ round[e] # None /\ round[e].phase = "attached"
  /\ LET id == round[e].id
     IN  IF e[1] \in Tabs
           THEN /\ <<e, id>> \in driven
                /\ FarHalf(e, id)
                /\ UNCHANGED slot
           ELSE /\ Holds(slot, e, id)
                /\ slot' = [slot EXCEPT ![e].live = TRUE]
  /\ Leave(e, "answered")
  /\ Proven(e)
  /\ UNCHANGED <<known, driven, cooling, closed, linked, stale, stable>>

\* A failure that the environment is not needed for.
Stuck(e) ==
  LET id == round[e].id
      unread == Runs(Other(e), id) /\ round[Other(e)].phase = "exchange"
  IN  CASE round[e].phase = "dial"     -> e[2] \in closed
        [] round[e].phase = "exchange" -> signal[id].st \in {"refused", "closed"}
        [] round[e].phase = "read"     -> ~Waiting(id)
        [] round[e].phase = "complete" -> slot[e] # None \/ ~(FarHalf(e, id) \/ unread)
        [] round[e].phase = "attached" -> ~Holds(slot, e, id) \/ (e[1] \in Tabs /\ ~FarHalf(e, id))

\* The guard dropped, or the driver of a handle that is dropped.
DropGuard(e, id) == RemovedIfGeneration(slot, e, id)

\* Native attach does not await: only a slot already retired fails it.
MayFail(e) ==
  IF round[e].phase = "attached" /\ e[1] \notin Tabs THEN Stuck(e)
  ELSE ~stable \/ e[1] \in closed \/ Stuck(e)

\* A round ends without a session: a deadline, a refused or lost connection,
\* ICE, a task aborted by close.  A cap refusal quiets the peer for a while.
RoundFails(e) ==
  /\ round[e] # None
  /\ MayFail(e)
  /\ Leave(e, "closed")
  /\ slot' = IF round[e].phase = "attached" THEN DropGuard(e, round[e].id) ELSE slot
  /\ driven' = driven \ {<<e, round[e].id>>}
  /\ cooling' = IF round[e].phase = "exchange" /\ signal[round[e].id].st = "refused"
                  THEN [cooling EXCEPT ![e[1]] = @ \cup {e[2]}] ELSE cooling
  /\ UNCHANGED <<known, closed, link, stable>>

\* CAP_REFUSAL_COOLDOWN passes.
CoolingEnds(n) ==
  /\ cooling[n] # {}
  /\ cooling' = [cooling EXCEPT ![n] = {}]
  /\ UNCHANGED <<known, round, signal, sessions, closed, link, stable>>

\* The half was detached, the far half is gone (a DTLS close, ICE consent), or
\* ICE broke.
HalfDies(h) ==
  ~stable \/ h[1][1] \in closed \/ ~Holds(slot, h[1], h[2]) \/ ~FarHalf(h[1], h[2])

\* drive_session ends, or a browser's close or state hook runs.
HalfEnds(h) ==
  /\ HalfDies(h)
  /\ driven' = driven \ {h}
  /\ slot' = RemovedIfGeneration(slot, h[1], h[2])
  /\ UNCHANGED <<known, round, signal, cooling, closed, link, stable>>

-----------------------------------------------------------------------------
(* The rendezvous link of a member *)

Members == {n \in Nodes \ {Rendezvous} : Rendezvous \in known[n]}
ToRendezvous(n) == <<n, Rendezvous>>

\* negotiate_rendezvous_session on a table of slots: a held session is given
\* one tick to become a link, then detached, and a new one offered.
OfferRendezvous(n, slots) ==
  LET e == ToRendezvous(n)
  IN  \/ /\ Live(slots, e) /\ ~stale[n]
         /\ stale' = [stale EXCEPT ![n] = TRUE]
         /\ slot' = slots
         /\ UNCHANGED round
      \/ LET left == IF Live(slots, e) THEN Removed(slots, e) ELSE slots
         IN  /\ Live(slots, e) => stale[n]
             /\ stale' = [stale EXCEPT ![n] = FALSE]
             /\ slot' = left
             /\ IF TryAdmit(e, left) = "admitted" THEN StartOffer(e) ELSE UNCHANGED round

Settled(n) ==
  graft[n] = "none" /\ round[ToRendezvous(n)] = None /\ round[Other(ToRendezvous(n))] = None

\* run_heal while the link is down.
HealTick(n) ==
  /\ n \in Members /\ ~linked[n] /\ n \notin closed
  /\ stable => Settled(n)
  /\ OfferRendezvous(n, slot)
  /\ UNCHANGED <<known, signal, driven, cooling, closed, linked, graft, stable>>

\* The loop hears the outcome, and grafts.
Graft(n) ==
  /\ n \in Members /\ graft[n] = "proven"
  /\ graft' = [graft EXCEPT ![n] = IF linked[n] THEN "none" ELSE "dialing"]
  /\ UNCHANGED <<known, round, signal, sessions, cooling, closed, linked, stale, stable>>

Connected(n) ==
  LET e == ToRendezvous(n)
  IN  /\ Live(slot, e) /\ Live(slot, Other(e))
      /\ slot[e].id = slot[Other(e)].id
      /\ <<e, slot[e].id>> \in driven /\ <<Other(e), slot[e].id>> \in driven

\* Fault: a dial is refused until the session is there.
RefuseUnheld(has_session, negotiating, we_offer) == ~has_session

\* refuse_before_session
RefuseBeforeSession(has_session, negotiating, we_offer) ==
  ~has_session /\ (we_offer \/ ~negotiating)

\* The accept gate refuses the graft's dial at once.
Refused(n) ==
  LET r == Other(ToRendezvous(n))
  IN  Rendezvous \in Tabs /\ RefuseBeforeSession(Live(slot, r), round[r] # None, Rendezvous < n)

\* NeighborUp(rendezvous): the held dial goes direct over the session.
NeighborUp(n) ==
  /\ n \in Members /\ graft[n] = "dialing" /\ Connected(n)
  /\ linked' = [linked EXCEPT ![n] = TRUE]
  /\ stale' = [stale EXCEPT ![n] = FALSE]
  /\ graft' = [graft EXCEPT ![n] = "none"]
  /\ UNCHANGED <<known, round, signal, sessions, cooling, closed, stable>>

\* The dial is refused, or held until its deadline in vain.
GraftFails(n) ==
  LET r == Other(ToRendezvous(n))
  IN  /\ n \in Members /\ graft[n] = "dialing"
      /\ ~stable \/ Refused(n) \/ (~Connected(n) /\ round[r] = None)
      /\ graft' = [graft EXCEPT ![n] = "none"]
      /\ UNCHANGED <<known, round, signal, sessions, cooling, closed, linked, stale, stable>>

\* NeighborDown(rendezvous): the session goes, and a new one is offered now.
NeighborDown(n) ==
  /\ n \in Members /\ linked[n]
  /\ ~stable \/ ~Connected(n)
  /\ linked' = [linked EXCEPT ![n] = FALSE]
  /\ OfferRendezvous(n, Removed(slot, ToRendezvous(n)))
  /\ UNCHANGED <<known, signal, driven, cooling, closed, graft, stable>>

-----------------------------------------------------------------------------
(* Failures *)

\* ProtocolHandler::shutdown: the admission closes; rounds and halves follow.
Close(n) ==
  /\ ~stable /\ n \in Restarts \ closed /\ known[n] # {}
  /\ closed' = closed \cup {n}
  /\ UNCHANGED <<known, round, signal, sessions, cooling, link, stable>>

Mine(n) == {e \in Ends : e[1] = n}

\* A fresh endpoint under the same id: tables empty, connections lost.
Rebuild(n) ==
  /\ n \in closed
  /\ closed' = closed \ {n}
  /\ round' = [e \in Ends |-> IF e[1] = n THEN None ELSE round[e]]
  /\ signal' = [id \in Ids |->
       IF signal[id] = None \/ n \notin {signal[id].from, signal[id].to} THEN signal[id]
       ELSE IF signal[id].to = n /\ Waiting(id) THEN [signal[id] EXCEPT !.st = "closed"]
       ELSE IF signal[id].from = n /\ signal[id].st = "arriving" THEN signal[id]
       ELSE IF signal[id].from = n /\ \E e \in Ends : e[1] # n /\ Runs(e, id)
         THEN signal[id]
       ELSE None]
  /\ slot' = [e \in Ends |-> IF e[1] = n THEN None ELSE slot[e]]
  /\ driven' = {h \in driven : h[1][1] # n}
  /\ cooling' = [cooling EXCEPT ![n] = {}]
  /\ UNCHANGED <<known, link, stable>>

Stabilise ==
  /\ ~stable
  /\ stable' = TRUE
  /\ UNCHANGED <<known, round, signal, sessions, cooling, closed, link>>

Init ==
  /\ known \in Topologies
  /\ round = [e \in Ends |-> None]
  /\ signal = [id \in Ids |-> None]
  /\ slot = [e \in Ends |-> None] /\ driven = {}
  /\ cooling = [n \in Nodes |-> {}] /\ closed = {}
  /\ linked = [n \in Nodes |-> FALSE] /\ stale = [n \in Nodes |-> FALSE]
  /\ graft = [n \in Nodes |-> "none"]
  /\ stable = (known \in CalmFrom)

RoundStep(e) ==
  \/ Dial(e) \/ SendAnswer(e) \/ ReadAnswer(e) \/ Attach(e) \/ Fulfil(e) \/ RoundFails(e)

LinkStep(n) == Graft(n) \/ NeighborUp(n) \/ GraftFails(n) \/ NeighborDown(n)

Next ==
  \/ \E e \in Ends : Negotiate(e) \/ RoundStep(e)
  \/ \E id \in Ids : Accept(id)
  \/ \E h \in driven : HalfEnds(h)
  \/ \E n \in Nodes : CoolingEnds(n) \/ HealTick(n) \/ LinkStep(n) \/ Close(n) \/ Rebuild(n)
  \/ Stabilise

Spec == Init /\ [][Next]_vars

\* The ticks fire, deadlines pass, a driver notices a half that is gone, and
\* the network calms down.
FairSpec ==
  /\ Spec
  /\ WF_vars(Stabilise)
  /\ WF_vars(\E id \in Ids : Accept(id))
  /\ WF_vars(\E h \in driven : HalfEnds(h))
  /\ WF_vars(\E n \in Nodes : CoolingEnds(n) \/ Rebuild(n))
  /\ WF_vars(\E e \in Ends : Negotiate(e))
  /\ \A e \in Ends : WF_vars(RoundStep(e))
  /\ \A n \in Nodes : WF_vars(HealTick(n)) /\ WF_vars(LinkStep(n))

-----------------------------------------------------------------------------
(* Properties *)

Entry == [e \in Ends |-> IF slot[e] = None THEN None ELSE slot[e].id]

Table == INSTANCE SessionTable WITH Sessions <- Ids, entry <- Entry, running <- driven

\* The sessions implement the table: a slot is filled only when free and with
\* a half something drives, and what a half that ends removes is its own slot,
\* never its successor's (reserve, fulfil, remove_if_generation).
IsTable == Table!TableSpec

\* The ceiling counts the rounds in flight, on the offering and the answering
\* side, and no order of them passes it (try_admit).
CapHolds ==
  \A n \in Nodes : Cardinality(LivePeers(slot, n) \cup InFlight(round, n)) <= Cap

Joined(e) ==
  /\ Live(slot, e) /\ Live(slot, Other(e)) /\ slot[e].id = slot[Other(e)].id
  /\ {<<e, slot[e].id>>, <<Other(e), slot[e].id>>} \subseteq driven

Within(n) == Cardinality(known[n]) <= Cap

\* A pair whose ends are below their ceilings gets both halves of one session
\* and keeps them once the network is calm, whatever was left half attached,
\* refused or timed out before (retry_sessions, accept, the guards).
PairConnects ==
  \A e \in Ends :
    (e[1] < e[2] /\ e[2] \in known[e[1]] /\ Rendezvous \notin {e[1], e[2]}
       /\ Within(e[1]) /\ Within(e[2])) => <>[]Joined(e)

\* A member without UDP links to the rendezvous again, although the graft
\* races the answerer's attach and the beacon comes back with an empty table
\* (negotiate_rendezvous_session, refuse_before_session, NeighborDown).
RendezvousRelinks ==
  \A n \in Nodes : n \in Members /\ Within(n) /\ Within(Rendezvous) => <>[]linked[n]
=============================================================================
