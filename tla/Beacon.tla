------------------------------- MODULE Beacon -------------------------------
(***************************************************************************)
(* The beacon role: which members of a mesh serve its rendezvous identity  *)
(* (crates/fofoca/src/beacon/mod.rs, daemon/beacon_arm.rs, daemon/heal.rs, *)
(* and the arms of daemon/event_loop.rs that drive them).                  *)
(*                                                                         *)
(* A public mesh has no arbiter: any number of members can home a copy of  *)
(* the rendezvous endpoint on the same relay rung, so a member probes      *)
(* first, off the loop, and claims after two free readings; a periodic     *)
(* re-check sheds the beacon and probes again.  A private mesh arbitrates  *)
(* by binding: the first free port of a fixed ladder, and a port in use is *)
(* asked whether it serves this mesh.                                      *)
(*                                                                         *)
(* Each arm of a member's event loop is one action; the probe, the close   *)
(* of a shed endpoint and the other members run between arms.  The ladder  *)
(* walk runs inline, so while a member walks its loop does nothing else.   *)
(* Clocks are abstracted: ticks come, re-checks fall due and the grace     *)
(* period ends at any time.  How long the next re-check waits              *)
(* (next_recheck_delay and its round counter) is part of that, and so is   *)
(* the fast reclaim, which only makes ticks come sooner: a reclaim tick    *)
(* may come at any time.  The lookups of a public mesh are its relay rungs *)
(* (no mDNS, no DHT), and an endpoint that cannot be built at a tick is a  *)
(* tick that does not come.                                                *)
(***************************************************************************)
EXTENDS Integers, FiniteSets

CONSTANTS
  Processes,          \* processes on one machine or network
  Meshes,             \* the meshes to consider, see MeshType
  NPlaces,            \* relay rungs of a public mesh, ports of a private one
  MaxShedDeferrals    \* due sheds that may be put off for a dependent tab

Unbound == -1         \* slot of a member that holds no beacon
NoRelay == 0          \* bootstrap_relay is None
Places == 1 .. NPlaces
Policies == {"Eager", "EagerProbed", "Deferred", "Never"}

\* Whether a mesh has lookups or only the loopback ladder, who runs, with which
\* policy, and a bound on the environment's faults.
MeshType ==
  { k \in [public : BOOLEAN, members : SUBSET Processes,
           policy : [Processes -> Policies], faults : 0 .. 3] : k.members # {} }

ASSUME BeaconAssumption ==
  /\ NPlaces \in Nat \ {0}
  /\ MaxShedDeferrals \in Nat
  /\ Meshes \subseteq MeshType

VARIABLES
  mesh,      \* which of Meshes this is
  up,        \* "off", "up" or "gone": the member's event loop
  rung,      \* bootstrap_relay, for a public mesh
  slot,      \* where the held rendezvous endpoint is bound, or Unbound
  serving,   \* the co-host task of the held rendezvous is running
  closing,   \* endpoints shed and not closed yet
  walk,      \* the ladder walk in progress
  probe,     \* the outstanding rival probe
  target,    \* the rung that probe dials
  readFree,  \* rendezvous_probe_read_free
  linked,    \* rendezvous_linked
  settled,   \* meshed, or cohost_grace_secs have passed
  recheck,   \* next_rival_recheck is set
  deferrals, \* rival_recheck_deferrals
  foreign,   \* ladder ports other meshes of this host occupy
  faults,    \* faults left
  freed      \* history: somebody let go of a ladder port

loopvars == <<probe, target, readFree, linked, settled, recheck, deferrals>>
beaconvars == <<slot, serving, closing, walk>>
vars == <<mesh, up, rung, beaconvars, loopvars, foreign, faults, freed>>

-----------------------------------------------------------------------------
(* Who answers a dial *)

\* The member accepts connections under the rendezvous identity at p.
AnswersAt(h, p) == slot[h] = p /\ serving[h]
Holders == {h \in mesh.members : slot[h] # Unbound /\ serving[h]}
Answered(p) == p # NoRelay /\ \E h \in Processes : AnswersAt(h, p)

\* Bound by a member that does not accept yet.
AboutToServe(p) == \E h \in Processes : walk[h].phase = "bound" /\ walk[h].at = p

\* A port is free for bind when no socket of any process is open on it.  A
\* co-host task that ended and an endpoint that is closing keep theirs.
PortTaken(p) ==
  \/ p \in foreign
  \/ AboutToServe(p)
  \/ \E h \in Processes : slot[h] = p \/ p \in closing[h]

NoWalk == [at |-> 0, phase |-> "idle"]
Idle(m) == up[m] = "up" /\ walk[m] = NoWalk

-----------------------------------------------------------------------------
(* Policy *)

ProbesBeforeClaim(m) == mesh.policy[m] # "Eager"
ClaimsAtStartup(m) == mesh.policy[m] \in {"Eager", "EagerProbed"}
MayCohost(m) ==
  \/ mesh.policy[m] \in {"Eager", "EagerProbed"}
  \/ mesh.policy[m] = "Deferred" /\ settled[m]
\* Mutant: the re-check leaves out joiners.
RecheckEagerOnly(m) == mesh.policy[m] = "EagerProbed" /\ mesh.public

RivalRecheckApplies(m) == mesh.policy[m] \in {"EagerProbed", "Deferred"} /\ mesh.public

Fault == faults > 0 /\ faults' = faults - 1

-----------------------------------------------------------------------------
(* The mechanism.  Each operator fixes the next value of the beacon's      *)
(* variables and of the probe; the arms below fix the others.              *)

\* Mutant: a beacon whose task ended still counts as held.
HeldDeadOrAlive(m) == slot[m] # Unbound

\* releasable: a beacon whose task ended is shed before the slot is reused.
Held(m) == slot[m] # Unbound /\ serving[m]
Open(m) == IF slot[m] = Unbound THEN {} ELSE {slot[m]}
Release(m) ==
  /\ slot' = [slot EXCEPT ![m] = Unbound]
  /\ serving' = [serving EXCEPT ![m] = FALSE]
  /\ closing' = [closing EXCEPT ![m] = @ \cup Open(m)]

\* A claim of the public rendezvous binds at once; schedule_rival_recheck
\* follows every claim.
ClaimPublic(m) ==
  /\ slot' = [slot EXCEPT ![m] = rung[m]]
  /\ serving' = [serving EXCEPT ![m] = TRUE]
  /\ closing' = [closing EXCEPT ![m] = @ \cup Open(m)]
  /\ walk' = walk

ScheduleRecheck(m) ==
  /\ deferrals' = [deferrals EXCEPT ![m] = 0]
  /\ recheck' = [recheck EXCEPT ![m] = @ \/ RivalRecheckApplies(m)]

\* spawn_rival_probe: with no rung to name there is nothing to dial, and the
\* verdict is "held" from the start.
SpawnProbe(m) ==
  /\ probe' = [probe EXCEPT ![m] = IF rung[m] = NoRelay THEN "held" ELSE "out"]
  /\ target' = [target EXCEPT ![m] = rung[m]]

\* ensure, from the startup, the heal or the reclaim site.
Ensure(m) ==
  \/ /\ Held(m)
     /\ UNCHANGED <<beaconvars, probe, target, recheck, deferrals>>
  \/ /\ ~Held(m) /\ mesh.public /\ ProbesBeforeClaim(m)
     /\ Release(m) /\ walk' = walk
     /\ IF probe[m] = "none" THEN SpawnProbe(m) ELSE UNCHANGED <<probe, target>>
     /\ UNCHANGED <<recheck, deferrals>>
  \/ /\ ~Held(m) /\ mesh.public /\ ~ProbesBeforeClaim(m)
     /\ ClaimPublic(m) /\ ScheduleRecheck(m)
     /\ UNCHANGED <<probe, target>>
  \/ /\ ~Held(m) /\ ~mesh.public
     /\ Release(m)
     /\ walk' = [walk EXCEPT ![m] = [at |-> 1, phase |-> "try"]]
     /\ UNCHANGED <<probe, target, recheck, deferrals>>

-----------------------------------------------------------------------------
(* The ladder walk of a private claim *)

\* The next port, or the end of the walk: no rung taken, stay a peer.
Onward(m) ==
  walk' = [walk EXCEPT ![m] = IF walk[m].at < NPlaces
                              THEN [at |-> walk[m].at + 1, phase |-> "try"] ELSE NoWalk]

TryBind(m) ==
  /\ walk[m].phase = "try"
  /\ walk' = [walk EXCEPT ![m] = [at |-> walk[m].at,
                                  phase |-> IF PortTaken(walk[m].at) THEN "ask" ELSE "bound"]]
  /\ UNCHANGED <<mesh, up, rung, slot, serving, closing, loopvars, foreign, faults, freed>>

\* The bound endpoint gets its router and starts to accept.
Serve(m) ==
  /\ walk[m].phase = "bound"
  /\ slot' = [slot EXCEPT ![m] = walk[m].at]
  /\ serving' = [serving EXCEPT ![m] = TRUE]
  /\ walk' = [walk EXCEPT ![m] = NoWalk]
  /\ ScheduleRecheck(m)
  /\ UNCHANGED <<mesh, up, rung, closing, probe, target, readFree, linked, settled, foreign, faults, freed>>

\* Mutant: a single attempt, which a port that does not accept yet refuses.
RungServesOneAttempt(p) == {Answered(p)}

\* rung_serves_our_mesh: an answer means ours; no answer to any of the spaced
\* attempts means foreign.  The attempts outlast the moment between another
\* member's bind and its first accept, never the close of an endpoint.
RungServesOurMesh(p) == IF Answered(p) THEN {TRUE} ELSE IF AboutToServe(p) THEN {} ELSE {FALSE}

AskPort(m) ==
  /\ walk[m].phase = "ask"
  /\ \E ours \in RungServesOurMesh(walk[m].at) :
       IF ours THEN walk' = [walk EXCEPT ![m] = NoWalk] ELSE Onward(m)
  /\ UNCHANGED <<mesh, up, rung, slot, serving, closing, loopvars, foreign, faults, freed>>

\* The probe endpoint cannot be built: stay a peer this time.
AbandonWalk(m) ==
  /\ walk[m].phase = "ask" /\ Fault
  /\ walk' = [walk EXCEPT ![m] = NoWalk]
  /\ UNCHANGED <<mesh, up, rung, slot, serving, closing, loopvars, foreign, freed>>

-----------------------------------------------------------------------------
(* The rival probe of a public claim *)

\* The dial connects, or the task dies and its dropped sender reads as held.
ProbeFindsRival(m) ==
  /\ probe[m] = "out"
  /\ \/ Answered(target[m]) /\ UNCHANGED faults
     \/ Fault
  /\ probe' = [probe EXCEPT ![m] = "held"]
  /\ UNCHANGED <<mesh, up, rung, beaconvars, target, readFree, linked, settled, recheck, deferrals, foreign, freed>>

\* The dial runs out of budget, with nobody there or with a holder out of reach.
ProbeTimesOut(m) ==
  /\ probe[m] = "out"
  /\ IF Answered(target[m]) THEN Fault ELSE UNCHANGED faults
  /\ probe' = [probe EXCEPT ![m] = "free"]
  /\ UNCHANGED <<mesh, up, rung, beaconvars, target, readFree, linked, settled, recheck, deferrals, foreign, freed>>

\* The first free reading is only noted; the second claims, unless the slot was
\* taken meanwhile or the endpoint cannot be built (claim_after_probe).
ApplyReading(m) ==
  IF probe[m] = "free" /\ ~readFree[m]
  THEN /\ readFree' = [readFree EXCEPT ![m] = TRUE]
       /\ UNCHANGED <<beaconvars, recheck, deferrals, faults>>
  ELSE /\ readFree' = [readFree EXCEPT ![m] = FALSE]
       /\ IF probe[m] = "free" /\ ~Held(m)
          THEN \/ ClaimPublic(m) /\ ScheduleRecheck(m) /\ UNCHANGED faults
               \/ Fault /\ Release(m) /\ UNCHANGED <<walk, recheck, deferrals>>
          ELSE UNCHANGED <<beaconvars, recheck, deferrals, faults>>

\* The verdict arm of the loop; taking the verdict clears the slot.
Verdict(m) ==
  /\ Idle(m) /\ probe[m] \in {"free", "held"}
  /\ probe' = [probe EXCEPT ![m] = "none"]
  /\ target' = [target EXCEPT ![m] = NoRelay]
  /\ ApplyReading(m)
  /\ UNCHANGED <<mesh, up, rung, linked, settled, foreign, freed>>

-----------------------------------------------------------------------------
(* The other arms of the loop *)

Startup(m) ==
  /\ m \in mesh.members /\ up[m] = "off"
  /\ up' = [up EXCEPT ![m] = "up"]
  /\ IF ClaimsAtStartup(m) THEN Ensure(m)
     ELSE UNCHANGED <<beaconvars, probe, target, recheck, deferrals>>
  /\ UNCHANGED <<mesh, rung, readFree, linked, settled, foreign, faults, freed>>

\* maybe_cohost, the end of every heal tick.
Cohost(m) ==
  IF MayCohost(m) THEN Ensure(m)
  ELSE UNCHANGED <<beaconvars, probe, target, recheck, deferrals>>

\* note_degraded, then maybe_cohost: a joiner still in its grace period loses
\* the right to co-host, everybody else keeps it.
CohostDegraded(m) ==
  \/ settled' = settled /\ Cohost(m)
  \/ /\ mesh.policy[m] = "Deferred" /\ settled' = [settled EXCEPT ![m] = FALSE]
     /\ UNCHANGED <<beaconvars, probe, target, recheck, deferrals>>

HealTick(m) ==
  /\ Idle(m) /\ Cohost(m)
  /\ UNCHANGED <<mesh, up, rung, readFree, linked, settled, foreign, faults, freed>>

\* The process was frozen: the link view and the last reading are void.
HardHealTick(m) ==
  /\ Idle(m) /\ Fault
  /\ readFree' = [readFree EXCEPT ![m] = FALSE]
  /\ linked' = [linked EXCEPT ![m] = FALSE]
  /\ CohostDegraded(m)
  /\ UNCHANGED <<mesh, up, rung, foreign, freed>>

\* The gossip stream ended and is restored, which voids the link view.
ResubscribeTick(m) ==
  /\ Idle(m) /\ Fault
  /\ linked' = [linked EXCEPT ![m] = FALSE]
  /\ CohostDegraded(m)
  /\ UNCHANGED <<mesh, up, rung, readFree, foreign, freed>>

\* The starvation watchdog trips at the end of run_heal.
StarvedTick(m) ==
  /\ Idle(m) /\ Fault /\ CohostDegraded(m)
  /\ UNCHANGED <<mesh, up, rung, readFree, linked, foreign, freed>>

\* maybe_reclaim; the re-graft it may request shows up as NeighborUp.
ReclaimTick(m) ==
  /\ Idle(m) /\ mesh.policy[m] # "Never" /\ Ensure(m)
  /\ UNCHANGED <<mesh, up, rung, readFree, linked, settled, foreign, faults, freed>>

\* shed_rival_beacon_if_due, once the re-check is due.
RecheckDue(m) == Idle(m) /\ slot[m] # Unbound /\ RivalRecheckApplies(m) /\ recheck[m]

ShedBeacon(m) ==
  /\ RecheckDue(m)
  /\ Release(m)
  /\ recheck' = [recheck EXCEPT ![m] = FALSE]
  /\ deferrals' = [deferrals EXCEPT ![m] = 0]
  /\ linked' = [linked EXCEPT ![m] = FALSE]
  /\ readFree' = [readFree EXCEPT ![m] = FALSE]
  /\ UNCHANGED <<mesh, up, rung, walk, probe, target, settled, foreign, faults, freed>>

\* A peer hangs off the beacon's data channel: wait.  The rest of the tick is a
\* ReclaimTick, which leaves a held beacon alone.
DeferShed(m) ==
  /\ RecheckDue(m) /\ deferrals[m] < MaxShedDeferrals
  /\ deferrals' = [deferrals EXCEPT ![m] = @ + 1]
  /\ UNCHANGED <<mesh, up, rung, beaconvars, probe, target, readFree, linked, settled, recheck, foreign, faults, freed>>

\* apply_rung_change: the probe of the old rung, if any, runs on.
RungChange(m) ==
  /\ Idle(m) /\ mesh.public /\ Fault
  /\ \E r \in Places \cup {NoRelay} : r # rung[m] /\ rung' = [rung EXCEPT ![m] = r]
  /\ Release(m)
  /\ readFree' = [readFree EXCEPT ![m] = FALSE]
  /\ UNCHANGED <<mesh, up, walk, probe, target, linked, settled, recheck, deferrals, foreign, freed>>

\* A rendezvous link comes up: a public dial names the relay rung, and a holder
\* knows its own endpoint.  In a private mesh the link decides nothing here.
NeighborUp(m) ==
  /\ Idle(m) /\ mesh.public /\ ~linked[m]
  /\ Held(m) \/ Answered(rung[m])
  /\ linked' = [linked EXCEPT ![m] = TRUE]
  /\ readFree' = [readFree EXCEPT ![m] = FALSE]
  /\ UNCHANGED <<mesh, up, rung, beaconvars, probe, target, settled, recheck, deferrals, foreign, faults, freed>>

\* It goes down, with its holder or on its own.
NeighborDown(m) ==
  /\ Idle(m) /\ linked[m]
  /\ linked' = [linked EXCEPT ![m] = FALSE]
  /\ readFree' = [readFree EXCEPT ![m] = FALSE]
  /\ UNCHANGED <<mesh, up, rung, beaconvars, probe, target, settled, recheck, deferrals, foreign, faults, freed>>

\* A first real peer links, or the grace period of an empty mesh ends.
Settle(m) ==
  /\ up[m] = "up" /\ mesh.policy[m] = "Deferred" /\ ~settled[m]
  /\ settled' = [settled EXCEPT ![m] = TRUE]
  /\ UNCHANGED <<mesh, up, rung, beaconvars, probe, target, readFree, linked, recheck, deferrals, foreign, faults, freed>>

-----------------------------------------------------------------------------
(* Endings *)

\* The co-host task ends (its topic closed); the endpoint stays open.
CoHostEnds(m) ==
  /\ serving[m] /\ Fault
  /\ serving' = [serving EXCEPT ![m] = FALSE]
  /\ UNCHANGED <<mesh, up, rung, slot, closing, walk, loopvars, foreign, freed>>

EndpointCloses(m) ==
  /\ \E p \in closing[m] : closing' = [closing EXCEPT ![m] = @ \ {p}]
  /\ freed' = TRUE
  /\ UNCHANGED <<mesh, up, rung, slot, serving, walk, loopvars, foreign, faults>>

\* What a member that is gone forgets.
Forget(m) ==
  /\ up' = [up EXCEPT ![m] = "gone"]
  /\ probe' = [probe EXCEPT ![m] = "none"]
  /\ target' = [target EXCEPT ![m] = NoRelay]
  /\ readFree' = [readFree EXCEPT ![m] = FALSE]
  /\ linked' = [linked EXCEPT ![m] = FALSE]
  /\ settled' = [settled EXCEPT ![m] = FALSE]
  /\ recheck' = [recheck EXCEPT ![m] = FALSE]
  /\ deferrals' = [deferrals EXCEPT ![m] = 0]

\* The loop breaks and release_rendezvous closes what it held.
Leave(m) ==
  /\ Idle(m) /\ Fault /\ Forget(m)
  /\ Release(m)
  /\ UNCHANGED <<mesh, rung, walk, foreign, freed>>

\* The process dies and the system closes its sockets.
Crash(m) ==
  /\ up[m] = "up" /\ Fault /\ Forget(m)
  /\ slot' = [slot EXCEPT ![m] = Unbound]
  /\ serving' = [serving EXCEPT ![m] = FALSE]
  /\ closing' = [closing EXCEPT ![m] = {}]
  /\ walk' = [walk EXCEPT ![m] = NoWalk]
  /\ freed' = TRUE
  /\ UNCHANGED <<mesh, rung, foreign>>

\* Another mesh of this host takes or gives up a port of the ladder.
ForeignMoves ==
  /\ ~mesh.public /\ Fault
  /\ \/ \E p \in Places : ~PortTaken(p) /\ Cardinality(foreign) < NPlaces - 1
                          /\ foreign' = foreign \cup {p} /\ UNCHANGED freed
     \/ \E p \in foreign : foreign' = foreign \ {p} /\ freed' = TRUE
  /\ UNCHANGED <<mesh, up, rung, beaconvars, loopvars>>

-----------------------------------------------------------------------------
Init ==
  /\ mesh \in Meshes
  /\ up = [m \in Processes |-> "off"]
  /\ rung = [m \in Processes |-> 1]
  /\ slot = [m \in Processes |-> Unbound]
  /\ serving = [m \in Processes |-> FALSE]
  /\ closing = [m \in Processes |-> {}]
  /\ walk = [m \in Processes |-> NoWalk]
  /\ probe = [m \in Processes |-> "none"]
  /\ target = [m \in Processes |-> NoRelay]
  /\ readFree = [m \in Processes |-> FALSE]
  /\ linked = [m \in Processes |-> FALSE]
  /\ settled = [m \in Processes |-> FALSE]
  /\ recheck = [m \in Processes |-> FALSE]
  /\ deferrals = [m \in Processes |-> 0]
  /\ foreign \in {f \in SUBSET Places : Cardinality(f) < NPlaces /\ (mesh.public => f = {})}
  /\ faults = mesh.faults
  /\ freed = FALSE

Walk(m) == TryBind(m) \/ Serve(m) \/ AskPort(m) \/ AbandonWalk(m)
Probe(m) == ProbeFindsRival(m) \/ ProbeTimesOut(m) \/ Verdict(m)
Tick(m) == \/ HealTick(m) \/ HardHealTick(m) \/ ResubscribeTick(m) \/ StarvedTick(m)
           \/ ReclaimTick(m) \/ ShedBeacon(m) \/ DeferShed(m)
Links(m) == NeighborUp(m) \/ NeighborDown(m) \/ Settle(m) \/ RungChange(m)
Ends(m) == CoHostEnds(m) \/ EndpointCloses(m) \/ Leave(m) \/ Crash(m)

Next ==
  \/ \E m \in Processes : Startup(m) \/ Walk(m) \/ Probe(m) \/ Tick(m) \/ Links(m) \/ Ends(m)
  \/ ForeignMoves

Spec == Init /\ [][Next]_vars

\* The loop keeps ticking, a dial and a close are bounded by timeouts, a
\* re-check falls due and can be deferred only so often, and time passes.
FairSpec ==
  /\ Spec
  /\ \A m \in Processes :
       /\ WF_vars(HealTick(m))
       /\ WF_vars(TryBind(m) \/ Serve(m) \/ AskPort(m))
       /\ WF_vars(ProbeFindsRival(m) \/ ProbeTimesOut(m))
       /\ WF_vars(Verdict(m))
       /\ WF_vars(ShedBeacon(m))
       /\ WF_vars(EndpointCloses(m))
       /\ WF_vars(Settle(m))

-----------------------------------------------------------------------------
(* Properties *)

\* Until somebody lets go of a port, a private mesh has at most one beacon:
\* members that start at once, bind at once and ask each other's ports settle
\* on one (build_rendezvous_endpoint).
FirstElectionIsUnique == ~mesh.public /\ ~freed => Cardinality(Holders) <= 1

\* As long as one member that may co-host stays up and has a rung to dial, the
\* rendezvous is served again and again: no order of deaths, sheds, readings
\* and walks leaves a mesh that nobody can join.
BeaconReturns ==
  (\E m \in Processes : <>[](/\ up[m] = "up" /\ mesh.policy[m] # "Never"
                             /\ mesh.public => rung[m] # NoRelay))
    => []<>(Holders # {})

\* In a public mesh whose origin stays and whose members agree on the rung, the
\* copies claimed during an outage of the origin are shed for good.
OriginIsAlone ==
  \A o \in Processes :
    <>[](/\ mesh.public /\ mesh.policy[o] = "Eager" /\ up[o] = "up" /\ rung[o] # NoRelay
         /\ \A m \in Processes : up[m] = "up" => rung[m] = rung[o])
      => <>[](Holders = {o})
=============================================================================
