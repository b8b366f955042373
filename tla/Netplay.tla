------------------------------ MODULE Netplay ------------------------------
(***************************************************************************)
(* A rollback match (fofoca-netplay): every player runs a P2PSession that  *)
(* owns the rollback engine (Sync, an InputQueue per player, SavedStates)  *)
(* and one PeerProtocol per remote player, over a transport that loses,    *)
(* duplicates and reorders packets.                                        *)
(*                                                                         *)
(* The game is any deterministic function of the inputs it was advanced    *)
(* with, so its state is that history, and its checksum the state itself.  *)
(* The frame loop is the one of the crate: poll, then advance when the     *)
(* session allows it, fulfil the requests, publish the checksum.  Pacing   *)
(* (TimeSync, quality reports) only decides when an advance is declined,   *)
(* and here it may be at any time; so may a tick of the resend cadence.    *)
(* Frames stay below QUEUE_LEN, so an input queue is the sequence of its   *)
(* inputs and a frame f is at position f + 1.                              *)
(***************************************************************************)
EXTENDS Integers, Sequences, FiniteSets

CONSTANTS Players,
          Inputs,        \* player -> the inputs it may play, numbers
          MaxPrediction,
          InputDelay,    \* player -> the delay of its own inputs
          SyncRoundtrips,\* SYNC_ROUNDTRIPS
          Leftovers,     \* packets of an earlier match still in flight
          Lengths        \* bound: the lengths a match may have

Default == 0             \* T::Input::default()
NullFrame == -1

ASSUME NetplayAssumption ==
  /\ MaxPrediction \in Nat \ {0} /\ InputDelay \in [Players -> Nat]
  /\ SyncRoundtrips \in Nat \ {0} /\ Lengths \subseteq [Players -> Nat]
  /\ \A p \in Players : Inputs[p] # {} /\ Inputs[p] \subseteq Int
  /\ \A m \in Leftovers : /\ m.from \in Players /\ m.to \in Players \ {m.from}
                           /\ m.magic # "now"

VARIABLES engine,   \* player -> its Sync
          peers,    \* player -> remote player -> its PeerProtocol
          running,  \* player -> SessionState is Running
          confirmed,\* player -> last_confirmed_frame
          sums,     \* player -> checksums it recorded and sent; a packet that
                    \* carries one only compares, which NoFalseDesync does
          net,      \* packets sent; delivered any number of times or never
          length    \* bound: player -> the frames it plays, fixed throughout

vars == <<engine, peers, running, confirmed, sums, net, length>>

Others(p) == Players \ {p}

-----------------------------------------------------------------------------
(* InputQueue *)

EmptyQueue == [inputs |-> <<>>, predicting |-> NullFrame, guess |-> Default,
               first_bad |-> NullFrame, last_requested |-> NullFrame]

LastAdded(q) == Len(q.inputs) - 1

Latest(q) == IF q.inputs = <<>> THEN Default ELSE q.inputs[Len(q.inputs)]

\* Fault: a prediction that covered several frames ends with its first input.
FileEndingGuess(q, input) ==
  [q EXCEPT !.inputs = Append(@, input),
            !.first_bad = IF q.predicting # NullFrame /\ @ = NullFrame /\ q.guess # input
                            THEN Len(q.inputs) ELSE @,
            !.predicting = NullFrame]

\* add_delayed_input: append, and settle the prediction on that frame.
File(q, input) ==
  LET wrong == q.predicting # NullFrame /\ q.first_bad = NullFrame /\ q.guess # input
      bad   == IF wrong THEN Len(q.inputs) ELSE q.first_bad
  IN  [q EXCEPT !.inputs = Append(@, input),
                !.first_bad = bad,
                !.predicting = IF @ = NullFrame \/ (@ = q.last_requested /\ bad = NullFrame)
                                 THEN NullFrame ELSE @ + 1]

\* advance_queue_head: the same input for each frame of a gap.
Fill(q, input, gap) ==
  LET Filled[k \in 0..gap] == IF k = 0 THEN q ELSE File(Filled[k - 1], input)
  IN  Filled[gap]

\* add_input: nothing for a frame already filled, else the gap the delay opens
\* is filled with the latest input first.
AddInput(q, frame, delay, input) ==
  LET gap == frame + delay - Len(q.inputs)
  IN  IF gap < 0 THEN q ELSE File(Fill(q, Latest(q), gap), input)

\* reset_prediction
Reset(q) == [q EXCEPT !.predicting = NullFrame, !.first_bad = NullFrame,
                      !.last_requested = NullFrame]

\* input: the real input, or the guess; a new guess stands on the frame the
\* next real input will fill.
Answer(q, frame) ==
  IF q.predicting # NullFrame THEN q.guess
  ELSE IF frame <= LastAdded(q) THEN q.inputs[frame + 1] ELSE Latest(q)

Asked(q, frame) ==
  IF q.predicting = NullFrame /\ frame > LastAdded(q)
    THEN [q EXCEPT !.last_requested = frame, !.predicting = LastAdded(q) + 1,
                   !.guess = Latest(q)]
    ELSE [q EXCEPT !.last_requested = frame]

-----------------------------------------------------------------------------
(* SavedStates and Sync *)

CellCount == MaxPrediction + 2

Slots == 0..(CellCount - 1)

NewEngine == [cur |-> 0, state |-> <<>>, head |-> 0,
              cells |-> [i \in Slots |-> [frame |-> NullFrame, state |-> <<>>]],
              queues |-> [q \in Players |-> EmptyQueue]]

HoldsFrame(e, f) == {i \in Slots : e.cells[i].frame = f}

\* save_current_state: the cell already holding the frame, else the next one.
Save(e) ==
  LET cell == [frame |-> e.cur, state |-> e.state]
  IN  IF HoldsFrame(e, e.cur) # {}
        THEN [e EXCEPT !.cells[CHOOSE i \in HoldsFrame(e, e.cur) : TRUE] = cell]
        ELSE [e EXCEPT !.cells[e.head] = cell, !.head = (@ + 1) % CellCount]

\* One frame: snapshot, gather an input per player, advance the game.
Simulate(e) ==
  [Save(e) EXCEPT
     !.state = Append(@, [q \in Players |-> Answer(e.queues[q], e.cur)]),
     !.queues = [q \in Players |-> Asked(e.queues[q], e.cur)],
     !.cur = @ + 1]

Simulated(e, n) ==
  LET After[k \in 0..n] == IF k = 0 THEN e ELSE Simulate(After[k - 1])
  IN  After[n]

BadFrames(e) == {e.queues[q].first_bad : q \in Players} \ {NullFrame}

FirstBad(e) == CHOOSE f \in BadFrames(e) : \A g \in BadFrames(e) : f <= g

\* adjust_simulation's load: back to the first wrong frame.
Loaded(e) ==
  LET i == CHOOSE i \in HoldsFrame(e, FirstBad(e)) : TRUE
  IN  [e EXCEPT !.state = e.cells[i].state, !.cur = FirstBad(e),
                !.queues = [q \in Players |-> Reset(e.queues[q])]]

\* check_simulation and the frame itself.  A target outside the saved window
\* leaves the engine as it was.
Advanced(e) ==
  IF BadFrames(e) # {} /\ HoldsFrame(e, FirstBad(e)) # {}
    THEN Simulated(Loaded(e), e.cur - FirstBad(e) + 1)
    ELSE Simulate(e)

FramesAhead(p) ==
  IF confirmed[p] = NullFrame THEN engine[p].cur
  ELSE IF engine[p].cur > confirmed[p] THEN engine[p].cur - confirmed[p] ELSE 0

-----------------------------------------------------------------------------
(* PeerProtocol: what p knows of q.  The nonce of the current match is        *)
(* "now"; a token is fresh in every round trip.                               *)

NewPeer == [state |-> "syncing", latched |-> FALSE, left |-> SyncRoundtrips,
            acked |-> NullFrame]

Packet(from, to, body) == [from |-> from, to |-> to, magic |-> "now", body |-> body]

SyncRequest(p, q) == Packet(p, q, [kind |-> "request", token |-> peers[p][q].left])
SyncReply(p, q, token) == Packet(p, q, [kind |-> "reply", token |-> token])
InputAck(p, q, frame) == Packet(p, q, [kind |-> "ack", frame |-> frame])

LastReceived(p, q) == LastAdded(engine[p].queues[q])

\* The inputs of ours the peer has not acked; fillers are never sent.
Pending(p, mine, acked) == {f \in InputDelay[p]..LastAdded(mine) : f > acked}

\* input_message: every unacked input.  Its ack_frame repeats the InputAck sent
\* when that frame came in, which may still arrive at any time.
InputPackets(p, q, mine, acked) ==
  LET todo == Pending(p, mine, acked)
      start == CHOOSE f \in todo : \A g \in todo : f <= g
  IN  IF todo = {} THEN {}
      ELSE {Packet(p, q, [kind |-> "input", start |-> start,
                          inputs |-> SubSeq(mine.inputs, start + 1, Len(mine.inputs))])}

\* Fault: the nonce is not looked at.
AdmitsAny(p, q, m) == TRUE

\* admit: the peer's nonce is latched on a reply to our own request; until
\* then only requests are answered, from the same action below.
Admits(p, q, m) ==
  \/ peers[p][q].latched /\ m.magic = "now"
  \/ /\ ~peers[p][q].latched
     /\ peers[p][q].state = "syncing"
     /\ m.body.kind = "reply" /\ m.body.token = peers[p][q].left

\* Fault: once running, a session no longer answers the handshake of the other.
AnswersWhileSyncing(p, q, m) ==
  m.body.kind = "request" /\ peers[p][q].state = "syncing" /\ (peers[p][q].latched => m.magic = "now")

\* A request is answered by a latched session, and by one still syncing.
Answers(p, q, m) ==
  /\ m.body.kind = "request"
  /\ \/ Admits(p, q, m)
     \/ ~peers[p][q].latched /\ peers[p][q].state = "syncing"

-----------------------------------------------------------------------------
(* on_message, by kind *)

Max2(a, b) == IF a > b THEN a ELSE b

\* The handshake advances on a reply to the outstanding request only.
PeerAfter(p, q, m) ==
  LET peer == peers[p][q] IN
  CASE m.body.kind = "reply" /\ peer.state = "syncing" /\ m.body.token = peer.left ->
         [peer EXCEPT !.latched = TRUE, !.left = @ - 1,
                      !.state = IF peer.left = 1 THEN "running" ELSE @]
    [] m.body.kind = "ack"   -> [peer EXCEPT !.acked = Max2(@, m.body.frame)]
    [] OTHER -> peer

\* The inputs of a packet not filed yet; none if they would leave a hole, from
\* which the first packet of a delayed sender is exempt.
NewInputs(p, q, body) ==
  IF LastReceived(p, q) # NullFrame /\ body.start > LastReceived(p, q) + 1 THEN <<>>
  ELSE SubSeq(body.inputs, Max2(LastReceived(p, q) + 1 - body.start, 0) + 1, Len(body.inputs))

\* add_remote_input of each, in frame order.
Feed(q, from, new) ==
  LET Fed[k \in 0..Len(new)] ==
        IF k = 0 THEN q ELSE AddInput(Fed[k - 1], from + k - 1, 0, new[k])
  IN  Fed[Len(new)]

QueueAfter(p, q, body) ==
  LET new == NewInputs(p, q, body)
  IN  Feed(engine[p].queues[q], body.start + Len(body.inputs) - Len(new), new)

\* What p answers at once.
Replies(p, q, m, eng) ==
  IF Answers(p, q, m) THEN {SyncReply(p, q, m.body.token)}
  ELSE IF Admits(p, q, m) /\ m.body.kind = "input"
            /\ (LastReceived(p, q) = NullFrame \/ m.body.start <= LastReceived(p, q) + 1)
    THEN {InputAck(p, q, LastAdded(eng.queues[q]))} ELSE {}

-----------------------------------------------------------------------------
(* The rest of poll_remote_peers: the tick of every peer, then the session.   *)

\* tick: the handshake request or the unacked inputs.
Ticked(p, eng, prs) ==
  UNION {IF prs[q].state = "syncing"
           THEN {Packet(p, q, [kind |-> "request", token |-> prs[q].left])}
         ELSE IF prs[q].state = "running"
           THEN InputPackets(p, q, eng.queues[p], prs[q].acked)
         ELSE {} : q \in Others(p)}

\* refresh_confirmed_frame: over the peers still there; never NullFrame.
ConfirmedAfter(p, eng, prs) ==
  LET live == {q \in Others(p) : prs[q].state # "gone"}
      known == {LastAdded(eng.queues[q]) : q \in live}
      least == CHOOSE f \in known : \A g \in known : f <= g
  IN  Max2(confirmed[p], IF live = {} THEN eng.cur ELSE least)

Refresh(p, eng, prs) ==
  /\ engine' = [engine EXCEPT ![p] = eng]
  /\ peers' = [peers EXCEPT ![p] = prs]
  /\ running' = [running EXCEPT ![p] = @ \/ \A q \in Others(p) : prs[q].state = "running"]
  /\ confirmed' = [confirmed EXCEPT ![p] = ConfirmedAfter(p, eng, prs)]

Init ==
  /\ engine = [p \in Players |-> NewEngine]
  /\ peers = [p \in Players |-> [q \in Others(p) |-> NewPeer]]
  /\ running = [p \in Players |-> FALSE]
  /\ confirmed = [p \in Players |-> NullFrame]
  /\ sums = [p \in Players |-> {}]
  /\ net = Leftovers
  /\ length \in Lengths

\* A poll that drains one packet.
Poll(p, m) ==
  LET q == m.from
      admitted == Admits(p, q, m)
      prs == IF admitted THEN [peers[p] EXCEPT ![q] = PeerAfter(p, q, m)] ELSE peers[p]
      queue == IF admitted /\ m.body.kind = "input" THEN QueueAfter(p, q, m.body)
               ELSE engine[p].queues[q]
  IN  /\ m.to = p
      /\ \E eng \in {[engine[p] EXCEPT !.queues[q] = queue]} :
           /\ Refresh(p, eng, prs)
           /\ net' = net \cup Replies(p, q, m, eng) \cup Ticked(p, eng, prs)
      /\ UNCHANGED <<sums, length>>

\* A poll that finds nothing.
PollNothing(p) ==
  /\ Refresh(p, engine[p], peers[p])
  /\ net' = net \cup Ticked(p, engine[p], peers[p])
  /\ UNCHANGED <<sums, length>>

\* A poll that finds nothing for DISCONNECT_TIMEOUT_TICKS from q.
Disconnect(p, q) ==
  LET prs == [peers[p] EXCEPT ![q].state = "gone"]
  IN  /\ peers[p][q].state # "gone"
      /\ Refresh(p, engine[p], prs)
      /\ net' = net \cup Ticked(p, engine[p], prs)
      /\ UNCHANGED <<sums, length>>

\* Fault: the newest saved frame is published instead of the last confirmed one.
SummedNewest(p) == engine[p].cur

\* The frame whose checksum is published.
Summed(p) == confirmed[p]

\* Fault: a player guesses on however far confirmation is behind.
GuessesOn(p) == running[p] /\ engine[p].cur < length[p]

\* advance_frame returns PredictionLimit otherwise.
CanAdvance(p) ==
  running[p] /\ FramesAhead(p) < MaxPrediction /\ engine[p].cur < length[p]

\* advance_frame with the player's input, the requests fulfilled, and then
\* publish_checksum of the last confirmed frame, once per frame.
Advance(p, input) ==
  LET own == AddInput(engine[p].queues[p], engine[p].cur, InputDelay[p], input)
      e == Advanced([engine[p] EXCEPT !.queues[p] = own])
      f == Summed(p)
      saved == {[frame |-> f, state |-> e.cells[i].state] : i \in HoldsFrame(e, f) \ HoldsFrame(e, NullFrame)}
      new == IF \E s \in sums[p] : s.frame = f THEN {} ELSE saved
  IN  /\ CanAdvance(p)
      /\ engine' = [engine EXCEPT ![p] = e]
      /\ sums' = [sums EXCEPT ![p] = @ \cup new]
      /\ UNCHANGED <<peers, running, confirmed, net, length>>

Next ==
  \E p \in Players :
    \/ \E m \in net : Poll(p, m)
    \/ PollNothing(p)
    \/ \E q \in Others(p) : Disconnect(p, q)
    \/ \E input \in Inputs[p] : Advance(p, input)

Spec == Init /\ [][Next]_vars

\* The packets that are resent until answered, as their sender would send them
\* now: the request and the reply of the current round trip, and the inputs.
Fresh(p, q) ==
  net \cap ({SyncReply(q, p, peers[p][q].left)} \cup
            (IF peers[q][p].state = "syncing" THEN {SyncRequest(q, p)}
             ELSE InputPackets(q, p, engine[q].queues[q], peers[q][p].acked)))

\* The players keep polling and playing, and of a packet that is resent a copy
\* eventually gets through.  Weak fairness of Advance is written out: it is
\* enabled while CanAdvance, and nothing else moves the frame on.
Fairness ==
  \A p \in Players :
    /\ WF_vars(PollNothing(p))
    /\ []<>~CanAdvance(p) \/ []<><<engine'[p].cur > engine[p].cur>>_vars
    /\ \A q \in Others(p) : WF_vars(\E m \in Fresh(p, q) : Poll(p, m))

FairSpec == Spec /\ Fairness

-----------------------------------------------------------------------------
(* Properties *)

Live(p) == \A q \in Others(p) : peers[p][q].state # "gone"

AllLive == \A p \in Players : Live(p)

\* Rollback works: once no misprediction is outstanding, every frame whose
\* real input is known was simulated with it, so two players agree on every
\* frame both have the inputs of (Sync::check_simulation).
SimulatedWithTheTruth ==
  \A p, q \in Players :
    BadFrames(engine[p]) = {} =>
      \A f \in 0..(engine[p].cur - 1) :
        f <= LastReceived(p, q) =>
          engine[p].state[f + 1][q] = engine[q].queues[q].inputs[f + 1]

\* The state to roll back to is still saved, for a player whose peers are all
\* there: a prediction stands on the frame the next real input will fill, so it
\* is judged on that frame (the assertion of add_delayed_input), and the
\* prediction limit and the ring of cells fit together.
RollbackTargetSaved ==
  \A p \in Players :
    /\ \A q \in Players : LET queue == engine[p].queues[q] IN
         queue.predicting # NullFrame => queue.predicting = Len(queue.inputs)
    /\ Live(p) /\ BadFrames(engine[p]) # {} => HoldsFrame(engine[p], FirstBad(engine[p])) # {}

\* A player forgets an input only when the peer has it, whatever acks of this
\* or an earlier match are in flight (last_acked_frame).
AckedInputsArrived ==
  \A p \in Players : \A q \in Others(p) : peers[p][q].acked <= LastReceived(q, p)

\* Honest players are never told they diverged: a checksum is published only
\* for a state no late input can change, so whichever of two is compared with
\* the other on arrival, they agree (publish_checksum, the Checksum arm of
\* on_message).
NoFalseDesync ==
  AllLive => \A p, q \in Players : \A s \in sums[p], t \in sums[q] :
                s.frame = t.frame => s.state = t.state

\* As long as nobody is given up on, every player gets as far as the one that
\* plays the fewest frames, although packets are lost and reordered.
MatchCompletes ==
  []AllLive => <>(\A p \in Players : \E q \in Players : engine[p].cur >= length[q])
=============================================================================
