------------------------------ MODULE Multihop ------------------------------
(***************************************************************************)
(* The forwarding half of the multihop transport on the member of          *)
(* LinkState: a packet goes to the first hop of the route its connection   *)
(* resolved (transport.rs), through one writer task per next hop and a     *)
(* byte budget all writers share (underlay.rs).                            *)
(*                                                                         *)
(* Callers of enqueue and writer tasks interleave: one action per atomic   *)
(* operation or lock of the code.  A cell is its cost in bytes.  The       *)
(* underlay dial of a hop succeeds only while the link to it is up.        *)
(***************************************************************************)
EXTENDS LinkState

CONSTANTS Callers,     \* senders and stream readers that call enqueue
          Writers,     \* bound: writer tasks that exist at once
          Cost,        \* the bytes of a cell
          MaxWriters,  \* MAX_WRITERS
          WriterQueue, \* WRITER_QUEUE
          QueueBytes   \* FORWARD_QUEUE_BYTES

ASSUME MultihopAssumption ==
  /\ Cost \in Nat \ {0} /\ MaxWriters \in Nat /\ WriterQueue \in Nat /\ QueueBytes \in Nat
  /\ IsFiniteSet(Callers) /\ Writers \subseteq Nat /\ IsFiniteSet(Writers)

Hops == Nodes \ {Self}

Call == [hop : Hops, writer : Writers \cup {None},
         step : {"lookup", "send", "spawn", "retry", "release"}]

WriterTask == [hop : Hops, queue : Nat, taken : BOOLEAN,
               phase : {"dial", "drain", "write", "stop", "close", "closed", "ended"}]

ASSUME NoneAssumption == None \notin Writers \cup Call \cup WriterTask

VARIABLES flows,   \* bound: cells flow over links at rest, or links move
          call,    \* caller -> None, or [hop, step, writer]
          entry,   \* hop -> the writer in the map, or None
          task,    \* writer -> None, or [hop, phase, queue, taken]
          queued,  \* queued_bytes
          replaced \* writers a later one took the entry of

poolVars == <<flows, call, entry, task, queued, replaced>>
vars == <<linkVars, poolVars>>

\* A writer nothing refers to.
FreeWriters ==
  {w \in Writers : task[w] = None /\ \A c \in Callers : call[c] # None => call[c].writer # w}

-----------------------------------------------------------------------------
(* enqueue *)

Step(c, step, w) == call' = [call EXCEPT ![c].step = step, ![c].writer = w]

Returns(c) == call' = [call EXCEPT ![c] = None]

\* The first hops of the routes that connections resolved (lookup.rs).
NextHops == {p[1] : p \in {q \in Shortest(view, Self, Dst) : Usable(view, q)}}

\* poll_send, or handle_cell with a next hop: the cell is charged first.
Charge(c, hop) ==
  /\ flows /\ call[c] = None
  /\ queued' = queued + Cost
  /\ call' = [call EXCEPT ![c] =
       [hop |-> hop, writer |-> None,
        step |-> IF queued + Cost > QueueBytes THEN "release" ELSE "lookup"]]
  /\ UNCHANGED <<linkVars, flows, entry, task, replaced>>

\* writer_for
WriterFor(c) ==
  /\ call[c] # None /\ call[c].step = "lookup"
  /\ LET w == entry[call[c].hop]
     IN  Step(c, IF w = None THEN "spawn" ELSE "send", w)
  /\ UNCHANGED <<linkVars, flows, entry, task, queued, replaced>>

Accepts(w) == task[w].phase \notin {"closed", "ended"} /\ task[w].queue < WriterQueue

Push(w) == task' = [task EXCEPT ![w].queue = @ + 1]

\* try_send on the writer found: a full or closed queue has it replaced.
TrySend(c) ==
  /\ call[c] # None /\ call[c].step = "send"
  /\ LET w == call[c].writer
     IN  IF Accepts(w) THEN Push(w) /\ Returns(c)
         ELSE Step(c, "spawn", None) /\ UNCHANGED task
  /\ UNCHANGED <<linkVars, flows, entry, queued, replaced>>

AtCeiling(hop) ==
  entry[hop] = None /\ Cardinality({h \in Hops : entry[h] # None}) >= MaxWriters

\* spawn_writer: the entry is the new one's, whoever had it.
SpawnWriter(c) ==
  LET hop == call[c].hop
  IN  /\ call[c] # None /\ call[c].step = "spawn"
      /\ IF AtCeiling(hop)
           THEN /\ Step(c, "release", None)
                /\ UNCHANGED <<entry, task, replaced>>
           ELSE LET w == CHOOSE w \in FreeWriters : TRUE
                IN  /\ FreeWriters # {}
                    /\ entry' = [entry EXCEPT ![hop] = w]
                    /\ task' = [task EXCEPT ![w] =
                         [hop |-> hop, phase |-> "dial", queue |-> 0, taken |-> FALSE]]
                    /\ replaced' = replaced \cup ({entry[hop]} \ {None})
                    /\ Step(c, "retry", w)
      /\ UNCHANGED <<linkVars, flows, queued>>

\* The second try_send.
Retry(c) ==
  /\ call[c] # None /\ call[c].step = "retry"
  /\ LET w == call[c].writer
     IN  IF Accepts(w) THEN Push(w) /\ Returns(c)
         ELSE Step(c, "release", None) /\ UNCHANGED task
  /\ UNCHANGED <<linkVars, flows, entry, queued, replaced>>

\* release: the cell is dropped.
Release(c) ==
  /\ call[c] # None /\ call[c].step = "release"
  /\ queued' = queued - Cost
  /\ Returns(c)
  /\ UNCHANGED <<linkVars, flows, entry, task, replaced>>

-----------------------------------------------------------------------------
(* writer_task *)

Phase(w, phase) == task' = [task EXCEPT ![w].phase = phase]

\* dial_with_retry, and the stream: up, or given up.
Dial(w) ==
  /\ task[w] # None /\ task[w].phase = "dial"
  /\ \/ {Self, task[w].hop} \in up /\ Phase(w, "drain")
     \/ Phase(w, "stop")
  /\ UNCHANGED <<linkVars, flows, call, entry, queued, replaced>>

\* recv
Recv(w) ==
  /\ task[w] # None /\ task[w].phase = "drain" /\ task[w].queue > 0
  /\ task' = [task EXCEPT ![w].phase = "write", ![w].queue = @ - 1, ![w].taken = TRUE]
  /\ UNCHANGED <<linkVars, flows, call, entry, queued, replaced>>

\* Fault: a cell whose write fails keeps its charge.
WriteCellLeaks(w) ==
  /\ task[w] # None /\ task[w].phase = "write"
  /\ \E ok \in BOOLEAN :
       /\ task' = [task EXCEPT ![w].phase = IF ok THEN "drain" ELSE "stop", ![w].taken = FALSE]
       /\ queued' = IF ok THEN queued - Cost ELSE queued
  /\ UNCHANGED <<linkVars, flows, call, entry, replaced>>

\* write_cell: the bytes are released, then a failed write ends the writer.
WriteCell(w) ==
  /\ task[w] # None /\ task[w].phase = "write"
  /\ \E next \in {"drain", "stop"} :
       task' = [task EXCEPT ![w].phase = next, ![w].taken = FALSE]
  /\ queued' = queued - Cost
  /\ UNCHANGED <<linkVars, flows, call, entry, replaced>>

\* Fault: whoever has the entry loses it.
RetireAny(w) == [entry EXCEPT ![task[w].hop] = None]

\* retire: the entry goes only while it is this writer's.
Retired(w) ==
  IF entry[task[w].hop] = w THEN [entry EXCEPT ![task[w].hop] = None] ELSE entry

Retire(w) ==
  /\ task[w] # None /\ task[w].phase = "stop"
  /\ entry' = Retired(w)
  /\ Phase(w, "close")
  /\ UNCHANGED <<linkVars, flows, call, queued, replaced>>

\* rx.close: no cell enters after it.
Close(w) ==
  /\ task[w] # None /\ task[w].phase = "close"
  /\ Phase(w, "closed")
  /\ UNCHANGED <<linkVars, flows, call, entry, queued, replaced>>

\* What is still queued is released, and the task ends.
Drain(w) ==
  /\ task[w] # None /\ task[w].phase = "closed"
  /\ IF task[w].queue > 0
       THEN /\ task' = [task EXCEPT ![w].queue = @ - 1]
            /\ queued' = queued - Cost
       ELSE /\ Phase(w, "ended")
            /\ UNCHANGED queued
  /\ UNCHANGED <<linkVars, flows, call, entry, replaced>>

\* A channel nothing refers to any more.
Dropped(w) ==
  /\ task[w] # None /\ task[w].phase = "ended"
  /\ \A c \in Callers : call[c] # None => call[c].writer # w
  /\ task' = [task EXCEPT ![w] = None]
  /\ replaced' = replaced \ {w}
  /\ UNCHANGED <<linkVars, flows, call, entry, queued>>

-----------------------------------------------------------------------------
Init ==
  /\ \/ LinkInit /\ flows = FALSE
     \/ LinkTold /\ flows = TRUE
  /\ call = [c \in Callers |-> None]
  /\ entry = [h \in Hops |-> None]
  /\ task = [w \in Writers |-> None]
  /\ queued = 0 /\ replaced = {}

Enqueue(c) ==
  \/ \E hop \in NextHops : Charge(c, hop)
  \/ WriterFor(c) \/ TrySend(c) \/ SpawnWriter(c) \/ Retry(c) \/ Release(c)

Writer(w) ==
  \/ Dial(w) \/ Recv(w) \/ WriteCell(w) \/ Retire(w) \/ Close(w) \/ Drain(w) \/ Dropped(w)

Next ==
  \/ ~flows /\ LinkNext /\ UNCHANGED poolVars
  \/ \E c \in Callers : Enqueue(c)
  \/ \E w \in Writers : Writer(w)

Spec == Init /\ [][Next]_vars

-----------------------------------------------------------------------------
(* Properties *)

Held(w) ==
  IF task[w] = None THEN 0 ELSE task[w].queue + (IF task[w].taken THEN 1 ELSE 0)

\* The cells with a writer, each as the writer and its place there.
InWriters == UNION {{w} \X (1..Held(w)) : w \in Writers}

\* A caller has one cell until it returns.
InCalls == {c \in Callers : call[c] # None}

\* The budget is what is queued, in hand or being decided on, no more: no
\* order of enqueue, dial failure, write failure and replacement loses or
\* doubles a charge (enqueue, drain_to_hop, writer_task).
BytesAccounted ==
  queued = Cost * (Cardinality(InWriters) + Cardinality(InCalls))

\* A writer that runs keeps its entry until it retires itself or enqueue puts
\* a successor there: one that ends late never takes its successor's (retire).
WriterIsListed ==
  \A w \in Writers :
    task[w] # None /\ task[w].phase \in {"dial", "drain", "write", "stop"} /\ w \notin replaced
      => entry[task[w].hop] = w
=============================================================================
