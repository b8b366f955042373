---------------------------- MODULE SessionTable ----------------------------
(***************************************************************************)
(* What a table of data-channel sessions promises, whatever negotiates     *)
(* them: the module documentation of registry.rs in                        *)
(* fofoca-iroh-webrtc-transport.                                           *)
(*                                                                         *)
(* An end is <<node, remote>>: the node's half of a session with remote.   *)
(* `running` holds the halves something still drives (a driver task, a     *)
(* browser's peer connection), `entry` the one an end's table names.       *)
(***************************************************************************)
CONSTANTS Ends, Sessions, None

VARIABLES entry,  \* end -> the session in its slot, or None
          running \* <<end, session>> halves being driven

table == <<entry, running>>

TableInit ==
  /\ entry = [e \in Ends |-> None]
  /\ running = {}

\* A session enters a free slot, driven from the start.
Open(e, s) ==
  /\ entry[e] = None
  /\ <<e, s>> \notin running
  /\ entry' = [entry EXCEPT ![e] = s]
  /\ running' = running \cup {<<e, s>>}

\* A half ends, by itself or given up: it takes its own entry with it, and
\* never its successor's.
End(e, s) ==
  /\ <<e, s>> \in running
  /\ running' = running \ {<<e, s>>}
  /\ entry' = IF entry[e] = s THEN [entry EXCEPT ![e] = None] ELSE entry

\* The owner of the table lets the entry go; its half ends later.
Detach(e) ==
  /\ entry[e] # None
  /\ entry' = [entry EXCEPT ![e] = None]
  /\ UNCHANGED running

\* A node's transport is gone, table, halves and all.
Reset(n) ==
  /\ entry' = [e \in Ends |-> IF e[1] = n THEN None ELSE entry[e]]
  /\ running' = {h \in running : h[1][1] # n}

TableNext ==
  \/ \E e \in Ends, s \in Sessions : Open(e, s) \/ End(e, s)
  \/ \E e \in Ends : Detach(e)
  \/ \E e \in Ends : Reset(e[1])

TableSpec == TableInit /\ [][TableNext]_table

-----------------------------------------------------------------------------
\* No phantom slot: what the table names is being driven.
NoPhantom == \A e \in Ends : entry[e] # None => <<e, entry[e]>> \in running
=============================================================================
