----------------------------- MODULE LinkState ------------------------------
(***************************************************************************)
(* Link-state routing of the multihop transport, as one member sees it:    *)
(* every member broadcasts its own links with a sequence number            *)
(* (linkstate_arm), the vectors arrive late, again and in any order        *)
(* (handle_link_state), and the member resolves a destination to a source  *)
(* route over the freshest ones (topology.rs, graph.rs, lookup.rs).        *)
(*                                                                         *)
(* Every link costs the same (MULTIHOP_LINK_COST), so a shortest path is   *)
(* one of fewest hops; which one of several is left open.  A member that   *)
(* leaves takes its links with it; nothing drops its last vector, since    *)
(* remove_origin has no caller.                                            *)
(***************************************************************************)
EXTENDS Naturals, Sequences, FiniteSets

CONSTANTS Nodes,
          Self,     \* the member whose routing table this is
          Dst,      \* the member it wants to reach
          Edges,    \* the links that exist at first: sets of two members
          Flaky,    \* bound: the links that go down and come back
          Leavers,  \* bound: the members that may leave
          MaxSeq,   \* bound: vectors each member broadcasts
          MaxRouteHops,
          None

ASSUME LinkStateAssumption ==
  /\ {Self, Dst} \subseteq Nodes /\ Leavers \subseteq Nodes \ {Self, Dst}
  /\ Edges \cup Flaky \subseteq {{n, m} : n, m \in Nodes}
  /\ MaxSeq \in Nat /\ MaxRouteHops \in Nat

\* LinkVector
Vector == [origin : Nodes, seq : Nat, links : SUBSET Nodes]

ASSUME NoVectorAssumption == None \notin Vector \cup [links : SUBSET Nodes]

VARIABLES up,    \* the links there are: linked_endpoints of both ends
          gone,  \* the members that left
          seq,   \* link_state_seq of each member
          sent,  \* the vectors broadcast so far
          heard, \* those of them that reached Self
          view   \* Topology::vectors of Self: origin -> vector, or None

linkVars == <<up, gone, seq, sent, heard, view>>

Neighbors(n) == {m \in Nodes : {n, m} \in up /\ m # n}

-----------------------------------------------------------------------------
(* topology.rs *)

\* Fault: the last vector to arrive is the one in force.
IngestAny(table, v) == [table EXCEPT ![v.origin] = v]

\* ingest: only a newer vector of its origin replaces one.
Ingest(table, v) ==
  IF table[v.origin] # None /\ table[v.origin].seq >= v.seq THEN table
  ELSE [table EXCEPT ![v.origin] = v]

\* graph: what every held vector lists, in its direction.
Linked(table, n, m) == table[n] # None /\ m \in table[n].links

\* The paths to dst that visit no member twice, without their source.
PathsTo(table, src, dst) ==
  {p \in UNION {[1..k -> Nodes \ {src}] : k \in 1..(Cardinality(Nodes) - 1)} :
     /\ p[Len(p)] = dst
     /\ \A i, j \in DOMAIN p : i # j => p[i] # p[j]
     /\ Linked(table, src, p[1])
     /\ \A i \in 1..(Len(p) - 1) : Linked(table, p[i], p[i + 1])}

\* disjoint_paths for one path: a cheapest one, whichever the heap pops first.
Shortest(table, src, dst) ==
  LET paths == PathsTo(table, src, dst)
  IN  {p \in paths : \A q \in paths : Len(p) <= Len(q)}

\* route_to and resolve: the path, unless a hop advertised no address or it is
\* too long; no second path is tried then.
Usable(table, p) ==
  Len(p) <= MaxRouteHops /\ \A i \in DOMAIN p : table[p[i]] # None

-----------------------------------------------------------------------------
\* linkstate_arm: a fresh vector, fed to the own table and broadcast.
LinkstateTick(n) ==
  LET v == [origin |-> n, seq |-> seq[n] + 1, links |-> Neighbors(n)]
  IN  /\ n \notin gone /\ seq[n] < MaxSeq
      /\ seq' = [seq EXCEPT ![n] = @ + 1]
      /\ sent' = sent \cup {v}
      /\ view' = IF n = Self THEN Ingest(view, v) ELSE view
      /\ heard' = IF n = Self THEN heard \cup {v} ELSE heard
      /\ UNCHANGED <<up, gone>>

\* handle_link_state: any vector, in any order and more than once.
HandleLinkState(v) ==
  /\ v.origin # Self
  /\ view' = Ingest(view, v)
  /\ heard' = heard \cup {v}
  /\ UNCHANGED <<up, gone, seq, sent>>

\* A link goes down or comes back, its ends having a vector left to tell it.
LinkChanges(e) ==
  /\ e \cap gone = {}
  /\ \A n \in e : seq[n] < MaxSeq
  /\ up' = IF e \in up THEN up \ {e} ELSE up \cup {e}
  /\ UNCHANGED <<gone, seq, sent, heard, view>>

Departs(n) ==
  /\ n \notin gone
  /\ \A m \in Neighbors(n) : seq[m] < MaxSeq
  /\ gone' = gone \cup {n}
  /\ up' = {e \in up : n \notin e}
  /\ UNCHANGED <<seq, sent, heard, view>>

LinkInit ==
  /\ up = Edges /\ gone = {}
  /\ seq = [n \in Nodes |-> 0]
  /\ sent = {} /\ heard = {} /\ view = [n \in Nodes |-> None]

\* The same links, each member having told them and Self having heard it.
LinkTold ==
  LET told == [n \in Nodes |-> [origin |-> n, seq |-> MaxSeq, links |-> Neighbors(n)]]
  IN  /\ up = Edges /\ gone = {}
      /\ seq = [n \in Nodes |-> MaxSeq]
      /\ sent = {told[n] : n \in Nodes} /\ heard = sent /\ view = told

LinkNext ==
  \/ \E n \in Nodes : LinkstateTick(n)
  \/ \E v \in sent : HandleLinkState(v)
  \/ \E e \in Flaky : LinkChanges(e)
  \/ \E n \in Leavers : Departs(n)

-----------------------------------------------------------------------------
(* Properties *)

\* Every member has told its links as they are, and Self has heard it.
Quiet ==
  \A n \in Nodes \ gone :
    [origin |-> n, seq |-> seq[n], links |-> Neighbors(n)] \in heard

\* The links there are, as a table of vectors.
Actual ==
  [n \in Nodes |-> IF n \in gone THEN None ELSE [links |-> Neighbors(n)]]

\* Once the last vectors are in, the routes are those over the links there
\* are, in whatever order and however often vectors arrived, and although the
\* last vector of a member that left is held for good (ingest, route_to).
RoutesAreLive ==
  Quiet => Shortest(view, Self, Dst) = Shortest(Actual, Self, Dst)
=============================================================================
