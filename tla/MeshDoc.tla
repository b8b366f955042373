------------------------------ MODULE MeshDoc ------------------------------
(***************************************************************************)
(* A shared-document channel (fofoca-doc, gossip/antientropy.rs): every    *)
(* member holds an automerge document, gossips its changes in signed       *)
(* frames, buffers a change that comes before its dependencies, refuses    *)
(* one that alters another member's guarded field, and repairs what was    *)
(* lost by exchanging heads.                                               *)
(*                                                                         *)
(* A document is the set of changes applied, in order.  Of their content   *)
(* only what the gate looks at is kept: a change writes the entry of one   *)
(* member in the per-peer map, its own card or a note on another's, into   *)
(* the entry object its author saw, or into a new one when it saw none;    *)
(* of concurrent objects automerge shows the one with the greater          *)
(* operation id.  When a fast round may ask again depends on timers, and   *)
(* here it may at any digest, or not.                                      *)
(***************************************************************************)
EXTENDS Integers, Sequences, FiniteSets

CONSTANTS Members,         \* numbers: the order of their actor ids
          WritesTo(_),     \* the entries a member writes
          Linked,          \* pairs with a point-to-point path
          Plans,           \* bound: a set of functions, member -> the changes it makes
          PendingAuthorMax, PendingTotalMax, \* DOC_PENDING_AUTHOR_MAX, ..._TOTAL_MAX
          MaxResend,       \* antientropy_max_resend
          ServesPerWindow  \* ANTIENTROPY_SERVES_PER_WINDOW

ASSUME MeshDocAssumption ==
  /\ Members \subseteq Nat /\ Linked \subseteq Members \X Members
  /\ Plans \subseteq [Members -> Nat]
  /\ {PendingAuthorMax, PendingTotalMax, MaxResend, ServesPerWindow} \subseteq Nat \ {0}

VARIABLES changes, \* change <<author, seq>> -> its content, for those made
          applied, \* member -> the changes applied, in order
          pending, \* member -> orphans
          seen,    \* member -> changes whose frame is in the seen set
          frames,  \* member -> changes on their way to it
          digests, \* heads on their way
          served   \* member -> asker -> answers in the window

docvars == <<changes, applied, pending, seen, frames, digests, served>>

Others(m) == Members \ {m}
Author(c) == c[1]
SeqNo(c) == c[2]
Elements(s) == {s[i] : i \in 1..Len(s)}

DocInit ==
  /\ changes = <<>>
  /\ applied = [m \in Members |-> <<>>]
  /\ pending = [m \in Members |-> {}]
  /\ seen = [m \in Members |-> {}]
  /\ frames = [m \in Members |-> {}]
  /\ digests = {}
  /\ served = [m \in Members |-> [a \in Others(m) |-> 0]]

-----------------------------------------------------------------------------
(* The document *)

\* deps of a change, transitively
Past(C) ==
  LET Back[k \in 0..Cardinality(DOMAIN changes)] ==
        IF k = 0 THEN C ELSE Back[k - 1] \cup UNION {changes[c].deps : c \in Back[k - 1]}
  IN  Back[Cardinality(DOMAIN changes)]

\* heads: the changes of a document no other one depends on.
Heads(S) == {c \in S : \A d \in S : c \notin changes[d].deps}

\* The entry object of t that a document with the changes S shows.
EntryObjects(chs, S, t) == {chs[c].object : c \in {d \in S : chs[d].target = t}}

Shown(chs, S, t) ==
  CHOOSE o \in EntryObjects(chs, S, t) :
    \A p \in EntryObjects(chs, S, t) :
      p = o \/ chs[p].op < chs[o].op \/ (chs[p].op = chs[o].op /\ Author(p) < Author(o))

\* gated_entries: t's own writes into the entry that is shown, the last one
\* counting.
Card(chs, S, t) ==
  IF EntryObjects(chs, S, t) = {} THEN 0
  ELSE LET own == {SeqNo(c) : c \in {d \in S : Author(d) = t /\ chs[d].target = t
                                              /\ chs[d].object = Shown(chs, S, t)}}
       IN  IF own = {} THEN 0 ELSE CHOOSE n \in own : \A k \in own : k <= n

\* forges_foreign_entry
Forges(chs, S, c) ==
  \E t \in Members \ {Author(c)} : Card(chs, S, t) # Card(chs, S \cup {c}, t)

\* build_change against what the author holds.
NewChange(m, t) ==
  LET S == Elements(applied[m])
      ops == {changes[c].op : c \in S}
      id == <<m, Cardinality({c \in S : Author(c) = m}) + 1>>
  IN  [id |-> id, target |-> t, deps |-> Heads(S),
       op |-> IF ops = {} THEN 1 ELSE 1 + CHOOSE n \in ops : \A k \in ops : k <= n,
       object |-> IF EntryObjects(changes, S, t) = {} THEN id ELSE Shown(changes, S, t)]

-----------------------------------------------------------------------------
(* ingest *)

Ready(S, P) == {c \in P : changes[c].deps \subseteq S}

\* drain_pending: pass after pass, a pass in any order, every orphan through
\* the gate.
DrainStep(d) ==
  IF d.batch = {} THEN {[d EXCEPT !.batch = Ready(Elements(d.log), d.orphans)]}
  ELSE {[log |-> IF Forges(changes, Elements(d.log), c) THEN d.log ELSE Append(d.log, c),
         orphans |-> d.orphans \ {c}, batch |-> d.batch \ {c}] : c \in d.batch}

Drained(log, orphans) ==
  LET steps == 2 * Cardinality(orphans)
      Go[k \in 0..steps] ==
        IF k = 0 THEN {[log |-> log, orphans |-> orphans, batch |-> {}]}
        ELSE UNION {DrainStep(d) : d \in Go[k - 1]}
  IN  {[log |-> d.log, orphans |-> d.orphans] : d \in Go[steps]}

\* highest_of
Victim(mine) == CHOOSE v \in mine : \A w \in mine : SeqNo(w) <= SeqNo(v)

\* buffer_orphan: what is buffered after, and whose frames were dropped.
Buffered(P, c) ==
  LET mine == {d \in P : Author(d) = Author(c)}
      full == Cardinality(mine) >= PendingAuthorMax
      Q == IF full THEN P \ {Victim(mine)} ELSE P
  IN  IF c \in P THEN [orphans |-> P, dropped |-> {}]
      ELSE IF full /\ SeqNo(c) >= SeqNo(Victim(mine)) THEN [orphans |-> P, dropped |-> {c}]
      ELSE IF Cardinality(Q) >= PendingTotalMax THEN [orphans |-> Q, dropped |-> (P \ Q) \cup {c}]
      ELSE [orphans |-> Q \cup {c}, dropped |-> P \ Q]

\* Fault: a dropped orphan is still taken for seen.
SeenKeepingDropped(m, c, dropped) == seen[m] \cup {c}

\* mark_seen on arrival; the drops are forgotten (dispatch_channel).
SeenAfter(m, c, dropped) == (seen[m] \cup {c}) \ dropped

\* A frame not seen before reaches the document.
Ingest(m, c) ==
  LET S == Elements(applied[m]) IN
  \/ /\ c \in S \/ (changes[c].deps \subseteq S /\ Forges(changes, S, c))
     /\ seen' = [seen EXCEPT ![m] = @ \cup {c}]
     /\ UNCHANGED <<applied, pending>>
  \/ /\ c \notin S /\ ~(changes[c].deps \subseteq S)
     /\ LET b == Buffered(pending[m], c)
        IN  /\ pending' = [pending EXCEPT ![m] = b.orphans]
            /\ seen' = [seen EXCEPT ![m] = SeenAfter(m, c, b.dropped)]
     /\ UNCHANGED applied
  \/ /\ c \notin S /\ changes[c].deps \subseteq S /\ ~Forges(changes, S, c)
     /\ \E d \in Drained(Append(applied[m], c), pending[m]) :
          /\ applied' = [applied EXCEPT ![m] = d.log]
          /\ pending' = [pending EXCEPT ![m] = d.orphans]
     /\ seen' = [seen EXCEPT ![m] = SeenAfter(m, c, {})]

\* Our own frames and repeats stop before (ingest of gossip/recv.rs).
Receive(m, c) ==
  /\ c \in frames[m]
  /\ frames' = [frames EXCEPT ![m] = @ \ {c}]
  /\ IF Author(c) = m \/ c \in seen[m] THEN UNCHANGED <<applied, pending, seen>> ELSE Ingest(m, c)
  /\ UNCHANGED <<changes, digests, served>>

\* The overlay loses a frame or a digest.
LoseFrame(m, c) ==
  /\ c \in frames[m]
  /\ frames' = [frames EXCEPT ![m] = @ \ {c}]
  /\ UNCHANGED <<changes, applied, pending, seen, digests, served>>

LoseDigest(d) ==
  /\ digests' = digests \ {d}
  /\ UNCHANGED <<changes, applied, pending, seen, frames, served>>

-----------------------------------------------------------------------------
(* broadcast_state_merge: the change goes through the gate like any other,    *)
(* then out to everybody.                                                     *)
WriteEntry(m, t) ==
  LET c == NewChange(m, t)
      id == c.id
      chs == [x \in DOMAIN changes \cup {id} |->
                IF x = id THEN [target |-> t, deps |-> c.deps, op |-> c.op, object |-> c.object]
                ELSE changes[x]]
  IN  /\ t \in WritesTo(m)
      /\ \E plan \in Plans : \A x \in DOMAIN chs : SeqNo(x) <= plan[Author(x)]
      /\ ~Forges(chs, Elements(applied[m]), id)
      /\ changes' = chs
      /\ applied' = [applied EXCEPT ![m] = Append(@, id)]
      /\ frames' = [n \in Members |-> IF n = m THEN frames[n] ELSE frames[n] \cup {id}]
      /\ UNCHANGED <<pending, seen, digests, served>>

-----------------------------------------------------------------------------
(* Anti-entropy by heads *)

Digest(m, n, closing) ==
  [from |-> m, to |-> n, heads |-> Heads(Elements(applied[m])), closing |-> closing]

\* D goes out; a later digest of the same pair takes the place of one in flight.
Sent(old, D) ==
  {d \in old : \A e \in D : <<d.from, d.to, d.closing>> # <<e.from, e.to, e.closing>>} \cup D

\* broadcast_state_digest: the tick, a new peer, the first link.
BroadcastDigest(m) ==
  /\ digests' = Sent(digests, {Digest(m, n, FALSE) : n \in Others(m)})
  /\ UNCHANGED <<changes, applied, pending, seen, frames, served>>

\* Where in our order the changes are that the asker does not hold, as far as we
\* know it.
Wanted(m, d) ==
  LET have == Past(d.heads \cap Elements(applied[m]))
  IN  {i \in 1..Len(applied[m]) : applied[m][i] \notin have /\ Author(applied[m][i]) # d.from}

\* Fault: the newest changes are taken first.
MissingNewest(m, d) ==
  {applied[m][i] : i \in {k \in Wanted(m, d) : Cardinality({j \in Wanted(m, d) : j > k}) < MaxResend}}

\* changes_since_not_by: the first of them, up to the budget.
Missing(m, d) ==
  {applied[m][i] : i \in {k \in Wanted(m, d) : Cardinality({j \in Wanted(m, d) : j < k}) < MaxResend}}

\* holds_heads
HoldsHeads(m, d) == d.heads \subseteq Elements(applied[m])

\* ask_back, when a round is due: our heads, point to point.
Asks(m, d) ==
  IF ~HoldsHeads(m, d) /\ <<m, d.from>> \in Linked THEN {{}, {Digest(m, d.from, FALSE)}} ELSE {{}}

\* handle_state_digest: ask back if the sender is ahead, then answer unless it
\* closes an answer, lacks nothing or was answered enough; on the point-to-point
\* plane, closed by our heads, or to everybody on gossip.
HandleDigest(m, d) ==
  LET todo == Missing(m, d)
      answers == ~d.closing /\ todo # {} /\ served[m][d.from] < ServesPerWindow
      unicast == <<m, d.from>> \in Linked
      closes == IF answers /\ unicast THEN {Digest(m, d.from, TRUE)} ELSE {}
  IN  /\ d.to = m
      /\ \E ask \in Asks(m, d) : digests' = Sent(digests \ {d}, ask \cup closes)
      /\ frames' = [n \in Members |->
                      IF answers /\ (n = d.from \/ (~unicast /\ n # m)) THEN frames[n] \cup todo ELSE frames[n]]
      /\ served' = IF answers THEN [served EXCEPT ![m][d.from] = @ + 1] ELSE served
      /\ UNCHANGED <<changes, applied, pending, seen>>

\* The serve window of an asker ends.
WindowEnds(m, a) ==
  /\ served[m][a] > 0
  /\ served' = [served EXCEPT ![m][a] = 0]
  /\ UNCHANGED <<changes, applied, pending, seen, frames, digests>>

DocNext ==
  \/ \E m \in Members : \/ \E t \in WritesTo(m) : WriteEntry(m, t)
                        \/ \E c \in frames[m] : Receive(m, c)
                        \/ \E c \in frames[m] : LoseFrame(m, c)
                        \/ BroadcastDigest(m)
                        \/ \E d \in digests : HandleDigest(m, d)
                        \/ \E a \in Others(m) : WindowEnds(m, a)
  \/ \E d \in digests : LoseDigest(d)

DocSpec == DocInit /\ [][DocNext]_docvars

\* The tick keeps going, windows end, and what is sent over and over again
\* gets through at last.
DocFairSpec ==
  /\ DocSpec
  /\ \A m \in Members :
       /\ WF_docvars(BroadcastDigest(m))
       /\ \A a \in Others(m) : /\ WF_docvars(WindowEnds(m, a))
                              /\ SF_docvars(\E d \in digests : d.from = a /\ ~d.closing /\ HandleDigest(m, d)
                                           /\ served[m][a] < ServesPerWindow)
       /\ SF_docvars(\E c \in Ready(Elements(applied[m]), frames[m]) \ Elements(applied[m]) : Receive(m, c))

-----------------------------------------------------------------------------
(* Properties *)

\* Types; a document holds the past of every change it holds, so heads stand
\* for it (deps_satisfied); a change is buffered only while it is neither applied nor ready,
\* within the caps; and a seen change is somewhere: applied, buffered, or refused
\* by the gate with its past held.  Otherwise its author's re-send would be
\* dropped as a repeat and it could never land (MeshDoc::dropped,
\* drain_pending).
SeenIsAccountedFor ==
  /\ \A c \in DOMAIN changes : Author(c) \in Members /\ SeqNo(c) \in Nat
  /\ \A m \in Members :
       /\ Elements(applied[m]) \subseteq DOMAIN changes
       /\ pending[m] \subseteq DOMAIN changes \ Elements(applied[m])
       /\ Cardinality(pending[m]) <= PendingTotalMax
       /\ Ready(Elements(applied[m]), pending[m]) = {}
       /\ \A c \in seen[m] : \/ c \in Elements(applied[m]) \cup pending[m]
                              \/ changes[c].deps \subseteq Elements(applied[m])
       /\ \A i \in 1..Len(applied[m]) :
            changes[applied[m][i]].deps \subseteq Elements(SubSeq(applied[m], 1, i - 1))
       /\ \A a \in Others(m) : served[m][a] \in 0..ServesPerWindow

\* Every member ends up with every change, whatever was lost or came out of
\* order: "every honest member runs the same gate before applying" (the doc of
\* the crate).
Converges == <>[](\A m \in Members : Elements(applied[m]) = DOMAIN changes)
=============================================================================
