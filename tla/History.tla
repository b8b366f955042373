------------------------------ MODULE History ------------------------------
(***************************************************************************)
(* What one member keeps of the frames it receives (gossip/recv.rs ingest  *)
(* down to retain_and_index, with the state.rs indexes): the dedup set     *)
(* `seen`, the bounded log, the fork index author_seqs/forked and the      *)
(* causal index by_hash/dag_heads, pruned as the log evicts.               *)
(*                                                                         *)
(* The network delivers any frame of Frames any number of times in any     *)
(* order: live gossip, the unicast plane and anti-entropy re-sends all     *)
(* enter through Ingest.  A frame that fails a gate in front of the dedup  *)
(* set (our own echo, a bad signature, a foreign mesh) leaves no trace, so *)
(* Frames are those that pass.  A frame's content hash identifies it, so   *)
(* indexes hold the frames themselves.  Besides the fields of MessageLog a *)
(* frame has                                                               *)
(*   loggable  the app's or the engine's retention rule                    *)
(*   chained   broadcast chat, which carries seq and parents               *)
(*   parents   the ids of the frames it names as causal parents            *)
(***************************************************************************)
EXTENDS MessageLog

CONSTANTS Frames,    \* the authenticated frames the mesh produces
          OwnFrames, \* frames this member broadcasts and retains itself
          SeenCap    \* SEEN_IDS_CAP

ASSUME FramesAssumption ==
  /\ \A m \in Frames \cup OwnFrames :
       /\ m.id \in Nat /\ m.pubkey \in Nat /\ m.timestamp \in Nat
       /\ m.seq \in Nat \cup {NoSeq}
       /\ m.loggable \in BOOLEAN /\ m.chained \in BOOLEAN
       /\ m.parents \subseteq Nat
  /\ \A m, k \in Frames \cup OwnFrames : m.id = k.id => m = k
  /\ Frames \cap OwnFrames = {}
  /\ \A m \in OwnFrames : ~m.chained  \* presence and link state

ASSUME SeenCapAssumption == SeenCap \in Nat \ {0}

VARIABLES log,         \* message_log, in arrival order
          seen,        \* ids, in insertion order
          author_seqs, \* the frames recorded, one per (pubkey, seq)
          forked,      \* keys flagged as equivocating
          by_hash,     \* frames whose hash is known to the causal index
          dag_heads,   \* its tips
          ingested     \* history: every loggable frame ever pushed

vars == <<log, seen, author_seqs, forked, by_hash, dag_heads, ingested>>

indexes == <<author_seqs, forked, by_hash, dag_heads>>

-----------------------------------------------------------------------------
AllFrames == Frames \cup OwnFrames

SeenIds == {seen[i] : i \in 1..Len(seen)}

\* BoundedFifoSet::insert of an absent id: the oldest entry makes room.
SeenAfter(id) ==
  IF Len(seen) >= SeenCap THEN Append(Tail(seen), id) ELSE Append(seen, id)

\* Fault: evidence keyed by seq alone.
RecordedAtSeq(m) == {r \in author_seqs : r.seq = m.seq}

\* note_msg_seq: the frame recorded at the same (pubkey, seq), if any.
RecordedAt(m) == {r \in author_seqs : r.pubkey = m.pubkey /\ r.seq = m.seq}

Equivocates(m) == m.seq # NoSeq /\ \E r \in RecordedAt(m) : r # m

SeqsNoting(m) ==
  IF m.chained /\ m.seq # NoSeq /\ RecordedAt(m) = {}
    THEN author_seqs \cup {m} ELSE author_seqs

ForkedNoting(m) ==
  IF m.chained /\ Equivocates(m) THEN forked \cup {m.pubkey} ELSE forked

\* note_dag: the parents stop being tips, the frame becomes one.
HashesNoting(m) == IF m.chained THEN by_hash \cup {m} ELSE by_hash

HeadsNoting(m) ==
  IF m.chained THEN {h \in dag_heads : h.id \notin m.parents} \cup {m}
               ELSE dag_heads

\* Fault: an evicted twin frees the slot of the frame that was recorded.
SeqsForgettingSlot(seqs, gone) ==
  {r \in seqs : ~ \E m \in gone : m.pubkey = r.pubkey /\ m.seq = r.seq}

\* Fault: fork evidence is never pruned.
SeqsForgettingNothing(seqs, gone) == seqs

\* forget_msg_seq: only the recorded frame frees its slot, and a key with no
\* slot left is forgotten by the fork flags too.
SeqsForgetting(seqs, gone) == seqs \ gone

ForkedForgetting(flags, seqs, gone) ==
  {p \in flags : ~ \E m \in gone : /\ m \in seqs
                                   /\ m.pubkey = p
                                   /\ ~ \E r \in seqs \ gone : r.pubkey = p}

\* retain_and_index, then push_to_log with the pruning of what it evicts.
RetainAndIndex(m) ==
  LET gone == Evicted(log, m)
      seqs == SeqsNoting(m)
      flags == ForkedNoting(m)
  IN  /\ log' = Push(log, m)
      /\ author_seqs' = SeqsForgetting(seqs, gone)
      /\ forked' = ForkedForgetting(flags, seqs, gone)
      /\ by_hash' = HashesNoting(m) \ gone
      /\ dag_heads' = HeadsNoting(m) \ gone
      /\ ingested' = ingested \cup {m}

-----------------------------------------------------------------------------
Init == /\ log = <<>> /\ seen = <<>>
        /\ author_seqs = {} /\ forked = {}
        /\ by_hash = {} /\ dag_heads = {}
        /\ ingested = {}

\* ingest: a frame already seen is dropped before anything else happens; a
\* frame that is not loggable only leaves its id.
Ingest(m) ==
  /\ m.id \notin SeenIds
  /\ seen' = SeenAfter(m.id)
  /\ IF m.loggable THEN RetainAndIndex(m)
                   ELSE UNCHANGED <<log, ingested>> /\ UNCHANGED indexes

\* retain_own_broadcast: presence and link state we publish ourselves.  Never
\* chained, pushed whatever mark_seen answers; an id is minted per broadcast.
RetainOwn(m) ==
  /\ m.loggable /\ m \notin ingested
  /\ seen' = IF m.id \in SeenIds THEN seen ELSE SeenAfter(m.id)
  /\ log' = Push(log, m)
  /\ ingested' = ingested \cup {m}
  /\ LET gone == Evicted(log, m) IN
       /\ author_seqs' = SeqsForgetting(author_seqs, gone)
       /\ forked' = ForkedForgetting(forked, author_seqs, gone)
       /\ by_hash' = by_hash \ gone
       /\ dag_heads' = dag_heads \ gone

Next == (\E m \in Frames : Ingest(m)) \/ (\E m \in OwnFrames : RetainOwn(m))

Spec == Init /\ [][Next]_vars
-----------------------------------------------------------------------------
(* Properties *)

\* The log is never over capacity, the dedup set is bounded and duplicate
\* free, and every index holds frames this member retained at some point.
TypeOK ==
  /\ log \in Seq(ingested) /\ Len(log) <= Capacity
  /\ seen \in Seq({m.id : m \in AllFrames}) /\ Len(seen) <= SeenCap
  /\ ingested \subseteq AllFrames
  /\ author_seqs \subseteq ingested
  /\ forked \subseteq {m.pubkey : m \in AllFrames}
  /\ by_hash \subseteq ingested
  /\ dag_heads \subseteq ingested

\* Every side index is bounded by the log window (push_to_log prunes what
\* the push evicts, even the frame just pushed): the causal index knows only
\* retained chat, its tips are known hashes, fork evidence is one retained
\* frame per (pubkey, seq), and a flagged key still has evidence recorded.
IndexBounded ==
  /\ by_hash \subseteq {m \in Entries(log) : m.chained}
  /\ dag_heads \subseteq by_hash
  /\ author_seqs \subseteq {m \in Entries(log) : m.chained /\ m.seq # NoSeq}
  /\ \A r, s \in author_seqs : r.pubkey = s.pubkey /\ r.seq = s.seq => r = s
  /\ forked \subseteq {r.pubkey : r \in author_seqs}

\* The reference definition of retention: rank each author's frames newest
\* first and keep the Capacity first frames of the round robin over authors,
\* the highest key first in a round.  It reads the set, never an order.
RankIn(S, m) ==
  Cardinality({k \in S : k.pubkey = m.pubkey /\ ~EvictsBefore(k, m)})

KeptBefore(S, a, b) ==
  \/ RankIn(S, a) < RankIn(S, b)
  \/ RankIn(S, a) = RankIn(S, b) /\ a.pubkey > b.pubkey

Canonical(S) ==
  {m \in S : Cardinality({k \in S : KeptBefore(S, k, m)}) < Capacity}

\* Retention is a pure function of the frames received, not of the order they
\* came in (MessageLog::push): peers that received the same set hold the same
\* set, whatever the gossip order, duplicates and evictions in between; and the
\* causal index knows all of it that is chained, so the backdating rule can look
\* up every retained parent (retain_and_index).
RetainedIsCanonical ==
  /\ Entries(log) = Canonical(ingested)
  /\ Cardinality(Entries(log)) = Len(log)
  /\ {m \in Entries(log) : m.chained} \subseteq by_hash

\* No slander: a key is flagged only if it signed two different chat frames
\* at one seq (note_msg_seq); a re-delivery never looks like equivocation.
NoFalseFork ==
  \A p \in forked : \E m, k \in ingested :
    /\ m.pubkey = p /\ k.pubkey = p /\ m.chained /\ k.chained
    /\ m.seq # NoSeq /\ m.seq = k.seq /\ m # k

\* Recorded fork evidence goes only with the frame it records: evicting the
\* twin that was not recorded leaves it (forget_msg_seq compares the hash).
EvidenceGoesWithItsFrame ==
  [][\A r \in author_seqs : r \notin author_seqs' => r \notin Entries(log')]_vars
=============================================================================
