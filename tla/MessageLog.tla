----------------------------- MODULE MessageLog -----------------------------
(***************************************************************************)
(* The bounded message log of one mesh member (daemon/message_log.rs): the *)
(* pure operations on it, as operators on a sequence of frames in arrival  *)
(* order.  The modules that keep a log (History, AntiEntropy) apply them.  *)
(*                                                                         *)
(* A frame is a record.  The fields read here are                          *)
(*   id        its dedup key (SHA-256 of pubkey and message id), a number  *)
(*   pubkey    its author's signing key, a number (the code compares the   *)
(*             hex strings, any total order does)                          *)
(*   timestamp the author's clock, in seconds                              *)
(*   seq       the author's sequence number, NoSeq when the frame has none *)
(*   to        the sole addressee of a directed frame, or Everyone         *)
(* The per-author counts the code caches are the counts of the log itself. *)
(***************************************************************************)
EXTENDS Integers, Sequences, FiniteSets

CONSTANTS Capacity,    \* MESSAGE_LOG_SIZE
          Everyone     \* a value that is no addressee: sole_addressee is None

ASSUME CapacityAssumption == Capacity \in Nat \ {0}

NoSeq == -1            \* Option::None sorts below every Some(seq)
Forever == 1000        \* i64::MAX, above every timestamp of an instance

-----------------------------------------------------------------------------
Entries(log) == {log[i] : i \in 1..Len(log)}

\* eviction_key: the order of one author's frames, oldest first.
EvictsBefore(a, b) ==
  \/ a.timestamp < b.timestamp
  \/ a.timestamp = b.timestamp /\ a.seq < b.seq
  \/ a.timestamp = b.timestamp /\ a.seq = b.seq /\ a.id < b.id

HeldBy(log, p) == {i \in 1..Len(log) : log[i].pubkey = p}

\* The author charged for an overflow: the one with the most frames, the
\* lowest key among equals.
Fullest(log) ==
  CHOOSE p \in {log[i].pubkey : i \in 1..Len(log)} :
    \A q \in {log[i].pubkey : i \in 1..Len(log)} :
      \/ Cardinality(HeldBy(log, p)) > Cardinality(HeldBy(log, q))
      \/ /\ Cardinality(HeldBy(log, p)) = Cardinality(HeldBy(log, q))
         /\ p <= q

\* Fault: the victim is always the front, the oldest arrival.
FrontIndex(log) == 1

\* Position of the frame to drop; min_by keeps the first of equal keys.
EvictionIndex(log) ==
  LET mine == HeldBy(log, Fullest(log))
  IN  CHOOSE i \in mine : \A j \in mine :
        \/ EvictsBefore(log[i], log[j])
        \/ ~EvictsBefore(log[j], log[i]) /\ i <= j

\* VecDeque::remove
Without(log, i) ==
  [j \in 1..(Len(log) - 1) |-> IF j < i THEN log[j] ELSE log[j + 1]]

Overflows(log, m) == Len(log) >= Capacity

\* push: the log afterwards, and the frame it evicts as a set of at most one.
Push(log, m) ==
  LET full == Append(log, m)
  IN  IF Overflows(log, m) THEN Without(full, EvictionIndex(full)) ELSE full

Evicted(log, m) ==
  LET full == Append(log, m)
  IN  IF Overflows(log, m) THEN {full[EvictionIndex(full)]} ELSE {}

-----------------------------------------------------------------------------
(* Digest windows: the ids a member advertises and their timestamp extent. *)

LeastOf(S) == CHOOSE x \in S : \A y \in S : x <= y
GreatestOf(S) == CHOOSE x \in S : \A y \in S : x >= y

\* Fault: the slice loses its last entry.
WindowAtShort(log, start, max) ==
  LET slice == {log[i] : i \in {k \in 1..Len(log) : start < k /\ k < start + max}}
      times == {m.timestamp : m \in slice}
  IN  [lo |-> LeastOf(times), hi |-> GreatestOf(times), ids |-> {m.id : m \in slice}]

\* window_at, for a slice that holds at least one entry.
WindowAt(log, start, max) ==
  LET slice == {log[i] : i \in {k \in 1..Len(log) : start < k /\ k <= start + max}}
      times == {m.timestamp : m \in slice}
  IN  [lo |-> LeastOf(times), hi |-> GreatestOf(times), ids |-> {m.id : m \in slice}]

OlderLen(log, recent) == IF Len(log) > recent THEN Len(log) - recent ELSE 0

\* recent_window: open-ended, so holders re-send whatever is newer.
RecentWindow(log, recent) ==
  [WindowAt(log, OlderLen(log, recent), recent) EXCEPT !.hi = Forever]

\* older_window, for a log with an older portion.
OlderWindow(log, recent, start, max) ==
  LET from == start % OlderLen(log, recent)
      left == OlderLen(log, recent) - from
  IN  WindowAt(log, from, IF max < left THEN max ELSE left)

\* Fault: every frame is an anti-entropy subject for every requester.
ResendableToAny(m, requester) == TRUE

\* resendable_to: a directed frame is owed to its addressee and nobody else.
ResendableTo(m, requester) == m.to \in {Everyone, requester}

\* missing_in_window: positions to re-send, the max latest arrivals first.
MissingInWindow(log, lo, hi, have, max, requester) ==
  LET missing == {i \in 1..Len(log) :
                    /\ log[i].timestamp >= lo
                    /\ log[i].timestamp <= hi
                    /\ log[i].id \notin have
                    /\ ResendableTo(log[i], requester)}
  IN  {log[i] : i \in {k \in missing : Cardinality({j \in missing : j > k}) < max}}
=============================================================================
