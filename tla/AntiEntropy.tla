---------------------------- MODULE AntiEntropy ----------------------------
(***************************************************************************)
(* Recovery of missed messages between members (gossip/antientropy.rs, the *)
(* chat log).  Each member ticks a digest of the ids it holds: an open     *)
(* window over its newest arrivals and, when the log outgrows a window, one*)
(* closed slice of the older part, which a cursor sweeps.  A member that   *)
(* hears a digest re-sends what the sender lacks inside the windows, within*)
(* a budget, at most one serve per author and cooldown window.             *)
(*                                                                         *)
(* Members are numbers and sign with themselves: a frame's pubkey is its   *)
(* author.  Besides the fields of MessageLog a frame has                   *)
(*   kept   whether its author retains it: presence and link state always  *)
(*          (retain_own_broadcast), an app frame if the app pushes it      *)
(*   logged whether its receivers retain it: chat and presence, but not    *)
(*          link state, which dispatch_infra consumes.                     *)
(* The overlay is lossy and reordering; a directed frame travels on the    *)
(* unicast plane to its addressee alone.  All members are meshed, and      *)
(* dedup never forgets (History has the bounded dedup set).                *)
(***************************************************************************)
EXTENDS MessageLog

CONSTANTS Members,  \* a set of numbers, the members online
          Frames,   \* every loggable frame the members will author
          Window,   \* ANTIENTROPY_DIGEST_WINDOW_IDS
          MaxResend,\* ANTIENTROPY_MAX_RESEND
          JoinedAt  \* member -> the second it joined

ASSUME AntiEntropyAssumption ==
  /\ Members \subseteq Nat
  /\ Window \in Nat \ {0} /\ MaxResend \in Nat \ {0}
  /\ JoinedAt \in [Members -> Nat]
  /\ \A m \in Frames :
       /\ m.id \in Nat /\ m.pubkey \in Members
       /\ m.timestamp \in Nat /\ m.timestamp < Forever
       /\ m.seq \in Nat \cup {NoSeq} 
       /\ m.kept \in BOOLEAN /\ m.logged \in BOOLEAN
       /\ m.to \in Nat \cup {Everyone}
  /\ \A m, k \in Frames : m.id = k.id => m = k

VARIABLES log,     \* member -> its message log
          seen,    \* member -> ids it received or retained
          cursor,  \* member -> digest_cursor
          cooling, \* member -> authors served within the cooldown window
          sent,    \* the frames authored so far
          wire,    \* frames in flight, each to one receiver
          digests  \* digests in flight, each to one receiver; `received`
                   \* is what the sender had received (properties only)

antientropyvars == <<log, seen, cursor, cooling, sent, wire, digests>>

-----------------------------------------------------------------------------
\* Fault: a re-send goes straight onto gossip, whatever its addressing.
PlaneOfAll(m, from) == Members \ {from}

\* transport::route: gossip reaches every other member, a directed frame only
\* its addressee, and nobody when that one is offline.
Plane(m, from) ==
  {n \in Members \ {from} : m.to \in {Everyone, n}}

Packets(S, from) == UNION {{[to |-> n, msg |-> m] : n \in Plane(m, from)} : m \in S}

\* The newest window; a log that fits in it asks from our join onward.
NewestWindow(n) ==
  LET newest == RecentWindow(log[n], Window)
  IN  IF OlderLen(log[n], Window) = 0 /\ JoinedAt[n] < newest.lo
        THEN [newest EXCEPT !.lo = JoinedAt[n]] ELSE newest

Start(n) == cursor[n] % OlderLen(log[n], Window)

OlderSlice(n) == OlderWindow(log[n], Window, Start(n), Window)

\* Fault: a log that outgrew a window advertises its newest entries only.
NewestOnly(n) == <<NewestWindow(n)>>

\* digest_windows, and the cursor it leaves behind.
DigestWindows(n) ==
  IF OlderLen(log[n], Window) = 0 THEN <<NewestWindow(n)>>
                                  ELSE <<NewestWindow(n), OlderSlice(n)>>

CursorAfter(n) ==
  IF OlderLen(log[n], Window) = 0 THEN 0
  ELSE (Start(n) + Cardinality(OlderSlice(n).ids)) % OlderLen(log[n], Window)

\* handle_digest: the windows' ids are unioned, and what the first window
\* re-sends is charged to the budget and to `have` before the second.
Resends(n, d) ==
  LET have == UNION {d.windows[i].ids : i \in 1..Len(d.windows)}
      Miss(w, h, budget) ==
        MissingInWindow(log[n], w.lo, w.hi, h, budget, d.from)
      first == Miss(d.windows[1], have, MaxResend)
      rest  == IF Len(d.windows) = 1 THEN {}
               ELSE Miss(d.windows[2], have \cup {m.id : m \in first},
                         MaxResend - Cardinality(first))
  IN  first \cup rest

-----------------------------------------------------------------------------
AntiEntropyInit ==
  /\ log = [n \in Members |-> <<>>]
  /\ seen = [n \in Members |-> {}]
  /\ cursor = [n \in Members |-> 0]
  /\ cooling = [n \in Members |-> {}]
  /\ sent = {} /\ wire = {} /\ digests = {}

\* A member broadcasts (or sends) a new frame; clocks agree, so frames are
\* authored in timestamp order.
Publish(m) ==
  LET n == m.pubkey IN
  /\ m \notin sent
  /\ \A k \in Frames \ sent : m.timestamp <= k.timestamp
  /\ sent' = sent \cup {m}
  /\ wire' = wire \cup Packets({m}, n)
  /\ log' = IF m.kept THEN [log EXCEPT ![n] = Push(@, m)] ELSE log
  /\ seen' = IF m.kept THEN [seen EXCEPT ![n] = @ \cup {m.id}] ELSE seen
  /\ UNCHANGED <<cursor, cooling, digests>>

\* ingest: our own echo and a repeat are dropped, the rest is retained if its
\* kind is.
Receive(n, m) ==
  /\ [to |-> n, msg |-> m] \in wire
  /\ wire' = wire \ {[to |-> n, msg |-> m]}
  /\ IF m.pubkey = n \/ m.id \in seen[n]
       THEN UNCHANGED <<log, seen>>
       ELSE /\ log' = IF m.logged THEN [log EXCEPT ![n] = Push(@, m)] ELSE log
            /\ seen' = [seen EXCEPT ![n] = @ \cup {m.id}]
  /\ UNCHANGED <<cursor, cooling, sent, digests>>

\* The overlay loses a frame or a digest.
Lose ==
  /\ \/ \E p \in wire : wire' = wire \ {p} /\ UNCHANGED digests
     \/ \E d \in digests : digests' = digests \ {d} /\ UNCHANGED wire
  /\ UNCHANGED <<log, seen, cursor, cooling, sent>>

\* broadcast_digest, on the anti-entropy tick.  Bound: one round of a member
\* in flight at a time (the tick is seconds, the overlay milliseconds).
BroadcastDigest(n) ==
  /\ log[n] # <<>>
  /\ \A d \in digests : d.from # n
  /\ cursor' = [cursor EXCEPT ![n] = CursorAfter(n)]
  /\ digests' = digests \cup
       {[to |-> k, from |-> n, windows |-> DigestWindows(n),
         received |-> seen[n]] : k \in Members \ {n}}
  /\ UNCHANGED <<log, seen, cooling, sent, wire>>

\* handle_digest for an author admit_digest lets through.
ServeDigest(n, k) ==
  \E d \in digests :
    /\ d.to = n /\ d.from = k /\ k \notin cooling[n]
    /\ digests' = digests \ {d}
    /\ cooling' = [cooling EXCEPT ![n] = @ \cup {k}]
    /\ wire' = wire \cup Packets(Resends(n, d), n)
    /\ UNCHANGED <<log, seen, cursor, sent>>

\* ... and for one it served within the window.
IgnoreDigest(n, k) ==
  \E d \in digests :
    /\ d.to = n /\ d.from = k /\ k \in cooling[n]
    /\ digests' = digests \ {d}
    /\ UNCHANGED <<log, seen, cursor, cooling, sent, wire>>

CooldownExpires(n, k) ==
  /\ k \in cooling[n]
  /\ cooling' = [cooling EXCEPT ![n] = @ \ {k}]
  /\ UNCHANGED <<log, seen, cursor, sent, wire, digests>>

AntiEntropyNext ==
  \/ \E m \in Frames : Publish(m)
  \/ \E n \in Members, m \in Frames : Receive(n, m)
  \/ Lose
  \/ \E n \in Members : BroadcastDigest(n)
  \/ \E n, k \in Members : ServeDigest(n, k) \/ IgnoreDigest(n, k) \/ CooldownExpires(n, k)

AntiEntropySpec == AntiEntropyInit /\ [][AntiEntropyNext]_antientropyvars

\* The tick recurs and the serve cooldown (5 s) runs out before the next one
\* (10 s), so a digest that keeps being sent is eventually heard and served;
\* an overlay that keeps being handed a frame eventually delivers it.
Fairness ==
  /\ \A m \in Frames : WF_antientropyvars(Publish(m))
  /\ \A m \in Frames : \A n \in Members \ {m.pubkey} : SF_antientropyvars(Receive(n, m))
  /\ \A n \in Members : WF_antientropyvars(BroadcastDigest(n))
  /\ \A n \in Members : \A k \in Members \ {n} :
       SF_antientropyvars(ServeDigest(n, k)) /\ WF_antientropyvars(CooldownExpires(n, k))

AntiEntropyFairSpec == AntiEntropySpec /\ Fairness

-----------------------------------------------------------------------------
(* Properties *)

\* A directed frame is held and carried only between its two ends: neither
\* the send path nor backfill ever puts it on gossip (transport::deliver).
DirectedStaysPrivate ==
  \A m \in sent : m.to # Everyone =>
    /\ \A n \in Members : m \in Entries(log[n]) => n \in {m.pubkey, m.to}
    /\ \A p \in wire : p.msg = m => p.to = m.to

\* A re-send happens only when there is an actual gap: nothing the asker had
\* received when it sent its digest is put back on the wire (ANTIENTROPY_INTERVAL_SECS:
\* "a re-send only happens when there is an actual gap").
ResendsOnlyGaps ==
  \A d \in digests : d.from \notin cooling[d.to] =>
    \A m \in Resends(d.to, d) : m.id \notin d.received

\* A member that missed a message, while another one holds it, recovers it over
\* several rounds (broadcast_digest), and so does the addressee of a directed
\* frame.  A log larger than a window asks for what its windows span: a frame
\* dated between two of them is in neither.
Owed(n, m) == m.logged /\ m.pubkey # n /\ m.to \in {Everyone, n} /\ m.timestamp >= JoinedAt[n]

Lacks(n, m) ==
  Owed(n, m) /\ m \notin Entries(log[n]) /\ \E k \in Members : m \in Entries(log[k])

\* The slices the cursor comes to, and the newest window.
Spans(n) ==
  {OlderWindow(log[n], Window, i, Window) :
     i \in {j \in 0..(OlderLen(log[n], Window) - 1) : j % Window = 0}}
  \cup {RecentWindow(log[n], Window)}

AskedFor(n, m) ==
  /\ log[n] # <<>>
  /\ OlderLen(log[n], Window) > 0 =>
       \E w \in Spans(n) : w.lo <= m.timestamp /\ m.timestamp <= w.hi

Recovers ==
  \A n \in Members, m \in Frames : []<>~(Lacks(n, m) /\ AskedFor(n, m))
=============================================================================
