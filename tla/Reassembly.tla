----------------------------- MODULE Reassembly -----------------------------
(***************************************************************************)
(* One member's reassembly of split bodies: the byte-budgeted store of     *)
(* partial groups (fofoca-protocol/src/reassembly.rs), the dedup window in *)
(* front of it, the message log behind it (small groups only), and the     *)
(* groups already surfaced (daemon/state.rs, gossip/recv.rs handle_shard). *)
(*                                                                         *)
(* A frame is one signed shard, addressed to us, from an author its key    *)
(* proves: [author, group, idx, total, size], where size is what the slot  *)
(* is charged (slot_charge).  Any frame may arrive at any time and again:  *)
(* gossip repeats frames, and anti-entropy and shard repair re-send them.  *)
(* `kind`, pinned with `total`, is dropped with it: a frame that           *)
(* contradicts its group's header is one of another total.                 *)
(*                                                                         *)
(* A group's last_seen and created_at are the seconds since, `idle` and    *)
(* `age`, counted no further than the limits they are compared with; two   *)
(* groups equally idle may be evicted in either order.                     *)
(***************************************************************************)
EXTENDS Integers, Sequences, FiniteSets, Functions

CONSTANTS Frames,       \* the shards that may arrive
          Malformed,    \* <<author, group>> whose joined body fails validation
          SeenCap,      \* SEEN_IDS_CAP
          GroupsCap,    \* MESSAGE_LOG_SIZE, the cap of reassembled_groups
          LoggedMax,    \* LOGGED_SHARD_GROUP_MAX_TOTAL
          GroupMax,     \* REASSEMBLY_GROUP_MAX_BYTES
          AuthorBudget, \* REASSEMBLY_AUTHOR_BUDGET_BYTES
          TotalBudget,  \* REASSEMBLY_TOTAL_BUDGET_BYTES
          Stale,        \* REASSEMBLY_STALE_SECS
          Lifetime,     \* REASSEMBLY_MAX_GROUP_LIFETIME_SECS
          RepairIdle    \* REASSEMBLY_REPAIR_IDLE_SECS

\* <<author, group>>: only the signer fills its own slots.
Key(f) == <<f.author, f.group>>
Keys == {Key(f) : f \in Frames}
Authors == {f.author : f \in Frames}

ASSUME ReassemblyAssumption ==
  /\ \A f \in Frames : /\ DOMAIN f = {"author", "group", "idx", "total", "size"}
                       /\ f.total \in Nat /\ f.idx \in 0..(f.total - 1)
                       /\ f.size \in Nat \ {0} /\ f.size <= GroupMax
  /\ Malformed \subseteq Keys
  /\ SeenCap \in Nat \ {0} /\ GroupsCap \in Nat \ {0} /\ LoggedMax \in Nat
  /\ GroupMax \in Nat /\ AuthorBudget \in Nat /\ TotalBudget \in Nat
  /\ Stale \in Nat \ {0} /\ Lifetime \in Nat \ {0} /\ RepairIdle \in Nat \ {0}

VARIABLES seen,         \* the dedup window, oldest first
          log,          \* the shards the message log retains
          groups,       \* key -> partial group, for the keys buffered
          author_bytes, \* author -> bytes charged
          total_bytes,
          reassembled,  \* reassembled_groups: group ids, whoever signed them,
                        \* oldest first
          surfaced      \* the bodies handed to the application, in order

store == <<groups, author_bytes, total_bytes>>
vars == <<seen, log, store, reassembled, surfaced>>

-----------------------------------------------------------------------------
(* The store, as a record [groups, author_bytes, total_bytes] *)

Store == [groups |-> groups, author_bytes |-> author_bytes, total_bytes |-> total_bytes]

\* The sum of the sizes, counted unit by unit.
Units(sizes) == UNION {{x} \X (1..sizes[x]) : x \in DOMAIN sizes}

SumOf(sizes) == Cardinality(Units(sizes))

Bytes(gs, ks) == SumOf([k \in ks |-> gs[k].bytes])

SaturatingSub(a, b) == IF a > b THEN a - b ELSE 0

\* Fault: an eviction gives the global budget back, not the author's.
EvictGlobally(st, ks) ==
  [st EXCEPT !.groups = Restrict(@, DOMAIN @ \ ks),
             !.total_bytes = SaturatingSub(@, Bytes(st.groups, ks \cap DOMAIN st.groups))]

\* evict, of every group in ks.
Evict(st, ks) ==
  LET gone == ks \cap DOMAIN st.groups
      Of(a) == {k \in gone : k[1] = a}
  IN  [groups |-> Restrict(st.groups, DOMAIN st.groups \ gone),
       author_bytes |-> [a \in Authors |-> SaturatingSub(st.author_bytes[a], Bytes(st.groups, Of(a)))],
       total_bytes |-> SaturatingSub(st.total_bytes, Bytes(st.groups, gone))]

\* admit's loop: its author's other groups, stalest first, until the newcomer
\* fits or none is left.
Victims(f) ==
  LET others == {k \in DOMAIN groups : k[1] = f.author /\ k # Key(f)}
      Fits(vs) == author_bytes[f.author] - Bytes(groups, vs) + f.size <= AuthorBudget
  IN  {vs \in SUBSET others :
         /\ \A v \in vs, w \in others \ vs : groups[v].idle >= groups[w].idle
         /\ Fits(vs) \/ vs = others
         /\ vs = {} \/ \E last \in vs : /\ ~Fits(vs \ {last})
                                        /\ \A v \in vs : groups[v].idle >= groups[last].idle}

Admits(st, f) ==
  /\ st.author_bytes[f.author] + f.size <= AuthorBudget
  /\ st.total_bytes + f.size <= TotalBudget

NewGroup(f) ==
  [total |-> f.total, slots |-> {}, bytes |-> 0, idle |-> 0, age |-> 0, asked |-> RepairIdle]

\* A new slot filled: progress.
Buffer(st, f) ==
  LET old == IF Key(f) \in DOMAIN st.groups THEN st.groups[Key(f)] ELSE NewGroup(f)
      new == [old EXCEPT !.slots = @ \cup {f}, !.bytes = @ + f.size, !.idle = 0]
  IN  [groups |-> [k \in DOMAIN st.groups \cup {Key(f)} |->
                     IF k = Key(f) THEN new ELSE st.groups[k]],
       author_bytes |-> [st.author_bytes EXCEPT ![f.author] = @ + f.size],
       total_bytes |-> st.total_bytes + f.size]

\* A signer contradicting its own group header.
Contradicts(f) == Key(f) \in DOMAIN groups /\ groups[Key(f)].total # f.total

Duplicate(f) ==
  Key(f) \in DOMAIN groups /\ \E g \in groups[Key(f)].slots : g.idx = f.idx

Overflows(f) ==
  Key(f) \in DOMAIN groups /\ groups[Key(f)].bytes + f.size > GroupMax

\* What became of an ingested frame: the store, and the slots of the group it
\* completed (none: buffered or dropped).  A completed group leaves the store
\* even if its joined body is refused.
Ingested(f) ==
  IF Contradicts(f) \/ Duplicate(f) THEN {[store |-> Store, slots |-> {}]}
  ELSE IF Overflows(f) THEN {[store |-> Evict(Store, {Key(f)}), slots |-> {}]}
  ELSE {LET room == Evict(Store, vs)
            full == Buffer(room, f)
            group == full.groups[Key(f)]
        IN  IF ~Admits(room, f) THEN [store |-> room, slots |-> {}]
            ELSE IF Cardinality(group.slots) < group.total THEN [store |-> full, slots |-> {}]
            ELSE [store |-> Evict(full, {Key(f)}),
                  slots |-> IF Key(f) \in Malformed THEN {} ELSE group.slots]
        : vs \in Victims(f)}

-----------------------------------------------------------------------------
(* The log-backed completion of a small group (reassemble_from_log) *)

FitsLog(f) == f.total <= LoggedMax

InLog(lg, k, total) == {f \in lg : Key(f) = k /\ f.total = total}

\* Every slot of the group is in the log.
HasAll(lg, k, total) ==
  \A i \in 0..(total - 1) : \E f \in InLog(lg, k, total) : f.idx = i

\* One frame a slot; which of two that contradict each other is not told apart.
OnePerSlot(fs) ==
  {pick \in SUBSET fs : /\ {f.idx : f \in pick} = {f.idx : f \in fs}
                        /\ \A f, g \in pick : f.idx = g.idx => f = g}

\* Fault: only a shard the store took is looked up in the log.
FromLogIfStored(lg, f) ==
  IF FitsLog(f) /\ HasAll(lg, Key(f), f.total) /\ Key(f) \notin Malformed /\ Key(f) \in DOMAIN groups
    THEN OnePerSlot(InLog(lg, Key(f), f.total))
    ELSE {{}}

\* The slots the log completes the group of f with, or none.
FromLog(lg, f) ==
  IF FitsLog(f) /\ HasAll(lg, Key(f), f.total) /\ Key(f) \notin Malformed
    THEN OnePerSlot(InLog(lg, Key(f), f.total))
    ELSE {{}}

-----------------------------------------------------------------------------
Init ==
  /\ seen = <<>> /\ log = {}
  /\ groups = <<>> /\ author_bytes = [a \in Authors |-> 0] /\ total_bytes = 0
  /\ reassembled = <<>> /\ surfaced = <<>>

\* BoundedFifoSet::insert of a new entry.
Remember(s, x, cap) ==
  LET more == Append(s, x) IN IF Len(more) > cap THEN Tail(more) ELSE more

\* The application's gate (unsealing, validation) passes the body or drops it.
Surface(f, slots) ==
  LET body == [author |-> f.author, group |-> f.group, total |-> f.total, slots |-> slots]
  IN  surfaced' \in {surfaced, Append(surfaced, body)}

\* Fault: a body the log completed is not remembered as surfaced.
RememberStored(f, stored) ==
  IF stored THEN Remember(reassembled, f.group, GroupsCap) ELSE reassembled

\* reassembled_groups.insert, after either completion.
Reassembled(f, stored) == Remember(reassembled, f.group, GroupsCap)

TakeStore(st) ==
  /\ groups' = st.groups
  /\ author_bytes' = st.author_bytes
  /\ total_bytes' = st.total_bytes

\* reassemble: the store first, the log when it does not complete.
Reassemble(f, lg) ==
  \/ /\ f.group \in Range(reassembled)
     /\ UNCHANGED <<store, reassembled, surfaced>>
  \/ /\ f.group \notin Range(reassembled)
     /\ \E in \in Ingested(f), logged \in FromLog(lg, f) :
          LET slots == IF in.slots # {} THEN in.slots ELSE logged
          IN  IF slots = {}
                THEN TakeStore(in.store) /\ UNCHANGED <<reassembled, surfaced>>
                ELSE /\ TakeStore(Evict(in.store, {Key(f)}))
                     /\ reassembled' = Reassembled(f, in.slots # {})
                     /\ Surface(f, slots)

\* mark_seen, then handle_shard: retain a small group's shard, then reassemble.
Receive(f) ==
  /\ f \notin Range(seen)
  /\ seen' = Remember(seen, f, SeenCap)
  /\ log' = IF FitsLog(f) THEN log \cup {f} ELSE log
  /\ Reassemble(f, log')

\* The message log evicts: its caps are the ones of module MessageLog.
LogEvicts(f) ==
  /\ f \in log
  /\ log' = log \ {f}
  /\ UNCHANGED <<seen, store, reassembled, surfaced>>

\* Any other frame passes through the dedup window.
SeenAges ==
  /\ seen # <<>>
  /\ seen' = Tail(seen)
  /\ UNCHANGED <<log, store, reassembled, surfaced>>

\* Fault: small groups are left to the log.
ExpiredBig(g) == g.total > LoggedMax /\ (g.idle >= Stale \/ g.age >= Lifetime)

\* No progress for too long, or alive for too long.
Expired(g) == g.idle >= Stale \/ g.age >= Lifetime

\* tick_prune's sweep_stale.
Sweep ==
  LET stale == {k \in DOMAIN groups : Expired(groups[k])}
  IN  /\ stale # {}
      /\ TakeStore(Evict(Store, stale))
      /\ UNCHANGED <<seen, log, reassembled, surfaced>>

\* repair_tickets, of the application: stalled big groups, once a window each.
RepairDue(g) ==
  g.total > LoggedMax /\ g.idle >= RepairIdle /\ g.asked >= RepairIdle

RepairTickets ==
  LET due == {k \in DOMAIN groups : RepairDue(groups[k])}
  IN  /\ due # {}
      /\ groups' = [k \in DOMAIN groups |->
                      IF k \in due THEN [groups[k] EXCEPT !.asked = 0] ELSE groups[k]]
      /\ UNCHANGED <<seen, log, author_bytes, total_bytes, reassembled, surfaced>>

Older(n, limit) == IF n < limit THEN n + 1 ELSE limit

\* Time passes.
Tick ==
  /\ groups' = [k \in DOMAIN groups |->
                  [groups[k] EXCEPT !.idle = Older(@, Stale), !.age = Older(@, Lifetime),
                                    !.asked = Older(@, RepairIdle)]]
  /\ groups' # groups
  /\ UNCHANGED <<seen, log, author_bytes, total_bytes, reassembled, surfaced>>

Next ==
  \/ \E f \in Frames : Receive(f) \/ LogEvicts(f)
  \/ SeenAges \/ Sweep \/ RepairTickets \/ Tick

Spec == Init /\ [][Next]_vars

\* The prune timer fires, and time passes.
FairSpec == Spec /\ WF_vars(Sweep) /\ WF_vars(Tick)

-----------------------------------------------------------------------------
(* Properties *)

\* The budgets hold, and every byte charged is the byte of a slot buffered
\* now: no path that drops a group (completion, overflow, author eviction, the
\* sweep, the log's completion) leaks or releases twice (admit, evict, forget).
ChargedIsBuffered ==
  /\ \A k \in DOMAIN groups : /\ groups[k].bytes = SumOf([f \in groups[k].slots |-> f.size])
                              /\ groups[k].bytes <= GroupMax
  /\ \A a \in Authors :
       /\ author_bytes[a] = Bytes(groups, {k \in DOMAIN groups : k[1] = a})
       /\ author_bytes[a] <= AuthorBudget
  /\ total_bytes = Bytes(groups, DOMAIN groups)
  /\ total_bytes <= TotalBudget

\* A surfaced body is one whole body of one author, a slot each from 0 to
\* total, all signed by that author under that group and total (GroupKey,
\* collect_shards); and a group id surfaces once, although its shards are
\* delivered again after the dedup window forgot them, and are still in the log
\* (reassembled_groups).
SurfacedOnce ==
  /\ \A i, j \in 1..Len(surfaced) : surfaced[i].group = surfaced[j].group => i = j
  /\ \A i \in 1..Len(surfaced) :
       LET b == surfaced[i]
       IN  /\ \A f \in b.slots : Key(f) = <<b.author, b.group>> /\ f.total = b.total
           /\ {f.idx : f \in b.slots} = 0..(b.total - 1)
           /\ Cardinality(b.slots) = b.total

\* A small group is never stuck: once the log holds all of it, it has been
\* reassembled, whatever the store did with its shards meanwhile (evicted,
\* reaped, refused), and with dedup holding back every other shard
\* (reassemble_from_log).
WholeInLogIsReassembled ==
  \A f \in log :
    FitsLog(f) /\ HasAll(log, Key(f), f.total) /\ Key(f) \notin Malformed =>
      f.group \in Range(reassembled)

\* A partial group does not stay: it completes, or is reaped although shards
\* go on arriving (sweep_stale).
PartialsEnd ==
  \A k \in Keys : k \in DOMAIN groups ~> k \notin DOMAIN groups
=============================================================================
