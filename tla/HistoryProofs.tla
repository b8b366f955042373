--------------------------- MODULE HistoryProofs ---------------------------
(***************************************************************************)
(* What is true of History for every capacity, every dedup size and every  *)
(* set of frames: an overflowing push always finds its victim, the log and *)
(* the dedup set stay within their bounds, and every index stays inside the*)
(* log window however frames are reordered and repeated.                   *)
(***************************************************************************)
EXTENDS History, SequenceTheorems, FiniteSetTheorems, FunctionTheorems, NaturalsInduction,
        WellFoundedInduction, TLAPS

-----------------------------------------------------------------------------
(* Least elements, the victim, and what a push does to the log *)

\* The naturals are well ordered.
LEMMA LeastNat ==
  ASSUME NEW S \in SUBSET Nat, S # {}
  PROVE  \E x \in S : \A y \in S : x <= y
<1> DEFINE R == OpToRel(<, Nat)
<1>1. IsWellFoundedOn(R, Nat)
  BY NatLessThanWellFounded, Zenon
<1>2. \A x, y \in Nat : x < y => <<x, y>> \in R
  BY Zenon DEF OpToRel
<1> HIDE DEF R
<1>3. PICK x \in S : \A y \in S : ~ (<<y, x>> \in R)
  BY <1>1, WFMin, Zenon
<1>4. \A y \in S : ~ (y < x)
  BY <1>2, <1>3
<1> QED BY <1>4

\* What eviction needs to know of a frame.
Ranked(m) == m.pubkey \in Nat /\ m.timestamp \in Nat /\ m.id \in Nat
             /\ m.seq \in Nat \cup {NoSeq}

\* Option<u64> ordered as an integer: None is -1.
LEMMA SeqIsInt ==
  ASSUME NEW m, Ranked(m)
  PROVE  m.seq \in Int /\ m.seq + 1 \in Nat
<1>1. \A x \in Nat \cup {-1} : x \in Int /\ x + 1 \in Nat
  OBVIOUS
<1> QED BY <1>1 DEF Ranked, NoSeq

\* An overflowing log always has a fullest author (eviction_index's first
\* `expect` cannot fail), and no author outdoes it.
LEMMA FullestExists ==
  ASSUME NEW S, \A m \in S : Ranked(m), NEW full \in Seq(S), full # <<>>
  PROVE  /\ Fullest(full) \in {full[i].pubkey : i \in 1..Len(full)}
         /\ \A q \in {full[i].pubkey : i \in 1..Len(full)} :
              \/ Cardinality(HeldBy(full, Fullest(full))) > Cardinality(HeldBy(full, q))
              \/ /\ Cardinality(HeldBy(full, Fullest(full))) = Cardinality(HeldBy(full, q))
                 /\ Fullest(full) <= q
<1> DEFINE Keys == {full[i].pubkey : i \in 1..Len(full)}
           C(p) == Cardinality(HeldBy(full, p))
<1>1. Len(full) \in Nat \ {0} /\ \A i \in 1..Len(full) : full[i] \in S
  BY EmptySeq, ElementOfSeq
<1>2. Keys \subseteq Nat /\ Keys # {}
  BY <1>1 DEF Ranked
<1>3. \A p : C(p) \in 0..Len(full)
  <2> TAKE p
  <2>1. IsFiniteSet(1..Len(full)) /\ Cardinality(1..Len(full)) = Len(full)
    BY <1>1, FS_Interval
  <2>2. HeldBy(full, p) \in SUBSET (1..Len(full))
    BY DEF HeldBy
  <2>3. C(p) <= Len(full) /\ IsFiniteSet(HeldBy(full, p))
    BY <2>1, <2>2, FS_Subset
  <2>4. C(p) \in Nat
    BY <2>3, FS_CardinalityType
  <2> QED BY <1>1, <2>3, <2>4
<1> HIDE DEF C
<1> DEFINE D == {Len(full) - C(p) : p \in Keys}
<1>4. PICK d \in D : \A e \in D : d <= e
  <2>1. D \in SUBSET Nat /\ D # {}
    BY <1>1, <1>2, <1>3
  <2> HIDE DEF D
  <2> QED BY <2>1, LeastNat
<1> DEFINE P == {p \in Keys : Len(full) - C(p) = d}
<1>5. PICK p \in P : \A q \in P : p <= q
  <2>1. P \in SUBSET Nat /\ P # {}
    BY <1>2, <1>4
  <2> HIDE DEF P
  <2> QED BY <2>1, LeastNat
<1>6. p \in Keys /\ \A q \in Keys : C(p) > C(q) \/ (C(p) = C(q) /\ p <= q)
  <2> SUFFICES ASSUME NEW q \in Keys PROVE C(p) > C(q) \/ (C(p) = C(q) /\ p <= q)
    BY <1>5
  <2>1. Len(full) - C(p) = d /\ d <= Len(full) - C(q)
    BY <1>4, <1>5
  <2>2. C(p) >= C(q)
    BY <1>1, <1>3, <2>1
  <2>3. C(p) = C(q) => p <= q
    BY <1>5, <2>1
  <2> QED BY <1>3, <2>2, <2>3
<1> QED BY <1>6 DEF Fullest, C

\* ... and that author a first frame to go (the second `expect`).
LEMMA VictimExists ==
  ASSUME NEW S, \A m \in S : Ranked(m), NEW full \in Seq(S), full # <<>>
  PROVE  /\ EvictionIndex(full) \in 1..Len(full)
         /\ EvictionIndex(full) \in HeldBy(full, Fullest(full))
         /\ \A j \in HeldBy(full, Fullest(full)) :
              \/ EvictsBefore(full[EvictionIndex(full)], full[j])
              \/ ~EvictsBefore(full[j], full[EvictionIndex(full)])
<1> DEFINE mine == HeldBy(full, Fullest(full))
<1>1. Len(full) \in Nat /\ \A i \in 1..Len(full) : full[i] \in S
  BY LenProperties, ElementOfSeq
<1>2. mine \subseteq 1..Len(full) /\ mine # {}
  BY FullestExists DEF HeldBy
<1>3. \A i \in mine : Ranked(full[i]) /\ i \in Nat
  BY <1>1, <1>2
<1> HIDE DEF mine
<1> DEFINE T == {full[i].timestamp : i \in mine}
<1>4. PICK t \in T : \A u \in T : t <= u
  <2>1. T \in SUBSET Nat /\ T # {}
    BY <1>2, <1>3 DEF Ranked
  <2> HIDE DEF T
  <2> QED BY <2>1, LeastNat
<1> DEFINE M1 == {i \in mine : full[i].timestamp = t}
           Q == {full[i].seq + 1 : i \in M1}
<1>5. PICK q \in Q : \A u \in Q : q <= u
  <2>1. Q \in SUBSET Nat /\ Q # {}
    BY <1>3, <1>4, SeqIsInt
  <2> HIDE DEF Q
  <2> QED BY <2>1, LeastNat
<1> DEFINE M2 == {i \in M1 : full[i].seq + 1 = q}
           I == {full[i].id : i \in M2}
<1>6. PICK d \in I : \A u \in I : d <= u
  <2>1. I \in SUBSET Nat /\ I # {}
    BY <1>3, <1>5 DEF Ranked
  <2> HIDE DEF I
  <2> QED BY <2>1, LeastNat
<1> DEFINE M3 == {i \in M2 : full[i].id = d}
<1>7. PICK i \in M3 : \A j \in M3 : i <= j
  <2>1. M3 \in SUBSET Nat /\ M3 # {}
    BY <1>3, <1>6
  <2> HIDE DEF M3
  <2> QED BY <2>1, LeastNat
<1>8. \A j \in mine : \/ EvictsBefore(full[i], full[j])
                      \/ ~EvictsBefore(full[j], full[i]) /\ i <= j
  <2> SUFFICES ASSUME NEW j \in mine
               PROVE  \/ EvictsBefore(full[i], full[j])
                      \/ ~EvictsBefore(full[j], full[i]) /\ i <= j
    OBVIOUS
  <2> DEFINE a == full[i]
             b == full[j]
  <2>a. /\ i \in mine /\ i \in Nat /\ j \in Nat
        /\ Ranked(a) /\ Ranked(b)
    BY <1>3, <1>7
  <2>0. /\ i \in mine /\ i \in Nat /\ j \in Nat
        /\ a.timestamp \in Nat /\ a.seq \in Int /\ a.id \in Nat
        /\ b.timestamp \in Nat /\ b.seq \in Int /\ b.id \in Nat
    <3> HIDE DEF a, b
    <3>1. a.seq \in Int /\ b.seq \in Int
      BY <2>a, SeqIsInt, Zenon
    <3> QED BY <2>a, <3>1, Zenon DEF Ranked
  <2>1. a.timestamp <= b.timestamp
    BY <1>4, <1>7
  <2>2. ASSUME a.timestamp = b.timestamp PROVE a.seq <= b.seq
    <3>1. j \in M1 /\ a.seq + 1 = q
      BY <1>7, <2>2
    <3>2. q <= b.seq + 1
      BY <1>5, <3>1
    <3> QED BY <2>0, <3>1, <3>2
  <2>3. ASSUME a.timestamp = b.timestamp, a.seq = b.seq PROVE a.id <= b.id
    BY <1>6, <1>7, <2>3
  <2>4. ASSUME a.timestamp = b.timestamp, a.seq = b.seq, a.id = b.id PROVE i <= j
    BY <1>7, <2>4
  <2> HIDE DEF a, b
  <2>5. EvictsBefore(a, b) \/ (~EvictsBefore(b, a) /\ i <= j)
    <3>1. CASE a.timestamp # b.timestamp
      BY <2>0, <2>1, <3>1 DEF EvictsBefore
    <3>2. CASE a.timestamp = b.timestamp /\ a.seq # b.seq
      BY <2>0, <2>2, <3>2 DEF EvictsBefore
    <3>3. CASE a.timestamp = b.timestamp /\ a.seq = b.seq
      BY <2>0, <2>3, <2>4, <3>3 DEF EvictsBefore
    <3> QED BY <3>1, <3>2, <3>3
  <2> QED BY <2>5 DEF a, b
<1>9. /\ EvictionIndex(full) \in mine
      /\ \A j \in mine : \/ EvictsBefore(full[EvictionIndex(full)], full[j])
                         \/ ~EvictsBefore(full[j], full[EvictionIndex(full)])
  BY <1>7, <1>8 DEF EvictionIndex, mine
<1> QED BY <1>2, <1>9 DEF mine

\* What a push leaves: everything it held and the new frame, but the victim.
LEMMA PushFacts ==
  ASSUME NEW S, \A k \in S : Ranked(k), NEW old \in Seq(S), NEW m \in S,
         Len(old) <= Capacity
  PROVE  /\ Push(old, m) \in Seq(S)
         /\ Len(Push(old, m)) <= Capacity
         /\ Evicted(old, m) \subseteq S
         /\ (Entries(old) \cup {m}) \ Evicted(old, m) \subseteq Entries(Push(old, m))
<1> DEFINE full == Append(old, m)
           v == EvictionIndex(full)
<1>1. /\ full \in Seq(S) /\ Len(full) = Len(old) + 1 /\ full # <<>>
      /\ \A i \in 1..Len(old) : full[i] = old[i]
      /\ full[Len(old) + 1] = m
      /\ Len(old) \in Nat
  BY AppendProperties, LenProperties, EmptySeq
<1>2. Capacity \in Nat \ {0}
  BY CapacityAssumption
<1>3. Entries(old) \cup {m} \subseteq Entries(full)
  BY <1>1 DEF Entries
<1>4. v \in 1..Len(full)
  BY <1>1, VictimExists
<1>5. \A i \in 1..Len(full) : full[i] \in S
  BY <1>1, ElementOfSeq
<1> HIDE DEF full, v
<1>6. CASE ~Overflows(old, m)
  <2>1. Push(old, m) = full /\ Evicted(old, m) = {}
    BY <1>6 DEF Push, Evicted, full
  <2>2. Len(old) < Capacity
    BY <1>1, <1>2, <1>6 DEF Overflows
  <2> QED BY <1>1, <1>2, <1>3, <2>1, <2>2
<1>7. CASE Overflows(old, m)
  <2> DEFINE rest == Without(full, v)
  <2>1. Push(old, m) = rest /\ Evicted(old, m) = {full[v]}
    BY <1>7 DEF Push, Evicted, full, v
  <2>2. Len(old) = Capacity
    BY <1>1, <1>2, <1>7 DEF Overflows
  <2>3. \A j \in 1..Len(old) : (IF j < v THEN full[j] ELSE full[j + 1]) \in S
    BY <1>1, <1>4, <1>5
  <2>4. rest \in Seq(S) /\ Len(rest) = Len(old)
    BY <1>1, <2>3 DEF Without
  <2>5. \A j \in 1..Len(old) : rest[j] = IF j < v THEN full[j] ELSE full[j + 1]
    BY <1>1 DEF Without
  <2>6. \A i \in 1..Len(full) : i # v => \E j \in 1..Len(old) : rest[j] = full[i]
    <3> SUFFICES ASSUME NEW i \in 1..Len(full), i # v
                 PROVE  \E j \in 1..Len(old) : rest[j] = full[i]
      OBVIOUS
    <3>1. CASE i < v
      BY <1>1, <1>4, <2>5, <3>1
    <3>2. CASE i > v
      <4>1. i - 1 \in 1..Len(old) /\ ~(i - 1 < v) /\ (i - 1) + 1 = i
        BY <1>1, <1>4, <3>2
      <4> QED BY <2>5, <4>1
    <3> QED BY <1>1, <1>4, <3>1, <3>2
  <2>7. Entries(full) \ {full[v]} \subseteq Entries(rest)
    BY <2>4, <2>6 DEF Entries
  <2> HIDE DEF rest
  <2> QED BY <1>2, <1>3, <1>4, <1>5, <2>1, <2>2, <2>4, <2>7
<1> QED BY <1>6, <1>7

-----------------------------------------------------------------------------
(* The inductive invariant and its preservation *)

\* TypeOK bounds what the indexes hold; IndexBounded and NoFalseFork need each
\* other: a flag is justified by the evidence recorded when it is raised.
IInv == TypeOK /\ IndexBounded /\ NoFalseFork

\* Every frame of the mesh has what eviction reads.
LEMMA FrameFacts == \A m \in AllFrames : Ranked(m)
BY FramesAssumption DEF AllFrames, Ranked

\* A log of frames of S holds only frames of S.
LEMMA EntriesIn ==
  ASSUME NEW S, NEW s \in Seq(S)
  PROVE  Entries(s) \subseteq S
BY LenProperties, ElementOfSeq DEF Entries

\* Inserting an absent id keeps the dedup set typed and within its cap.
LEMMA SeenFacts ==
  ASSUME TypeOK, NEW m \in AllFrames
  PROVE  /\ SeenAfter(m.id) \in Seq({k.id : k \in AllFrames})
         /\ Len(SeenAfter(m.id)) <= SeenCap
<1> DEFINE Ids == {k.id : k \in AllFrames}
<1>1. seen \in Seq(Ids) /\ Len(seen) <= SeenCap /\ Len(seen) \in Nat
  BY LenProperties DEF TypeOK
<1>2. SeenCap \in Nat \ {0}
  BY SeenCapAssumption
<1>3. m.id \in Ids
  OBVIOUS
<1> HIDE DEF Ids
<1>4. CASE Len(seen) >= SeenCap
  <2>1. seen # <<>>
    BY <1>1, <1>2, <1>4, EmptySeq
  <2>2. Tail(seen) \in Seq(Ids) /\ Len(Tail(seen)) = Len(seen) - 1
    BY <1>1, <2>1, HeadTailProperties
  <2>3. SeenAfter(m.id) = Append(Tail(seen), m.id)
    BY <1>4 DEF SeenAfter
  <2> QED BY <1>1, <1>2, <1>3, <2>2, <2>3, AppendProperties DEF Ids
<1>5. CASE ~(Len(seen) >= SeenCap)
  <2>1. SeenAfter(m.id) = Append(seen, m.id)
    BY <1>5 DEF SeenAfter
  <2> QED BY <1>1, <1>2, <1>3, <1>5, <2>1, AppendProperties DEF Ids
<1> QED BY <1>4, <1>5

\* Fork evidence after note_msg_seq: still one frame per slot, and every flag
\* has evidence and two conflicting frames behind it.
LEMMA NotingFacts ==
  ASSUME IInv, NEW m \in AllFrames
  PROVE  /\ SeqsNoting(m) \subseteq {k \in Entries(log) \cup {m} : k.chained /\ k.seq # NoSeq}
         /\ \A r, s \in SeqsNoting(m) : r.pubkey = s.pubkey /\ r.seq = s.seq => r = s
         /\ ForkedNoting(m) \subseteq {r.pubkey : r \in SeqsNoting(m)}
         /\ \A p \in ForkedNoting(m) : \E a, b \in ingested \cup {m} :
              /\ a.pubkey = p /\ b.pubkey = p /\ a.chained /\ b.chained
              /\ a.seq # NoSeq /\ a.seq = b.seq /\ a # b
<1>1. /\ author_seqs \subseteq {k \in Entries(log) : k.chained /\ k.seq # NoSeq}
      /\ \A r, s \in author_seqs : r.pubkey = s.pubkey /\ r.seq = s.seq => r = s
      /\ forked \subseteq {r.pubkey : r \in author_seqs}
      /\ author_seqs \subseteq ingested
  BY DEF IInv, IndexBounded, TypeOK
<1>2. SeqsNoting(m) \subseteq {k \in Entries(log) \cup {m} : k.chained /\ k.seq # NoSeq}
  BY <1>1 DEF SeqsNoting
<1>3. \A r, s \in SeqsNoting(m) : r.pubkey = s.pubkey /\ r.seq = s.seq => r = s
  BY <1>1 DEF SeqsNoting, RecordedAt
<1>4. ForkedNoting(m) \subseteq {r.pubkey : r \in SeqsNoting(m)}
  BY <1>1 DEF ForkedNoting, SeqsNoting, Equivocates, RecordedAt
<1>5. ASSUME NEW p \in ForkedNoting(m)
      PROVE  \E a, b \in ingested \cup {m} :
               /\ a.pubkey = p /\ b.pubkey = p /\ a.chained /\ b.chained
               /\ a.seq # NoSeq /\ a.seq = b.seq /\ a # b
  <2>1. CASE p \in forked
    BY <2>1 DEF IInv, NoFalseFork
  <2>2. CASE p \notin forked
    <3>1. p = m.pubkey /\ m.chained /\ Equivocates(m)
      BY <1>5, <2>2 DEF ForkedNoting
    <3>2. PICK r \in author_seqs : r.pubkey = m.pubkey /\ r.seq = m.seq /\ r # m
      BY <3>1 DEF Equivocates, RecordedAt
    <3>3. r \in ingested /\ r.chained /\ m.seq # NoSeq
      BY <1>1, <3>1, <3>2 DEF Equivocates
    <3> QED BY <3>1, <3>2, <3>3
  <2> QED BY <2>1, <2>2
<1> QED BY <1>2, <1>3, <1>4, <1>5

\* Pruning what a push evicts keeps the fork indexes inside the log.
LEMMA ForgettingFacts ==
  ASSUME NEW seqs, NEW flags, NEW gone, NEW before, NEW after,
         before \ gone \subseteq after,
         seqs \subseteq {k \in before : k.chained /\ k.seq # NoSeq},
         flags \subseteq {r.pubkey : r \in seqs}
  PROVE  /\ SeqsForgetting(seqs, gone) \subseteq {k \in after : k.chained /\ k.seq # NoSeq}
         /\ ForkedForgetting(flags, seqs, gone) \subseteq
              {r.pubkey : r \in SeqsForgetting(seqs, gone)}
<1>1. SeqsForgetting(seqs, gone) \subseteq {k \in after : k.chained /\ k.seq # NoSeq}
  BY DEF SeqsForgetting
<1>2. ASSUME NEW p \in ForkedForgetting(flags, seqs, gone)
      PROVE  \E r \in SeqsForgetting(seqs, gone) : r.pubkey = p
  <2>1. p \in flags /\ ~ \E k \in gone : /\ k \in seqs /\ k.pubkey = p
                                       /\ ~ \E r \in seqs \ gone : r.pubkey = p
    BY DEF ForkedForgetting
  <2>2. PICK r \in seqs : r.pubkey = p
    BY <2>1
  <2>3. CASE r \in gone
    BY <2>1, <2>2, <2>3 DEF SeqsForgetting
  <2>4. CASE r \notin gone
    BY <2>2, <2>4 DEF SeqsForgetting
  <2> QED BY <2>3, <2>4
<1> QED BY <1>1, <1>2

\* A fresh member satisfies the invariant.
LEMMA InitIInv == Init => IInv
<1> SUFFICES ASSUME Init PROVE IInv
  OBVIOUS
<1>1. Entries(log) = {} /\ log \in Seq(ingested) /\ Len(log) = 0
  BY EmptySeq DEF Init, Entries
<1>2. seen \in Seq({m.id : m \in AllFrames}) /\ Len(seen) = 0
  BY EmptySeq DEF Init
<1>3. TypeOK
  BY <1>1, <1>2, CapacityAssumption, SeenCapAssumption DEF Init, TypeOK
<1>4. IndexBounded /\ NoFalseFork
  BY DEF Init, IndexBounded, NoFalseFork
<1> QED BY <1>3, <1>4 DEF IInv

\* The log and the frames ever pushed, after a push of a frame of the mesh.
LEMMA PushStep ==
  ASSUME IInv, NEW m \in AllFrames, log' = Push(log, m), ingested' = ingested \cup {m}
  PROVE  /\ log' \in Seq(ingested') /\ Len(log') <= Capacity
         /\ ingested' \subseteq AllFrames
         /\ Evicted(log, m) \subseteq ingested'
         /\ (Entries(log) \cup {m}) \ Evicted(log, m) \subseteq Entries(log')
         /\ Entries(log) \subseteq ingested
<1> DEFINE S == ingested \cup {m}
<1>1. log \in Seq(ingested) /\ Len(log) <= Capacity /\ ingested \subseteq AllFrames
  BY DEF IInv, TypeOK
<1>2. log \in Seq(S)
  BY <1>1, SeqMonotonic
<1>3. \A k \in S : Ranked(k)
  BY <1>1, FrameFacts
<1>4. Entries(log) \subseteq ingested
  BY <1>1, EntriesIn
<1>5. m \in S
  OBVIOUS
<1> HIDE DEF S
<1>6. /\ Push(log, m) \in Seq(S)
      /\ Len(Push(log, m)) <= Capacity
      /\ Evicted(log, m) \subseteq S
      /\ (Entries(log) \cup {m}) \ Evicted(log, m) \subseteq Entries(Push(log, m))
  BY <1>1, <1>2, <1>3, <1>5, PushFacts
<1> QED BY <1>1, <1>4, <1>6 DEF S

\* retain_and_index keeps every conjunct about the log and its indexes.
LEMMA RetainStep ==
  ASSUME IInv, NEW m \in AllFrames, RetainAndIndex(m)
  PROVE  /\ log' \in Seq(ingested') /\ Len(log') <= Capacity
         /\ ingested' \subseteq AllFrames
         /\ author_seqs' \subseteq ingested' /\ by_hash' \subseteq ingested'
         /\ dag_heads' \subseteq ingested'
         /\ forked' \subseteq {k.pubkey : k \in AllFrames}
         /\ IndexBounded' /\ NoFalseFork'
<1> DEFINE gone == Evicted(log, m)
           before == Entries(log) \cup {m}
           after == Entries(log')
           seqs == SeqsNoting(m)
           flags == ForkedNoting(m)
<1>1. /\ log' = Push(log, m) /\ ingested' = ingested \cup {m}
      /\ author_seqs' = SeqsForgetting(seqs, gone)
      /\ forked' = ForkedForgetting(flags, seqs, gone)
      /\ by_hash' = HashesNoting(m) \ gone
      /\ dag_heads' = HeadsNoting(m) \ gone
  BY DEF RetainAndIndex
<1>2. /\ log' \in Seq(ingested') /\ Len(log') <= Capacity
      /\ ingested' \subseteq AllFrames
      /\ before \ gone \subseteq after
      /\ before \subseteq ingested'
  BY <1>1, PushStep
<1>3. /\ seqs \subseteq {k \in before : k.chained /\ k.seq # NoSeq}
      /\ \A r, s \in seqs : r.pubkey = s.pubkey /\ r.seq = s.seq => r = s
      /\ flags \subseteq {r.pubkey : r \in seqs}
      /\ \A p \in flags : \E a, b \in ingested' :
            /\ a.pubkey = p /\ b.pubkey = p /\ a.chained /\ b.chained
            /\ a.seq # NoSeq /\ a.seq = b.seq /\ a # b
  BY <1>1, NotingFacts
<1>4. by_hash \subseteq {k \in Entries(log) : k.chained} /\ dag_heads \subseteq by_hash
  BY DEF IInv, IndexBounded
<1>5. /\ HashesNoting(m) \subseteq {k \in before : k.chained}
      /\ HeadsNoting(m) \subseteq HashesNoting(m)
  BY <1>4 DEF HashesNoting, HeadsNoting
<1> HIDE DEF gone, before, after, seqs, flags
<1>6. /\ author_seqs' \subseteq {k \in after : k.chained /\ k.seq # NoSeq}
      /\ forked' \subseteq {r.pubkey : r \in author_seqs'}
  BY <1>1, <1>2, <1>3, ForgettingFacts
<1>7. author_seqs' \subseteq seqs /\ forked' \subseteq flags
  BY <1>1 DEF SeqsForgetting, ForkedForgetting
<1>8. by_hash' \subseteq {k \in after : k.chained} /\ dag_heads' \subseteq by_hash'
  BY <1>1, <1>2, <1>5
<1>9. after \subseteq ingested'
  BY <1>2, EntriesIn DEF after
<1>10. IndexBounded'
  BY <1>3, <1>6, <1>7, <1>8 DEF IndexBounded, after
<1>11. NoFalseFork'
  BY <1>3, <1>7 DEF NoFalseFork
<1> QED BY <1>2, <1>6, <1>8, <1>9, <1>10, <1>11

\* A push of a frame of our own, which is never indexed, does too.
LEMMA OwnStep ==
  ASSUME IInv, NEW m \in OwnFrames, RetainOwn(m)
  PROVE  IInv'
<1> DEFINE gone == Evicted(log, m)
           before == Entries(log) \cup {m}
           after == Entries(log')
<1>0. m \in AllFrames
  BY DEF AllFrames
<1>1. /\ log' = Push(log, m) /\ ingested' = ingested \cup {m}
      /\ author_seqs' = SeqsForgetting(author_seqs, gone)
      /\ forked' = ForkedForgetting(forked, author_seqs, gone)
      /\ by_hash' = by_hash \ gone
      /\ dag_heads' = dag_heads \ gone
      /\ seen' = IF m.id \in SeenIds THEN seen ELSE SeenAfter(m.id)
  BY DEF RetainOwn
<1>2. /\ log' \in Seq(ingested') /\ Len(log') <= Capacity
      /\ ingested' \subseteq AllFrames
      /\ before \ gone \subseteq after
      /\ before \subseteq ingested'
  BY <1>0, <1>1, PushStep
<1>3. /\ author_seqs \subseteq {k \in before : k.chained /\ k.seq # NoSeq}
      /\ forked \subseteq {r.pubkey : r \in author_seqs}
      /\ by_hash \subseteq {k \in before : k.chained} /\ dag_heads \subseteq by_hash
      /\ \A r, s \in author_seqs : r.pubkey = s.pubkey /\ r.seq = s.seq => r = s
  BY DEF IInv, IndexBounded
<1>4. seen' \in Seq({k.id : k \in AllFrames}) /\ Len(seen') <= SeenCap
  BY <1>0, <1>1, SeenFacts DEF IInv, TypeOK
<1> HIDE DEF gone, before, after
<1>5. /\ author_seqs' \subseteq {k \in after : k.chained /\ k.seq # NoSeq}
      /\ forked' \subseteq {r.pubkey : r \in author_seqs'}
  BY <1>1, <1>2, <1>3, ForgettingFacts
<1>6. author_seqs' \subseteq author_seqs /\ forked' \subseteq forked
  BY <1>1 DEF SeqsForgetting, ForkedForgetting
<1>7. by_hash' \subseteq {k \in after : k.chained} /\ dag_heads' \subseteq by_hash'
  BY <1>1, <1>2, <1>3
<1>8. after \subseteq ingested'
  BY <1>2, EntriesIn DEF after
<1>9. IndexBounded'
  BY <1>3, <1>5, <1>6, <1>7 DEF IndexBounded, after
<1>10. NoFalseFork'
  <2> SUFFICES ASSUME NEW p \in forked'
               PROVE  \E a, b \in ingested' :
                        /\ a.pubkey = p /\ b.pubkey = p /\ a.chained /\ b.chained
                        /\ a.seq # NoSeq /\ a.seq = b.seq /\ a # b
    BY DEF NoFalseFork
  <2> QED BY <1>1, <1>6 DEF IInv, NoFalseFork
<1>11. TypeOK'
  BY <1>2, <1>4, <1>5, <1>7, <1>8 DEF TypeOK, AllFrames
<1> QED BY <1>9, <1>10, <1>11 DEF IInv

\* A received frame, loggable or not, preserves the invariant.
LEMMA IngestStep ==
  ASSUME IInv, NEW m \in Frames, Ingest(m)
  PROVE  IInv'
<1>0. m \in AllFrames
  BY DEF AllFrames
<1>1. seen' \in Seq({k.id : k \in AllFrames}) /\ Len(seen') <= SeenCap
  BY <1>0, SeenFacts DEF Ingest, IInv
<1>2. CASE m.loggable
  <2>1. RetainAndIndex(m)
    BY <1>2 DEF Ingest
  <2>2. /\ log' \in Seq(ingested') /\ Len(log') <= Capacity
        /\ ingested' \subseteq AllFrames
        /\ author_seqs' \subseteq ingested' /\ by_hash' \subseteq ingested'
        /\ dag_heads' \subseteq ingested'
        /\ forked' \subseteq {k.pubkey : k \in AllFrames}
        /\ IndexBounded' /\ NoFalseFork'
    BY <1>0, <2>1, RetainStep
  <2>3. TypeOK'
    BY <1>1, <2>2 DEF TypeOK, AllFrames
  <2> QED BY <2>2, <2>3 DEF IInv
<1>3. CASE ~m.loggable
  <2>1. UNCHANGED <<log, ingested, author_seqs, forked, by_hash, dag_heads>>
    BY <1>3 DEF Ingest, indexes
  <2> QED BY <1>1, <2>1 DEF IInv, TypeOK, IndexBounded, NoFalseFork, Entries, AllFrames
<1> QED BY <1>2, <1>3

\* Every step preserves the invariant.
LEMMA NextIInv == IInv /\ [Next]_vars => IInv'
<1> SUFFICES ASSUME IInv, [Next]_vars PROVE IInv'
  OBVIOUS
<1>1. CASE \E m \in Frames : Ingest(m)
  BY <1>1, IngestStep
<1>2. CASE \E m \in OwnFrames : RetainOwn(m)
  BY <1>2, OwnStep
<1>3. CASE UNCHANGED vars
  BY <1>3 DEF vars, IInv, TypeOK, IndexBounded, NoFalseFork, Entries, AllFrames
<1> QED BY <1>1, <1>2, <1>3 DEF Next

-----------------------------------------------------------------------------
(* Retention is canonical: the order of retention, and what a push keeps   *)

\* What the retention order needs of a set of frames.
Comparable(S) ==
  /\ IsFiniteSet(S)
  /\ \A m \in S : Ranked(m)
  /\ \A a, b \in S : a.id = b.id => a = b

\* The frames RankIn counts.
NewerIn(S, m) == {k \in S : k.pubkey = m.pubkey /\ ~EvictsBefore(k, m)}

\* L is the Capacity first frames of S, or all of it.
Top(S, L) ==
  /\ L \subseteq S
  /\ Cardinality(L) <= Capacity
  /\ Cardinality(L) < Capacity => L = S
  /\ \A y \in L, x \in S \ L : KeptBefore(S, y, x)

\* eviction_key is a strict order, total on frames of different ids.
LEMMA EvictionOrder ==
  ASSUME NEW a, NEW b, NEW c, Ranked(a), Ranked(b), Ranked(c)
  PROVE  /\ ~EvictsBefore(a, a)
         /\ EvictsBefore(a, b) => ~EvictsBefore(b, a)
         /\ EvictsBefore(a, b) /\ EvictsBefore(b, c) => EvictsBefore(a, c)
         /\ a.id # b.id => EvictsBefore(a, b) \/ EvictsBefore(b, a)
<1>1. a.seq \in Int /\ b.seq \in Int /\ c.seq \in Int
  BY SeqIsInt, Zenon
<1>2. /\ a.timestamp \in Nat /\ b.timestamp \in Nat /\ c.timestamp \in Nat
      /\ a.id \in Nat /\ b.id \in Nat /\ c.id \in Nat
  BY Zenon DEF Ranked
<1> QED BY <1>1, <1>2 DEF EvictsBefore

\* A subset of comparable frames is comparable.
LEMMA ComparableSubset ==
  ASSUME NEW S, Comparable(S), NEW L \in SUBSET S
  PROVE  Comparable(L)
BY FS_Subset DEF Comparable

\* Ranks are numbers; an author's newer frame has the smaller one.
LEMMA RankFacts ==
  ASSUME NEW S, Comparable(S), NEW a \in S, NEW b \in S
  PROVE  /\ RankIn(S, a) \in Nat
         /\ RankIn(S, a) = Cardinality(NewerIn(S, a)) /\ IsFiniteSet(NewerIn(S, a))
         /\ a.pubkey = b.pubkey /\ EvictsBefore(b, a) => RankIn(S, a) < RankIn(S, b)
<1>1. /\ NewerIn(S, a) \subseteq S /\ NewerIn(S, b) \subseteq S /\ IsFiniteSet(S)
      /\ b \in NewerIn(S, b)
  BY EvictionOrder DEF NewerIn, Comparable
<1>2. /\ IsFiniteSet(NewerIn(S, a)) /\ IsFiniteSet(NewerIn(S, b))
      /\ Cardinality(NewerIn(S, a)) \in Nat /\ Cardinality(NewerIn(S, b)) \in Nat
  BY <1>1, FS_Subset, FS_CardinalityType
<1>3. RankIn(S, a) = Cardinality(NewerIn(S, a)) /\ RankIn(S, b) = Cardinality(NewerIn(S, b))
  BY DEF RankIn, NewerIn
<1>4. ASSUME a.pubkey = b.pubkey, EvictsBefore(b, a) PROVE RankIn(S, a) < RankIn(S, b)
  <2>1. NewerIn(S, a) \subseteq NewerIn(S, b) \ {b}
    <3> SUFFICES ASSUME NEW k \in NewerIn(S, a) PROVE k \in NewerIn(S, b) /\ k # b
      OBVIOUS
    <3>1. k \in S /\ k.pubkey = a.pubkey /\ ~EvictsBefore(k, a)
      BY DEF NewerIn
    <3>2. k # b
      BY <1>4, <3>1
    <3>3. Ranked(k) /\ Ranked(a) /\ Ranked(b) /\ (k = a \/ k.id # a.id)
      BY <3>1 DEF Comparable
    <3>4. k = a \/ EvictsBefore(a, k)
      BY <3>1, <3>3, EvictionOrder
    <3>5. EvictsBefore(b, k)
      BY <1>4, <3>3, <3>4, EvictionOrder
    <3>6. ~EvictsBefore(k, b)
      BY <3>3, <3>5, EvictionOrder
    <3> QED BY <1>4, <3>1, <3>2, <3>6 DEF NewerIn
  <2>2. /\ IsFiniteSet(NewerIn(S, b) \ {b})
        /\ Cardinality(NewerIn(S, b) \ {b}) = Cardinality(NewerIn(S, b)) - 1
    BY <1>1, <1>2, FS_RemoveElement
  <2>3. Cardinality(NewerIn(S, a)) <= Cardinality(NewerIn(S, b) \ {b})
    BY <2>1, <2>2, FS_Subset
  <2> QED BY <1>2, <1>3, <2>2, <2>3
<1> QED BY <1>2, <1>3, <1>4

\* Within an author's frames, rank and eviction order say the same.
LEMMA RankOrder ==
  ASSUME NEW S, Comparable(S), NEW a \in S, NEW b \in S, a.pubkey = b.pubkey
  PROVE  /\ RankIn(S, a) < RankIn(S, b) <=> EvictsBefore(b, a)
         /\ RankIn(S, a) = RankIn(S, b) <=> a = b
<1>1. Ranked(a) /\ Ranked(b) /\ (a = b \/ a.id # b.id)
  BY DEF Comparable
<1>2. a = b \/ EvictsBefore(a, b) \/ EvictsBefore(b, a)
  BY <1>1, EvictionOrder
<1>3. EvictsBefore(b, a) => RankIn(S, a) < RankIn(S, b)
  BY RankFacts
<1>4. EvictsBefore(a, b) => RankIn(S, b) < RankIn(S, a)
  BY RankFacts
<1>5. RankIn(S, a) \in Nat /\ RankIn(S, b) \in Nat
  BY RankFacts
<1>6. ~EvictsBefore(a, a)
  BY <1>1, EvictionOrder
<1> QED BY <1>2, <1>3, <1>4, <1>5, <1>6

\* The retention order is a strict one.
LEMMA KeptOrder ==
  ASSUME NEW S, Comparable(S), NEW a \in S, NEW b \in S
  PROVE  /\ ~KeptBefore(S, a, a)
         /\ KeptBefore(S, a, b) => ~KeptBefore(S, b, a)
<1>1. RankIn(S, a) \in Nat /\ RankIn(S, b) \in Nat
  BY RankFacts
<1>2. a.pubkey \in Nat /\ b.pubkey \in Nat
  BY DEF Comparable, Ranked
<1> QED BY <1>1, <1>2 DEF KeptBefore

\* A new frame adds one to the rank of its author's older frames.
LEMMA RankGrows ==
  ASSUME NEW S, NEW m, m \notin S, Comparable(S \cup {m}), NEW x \in S
  PROVE  RankIn(S \cup {m}, x) =
           IF m.pubkey = x.pubkey /\ EvictsBefore(x, m) THEN RankIn(S, x) + 1 ELSE RankIn(S, x)
<1>1. S \in SUBSET (S \cup {m}) /\ m \in S \cup {m} /\ x \in S \cup {m}
  OBVIOUS
<1>2. Comparable(S)
  BY <1>1, ComparableSubset
<1>3. Ranked(m) /\ Ranked(x) /\ m.id # x.id
  BY <1>1 DEF Comparable
<1>4. EvictsBefore(x, m) <=> ~EvictsBefore(m, x)
  BY <1>3, EvictionOrder
<1>5. /\ RankIn(S, x) = Cardinality(NewerIn(S, x)) /\ IsFiniteSet(NewerIn(S, x))
      /\ RankIn(S \cup {m}, x) = Cardinality(NewerIn(S \cup {m}, x))
  BY <1>1, <1>2, RankFacts
<1>6. CASE m.pubkey = x.pubkey /\ EvictsBefore(x, m)
  <2>1. NewerIn(S \cup {m}, x) = NewerIn(S, x) \cup {m} /\ m \notin NewerIn(S, x)
    BY <1>4, <1>6 DEF NewerIn
  <2> QED BY <1>5, <1>6, <2>1, FS_AddElement
<1>7. CASE ~(m.pubkey = x.pubkey /\ EvictsBefore(x, m))
  <2>1. NewerIn(S \cup {m}, x) = NewerIn(S, x)
    BY <1>4, <1>7 DEF NewerIn
  <2> QED BY <1>5, <1>7, <2>1
<1> QED BY <1>6, <1>7

\* The Capacity first frames of S are those with fewer than Capacity before
\* them: Top is the invariant form of Canonical.
LEMMA TopIsCanonical ==
  ASSUME NEW S, Comparable(S), NEW L, Top(S, L)
  PROVE  L = Canonical(S)
<1> DEFINE Pre(x) == {k \in S : KeptBefore(S, k, x)}
<1>1. /\ L \subseteq S /\ IsFiniteSet(S) /\ Capacity \in Nat \ {0}
      /\ Cardinality(L) <= Capacity /\ (Cardinality(L) < Capacity => L = S)
      /\ \A y \in L, x \in S \ L : KeptBefore(S, y, x)
  BY CapacityAssumption DEF Comparable, Top
<1>2. IsFiniteSet(L) /\ Cardinality(L) \in Nat
  BY <1>1, FS_Subset, FS_CardinalityType
<1>3. ASSUME NEW y \in L PROVE Cardinality(Pre(y)) < Capacity
  <2>1. Pre(y) \subseteq L \ {y}
    BY <1>1, KeptOrder
  <2>2. IsFiniteSet(L \ {y}) /\ Cardinality(L \ {y}) = Cardinality(L) - 1
    BY <1>2, FS_RemoveElement
  <2>3. Cardinality(Pre(y)) <= Cardinality(L \ {y}) /\ IsFiniteSet(Pre(y))
    BY <2>1, <2>2, FS_Subset
  <2>4. Cardinality(Pre(y)) \in Nat
    BY <2>3, FS_CardinalityType
  <2> QED BY <1>1, <1>2, <2>2, <2>3, <2>4
<1>4. ASSUME NEW x \in S, x \notin L PROVE ~(Cardinality(Pre(x)) < Capacity)
  <2>1. L \subseteq Pre(x) /\ Pre(x) \subseteq S
    BY <1>1, <1>4
  <2>2. IsFiniteSet(Pre(x)) /\ Cardinality(Pre(x)) \in Nat
    BY <1>1, <2>1, FS_Subset, FS_CardinalityType
  <2>3. Cardinality(L) <= Cardinality(Pre(x))
    BY <2>1, <2>2, FS_Subset
  <2>4. ~(Cardinality(L) < Capacity)
    BY <1>1, <1>4
  <2> QED BY <1>1, <1>2, <2>2, <2>3, <2>4
<1>5. Canonical(S) = {x \in S : Cardinality(Pre(x)) < Capacity}
  BY DEF Canonical
<1> HIDE DEF Pre
<1> QED BY <1>1, <1>3, <1>4, <1>5

\* The frames kept of an author are its newest, so their rank among the kept
\* is their rank among all.
LEMMA RankAmongKept ==
  ASSUME NEW S, Comparable(S), NEW L, Top(S, L), NEW z \in L
  PROVE  /\ RankIn(L, z) = RankIn(S, z)
         /\ \A x \in S \ L : x.pubkey = z.pubkey => EvictsBefore(x, z)
<1>1. /\ L \in SUBSET S /\ z \in S
      /\ \A x \in S \ L : KeptBefore(S, z, x)
  BY DEF Top
<1>2. ASSUME NEW x \in S \ L, x.pubkey = z.pubkey PROVE EvictsBefore(x, z)
  <2>1. RankIn(S, z) < RankIn(S, x) \/ z.pubkey > x.pubkey
    BY <1>1 DEF KeptBefore
  <2>2. ~(z.pubkey > x.pubkey)
    BY <1>1, <1>2 DEF Comparable, Ranked
  <2> QED BY <1>1, <1>2, <2>1, <2>2, RankOrder
<1>3. NewerIn(S, z) = NewerIn(L, z)
  BY <1>1, <1>2 DEF NewerIn
<1>4. Comparable(L)
  BY <1>1, ComparableSubset
<1>5. RankIn(S, z) = Cardinality(NewerIn(S, z)) /\ RankIn(L, z) = Cardinality(NewerIn(L, z))
  BY <1>1, <1>4, RankFacts
<1> QED BY <1>2, <1>3, <1>5

\* A new frame older than one of its author's that was dropped is itself the
\* last of what a full log and it make.
LEMMA SqueezedOut ==
  ASSUME NEW S, NEW L, Top(S, L), NEW m, m \notin S, Comparable(S \cup {m}),
         NEW v \in L \cup {m},
         \A x \in (L \cup {m}) \ {v} : KeptBefore(L \cup {m}, x, v),
         \E k \in S \ L : k.pubkey = m.pubkey /\ EvictsBefore(m, k)
  PROVE  v = m
<1> SUFFICES ASSUME v # m PROVE FALSE
  OBVIOUS
<1> DEFINE T == L \cup {m}
           W == {k \in S \ L : k.pubkey = m.pubkey /\ EvictsBefore(m, k)}
           N == {RankIn(S, k) : k \in W}
<1>1. /\ L \in SUBSET S /\ S \in SUBSET (S \cup {m}) /\ T \in SUBSET (S \cup {m})
      /\ m \notin L /\ m \in T /\ v \in L /\ v \in T
      /\ \A y \in L, x \in S \ L : KeptBefore(S, y, x)
  BY DEF Top
<1>2. Comparable(S) /\ Comparable(L) /\ Comparable(T)
  BY <1>1, ComparableSubset
<1>3. \A k \in S \cup {m} : Ranked(k)
  BY DEF Comparable
<1>4. PICK k \in W : \A j \in W : RankIn(S, k) <= RankIn(S, j)
  <2>1. N \in SUBSET Nat /\ N # {}
    BY <1>2, RankFacts
  <2> HIDE DEF N
  <2>2. PICK n \in N : \A i \in N : n <= i
    BY <2>1, LeastNat
  <2> QED BY <2>2 DEF N
<1>5. k \in S /\ k \notin L /\ k.pubkey = m.pubkey /\ EvictsBefore(m, k) /\ k # m
  BY <1>1
<1>6. NewerIn(S, k) \ {k} \subseteq NewerIn(T, m) \ {m}
  <2> SUFFICES ASSUME NEW z \in NewerIn(S, k), z # k PROVE z \in NewerIn(T, m) /\ z # m
    OBVIOUS
  <2>1. z \in S /\ z.pubkey = m.pubkey /\ ~EvictsBefore(z, k) /\ z # m
    BY <1>5 DEF NewerIn
  <2>2. z.id # k.id /\ Ranked(z) /\ Ranked(k) /\ Ranked(m)
    BY <1>2, <1>3, <1>5, <2>1 DEF Comparable
  <2>3. EvictsBefore(k, z)
    BY <2>1, <2>2, EvictionOrder
  <2>4. EvictsBefore(m, z) /\ ~EvictsBefore(z, m)
    BY <1>5, <2>2, <2>3, EvictionOrder
  <2>5. RankIn(S, z) < RankIn(S, k)
    BY <1>2, <1>5, <2>1, <2>3, RankOrder
  <2>6. RankIn(S, z) \in Nat /\ RankIn(S, k) \in Nat
    BY <1>2, <1>5, <2>1, RankFacts
  <2>7. z \in L
    BY <1>4, <2>1, <2>4, <2>5, <2>6
  <2> QED BY <2>1, <2>4, <2>7 DEF NewerIn
<1>7. RankIn(S, k) <= RankIn(T, m)
  <2>1. /\ RankIn(S, k) = Cardinality(NewerIn(S, k)) /\ IsFiniteSet(NewerIn(S, k))
        /\ RankIn(T, m) = Cardinality(NewerIn(T, m)) /\ IsFiniteSet(NewerIn(T, m))
        /\ RankIn(S, k) \in Nat /\ RankIn(T, m) \in Nat
    BY <1>1, <1>2, <1>5, RankFacts
  <2>2. k \in NewerIn(S, k) /\ m \in NewerIn(T, m)
    BY <1>1, <1>3, <1>5, EvictionOrder DEF NewerIn
  <2>3. Cardinality(NewerIn(S, k) \ {k}) = RankIn(S, k) - 1
    BY <2>1, <2>2, FS_RemoveElement
  <2>4. /\ Cardinality(NewerIn(T, m) \ {m}) = RankIn(T, m) - 1
        /\ IsFiniteSet(NewerIn(T, m) \ {m})
    <3> HIDE DEF T
    <3> QED BY <2>1, <2>2, FS_RemoveElement
  <2>5. Cardinality(NewerIn(S, k) \ {k}) <= Cardinality(NewerIn(T, m) \ {m})
    BY <1>6, <2>4, FS_Subset
  <2> QED BY <2>1, <2>3, <2>4, <2>5
<1>8. ~(m.pubkey = v.pubkey /\ EvictsBefore(v, m))
  <2> SUFFICES ASSUME m.pubkey = v.pubkey, EvictsBefore(v, m) PROVE FALSE
    OBVIOUS
  <2>1. EvictsBefore(k, v)
    BY <1>1, <1>2, <1>5, RankAmongKept
  <2>2. Ranked(k) /\ Ranked(v) /\ Ranked(m)
    BY <1>1, <1>3, <1>5
  <2>3. EvictsBefore(m, v)
    BY <1>5, <2>1, <2>2, EvictionOrder
  <2> QED BY <2>2, <2>3, EvictionOrder
<1>9. RankIn(T, v) = RankIn(S, v)
  <2>1. RankIn(T, v) = RankIn(L, v)
    BY <1>1, <1>2, <1>8, RankGrows
  <2>2. RankIn(L, v) = RankIn(S, v)
    BY <1>1, <1>2, RankAmongKept
  <2> QED BY <2>1, <2>2
<1>10. KeptBefore(T, m, v) /\ KeptBefore(S, v, k)
  BY <1>1, <1>5
<1>11. /\ RankIn(T, m) \in Nat /\ RankIn(T, v) \in Nat /\ RankIn(S, k) \in Nat
       /\ m.pubkey \in Nat /\ v.pubkey \in Nat /\ k.pubkey = m.pubkey
  BY <1>1, <1>2, <1>3, <1>5, RankFacts DEF Ranked
<1> HIDE DEF T
<1> QED BY <1>7, <1>9, <1>10, <1>11 DEF KeptBefore

\* A full log that drops the last of what it holds and the new frame holds the
\* first frames of everything received again.
LEMMA TopStep ==
  ASSUME NEW S, NEW L, Top(S, L), NEW m, m \notin S, Comparable(S \cup {m}),
         Cardinality(L) = Capacity, NEW v \in L \cup {m},
         \A x \in (L \cup {m}) \ {v} : KeptBefore(L \cup {m}, x, v)
  PROVE  Top(S \cup {m}, (L \cup {m}) \ {v})
<1> DEFINE T == L \cup {m}
           U == S \cup {m}
<1>1. /\ L \in SUBSET S /\ S \in SUBSET U /\ T \in SUBSET U
      /\ m \notin L /\ m \in T /\ m \in U
      /\ \A y \in L, x \in S \ L : KeptBefore(S, y, x)
      /\ v \in T /\ \A y \in T : y = m \/ y \in L
      /\ \A y \in T : y # v => KeptBefore(T, y, v)
  BY DEF Top
<1>2. Comparable(S) /\ Comparable(L) /\ Comparable(T) /\ Comparable(U)
  BY <1>1, ComparableSubset
<1>3. \A k \in U : Ranked(k) /\ k.pubkey \in Nat
  BY <1>2 DEF Comparable, Ranked
<1>4. /\ \A k \in U : RankIn(U, k) \in Nat
      /\ \A k \in T : RankIn(T, k) \in Nat
      /\ \A k \in S : RankIn(S, k) \in Nat
  BY <1>2, RankFacts
<1>5. \A x \in S : RankIn(U, x) = IF m.pubkey = x.pubkey /\ EvictsBefore(x, m)
                                    THEN RankIn(S, x) + 1 ELSE RankIn(S, x)
  BY <1>2, RankGrows
<1>6. \A z \in L : RankIn(T, z) = RankIn(U, z)
  <2> SUFFICES ASSUME NEW z \in L PROVE RankIn(T, z) = RankIn(U, z)
    OBVIOUS
  <2>1. RankIn(L, z) = RankIn(S, z)
    BY <1>2, RankAmongKept
  <2>2. RankIn(T, z) = IF m.pubkey = z.pubkey /\ EvictsBefore(z, m)
                         THEN RankIn(L, z) + 1 ELSE RankIn(L, z)
    BY <1>1, <1>2, RankGrows
  <2> HIDE DEF T, U
  <2> QED BY <1>1, <1>5, <2>1, <2>2
<1>7. /\ RankIn(T, m) <= RankIn(U, m)
      /\ v # m => RankIn(T, m) = RankIn(U, m)
  <2>1. /\ RankIn(T, m) = Cardinality(NewerIn(T, m))
        /\ RankIn(U, m) = Cardinality(NewerIn(U, m)) /\ IsFiniteSet(NewerIn(U, m))
    BY <1>1, <1>2, RankFacts
  <2>2. NewerIn(T, m) \subseteq NewerIn(U, m)
    BY <1>1 DEF NewerIn
  <2>3. RankIn(T, m) <= RankIn(U, m)
    BY <2>1, <2>2, FS_Subset
  <2>4. ASSUME v # m PROVE NewerIn(U, m) \subseteq NewerIn(T, m)
    <3> SUFFICES ASSUME NEW k \in NewerIn(U, m), k \notin T PROVE FALSE
      BY DEF NewerIn
    <3>1. k \in S \ L /\ k.pubkey = m.pubkey /\ ~EvictsBefore(k, m) /\ k # m
      BY DEF NewerIn
    <3>2. k.id # m.id /\ Ranked(k) /\ Ranked(m)
      BY <1>1, <1>2, <1>3, <3>1 DEF Comparable
    <3>3. EvictsBefore(m, k)
      BY <3>1, <3>2, EvictionOrder
    <3> QED BY <2>4, <3>1, <3>3, SqueezedOut
  <2>5. v # m => NewerIn(U, m) = NewerIn(T, m)
    BY <2>2, <2>4
  <2> QED BY <2>1, <2>3, <2>5
<1>8. ASSUME NEW y \in T, y # v PROVE RankIn(U, y) = RankIn(T, y)
  BY <1>6, <1>7, <1>8
<1>9. RankIn(T, v) <= RankIn(U, v)
  BY <1>4, <1>6, <1>7
<1>10. ASSUME NEW y \in T, y # v PROVE KeptBefore(U, y, v)
  <2>1. KeptBefore(T, y, v)
    BY <1>10
  <2>2. RankIn(T, y) \in Nat /\ RankIn(T, v) \in Nat /\ RankIn(U, v) \in Nat
    BY <1>1, <1>4
  <2> HIDE DEF T, U
  <2> QED BY <1>8, <1>9, <1>10, <2>1, <2>2 DEF KeptBefore
<1>11. ASSUME NEW y \in T, y # v, NEW x \in S, x \notin L PROVE KeptBefore(U, y, x)
  <2>1. /\ RankIn(U, y) = RankIn(T, y) /\ RankIn(T, y) \in Nat /\ RankIn(U, x) \in Nat
        /\ RankIn(S, x) \in Nat /\ RankIn(S, x) <= RankIn(U, x)
        /\ y \in U /\ x \in U /\ y.pubkey \in Nat /\ x.pubkey \in Nat
        /\ KeptBefore(T, y, v)
    <3> HIDE DEF T, U
    <3> QED BY <1>1, <1>3, <1>4, <1>5, <1>8, <1>11
  <2>2. CASE y \in L /\ ~(m.pubkey = y.pubkey /\ EvictsBefore(y, m))
    <3>1. RankIn(U, y) = RankIn(S, y) /\ KeptBefore(S, y, x) /\ RankIn(S, y) \in Nat
      BY <1>1, <1>4, <1>5, <1>11, <2>2
    <3> HIDE DEF T, U
    <3> QED BY <2>1, <3>1 DEF KeptBefore
  <2>3. CASE y.pubkey = m.pubkey /\ x.pubkey = m.pubkey
    <3>1. CASE y \in L
      BY <1>2, <1>11, <2>1, <2>3, <3>1, RankAmongKept, RankOrder DEF KeptBefore
    <3>2. CASE y = m
      <4>1. ~EvictsBefore(m, x)
        BY <1>11, <2>3, <3>2, SqueezedOut
      <4>2. x.id # m.id /\ Ranked(x) /\ Ranked(m)
        BY <1>1, <1>2, <1>3, <2>1 DEF Comparable
      <4>3. EvictsBefore(x, m)
        BY <4>1, <4>2, EvictionOrder
      <4> QED BY <1>2, <2>1, <2>3, <3>2, <4>3, RankOrder DEF KeptBefore
    <3> QED BY <3>1, <3>2
  <2>4. CASE /\ y.pubkey = m.pubkey /\ x.pubkey # m.pubkey
             /\ y = m \/ EvictsBefore(y, m)
    <3>1. v \in L
      <4> SUFFICES ASSUME v = m PROVE FALSE
        OBVIOUS
      <4>1. y \in L /\ EvictsBefore(y, m) /\ y # m
        BY <1>11, <2>4
      <4>2. RankIn(T, m) < RankIn(T, y)
        BY <1>1, <1>2, <2>4, <4>1, RankOrder
      <4>3. RankIn(T, m) \in Nat /\ m.pubkey \in Nat
        BY <1>1, <1>3, <1>4
      <4> HIDE DEF T, U
      <4> QED BY <2>1, <2>4, <4>2, <4>3 DEF KeptBefore
    <3>2. /\ KeptBefore(S, v, x) /\ RankIn(U, x) = RankIn(S, x) /\ v.pubkey \in Nat
          /\ RankIn(S, v) \in Nat /\ RankIn(T, v) \in Nat
          /\ RankIn(T, v) <= RankIn(S, v) + 1
          /\ v.pubkey # m.pubkey => RankIn(T, v) = RankIn(S, v)
      <4> HIDE DEF T, U
      <4> QED BY <1>1, <1>3, <1>4, <1>5, <1>6, <1>11, <2>4, <3>1
    <3> HIDE DEF T, U
    <3>3. CASE v.pubkey = m.pubkey
      BY <2>1, <2>4, <3>2, <3>3 DEF KeptBefore
    <3>4. CASE v.pubkey # m.pubkey
      BY <2>1, <2>4, <3>2, <3>4 DEF KeptBefore
    <3> QED BY <3>3, <3>4
  <2> QED BY <1>11, <2>2, <2>3, <2>4
<1>12. Cardinality(T \ {v}) = Capacity
  <2>1. IsFiniteSet(L) /\ Capacity \in Nat
    BY <1>2, CapacityAssumption DEF Comparable
  <2>2. IsFiniteSet(T) /\ Cardinality(T) = Capacity + 1
    BY <1>1, <2>1, FS_AddElement
  <2> HIDE DEF T
  <2> QED BY <1>1, <2>1, <2>2, FS_RemoveElement
<1>13. ASSUME NEW y \in T \ {v}, NEW x \in U \ (T \ {v}) PROVE KeptBefore(U, y, x)
  <2>1. x = v \/ (x \in S /\ x \notin L)
    OBVIOUS
  <2> QED BY <1>10, <1>11, <2>1
<1>14. Capacity \in Nat
  BY CapacityAssumption
<1> QED BY <1>1, <1>12, <1>13, <1>14 DEF Top

\* A log that holds no frame twice.
Distinct(s) == \A i, j \in 1..Len(s) : s[i] = s[j] => i = j

\* Different positions hold different frames, so sets of positions and of
\* frames have one size.
LEMMA SameSize ==
  ASSUME NEW I, IsFiniteSet(I), NEW f, \A i, j \in I : f[i] = f[j] => i = j
  PROVE  /\ IsFiniteSet({f[i] : i \in I})
         /\ Cardinality({f[i] : i \in I}) = Cardinality(I)
<1> DEFINE F == [i \in I |-> f[i]]
           T == {f[i] : i \in I}
<1>1. F \in [I -> T] /\ (\A i, j \in I : F[i] = F[j] => i = j)
  OBVIOUS
<1>2. \A t \in T : \E i \in I : F[i] = t
  OBVIOUS
<1> HIDE DEF F, T
<1>3. F \in Bijection(I, T)
  BY <1>1, <1>2, Fun_IsBij
<1>4. ExistsBijection(I, T)
  BY <1>3, Fun_ExistsBij
<1>5. IsFiniteSet(T) /\ Cardinality(T) = Cardinality(I)
  BY <1>4, FS_Bijection
<1> QED BY <1>5 DEF T

\* A log without repeats holds as many frames as it is long.
LEMMA DistinctSize ==
  ASSUME NEW S, NEW s \in Seq(S), Distinct(s)
  PROVE  IsFiniteSet(Entries(s)) /\ Cardinality(Entries(s)) = Len(s)
<1>1. Len(s) \in Nat
  BY LenProperties
<1>2. \A n \in Nat : IsFiniteSet(1..n) /\ Cardinality(1..n) = n
  BY FS_Interval
<1>3. IsFiniteSet(1..Len(s)) /\ Cardinality(1..Len(s)) = Len(s)
  BY <1>1, <1>2
<1> QED BY <1>3, SameSize DEF Distinct, Entries

\* The frame an overflow drops is the last in the retention order: its author
\* has the most frames, and it is that author's oldest.
LEMMA VictimIsLast ==
  ASSUME NEW S, Comparable(S), NEW full \in Seq(S), full # <<>>, Distinct(full)
  PROVE  /\ full[EvictionIndex(full)] \in Entries(full)
         /\ \A x \in Entries(full) \ {full[EvictionIndex(full)]} :
              KeptBefore(Entries(full), x, full[EvictionIndex(full)])
<1> DEFINE E == Entries(full)
           p == Fullest(full)
           v == EvictionIndex(full)
           w == full[v]
           Of(q) == {x \in E : x.pubkey = q}
           Keys == {full[i].pubkey : i \in 1..Len(full)}
<1>1. Len(full) \in Nat /\ \A i \in 1..Len(full) : full[i] \in S
  BY LenProperties, ElementOfSeq
<1>2. \A k \in S : Ranked(k)
  BY DEF Comparable
<1>3. E \in SUBSET S /\ \A x \in E : \E i \in 1..Len(full) : x = full[i]
  BY <1>1 DEF Entries
<1>4. Comparable(E) /\ IsFiniteSet(E)
  BY <1>3, ComparableSubset DEF Comparable
<1>5. /\ v \in 1..Len(full) /\ v \in HeldBy(full, p)
      /\ \A j \in HeldBy(full, p) : EvictsBefore(w, full[j]) \/ ~EvictsBefore(full[j], w)
  BY <1>2, VictimExists
<1>6. w \in E /\ w.pubkey = p
  BY <1>5 DEF Entries, HeldBy
<1>7. \A q : /\ Cardinality(Of(q)) = Cardinality(HeldBy(full, q))
             /\ IsFiniteSet(Of(q)) /\ Cardinality(Of(q)) \in Nat
  <2> TAKE q
  <2>1. HeldBy(full, q) \in SUBSET (1..Len(full))
    BY DEF HeldBy
  <2>2. IsFiniteSet(HeldBy(full, q))
    <3>1. IsFiniteSet(1..Len(full))
      BY <1>1, FS_Interval
    <3> QED BY <2>1, <3>1, FS_Subset
  <2>3. \A i, j \in HeldBy(full, q) : full[i] = full[j] => i = j
    BY <2>1 DEF Distinct
  <2>4. Of(q) = {full[i] : i \in HeldBy(full, q)}
    BY DEF Entries, HeldBy
  <2>5. /\ IsFiniteSet({full[i] : i \in HeldBy(full, q)})
        /\ Cardinality({full[i] : i \in HeldBy(full, q)}) = Cardinality(HeldBy(full, q))
    BY <2>2, <2>3, SameSize
  <2> HIDE DEF Of
  <2>6. IsFiniteSet(Of(q)) /\ Cardinality(Of(q)) = Cardinality(HeldBy(full, q))
    BY <2>4, <2>5
  <2> QED BY <2>6, FS_CardinalityType
<1>8. \A q \in Keys : \/ Cardinality(Of(p)) > Cardinality(Of(q))
                      \/ Cardinality(Of(p)) = Cardinality(Of(q)) /\ p <= q
  <2> HIDE DEF Of
  <2> QED BY <1>2, <1>7, FullestExists
<1>9. RankIn(E, w) = Cardinality(Of(p))
  <2>1. NewerIn(E, w) = Of(p)
    <3> SUFFICES ASSUME NEW x \in E, x.pubkey = p PROVE ~EvictsBefore(x, w)
      BY <1>6 DEF NewerIn
    <3>1. PICK j \in 1..Len(full) : x = full[j]
      BY <1>3
    <3>2. j \in HeldBy(full, p)
      BY <3>1 DEF HeldBy
    <3>3. EvictsBefore(w, x) \/ ~EvictsBefore(x, w)
      BY <1>5, <3>1, <3>2
    <3>4. Ranked(x) /\ Ranked(w)
      BY <1>2, <1>3, <1>6
    <3> HIDE DEF w
    <3> QED BY <3>3, <3>4, EvictionOrder
  <2> QED BY <1>4, <1>6, <2>1, RankFacts
<1>10. ASSUME NEW x \in E, x # w PROVE KeptBefore(E, x, w)
  <2>1. /\ NewerIn(E, x) \subseteq Of(x.pubkey)
        /\ RankIn(E, x) = Cardinality(NewerIn(E, x)) /\ RankIn(E, x) \in Nat
    BY <1>4, RankFacts DEF NewerIn
  <2>2. RankIn(E, x) <= Cardinality(Of(x.pubkey))
    <3> DEFINE Q == Of(x.pubkey)
    <3>1. IsFiniteSet(Q) /\ NewerIn(E, x) \in SUBSET Q
      BY <1>7, <2>1
    <3> HIDE DEF Q
    <3>2. Cardinality(NewerIn(E, x)) <= Cardinality(Q)
      BY <3>1, FS_Subset
    <3> QED BY <2>1, <3>2 DEF Q
  <2>3. x.pubkey \in Keys /\ x.pubkey \in Nat /\ p \in Nat
    BY <1>2, <1>3, <1>6 DEF Ranked
  <2>4. \/ Cardinality(Of(p)) > Cardinality(Of(x.pubkey))
        \/ Cardinality(Of(p)) = Cardinality(Of(x.pubkey)) /\ p <= x.pubkey
    BY <1>8, <2>3
  <2>5. x.pubkey = p => RankIn(E, x) # RankIn(E, w)
    BY <1>4, <1>6, <1>10, RankOrder
  <2>6. Cardinality(Of(p)) \in Nat /\ Cardinality(Of(x.pubkey)) \in Nat
    BY <1>7
  <2> HIDE DEF E, p, w, Of
  <2> QED BY <1>6, <1>9, <2>1, <2>2, <2>3, <2>4, <2>5, <2>6 DEF KeptBefore
<1> QED BY <1>6, <1>10

\* Something new appended to a sequence without repeats.
LEMMA AppendNew ==
  ASSUME NEW S, NEW old \in Seq(S), NEW m \in S, Distinct(old), m \notin Entries(old)
  PROVE  /\ Distinct(Append(old, m))
         /\ Entries(Append(old, m)) = Entries(old) \cup {m}
<1> DEFINE full == Append(old, m)
<1>1. /\ Len(full) = Len(old) + 1 /\ Len(old) \in Nat
      /\ \A i \in 1..Len(old) : full[i] = old[i]
      /\ full[Len(old) + 1] = m
  BY AppendProperties, LenProperties
<1>2. \A i \in 1..Len(full) : i \in 1..Len(old) \/ i = Len(old) + 1
  BY <1>1
<1>3. \A i \in 1..Len(old) : old[i] # m
  BY DEF Entries
<1> HIDE DEF full
<1>4. Distinct(full)
  BY <1>1, <1>2, <1>3 DEF Distinct
<1>5. Entries(full) = Entries(old) \cup {m}
  BY <1>1, <1>2 DEF Entries
<1> QED BY <1>4, <1>5 DEF full

\* A push into a log without repeats drops exactly its victim.
LEMMA PushEntries ==
  ASSUME NEW S, \A k \in S : Ranked(k), NEW old \in Seq(S), NEW m \in S,
         Len(old) <= Capacity, Distinct(old), m \notin Entries(old)
  PROVE  /\ Distinct(Append(old, m)) /\ Entries(Append(old, m)) = Entries(old) \cup {m}
         /\ Distinct(Push(old, m))
         /\ Entries(Push(old, m)) = (Entries(old) \cup {m}) \ Evicted(old, m)
<1> DEFINE full == Append(old, m)
           v == EvictionIndex(full)
           rest == Without(full, v)
<1>1. /\ full \in Seq(S) /\ Len(full) = Len(old) + 1 /\ full # <<>>
      /\ \A i \in 1..Len(old) : full[i] = old[i]
      /\ full[Len(old) + 1] = m
      /\ Len(old) \in Nat
  BY AppendProperties, LenProperties, EmptySeq
<1>3. Distinct(full)
  BY AppendNew
<1>4. Entries(full) = Entries(old) \cup {m}
  BY AppendNew
<1>5. v \in 1..Len(full)
  BY <1>1, VictimExists
<1> HIDE DEF full, v
<1>6. CASE ~Overflows(old, m)
  <2>1. Push(old, m) = full /\ Evicted(old, m) = {}
    BY <1>6 DEF Push, Evicted, full
  <2> QED BY <1>3, <1>4, <2>1 DEF full
<1>7. CASE Overflows(old, m)
  <2>1. Push(old, m) = rest /\ Evicted(old, m) = {full[v]}
    BY <1>7 DEF Push, Evicted, full, v
  <2>2. /\ Len(rest) = Len(old)
        /\ \A j \in 1..Len(old) : rest[j] = IF j < v THEN full[j] ELSE full[j + 1]
    BY <1>1 DEF Without
  <2> HIDE DEF rest
  <2>3. Distinct(rest)
    <3> SUFFICES ASSUME NEW i \in 1..Len(old), NEW j \in 1..Len(old), rest[i] = rest[j]
                 PROVE  i = j
      BY <2>2 DEF Distinct
    <3> DEFINE From(k) == IF k < v THEN k ELSE k + 1
    <3>1. From(i) \in 1..Len(full) /\ From(j) \in 1..Len(full)
      BY <1>1, <1>5
    <3>2. full[From(i)] = full[From(j)]
      BY <2>2
    <3>3. From(i) = From(j)
      BY <1>3, <3>1, <3>2 DEF Distinct
    <3> QED BY <1>1, <1>5, <3>3
  <2>4. \A j \in 1..Len(old) : rest[j] \in Entries(full) /\ rest[j] # full[v]
    <3> SUFFICES ASSUME NEW j \in 1..Len(old)
                 PROVE  rest[j] \in Entries(full) /\ rest[j] # full[v]
      OBVIOUS
    <3>1. CASE j < v
      BY <1>1, <1>3, <1>5, <2>2, <3>1 DEF Distinct, Entries
    <3>2. CASE ~(j < v)
      <4>1. j + 1 \in 1..Len(full) /\ j + 1 # v
        BY <1>1, <1>5, <3>2
      <4> QED BY <1>3, <1>5, <2>2, <3>2, <4>1 DEF Distinct, Entries
    <3> QED BY <3>1, <3>2
  <2>5. Entries(rest) \subseteq Entries(full) \ {full[v]}
    BY <2>2, <2>4 DEF Entries
  <2>6. (Entries(old) \cup {m}) \ Evicted(old, m) \subseteq Entries(Push(old, m))
    BY PushFacts
  <2> QED BY <1>3, <1>4, <2>1, <2>3, <2>5, <2>6 DEF full
<1> QED BY <1>6, <1>7

-----------------------------------------------------------------------------
(* Retention is canonical: the invariant *)

\* The dedup set has not yet forgotten a frame this member retained.
Remembered == \A m \in ingested : m.id \in SeenIds

\* RetainedIsCanonical with the order it is read off: the log holds the first
\* frames of everything retained, none twice, and its chat is indexed.
KeptInv ==
  /\ IsFiniteSet(ingested)
  /\ Distinct(log)
  /\ Top(ingested, Entries(log))
  /\ {m \in Entries(log) : m.chained} \subseteq by_hash

\* A fresh member holds all it retained: nothing.
LEMMA InitKept == Init => KeptInv
<1> SUFFICES ASSUME Init PROVE KeptInv
  OBVIOUS
<1>1. Entries(log) = {} /\ ingested = {} /\ Len(log) = 0
  BY EmptySeq DEF Init, Entries
<1>2. IsFiniteSet({}) /\ Cardinality({}) = 0
  BY FS_EmptySet
<1> QED BY <1>1, <1>2, CapacityAssumption DEF KeptInv, Distinct, Top

\* A push of a frame not retained before keeps the log canonical.
LEMMA KeptPush ==
  ASSUME IInv, KeptInv, NEW m \in AllFrames, m \notin ingested,
         log' = Push(log, m), ingested' = ingested \cup {m}
  PROVE  /\ IsFiniteSet(ingested') /\ Distinct(log') /\ Top(ingested', Entries(log'))
         /\ Entries(log') = (Entries(log) \cup {m}) \ Evicted(log, m)
<1> DEFINE S == ingested
           L == Entries(log)
           U == ingested \cup {m}
           full == Append(log, m)
<1>1. /\ log \in Seq(S) /\ Len(log) <= Capacity /\ S \subseteq AllFrames
      /\ Len(log) \in Nat /\ Capacity \in Nat \ {0}
  BY LenProperties, CapacityAssumption DEF IInv, TypeOK
<1>2. IsFiniteSet(S) /\ Distinct(log) /\ Top(S, L)
  BY DEF KeptInv
<1>3. L \subseteq S /\ m \notin L /\ log \in Seq(U) /\ m \in U
  BY <1>1, EntriesIn, SeqMonotonic
<1>4. IsFiniteSet(U)
  BY <1>2, FS_AddElement
<1>5. Comparable(U)
  <2>1. U \subseteq AllFrames
    BY <1>1
  <2> HIDE DEF U
  <2> QED BY <1>4, <2>1, FrameFacts, FramesAssumption DEF Comparable, AllFrames
<1>6. \A k \in U : Ranked(k)
  BY <1>5 DEF Comparable
<1> HIDE DEF U
<1>7. /\ Distinct(full) /\ Entries(full) = L \cup {m}
      /\ Distinct(Push(log, m))
      /\ Entries(Push(log, m)) = (L \cup {m}) \ Evicted(log, m)
  BY <1>1, <1>2, <1>3, <1>6, PushEntries
<1>8. IsFiniteSet(L) /\ Cardinality(L) = Len(log)
  BY <1>1, <1>2, DistinctSize
<1>9. Top(U, (L \cup {m}) \ Evicted(log, m))
  <2>1. CASE ~Overflows(log, m)
    <3>1. Evicted(log, m) = {} /\ Cardinality(L) < Capacity
      BY <1>1, <1>8, <2>1 DEF Evicted, Overflows
    <3>2. L = S
      BY <1>2, <3>1 DEF Top
    <3>3. Cardinality(U) = Len(log) + 1
      BY <1>3, <1>8, <3>2, FS_AddElement DEF U
    <3>4. (L \cup {m}) \ Evicted(log, m) = U
      BY <3>1, <3>2 DEF U
    <3>5. Cardinality(U) <= Capacity
      BY <1>1, <1>8, <3>1, <3>3
    <3> QED BY <3>4, <3>5 DEF Top
  <2>2. CASE Overflows(log, m)
    <3> DEFINE v == full[EvictionIndex(full)]
    <3>1. Evicted(log, m) = {v}
      BY <2>2 DEF Evicted
    <3>2. Cardinality(L) = Capacity
      BY <1>1, <1>8, <2>2 DEF Overflows
    <3>3. full \in Seq(U) /\ full # <<>>
      BY <1>1, <1>3, AppendProperties, EmptySeq
    <3>4. /\ v \in Entries(full)
          /\ \A x \in Entries(full) \ {v} : KeptBefore(Entries(full), x, v)
      BY <1>5, <1>7, <3>3, VictimIsLast
    <3> HIDE DEF v
    <3>5. /\ v \in L \cup {m}
          /\ \A x \in (L \cup {m}) \ {v} : KeptBefore(L \cup {m}, x, v)
      BY <1>7, <3>4
    <3>6. Top(S \cup {m}, (L \cup {m}) \ {v})
      <4>1. Comparable(S \cup {m}) /\ m \notin S
        BY <1>5 DEF U
      <4> HIDE DEF S, L
      <4> QED BY <1>2, <3>2, <3>5, <4>1, TopStep
    <3> QED BY <3>1, <3>6 DEF U
  <2> QED BY <2>1, <2>2
<1> QED BY <1>4, <1>7, <1>9 DEF U

\* Every step keeps the log canonical while the dedup set remembers what was
\* retained: a frame that passes the gate is then a new one.
LEMMA NextKept == IInv /\ KeptInv /\ Remembered /\ [Next]_vars => KeptInv'
<1> SUFFICES ASSUME IInv, KeptInv, Remembered, [Next]_vars PROVE KeptInv'
  OBVIOUS
<1>0. {m \in Entries(log) : m.chained} \subseteq by_hash
  BY DEF KeptInv
<1>1. ASSUME NEW m \in Frames, Ingest(m) PROVE KeptInv'
  <2>1. CASE m.loggable
    <3>1. /\ log' = Push(log, m) /\ ingested' = ingested \cup {m}
          /\ by_hash' = HashesNoting(m) \ Evicted(log, m)
      BY <1>1, <2>1 DEF Ingest, RetainAndIndex
    <3>2. m \in AllFrames /\ m \notin ingested
      BY <1>1 DEF Ingest, Remembered, AllFrames
    <3>3. /\ IsFiniteSet(ingested') /\ Distinct(log') /\ Top(ingested', Entries(log'))
          /\ Entries(log') = (Entries(log) \cup {m}) \ Evicted(log, m)
      BY <3>1, <3>2, KeptPush
    <3>4. {k \in Entries(log') : k.chained} \subseteq by_hash'
      BY <1>0, <3>1, <3>3 DEF HashesNoting
    <3> QED BY <3>3, <3>4 DEF KeptInv
  <2>2. CASE ~m.loggable
    <3>1. UNCHANGED <<log, ingested, by_hash>>
      BY <1>1, <2>2 DEF Ingest, indexes
    <3> QED BY <3>1 DEF KeptInv, Entries, Distinct
  <2> QED BY <2>1, <2>2
<1>2. ASSUME NEW m \in OwnFrames, RetainOwn(m) PROVE KeptInv'
  <2>1. /\ log' = Push(log, m) /\ ingested' = ingested \cup {m}
        /\ by_hash' = by_hash \ Evicted(log, m)
        /\ m \in AllFrames /\ m \notin ingested
    BY <1>2 DEF RetainOwn, AllFrames
  <2>2. /\ IsFiniteSet(ingested') /\ Distinct(log') /\ Top(ingested', Entries(log'))
        /\ Entries(log') = (Entries(log) \cup {m}) \ Evicted(log, m)
    BY <2>1, KeptPush
  <2>3. ~m.chained
    BY FramesAssumption
  <2>4. {k \in Entries(log') : k.chained} \subseteq by_hash'
    BY <1>0, <2>1, <2>2, <2>3
  <2> QED BY <2>2, <2>4 DEF KeptInv
<1>3. CASE UNCHANGED vars
  BY <1>3 DEF vars, KeptInv, Entries, Distinct
<1> QED BY <1>1, <1>2, <1>3 DEF Next

\* A dedup set without repeats that lacks some frame's id has room, if it could
\* hold them all.
LEMMA RoomForNew ==
  ASSUME IInv, Distinct(seen), NEW m \in AllFrames, m.id \notin SeenIds,
         IsFiniteSet(AllFrames), Cardinality(AllFrames) <= SeenCap
  PROVE  SeenAfter(m.id) = Append(seen, m.id)
<1> DEFINE idOf == [k \in AllFrames |-> k.id]
           Ids == {k.id : k \in AllFrames}
<1>1. \A k, j \in AllFrames : idOf[k] = idOf[j] => k = j
  BY FramesAssumption DEF AllFrames
<1>2. Ids = {idOf[k] : k \in AllFrames}
  OBVIOUS
<1>3. IsFiniteSet(Ids) /\ Cardinality(Ids) = Cardinality(AllFrames)
  <2> HIDE DEF idOf, Ids
  <2> QED BY <1>1, <1>2, SameSize
<1>4. seen \in Seq(Ids) /\ Len(seen) \in Nat /\ SeenCap \in Nat
  BY LenProperties, SeenCapAssumption DEF IInv, TypeOK
<1>5. m.id \in Ids
  OBVIOUS
<1> HIDE DEF Ids
<1>6. SeenIds = Entries(seen)
  BY DEF SeenIds, Entries
<1>7. Cardinality(SeenIds) = Len(seen) /\ SeenIds \in SUBSET Ids
  BY <1>4, <1>6, DistinctSize, EntriesIn
<1>8. Cardinality(SeenIds) # Cardinality(Ids) /\ Cardinality(SeenIds) <= Cardinality(Ids)
  BY <1>3, <1>5, <1>7, FS_Subset
<1>9. Cardinality(Ids) \in Nat
  BY <1>3, FS_CardinalityType
<1>10. ~(Len(seen) >= SeenCap)
  BY <1>3, <1>4, <1>7, <1>8, <1>9
<1> QED BY <1>10 DEF SeenAfter

-----------------------------------------------------------------------------
(* The theorems *)

\* The log never exceeds its capacity nor the dedup set its cap, and no index
\* holds a frame that was never retained.
THEOREM TypeCorrect == Spec => []TypeOK
<1>1. IInv => TypeOK
  BY DEF IInv
<1> QED BY <1>1, InitIInv, NextIInv, PTL DEF Spec

\* Whatever the order, repetition and eviction of frames, the causal index and
\* the fork index never outgrow the log window (push_to_log).
THEOREM IndexesStayInLog == Spec => []IndexBounded
<1>1. IInv => IndexBounded
  BY DEF IInv
<1> QED BY <1>1, InitIInv, NextIInv, PTL DEF Spec

\* A key is flagged as forked only on two conflicting chat frames it signed
\* (note_msg_seq), however the evidence was pruned and recorded again.
THEOREM ForksAreReal == Spec => []NoFalseFork
<1>1. IInv => NoFalseFork
  BY DEF IInv
<1> QED BY <1>1, InitIInv, NextIInv, PTL DEF Spec

\* A member that has forgotten no frame it retained holds exactly the canonical
\* ones, none twice, with all of its chat in the causal index, whatever order
\* frames came in and whatever was evicted on the way (MessageLog::push,
\* retain_and_index).  The premise cannot be dropped: a retained frame whose
\* id the dedup set let go is pushed again when it is heard again.
THEOREM RetentionIsCanonical == Spec /\ []Remembered => []RetainedIsCanonical
<1>1. IInv /\ KeptInv => RetainedIsCanonical
  <2> SUFFICES ASSUME IInv, KeptInv PROVE RetainedIsCanonical
    OBVIOUS
  <2>1. ingested \subseteq AllFrames /\ Len(log) \in Nat
    BY LenProperties DEF IInv, TypeOK
  <2>2. Comparable(ingested)
    BY <2>1, FrameFacts, FramesAssumption DEF KeptInv, Comparable, AllFrames
  <2>3. Entries(log) = Canonical(ingested)
    BY <2>2, TopIsCanonical DEF KeptInv
  <2>4. Cardinality(Entries(log)) = Len(log)
    BY DistinctSize DEF IInv, TypeOK, KeptInv
  <2> QED BY <2>3, <2>4 DEF KeptInv, RetainedIsCanonical
<1> QED BY <1>1, InitIInv, InitKept, NextIInv, NextKept, PTL DEF Spec

\* The premise of RetentionIsCanonical and EvidenceIsKept holds for as long as
\* the mesh has produced no more frames than the dedup set holds (SEEN_IDS_CAP):
\* it fills up without ever making room.
THEOREM DedupRemembers ==
  ASSUME IsFiniteSet(AllFrames), Cardinality(AllFrames) <= SeenCap
  PROVE  Spec => []Remembered
<1> DEFINE SeenInv == Distinct(seen) /\ Remembered
<1>1. Init => SeenInv
  BY EmptySeq DEF Init, Distinct, Remembered
<1>2. IInv /\ SeenInv /\ [Next]_vars => SeenInv'
  <2> SUFFICES ASSUME IInv, SeenInv, [Next]_vars PROVE SeenInv'
    OBVIOUS
  <2>1. ASSUME NEW m \in AllFrames, m.id \notin SeenIds, seen' = SeenAfter(m.id),
               ingested' \subseteq ingested \cup {m}
        PROVE  SeenInv'
    <3>1. SeenAfter(m.id) = Append(seen, m.id)
      BY <2>1, RoomForNew
    <3> DEFINE Ids == {k.id : k \in AllFrames}
    <3>2. seen \in Seq(Ids) /\ m.id \in Ids /\ m.id \notin Entries(seen)
      BY <2>1 DEF IInv, TypeOK, SeenIds, Entries
    <3> HIDE DEF Ids
    <3>3. Distinct(seen') /\ Entries(seen') = Entries(seen) \cup {m.id}
      BY <2>1, <3>1, <3>2, AppendNew
    <3>4. Remembered'
      BY <2>1, <3>3 DEF Remembered, SeenIds, Entries
    <3> QED BY <3>3, <3>4 DEF Distinct
  <2>2. ASSUME NEW m \in Frames, Ingest(m) PROVE SeenInv'
    <3>1. m \in AllFrames /\ m.id \notin SeenIds /\ seen' = SeenAfter(m.id)
      BY <2>2 DEF Ingest, AllFrames
    <3>2. ingested' \subseteq ingested \cup {m}
      BY <2>2 DEF Ingest, RetainAndIndex
    <3> QED BY <2>1, <3>1, <3>2
  <2>3. ASSUME NEW m \in OwnFrames, RetainOwn(m) PROVE SeenInv'
    <3>1. /\ m \in AllFrames /\ ingested' = ingested \cup {m}
          /\ seen' = IF m.id \in SeenIds THEN seen ELSE SeenAfter(m.id)
      BY <2>3 DEF RetainOwn, AllFrames
    <3>2. CASE m.id \in SeenIds
      BY <3>1, <3>2 DEF Distinct, Remembered, SeenIds
    <3> QED BY <2>1, <3>1, <3>2
  <2>4. CASE UNCHANGED vars
    BY <2>4 DEF vars, Distinct, Remembered, SeenIds
  <2> QED BY <2>2, <2>3, <2>4 DEF Next
<1>3. SeenInv => Remembered
  OBVIOUS
<1> QED BY <1>1, <1>2, <1>3, InitIInv, NextIInv, PTL DEF Spec

\* Under the same premise recorded fork evidence leaves only with the frame it
\* records: the eviction of the twin that was not recorded, or of any other
\* frame, never frees the slot (forget_msg_seq).
THEOREM EvidenceIsKept == Spec /\ []Remembered => EvidenceGoesWithItsFrame
<1>1. IInv /\ KeptInv /\ Remembered /\ [Next]_vars
        => [\A r \in author_seqs : r \notin author_seqs' => r \notin Entries(log')]_vars
  <2> SUFFICES ASSUME IInv, KeptInv, Remembered, Next,
                      NEW r \in author_seqs, r \notin author_seqs'
               PROVE  r \notin Entries(log')
    BY DEF vars
  <2>1. ASSUME NEW m \in AllFrames, m \notin ingested, log' = Push(log, m),
               ingested' = ingested \cup {m}, r \in Evicted(log, m)
        PROVE  r \notin Entries(log')
    BY <2>1, KeptPush
  <2>2. ASSUME NEW m \in Frames, Ingest(m) PROVE r \notin Entries(log')
    <3>1. m \in AllFrames /\ m \notin ingested
      BY <2>2 DEF Ingest, Remembered, AllFrames
    <3>2. m.loggable
      BY <2>2 DEF Ingest, indexes
    <3>3. /\ log' = Push(log, m) /\ ingested' = ingested \cup {m}
          /\ author_seqs' = SeqsForgetting(SeqsNoting(m), Evicted(log, m))
      BY <2>2, <3>2 DEF Ingest, RetainAndIndex
    <3>4. r \in Evicted(log, m)
      BY <3>3 DEF SeqsForgetting, SeqsNoting
    <3> QED BY <2>1, <3>1, <3>3, <3>4
  <2>3. ASSUME NEW m \in OwnFrames, RetainOwn(m) PROVE r \notin Entries(log')
    <3>1. /\ m \in AllFrames /\ m \notin ingested
          /\ log' = Push(log, m) /\ ingested' = ingested \cup {m}
          /\ author_seqs' = SeqsForgetting(author_seqs, Evicted(log, m))
      BY <2>3 DEF RetainOwn, AllFrames
    <3>2. r \in Evicted(log, m)
      BY <3>1 DEF SeqsForgetting
    <3> QED BY <2>1, <3>1, <3>2
  <2> QED BY <2>2, <2>3 DEF Next
<1> QED BY <1>1, InitIInv, InitKept, NextIInv, NextKept, PTL DEF Spec, EvidenceGoesWithItsFrame
=============================================================================
