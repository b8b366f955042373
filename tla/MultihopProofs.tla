--------------------------- MODULE MultihopProofs ---------------------------
(***************************************************************************)
(* Proofs about Multihop and the LinkState it extends, for every set of    *)
(* callers, writers and members and for every budget and ceiling.          *)
(*                                                                         *)
(* The pool: a cell is found with a caller or at a place of a writer, and  *)
(* each step moves, adds or takes exactly one.  That needs to be known of  *)
(* writers: which ones have a cell in hand, that one with an entry or a    *)
(* caller exists, and that one that ended holds nothing.                   *)
(*                                                                         *)
(* The routes: the table holds the newest vector heard of each member, a   *)
(* member numbers its vectors, and nothing is linked to a member that      *)
(* left; so a path over the table leads, hop by hop, to members present.   *)
(***************************************************************************)
EXTENDS Multihop, FiniteSetTheorems, NaturalsInduction, WellFoundedInduction, TLAPS

Active == {"dial", "drain", "write", "stop"}

PoolTypes ==
  /\ call \in [Callers -> Call \cup {None}]
  /\ entry \in [Hops -> Writers \cup {None}]
  /\ task \in [Writers -> WriterTask \cup {None}]

\* The writer of an entry runs, and to that hop.
EntryRuns ==
  \A h \in Hops : entry[h] # None =>
    task[entry[h]] # None /\ task[entry[h]].hop = h /\ task[entry[h]].phase \in Active

\* A caller that is about to send has a writer that exists.
CallerHasWriter ==
  \A c \in Callers : call[c] # None =>
    /\ call[c].step \in {"send", "retry"} => call[c].writer # None
    /\ call[c].writer # None => task[call[c].writer] # None

\* A writer has a cell in hand exactly while it writes, and none at the end.
HandIsFull ==
  \A w \in Writers : task[w] # None =>
    /\ task[w].taken <=> task[w].phase = "write"
    /\ task[w].phase = "ended" => task[w].queue = 0

Accounted == IsFiniteSet(InWriters) /\ BytesAccounted

\* The inductive invariant.
PoolInv ==
  /\ PoolTypes /\ EntryRuns /\ CallerHasWriter /\ HandIsFull
  /\ Accounted /\ WriterIsListed

-----------------------------------------------------------------------------
(* Counting cells *)

\* None is nobody.
LEMMA NotNone ==
  /\ \A w \in Writers : w # None
  /\ \A x \in Call : x # None
  /\ \A x \in WriterTask : x # None
BY NoneAssumption

\* The cells writers hold.
LEMMA Places ==
  \A x : x \in InWriters <=> \E w \in Writers : \E i \in 1..Held(w) : x = <<w, i>>
BY DEF InWriters

\* A writer holds a number of cells.
LEMMA HeldIsNat ==
  ASSUME PoolTypes, NEW w \in Writers
  PROVE  Held(w) \in Nat
BY DEF PoolTypes, Held, WriterTask

\* A writer whose task changes, and no other.
LEMMA Updated ==
  ASSUME PoolTypes, NEW w \in Writers, NEW r \in WriterTask \cup {None},
         task' = [task EXCEPT ![w] = r]
  PROVE  /\ task' \in [Writers -> WriterTask \cup {None}]
         /\ task'[w] = r /\ \A v \in Writers \ {w} : task'[v] = task[v]
         /\ Held(w)' \in Nat
         /\ Held(w)' = Held(w) => InWriters' = InWriters
         /\ Held(w)' = Held(w) + 1 =>
              /\ InWriters' = InWriters \cup {<<w, Held(w) + 1>>}
              /\ <<w, Held(w) + 1>> \notin InWriters
         /\ Held(w) = Held(w)' + 1 =>
              /\ InWriters' = InWriters \ {<<w, Held(w)>>}
              /\ <<w, Held(w)>> \in InWriters
<1>1. /\ task' \in [Writers -> WriterTask \cup {None}]
      /\ task'[w] = r /\ \A v \in Writers \ {w} : task'[v] = task[v]
  BY DEF PoolTypes
<1>2. \A v \in Writers \ {w} : Held(v)' = Held(v) BY <1>1 DEF Held
<1>3. Held(w)' \in Nat BY <1>1 DEF Held, WriterTask
<1>4. Held(w) \in Nat BY HeldIsNat
<1>5. \A x : x \in InWriters' <=> \E v \in Writers : \E i \in 1..Held(v)' : x = <<v, i>>
  BY DEF InWriters
<1>6. ASSUME Held(w)' = Held(w) PROVE InWriters' = InWriters
  <2>1. \A v \in Writers : Held(v)' = Held(v) BY <1>2, <1>6
  <2> QED BY <2>1, <1>5, Places
<1>7. ASSUME Held(w)' = Held(w) + 1
      PROVE  /\ InWriters' = InWriters \cup {<<w, Held(w) + 1>>}
             /\ <<w, Held(w) + 1>> \notin InWriters
  <2>1. \A i : i \in 1..Held(w)' <=> i \in 1..Held(w) \/ i = Held(w) + 1 BY <1>4, <1>7
  <2>2. <<w, Held(w) + 1>> \notin InWriters
    <3>1. Held(w) + 1 \notin 1..Held(w) BY <1>4
    <3> QED BY <3>1, Places
  <2>3. \A x : x \in InWriters' <=> x \in InWriters \/ x = <<w, Held(w) + 1>>
    <3> TAKE x
    <3>1. ASSUME x \in InWriters' PROVE x \in InWriters \/ x = <<w, Held(w) + 1>>
      <4>1. PICK v \in Writers : \E i \in 1..Held(v)' : x = <<v, i>> BY <3>1, <1>5
      <4>2. PICK i \in 1..Held(v)' : x = <<v, i>> BY <4>1
      <4> QED BY <4>2, <1>2, <2>1, Places
    <3>2. ASSUME x \in InWriters PROVE x \in InWriters'
      <4>1. PICK v \in Writers : \E i \in 1..Held(v) : x = <<v, i>> BY <3>2, Places
      <4>2. PICK i \in 1..Held(v) : x = <<v, i>> BY <4>1
      <4>3. i \in 1..Held(v)' BY <1>2, <2>1
      <4> QED BY <4>2, <4>3, <1>5
    <3>3. x = <<w, Held(w) + 1>> => x \in InWriters' BY <1>5, <2>1
    <3> QED BY <3>1, <3>2, <3>3
  <2> QED BY <2>2, <2>3
<1>8. ASSUME Held(w) = Held(w)' + 1
      PROVE  /\ InWriters' = InWriters \ {<<w, Held(w)>>}
             /\ <<w, Held(w)>> \in InWriters
  <2>1. \A i : i \in 1..Held(w)' <=> i \in 1..Held(w) /\ i # Held(w) BY <1>3, <1>8
  <2>2. Held(w) \in 1..Held(w) BY <1>3, <1>8
  <2>3. \A x : x \in InWriters' <=> x \in InWriters /\ x # <<w, Held(w)>>
    <3> TAKE x
    <3>1. ASSUME x \in InWriters' PROVE x \in InWriters /\ x # <<w, Held(w)>>
      <4>1. PICK v \in Writers : \E i \in 1..Held(v)' : x = <<v, i>> BY <3>1, <1>5
      <4>2. PICK i \in 1..Held(v)' : x = <<v, i>> BY <4>1
      <4>3. i \in 1..Held(v) /\ (v = w => i # Held(w)) BY <1>2, <2>1
      <4> QED BY <4>2, <4>3, Places
    <3>2. ASSUME x \in InWriters, x # <<w, Held(w)>> PROVE x \in InWriters'
      <4>1. PICK v \in Writers : \E i \in 1..Held(v) : x = <<v, i>> BY <3>2, Places
      <4>2. PICK i \in 1..Held(v) : x = <<v, i>> BY <4>1
      <4>3. i \in 1..Held(v)' BY <3>2, <4>2, <1>2, <2>1
      <4> QED BY <4>2, <4>3, <1>5
    <3> QED BY <3>1, <3>2
  <2> QED BY <2>2, <2>3, Places
<1> QED BY <1>1, <1>3, <1>6, <1>7, <1>8

\* The cells callers hold are finitely many.
LEMMA CallsFinite == IsFiniteSet(InCalls) /\ Cardinality(InCalls) \in Nat
<1>1. IsFiniteSet(Callers) BY MultihopAssumption
<1>2. InCalls \in SUBSET Callers BY DEF InCalls
<1>3. IsFiniteSet(InCalls) BY <1>1, <1>2, FS_Subset
<1> QED BY <1>3, FS_CardinalityType

\* One cell more or less is its cost more or less.
LEMMA Budget ==
  ASSUME Accounted, NEW d \in {-1, 0, 1}, queued' = queued + d * Cost,
         IsFiniteSet(InWriters'), Cardinality(InCalls') \in Nat,
         Cardinality(InWriters') + Cardinality(InCalls')
           = Cardinality(InWriters) + Cardinality(InCalls) + d
  PROVE  Accounted'
<1> DEFINE a == Cardinality(InWriters) + Cardinality(InCalls)
           b == Cardinality(InWriters') + Cardinality(InCalls')
<1>1. a \in Nat BY CallsFinite, FS_CardinalityType DEF Accounted
<1>2. b \in Nat BY FS_CardinalityType
<1>3. b = a + d /\ queued = Cost * a BY DEF Accounted, BytesAccounted
<1>4. Cost \in Nat BY MultihopAssumption
<1> HIDE DEF a, b
<1>5. Cost * (a + d) = Cost * a + d * Cost BY <1>1, <1>4
<1>6. queued' = Cost * b BY <1>3, <1>5
<1> QED BY <1>6 DEF Accounted, BytesAccounted, b

-----------------------------------------------------------------------------
(* enqueue *)

\* A caller whose call changes, and no other.
LEMMA CallUpdated ==
  ASSUME PoolTypes, NEW c \in Callers, NEW r \in Call \cup {None},
         call' = [call EXCEPT ![c] = r]
  PROVE  /\ call' \in [Callers -> Call \cup {None}]
         /\ call'[c] = r /\ \A d \in Callers \ {c} : call'[d] = call[d]
         /\ r = None => InCalls' = InCalls \ {c}
         /\ r # None => InCalls' = InCalls \cup {c}
<1>1. /\ call' \in [Callers -> Call \cup {None}]
      /\ call'[c] = r /\ \A d \in Callers \ {c} : call'[d] = call[d]
  BY DEF PoolTypes
<1> QED BY <1>1 DEF InCalls

\* A caller that moves to its next step.
LEMMA Stepped ==
  ASSUME PoolTypes, NEW c \in Callers, call[c] # None,
         NEW s \in {"lookup", "send", "spawn", "retry", "release"},
         NEW w \in Writers \cup {None}, Step(c, s, w)
  PROVE  /\ call' \in [Callers -> Call \cup {None}]
         /\ call'[c] # None /\ call'[c].hop = call[c].hop
         /\ call'[c].step = s /\ call'[c].writer = w
         /\ \A d \in Callers \ {c} : call'[d] = call[d]
         /\ InCalls' = InCalls
<1> DEFINE r == [call[c] EXCEPT !.step = s, !.writer = w]
<1>1. call[c] \in Call BY DEF PoolTypes
<1>2. r \in Call /\ r.hop = call[c].hop /\ r.step = s /\ r.writer = w BY <1>1 DEF Call
<1>3. call' = [call EXCEPT ![c] = r] BY DEF Step, PoolTypes
<1> HIDE DEF r
<1>4. r # None BY <1>2, NotNone
<1>5. c \in InCalls BY DEF InCalls
<1>6. /\ call' \in [Callers -> Call \cup {None}]
      /\ call'[c] = r /\ \A d \in Callers \ {c} : call'[d] = call[d]
      /\ InCalls' = InCalls \cup {c}
  BY <1>2, <1>3, <1>4, CallUpdated
<1> QED BY <1>2, <1>4, <1>5, <1>6

\* The steps of a caller that touch no writer.
LEMMA CallOnly ==
  ASSUME PoolInv, UNCHANGED <<entry, task, replaced>>,
         call' \in [Callers -> Call \cup {None}], CallerHasWriter', Accounted'
  PROVE  PoolInv'
BY DEF PoolInv, PoolTypes, EntryRuns, HandIsFull, WriterIsListed

\* A next hop is a hop.
LEMMA NextHopsAreHops == NextHops \subseteq Hops
<1> SUFFICES ASSUME NEW q \in PathsTo(view, Self, Dst) PROVE q[1] \in Hops
  BY DEF NextHops, Shortest
<1>1. PICK k \in 1..(Cardinality(Nodes) - 1) : q \in [1..k -> Nodes \ {Self}]
  BY DEF PathsTo
<1>2. 1 \in 1..k BY <1>1
<1> QED BY <1>1, <1>2 DEF Hops

\* Charging the pool keeps the invariant.
LEMMA ChargeKeeps ==
  ASSUME PoolInv, NEW c \in Callers, NEW hop \in Hops, Charge(c, hop)
  PROVE  PoolInv'
<1> DEFINE r == [hop |-> hop, writer |-> None,
                 step |-> IF queued + Cost > QueueBytes THEN "release" ELSE "lookup"]
<1>1. /\ call[c] = None /\ queued' = queued + Cost /\ call' = [call EXCEPT ![c] = r]
      /\ UNCHANGED <<entry, task, replaced>>
  BY DEF Charge
<1>2. r \in Call /\ r.writer = None /\ r.step \notin {"send", "retry"} BY DEF Call
<1> HIDE DEF r
<1>3. r # None BY <1>2, NotNone
<1>4. /\ call' \in [Callers -> Call \cup {None}]
      /\ call'[c] = r /\ \A d \in Callers \ {c} : call'[d] = call[d]
      /\ InCalls' = InCalls \cup {c}
  BY <1>1, <1>2, <1>3, CallUpdated DEF PoolInv
<1>5. CallerHasWriter' BY <1>1, <1>2, <1>4 DEF PoolInv, CallerHasWriter
<1>6. Cardinality(InCalls') = Cardinality(InCalls) + 1 /\ IsFiniteSet(InCalls')
  <2>1. c \notin InCalls BY <1>1 DEF InCalls
  <2> QED BY <2>1, <1>4, CallsFinite, FS_AddElement
<1>7. InWriters' = InWriters BY <1>1 DEF InWriters, Held
<1>8. Accounted'
  <2>1. Cardinality(InWriters) \in Nat BY FS_CardinalityType DEF PoolInv, Accounted
  <2>2. Cardinality(InWriters') + Cardinality(InCalls')
          = Cardinality(InWriters) + Cardinality(InCalls) + 1
    BY <2>1, <1>6, <1>7, CallsFinite
  <2>3. queued' = queued + 1 * Cost BY <1>1, MultihopAssumption
  <2>4. Cardinality(InCalls') \in Nat BY <1>6, CallsFinite
  <2> QED BY <2>2, <2>3, <2>4, <1>7, Budget DEF PoolInv, Accounted
<1> QED BY <1>1, <1>4, <1>5, <1>8, CallOnly

\* The number of cells stays when they stay where they are.
LEMMA SameCells ==
  ASSUME Accounted, UNCHANGED <<InWriters, InCalls, queued>>
  PROVE  Accounted'
BY DEF Accounted, BytesAccounted

\* Finding or starting a writer keeps it.
LEMMA WriterForKeeps ==
  ASSUME PoolInv, NEW c \in Callers, WriterFor(c)
  PROVE  PoolInv'
<1> DEFINE w == entry[call[c].hop]
           s == IF w = None THEN "spawn" ELSE "send"
<1>1. call[c] \in Call /\ call[c] # None /\ Step(c, s, w) /\ UNCHANGED <<entry, task, queued, replaced>>
  BY DEF WriterFor, PoolInv, PoolTypes
<1>2. call[c].hop \in Hops /\ w \in Writers \cup {None} /\ (w # None => task[w] # None)
  BY <1>1 DEF Call, PoolInv, PoolTypes, EntryRuns
<1>3. s \in {"spawn", "send"} /\ (s = "send" => w # None) OBVIOUS
<1> HIDE DEF w, s
<1>4. /\ call' \in [Callers -> Call \cup {None}]
      /\ call'[c].step = s /\ call'[c].writer = w
      /\ \A d \in Callers \ {c} : call'[d] = call[d] /\ InCalls' = InCalls
  BY <1>1, <1>2, <1>3, Stepped DEF PoolInv
<1>5. InCalls' = InCalls BY <1>1, <1>2, <1>3, Stepped DEF PoolInv
<1>6. InWriters' = InWriters BY <1>1 DEF InWriters, Held
<1>7. CallerHasWriter' BY <1>1, <1>2, <1>3, <1>4 DEF PoolInv, CallerHasWriter
<1>8. Accounted' BY <1>1, <1>5, <1>6, SameCells DEF PoolInv
<1> QED BY <1>1, <1>4, <1>7, <1>8, CallOnly

\* A caller that gives its writer up, or the cell.
LEMMA StepsBack ==
  ASSUME PoolInv, NEW c \in Callers, call[c] # None, NEW s \in {"spawn", "release"},
         Step(c, s, None), UNCHANGED <<entry, task, queued, replaced>>
  PROVE  PoolInv'
<1>1. /\ call' \in [Callers -> Call \cup {None}]
      /\ call'[c].step = s /\ call'[c].writer = None
      /\ \A d \in Callers \ {c} : call'[d] = call[d]
      /\ InCalls' = InCalls
  BY Stepped DEF PoolInv
<1>2. InWriters' = InWriters BY DEF InWriters, Held
<1>3. CallerHasWriter' BY <1>1 DEF PoolInv, CallerHasWriter
<1>4. Accounted' BY <1>1, <1>2, SameCells DEF PoolInv
<1> QED BY <1>1, <1>3, <1>4, CallOnly

\* A cell goes from its caller into a queue, and stays charged.
LEMMA SendKeeps ==
  ASSUME PoolInv, NEW c \in Callers, call[c] # None, NEW w \in Writers, task[w] # None,
         Accepts(w), Push(w), Returns(c), UNCHANGED <<entry, queued, replaced>>
  PROVE  PoolInv'
<1> DEFINE r == [task[w] EXCEPT !.queue = @ + 1]
<1>1. task[w] \in WriterTask BY DEF PoolInv, PoolTypes
<1>2. /\ r \in WriterTask /\ r.hop = task[w].hop /\ r.phase = task[w].phase
      /\ r.taken = task[w].taken /\ r.queue = task[w].queue + 1
  BY <1>1 DEF WriterTask
<1>3. task' = [task EXCEPT ![w] = r] BY DEF Push
<1> HIDE DEF r
<1>4. r # None BY <1>2, NotNone
<1>5. /\ task' \in [Writers -> WriterTask \cup {None}]
      /\ task'[w] = r /\ \A v \in Writers \ {w} : task'[v] = task[v]
      /\ Held(w)' = Held(w) + 1 =>
           /\ InWriters' = InWriters \cup {<<w, Held(w) + 1>>}
           /\ <<w, Held(w) + 1>> \notin InWriters
  BY <1>2, <1>3, Updated DEF PoolInv
<1>6. Held(w)' = Held(w) + 1
  BY <1>1, <1>2, <1>4, <1>5 DEF Held, WriterTask
<1>7. /\ call' \in [Callers -> Call \cup {None}] /\ call'[c] = None
      /\ \A d \in Callers \ {c} : call'[d] = call[d] /\ InCalls' = InCalls \ {c}
  BY CallUpdated DEF PoolInv, Returns
<1>8. InCalls' = InCalls \ {c} BY CallUpdated DEF PoolInv, Returns
<1>9. EntryRuns'
  BY <1>2, <1>4, <1>5 DEF PoolInv, PoolTypes, EntryRuns
<1>10. CallerHasWriter'
  <2> SUFFICES ASSUME NEW d \in Callers, call'[d] # None
               PROVE  /\ call'[d].step \in {"send", "retry"} => call'[d].writer # None
                      /\ call'[d].writer # None => task'[call'[d].writer] # None
    BY DEF CallerHasWriter
  <2>1. d # c /\ call'[d] = call[d] BY <1>7
  <2>2. call[d].writer \in Writers \cup {None} BY <2>1 DEF PoolInv, PoolTypes, Call
  <2> QED BY <2>1, <2>2, <1>4, <1>5 DEF PoolInv, CallerHasWriter
<1>11. HandIsFull'
  BY <1>2, <1>5 DEF PoolInv, HandIsFull, Accepts
<1>12. Accounted'
  <2>1. Cardinality(InWriters) \in Nat /\ IsFiniteSet(InWriters)
    BY FS_CardinalityType DEF PoolInv, Accounted
  <2>2. Cardinality(InWriters') = Cardinality(InWriters) + 1 /\ IsFiniteSet(InWriters')
    BY <2>1, <1>5, <1>6, FS_AddElement
  <2>3. c \in InCalls BY DEF InCalls
  <2>4. Cardinality(InCalls') = Cardinality(InCalls) - 1 /\ IsFiniteSet(InCalls')
    BY <2>3, <1>8, CallsFinite, FS_RemoveElement
  <2>5. Cardinality(InCalls') \in Nat BY <2>4, FS_CardinalityType
  <2>6. Cardinality(InWriters') + Cardinality(InCalls')
          = Cardinality(InWriters) + Cardinality(InCalls) + 0
    BY <2>1, <2>2, <2>4, CallsFinite
  <2>7. queued \in Int
    BY <2>1, CallsFinite, MultihopAssumption DEF PoolInv, Accounted, BytesAccounted
  <2>8. queued' = queued + 0 * Cost BY <2>7, MultihopAssumption
  <2> QED BY <2>2, <2>5, <2>6, <2>8, Budget DEF PoolInv
<1>13. WriterIsListed' BY <1>2, <1>5 DEF PoolInv, WriterIsListed
<1>14. PoolTypes' BY <1>5, <1>7 DEF PoolInv, PoolTypes
<1> QED BY <1>9, <1>10, <1>11, <1>12, <1>13, <1>14 DEF PoolInv

\* Handing the cell over keeps it.
LEMMA TrySendKeeps ==
  ASSUME PoolInv, NEW c \in Callers, TrySend(c) \/ Retry(c)
  PROVE  PoolInv'
<1> DEFINE w == call[c].writer
<1>1. /\ call[c] # None /\ call[c].step \in {"send", "retry"}
      /\ UNCHANGED <<entry, queued, replaced>>
      /\ \/ Accepts(w) /\ Push(w) /\ Returns(c)
         \/ \E s \in {"spawn", "release"} : Step(c, s, None) /\ UNCHANGED task
  BY DEF TrySend, Retry
<1>2. call[c] \in Call BY <1>1 DEF PoolInv, PoolTypes
<1>3. w \in Writers /\ task[w] # None BY <1>1, <1>2 DEF Call, PoolInv, CallerHasWriter
<1> HIDE DEF w
<1>4. CASE Accepts(w) /\ Push(w) /\ Returns(c) BY <1>1, <1>3, <1>4, SendKeeps
<1>5. CASE \E s \in {"spawn", "release"} : Step(c, s, None) /\ UNCHANGED task
  BY <1>1, <1>5, StepsBack
<1> QED BY <1>1, <1>4, <1>5

\* Giving the charge back keeps it.
LEMMA ReleaseKeeps ==
  ASSUME PoolInv, NEW c \in Callers, Release(c)
  PROVE  PoolInv'
<1>1. /\ call[c] # None /\ queued' = queued - Cost /\ call' = [call EXCEPT ![c] = None]
      /\ UNCHANGED <<entry, task, replaced>>
  BY DEF Release, Returns
<1>2. /\ call' \in [Callers -> Call \cup {None}] /\ call'[c] = None
      /\ \A d \in Callers \ {c} : call'[d] = call[d]
  BY <1>1, CallUpdated DEF PoolInv
<1>3. InCalls' = InCalls \ {c} BY <1>1, CallUpdated DEF PoolInv
<1>4. CallerHasWriter' BY <1>1, <1>2 DEF PoolInv, CallerHasWriter
<1>5. InWriters' = InWriters BY <1>1 DEF InWriters, Held
<1>6. Accounted'
  <2>1. Cardinality(InWriters) \in Nat /\ IsFiniteSet(InWriters)
    BY FS_CardinalityType DEF PoolInv, Accounted
  <2>2. c \in InCalls BY <1>1 DEF InCalls
  <2>3. Cardinality(InCalls') = Cardinality(InCalls) - 1 /\ IsFiniteSet(InCalls')
    BY <2>2, <1>3, CallsFinite, FS_RemoveElement
  <2>4. Cardinality(InCalls') \in Nat BY <2>3, FS_CardinalityType
  <2>5. Cardinality(InWriters') + Cardinality(InCalls')
          = Cardinality(InWriters) + Cardinality(InCalls) + (-1)
    BY <2>1, <2>3, <1>5, CallsFinite
  <2>6. queued \in Int
    BY <2>1, CallsFinite, MultihopAssumption DEF PoolInv, Accounted, BytesAccounted
  <2>7. queued' = queued + (-1) * Cost BY <2>6, <1>1, MultihopAssumption
  <2> QED BY <2>1, <2>4, <2>5, <2>7, <1>5, Budget DEF PoolInv
<1> QED BY <1>1, <1>2, <1>4, <1>6, CallOnly

\* A successor takes the entry, and the writer it had is replaced.
LEMMA SpawnKeeps ==
  ASSUME PoolInv, NEW c \in Callers, SpawnWriter(c)
  PROVE  PoolInv'
<1> DEFINE hop == call[c].hop
           r == [hop |-> hop, phase |-> "dial", queue |-> 0, taken |-> FALSE]
<1>1. call[c] \in Call /\ call[c] # None /\ queued' = queued
  BY DEF SpawnWriter, PoolInv, PoolTypes
<1>2. hop \in Hops BY <1>1 DEF Call
<1>3. CASE Step(c, "release", None) /\ UNCHANGED <<entry, task, replaced>>
  BY <1>1, <1>3, StepsBack
<1>4. CASE \E w \in FreeWriters : /\ entry' = [entry EXCEPT ![hop] = w]
                                  /\ task' = [task EXCEPT ![w] = r]
                                  /\ replaced' = replaced \cup ({entry[hop]} \ {None})
                                  /\ Step(c, "retry", w)
  <2>1. PICK w \in FreeWriters : /\ entry' = [entry EXCEPT ![hop] = w]
                                 /\ task' = [task EXCEPT ![w] = r]
                                 /\ replaced' = replaced \cup ({entry[hop]} \ {None})
                                 /\ Step(c, "retry", w)
    BY <1>4
  <2>2. r \in WriterTask /\ r.hop = hop /\ r.phase = "dial" /\ r.queue = 0 /\ r.taken = FALSE
    BY <1>2 DEF WriterTask
  <2>3. /\ entry' = [entry EXCEPT ![hop] = w] /\ task' = [task EXCEPT ![w] = r]
        /\ replaced' = replaced \cup ({entry[hop]} \ {None}) /\ Step(c, "retry", w)
    BY <2>1
  <2> HIDE DEF r, hop
  <2>4. w \in Writers /\ task[w] = None BY <2>1 DEF FreeWriters
  <2>5. w # None /\ r # None BY <2>2, <2>4, NotNone
  <2>6. /\ task' \in [Writers -> WriterTask \cup {None}]
        /\ task'[w] = r /\ \A v \in Writers \ {w} : task'[v] = task[v]
        /\ Held(w)' = Held(w) => InWriters' = InWriters
    BY <2>2, <2>3, <2>4, Updated DEF PoolInv
  <2>7. Held(w)' = Held(w) BY <2>2, <2>4, <2>5, <2>6 DEF Held
  <2>8. /\ call' \in [Callers -> Call \cup {None}]
        /\ call'[c].step = "retry" /\ call'[c].writer = w
        /\ \A d \in Callers \ {c} : call'[d] = call[d]
        /\ InCalls' = InCalls
    BY <2>3, <2>4, <1>1, Stepped DEF PoolInv
  <2>9. /\ entry' \in [Hops -> Writers \cup {None}] /\ entry'[hop] = w
        /\ \A h \in Hops \ {hop} : entry'[h] = entry[h]
    BY <2>3, <2>4, <1>2 DEF PoolInv, PoolTypes
  <2>10. EntryRuns'
    <3> SUFFICES ASSUME NEW h \in Hops, entry'[h] # None
                 PROVE  /\ task'[entry'[h]] # None /\ task'[entry'[h]].hop = h
                        /\ task'[entry'[h]].phase \in Active
      BY DEF EntryRuns
    <3>1. CASE h = hop BY <3>1, <2>2, <2>5, <2>6, <2>9 DEF Active
    <3>2. CASE h # hop
      <4>1. /\ entry'[h] = entry[h] /\ entry[h] \in Writers /\ task[entry[h]] # None
            /\ task[entry[h]].hop = h /\ task[entry[h]].phase \in Active
        BY <3>2, <2>9 DEF PoolInv, PoolTypes, EntryRuns
      <4>2. entry[h] # w BY <4>1, <2>4
      <4> QED BY <4>1, <4>2, <2>6
    <3> QED BY <3>1, <3>2
  <2>11. CallerHasWriter'
    <3> SUFFICES ASSUME NEW d \in Callers, call'[d] # None
                 PROVE  /\ call'[d].step \in {"send", "retry"} => call'[d].writer # None
                        /\ call'[d].writer # None => task'[call'[d].writer] # None
      BY DEF CallerHasWriter
    <3>1. CASE d = c BY <3>1, <2>5, <2>6, <2>8
    <3>2. CASE d # c
      <4>1. call'[d] = call[d] /\ call[d] \in Call BY <3>2, <2>8 DEF PoolInv, PoolTypes
      <4>2. call[d].writer \in Writers \cup {None} BY <4>1 DEF Call
      <4> QED BY <4>1, <4>2, <2>5, <2>6 DEF PoolInv, CallerHasWriter
    <3> QED BY <3>1, <3>2
  <2>12. HandIsFull' BY <2>2, <2>6 DEF PoolInv, HandIsFull
  <2>13. Accounted' BY <2>6, <2>7, <2>8, <1>1, SameCells DEF PoolInv
  <2>14. WriterIsListed'
    <3> SUFFICES ASSUME NEW v \in Writers, task'[v] # None,
                        task'[v].phase \in {"dial", "drain", "write", "stop"}, v \notin replaced'
                 PROVE  entry'[task'[v].hop] = v
      BY DEF WriterIsListed
    <3>1. CASE v = w BY <3>1, <2>2, <2>6, <2>9
    <3>2. CASE v # w
      <4>1. task'[v] = task[v] /\ v \notin replaced BY <3>2, <2>3, <2>6
      <4>2. entry[task[v].hop] = v BY <4>1 DEF PoolInv, WriterIsListed
      <4>3. task[v].hop \in Hops BY <4>1 DEF PoolInv, PoolTypes, WriterTask
      <4>4. task[v].hop # hop
        <5>1. v # None BY NotNone
        <5> QED BY <5>1, <2>3, <4>2
      <4> QED BY <4>1, <4>2, <4>3, <4>4, <2>9
    <3> QED BY <3>1, <3>2
  <2>15. PoolTypes' BY <2>6, <2>8, <2>9 DEF PoolTypes
  <2> QED BY <2>10, <2>11, <2>12, <2>13, <2>14, <2>15 DEF PoolInv
<1> QED BY <1>3, <1>4 DEF SpawnWriter

-----------------------------------------------------------------------------
(* writer_task *)

\* A step of a writer that loses no entry but its own, and that on stopping.
LEMMA WriterSteps ==
  ASSUME PoolInv, NEW w \in Writers, task[w] # None, NEW r \in WriterTask,
         task' = [task EXCEPT ![w] = r], r.hop = task[w].hop,
         r.taken <=> r.phase = "write", r.phase = "ended" => r.queue = 0,
         r.phase \in Active => task[w].phase \in Active,
         entry' \in [Hops -> Writers \cup {None}],
         \A h \in Hops : \/ entry'[h] = entry[h] /\ (entry[h] = w => r.phase \in Active)
                         \/ entry[h] = w /\ entry'[h] = None /\ r.phase \notin Active,
         UNCHANGED <<call, replaced>>, Accounted'
  PROVE  PoolInv'
<1>1. /\ task' \in [Writers -> WriterTask \cup {None}]
      /\ task'[w] = r /\ \A v \in Writers \ {w} : task'[v] = task[v]
  BY Updated DEF PoolInv
<1>2. r # None BY NotNone
<1>3. PoolTypes' BY <1>1 DEF PoolInv, PoolTypes
<1>4. EntryRuns'
  <2> SUFFICES ASSUME NEW h \in Hops, entry'[h] # None
               PROVE  /\ task'[entry'[h]] # None /\ task'[entry'[h]].hop = h
                      /\ task'[entry'[h]].phase \in Active
    BY DEF EntryRuns
  <2>1. /\ entry'[h] = entry[h] /\ entry[h] \in Writers /\ (entry[h] = w => r.phase \in Active)
        /\ task[entry[h]] # None /\ task[entry[h]].hop = h /\ task[entry[h]].phase \in Active
    BY DEF PoolInv, PoolTypes, EntryRuns
  <2>2. CASE entry[h] = w BY <2>1, <2>2, <1>1, <1>2
  <2>3. CASE entry[h] # w BY <2>1, <2>3, <1>1
  <2> QED BY <2>2, <2>3
<1>5. CallerHasWriter'
  <2> SUFFICES ASSUME NEW c \in Callers, call[c] # None
               PROVE  /\ call[c].step \in {"send", "retry"} => call[c].writer # None
                      /\ call[c].writer # None => task'[call[c].writer] # None
    BY DEF CallerHasWriter
  <2>1. call[c].writer \in Writers \cup {None} BY DEF PoolInv, PoolTypes, Call
  <2> QED BY <2>1, <1>1, <1>2 DEF PoolInv, CallerHasWriter
<1>6. HandIsFull' BY <1>1 DEF PoolInv, HandIsFull
<1>7. WriterIsListed'
  <2> SUFFICES ASSUME NEW v \in Writers, task'[v] # None, task'[v].phase \in Active, v \notin replaced
               PROVE  entry'[task'[v].hop] = v
    BY DEF WriterIsListed, Active
  <2>1. task[v] # None /\ task[v].phase \in Active /\ task'[v].hop = task[v].hop
    BY <1>1
  <2>2. entry[task[v].hop] = v BY <2>1 DEF PoolInv, WriterIsListed, Active
  <2>3. task[v].hop \in Hops BY <2>1 DEF PoolInv, PoolTypes, WriterTask
  <2>4. CASE v = w BY <2>1, <2>2, <2>3, <2>4, <1>1
  <2>5. CASE v # w BY <2>1, <2>2, <2>3, <2>5
  <2> QED BY <2>4, <2>5
<1> QED BY <1>3, <1>4, <1>5, <1>6, <1>7 DEF PoolInv

\* The same, with as many cells as before and every entry as it was.
LEMMA PhaseSteps ==
  ASSUME PoolInv, NEW w \in Writers, task[w] # None, NEW r \in WriterTask,
         task' = [task EXCEPT ![w] = r], r.hop = task[w].hop,
         r.queue + (IF r.taken THEN 1 ELSE 0)
           = task[w].queue + (IF task[w].taken THEN 1 ELSE 0),
         r.taken <=> r.phase = "write", r.phase = "ended" => r.queue = 0,
         r.phase \in Active <=> task[w].phase \in Active,
         UNCHANGED <<call, entry, queued, replaced>>
  PROVE  PoolInv'
<1>1. r # None BY NotNone
<1>2. task'[w] = r /\ (Held(w)' = Held(w) => InWriters' = InWriters) BY Updated DEF PoolInv
<1>3. Held(w)' = Held(w) BY <1>1, <1>2 DEF Held
<1>4. Accounted' BY <1>2, <1>3, SameCells DEF PoolInv, InCalls
<1>5. \A h \in Hops : entry[h] = w => r.phase \in Active
  BY NotNone DEF PoolInv, EntryRuns
<1>6. entry' \in [Hops -> Writers \cup {None}] BY DEF PoolInv, PoolTypes
<1> QED BY <1>4, <1>5, <1>6, WriterSteps

\* A cell leaves a writer with its charge.
LEMMA CellReleased ==
  ASSUME PoolInv, NEW w \in Writers, task[w] # None, NEW r \in WriterTask,
         task' = [task EXCEPT ![w] = r],
         r.queue + (IF r.taken THEN 1 ELSE 0) + 1
           = task[w].queue + (IF task[w].taken THEN 1 ELSE 0),
         queued' = queued - Cost, UNCHANGED call
  PROVE  Accounted'
<1>1. r # None BY NotNone
<1>2. /\ task'[w] = r
      /\ Held(w) = Held(w)' + 1 =>
           /\ InWriters' = InWriters \ {<<w, Held(w)>>}
           /\ <<w, Held(w)>> \in InWriters
  BY Updated DEF PoolInv
<1>3. Held(w) = Held(w)' + 1 BY <1>1, <1>2 DEF Held
<1>4. Cardinality(InWriters) \in Nat /\ IsFiniteSet(InWriters)
  BY FS_CardinalityType DEF PoolInv, Accounted
<1>5. Cardinality(InWriters') = Cardinality(InWriters) - 1 /\ IsFiniteSet(InWriters')
  BY <1>2, <1>3, <1>4, FS_RemoveElement
<1>6. InCalls' = InCalls BY DEF InCalls
<1>7. Cardinality(InWriters') + Cardinality(InCalls')
        = Cardinality(InWriters) + Cardinality(InCalls) + (-1)
  BY <1>4, <1>5, <1>6, CallsFinite
<1>8. queued \in Int
  BY <1>4, CallsFinite, MultihopAssumption DEF PoolInv, Accounted, BytesAccounted
<1>9. queued' = queued + (-1) * Cost BY <1>8, MultihopAssumption
<1> QED BY <1>5, <1>6, <1>7, <1>9, CallsFinite, Budget DEF PoolInv

\* The dial of a writer keeps it.
LEMMA DialKeeps ==
  ASSUME PoolInv, NEW w \in Writers, Dial(w)
  PROVE  PoolInv'
<1>1. PICK p \in {"drain", "stop"} : Phase(w, p) BY DEF Dial
<1>2. task[w] \in WriterTask /\ task[w] # None /\ task[w].phase = "dial"
  BY DEF Dial, PoolInv, PoolTypes
<1> DEFINE r == [task[w] EXCEPT !.phase = p]
<1>3. /\ r \in WriterTask /\ r.hop = task[w].hop /\ r.queue = task[w].queue
      /\ r.taken = task[w].taken /\ r.phase = p
  BY <1>2 DEF WriterTask
<1>4. task' = [task EXCEPT ![w] = r] BY <1>1 DEF Phase
<1> HIDE DEF r
<1>5. r.taken <=> r.phase = "write" BY <1>2, <1>3 DEF PoolInv, HandIsFull
<1> QED BY <1>2, <1>3, <1>4, <1>5, PhaseSteps DEF Dial, Active

\* Taking a cell from the queue keeps it.
LEMMA RecvKeeps ==
  ASSUME PoolInv, NEW w \in Writers, Recv(w)
  PROVE  PoolInv'
<1> DEFINE r == [task[w] EXCEPT !.phase = "write", !.queue = @ - 1, !.taken = TRUE]
<1>1. /\ task[w] \in WriterTask /\ task[w] # None /\ task[w].phase = "drain" /\ task[w].queue > 0
      /\ UNCHANGED <<call, entry, queued, replaced>>
  BY DEF Recv, PoolInv, PoolTypes
<1>2. /\ r \in WriterTask /\ r.hop = task[w].hop /\ r.queue = task[w].queue - 1
      /\ r.taken = TRUE /\ r.phase = "write" /\ task[w].queue \in Nat
  <2>1. task[w].queue \in Nat /\ task[w].queue - 1 \in Nat BY <1>1 DEF WriterTask
  <2> DEFINE n == task[w].queue - 1
  <2>2. n \in Nat BY <2>1
  <2>3. r = [task[w] EXCEPT !.phase = "write", !.queue = n, !.taken = TRUE] OBVIOUS
  <2> HIDE DEF n
  <2>4. r \in WriterTask /\ r.hop = task[w].hop /\ r.queue = n /\ r.taken = TRUE /\ r.phase = "write"
    BY <1>1, <2>2, <2>3 DEF WriterTask
  <2> QED BY <2>1, <2>4 DEF n
<1>3. task' = [task EXCEPT ![w] = r] BY <1>1 DEF Recv
<1> HIDE DEF r
<1>4. ~task[w].taken BY <1>1 DEF PoolInv, HandIsFull
<1>5. r.queue + (IF r.taken THEN 1 ELSE 0) = task[w].queue + (IF task[w].taken THEN 1 ELSE 0)
  BY <1>2, <1>4
<1> QED BY <1>1, <1>2, <1>3, <1>5, PhaseSteps DEF Active

\* Writing a cell keeps it.
LEMMA WriteCellKeeps ==
  ASSUME PoolInv, NEW w \in Writers, WriteCell(w)
  PROVE  PoolInv'
<1>1. PICK p \in {"drain", "stop"} :
        task' = [task EXCEPT ![w].phase = p, ![w].taken = FALSE]
  BY DEF WriteCell
<1> DEFINE r == [task[w] EXCEPT !.phase = p, !.taken = FALSE]
<1>2. /\ task[w] \in WriterTask /\ task[w] # None /\ task[w].phase = "write"
      /\ queued' = queued - Cost /\ UNCHANGED <<call, entry, replaced>>
  BY DEF WriteCell, PoolInv, PoolTypes
<1>3. /\ r \in WriterTask /\ r.hop = task[w].hop /\ r.queue = task[w].queue
      /\ r.taken = FALSE /\ r.phase = p /\ task[w].queue \in Nat
  BY <1>2 DEF WriterTask
<1>4. task' = [task EXCEPT ![w] = r] BY <1>1
<1> HIDE DEF r
<1>5. task[w].taken BY <1>2 DEF PoolInv, HandIsFull
<1>6. r.queue + (IF r.taken THEN 1 ELSE 0) + 1 = task[w].queue + (IF task[w].taken THEN 1 ELSE 0)
  BY <1>3, <1>5
<1>7. Accounted' BY <1>2, <1>3, <1>4, <1>6, CellReleased
<1>8. entry' \in [Hops -> Writers \cup {None}] BY <1>2 DEF PoolInv, PoolTypes
<1> QED BY <1>2, <1>3, <1>4, <1>7, <1>8, WriterSteps DEF Active

\* A writer that stops takes its own entry with it, never its successor's.
LEMMA RetireKeeps ==
  ASSUME PoolInv, NEW w \in Writers, Retire(w)
  PROVE  PoolInv'
<1> DEFINE r == [task[w] EXCEPT !.phase = "close"]
<1>1. /\ task[w] \in WriterTask /\ task[w] # None /\ task[w].phase = "stop"
      /\ entry' = Retired(w) /\ UNCHANGED <<call, queued, replaced>>
  BY DEF Retire, PoolInv, PoolTypes
<1>2. /\ r \in WriterTask /\ r.hop = task[w].hop /\ r.queue = task[w].queue
      /\ r.taken = task[w].taken /\ r.phase = "close" /\ task[w].hop \in Hops
  BY <1>1 DEF WriterTask
<1>3. task' = [task EXCEPT ![w] = r] BY <1>1 DEF Retire, Phase
<1> HIDE DEF r
<1>4. ~r.taken BY <1>1, <1>2 DEF PoolInv, HandIsFull
<1>5. task'[w] = r /\ (Held(w)' = Held(w) => InWriters' = InWriters)
  BY <1>2, <1>3, Updated DEF PoolInv
<1>6. r # None BY <1>2, NotNone
<1>7. Held(w)' = Held(w) BY <1>1, <1>2, <1>5, <1>6 DEF Held
<1>8. Accounted' BY <1>1, <1>5, <1>7, SameCells DEF PoolInv, InCalls
<1>9. entry' \in [Hops -> Writers \cup {None}] BY <1>1 DEF PoolInv, PoolTypes, Retired
<1>10. \A h \in Hops : entry[h] = w => h = task[w].hop
  <2>1. w # None BY NotNone
  <2> QED BY <2>1 DEF PoolInv, EntryRuns
<1>11. \A h \in Hops : \/ entry'[h] = entry[h] /\ entry[h] # w
                       \/ entry[h] = w /\ entry'[h] = None
  BY <1>1, <1>2, <1>10 DEF Retired, PoolInv, PoolTypes
<1> QED BY <1>1, <1>2, <1>3, <1>4, <1>8, <1>9, <1>11, WriterSteps DEF Active

\* Closing the queue keeps it.
LEMMA CloseKeeps ==
  ASSUME PoolInv, NEW w \in Writers, Close(w)
  PROVE  PoolInv'
<1> DEFINE r == [task[w] EXCEPT !.phase = "closed"]
<1>1. /\ task[w] \in WriterTask /\ task[w] # None /\ task[w].phase = "close"
      /\ UNCHANGED <<call, entry, queued, replaced>>
  BY DEF Close, PoolInv, PoolTypes
<1>2. /\ r \in WriterTask /\ r.hop = task[w].hop /\ r.queue = task[w].queue
      /\ r.taken = task[w].taken /\ r.phase = "closed"
  BY <1>1 DEF WriterTask
<1>3. task' = [task EXCEPT ![w] = r] BY DEF Close, Phase
<1> HIDE DEF r
<1>4. ~r.taken BY <1>1, <1>2 DEF PoolInv, HandIsFull
<1> QED BY <1>1, <1>2, <1>3, <1>4, PhaseSteps DEF Active

\* Draining a closed queue keeps it.
LEMMA DrainKeeps ==
  ASSUME PoolInv, NEW w \in Writers, Drain(w)
  PROVE  PoolInv'
<1>1. /\ task[w] \in WriterTask /\ task[w] # None /\ task[w].phase = "closed"
      /\ UNCHANGED <<call, entry, replaced>> /\ task[w].queue \in Nat
  BY DEF Drain, PoolInv, PoolTypes, WriterTask
<1>2. ~task[w].taken BY <1>1 DEF PoolInv, HandIsFull
<1>3. CASE task[w].queue > 0
  <2> DEFINE r == [task[w] EXCEPT !.queue = @ - 1]
  <2>1. /\ r \in WriterTask /\ r.hop = task[w].hop /\ r.queue = task[w].queue - 1
        /\ r.taken = task[w].taken /\ r.phase = "closed"
    BY <1>1, <1>3 DEF WriterTask
  <2>2. task' = [task EXCEPT ![w] = r] /\ queued' = queued - Cost BY <1>3 DEF Drain
  <2> HIDE DEF r
  <2>3. r.queue + (IF r.taken THEN 1 ELSE 0) + 1 = task[w].queue + (IF task[w].taken THEN 1 ELSE 0)
    BY <1>1, <1>2, <2>1
  <2>4. Accounted' BY <1>1, <2>1, <2>2, <2>3, CellReleased
  <2>5. entry' \in [Hops -> Writers \cup {None}] BY <1>1 DEF PoolInv, PoolTypes
  <2>6. \A h \in Hops : entry[h] # w
    <3>1. w # None BY NotNone
    <3> QED BY <3>1, <1>1 DEF PoolInv, EntryRuns, Active
  <2> QED BY <1>1, <1>2, <2>1, <2>2, <2>4, <2>5, <2>6, WriterSteps DEF Active
<1>4. CASE ~(task[w].queue > 0)
  <2> DEFINE r == [task[w] EXCEPT !.phase = "ended"]
  <2>1. /\ r \in WriterTask /\ r.hop = task[w].hop /\ r.queue = task[w].queue
        /\ r.taken = task[w].taken /\ r.phase = "ended"
    BY <1>1 DEF WriterTask
  <2>2. task' = [task EXCEPT ![w] = r] /\ queued' = queued BY <1>4 DEF Drain, Phase
  <2> HIDE DEF r
  <2>3. task[w].queue = 0 BY <1>1, <1>4
  <2> QED BY <1>1, <1>2, <2>1, <2>2, <2>3, PhaseSteps DEF Active
<1> QED BY <1>3, <1>4

\* Dropping the writer keeps it.
LEMMA DroppedKeeps ==
  ASSUME PoolInv, NEW w \in Writers, Dropped(w)
  PROVE  PoolInv'
<1>1. /\ task[w] # None /\ task[w].phase = "ended" /\ task' = [task EXCEPT ![w] = None]
      /\ \A c \in Callers : call[c] # None => call[c].writer # w
      /\ replaced' = replaced \ {w} /\ UNCHANGED <<call, entry, queued>>
  BY DEF Dropped
<1>2. /\ task' \in [Writers -> WriterTask \cup {None}]
      /\ task'[w] = None /\ \A v \in Writers \ {w} : task'[v] = task[v]
      /\ Held(w)' = Held(w) => InWriters' = InWriters
  BY <1>1, Updated DEF PoolInv
<1>3. task[w].queue = 0 /\ ~task[w].taken BY <1>1 DEF PoolInv, HandIsFull
<1>4. Held(w)' = Held(w) BY <1>1, <1>2, <1>3 DEF Held
<1>5. Accounted' BY <1>1, <1>2, <1>4, SameCells DEF PoolInv, InCalls
<1>6. PoolTypes' BY <1>1, <1>2 DEF PoolInv, PoolTypes
<1>7. EntryRuns'
  <2> SUFFICES ASSUME NEW h \in Hops, entry[h] # None
               PROVE  /\ task'[entry[h]] # None /\ task'[entry[h]].hop = h
                      /\ task'[entry[h]].phase \in Active
    BY <1>1 DEF EntryRuns
  <2>1. /\ entry[h] \in Writers /\ task[entry[h]] # None /\ task[entry[h]].hop = h
        /\ task[entry[h]].phase \in Active
    BY DEF PoolInv, PoolTypes, EntryRuns
  <2>2. entry[h] # w BY <1>1, <2>1 DEF Active
  <2> QED BY <2>1, <2>2, <1>2
<1>8. CallerHasWriter'
  <2> SUFFICES ASSUME NEW c \in Callers, call[c] # None
               PROVE  /\ call[c].step \in {"send", "retry"} => call[c].writer # None
                      /\ call[c].writer # None => task'[call[c].writer] # None
    BY <1>1 DEF CallerHasWriter
  <2>1. call[c].writer \in Writers \cup {None} BY DEF PoolInv, PoolTypes, Call
  <2> QED BY <2>1, <1>1, <1>2 DEF PoolInv, CallerHasWriter
<1>9. HandIsFull' BY <1>2 DEF PoolInv, HandIsFull
<1>10. WriterIsListed' BY <1>1, <1>2 DEF PoolInv, WriterIsListed
<1> QED BY <1>5, <1>6, <1>7, <1>8, <1>9, <1>10 DEF PoolInv

-----------------------------------------------------------------------------
(* The pool *)

\* The pool invariant holds at first.
LEMMA PoolInit == Init => PoolInv
<1> SUFFICES ASSUME Init PROVE PoolInv OBVIOUS
<1>1. PoolTypes BY DEF Init, PoolTypes
<1>2. EntryRuns /\ CallerHasWriter /\ HandIsFull /\ WriterIsListed
  BY DEF Init, EntryRuns, CallerHasWriter, HandIsFull, WriterIsListed
<1>3. \A w \in Writers : Held(w) = 0 BY DEF Init, Held
<1>4. InWriters = {} BY <1>3, Places
<1>5. InCalls = {} BY DEF Init, InCalls
<1>6. queued = Cost * (0 + 0) BY MultihopAssumption DEF Init
<1>7. Accounted BY <1>4, <1>5, <1>6, FS_EmptySet DEF Accounted, BytesAccounted
<1> QED BY <1>1, <1>2, <1>7 DEF PoolInv

\* Every step keeps it.
LEMMA PoolStep == PoolInv /\ [Next]_vars => PoolInv'
<1> SUFFICES ASSUME PoolInv, [Next]_vars PROVE PoolInv' OBVIOUS
<1>1. ASSUME UNCHANGED poolVars PROVE PoolInv'
  BY <1>1 DEF poolVars, PoolInv, PoolTypes, EntryRuns, CallerHasWriter, HandIsFull, Accounted,
              BytesAccounted, WriterIsListed, InWriters, InCalls, Held
<1>2. ASSUME NEW c \in Callers, Enqueue(c) PROVE PoolInv'
  <2>1. ASSUME NEW hop \in NextHops, Charge(c, hop) PROVE PoolInv'
    BY <2>1, NextHopsAreHops, ChargeKeeps
  <2>2. CASE WriterFor(c) BY <2>2, WriterForKeeps
  <2>3. CASE TrySend(c) \/ Retry(c) BY <2>3, TrySendKeeps
  <2>4. CASE SpawnWriter(c) BY <2>4, SpawnKeeps
  <2>5. CASE Release(c) BY <2>5, ReleaseKeeps
  <2> QED BY <1>2, <2>1, <2>2, <2>3, <2>4, <2>5 DEF Enqueue
<1>3. ASSUME NEW w \in Writers, Writer(w) PROVE PoolInv'
  BY <1>3, DialKeeps, RecvKeeps, WriteCellKeeps, RetireKeeps, CloseKeeps, DrainKeeps,
     DroppedKeeps DEF Writer
<1>4. CASE UNCHANGED vars BY <1>1, <1>4 DEF vars
<1> QED BY <1>1, <1>2, <1>3, <1>4 DEF Next

\* For every number of callers and writers, every cost, queue length, ceiling
\* and budget: the bytes counted are those of the cells that are with a caller
\* or a writer, so every way out of a queue releases its charge exactly once
\* (enqueue, drain_to_hop, writer_task).
THEOREM ChargesBalance == Spec => []BytesAccounted
<1>1. PoolInv => BytesAccounted BY DEF PoolInv, Accounted
<1> QED BY <1>1, PoolInit, PoolStep, PTL DEF Spec

\* For every number of writers and hops: one that runs and was not replaced
\* has its entry, so one that ends late never takes its successor's (retire).
THEOREM SuccessorKeepsEntry == Spec => []WriterIsListed
<1>1. PoolInv => WriterIsListed BY DEF PoolInv
<1> QED BY <1>1, PoolInit, PoolStep, PTL DEF Spec

-----------------------------------------------------------------------------
(* The routes *)

\* The inductive invariant of the link vectors.
LinkTypes ==
  /\ gone \subseteq Leavers /\ seq \in [Nodes -> Nat]
  /\ sent \subseteq Vector /\ heard \subseteq sent
  /\ view \in [Nodes -> Vector \cup {None}]

\* No link leads to a member that left.
UpAmongPresent == \A e \in up : e \cap gone = {}

\* A member numbers its vectors, each number once.
Numbered ==
  /\ \A v \in sent : v.seq <= seq[v.origin]
  /\ \A u, v \in sent : u.origin = v.origin /\ u.seq = v.seq => u = v

\* The table holds the newest vector heard of each member.
HoldsNewest ==
  /\ \A n \in Nodes : view[n] # None => view[n] \in heard /\ view[n].origin = n
  /\ \A v \in heard : view[v.origin] # None /\ view[v.origin].seq >= v.seq

LinkInv == LinkTypes /\ UpAmongPresent /\ Numbered /\ HoldsNewest

\* A vector is not the missing one.
LEMMA VectorNotNone ==
  /\ \A v \in Vector : v # None
  /\ \A S \in SUBSET Nodes : [links |-> S] # None
BY NoVectorAssumption

\* Members list members.
LEMMA NeighborsAreNodes == \A n : Neighbors(n) \in SUBSET Nodes BY DEF Neighbors

\* ingest keeps the newest of what was heard, the new vector counted.
LEMMA IngestNewest ==
  ASSUME LinkTypes, HoldsNewest, NEW v \in Vector,
         view' = Ingest(view, v), heard' = heard \cup {v}
  PROVE  view' \in [Nodes -> Vector \cup {None}] /\ HoldsNewest'
<1>1. v # None /\ v.origin \in Nodes /\ v.seq \in Nat BY VectorNotNone DEF Vector
<1>2. \A n \in Nodes : view[n] # None => view[n].seq \in Nat
  BY DEF LinkTypes, Vector
<1>3. \A u \in heard : u.origin \in Nodes /\ u.seq \in Nat BY DEF LinkTypes, Vector
<1>4. CASE view[v.origin] # None /\ view[v.origin].seq >= v.seq
  <2>1. view' = view BY <1>4 DEF Ingest
  <2> QED BY <2>1, <1>4 DEF HoldsNewest, LinkTypes
<1>5. CASE ~(view[v.origin] # None /\ view[v.origin].seq >= v.seq)
  <2>1. view' = [view EXCEPT ![v.origin] = v] BY <1>5 DEF Ingest
  <2>2. view'[v.origin] = v /\ \A n \in Nodes \ {v.origin} : view'[n] = view[n]
    BY <2>1, <1>1 DEF LinkTypes
  <2>3. view' \in [Nodes -> Vector \cup {None}] BY <2>1, <1>1 DEF LinkTypes
  <2>4. \A n \in Nodes : view'[n] # None => view'[n] \in heard' /\ view'[n].origin = n
    BY <2>2 DEF HoldsNewest
  <2>5. ASSUME NEW u \in heard' PROVE view'[u.origin] # None /\ view'[u.origin].seq >= u.seq
    <3>1. CASE u = v BY <3>1, <2>2, <1>1
    <3>2. CASE u \in heard /\ u.origin # v.origin
      BY <3>2, <2>2, <1>3 DEF HoldsNewest
    <3>3. CASE u \in heard /\ u.origin = v.origin
      <4>1. view[v.origin] # None /\ view[v.origin].seq >= u.seq BY <3>3 DEF HoldsNewest
      <4>2. view[v.origin].seq < v.seq BY <4>1, <1>1, <1>2, <1>5
      <4>3. v.seq >= u.seq BY <4>1, <4>2, <1>1, <1>2, <1>3, <3>3
      <4> QED BY <4>3, <3>3, <2>2, <1>1
    <3> QED BY <3>1, <3>2, <3>3
  <2> QED BY <2>3, <2>4, <2>5 DEF HoldsNewest
<1> QED BY <1>4, <1>5

\* A tick keeps the invariant of the routes.
LEMMA TickKeeps ==
  ASSUME LinkInv, NEW n \in Nodes, LinkstateTick(n)
  PROVE  LinkInv'
<1> DEFINE v == [origin |-> n, seq |-> seq[n] + 1, links |-> Neighbors(n)]
<1>1. /\ seq' = [seq EXCEPT ![n] = @ + 1] /\ sent' = sent \cup {v}
      /\ view' = IF n = Self THEN Ingest(view, v) ELSE view
      /\ heard' = IF n = Self THEN heard \cup {v} ELSE heard
      /\ UNCHANGED <<up, gone>>
  BY DEF LinkstateTick
<1>2. seq \in [Nodes -> Nat] BY DEF LinkInv, LinkTypes
<1>3. /\ v \in Vector /\ v.origin = n /\ v.seq = seq[n] + 1
  BY <1>2, NeighborsAreNodes DEF Vector
<1> HIDE DEF v
<1>4. seq' \in [Nodes -> Nat] /\ seq'[n] = seq[n] + 1 /\ \A m \in Nodes \ {n} : seq'[m] = seq[m]
  BY <1>1, <1>2
<1>5. \A u \in sent : u.origin \in Nodes /\ u.seq \in Nat /\ u.seq <= seq[u.origin]
  BY DEF LinkInv, LinkTypes, Numbered, Vector
<1>6. Numbered'
  <2>1. \A u \in sent' : u.seq <= seq'[u.origin]
    <3> TAKE u \in sent'
    <3>1. CASE u = v BY <3>1, <1>2, <1>3, <1>4
    <3>2. CASE u \in sent /\ u.origin = n BY <3>2, <1>2, <1>4, <1>5
    <3>3. CASE u \in sent /\ u.origin # n BY <3>3, <1>4, <1>5
    <3> QED BY <3>1, <3>2, <3>3, <1>1
  <2>2. \A u \in sent : ~(u.origin = n /\ u.seq = seq[n] + 1) BY <1>2, <1>5
  <2>3. \A a, b \in sent' : a.origin = b.origin /\ a.seq = b.seq => a = b
    BY <2>2, <1>1, <1>3 DEF LinkInv, Numbered
  <2> QED BY <2>1, <2>3 DEF Numbered
<1>7. view' \in [Nodes -> Vector \cup {None}] /\ HoldsNewest'
  <2>1. CASE n = Self BY <2>1, <1>1, <1>3, IngestNewest DEF LinkInv
  <2>2. CASE n # Self BY <2>2, <1>1 DEF LinkInv, LinkTypes, HoldsNewest
  <2> QED BY <2>1, <2>2
<1>8. LinkTypes' BY <1>1, <1>3, <1>4, <1>7 DEF LinkInv, LinkTypes
<1>9. UpAmongPresent' BY <1>1 DEF LinkInv, UpAmongPresent
<1> QED BY <1>6, <1>7, <1>8, <1>9 DEF LinkInv

\* Every step keeps it.
LEMMA LinkStep ==
  ASSUME LinkInv, LinkNext
  PROVE  LinkInv'
<1>1. ASSUME NEW n \in Nodes, LinkstateTick(n) PROVE LinkInv' BY <1>1, TickKeeps
<1>2. ASSUME NEW v \in sent, HandleLinkState(v) PROVE LinkInv'
  <2>1. /\ view' = Ingest(view, v) /\ heard' = heard \cup {v} /\ UNCHANGED <<up, gone, seq, sent>>
    BY <1>2 DEF HandleLinkState
  <2>2. v \in Vector BY DEF LinkInv, LinkTypes
  <2>3. view' \in [Nodes -> Vector \cup {None}] /\ HoldsNewest'
    BY <2>1, <2>2, IngestNewest DEF LinkInv
  <2> QED BY <2>1, <2>3 DEF LinkInv, LinkTypes, UpAmongPresent, Numbered
<1>3. ASSUME NEW e \in Flaky, LinkChanges(e) PROVE LinkInv'
  <2>1. UpAmongPresent' BY <1>3 DEF LinkChanges, LinkInv, UpAmongPresent
  <2> QED BY <2>1, <1>3 DEF LinkChanges, LinkInv, LinkTypes, Numbered, HoldsNewest
<1>4. ASSUME NEW n \in Leavers, Departs(n) PROVE LinkInv'
  <2>1. UpAmongPresent' BY <1>4 DEF Departs, LinkInv, UpAmongPresent
  <2>2. LinkTypes' BY <1>4 DEF Departs, LinkInv, LinkTypes
  <2> QED BY <2>1, <2>2, <1>4 DEF Departs, LinkInv, Numbered, HoldsNewest
<1> QED BY <1>1, <1>2, <1>3, <1>4 DEF LinkNext

\* It holds at first.
LEMMA LinkStarts == LinkInit \/ LinkTold => LinkInv
<1>1. ASSUME LinkInit PROVE LinkInv
  BY <1>1 DEF LinkInit, LinkInv, LinkTypes, UpAmongPresent, Numbered, HoldsNewest
<1>2. ASSUME LinkTold PROVE LinkInv
  <2> DEFINE told == [n \in Nodes |-> [origin |-> n, seq |-> MaxSeq, links |-> Neighbors(n)]]
  <2>1. /\ gone = {} /\ seq = [n \in Nodes |-> MaxSeq] /\ sent = {told[n] : n \in Nodes}
        /\ heard = sent /\ view = told
    BY <1>2 DEF LinkTold
  <2>2. \A n \in Nodes : told[n] \in Vector /\ told[n].origin = n /\ told[n].seq = MaxSeq
    BY LinkStateAssumption, NeighborsAreNodes DEF Vector
  <2>3. \A n \in Nodes : told[n] # None BY <2>2, VectorNotNone
  <2>4. told \in [Nodes -> Vector] BY <2>2
  <2>5. MaxSeq \in Nat BY LinkStateAssumption
  <2> HIDE DEF told
  <2>6. LinkTypes BY <2>1, <2>2, <2>4, <2>5 DEF LinkTypes
  <2>7. Numbered BY <2>1, <2>2, <2>5 DEF Numbered
  <2>8. HoldsNewest BY <2>1, <2>2, <2>3, <2>5 DEF HoldsNewest
  <2>9. UpAmongPresent BY <2>1 DEF UpAmongPresent
  <2> QED BY <2>6, <2>7, <2>8, <2>9 DEF LinkInv
<1> QED BY <1>1, <1>2

\* When all is told and heard, the table shows a present member as it is, and
\* from one only members that are present.
LEMMA PresentAgrees ==
  ASSUME LinkInv, Quiet, NEW n \in Nodes, n \notin gone
  PROVE  /\ \A m \in Nodes : Linked(view, n, m) <=> Linked(Actual, n, m)
         /\ \A m \in Nodes : Linked(view, n, m) => m \notin gone
<1> DEFINE v == [origin |-> n, seq |-> seq[n], links |-> Neighbors(n)]
<1>1. v \in heard /\ v.origin = n /\ v.seq = seq[n] /\ v.links = Neighbors(n) BY DEF Quiet
<1> HIDE DEF v
<1>2. view[n] # None /\ view[n].seq >= seq[n] /\ view[n] \in heard /\ view[n].origin = n
  BY <1>1 DEF LinkInv, HoldsNewest
<1>3. view[n] \in sent /\ v \in sent /\ view[n].seq \in Nat /\ seq[n] \in Nat
  BY <1>1, <1>2 DEF LinkInv, LinkTypes, Vector
<1>4. view[n].seq <= seq[n] BY <1>2, <1>3 DEF LinkInv, Numbered
<1>5. view[n].seq = seq[n] BY <1>2, <1>3, <1>4
<1>6. view[n] = v BY <1>1, <1>2, <1>3, <1>5 DEF LinkInv, Numbered
<1>7. Actual[n] = [links |-> Neighbors(n)] BY DEF Actual
<1>8. Actual[n] # None BY <1>7, VectorNotNone, NeighborsAreNodes
<1>9. \A m \in Nodes : /\ Linked(view, n, m) <=> m \in Neighbors(n)
                       /\ Linked(Actual, n, m) <=> m \in Neighbors(n)
  BY <1>1, <1>2, <1>6, <1>7, <1>8 DEF Linked
<1>10. \A m \in Neighbors(n) : m \notin gone
  <2> TAKE m \in Neighbors(n)
  <2>1. {n, m} \in up BY DEF Neighbors
  <2> QED BY <2>1 DEF LinkInv, UpAmongPresent
<1> QED BY <1>9, <1>10

\* The naturals are well ordered.
LEMMA LeastNat ==
  ASSUME NEW S \in SUBSET Nat, S # {}
  PROVE  \E x \in S : \A y \in S : x <= y
<1> DEFINE R == OpToRel(<, Nat)
<1>1. IsWellFoundedOn(R, Nat) BY NatLessThanWellFounded, Zenon
<1>2. \A x, y \in Nat : x < y => <<x, y>> \in R BY Zenon DEF OpToRel
<1> HIDE DEF R
<1>3. PICK x \in S : \A y \in S : ~ (<<y, x>> \in R) BY <1>1, WFMin, Zenon
<1>4. \A y \in S : ~ (y < x) BY <1>2, <1>3
<1> QED BY <1>4

\* A path over the table visits only members present: the first one that left
\* would be listed by one present.
LEMMA PathIsPresent ==
  ASSUME LinkInv, Quiet, NEW k \in Nat, k >= 1, NEW p \in [1..k -> Nodes],
         Linked(view, Self, p[1]), \A i \in 1..(k - 1) : Linked(view, p[i], p[i + 1])
  PROVE  \A i \in 1..k : p[i] \notin gone
<1> DEFINE Left == {i \in 1..k : p[i] \in gone}
<1> SUFFICES ASSUME Left # {} PROVE FALSE OBVIOUS
<1>1. Left \in SUBSET Nat OBVIOUS
<1>2. PICK i \in Left : \A j \in Left : i <= j BY <1>1, LeastNat
<1>3. Self \in Nodes /\ Self \notin gone BY LinkStateAssumption DEF LinkInv, LinkTypes
<1>4. CASE i = 1
  <2>1. p[1] \in Nodes BY <1>2, <1>4
  <2>2. p[1] \notin gone BY <2>1, <1>3, PresentAgrees
  <2> QED BY <2>2, <1>2, <1>4
<1>5. CASE i # 1
  <2>1. i - 1 \in 1..(k - 1) /\ i - 1 \in 1..k /\ (i - 1) + 1 = i /\ i \in 1..k BY <1>2, <1>5
  <2>2. i - 1 \notin Left BY <1>2, <2>1
  <2>3. p[i - 1] \in Nodes /\ p[i] \in Nodes /\ p[i - 1] \notin gone BY <2>1, <2>2
  <2>4. Linked(view, p[i - 1], p[i]) BY <2>1
  <2>5. p[i] \notin gone BY <2>3, <2>4, PresentAgrees
  <2> QED BY <2>5, <1>2
<1> QED BY <1>4, <1>5

\* Over the links there are, only members present lead anywhere.
LEMMA ActualIsPresent ==
  ASSUME NEW n \in Nodes, NEW m, Linked(Actual, n, m)
  PROVE  n \notin gone
BY DEF Linked, Actual

\* Once everything was heard, the table gives the paths there are.
LEMMA SamePaths ==
  ASSUME LinkInv, Quiet
  PROVE  PathsTo(view, Self, Dst) = PathsTo(Actual, Self, Dst)
<1>1. Self \in Nodes /\ Self \notin gone BY LinkStateAssumption DEF LinkInv, LinkTypes
<1>2. ASSUME NEW k \in 1..(Cardinality(Nodes) - 1), NEW p \in [1..k -> Nodes \ {Self}]
      PROVE  p \in PathsTo(view, Self, Dst) <=> p \in PathsTo(Actual, Self, Dst)
  <2>1. k \in Nat /\ k >= 1 /\ 1 \in 1..k BY <1>2
  <2>2. p \in [1..k -> Nodes] OBVIOUS
  <2>3. Len(p) = k BY <2>1
  <2>4. \A i \in 1..(k - 1) : i \in 1..k /\ i + 1 \in 1..k BY <2>1
  <2>5. ASSUME p \in PathsTo(view, Self, Dst) PROVE p \in PathsTo(Actual, Self, Dst)
    <3>1. /\ p[Len(p)] = Dst /\ \A i, j \in DOMAIN p : i # j => p[i] # p[j]
          /\ Linked(view, Self, p[1])
          /\ \A i \in 1..(k - 1) : Linked(view, p[i], p[i + 1])
      BY <2>3, <2>5 DEF PathsTo
    <3>2. \A i \in 1..k : p[i] \notin gone BY <3>1, <2>1, <2>2, PathIsPresent
    <3>3. Linked(Actual, Self, p[1]) BY <3>1, <1>1, <2>1, <2>2, PresentAgrees
    <3>4. \A i \in 1..(k - 1) : Linked(Actual, p[i], p[i + 1])
      BY <3>1, <3>2, <2>2, <2>4, PresentAgrees
    <3> QED BY <3>1, <3>3, <3>4, <2>3 DEF PathsTo
  <2>6. ASSUME p \in PathsTo(Actual, Self, Dst) PROVE p \in PathsTo(view, Self, Dst)
    <3>1. /\ p[Len(p)] = Dst /\ \A i, j \in DOMAIN p : i # j => p[i] # p[j]
          /\ Linked(Actual, Self, p[1])
          /\ \A i \in 1..(k - 1) : Linked(Actual, p[i], p[i + 1])
      BY <2>3, <2>6 DEF PathsTo
    <3>2. Linked(view, Self, p[1]) BY <3>1, <1>1, <2>1, <2>2, PresentAgrees
    <3>3. \A i \in 1..(k - 1) : Linked(view, p[i], p[i + 1])
      BY <3>1, <2>2, <2>4, ActualIsPresent, PresentAgrees
    <3> QED BY <3>1, <3>2, <3>3, <2>3 DEF PathsTo
  <2> QED BY <2>5, <2>6
<1>3. \A t : PathsTo(t, Self, Dst) \subseteq
              UNION {[1..k -> Nodes \ {Self}] : k \in 1..(Cardinality(Nodes) - 1)}
  BY DEF PathsTo
<1>4. ASSUME NEW p, p \in PathsTo(view, Self, Dst) \/ p \in PathsTo(Actual, Self, Dst)
      PROVE  p \in PathsTo(view, Self, Dst) <=> p \in PathsTo(Actual, Self, Dst)
  <2>1. p \in UNION {[1..k -> Nodes \ {Self}] : k \in 1..(Cardinality(Nodes) - 1)}
    BY <1>3, <1>4
  <2>2. PICK k \in 1..(Cardinality(Nodes) - 1) : p \in [1..k -> Nodes \ {Self}] BY <2>1
  <2> QED BY <2>2, <1>2
<1> QED BY <1>4

\* For every graph, every set of members that leave and however often links
\* move: once the last vectors are in, the routes resolved are those over the
\* links there are, although vectors came late, again and out of order and
\* those of members that left are never dropped (ingest, route_to).
THEOREM RoutesConverge == Spec => []RoutesAreLive
<1>1. Init => LinkInv BY LinkStarts DEF Init
<1>2. LinkInv /\ [Next]_vars => LinkInv'
  <2> SUFFICES ASSUME LinkInv, [Next]_vars PROVE LinkInv' OBVIOUS
  <2>1. CASE LinkNext BY <2>1, LinkStep
  <2>2. CASE UNCHANGED linkVars
    BY <2>2 DEF linkVars, LinkInv, LinkTypes, UpAmongPresent, Numbered, HoldsNewest
  <2>3. ASSUME NEW c \in Callers, Enqueue(c) PROVE UNCHANGED linkVars
    BY <2>3 DEF Enqueue, Charge, WriterFor, TrySend, SpawnWriter, Retry, Release
  <2>4. ASSUME NEW w \in Writers, Writer(w) PROVE UNCHANGED linkVars
    BY <2>4 DEF Writer, Dial, Recv, WriteCell, Retire, Close, Drain, Dropped
  <2> QED BY <2>1, <2>2, <2>3, <2>4 DEF Next, vars
<1>3. LinkInv => RoutesAreLive
  BY SamePaths DEF RoutesAreLive, Shortest
<1> QED BY <1>1, <1>2, <1>3, PTL DEF Spec
=============================================================================
