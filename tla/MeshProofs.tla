----------------------------- MODULE MeshProofs -----------------------------
(***************************************************************************)
(* Proofs about the mesh around the log: the lobby's Start packets, the    *)
(* first election of a beacon, the roster's maps and what anti-entropy     *)
(* sends.  Each part has its own inductive invariant and theorems; the     *)
(* four specifications share no state and are proved apart.                *)
(***************************************************************************)
EXTENDS Lobby, Roster, Beacon, AntiEntropy, FiniteSetTheorems, SequenceTheorems, TLAPS

-----------------------------------------------------------------------------
(* Lobby: what it keeps for any number of peers, any hash that tells          *)
(* proposals apart and any bound on the matches                               *)

LobbyInv == TypeOK /\ ProposalsKept

\* The hash tells rosters apart.
LEMMA IdTellsRosters ==
  ASSUME NEW r \in SUBSET Players, NEW s \in SUBSET Players, NEW p \in Players,
         NEW q \in Players, NEW e \in 1..MaxEpoch, SessionId(r, p, e) = SessionId(s, q, e)
  PROVE  r = s
BY IdAssumption, Zenon

\* A proposal is a match with an id of its proposer, which accepts it.
LEMMA ProposalIsFresh ==
  ASSUME TypeOK, NEW p \in Players, epoch[p] < MaxEpoch
  PROVE  /\ Proposal(p) \in Matches /\ Accepts(p, Proposal(p))
         /\ p \in Proposal(p).players /\ Proposal(p).epoch = epoch[p] + 1
         /\ Proposal(p).session_id = SessionId(Proposal(p).players, p, Proposal(p).epoch)
<1>1. epoch[p] + 1 \in 1..MaxEpoch /\ present[p] \in SUBSET Players
  BY LobbyAssumption DEF TypeOK
<1>2. SessionId(present[p], p, epoch[p] + 1) \in Nat
  BY <1>1, LobbyAssumption
<1>3. Proposal(p) \in Matches
  BY <1>1, <1>2 DEF Proposal, Matches
<1>4. Accepts(p, Proposal(p))
  BY <1>1, LobbyAssumption DEF Accepts, Proposal, TypeOK
<1> QED BY <1>1, <1>3, <1>4 DEF Proposal, TypeOK

\* What a player does with a Start packet: nothing, or it is in that match.
LEMMA AdoptStep ==
  ASSUME TypeOK, NEW p \in Players, NEW s \in Matches, Adopt(p, s)
  PROVE  /\ \A q \in Players \ {p} : started'[q] = started[q] /\ epoch'[q] = epoch[q]
         /\ \/ started'[p] = started[p] /\ epoch'[p] = epoch[p] /\ ~Accepts(p, s)
            \/ started'[p] = {s} /\ epoch'[p] = s.epoch /\ Accepts(p, s)
         /\ DOMAIN started' = Players /\ started' = [q \in Players |-> started'[q]]
         /\ epoch' \in [Players -> 0..MaxEpoch]
<1>1. s.epoch \in 0..MaxEpoch
  BY LobbyAssumption DEF Matches
<1>2. CASE Accepts(p, s)
  BY <1>1, <1>2 DEF Adopt, TypeOK
<1>3. CASE ~Accepts(p, s)
  BY <1>3 DEF Adopt, TypeOK
<1> QED BY <1>2, <1>3

\* A player leaves its match only for one that outranks it.
LEMMA AdoptMovesUp ==
  ASSUME TypeOK, NEW p \in Players, NEW s \in Matches, Adopt(p, s),
         NEW q \in Players, NEW m \in started[q]
  PROVE  \E n \in started'[q] : n = m \/ Outranks(n, m)
<1>1. m \in Matches /\ m.epoch = epoch[q]
  BY DEF TypeOK
<1>2. CASE q = p /\ started'[p] = {s} /\ Accepts(p, s)
  <2>1. m = s \/ Outranks(s, m)
    BY <1>1, <1>2, LobbyAssumption DEF Accepts, Outranks, Matches
  <2> QED BY <2>1, <1>2
<1>3. CASE started'[q] = started[q]
  BY <1>3
<1> QED BY <1>2, <1>3, AdoptStep

\* Outranking is transitive.
LEMMA OutranksTrans ==
  ASSUME NEW s \in Matches, NEW m \in Matches, NEW n \in Matches,
         Outranks(n, m), m = s \/ Outranks(m, s)
  PROVE  Outranks(n, s)
BY LobbyAssumption DEF Outranks, Matches

\* Adopting a packet that is in flight keeps the invariant.
LEMMA AdoptKeeps ==
  ASSUME LobbyInv, NEW p \in Players, NEW s \in Matches, Adopt(p, s),
         starts' = starts \cup {s}, present' \in [Players -> SUBSET Players],
         \A q \in Players : q \in present'[q],
         s \in starts \/ Accepts(p, s), nick' = nick,
         \E a \in Players : s.session_id = SessionId(s.players, a, s.epoch)
  PROVE  LobbyInv'
<1>1. TypeOK'
  <2>1. starts' \subseteq Matches
    BY DEF LobbyInv, TypeOK
  <2>2. started' \in [Players -> SUBSET starts']
    BY AdoptStep DEF LobbyInv, TypeOK
  <2>3. \A q \in Players : \A m \in started'[q] : q \in m.players /\ m.epoch = epoch'[q]
    BY AdoptStep DEF LobbyInv, TypeOK, Accepts
  <2> QED BY <2>1, <2>2, <2>3, AdoptStep DEF LobbyInv, TypeOK
<1>2. ASSUME NEW t \in starts'
      PROVE  \E q \in t.players : \E m \in started'[q] : m = t \/ Outranks(m, t)
  <2>1. CASE t \in starts
    <3>1. PICK q \in t.players : \E m \in started[q] : m = t \/ Outranks(m, t)
      BY <2>1 DEF LobbyInv, ProposalsKept
    <3>2. q \in Players
      BY <2>1 DEF LobbyInv, TypeOK, Matches
    <3>3. PICK m \in started[q] : m = t \/ Outranks(m, t)
      BY <3>1
    <3>4. PICK n \in started'[q] : n = m \/ Outranks(n, m)
      BY <3>2, AdoptMovesUp DEF LobbyInv
    <3>5. t \in Matches /\ m \in Matches /\ n \in Matches
      BY <1>1, <2>1, <3>2 DEF LobbyInv, TypeOK
    <3>6. n = t \/ Outranks(n, t)
      BY <3>3, <3>4, <3>5, OutranksTrans
    <3> QED BY <3>6, <3>4
  <2>2. CASE t \notin starts
    <3>1. t = s /\ Accepts(p, s)
      BY <2>2
    <3>2. started'[p] = {s} /\ p \in s.players
      BY <3>1, AdoptStep DEF LobbyInv, Accepts
    <3> QED BY <3>1, <3>2
  <2> QED BY <2>1, <2>2
<1>3. \A t \in starts' : \E a \in Players : t.session_id = SessionId(t.players, a, t.epoch)
  BY DEF LobbyInv, ProposalsKept
<1>4. \A q \in Players : \A m, n \in started'[q] : m = n
  BY AdoptStep DEF LobbyInv, ProposalsKept
<1> QED BY <1>1, <1>2, <1>3, <1>4 DEF LobbyInv, ProposalsKept

\* The initial states satisfy the invariant.
LEMMA InitKeeps == LobbyInit => LobbyInv
BY LobbyAssumption DEF LobbyInit, LobbyInv, TypeOK, ProposalsKept, Matches

\* Every action keeps the invariant.
LEMMA NextKeeps == LobbyInv /\ [LobbyNext]_lobbyvars => LobbyInv'
<1> SUFFICES ASSUME LobbyInv, [LobbyNext]_lobbyvars PROVE LobbyInv'
  OBVIOUS
<1>1. ASSUME NEW p \in Players, NEW s \in starts, HearStart(p, s) PROVE LobbyInv'
  <2>1. s \in Matches /\ starts' = starts \cup {s}
    BY <1>1 DEF LobbyInv, TypeOK, HearStart
  <2> QED BY <1>1, <2>1, AdoptKeeps DEF LobbyInv, TypeOK, ProposalsKept, HearStart
<1>2. ASSUME NEW p \in Players, NEW q \in Players, HearPresent(p, q) PROVE LobbyInv'
  BY <1>2 DEF LobbyInv, TypeOK, ProposalsKept, Outranks, HearPresent
<1>3. ASSUME NEW p \in Players, NEW q \in Players, Expire(p, q) PROVE LobbyInv'
  BY <1>3 DEF LobbyInv, TypeOK, ProposalsKept, Outranks, Expire
<1>4. ASSUME NEW p \in Players, Propose(p) PROVE LobbyInv'
  <2>1. Adopt(p, Proposal(p)) /\ starts' = starts \cup {Proposal(p)} /\ present' = present
        /\ epoch[p] < MaxEpoch /\ nick' = nick
    BY <1>4 DEF Propose
  <2>2. /\ Proposal(p) \in Matches /\ Accepts(p, Proposal(p))
        /\ Proposal(p).session_id = SessionId(Proposal(p).players, p, Proposal(p).epoch)
    BY <2>1, ProposalIsFresh DEF LobbyInv
  <2> QED BY <2>1, <2>2, AdoptKeeps DEF LobbyInv, TypeOK
<1>5. CASE UNCHANGED lobbyvars
  BY <1>5 DEF LobbyInv, TypeOK, ProposalsKept, Outranks, lobbyvars
<1> QED BY <1>1, <1>2, <1>3, <1>4, <1>5 DEF LobbyNext

\* The lobby keeps its types and its inductive invariant.
THEOREM LobbyTypeCorrect == LobbySpec => [](TypeOK /\ ProposalsKept)
<1>1. LobbySpec => []LobbyInv
  BY InitKeeps, NextKeeps, PTL DEF LobbySpec
<1>2. LobbyInv => TypeOK /\ ProposalsKept
  BY DEF LobbyInv
<1> QED BY <1>1, <1>2, PTL

\* Two peers in the same match order the players alike, for any hash that
\* tells proposals apart (StartedMatch::players).
THEOREM HandlesAgree == LobbySpec => []SameMatchSamePlayers
<1>1. LobbyInv => SameMatchSamePlayers
  <2> SUFFICES ASSUME LobbyInv, NEW p \in Players, NEW q \in Players,
                      NEW m \in started[p], NEW n \in started[q],
                      m.epoch = n.epoch, m.session_id = n.session_id
               PROVE  m = n
    BY DEF SameMatchSamePlayers
  <2>1. m \in starts /\ n \in starts /\ m \in Matches /\ n \in Matches
    BY DEF LobbyInv, TypeOK
  <2>2. PICK a \in Players : m.session_id = SessionId(m.players, a, m.epoch)
    BY <2>1 DEF LobbyInv, ProposalsKept
  <2>3. PICK b \in Players : n.session_id = SessionId(n.players, b, n.epoch)
    BY <2>1 DEF LobbyInv, ProposalsKept
  <2>4. m.players \in SUBSET Players /\ n.players \in SUBSET Players /\ m.epoch \in 1..MaxEpoch
    BY <2>1 DEF Matches
  <2>5. SessionId(m.players, a, m.epoch) = SessionId(n.players, b, m.epoch)
    BY <2>2, <2>3
  <2>6. m.players = n.players
    BY <2>4, <2>5, IdTellsRosters, Zenon
  <2> QED BY <2>1, <2>6 DEF Matches
<1>2. LobbySpec => []LobbyInv
  BY InitKeeps, NextKeeps, PTL DEF LobbySpec
<1> QED BY <1>1, <1>2, PTL

\* The best proposal always has a holder to announce it.
THEOREM BestMatchSurvives == LobbySpec => []WinnerIsHeld
<1>1. LobbyInv => WinnerIsHeld
  <2> SUFFICES ASSUME LobbyInv, NEW s \in starts, Winning(s)
               PROVE  \E p \in s.players : started[p] = {s}
    BY DEF WinnerIsHeld
  <2>1. PICK p \in s.players : \E m \in started[p] : m = s \/ Outranks(m, s)
    BY DEF LobbyInv, ProposalsKept
  <2>2. PICK m \in started[p] : m = s \/ Outranks(m, s)
    BY <2>1
  <2>3. p \in Players /\ s \in Matches
    BY DEF LobbyInv, TypeOK, Matches
  <2>4. m \in starts /\ m \in Matches
    BY <2>3 DEF LobbyInv, TypeOK
  <2>5. m = s
    BY <2>2, <2>3, <2>4, LobbyAssumption DEF Winning, Outranks, Matches
  <2>6. \A n \in started[p] : n = s
    BY <2>3, <2>5 DEF LobbyInv, ProposalsKept
  <2> QED BY <2>5, <2>6
<1>2. LobbySpec => []LobbyInv
  BY InitKeeps, NextKeeps, PTL DEF LobbySpec
<1> QED BY <1>1, <1>2, PTL

\* A straggler never takes a player back to a match it left.
THEOREM NoMatchResurrected == LobbySpec => MovesUpOnly
<1>1. LobbyInv /\ [LobbyNext]_lobbyvars =>
        [\A p \in Players : \A m \in started[p] :
           \E n \in started'[p] : n = m \/ Outranks(n, m)]_lobbyvars
  <2> SUFFICES ASSUME LobbyInv, LobbyNext, NEW p \in Players, NEW m \in started[p]
               PROVE  \E n \in started'[p] : n = m \/ Outranks(n, m)
    OBVIOUS
  <2>1. ASSUME NEW q \in Players, NEW s \in starts, HearStart(q, s)
        PROVE  \E n \in started'[p] : n = m \/ Outranks(n, m)
    BY <2>1, AdoptMovesUp DEF LobbyInv, TypeOK, HearStart
  <2>2. ASSUME NEW q \in Players, Propose(q)
        PROVE  \E n \in started'[p] : n = m \/ Outranks(n, m)
    BY <2>2, AdoptMovesUp, ProposalIsFresh DEF LobbyInv, Propose
  <2>3. ASSUME NEW q \in Players, NEW r \in Players, HearPresent(q, r) \/ Expire(q, r)
        PROVE  \E n \in started'[p] : n = m \/ Outranks(n, m)
    BY <2>3 DEF HearPresent, Expire
  <2> QED BY <2>1, <2>2, <2>3 DEF LobbyNext
<1>2. LobbySpec => []LobbyInv
  BY InitKeeps, NextKeeps, PTL DEF LobbySpec
<1> QED BY <1>1, <1>2, PTL DEF LobbySpec, MovesUpOnly

-----------------------------------------------------------------------------
(* Roster: the four maps agree *)

RosterInv == MapsAgree /\ quiet \in Seq(Nicks) /\ IsFiniteSet(peers)

Listed(q) == {q[i] : i \in 1..Len(q)}
NoRepeats(q) == \A i, j \in 1..Len(q) : q[i] = q[j] => i = j

\* What taking a nick off a quiet list does.
LEMMA QuietWithoutFacts ==
  ASSUME NEW q \in Seq(Nicks), NoRepeats(q), NEW n
  PROVE  /\ QuietWithout(q, n) \in Seq(Nicks) /\ NoRepeats(QuietWithout(q, n))
         /\ Len(QuietWithout(q, n)) <= Len(q)
         /\ Listed(QuietWithout(q, n)) = Listed(q) \ {n}
<1>1. CASE ~(\E i \in 1..Len(q) : q[i] = n)
  <2>1. QuietWithout(q, n) = q
    BY <1>1, Zenon DEF QuietWithout
  <2> QED BY <1>1, <2>1 DEF Listed
<1>2. CASE \E i \in 1..Len(q) : q[i] = n
  <2> DEFINE at == CHOOSE i \in 1..Len(q) : q[i] = n
             r == [j \in 1..(Len(q) - 1) |-> IF j < at THEN q[j] ELSE q[j + 1]]
  <2>1. QuietWithout(q, n) = r
    BY <1>2, Zenon DEF QuietWithout
  <2>2. at \in 1..Len(q) /\ q[at] = n
    BY <1>2, Zenon
  <2> HIDE DEF at
  <2>3. Len(q) \in Nat /\ Len(q) >= 1 /\ \A i \in 1..Len(q) : q[i] \in Nicks
    BY <2>2, ElementOfSeq
  <2>4. r \in [1..(Len(q) - 1) -> Nicks] /\ Len(q) - 1 \in Nat
    BY <2>2, <2>3
  <2>5. r \in Seq(Nicks) /\ Len(r) = Len(q) - 1
    BY <2>4
  <2>6. \A j \in 1..(Len(q) - 1) : r[j] = IF j < at THEN q[j] ELSE q[j + 1]
    OBVIOUS
  <2> HIDE DEF r
  <2>7. NoRepeats(r)
    <3> SUFFICES ASSUME NEW i \in 1..(Len(q) - 1), NEW j \in 1..(Len(q) - 1), r[i] = r[j]
                 PROVE  i = j
      BY <2>5 DEF NoRepeats
    <3> DEFINE si == IF i < at THEN i ELSE i + 1
               sj == IF j < at THEN j ELSE j + 1
    <3>1. si \in 1..Len(q) /\ sj \in 1..Len(q) /\ r[i] = q[si] /\ r[j] = q[sj]
      BY <2>2, <2>3, <2>6
    <3>2. si = sj
      BY <3>1 DEF NoRepeats
    <3> QED BY <2>2, <3>2
  <2>8. ASSUME NEW x \in Listed(r) PROVE x \in Listed(q) \ {n}
    <3>1. PICK j \in 1..(Len(q) - 1) : x = r[j]
      BY <2>5 DEF Listed
    <3> DEFINE sj == IF j < at THEN j ELSE j + 1
    <3>2. sj \in 1..Len(q) /\ sj # at /\ x = q[sj]
      BY <2>2, <2>3, <2>6, <3>1
    <3>3. x # n
      BY <2>2, <3>2 DEF NoRepeats
    <3> QED BY <3>2, <3>3 DEF Listed
  <2>9. ASSUME NEW x \in Listed(q) \ {n} PROVE x \in Listed(r)
    <3>1. PICK i \in 1..Len(q) : x = q[i]
      BY DEF Listed
    <3> DEFINE j == IF i < at THEN i ELSE i - 1
    <3>2. j \in 1..(Len(q) - 1) /\ r[j] = x
      BY <2>2, <2>3, <2>6, <3>1
    <3> QED BY <2>5, <3>2 DEF Listed
  <2> QED BY <2>1, <2>3, <2>5, <2>7, <2>8, <2>9
<1> QED BY <1>1, <1>2

\* What an insertion of evictees that are not listed does.
LEMMA QuietInsertedFacts ==
  ASSUME quiet \in Seq(Nicks), NoRepeats(quiet), NEW S \in SUBSET (Nicks \ QuietSet),
         IsFiniteSet(S), NEW order \in Orders(S)
  PROVE  /\ QuietInserted(order) \in Seq(Nicks) /\ NoRepeats(QuietInserted(order))
         /\ Len(QuietInserted(order)) <= QuietCap
         /\ Listed(QuietInserted(order)) \subseteq QuietSet \cup S
<1> DEFINE k == Cardinality(S)
           all == quiet \o order
           over == Len(all) - QuietCap
<1>1. k \in Nat /\ order \in [1..k -> S] /\ \A i, j \in 1..k : order[i] = order[j] => i = j
  BY FS_CardinalityType DEF Orders
<1>2. order \in Seq(Nicks) /\ Len(order) = k
  BY <1>1
<1> HIDE DEF k
<1>3. /\ all \in Seq(Nicks) /\ Len(all) = Len(quiet) + k /\ Len(quiet) \in Nat
      /\ \A i \in 1..Len(all) : all[i] = IF i <= Len(quiet) THEN quiet[i] ELSE order[i - Len(quiet)]
  <2>1. all \in Seq(Nicks) /\ Len(all) = Len(quiet) + Len(order) /\ Len(quiet) \in Nat
    BY <1>2
  <2>2. \A i \in 1..(Len(quiet) + Len(order)) :
          all[i] = IF i <= Len(quiet) THEN quiet[i] ELSE order[i - Len(quiet)]
    BY <1>2, ConcatProperties, Zenon
  <2> QED BY <1>2, <2>1, <2>2
<1>4. \A i \in 1..Len(quiet) : quiet[i] \in QuietSet
  BY DEF QuietSet
<1> HIDE DEF all
<1>5. NoRepeats(all)
  <2> SUFFICES ASSUME NEW i \in 1..Len(all), NEW j \in 1..Len(all), all[i] = all[j] PROVE i = j
    BY DEF NoRepeats
  <2>1. CASE i <= Len(quiet) /\ j <= Len(quiet)
    <3>1. i \in 1..Len(quiet) /\ j \in 1..Len(quiet) /\ quiet[i] = quiet[j]
      BY <1>3, <2>1
    <3> QED BY <3>1, Zenon DEF NoRepeats
  <2>2. CASE ~(i <= Len(quiet)) /\ ~(j <= Len(quiet))
    <3>1. i - Len(quiet) \in 1..k /\ j - Len(quiet) \in 1..k
      BY <1>1, <1>3, <2>2
    <3>2. i - Len(quiet) = j - Len(quiet)
      BY <1>1, <1>3, <2>2, <3>1
    <3> QED BY <1>3, <3>2
  <2>3. CASE i <= Len(quiet) /\ ~(j <= Len(quiet))
    <3>0. i \in 1..Len(quiet) /\ all[i] = quiet[i]
      BY <1>3, <2>3
    <3>1. all[i] \in QuietSet /\ j - Len(quiet) \in 1..k
      BY <1>1, <1>3, <1>4, <2>3, <3>0
    <3>2. all[j] \in S
      BY <1>1, <1>3, <2>3, <3>1
    <3> QED BY <3>1, <3>2
  <2>4. CASE ~(i <= Len(quiet)) /\ j <= Len(quiet)
    <3>0. j \in 1..Len(quiet) /\ all[j] = quiet[j]
      BY <1>3, <2>4
    <3>1. all[j] \in QuietSet /\ i - Len(quiet) \in 1..k
      BY <1>1, <1>3, <1>4, <2>4, <3>0
    <3>2. all[i] \in S
      BY <1>1, <1>3, <2>4, <3>1
    <3> QED BY <3>1, <3>2
  <2> QED BY <2>1, <2>2, <2>3, <2>4
<1>6. ASSUME NEW i \in 1..Len(all) PROVE all[i] \in QuietSet \cup S
  <2>1. CASE i <= Len(quiet)
    BY <1>3, <1>4, <2>1
  <2>2. CASE ~(i <= Len(quiet))
    <3>1. i - Len(quiet) \in 1..k
      BY <1>1, <1>3, <2>2
    <3> QED BY <1>1, <1>3, <2>2, <3>1
  <2> QED BY <2>1, <2>2
<1>7. QuietInserted(order) = IF over > 0 THEN SubSeq(all, over + 1, Len(all)) ELSE all
  BY DEF QuietInserted, all
<1>8. CASE ~(over > 0)
  <2>1. QuietInserted(order) = all /\ Len(all) <= QuietCap
    BY <1>3, <1>7, <1>8, <1>1, RosterAssumption
  <2> QED BY <1>3, <1>5, <1>6, <2>1 DEF Listed
<1>9. CASE over > 0
  <2>1. over \in Nat /\ over + 1 \in 1..(Len(all) + 1) /\ Len(all) \in Nat
    BY <1>1, <1>3, <1>9, RosterAssumption
  <2> DEFINE r == SubSeq(all, over + 1, Len(all))
  <2>2. /\ r \in Seq(Nicks) /\ Len(r) = QuietCap
        /\ \A i \in 1..QuietCap : r[i] = all[over + i] /\ over + i \in 1..Len(all)
    <3> DEFINE lo == over + 1
               hi == Len(all)
    <3>0. lo \in Int /\ hi \in Int /\ \A i \in lo..hi : all[i] \in Nicks
      BY <1>3, <2>1, ElementOfSeq
    <3>1. /\ r = SubSeq(all, lo, hi) /\ lo = over + 1 /\ hi = Len(all)
      OBVIOUS
    <3> HIDE DEF lo, hi, r
    <3>3. /\ r \in Seq(Nicks) /\ Len(r) = IF lo <= hi THEN hi - lo + 1 ELSE 0
          /\ \A i \in 1..(hi - lo + 1) : r[i] = all[lo + i - 1]
      BY <3>0, <3>1, SubSeqProperties
    <3>2. Len(r) = QuietCap
      BY <1>1, <1>3, <1>9, <3>1, <3>3, RosterAssumption
    <3> QED BY <1>1, <1>3, <1>9, <2>1, <3>1, <3>2, <3>3, RosterAssumption
  <2> HIDE DEF r, over
  <2>3. NoRepeats(r)
    <3> SUFFICES ASSUME NEW i \in 1..Len(r), NEW j \in 1..Len(r), r[i] = r[j] PROVE i = j
      BY DEF NoRepeats
    <3>1. over + i \in 1..Len(all) /\ over + j \in 1..Len(all) /\ all[over + i] = all[over + j]
      BY <2>2
    <3>2. over + i = over + j
      BY <1>5, <3>1, Zenon DEF NoRepeats
    <3> QED BY <2>1, <2>2, <3>2, RosterAssumption
  <2>4. Listed(r) \subseteq QuietSet \cup S
    BY <1>6, <2>2 DEF Listed
  <2>5. QuietInserted(order) = r
    BY <1>7, <1>9 DEF r
  <2> QED BY <2>2, <2>3, <2>4, <2>5, RosterAssumption
<1> QED BY <1>8, <1>9

\* A frame other than a farewell.
LEMMA DeliverKeeps ==
  ASSUME RosterInv, NEW n \in Nicks, NEW kind \in Kinds, NEW fresh \in BOOLEAN,
         Ingest(n, kind, fresh), kind # "left"
  PROVE  RosterInv'
<1>1. /\ Deliver(n, kind, fresh) /\ frames' = frames + 1 /\ frames < MaxFrames
      /\ last_seen' = [last_seen EXCEPT ![n] = "recent"] /\ quiet_since' = quiet_since
  BY DEF Ingest
<1>2. quiet \in Seq(Nicks) /\ NoRepeats(quiet) /\ QuietSet = Listed(quiet) /\ Len(quiet) \in Nat
  BY DEF RosterInv, MapsAgree, NoRepeats, Listed, QuietSet
<1>3. /\ quiet' \in Seq(Nicks) /\ NoRepeats(quiet') /\ Len(quiet') <= Len(quiet)
      /\ Listed(quiet') = IF Returned(n) THEN QuietSet \ {n} ELSE QuietSet
  <2>1. CASE Returned(n)
    <3>1. quiet' = QuietWithout(quiet, n)
      BY <1>1, <2>1 DEF Deliver, QuietAfter
    <3> QED BY <1>2, <2>1, <3>1, QuietWithoutFacts
  <2>2. CASE ~Returned(n)
    <3>1. quiet' = quiet
      BY <1>1, <2>2 DEF Deliver, QuietAfter
    <3> QED BY <1>2, <2>2, <3>1
  <2> QED BY <2>1, <2>2
<1>4. /\ peers' = IF Returned(n) \/ JoinedNew(n, kind) THEN peers \cup {n} ELSE peers
      /\ peer_endpoints' = IF kind = "peerinfo" THEN peer_endpoints \cup {n} ELSE peer_endpoints
  BY <1>1 DEF Deliver, PeersAfter
<1>5. n \notin Listed(quiet')
  BY <1>3 DEF Returned
<1>6. peers' \cap Listed(quiet') = {}
  BY <1>3, <1>4, <1>5 DEF RosterInv, MapsAgree
<1>7. peer_endpoints' \subseteq peers' \cup Listed(quiet')
  BY <1>3, <1>4, <1>5 DEF RosterInv, MapsAgree, JoinedNew
<1>8. surfaced' \subseteq Nicks /\ shown' \in [Nicks -> {"absent", "present", "quiet"}]
  BY <1>1 DEF Deliver, RosterInv, MapsAgree, SurfacedAfter
<1>9. \A k \in peers' : last_seen'[k] # "none"
  BY <1>1, <1>4 DEF RosterInv, MapsAgree
<1>10. IsFiniteSet(peers')
  BY <1>4, FS_AddElement DEF RosterInv
<1>11. frames' \in 0..MaxFrames /\ last_seen' \in [Nicks -> {"none", "recent", "expired"}]
  BY <1>1, RosterAssumption DEF RosterInv, MapsAgree
<1>12. Len(quiet') <= QuietCap
  <2>1. Len(quiet') \in Nat
    BY <1>3
  <2> QED BY <1>2, <1>3, <2>1, RosterAssumption DEF RosterInv, MapsAgree
<1>13. Listed(quiet') \subseteq quiet_since' /\ peers' \subseteq Nicks
  BY <1>1, <1>3, <1>4 DEF RosterInv, MapsAgree
<1> QED BY <1>3, <1>6, <1>7, <1>8, <1>9, <1>10, <1>11, <1>12, <1>13
        DEF RosterInv, MapsAgree, NoRepeats, Listed, QuietSet

\* A farewell.
LEMMA FarewellKeeps ==
  ASSUME RosterInv, NEW n \in Nicks, NEW fresh \in BOOLEAN, Ingest(n, "left", fresh)
  PROVE  RosterInv'
<1>1. /\ Farewell(n, fresh) /\ frames' = frames + 1 /\ frames < MaxFrames
      /\ last_seen' = [last_seen EXCEPT ![n] = "recent"] /\ quiet_since' = quiet_since
  BY DEF Ingest
<1>2. quiet \in Seq(Nicks) /\ NoRepeats(quiet) /\ QuietSet = Listed(quiet) /\ Len(quiet) \in Nat
  BY DEF RosterInv, MapsAgree, NoRepeats, Listed, QuietSet
<1>3. /\ QuietAfter(n) \in Seq(Nicks) /\ NoRepeats(QuietAfter(n)) /\ Len(QuietAfter(n)) <= Len(quiet)
      /\ Listed(QuietAfter(n)) \subseteq QuietSet
  BY <1>2, QuietWithoutFacts DEF QuietAfter
<1>4. /\ quiet' \in Seq(Nicks) /\ NoRepeats(quiet') /\ Len(quiet') <= Len(QuietAfter(n))
      /\ Listed(quiet') = Listed(QuietAfter(n)) \ {n}
  BY <1>1, <1>3, QuietWithoutFacts DEF Farewell
<1>5. peers' \subseteq peers /\ n \notin peers' /\ peers \ {n} \subseteq peers'
  BY <1>1 DEF Farewell, PeersAfter, JoinedNew
<1>6. Listed(QuietAfter(n)) \ {n} = QuietSet \ {n}
  BY <1>2, QuietWithoutFacts DEF QuietAfter
<1>7. peer_endpoints' \subseteq peers' \cup Listed(quiet')
  BY <1>1, <1>4, <1>5, <1>6 DEF RosterInv, MapsAgree, Farewell
<1>8. surfaced' \subseteq Nicks /\ shown' \in [Nicks -> {"absent", "present", "quiet"}]
  BY <1>1 DEF Farewell, RosterInv, MapsAgree, SurfacedAfter
<1>9. \A k \in peers' : last_seen'[k] # "none"
  BY <1>1, <1>5 DEF RosterInv, MapsAgree
<1>10. IsFiniteSet(peers')
  BY <1>5, FS_Subset DEF RosterInv
<1>11. frames' \in 0..MaxFrames /\ last_seen' \in [Nicks -> {"none", "recent", "expired"}]
  BY <1>1, RosterAssumption DEF RosterInv, MapsAgree
<1>12. Len(quiet') <= QuietCap
  <2>1. Len(quiet') \in Nat /\ Len(QuietAfter(n)) \in Nat
    BY <1>3, <1>4
  <2> QED BY <1>2, <1>3, <1>4, <2>1, RosterAssumption DEF RosterInv, MapsAgree
<1>13. /\ Listed(quiet') \subseteq quiet_since' /\ peers' \subseteq Nicks
       /\ peers' \cap Listed(quiet') = {}
  BY <1>1, <1>4, <1>5, <1>6 DEF RosterInv, MapsAgree
<1> QED BY <1>4, <1>7, <1>8, <1>9, <1>10, <1>11, <1>12, <1>13
        DEF RosterInv, MapsAgree, NoRepeats, Listed, QuietSet

\* The sweep.
LEMMA SweepKeeps == ASSUME RosterInv, TickSweep PROVE RosterInv'
<1>1. quiet \in Seq(Nicks) /\ NoRepeats(quiet) /\ QuietSet = Listed(quiet)
  BY DEF RosterInv, MapsAgree, NoRepeats, Listed, QuietSet
<1>2. PICK order \in Orders(GoQuiet \ QuietSet) :
        /\ quiet' = QuietInserted(order)
        /\ quiet_since' = SweptSince(Listed(quiet'))
        /\ peer_endpoints' = SweptHints(Listed(quiet'))
  BY DEF TickSweep, Listed
<1>3. /\ last_seen' = [n \in Nicks |-> IF n \in Expired THEN "none" ELSE last_seen[n]]
      /\ peers' = peers \ Expired /\ surfaced' = surfaced \ GoQuiet
      /\ shown' = [n \in Nicks |-> IF n \in GoQuiet THEN "quiet" ELSE shown[n]]
      /\ frames' = frames
  BY DEF TickSweep, SweptPeers
<1>4. GoQuiet \subseteq peers \cap Expired /\ GoQuiet \ QuietSet \subseteq Nicks \ QuietSet
  BY DEF GoQuiet, RosterInv, MapsAgree
<1>5. IsFiniteSet(GoQuiet \ QuietSet) /\ IsFiniteSet(peers')
  BY <1>3, <1>4, FS_Subset DEF RosterInv
<1>6. /\ quiet' \in Seq(Nicks) /\ NoRepeats(quiet') /\ Len(quiet') <= QuietCap
      /\ Listed(quiet') \subseteq QuietSet \cup GoQuiet
  BY <1>1, <1>2, <1>4, <1>5, QuietInsertedFacts
<1>7. Listed(quiet') \subseteq quiet_since'
  BY <1>2, <1>6 DEF SweptSince, RosterInv, MapsAgree
<1>8. peers' \cap Listed(quiet') = {}
  BY <1>3, <1>4, <1>6 DEF RosterInv, MapsAgree
<1>9. peer_endpoints' \subseteq peers' \cup Listed(quiet')
  BY <1>2, <1>3 DEF SweptHints, SweptPeers
<1>10. \A n \in peers' : last_seen'[n] # "none"
  BY <1>3 DEF RosterInv, MapsAgree
<1> QED BY <1>3, <1>5, <1>6, <1>7, <1>8, <1>9, <1>10
        DEF RosterInv, MapsAgree, NoRepeats, Listed, QuietSet

\* The roster, the quiet list, the heartbeats, the retained recency and the
\* dial hints agree after any sequence of frames, silences and sweeps, for any
\* set of nicknames and any bound of the quiet list.
THEOREM RosterMapsAgree == RosterSpec => []MapsAgree
<1>1. RosterInit => RosterInv
  <2> SUFFICES ASSUME RosterInit PROVE RosterInv
    OBVIOUS
  <2>1. quiet = <<>> /\ quiet \in Seq(Nicks) /\ Len(quiet) = 0
    BY EmptySeq DEF RosterInit
  <2>2. QuietSet = {}
    BY <2>1 DEF QuietSet
  <2> QED BY <2>1, <2>2, FS_EmptySet, RosterAssumption DEF RosterInit, RosterInv, MapsAgree
<1>2. RosterInv /\ [RosterNext]_rostervars => RosterInv'
  <2> SUFFICES ASSUME RosterInv, [RosterNext]_rostervars PROVE RosterInv'
    OBVIOUS
  <2>1. ASSUME NEW n \in Nicks, NEW kind \in Kinds, NEW fresh \in BOOLEAN, Ingest(n, kind, fresh)
        PROVE  RosterInv'
    BY <2>1, DeliverKeeps, FarewellKeeps
  <2>2. ASSUME NEW n \in Nicks, Silence(n) PROVE RosterInv'
    BY <2>2 DEF Silence, RosterInv, MapsAgree, QuietSet
  <2>3. CASE UNCHANGED rostervars
    BY <2>3 DEF rostervars, RosterInv, MapsAgree, QuietSet
  <2> QED BY <2>1, <2>2, <2>3, SweepKeeps DEF RosterNext
<1>3. RosterInv => MapsAgree
  BY DEF RosterInv
<1> QED BY <1>1, <1>2, <1>3, PTL DEF RosterSpec

-----------------------------------------------------------------------------
(* Beacon: the first election of a private mesh *)

WalkType == [at : 0 .. NPlaces, phase : {"idle", "try", "ask", "bound"}]

ElectionTypes ==
  /\ up \in [Processes -> {"off", "up", "gone"}]
  /\ slot \in [Processes -> Places \cup {Unbound}]
  /\ serving \in [Processes -> BOOLEAN]
  /\ closing \in [Processes -> SUBSET Places]
  /\ walk \in [Processes -> WalkType]

\* A port a walk that passed it never comes back to, and nobody can serve: it
\* is taken, its holder does not answer and never will.
Dead(p) == PortTaken(p) /\ ~Answered(p) /\ ~AboutToServe(p)

DeadBelow(p) == \A r \in Places : r < p => Dead(r)

\* m has the socket of p, serving or about to.
Occupies(m, p) == slot[m] = p \/ (walk[m].phase = "bound" /\ walk[m].at = p)

\* The inductive invariant of the election: a walk has only dead ports behind
\* it, and so has a beacon, and a port has one socket.
ElectionInv ==
  /\ mesh \in MeshType
  /\ ElectionTypes
  /\ \A m \in Processes : probe[m] = "none"
  /\ \A m \in Processes : walk[m].phase = "idle" => walk[m] = NoWalk
  /\ \A m \in Processes : walk[m].phase # "idle" =>
       /\ up[m] = "up" /\ slot[m] = Unbound
       /\ walk[m].at \in Places /\ DeadBelow(walk[m].at)
  /\ \A m \in Processes : walk[m].phase = "ask" => PortTaken(walk[m].at)
  /\ \A m \in Processes : Held(m) => DeadBelow(slot[m])
  /\ \A m, n \in Processes : \A p \in Places : Occupies(m, p) /\ Occupies(n, p) => m = n

BeaconInv == ~mesh.public /\ ~freed => ElectionInv

\* The steps of a private mesh in which nobody lets go of a port, as far as
\* the ladder is concerned.
LadderStill == UNCHANGED beaconvars /\ foreign \subseteq foreign'

LadderShed(m) == Idle(m) /\ Release(m) /\ walk' = walk /\ foreign' = foreign

LadderEnter(m) ==
  /\ walk[m] = NoWalk /\ up'[m] = "up" /\ Release(m) /\ foreign' = foreign
  /\ walk' = [walk EXCEPT ![m] = [at |-> 1, phase |-> "try"]]

LadderEnds(m) ==
  /\ serving[m] /\ serving' = [serving EXCEPT ![m] = FALSE]
  /\ UNCHANGED <<slot, closing, walk, foreign>>

LadderStep(m) ==
  LadderShed(m) \/ LadderEnter(m) \/ Walk(m) \/ LadderEnds(m)

\* Ensure in a private mesh leaves a held beacon alone or starts a walk.
LEMMA EnsurePrivate ==
  ASSUME NEW m \in Processes, Ensure(m), ~mesh.public
  PROVE  /\ probe' = probe
         /\ \/ UNCHANGED beaconvars
            \/ Release(m) /\ walk' = [walk EXCEPT ![m] = [at |-> 1, phase |-> "try"]]
BY DEF Ensure, beaconvars

LEMMA CohostPrivate ==
  ASSUME NEW m \in Processes, Cohost(m) \/ CohostDegraded(m), ~mesh.public
  PROVE  /\ probe' = probe
         /\ \/ UNCHANGED beaconvars
            \/ Release(m) /\ walk' = [walk EXCEPT ![m] = [at |-> 1, phase |-> "try"]]
BY EnsurePrivate DEF Cohost, CohostDegraded, beaconvars

\* Every step of a private mesh that frees no port is one of these.
LEMMA PrivateSteps ==
  ASSUME ElectionInv, Next, ~mesh.public, ~freed'
  PROVE  /\ ~freed /\ mesh' = mesh /\ up' \in [Processes -> {"off", "up", "gone"}]
         /\ \A m \in Processes : probe'[m] = "none"
         /\ \/ LadderStill /\ up' = up
            \/ \E m \in Processes : /\ \A n \in Processes \ {m} : up'[n] = up[n]
                                    /\ \/ LadderStill /\ walk[m] = NoWalk
                                       \/ LadderStep(m) /\ (walk[m] # NoWalk => up' = up)
<1> DEFINE Goal == /\ ~freed /\ mesh' = mesh /\ up' \in [Processes -> {"off", "up", "gone"}]
                   /\ \A m \in Processes : probe'[m] = "none"
                   /\ \/ LadderStill /\ up' = up
                      \/ \E m \in Processes : /\ \A n \in Processes \ {m} : up'[n] = up[n]
                                              /\ \/ LadderStill /\ walk[m] = NoWalk
                                                 \/ LadderStep(m) /\ (walk[m] # NoWalk => up' = up)
<1>q. \A m \in Processes : probe[m] = "none"
  BY DEF ElectionInv
<1>t. up \in [Processes -> {"off", "up", "gone"}]
  BY DEF ElectionInv, ElectionTypes
<1>1. CASE ForeignMoves
  BY <1>1, <1>q, <1>t DEF ForeignMoves, LadderStill, beaconvars, loopvars
<1>2. ASSUME NEW m \in Processes, Startup(m) PROVE Goal
  <2>1. up[m] = "off" /\ up' = [up EXCEPT ![m] = "up"] /\ mesh' = mesh /\ freed' = freed
        /\ foreign' = foreign
    BY <1>2 DEF Startup
  <2>2. walk[m] = NoWalk
    BY <2>1 DEF ElectionInv
  <2>3. up'[m] = "up" /\ \A n \in Processes \ {m} : up'[n] = up[n]
    BY <2>1, <1>t
  <2>4. /\ probe' = probe
        /\ \/ UNCHANGED beaconvars
           \/ Release(m) /\ walk' = [walk EXCEPT ![m] = [at |-> 1, phase |-> "try"]]
    BY <1>2, EnsurePrivate DEF Startup, beaconvars
  <2> QED BY <1>q, <1>t, <2>1, <2>2, <2>3, <2>4 DEF LadderStep, LadderEnter, LadderStill
<1>3. ASSUME NEW m \in Processes, Walk(m) PROVE Goal
  <2>1. LadderStep(m) /\ up' = up /\ mesh' = mesh /\ freed' = freed /\ probe' = probe
    BY <1>3 DEF Walk, TryBind, Serve, AskPort, AbandonWalk, LadderStep, loopvars
  <2> QED BY <2>1, <1>q, <1>t
<1>4. ASSUME NEW m \in Processes, Probe(m) PROVE Goal
  BY <1>4, <1>q, <1>t DEF Probe, ProbeFindsRival, ProbeTimesOut, Verdict
<1>5. ASSUME NEW m \in Processes, Tick(m) PROVE Goal
  <2>1. CASE DeferShed(m)
    BY <2>1, <1>q, <1>t DEF DeferShed, LadderStill, beaconvars
  <2>2. CASE ShedBeacon(m)
    BY <2>2 DEF ShedBeacon, RecheckDue, RivalRecheckApplies
  <2>3. CASE \/ HealTick(m) \/ HardHealTick(m) \/ ResubscribeTick(m) \/ StarvedTick(m)
             \/ ReclaimTick(m)
    <3>1. /\ Idle(m) /\ mesh' = mesh /\ freed' = freed /\ foreign' = foreign /\ up' = up
          /\ Cohost(m) \/ CohostDegraded(m) \/ Ensure(m)
      BY <2>3 DEF HealTick, HardHealTick, ResubscribeTick, StarvedTick, ReclaimTick
    <3>2. /\ probe' = probe
          /\ \/ UNCHANGED beaconvars
             \/ Release(m) /\ walk' = [walk EXCEPT ![m] = [at |-> 1, phase |-> "try"]]
      BY <3>1, EnsurePrivate, CohostPrivate
    <3> QED BY <1>q, <1>t, <3>1, <3>2 DEF LadderStep, LadderEnter, LadderStill, Idle
  <2> QED BY <1>5, <2>1, <2>2, <2>3 DEF Tick
<1>6. ASSUME NEW m \in Processes, Links(m) PROVE Goal
  BY <1>6, <1>q, <1>t DEF Links, NeighborUp, NeighborDown, Settle, RungChange, LadderStill, beaconvars
<1>7. ASSUME NEW m \in Processes, Ends(m) PROVE Goal
  <2>1. CASE CoHostEnds(m)
    BY <2>1, <1>q, <1>t DEF CoHostEnds, LadderStep, LadderEnds, loopvars
  <2>2. CASE EndpointCloses(m) \/ Crash(m)
    BY <2>2 DEF EndpointCloses, Crash
  <2>3. CASE Leave(m)
    <3>1. /\ mesh' = mesh /\ freed' = freed /\ LadderShed(m) /\ walk[m] = NoWalk
          /\ \A n \in Processes \ {m} : up'[n] = up[n]
          /\ up' \in [Processes -> {"off", "up", "gone"}]
      BY <2>3, <1>t DEF Leave, Forget, LadderShed, Idle
    <3>2. \A n \in Processes : probe'[n] = "none"
      BY <2>3, <1>q, <1>t DEF Leave, Forget
    <3> QED BY <3>1, <3>2 DEF LadderStep
  <2> QED BY <1>7, <2>1, <2>2, <2>3 DEF Ends
<1> QED BY <1>1, <1>2, <1>3, <1>4, <1>5, <1>6, <1>7 DEF Next

\* What the steps of a walk do to the ladder.
LadderBind(m) ==
  /\ walk[m].phase = "try" /\ UNCHANGED <<slot, serving, closing, foreign>>
  /\ \/ /\ PortTaken(walk[m].at)
        /\ walk' = [walk EXCEPT ![m] = [at |-> walk[m].at, phase |-> "ask"]]
     \/ /\ ~PortTaken(walk[m].at)
        /\ walk' = [walk EXCEPT ![m] = [at |-> walk[m].at, phase |-> "bound"]]

LadderServe(m) ==
  /\ walk[m].phase = "bound" /\ UNCHANGED <<closing, foreign>>
  /\ slot' = [slot EXCEPT ![m] = walk[m].at]
  /\ serving' = [serving EXCEPT ![m] = TRUE]
  /\ walk' = [walk EXCEPT ![m] = NoWalk]

LadderAsk(m) ==
  /\ walk[m].phase = "ask" /\ UNCHANGED <<slot, serving, closing, foreign>>
  /\ \/ walk' = [walk EXCEPT ![m] = NoWalk]
     \/ /\ walk[m].at < NPlaces /\ ~Answered(walk[m].at) /\ ~AboutToServe(walk[m].at)
        /\ walk' = [walk EXCEPT ![m] = [at |-> walk[m].at + 1, phase |-> "try"]]

LEMMA WalkSteps ==
  ASSUME ElectionTypes, NEW m \in Processes, Walk(m)
  PROVE  LadderBind(m) \/ LadderServe(m) \/ LadderAsk(m)
<1>t. walk[m] \in WalkType /\ walk \in [Processes -> WalkType]
  BY DEF ElectionTypes
<1>1. CASE TryBind(m)
  BY <1>t, <1>1 DEF TryBind, LadderBind, WalkType
<1>2. CASE Serve(m)
  BY <1>2 DEF Serve, LadderServe
<1>3. CASE AskPort(m)
  <2>1. /\ walk[m].phase = "ask" /\ UNCHANGED <<slot, serving, closing, foreign>>
        /\ \E ours \in RungServesOurMesh(walk[m].at) :
             IF ours THEN walk' = [walk EXCEPT ![m] = NoWalk] ELSE Onward(m)
    BY <1>3 DEF AskPort
  <2>2. CASE walk' = [walk EXCEPT ![m] = NoWalk]
    BY <2>1, <2>2 DEF LadderAsk
  <2>3. CASE walk' # [walk EXCEPT ![m] = NoWalk]
    <3>1. ~Answered(walk[m].at) /\ ~AboutToServe(walk[m].at) /\ Onward(m)
      BY <2>1, <2>3 DEF RungServesOurMesh
    <3>2. /\ walk[m].at < NPlaces
          /\ walk' = [walk EXCEPT ![m] = [at |-> walk[m].at + 1, phase |-> "try"]]
      BY <1>t, <2>3, <3>1 DEF Onward, WalkType
    <3> QED BY <2>1, <3>1, <3>2 DEF LadderAsk
  <2> QED BY <2>2, <2>3
<1>4. CASE AbandonWalk(m)
  BY <1>4 DEF AbandonWalk, LadderAsk
<1> QED BY <1>1, <1>2, <1>3, <1>4 DEF Walk

LadderMove(m) ==
  \/ LadderShed(m) \/ LadderEnter(m) \/ LadderBind(m) \/ LadderServe(m) \/ LadderAsk(m)
  \/ LadderEnds(m)

\* A port that is taken stays taken.
LEMMA StaysTaken ==
  ASSUME ElectionInv, NEW p \in Places, PortTaken(p),
         NEW m \in Processes, LadderMove(m)
  PROVE  PortTaken(p)'
<1>t. ElectionTypes /\ p # Unbound
  BY BeaconAssumption DEF ElectionInv, Places, Unbound
<1>w. walk[m] \in WalkType
  BY <1>t DEF ElectionTypes
<1>1. CASE p \in foreign
  BY <1>1 DEF LadderMove, LadderShed, LadderEnter, LadderBind, LadderServe, LadderAsk, LadderEnds,
              PortTaken
<1>2. ASSUME NEW h \in Processes, p \in closing[h] PROVE PortTaken(p)'
  <2>1. p \in closing'[h]
    BY <1>t, <1>2 DEF ElectionTypes, LadderMove, LadderShed, LadderEnter, LadderBind, LadderServe,
              LadderAsk, LadderEnds, Release
  <2> QED BY <2>1 DEF PortTaken
<1>3. ASSUME NEW h \in Processes, slot[h] = p PROVE PortTaken(p)'
  <2>1. CASE h # m \/ slot' = slot
    <3>1. slot'[h] = p
      BY <1>t, <1>3, <2>1 DEF ElectionTypes, LadderMove, LadderShed, LadderEnter, LadderBind,
              LadderServe, LadderAsk, LadderEnds, Release
    <3> QED BY <3>1 DEF PortTaken
  <2>2. CASE h = m /\ Release(m)
    <3>1. p \in closing'[m]
      BY <1>t, <1>3, <2>2 DEF ElectionTypes, Release, Open
    <3> QED BY <3>1 DEF PortTaken
  <2>3. CASE h = m /\ LadderServe(m)
    <3>1. slot[m] = Unbound
      BY <2>3 DEF ElectionInv, LadderServe
    <3> QED BY <1>t, <1>3, <2>3, <3>1
  <2> QED BY <2>1, <2>2, <2>3 DEF LadderMove, LadderShed, LadderEnter, LadderBind,
              LadderServe, LadderAsk, LadderEnds
<1>4. ASSUME NEW h \in Processes, walk[h].phase = "bound", walk[h].at = p PROVE PortTaken(p)'
  <2>1. CASE h # m \/ walk' = walk
    <3>1. walk'[h] = walk[h]
      BY <1>t, <2>1 DEF ElectionTypes, LadderMove, LadderShed, LadderEnter, LadderBind,
              LadderServe, LadderAsk, LadderEnds
    <3> QED BY <1>4, <3>1 DEF PortTaken, AboutToServe
  <2>2. CASE h = m /\ LadderServe(m)
    <3>1. slot'[m] = p
      BY <1>t, <1>4, <2>2 DEF ElectionTypes, LadderServe
    <3> QED BY <3>1 DEF PortTaken
  <2> QED BY <1>4, <2>1, <2>2 DEF LadderMove, LadderShed, LadderEnter, LadderBind,
              LadderAsk, LadderEnds, NoWalk, Idle
<1> QED BY <1>1, <1>2, <1>3, <1>4 DEF PortTaken, AboutToServe

\* A dead port stays dead: only a walk that binds it could serve it.
LEMMA StaysDead ==
  ASSUME ElectionInv, NEW p \in Places, Dead(p),
         NEW m \in Processes, LadderMove(m)
  PROVE  Dead(p)'
<1>t. ElectionTypes /\ p # Unbound /\ p # NoRelay
  BY BeaconAssumption DEF ElectionInv, Places, Unbound, NoRelay
<1>w. walk[m] \in WalkType
  BY <1>t DEF ElectionTypes
<1>1. ASSUME NEW h \in Processes PROVE ~(walk'[h].phase = "bound" /\ walk'[h].at = p)
  <2>1. ~(walk[h].phase = "bound" /\ walk[h].at = p)
    BY DEF Dead, AboutToServe
  <2>2. PortTaken(p)
    BY DEF Dead
  <2> QED BY <1>t, <1>w, <2>1, <2>2 DEF ElectionTypes, LadderMove, LadderShed, LadderEnter,
              LadderBind, LadderServe, LadderAsk, LadderEnds, NoWalk, Idle
<1>2. ASSUME NEW h \in Processes PROVE ~(slot'[h] = p /\ serving'[h])
  <2>1. ~(walk[h].phase = "bound" /\ walk[h].at = p) /\ ~(slot[h] = p /\ serving[h])
    BY <1>t DEF Dead, AboutToServe, Answered, AnswersAt
  <2> QED BY <1>t, <1>w, <2>1 DEF ElectionTypes, LadderMove, LadderShed, LadderEnter,
              LadderBind, LadderServe, LadderAsk, LadderEnds, Release, Idle
<1>3. PortTaken(p)'
  BY StaysTaken DEF Dead
<1> QED BY <1>1, <1>2, <1>3 DEF Dead, Answered, AnswersAt, AboutToServe

\* A move of a walk or of a beacon keeps the types.
LEMMA MoveTypes ==
  ASSUME ElectionInv, NEW m \in Processes, LadderMove(m),
         up' \in [Processes -> {"off", "up", "gone"}]
  PROVE  ElectionTypes'
<1>t. ElectionTypes /\ walk[m] \in WalkType /\ 1 \in Places /\ 1 \in 0..NPlaces /\ 0 \in 0..NPlaces
  BY BeaconAssumption DEF ElectionInv, ElectionTypes, Places
<1>1. slot' \in [Processes -> Places \cup {Unbound}]
  <2>1. LadderServe(m) => walk[m].at \in Places
    BY DEF ElectionInv, LadderServe
  <2> QED BY <1>t, <2>1 DEF ElectionTypes, LadderMove, LadderShed, LadderEnter, LadderBind, LadderServe,
              LadderAsk, LadderEnds, Release
<1>2. serving' \in [Processes -> BOOLEAN]
  BY <1>t DEF ElectionTypes, LadderMove, LadderShed, LadderEnter, LadderBind, LadderServe,
              LadderAsk, LadderEnds, Release
<1>3. closing' \in [Processes -> SUBSET Places]
  <2>1. Open(m) \subseteq Places
    BY <1>t DEF Open, ElectionTypes
  <2> QED BY <1>t, <2>1 DEF ElectionTypes, LadderMove, LadderShed, LadderEnter, LadderBind, LadderServe,
              LadderAsk, LadderEnds, Release
<1>4. walk' \in [Processes -> WalkType]
  <2>1. NoWalk \in WalkType /\ [at |-> 1, phase |-> "try"] \in WalkType
    BY <1>t DEF NoWalk, WalkType
  <2>2. /\ [at |-> walk[m].at, phase |-> "ask"] \in WalkType
        /\ [at |-> walk[m].at, phase |-> "bound"] \in WalkType
    BY <1>t DEF WalkType
  <2>3. walk[m].at < NPlaces => [at |-> walk[m].at + 1, phase |-> "try"] \in WalkType
    BY <1>t, BeaconAssumption DEF WalkType
  <2> QED BY <1>t, <2>1, <2>2, <2>3 DEF ElectionTypes, LadderMove, LadderShed, LadderEnter, LadderBind,
              LadderServe, LadderAsk, LadderEnds
<1> QED BY <1>1, <1>2, <1>3, <1>4 DEF ElectionTypes

LEMMA MoveKeeps ==
  ASSUME ElectionInv, NEW m \in Processes, LadderMove(m), mesh' = mesh,
         up' \in [Processes -> {"off", "up", "gone"}],
         \A n \in Processes \ {m} : up'[n] = up[n], walk[m] # NoWalk => up' = up,
         \A n \in Processes : probe'[n] = "none"
  PROVE  ElectionInv'
<1>t. /\ ElectionTypes /\ ElectionTypes' /\ walk[m] \in WalkType /\ 1 \in Places
      /\ Unbound \notin Places /\ NoRelay \notin Places
  BY MoveTypes, BeaconAssumption DEF ElectionInv, ElectionTypes, Places, Unbound, NoRelay
<1>o. \A n \in Processes \ {m} : /\ walk'[n] = walk[n] /\ slot'[n] = slot[n]
                                 /\ serving'[n] = serving[n]
  BY <1>t DEF ElectionTypes, LadderMove, LadderShed, LadderEnter, LadderBind, LadderServe,
              LadderAsk, LadderEnds, Release
<1>d. \A r \in Places : Dead(r) => Dead(r)'
  BY StaysDead
<1>a. \A r \in Places : PortTaken(r) => PortTaken(r)'
  BY StaysTaken
<1>1. ASSUME NEW n \in Processes, walk'[n].phase = "idle" PROVE walk'[n] = NoWalk
  <2>1. walk[n].phase = "idle" => walk[n] = NoWalk
    BY DEF ElectionInv
  <2> QED BY <1>t, <1>o, <1>1, <2>1 DEF ElectionTypes, LadderMove, LadderShed, LadderEnter, LadderBind,
              LadderServe, LadderAsk, LadderEnds
<1>2. ASSUME NEW n \in Processes, walk'[n].phase # "idle"
      PROVE  /\ up'[n] = "up" /\ slot'[n] = Unbound
             /\ walk'[n].at \in Places /\ DeadBelow(walk[n].at)'
  <2>0. walk[n].phase # "idle" => /\ up[n] = "up" /\ slot[n] = Unbound
                                  /\ walk[n].at \in Places /\ DeadBelow(walk[n].at)
    BY DEF ElectionInv
  <2>1. CASE n # m
    BY <1>o, <1>d, <1>2, <2>0, <2>1 DEF DeadBelow
  <2>2. CASE n = m /\ LadderEnter(m)
    <3>1. up'[m] = "up" /\ slot'[m] = Unbound /\ walk'[m].at = 1
      BY <1>t, <2>2 DEF ElectionTypes, LadderEnter, Release
    <3>2. \A r \in Places : ~(r < 1)
      BY BeaconAssumption DEF Places
    <3> QED BY <1>t, <2>2, <3>1, <3>2 DEF DeadBelow
  <2>3. CASE n = m /\ LadderBind(m)
    <3>1. walk[m].phase # "idle" /\ walk[m] # NoWalk /\ slot' = slot /\ walk'[m].at = walk[m].at
      BY <1>t, <2>3 DEF ElectionTypes, LadderBind, NoWalk
    <3> QED BY <1>d, <2>0, <2>3, <3>1 DEF DeadBelow
  <2>4. CASE n = m /\ LadderAsk(m)
    <3>1. /\ walk[m].phase = "ask" /\ walk[m] # NoWalk /\ slot' = slot
          /\ walk[m].at < NPlaces /\ ~Answered(walk[m].at) /\ ~AboutToServe(walk[m].at)
          /\ walk'[m] = [at |-> walk[m].at + 1, phase |-> "try"]
      BY <1>t, <1>2, <2>4 DEF ElectionTypes, LadderAsk, NoWalk
    <3>2. Dead(walk[m].at) /\ walk[m].at \in Places /\ DeadBelow(walk[m].at)
      BY <2>0, <2>4, <3>1 DEF ElectionInv, Dead
    <3>3. walk[m].at + 1 \in Places
      BY <3>1, <3>2, BeaconAssumption DEF Places
    <3>4. DeadBelow(walk[m].at + 1)
      <4> SUFFICES ASSUME NEW r \in Places, r < walk[m].at + 1 PROVE Dead(r)
        BY DEF DeadBelow
      <4>1. r < walk[m].at \/ r = walk[m].at
        BY <3>2, BeaconAssumption DEF Places
      <4> QED BY <3>2, <4>1 DEF DeadBelow
    <3>5. DeadBelow(walk[m].at)'
      BY <1>d, <3>1, <3>3, <3>4 DEF DeadBelow
    <3> QED BY <2>0, <2>4, <3>1, <3>3, <3>5
  <2>5. CASE n = m /\ (LadderShed(m) \/ LadderEnds(m))
    <3>1. walk' = walk /\ walk[m].phase # "idle"
      BY <1>2, <2>5 DEF LadderShed, LadderEnds
    <3>2. ~LadderShed(m)
      BY <3>1 DEF LadderShed, Idle, NoWalk
    <3>3. slot' = slot /\ walk[m] # NoWalk
      BY <2>5, <3>1, <3>2 DEF LadderEnds, NoWalk
    <3> QED BY <1>d, <2>0, <2>5, <3>1, <3>3 DEF DeadBelow
  <2>6. ~(n = m /\ LadderServe(m))
    BY <1>t, <1>2 DEF ElectionTypes, LadderServe, NoWalk
  <2> QED BY <2>1, <2>2, <2>3, <2>4, <2>5, <2>6 DEF LadderMove
<1>3. ASSUME NEW n \in Processes, walk'[n].phase = "ask" PROVE PortTaken(walk[n].at)'
  <2>1. walk'[n].at = walk[n].at /\ (walk[n].phase = "ask" \/ PortTaken(walk[n].at))
    BY <1>t, <1>o, <1>3 DEF ElectionTypes, LadderMove, LadderShed, LadderEnter, LadderBind,
              LadderServe, LadderAsk, LadderEnds, NoWalk
  <2>2. PortTaken(walk[n].at) /\ walk[n].at \in Places
    BY <1>2, <1>3, <2>1 DEF ElectionInv
  <2> QED BY <1>a, <2>1, <2>2 DEF PortTaken, AboutToServe
<1>4. ASSUME NEW n \in Processes, Held(n)' PROVE DeadBelow(slot[n])'
  <2>0. Held(n) => slot[n] \in Places /\ DeadBelow(slot[n])
    BY <1>t DEF ElectionInv, ElectionTypes, Held
  <2>1. CASE Held(n) /\ slot'[n] = slot[n]
    BY <1>d, <2>0, <2>1 DEF DeadBelow
  <2>2. CASE n = m /\ LadderServe(m)
    <3>1. walk[m].at \in Places /\ DeadBelow(walk[m].at) /\ slot'[m] = walk[m].at
      BY <1>t, <2>2 DEF ElectionInv, ElectionTypes, LadderServe
    <3> QED BY <1>d, <2>2, <3>1 DEF DeadBelow
  <2> QED BY <1>t, <1>o, <1>4, <2>1, <2>2 DEF Held, ElectionTypes, LadderMove, LadderShed, LadderEnter,
              LadderBind, LadderAsk, LadderEnds, Release
<1>5. ASSUME NEW p \in Places, NEW n \in Processes, NEW k \in Processes,
             Occupies(n, p)', Occupies(k, p)'
      PROVE  n = k
  <2>1. ASSUME NEW h \in Processes, Occupies(h, p)'
        PROVE  Occupies(h, p) \/ (h = m /\ ~PortTaken(p))
    BY <1>t, <1>o, <2>1 DEF Occupies, ElectionTypes, LadderMove, LadderShed, LadderEnter,
              LadderBind, LadderServe, LadderAsk, LadderEnds, Release, NoWalk
  <2>2. \A h \in Processes : Occupies(h, p) => PortTaken(p)
    BY DEF Occupies, PortTaken, AboutToServe
  <2> QED BY <1>5, <2>1, <2>2 DEF ElectionInv
<1> QED BY <1>t, <1>1, <1>2, <1>3, <1>4, <1>5 DEF ElectionInv

LEMMA StillKeeps ==
  ASSUME ElectionInv, LadderStill, mesh' = mesh, up' \in [Processes -> {"off", "up", "gone"}],
         \A n \in Processes : walk[n] # NoWalk => up'[n] = up[n],
         \A n \in Processes : probe'[n] = "none"
  PROVE  ElectionInv'
<1>1. \A p \in Places : PortTaken(p) => PortTaken(p)'
  BY DEF LadderStill, beaconvars, PortTaken, AboutToServe
<1>2. \A p \in Places : Dead(p) => Dead(p)'
  BY <1>1 DEF LadderStill, beaconvars, Dead, Answered, AnswersAt, AboutToServe
<1>3. UNCHANGED <<slot, serving, closing, walk>>
  BY DEF LadderStill, beaconvars
<1>4. ElectionTypes'
  BY <1>3 DEF ElectionInv, ElectionTypes
<1>5. ASSUME NEW n \in Processes, walk'[n].phase # "idle"
      PROVE  /\ up'[n] = "up" /\ slot'[n] = Unbound
             /\ walk'[n].at \in Places /\ DeadBelow(walk[n].at)'
  <2>1. walk[n].phase # "idle" /\ walk[n] # NoWalk
    BY <1>3, <1>5 DEF NoWalk
  <2> QED BY <1>2, <1>3, <2>1 DEF ElectionInv, DeadBelow
<1>6. \A n \in Processes : Held(n)' => DeadBelow(slot[n])'
  BY <1>2, <1>3 DEF ElectionInv, DeadBelow, Held
<1>7. \A n \in Processes : walk'[n].phase = "ask" => PortTaken(walk[n].at)'
  BY <1>1, <1>3, <1>5 DEF ElectionInv
<1> QED BY <1>3, <1>4, <1>5, <1>6, <1>7 DEF ElectionInv, Occupies

\* The initial states satisfy the invariant.
LEMMA BeaconInitKeeps == Init => BeaconInv
<1> SUFFICES ASSUME Init PROVE ElectionInv
  BY DEF BeaconInv
<1>1. mesh \in MeshType
  BY BeaconAssumption DEF Init
<1>2. ElectionTypes
  BY BeaconAssumption DEF Init, ElectionTypes, WalkType, NoWalk
<1>3. \A n \in Processes : slot[n] = Unbound /\ walk[n] = NoWalk /\ walk[n].phase = "idle"
  BY DEF Init, NoWalk
<1>4. Unbound \notin Places
  BY BeaconAssumption DEF Places, Unbound
<1>5. \A n \in Processes : \A p \in Places : ~Occupies(n, p)
  BY <1>3, <1>4 DEF Occupies
<1> QED BY <1>1, <1>2, <1>3, <1>5 DEF Init, ElectionInv, Held

\* Every action keeps it.
LEMMA BeaconNextKeeps == BeaconInv /\ [Next]_vars => BeaconInv'
<1> SUFFICES ASSUME BeaconInv, [Next]_vars, ~mesh'.public, ~freed' PROVE ElectionInv'
  BY DEF BeaconInv
<1>1. CASE Next
  <2>1. mesh' = mesh
    <3>1. ASSUME NEW m \in Processes, Startup(m) PROVE mesh' = mesh
      BY <3>1 DEF Startup
    <3>2. ASSUME NEW m \in Processes, Walk(m) PROVE mesh' = mesh
      BY <3>2 DEF Walk, TryBind, Serve, AskPort, AbandonWalk
    <3>3. ASSUME NEW m \in Processes, Probe(m) PROVE mesh' = mesh
      BY <3>3 DEF Probe, ProbeFindsRival, ProbeTimesOut, Verdict
    <3>4. ASSUME NEW m \in Processes, Tick(m) PROVE mesh' = mesh
      BY <3>4 DEF Tick, HealTick, HardHealTick, ResubscribeTick, StarvedTick, ReclaimTick,
                  ShedBeacon, DeferShed
    <3>5. ASSUME NEW m \in Processes, Links(m) PROVE mesh' = mesh
      BY <3>5 DEF Links, NeighborUp, NeighborDown, Settle, RungChange
    <3>6. ASSUME NEW m \in Processes, Ends(m) PROVE mesh' = mesh
      BY <3>6 DEF Ends, CoHostEnds, EndpointCloses, Leave, Crash
    <3>7. CASE ForeignMoves
      BY <3>7 DEF ForeignMoves
    <3> QED BY <1>1, <3>1, <3>2, <3>3, <3>4, <3>5, <3>6, <3>7 DEF Next
  <2>2. ~freed
    <3>1. ASSUME NEW m \in Processes, Startup(m) PROVE ~freed
      BY <3>1 DEF Startup
    <3>2. ASSUME NEW m \in Processes, Walk(m) PROVE ~freed
      BY <3>2 DEF Walk, TryBind, Serve, AskPort, AbandonWalk
    <3>3. ASSUME NEW m \in Processes, Probe(m) PROVE ~freed
      BY <3>3 DEF Probe, ProbeFindsRival, ProbeTimesOut, Verdict
    <3>4. ASSUME NEW m \in Processes, Tick(m) PROVE ~freed
      BY <3>4 DEF Tick, HealTick, HardHealTick, ResubscribeTick, StarvedTick, ReclaimTick,
                  ShedBeacon, DeferShed
    <3>5. ASSUME NEW m \in Processes, Links(m) PROVE ~freed
      BY <3>5 DEF Links, NeighborUp, NeighborDown, Settle, RungChange
    <3>6. ASSUME NEW m \in Processes, Ends(m) PROVE ~freed
      BY <3>6 DEF Ends, CoHostEnds, EndpointCloses, Leave, Crash
    <3>7. CASE ForeignMoves
      BY <3>7 DEF ForeignMoves
    <3> QED BY <1>1, <3>1, <3>2, <3>3, <3>4, <3>5, <3>6, <3>7 DEF Next
  <2>3. ElectionInv
    BY <2>1, <2>2 DEF BeaconInv
  <2>4. /\ up' \in [Processes -> {"off", "up", "gone"}]
        /\ \A m \in Processes : probe'[m] = "none"
        /\ \/ LadderStill /\ up' = up
           \/ \E m \in Processes : /\ \A n \in Processes \ {m} : up'[n] = up[n]
                                   /\ \/ LadderStill /\ walk[m] = NoWalk
                                      \/ LadderStep(m) /\ (walk[m] # NoWalk => up' = up)
    BY <1>1, <2>1, <2>3, PrivateSteps
  <2>5. CASE LadderStill /\ up' = up
    BY <2>1, <2>3, <2>4, <2>5, StillKeeps
  <2>6. ASSUME NEW m \in Processes, \A n \in Processes \ {m} : up'[n] = up[n],
               LadderStill, walk[m] = NoWalk
        PROVE  ElectionInv'
    BY <2>1, <2>3, <2>4, <2>6, StillKeeps
  <2>7. ASSUME NEW m \in Processes, \A n \in Processes \ {m} : up'[n] = up[n],
               LadderStep(m), walk[m] # NoWalk => up' = up
        PROVE  ElectionInv'
    <3>1. LadderMove(m)
      BY <2>3, <2>7, WalkSteps DEF LadderStep, LadderMove, ElectionInv
    <3> QED BY <2>1, <2>3, <2>4, <2>7, <3>1, MoveKeeps
  <2> QED BY <2>4, <2>5, <2>6, <2>7
<1>2. CASE UNCHANGED vars
  <2>1. UNCHANGED <<mesh, up, freed, foreign, probe>> /\ LadderStill /\ ElectionInv
    BY <1>2 DEF vars, beaconvars, loopvars, LadderStill, BeaconInv
  <2>2. up' \in [Processes -> {"off", "up", "gone"}] /\ \A n \in Processes : probe'[n] = "none"
    BY <2>1 DEF ElectionInv, ElectionTypes
  <2> QED BY <2>1, <2>2, StillKeeps
<1> QED BY <1>1, <1>2

\* Until somebody lets go of a port a private mesh has at most one beacon
\* (build_rendezvous_endpoint), however many members walk the ladder at once
\* and however long it is.
THEOREM FirstElectionHolds == Spec => []FirstElectionIsUnique
<1>1. BeaconInv => FirstElectionIsUnique
  <2> SUFFICES ASSUME BeaconInv, ~mesh.public, ~freed PROVE Cardinality(Holders) <= 1
    BY DEF FirstElectionIsUnique
  <2>1. ElectionInv /\ ElectionTypes
    BY DEF BeaconInv, ElectionInv
  <2>2. \A h \in Holders : h \in Processes /\ Held(h) /\ slot[h] \in Places
    BY <2>1 DEF Holders, Held, ElectionInv, ElectionTypes, MeshType
  <2>3. \A h, k \in Holders : ~(slot[h] < slot[k])
    <3> SUFFICES ASSUME NEW h \in Holders, NEW k \in Holders, slot[h] < slot[k] PROVE FALSE
      OBVIOUS
    <3>1. Dead(slot[h])
      BY <2>1, <2>2 DEF ElectionInv, DeadBelow
    <3>2. slot[h] # NoRelay
      BY <2>2, BeaconAssumption DEF Places, NoRelay
    <3> QED BY <2>2, <3>1, <3>2 DEF Dead, Answered, AnswersAt, Held
  <2>4. \A h, k \in Holders : h = k
    <3> TAKE h, k \in Holders
    <3>1. slot[h] = slot[k]
      BY <2>2, <2>3, BeaconAssumption DEF Places
    <3> QED BY <2>1, <2>2, <3>1 DEF ElectionInv, Occupies
  <2>5. CASE Holders = {}
    BY <2>5, FS_EmptySet
  <2>6. ASSUME NEW h \in Holders PROVE Cardinality(Holders) <= 1
    <3>1. Holders = {h}
      BY <2>4, <2>6
    <3>2. Cardinality({h}) = 1
      BY FS_Singleton, Zenon
    <3> QED BY <3>1, <3>2
  <2> QED BY <2>5, <2>6
<1>2. Spec => []BeaconInv
  BY BeaconInitKeeps, BeaconNextKeeps, PTL DEF Spec
<1> QED BY <1>1, <1>2, PTL

-----------------------------------------------------------------------------
(* AntiEntropy: directed frames stay private *)

\* The inductive invariant: logs hold and the wire carries what was authored,
\* and a packet is addressed to a member.
DirectedInv ==
  /\ sent \subseteq Frames
  /\ log \in [Members -> Seq(sent)]
  /\ wire \subseteq [to : Members, msg : sent]
  /\ DirectedStaysPrivate

\* Whatever it evicts, a push leaves entries of the log and the frame pushed.
LEMMA PushKeepsOnly ==
  ASSUME NEW S, NEW l \in Seq(S), NEW m \in S
  PROVE  Push(l, m) \in Seq(S) /\ Entries(Push(l, m)) \subseteq Entries(l) \cup {m}
<1> DEFINE full == Append(l, m)
           v == EvictionIndex(full)
<1>1. /\ full \in Seq(S) /\ Len(full) = Len(l) + 1 /\ Len(l) \in Nat
      /\ \A i \in 1..Len(l) : full[i] = l[i]
      /\ full[Len(l) + 1] = m
  BY AppendProperties, LenProperties
<1>2. \A i \in 1..Len(full) : full[i] \in S /\ full[i] \in Entries(l) \cup {m}
  BY <1>1, ElementOfSeq DEF Entries
<1> HIDE DEF full, v
<1>3. CASE Push(l, m) = full
  BY <1>1, <1>2, <1>3 DEF Entries
<1>4. CASE Push(l, m) = Without(full, v)
  <2> DEFINE rest == Without(full, v)
  <2>1. /\ rest = [j \in 1..Len(l) |-> IF j < v THEN full[j] ELSE full[j + 1]]
        /\ \A j \in 1..Len(l) : j \in 1..Len(full) /\ j + 1 \in 1..Len(full)
    BY <1>1 DEF Without
  <2>2. /\ \A j \in 1..Len(l) : rest[j] = full[j] \/ rest[j] = full[j + 1]
        /\ rest \in [1..Len(l) -> S]
    BY <1>2, <2>1
  <2> HIDE DEF rest
  <2>3. rest \in Seq(S) /\ Len(rest) = Len(l)
    BY <1>1, <2>2
  <2>4. Entries(rest) \subseteq Entries(l) \cup {m}
    <3> SUFFICES ASSUME NEW j \in 1..Len(l) PROVE rest[j] \in Entries(l) \cup {m}
      BY <2>3 DEF Entries
    <3> QED BY <1>2, <2>1, <2>2
  <2> QED BY <1>4, <2>3, <2>4 DEF rest
<1> QED BY <1>3, <1>4 DEF Push, full, v

\* A serve re-sends only what the server holds.
LEMMA ResendsAreHeld ==
  ASSUME NEW n \in Members, NEW d
  PROVE  Resends(n, d) \subseteq Entries(log[n])
BY DEF Resends, MissingInWindow, Entries

\* Routing a set of frames, whether a fresh broadcast or a re-send.
LEMMA PacketsArePrivate ==
  ASSUME NEW S, NEW n \in Members, NEW p \in Packets(S, n)
  PROVE  /\ p = [to |-> p.to, msg |-> p.msg] /\ p.to \in Members /\ p.msg \in S
         /\ p.msg.to # Everyone => p.to = p.msg.to
BY DEF Packets, Plane

LEMMA PublishKeepsPrivate == ASSUME DirectedInv, NEW m \in Frames, Publish(m) PROVE DirectedInv'
<1> DEFINE n == m.pubkey
<1>1. n \in Members /\ n \in Nat
  BY AntiEntropyAssumption
<1>2. /\ sent' = sent \cup {m} /\ wire' = wire \cup Packets({m}, n) /\ m \notin sent
      /\ log' = IF m.kept THEN [log EXCEPT ![n] = Push(@, m)] ELSE log
  BY DEF Publish
<1>3. \A k \in Members : log[k] \in Seq(sent')
  <2> TAKE k \in Members
  <2>1. log[k] \in Seq(sent)
    BY DEF DirectedInv
  <2> QED BY <1>2, <2>1, ElementOfSeq
<1> HIDE DEF n
<1>4. Push(log[n], m) \in Seq(sent') /\ Entries(Push(log[n], m)) \subseteq Entries(log[n]) \cup {m}
  BY <1>1, <1>2, <1>3, PushKeepsOnly
<1>5. log' \in [Members -> Seq(sent')]
  BY <1>1, <1>2, <1>3, <1>4 DEF DirectedInv
<1>6. wire' \subseteq [to : Members, msg : sent']
  BY <1>1, <1>2, PacketsArePrivate DEF DirectedInv
<1>7. ASSUME NEW k \in Members, NEW f \in Entries(log'[k])
      PROVE  f \in Entries(log[k]) \/ (f = m /\ k = n)
  BY <1>1, <1>2, <1>4, <1>7 DEF DirectedInv
<1>8. DirectedStaysPrivate'
  <2> SUFFICES ASSUME NEW f \in sent', f.to # Everyone
               PROVE  /\ \A k \in Members : f \in Entries(log'[k]) => k \in {f.pubkey, f.to}
                      /\ \A p \in wire' : p.msg = f => p.to = f.to
    BY DEF DirectedStaysPrivate
  <2>1. ASSUME NEW k \in Members, f \in Entries(log'[k]) PROVE k \in {f.pubkey, f.to}
    <3>1. CASE f \in Entries(log[k])
      <4>1. f \in sent
        BY <3>1, ElementOfSeq DEF Entries, DirectedInv
      <4> QED BY <3>1, <4>1 DEF DirectedInv, DirectedStaysPrivate
    <3>2. CASE f = m /\ k = n
      BY <3>2 DEF n
    <3> QED BY <1>7, <2>1, <3>1, <3>2
  <2>2. ASSUME NEW p \in wire', p.msg = f PROVE p.to = f.to
    <3>1. CASE p \in wire
      <4>1. f \in sent
        BY <2>2, <3>1 DEF DirectedInv
      <4> QED BY <2>2, <3>1, <4>1 DEF DirectedInv, DirectedStaysPrivate
    <3>2. CASE p \in Packets({m}, n)
      BY <1>1, <2>2, <3>2, PacketsArePrivate
    <3> QED BY <1>2, <3>1, <3>2
  <2> QED BY <2>1, <2>2
<1> QED BY <1>2, <1>5, <1>6, <1>8 DEF DirectedInv

LEMMA ReceiveKeepsPrivate ==
  ASSUME DirectedInv, NEW n \in Members, NEW m \in Frames, Receive(n, m)
  PROVE  DirectedInv'
<1>1. /\ [to |-> n, msg |-> m] \in wire /\ wire' \subseteq wire /\ sent' = sent
      /\ log' = log \/ log' = [log EXCEPT ![n] = Push(@, m)]
  BY DEF Receive
<1>2. m \in sent /\ (m.to # Everyone => n = m.to)
  BY <1>1 DEF DirectedInv, DirectedStaysPrivate
<1>3. /\ Push(log[n], m) \in Seq(sent) /\ Entries(Push(log[n], m)) \subseteq Entries(log[n]) \cup {m}
  BY <1>2, PushKeepsOnly DEF DirectedInv
<1>4. log' \in [Members -> Seq(sent')]
  BY <1>1, <1>3 DEF DirectedInv
<1>5. ASSUME NEW k \in Members, NEW f \in Entries(log'[k])
      PROVE  f \in Entries(log[k]) \/ (f = m /\ k = n)
  BY <1>1, <1>3, <1>5 DEF DirectedInv
<1>6. DirectedStaysPrivate'
  BY <1>1, <1>2, <1>5 DEF DirectedInv, DirectedStaysPrivate
<1> QED BY <1>1, <1>4, <1>6 DEF DirectedInv

LEMMA ServeKeepsPrivate ==
  ASSUME DirectedInv, NEW n \in Members, NEW k \in Members, ServeDigest(n, k)
  PROVE  DirectedInv'
<1>1. PICK d \in digests : wire' = wire \cup Packets(Resends(n, d), n) /\ log' = log /\ sent' = sent
  BY DEF ServeDigest
<1>2. \A m \in Resends(n, d) : m \in sent
  <2> TAKE m \in Resends(n, d)
  <2>1. m \in Entries(log[n])
    BY ResendsAreHeld
  <2> QED BY <2>1, ElementOfSeq DEF Entries, DirectedInv
<1>3. \A p \in wire' : p \in wire \/ (/\ p \in [to : Members, msg : sent]
                                      /\ p.msg.to # Everyone => p.to = p.msg.to)
  BY <1>1, <1>2, PacketsArePrivate
<1> QED BY <1>1, <1>3 DEF DirectedInv, DirectedStaysPrivate

\* The steps that only take away, or touch neither logs nor the wire.
LEMMA OthersKeepPrivate ==
  ASSUME DirectedInv, log' = log, sent' = sent, wire' \subseteq wire
  PROVE  DirectedInv'
BY DEF DirectedInv, DirectedStaysPrivate

LEMMA InitPrivate == AntiEntropyInit => DirectedInv
<1> SUFFICES ASSUME AntiEntropyInit PROVE DirectedInv
  OBVIOUS
<1>1. /\ log = [n \in Members |-> <<>>] /\ sent = {} /\ wire = {}
      /\ <<>> \in Seq(sent)
  BY EmptySeq DEF AntiEntropyInit
<1> QED BY <1>1 DEF DirectedInv, DirectedStaysPrivate

LEMMA NextPrivate == DirectedInv /\ [AntiEntropyNext]_antientropyvars => DirectedInv'
<1> SUFFICES ASSUME DirectedInv, [AntiEntropyNext]_antientropyvars PROVE DirectedInv'
  OBVIOUS
<1>1. ASSUME NEW m \in Frames, Publish(m) PROVE DirectedInv'
  BY <1>1, PublishKeepsPrivate
<1>2. ASSUME NEW n \in Members, NEW m \in Frames, Receive(n, m) PROVE DirectedInv'
  BY <1>2, ReceiveKeepsPrivate
<1>3. CASE Lose
  BY <1>3, OthersKeepPrivate DEF Lose
<1>4. ASSUME NEW n \in Members, BroadcastDigest(n) PROVE DirectedInv'
  BY <1>4, OthersKeepPrivate DEF BroadcastDigest
<1>5. ASSUME NEW n \in Members, NEW k \in Members, ServeDigest(n, k) PROVE DirectedInv'
  BY <1>5, ServeKeepsPrivate
<1>6. ASSUME NEW n \in Members, NEW k \in Members, IgnoreDigest(n, k) \/ CooldownExpires(n, k)
      PROVE  DirectedInv'
  BY <1>6, OthersKeepPrivate DEF IgnoreDigest, CooldownExpires
<1>7. CASE UNCHANGED antientropyvars
  BY <1>7, OthersKeepPrivate DEF antientropyvars
<1> QED BY <1>1, <1>2, <1>3, <1>4, <1>5, <1>6, <1>7 DEF AntiEntropyNext

\* A directed frame is held and carried only between its two ends, however it
\* is lost, reordered, backfilled and evicted (transport::deliver,
\* resendable_to).
THEOREM DirectedFramesStayPrivate == AntiEntropySpec => []DirectedStaysPrivate
<1>1. DirectedInv => DirectedStaysPrivate
  BY DEF DirectedInv
<1> QED BY <1>1, InitPrivate, NextPrivate, PTL DEF AntiEntropySpec

-----------------------------------------------------------------------------
(* AntiEntropy: a digest of a short log describes all of it *)

\* Every frame sent so far is of a kind its receivers retain, and no member has
\* received more than its log holds or than the two windows of a digest cover.
WindowsCover ==
  /\ \A m \in sent : m.logged
  /\ \A n \in Members : Cardinality(seen[n]) <= Capacity /\ Cardinality(seen[n]) <= 2 * Window

IdsOf(S) == {m.id : m \in S}

\* The ids a digest names.
Named(d) == UNION {d.windows[i].ids : i \in 1..Len(d.windows)}

DistinctIds(l) == \A i, j \in 1..Len(l) : l[i].id = l[j].id => i = j

\* The inductive invariant of an uncut log: it holds exactly what was seen, the
\* sweep starts at its front, and a digest names what its sender had received.
CoverInv ==
  /\ seen \in [Members -> SUBSET Nat]
  /\ \A n \in Members : seen[n] = IdsOf(Entries(log[n])) /\ DistinctIds(log[n])
  /\ cursor = [n \in Members |-> 0]
  /\ \A d \in digests : d.received \subseteq Named(d) /\ Len(d.windows) \in {1, 2}

LEMMA ModFacts == \A x \in Nat \ {0} : 0 % x = 0 /\ x % x = 0
OBVIOUS

\* An uncut log has as many entries as ids were seen.
LEMMA SeenCount ==
  ASSUME CoverInv, DirectedInv, NEW n \in Members
  PROVE  /\ IsFiniteSet(seen[n]) /\ Cardinality(seen[n]) = Len(log[n])
         /\ Len(log[n]) \in Nat
<1> DEFINE k == Len(log[n])
           f == [i \in 1..k |-> log[n][i].id]
<1>1. k \in Nat
  BY LenProperties DEF DirectedInv
<1>2. seen[n] = {log[n][i].id : i \in 1..k}
  BY DEF CoverInv, IdsOf, Entries
<1>3. \A i, j \in 1..k : log[n][i].id = log[n][j].id => i = j
  BY DEF CoverInv, DistinctIds
<1> HIDE DEF k
<1>4. f \in Bijection(1..k, seen[n])
  BY <1>2, <1>3 DEF Bijection, Injection, Surjection, IsInjective
<1>5. IsFiniteSet(1..k) /\ Cardinality(1..k) = k
  BY <1>1, FS_Interval
<1>6. ExistsBijection(1..k, seen[n])
  BY <1>4 DEF ExistsBijection
<1>7. IsFiniteSet(seen[n]) /\ Cardinality(seen[n]) = k
  BY <1>5, <1>6, FS_Bijection
<1> QED BY <1>1, <1>7 DEF k

\* The windows of a member whose log they cover name all of it, and leave the
\* cursor where it was.
LEMMA DigestNamesAll ==
  ASSUME CoverInv, DirectedInv, NEW n \in Members, Len(log[n]) <= 2 * Window
  PROVE  /\ Len(DigestWindows(n)) \in {1, 2}
         /\ \A i \in 1..Len(log[n]) :
              \E w \in 1..Len(DigestWindows(n)) : log[n][i].id \in DigestWindows(n)[w].ids
         /\ CursorAfter(n) = 0
<1> DEFINE k == Len(log[n])
           older == OlderLen(log[n], Window)
<1>1. k \in Nat /\ Window \in Nat \ {0} /\ cursor[n] = 0 /\ k <= 2 * Window
  BY LenProperties, AntiEntropyAssumption DEF DirectedInv, CoverInv
<1>2. older = IF k > Window THEN k - Window ELSE 0
  BY DEF OlderLen
<1>3. older \in Nat /\ older + Window >= k /\ older <= Window
  BY <1>1, <1>2
<1> HIDE DEF older
<1>4. NewestWindow(n).ids = {log[n][i].id : i \in {j \in 1..k : older < j /\ j <= older + Window}}
  <2>1. RecentWindow(log[n], Window).ids = WindowAt(log[n], older, Window).ids
    BY DEF RecentWindow, WindowAt, older
  <2>2. NewestWindow(n).ids = RecentWindow(log[n], Window).ids
    BY DEF NewestWindow, RecentWindow, WindowAt
  <2>3. older \in Nat /\ Window \in Nat
    BY <1>1, <1>3
  <2>4. WindowAt(log[n], older, Window).ids =
          {log[n][i].id : i \in {j \in 1..Len(log[n]) : older < j /\ j <= older + Window}}
    BY <2>3 DEF WindowAt
  <2> QED BY <2>1, <2>2, <2>4
<1>5. \A i \in 1..k : older < i => log[n][i].id \in NewestWindow(n).ids
  BY <1>1, <1>3, <1>4
<1>6. CASE older = 0
  <2>1. DigestWindows(n) = <<NewestWindow(n)>> /\ CursorAfter(n) = 0
    BY <1>6 DEF DigestWindows, CursorAfter, older
  <2>2. \A i \in 1..k : log[n][i].id \in DigestWindows(n)[1].ids /\ 1 \in 1..Len(DigestWindows(n))
    BY <1>5, <1>6, <2>1
  <2> QED BY <2>1, <2>2
<1>7. CASE older # 0
  <2>1. DigestWindows(n) = <<NewestWindow(n), OlderSlice(n)>>
    BY <1>7 DEF DigestWindows, older
  <2>2. Start(n) = 0
    <3>1. 0 % older = 0
      BY <1>3, <1>7, ModFacts
    <3>2. Start(n) = cursor[n] % older
      BY DEF Start, older
    <3> QED BY <1>1, <3>1, <3>2
  <2>3. OlderSlice(n) = WindowAt(log[n], 0, older)
    <3>1. 0 % older = 0 /\ older - 0 = older /\ (Window < older => FALSE)
      BY <1>1, <1>3, <1>7, ModFacts
    <3>2. OlderSlice(n) = OlderWindow(log[n], Window, 0, Window)
      BY <2>2 DEF OlderSlice
    <3>3. OlderWindow(log[n], Window, 0, Window) =
            WindowAt(log[n], 0 % older,
                     IF Window < older - (0 % older) THEN Window ELSE older - (0 % older))
      BY Zenon DEF OlderWindow, older
    <3>4. (IF Window < older - (0 % older) THEN Window ELSE older - (0 % older)) = older
      BY <1>1, <1>3, <3>1
    <3> QED BY <3>1, <3>2, <3>3, <3>4
  <2>4. OlderSlice(n).ids = {log[n][i].id : i \in {j \in 1..k : 0 < j /\ j <= older}}
    <3>2. OlderSlice(n).ids =
            {log[n][i].id : i \in {j \in 1..Len(log[n]) : 0 < j /\ j <= 0 + older}}
      BY <2>3 DEF WindowAt
    <3>3. {j \in 1..k : 0 < j /\ j <= 0 + older} = {j \in 1..k : 0 < j /\ j <= older}
      BY <1>3
    <3> QED BY <3>2, <3>3
  <2>5. \A i \in 1..k : ~(older < i) => log[n][i].id \in OlderSlice(n).ids
    <3> SUFFICES ASSUME NEW i \in 1..k, ~(older < i) PROVE log[n][i].id \in OlderSlice(n).ids
      OBVIOUS
    <3>1. i \in {j \in 1..k : 0 < j /\ j <= older}
      BY <1>1, <1>3
    <3> QED BY <2>4, <3>1
  <2>6. CursorAfter(n) = 0
    <3> DEFINE f == [i \in 1..older |-> log[n][i].id]
    <3>0. older <= k
      BY <1>1, <1>2, <1>7
    <3>1. OlderSlice(n).ids = {log[n][i].id : i \in 1..older}
      BY <1>1, <1>3, <2>4, <3>0
    <3>2. \A i, j \in 1..older : log[n][i].id = log[n][j].id => i = j
      BY <1>1, <1>3, <3>0 DEF CoverInv, DistinctIds
    <3>3. f \in Bijection(1..older, OlderSlice(n).ids)
      BY <3>1, <3>2 DEF Bijection, Injection, Surjection, IsInjective
    <3>4. IsFiniteSet(1..older) /\ Cardinality(1..older) = older
      BY <1>3, FS_Interval
    <3>5. ExistsBijection(1..older, OlderSlice(n).ids)
      BY <3>3 DEF ExistsBijection
    <3>6. Cardinality(OlderSlice(n).ids) = older
      BY <3>4, <3>5, FS_Bijection
    <3>7. CursorAfter(n) = (0 + older) % older
      BY <1>7, <2>2, <3>6 DEF CursorAfter, older
    <3> QED BY <1>3, <1>7, <3>7, ModFacts
  <2>7. \A i \in 1..k : \E w \in {1, 2} : log[n][i].id \in DigestWindows(n)[w].ids
    BY <1>5, <2>1, <2>5
  <2>8. Len(DigestWindows(n)) = 2 /\ 1..2 = {1, 2}
    BY <2>1
  <2> QED BY <2>6, <2>7, <2>8
<1> QED BY <1>6, <1>7

\* A push that fits appends, and keeps log and seen ids in step.
LEMMA PushUncut ==
  ASSUME CoverInv, DirectedInv, NEW n \in Members, NEW m \in Frames, m.id \notin seen[n],
         Cardinality(seen[n] \cup {m.id}) <= Capacity
  PROVE  /\ IdsOf(Entries(Push(log[n], m))) = seen[n] \cup {m.id}
         /\ DistinctIds(Push(log[n], m))
<1> DEFINE l == log[n]
           full == Append(l, m)
<1>1. IsFiniteSet(seen[n]) /\ Cardinality(seen[n]) = Len(l) /\ Len(l) \in Nat
  BY SeenCount
<1>2. Cardinality(seen[n] \cup {m.id}) = Len(l) + 1
  BY <1>1, FS_AddElement
<1>3. Push(l, m) = full
  BY <1>1, <1>2, CapacityAssumption DEF Push, Overflows
<1>4. l \in Seq(sent)
  BY DEF DirectedInv
<1>5. /\ Len(full) = Len(l) + 1 /\ full[Len(l) + 1] = m
      /\ \A i \in 1..Len(l) : full[i] = l[i]
  BY <1>4, AppendProperties
<1>6. seen[n] = IdsOf(Entries(l)) /\ DistinctIds(l)
  BY DEF CoverInv
<1> HIDE DEF full, l
<1>7. Entries(full) = Entries(l) \cup {m}
  <2>1. \A i \in 1..(Len(l) + 1) : i = Len(l) + 1 \/ i \in 1..Len(l)
    BY <1>1
  <2>2. Len(l) + 1 \in 1..(Len(l) + 1) /\ \A i \in 1..Len(l) : i \in 1..(Len(l) + 1)
    BY <1>1
  <2>3. Entries(full) \subseteq Entries(l) \cup {m}
    BY <1>5, <2>1 DEF Entries
  <2>4. Entries(l) \cup {m} \subseteq Entries(full)
    BY <1>5, <2>2 DEF Entries
  <2> QED BY <2>3, <2>4
<1>8. DistinctIds(full)
  <2> SUFFICES ASSUME NEW i \in 1..(Len(l) + 1), NEW j \in 1..(Len(l) + 1), full[i].id = full[j].id
               PROVE  i = j
    BY <1>5 DEF DistinctIds
  <2>1. \A q \in 1..Len(l) : full[q].id \in seen[n]
    BY <1>5, <1>6 DEF IdsOf, Entries
  <2>2. full[Len(l) + 1].id \notin seen[n]
    BY <1>5
  <2>3. CASE i \in 1..Len(l) /\ j \in 1..Len(l)
    BY <1>5, <1>6, <2>3 DEF DistinctIds
  <2> QED BY <1>1, <2>1, <2>2, <2>3
<1> QED BY <1>3, <1>6, <1>7, <1>8 DEF IdsOf, l

LEMMA InitCover == AntiEntropyInit => CoverInv
<1> SUFFICES ASSUME AntiEntropyInit PROVE CoverInv
  OBVIOUS
<1>1. /\ log = [n \in Members |-> <<>>] /\ seen = [n \in Members |-> {}]
      /\ cursor = [n \in Members |-> 0] /\ digests = {}
  BY DEF AntiEntropyInit
<1>2. Entries(<<>>) = {} /\ DistinctIds(<<>>)
  BY DEF Entries, DistinctIds
<1> QED BY <1>1, <1>2 DEF CoverInv, IdsOf

\* The steps that touch neither logs nor the cursor and send no digest.
LEMMA OthersKeepCover ==
  ASSUME CoverInv, UNCHANGED <<log, seen, cursor>>, digests' \subseteq digests
  PROVE  CoverInv'
BY DEF CoverInv

LEMMA NextCover ==
  ASSUME CoverInv, DirectedInv, WindowsCover, WindowsCover', [AntiEntropyNext]_antientropyvars
  PROVE  CoverInv'
<1>1. ASSUME NEW n \in Members, NEW m \in Frames, m.id \notin seen[n],
             log' = [log EXCEPT ![n] = Push(@, m)], seen' = [seen EXCEPT ![n] = @ \cup {m.id}],
             UNCHANGED <<cursor, digests>>
      PROVE  CoverInv'
  <2>1. seen'[n] = seen[n] \cup {m.id} /\ log'[n] = Push(log[n], m)
    BY <1>1 DEF CoverInv, DirectedInv
  <2>2. Cardinality(seen[n] \cup {m.id}) <= Capacity
    BY <2>1 DEF WindowsCover
  <2>3. /\ IdsOf(Entries(log'[n])) = seen'[n]
        /\ DistinctIds(log'[n])
    BY <1>1, <2>1, <2>2, PushUncut
  <2>4. \A k \in Members \ {n} : seen'[k] = seen[k] /\ log'[k] = log[k]
    BY <1>1 DEF CoverInv, DirectedInv
  <2>5. seen' \in [Members -> SUBSET Nat]
    BY <1>1, AntiEntropyAssumption DEF CoverInv
  <2> QED BY <1>1, <2>3, <2>4, <2>5 DEF CoverInv
<1>2. ASSUME NEW m \in Frames, Publish(m) PROVE CoverInv'
  <2>1. m.pubkey \in Members
    BY AntiEntropyAssumption
  <2>2. CASE ~m.kept
    BY <1>2, <2>2, OthersKeepCover DEF Publish
  <2>3. CASE m.kept
    <3>1. m.id \notin seen[m.pubkey]
      <4> SUFFICES ASSUME m.id \in seen[m.pubkey] PROVE FALSE
        OBVIOUS
      <4>1. PICK i \in 1..Len(log[m.pubkey]) : log[m.pubkey][i].id = m.id
        BY <2>1 DEF CoverInv, IdsOf, Entries
      <4>2. log[m.pubkey][i] \in sent
        BY <2>1, <4>1, ElementOfSeq DEF DirectedInv
      <4>3. log[m.pubkey][i] = m
        BY <4>1, <4>2, AntiEntropyAssumption DEF DirectedInv
      <4> QED BY <1>2, <4>2, <4>3 DEF Publish
    <3> QED BY <1>1, <1>2, <2>1, <2>3, <3>1 DEF Publish
  <2> QED BY <2>2, <2>3
<1>3. ASSUME NEW n \in Members, NEW m \in Frames, Receive(n, m) PROVE CoverInv'
  <2>1. CASE m.pubkey = n \/ m.id \in seen[n]
    BY <1>3, <2>1, OthersKeepCover DEF Receive
  <2>2. CASE ~(m.pubkey = n \/ m.id \in seen[n])
    <3>1. m \in sent
      BY <1>3 DEF Receive, DirectedInv
    <3>2. m.logged
      BY <3>1 DEF WindowsCover
    <3> QED BY <1>1, <1>3, <2>2, <3>2 DEF Receive
  <2> QED BY <2>1, <2>2
<1>4. CASE Lose
  BY <1>4, OthersKeepCover DEF Lose
<1>5. ASSUME NEW n \in Members, BroadcastDigest(n) PROVE CoverInv'
  <2>1. Len(log[n]) <= 2 * Window
    BY SeenCount DEF WindowsCover
  <2>2. /\ Len(DigestWindows(n)) \in {1, 2} /\ CursorAfter(n) = 0
        /\ \A i \in 1..Len(log[n]) :
             \E w \in 1..Len(DigestWindows(n)) : log[n][i].id \in DigestWindows(n)[w].ids
    BY <2>1, DigestNamesAll
  <2>3. cursor' = cursor /\ UNCHANGED <<log, seen>>
    BY <1>5, <2>2 DEF BroadcastDigest, CoverInv
  <2>4. ASSUME NEW d \in digests', d \notin digests
        PROVE  d.received \subseteq Named(d) /\ Len(d.windows) \in {1, 2}
    <3>1. d.windows = DigestWindows(n) /\ d.received = seen[n]
      BY <1>5, <2>4 DEF BroadcastDigest
    <3>2. ASSUME NEW x \in seen[n] PROVE x \in Named(d)
      <4>1. PICK i \in 1..Len(log[n]) : x = log[n][i].id
        BY DEF CoverInv, IdsOf, Entries
      <4>2. PICK w \in 1..Len(DigestWindows(n)) : x \in DigestWindows(n)[w].ids
        BY <2>2, <4>1
      <4> QED BY <3>1, <4>2 DEF Named
    <3> QED BY <2>2, <3>1, <3>2
  <2> QED BY <2>3, <2>4 DEF CoverInv
<1>6. ASSUME NEW n \in Members, NEW k \in Members,
             ServeDigest(n, k) \/ IgnoreDigest(n, k) \/ CooldownExpires(n, k)
      PROVE  CoverInv'
  BY <1>6, OthersKeepCover DEF ServeDigest, IgnoreDigest, CooldownExpires
<1>7. CASE UNCHANGED antientropyvars
  BY <1>7, OthersKeepCover DEF antientropyvars
<1> QED BY <1>2, <1>3, <1>4, <1>5, <1>6, <1>7 DEF AntiEntropyNext

\* Nothing the asker had received when it sent its digest is sent again
\* (ANTIENTROPY_INTERVAL_SECS), as long as the two windows of a digest cover
\* what members received.  The premise cannot be dropped: of a longer log a
\* digest describes one older slice, and what lies between is offered again.
THEOREM ShortLogsResendOnlyGaps ==
  AntiEntropySpec /\ []WindowsCover => []ResendsOnlyGaps
<1>1. CoverInv => ResendsOnlyGaps
  <2> SUFFICES ASSUME CoverInv, NEW d \in digests, NEW m \in Resends(d.to, d)
               PROVE  m.id \notin d.received
    BY DEF ResendsOnlyGaps
  <2>1. m.id \notin Named(d)
    BY DEF Resends, MissingInWindow, Named
  <2> QED BY <2>1 DEF CoverInv
<1>2. CoverInv /\ DirectedInv /\ WindowsCover /\ WindowsCover' /\ [AntiEntropyNext]_antientropyvars
        => CoverInv'
  BY NextCover
<1> QED BY <1>1, <1>2, InitPrivate, NextPrivate, InitCover, PTL DEF AntiEntropySpec

\* The premise holds for as long as the mesh has produced no more than a log
\* holds and two windows describe, of kinds that receivers retain.
THEOREM FewFramesAreCovered ==
  ASSUME IsFiniteSet(Frames), \A m \in Frames : m.logged,
         Cardinality(Frames) <= Capacity, Cardinality(Frames) <= 2 * Window
  PROVE  AntiEntropySpec => []WindowsCover
<1> DEFINE Known == /\ sent \subseteq Frames
                    /\ seen \in [Members -> SUBSET IdsOf(Frames)]
<1>1. AntiEntropyInit => Known
  BY DEF AntiEntropyInit
<1>2. Known /\ [AntiEntropyNext]_antientropyvars => Known'
  <2> SUFFICES ASSUME Known, [AntiEntropyNext]_antientropyvars PROVE Known'
    OBVIOUS
  <2>1. ASSUME NEW m \in Frames, Publish(m) PROVE Known'
    BY <2>1 DEF Publish, IdsOf
  <2>2. ASSUME NEW n \in Members, NEW m \in Frames, Receive(n, m) PROVE Known'
    BY <2>2 DEF Receive, IdsOf
  <2>3. CASE Lose \/ UNCHANGED antientropyvars
    BY <2>3 DEF Lose, antientropyvars
  <2>4. ASSUME NEW n \in Members, BroadcastDigest(n) PROVE Known'
    BY <2>4 DEF BroadcastDigest
  <2>5. ASSUME NEW n \in Members, NEW k \in Members,
               ServeDigest(n, k) \/ IgnoreDigest(n, k) \/ CooldownExpires(n, k)
        PROVE  Known'
    BY <2>5 DEF ServeDigest, IgnoreDigest, CooldownExpires
  <2> QED BY <2>1, <2>2, <2>3, <2>4, <2>5 DEF AntiEntropyNext
<1>3. Known => WindowsCover
  <2> SUFFICES ASSUME Known, NEW n \in Members
               PROVE  Cardinality(seen[n]) <= Cardinality(Frames) /\ Cardinality(seen[n]) \in Nat
                      /\ Cardinality(Frames) \in Nat
    BY CapacityAssumption, AntiEntropyAssumption DEF WindowsCover
  <2> DEFINE f == [m \in Frames |-> m.id]
  <2>1. f \in Surjection(Frames, IdsOf(Frames))
    BY DEF Surjection, IdsOf
  <2>2. IsFiniteSet(IdsOf(Frames)) /\ Cardinality(IdsOf(Frames)) <= Cardinality(Frames)
    BY <2>1, FS_Surjection
  <2>3. /\ IsFiniteSet(seen[n]) /\ Cardinality(seen[n]) <= Cardinality(IdsOf(Frames))
    BY <2>2, FS_Subset
  <2>4. /\ Cardinality(seen[n]) \in Nat /\ Cardinality(IdsOf(Frames)) \in Nat
        /\ Cardinality(Frames) \in Nat
    BY <2>2, <2>3, FS_CardinalityType
  <2> QED BY <2>2, <2>3, <2>4
<1> QED BY <1>1, <1>2, <1>3, PTL DEF AntiEntropySpec

=============================================================================
