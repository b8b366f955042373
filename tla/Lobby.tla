------------------------------- MODULE Lobby -------------------------------
(***************************************************************************)
(* The lobby of a rollback match (fofoca-netplay, mesh/lobby.rs): peers    *)
(* announce themselves, somebody proposes a match with everyone it sees,   *)
(* and every peer folds the proposals it receives by rank.                 *)
(*                                                                         *)
(* A peer is its public key, a number: the sorted list of players is the   *)
(* set, and a handle the position in it.  A packet is lost, delayed or     *)
(* delivered again; presence is broadcast all the time, so a peer may be   *)
(* heard, or not be heard for the time to live, at any moment.             *)
(***************************************************************************)
EXTENDS Naturals, FiniteSets

CONSTANTS Players,
          Naming,            \* the ways the players may be called: player -> nickname
          Starters,          \* the players whose user may start a match
          SessionId(_, _, _),\* session_id_for(players, proposer, epoch)
          MaxEpoch           \* bound: matches proposed one after the other

ASSUME LobbyAssumption ==
  /\ Players \subseteq Nat /\ MaxEpoch \in Nat
  /\ \A r \in SUBSET Players, p \in Players, e \in 1..MaxEpoch : SessionId(r, p, e) \in Nat

\* The hash keeps the proposals of an epoch apart.
ASSUME IdAssumption ==
  \A e \in 1..MaxEpoch : \A r \in SUBSET Players : \A s \in SUBSET Players :
    \A p \in Players : \A q \in Players :
      SessionId(r, p, e) = SessionId(s, q, e) => r = s /\ p = q

VARIABLES present,  \* player -> the players it has heard from lately, itself
          started,  \* player -> the matches it is in: none or one
          epoch,    \* player -> the highest epoch adopted
          starts,   \* Start packets broadcast
          nick      \* player -> nickname, chosen for good

lobbyvars == <<present, started, epoch, starts, nick>>

Matches == [epoch : 1..MaxEpoch, session_id : Nat, players : SUBSET Players]

LobbyInit ==
  /\ present = [p \in Players |-> {p}]
  /\ started = [p \in Players |-> {}]
  /\ epoch = [p \in Players |-> 0]
  /\ starts = {}
  /\ nick \in Naming

-----------------------------------------------------------------------------
\* Fault: the epoch of a packet is not compared with ours.
AcceptsAnyEpoch(p, s) ==
  p \in s.players /\ \A m \in started[p] : s.epoch = epoch[p] => s.session_id < m.session_id

\* Fault: the first proposal of an epoch wins.
AcceptsFirst(p, s) == p \in s.players /\ (s.epoch > epoch[p] \/ (s.epoch = epoch[p] /\ started[p] = {}))

\* The tests adopt makes before it takes a proposal over.
Accepts(p, s) ==
  /\ p \in s.players
  /\ s.epoch >= epoch[p]
  /\ \A m \in started[p] : s.epoch = epoch[p] => s.session_id < m.session_id

\* adopt
Adopt(p, s) ==
  /\ started' = IF Accepts(p, s) THEN [started EXCEPT ![p] = {s}] ELSE started
  /\ epoch' = IF Accepts(p, s) THEN [epoch EXCEPT ![p] = s.epoch] ELSE epoch

\* A Start packet, a fresh one or a straggler (on_message).
HearStart(p, s) ==
  /\ Adopt(p, s)
  /\ UNCHANGED <<present, starts, nick>>

\* A Present packet of q (on_message).
HearPresent(p, q) ==
  /\ present' = [present EXCEPT ![p] = @ \cup {q}]
  /\ UNCHANGED <<started, epoch, starts, nick>>

\* expire: q was not heard within the time to live; never ourselves.
Expire(p, q) ==
  /\ q # p /\ q \in present[p]
  /\ present' = [present EXCEPT ![p] = @ \ {q}]
  /\ UNCHANGED <<started, epoch, starts, nick>>

\* blocker
DuplicateNickname(p) == \E q, r \in present[p] : q # r /\ nick[q] = nick[r]

\* Fault: the proposer is left out of the id, and so is the roster.
ProposalByEpoch(p) == [epoch |-> epoch[p] + 1, session_id |-> epoch[p] + 1, players |-> present[p]]

\* The next match, with everyone present.
Proposal(p) == [epoch |-> epoch[p] + 1, players |-> present[p],
                session_id |-> SessionId(present[p], p, epoch[p] + 1)]

\* propose: the proposer joins before it broadcasts.
Propose(p) ==
  /\ p \in Starters
  /\ present[p] # {p} /\ ~DuplicateNickname(p)
  /\ epoch[p] < MaxEpoch
  /\ Adopt(p, Proposal(p))
  /\ starts' = starts \cup {Proposal(p)}
  /\ UNCHANGED <<present, nick>>

\* announcement: what p keeps broadcasting.
Announcement(p) == started[p]

LobbyNext ==
  \E p \in Players :
    \/ \E s \in starts : HearStart(p, s)
    \/ \E q \in Players : HearPresent(p, q)
    \/ \E q \in Players : Expire(p, q)
    \/ Propose(p)

LobbySpec == LobbyInit /\ [][LobbyNext]_lobbyvars

\* Packets are addressed by nickname: a player whose nickname another player has
\* as well is not reachable on its own (DuplicateNickname, the unicasts of
\* handle_session).
Reachable(p) == \A q \in Players \ {p} : nick[q] # nick[p]

\* Everybody keeps announcing the match it is in, and of what is announced on
\* and on a copy gets through to every player that has its nickname for itself.
\* Nothing is assumed of the others.
LobbyFairSpec ==
  /\ LobbySpec
  /\ \A p, q \in Players :
       WF_lobbyvars(Reachable(p) /\ \E s \in Announcement(q) : HearStart(p, s))

-----------------------------------------------------------------------------
(* Properties *)

\* The rank of adopt: the later epoch, then the lower id.
Outranks(s, m) == s.epoch > m.epoch \/ (s.epoch = m.epoch /\ s.session_id < m.session_id)

\* Types; the epoch is the one of the match a player is in (adopt sets both).
TypeOK ==
  /\ present \in [Players -> SUBSET Players] /\ starts \subseteq Matches
  /\ started \in [Players -> SUBSET starts] /\ epoch \in [Players -> 0..MaxEpoch]
  /\ nick \in Naming
  /\ \A p \in Players : /\ p \in present[p]
                        /\ \A m \in started[p] : p \in m.players /\ m.epoch = epoch[p]

\* Handles are positions, so two peers that believe they are in the same match
\* have the same list of players (the doc of the module and of StartedMatch).
SameMatchSamePlayers ==
  \A p, q \in Players : \A m \in started[p], n \in started[q] :
    m.epoch = n.epoch /\ m.session_id = n.session_id => m = n

\* A player changes its match for one that outranks it only: a straggler of an
\* older match never resurrects it (adopt).
MovesUpOnly ==
  [][\A p \in Players : \A m \in started[p] :
       \E n \in started'[p] : n = m \/ Outranks(n, m)]_lobbyvars

Winning(s) == \A m \in starts : m = s \/ Outranks(s, m)

\* The match that outranks all others is held, and so announced, by one of its
\* players at least: a proposer joins before it broadcasts and never falls
\* behind its own proposal (propose, announcement).
WinnerIsHeld == \A s \in starts : Winning(s) => \E p \in s.players : started[p] = {s}

\* The inductive invariant: every packet in flight is a proposal somebody made
\* and has not fallen behind, and a player is in one match at most.
ProposalsKept ==
  /\ \A s \in starts : /\ \E a \in Players : s.session_id = SessionId(s.players, a, s.epoch)
                       /\ \E p \in s.players : \E m \in started[p] : m = s \/ Outranks(m, s)
  /\ \A p \in Players : \A m, n \in started[p] : m = n

\* The match that outranks all others ends up held by all of its players that
\* are reachable, whatever was lost or reordered (Announcement, adopt).
WinnerIsAdopted ==
  \A r \in SUBSET Players : \A e \in 1..MaxEpoch : \A a \in Players :
    LET s == [epoch |-> e, players |-> r, session_id |-> SessionId(r, a, e)]
    IN  <>[](s \in starts /\ Winning(s)) => <>[](\A p \in r : Reachable(p) => started[p] = {s})
=============================================================================
