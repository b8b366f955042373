------------------------------ MODULE MCLobby ------------------------------
(* Lobby with three peers and an id that orders their proposals differently *)
(* from one epoch to the next.                                              *)
EXTENDS Lobby, Integers

Trio == {1, 2, 3}
Pair == {1, 2}

\* All are called differently, or two of them the same.
Names == {[p \in Trio |-> p], [p \in Trio |-> IF p = 3 THEN 1 ELSE p]}

\* Any injective function of the three serves as the hash: the proposer first,
\* up or down with the epoch, then the roster.
Bits(players) == (IF 1 \in players THEN 1 ELSE 0) + (IF 2 \in players THEN 2 ELSE 0)
                 + (IF 3 \in players THEN 4 ELSE 0)
Hash(players, proposer, e) ==
  Bits(players) + 8 * (IF e = 1 THEN proposer ELSE 4 - proposer)
=============================================================================
