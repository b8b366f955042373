----------------------------- MODULE MCNetplay -----------------------------
(* Netplay with two players: a match that begins while packets of an earlier *)
(* one are in flight, and a match under way, whose ring of saved states is   *)
(* full.                                                                     *)
EXTENDS Netplay

Two == {1, 2}

\* One player holds a button down, the other presses it at will.
Buttons == [p \in Two |-> IF p = 1 THEN {1} ELSE {0, 1}]

\* One player delays its inputs by a frame.
Delays == [p \in Two |-> IF p = 1 THEN 1 ELSE 0]

\* An input packet and an ack the other player sent in the match before.
Stale ==
  { [from |-> 2, to |-> 1, magic |-> "then",
     body |-> [kind |-> "input", start |-> 0, inputs |-> <<1, 1>>]],
    [from |-> 1, to |-> 2, magic |-> "then", body |-> [kind |-> "ack", frame |-> 1]] }

Both == {[p \in Two |-> 2]}

\* The match under way: CellCount frames were played, the second player not
\* pressing the button, and every packet arrived before the next frame.
Played == [p \in Two |-> IF p = 1 THEN <<0, 1, 1, 1, 1>> ELSE <<0, 0, 0, 0>>]

HistoryTo(f) == [i \in 1..f |-> [p \in Two |-> Played[p][i]]]

\* The first player has frames left to run away with, the second has only one.
Rest == [p \in Two |-> IF p = 1 THEN 9 ELSE 5]

\* What is known of the other and was acked: all it has sent.
Underway ==
  /\ engine = [p \in Two |->
       [cur |-> 4, state |-> HistoryTo(4), head |-> 0,
        cells |-> [i \in Slots |-> [frame |-> i, state |-> HistoryTo(i)]],
        queues |-> [q \in Two |->
          [EmptyQueue EXCEPT !.inputs = Played[q], !.last_requested = 3]]]]
  /\ peers = [p \in Two |-> [q \in Others(p) |->
       [state |-> "running", latched |-> TRUE, left |-> 0, acked |-> Len(Played[p]) - 1]]]
  /\ running = [p \in Two |-> TRUE]
  /\ confirmed = [p \in Two |-> IF p = 1 THEN 3 ELSE 4]
  /\ sums = [p \in Two |-> {[frame |-> f, state |-> HistoryTo(f)] : f \in IF p = 1 THEN 0..2 ELSE 1..3}]
  /\ net = {}
  /\ length = Rest

MCSpec == (Init \/ Underway) /\ [][Next]_vars /\ Fairness
=============================================================================
