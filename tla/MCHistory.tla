----------------------------- MODULE MCHistory -----------------------------
(* History on one small scenario: which frames exist, nothing else. *)
EXTENDS History

Frame(id, pubkey, ts, seq, parents) ==
  [id |-> id, pubkey |-> pubkey, timestamp |-> ts, seq |-> seq,
   to |-> Everyone, loggable |-> TRUE, chained |-> seq # NoSeq,
   parents |-> parents]

\* Author 2 equivocates at seq 0; its frames overflow the log; author 3 names
\* parents, one of them ahead of its own clock; ids 10 and up are presence.
ChatFrames ==
  { Frame(1, 2, 1, 0, {}), Frame(2, 2, 2, 0, {1}), Frame(3, 2, 3, 1, {1, 2}),
    Frame(4, 3, 1, 0, {}), Frame(5, 3, 2, 1, {3, 4}), Frame(10, 3, 2, NoSeq, {}) }

OwnPresence == { Frame(20, 1, 2, NoSeq, {}) }
=============================================================================
