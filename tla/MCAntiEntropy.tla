--------------------------- MODULE MCAntiEntropy ---------------------------
(* AntiEntropy with two members and a handful of frames. *)
EXTENDS AntiEntropy

Frame(id, author, ts, to, kept) ==
  [id |-> id, pubkey |-> author, timestamp |-> ts, seq |-> NoSeq, to |-> to,
   kept |-> kept, logged |-> TRUE]

\* 1 writes to 2 alone while 2 announces itself; later 1 writes to 9, who is
\* offline, and to everyone.
MixedFrames ==
  { Frame(1, 1, 1, 2, TRUE), Frame(2, 2, 1, Everyone, TRUE), Frame(3, 1, 2, 9, TRUE),
    Frame(4, 1, 2, Everyone, TRUE) }

Two == 1..2
FromStart == [n \in Members |-> 0]
=============================================================================
