-------------------------------- MODULE MCRtc --------------------------------
(* A native member and a tab; the native member and a rendezvous in a tab;    *)
(* both members offering to that rendezvous, which has room for one.          *)
EXTENDS Rtc

Knows(pairs) == [n \in Nodes |-> {q \in Nodes : <<n, q>> \in pairs \/ <<q, n>> \in pairs}]

Crowd == {Knows({<<1, 3>>, <<2, 3>>})}

Shapes == {Knows({<<1, 2>>}), Knows({<<1, 3>>})} \cup Crowd
=============================================================================
