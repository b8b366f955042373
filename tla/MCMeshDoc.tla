----------------------------- MODULE MCMeshDoc -----------------------------
(* MeshDoc with two members. *)
EXTENDS MeshDoc

Two == {1, 2}
OneWay == {<<1, 2>>}

Own(m) == {m}

\* Three changes of one member, or two of it and one of the other.
ThreeOrForked == {[m \in Two |-> IF m = 1 THEN 3 ELSE 0], [m \in Two |-> IF m = 1 THEN 2 ELSE 1]}
=============================================================================
