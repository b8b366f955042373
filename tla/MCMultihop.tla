----------------------------- MODULE MCMultihop -----------------------------
(***************************************************************************)
(* Two ways from member 1 to member 4, over 2 and over 3.                  *)
(***************************************************************************)
EXTENDS Multihop

Square == {{1, 2}, {1, 3}, {2, 4}, {3, 4}}
=============================================================================
