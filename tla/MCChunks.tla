------------------------------ MODULE MCChunks ------------------------------
(***************************************************************************)
(* Two files that share a chunk, two threads that put, one pass.           *)
(***************************************************************************)
EXTENDS Chunks, TLC

CONSTANTS c1, c2, r1, r2

Symmetry == Permutations(Threads)

Rows == r1 :> {c1} @@ r2 :> {c1, c2}
=============================================================================
