---------------------------- MODULE MCReassembly ----------------------------
(* Reassembly of a small and a big group of one author, one group of         *)
(* another author and a shard it sends under the first one's group id, and a *)
(* shard that contradicts its group's header.                                *)
EXTENDS Reassembly

CONSTANTS ann, bob

Shard(author, group, idx, total, size) ==
  [author |-> author, group |-> group, idx |-> idx, total |-> total, size |-> size]

SomeFrames ==
  {Shard(ann, 1, 0, 2, 1), Shard(ann, 1, 1, 2, 2), Shard(ann, 1, 1, 3, 1),
   Shard(ann, 2, 0, 3, 2), Shard(ann, 2, 1, 3, 2), Shard(bob, 1, 1, 2, 2)}

NoKeys == {}
=============================================================================
