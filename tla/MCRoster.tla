------------------------------ MODULE MCRoster ------------------------------
(* Roster with two nicknames. *)
EXTENDS Roster
=============================================================================
