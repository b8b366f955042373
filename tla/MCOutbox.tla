----------------------------- MODULE MCOutbox -----------------------------
(* Outbox with one peer, whose endpoint id is below ours.                    *)
EXTENDS Outbox

CONSTANT bob

Addressees == [f \in Frames |-> bob]
=============================================================================
