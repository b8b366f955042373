------------------------------ MODULE MCBeacon ------------------------------
(* A public mesh of an origin and a joiner, a public mesh of two members that *)
(* both probe, and a private mesh of three.                                  *)
EXTENDS Beacon

Three == {"o", "d", "e"}
Kinds(o, d, e) == [m \in Three |-> CASE m = "o" -> o [] m = "d" -> d [] m = "e" -> e]

Public == [public |-> TRUE, members |-> {"o", "d"},
           policy |-> Kinds("Eager", "Deferred", "Never"), faults |-> 2]
Survivors == [public |-> TRUE, members |-> {"d", "e"},
              policy |-> Kinds("Never", "Deferred", "EagerProbed"), faults |-> 1]
Private == [public |-> FALSE, members |-> Three,
            policy |-> Kinds("Eager", "Deferred", "Deferred"), faults |-> 2]

AllMeshes == {Public, Survivors, Private}
=============================================================================
