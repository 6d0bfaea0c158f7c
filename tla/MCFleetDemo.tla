----------------------------- MODULE MCFleetDemo -----------------------------
(* Model of FleetDemo for TLC: a request that turns one dial, and one that turns both. *)
EXTENDS FleetDemo

MCBodies == {[n |-> 3], [n |-> 0, decode |-> 2]}
=============================================================================
