----------------------------- MODULE MCController -----------------------------
(* Small instances of Controller for TLC. *)
EXTENDS Controller, TLC

CONSTANTS r1, r2, h1, h2, p1, p2

MCDevices == {r1, r2}
MCPorts == {p1, p2}
MCHosts == {h1, h2}
MCCables == {[src |-> r1, dst |-> r2, port |-> p] : p \in MCPorts}
MCLocations == {[dev |-> r1, port |-> p1], [dev |-> r1, port |-> p2]}
=============================================================================
