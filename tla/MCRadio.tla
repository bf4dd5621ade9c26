------------------------------ MODULE MCRadio ------------------------------
(* Two gNBs, the second one nearer than the first.                          *)
EXTENDS RadioLink
MCDbm == [g \in Gnbs |-> IF g = CHOOSE h \in Gnbs : TRUE THEN -40 ELSE -10]
=============================================================================
