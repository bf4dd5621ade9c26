-------------------------------- MODULE MCUpf --------------------------------
(* Small instances of UpfPfcp for TLC. *)
EXTENDS UpfPfcp
CONSTANT s1
MCSmfs == {s1}
=============================================================================
