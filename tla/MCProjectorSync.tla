-------------------------- MODULE MCProjectorSync --------------------------
(* Instances of ProjectorSync for TLC. *)
EXTENDS ProjectorSync

CONSTANTS e1, e2

MCEngine == {e1, e2}
=============================================================================
