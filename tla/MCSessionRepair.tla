-------------------------- MODULE MCSessionRepair --------------------------
(* Instances of SessionRepair for TLC. *)
EXTENDS SessionRepair

Changing == {"calm", "elevated"}
=============================================================================
