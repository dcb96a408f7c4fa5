---------------------------- MODULE MCRoomReach ----------------------------
(* Instances of RoomReach for TLC. *)
EXTENDS RoomReach, TLC

Symmetry == Permutations(Rec)
=============================================================================
