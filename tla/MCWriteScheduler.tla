------------------------- MODULE MCWriteScheduler -------------------------
(* Instances of WriteScheduler for TLC.  Chat + ring is a room or direct    *)
(* message, session boundary a join or a leave, keepalive a beacon; chat +  *)
(* current is the case strongest_class is written for.                      *)
EXTENDS WriteScheduler

MCPermits == [l \in Lane |-> 1]

SafetyShapes ==
  {<<Chat, "ring", None>>, <<Chat, "current", None>>, <<SessionBoundary, "tombstone", None>>,
   <<Keepalive, "current", 1>>}
BeaconShapes == {<<Keepalive, "current", None>>}
Symmetry == Permutations(Record)
=============================================================================
