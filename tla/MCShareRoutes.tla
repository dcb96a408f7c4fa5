--------------------------- MODULE MCShareRoutes ---------------------------
(* Instances of ShareRoutes for TLC.  Of the adverts of time 1 one rotates  *)
(* the route of the same sealed announcement and one changes its metadata; *)
(* the last announces the share again after its withdrawal.                *)
EXTENDS ShareRoutes, TLC

Announce(at, blob, meta) == [at |-> at, blob |-> blob, meta |-> meta, withdraw |-> FALSE]
Withdraw(at, blob)       == [at |-> at, blob |-> blob, meta |-> 1, withdraw |-> TRUE]

WithWithdraw ==
  {Announce(1, 1, 1), Announce(1, 2, 1), Announce(1, 2, 2), Withdraw(2, 2), Announce(3, 2, 1)}

Both == {"fetch", "download"}
Symmetry == Permutations(Task)
=============================================================================
