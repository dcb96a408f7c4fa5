--------------------------- MODULE MCRouteBudget ---------------------------
(* Instances of RouteBudget for TLC: every route is one sharer's.  Over a  *)
(* ceiling of two, the last of four fragments waits for the stream's room. *)
EXTENDS RouteBudget, TLC

OneSharer  == [r \in Route |-> "sharer"]
Three      == [d \in Download |-> 3]
FourAndTwo ==
  LET large == CHOOSE d \in Download : TRUE
  IN  [d \in Download |-> IF d = large THEN 4 ELSE 2]
Symmetry   == Permutations(Route)
=============================================================================
