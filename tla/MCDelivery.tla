----------------------------- MODULE MCDelivery -----------------------------
(* Small instances of DmDelivery.  Sequence 0 of each party is the first   *)
(* contact, sent before the model starts, so a bound of n lets a party     *)
(* send n - 1 messages.                                                    *)
EXTENDS DmDelivery

Sends(a, b) == [p \in Party |-> IF p = Alice THEN a ELSE b]

Sends31 == Sends(3, 1)
=============================================================================
