--------------------------- MODULE MCKeySchedule ---------------------------
(* Small instances of DmKeySchedule.  The two parties are not symmetric:   *)
(* one initiated.                                                          *)
EXTENDS DmKeySchedule
=============================================================================
