--------------------------- MODULE MCFirstContact ---------------------------
(* Small instances of DmFirstContact.                                      *)
EXTENDS DmFirstContact
=============================================================================
