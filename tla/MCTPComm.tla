----------------------------- MODULE MCTPComm -----------------------------
(* TPComm on small instances: one retry, one NAK, intervals of no tick or one.
   The .cfg files set the bounds. *)
EXTENDS TPComm
=============================================================================
