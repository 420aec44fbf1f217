----------------------------- MODULE MCPsuComm -----------------------------
(* PsuComm on small instances: one or two callers, rings, packets and limits of
   one to three.  The .cfg files set the bounds.  Callers call only while few
   packets and bytes have come unexpectedly: the long exchanges that those begin
   are followed with the worker's requests alone. *)
EXTENDS PsuComm

CONSTANTS p, q, CallerNoiseMax
TwoCallers == {p, q}

Called == \E c \in Callers : cpc[c] # "idle" \/ cret[c] # "none"
Bounded == Called' => noise' <= CallerNoiseMax
BoundedSpec == Init /\ [][Next /\ Bounded]_vars /\ WF_vars(Interrupt)
=============================================================================
