--------------------------- MODULE MCBcapExchange ---------------------------
(* BcapExchange on small instances: a is the client of a serial line or of a
   TCP connection, a and b share a UDP server.  The .cfg files set the bounds. *)
EXTENDS BcapExchange

CONSTANTS a, b
TwoClients == {a, b}
=============================================================================
