--------------------------- MODULE MCBcapRelations ---------------------------
(* BcapRelations with three children at most: the youngest, one between two
   brothers and the eldest leave in any order. *)
EXTENDS BcapRelations

CONSTANTS n1, n2, n3
ThreeNodes == {n1, n2, n3}
=============================================================================
