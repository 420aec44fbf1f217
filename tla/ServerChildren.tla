--------------------------- MODULE ServerChildren ---------------------------
(***************************************************************************)
(* What the list of a TCP server's children promises: two sequences, the   *)
(* children being served, youngest first, and those that have left and     *)
(* wait to be deleted, latest first.  A child leaves by itself, from any   *)
(* place; the server deletes only what has left, and all of it at once.    *)
(***************************************************************************)
EXTENDS Naturals, Sequences, SequencesExt

CONSTANTS Nodes,        \* possible children
          ClientMax     \* the most children at a time

VARIABLES serving,      \* sequence of the children being served
          leaving       \* sequence of the children that have left

Init == serving = <<>> /\ leaving = <<>>

Add(n) ==
    /\ n \notin ToSet(serving) /\ n \notin ToSet(leaving)
    /\ Len(serving) + Len(leaving) < ClientMax
    /\ serving' = <<n>> \o serving
    /\ UNCHANGED leaving

Leave(n) ==
    \E i \in DOMAIN serving :
        /\ serving[i] = n
        /\ serving' = RemoveAt(serving, i)
        /\ leaving' = <<n>> \o leaving

Delete ==
    /\ leaving' = <<>>
    /\ UNCHANGED serving

Next ==
    \/ \E n \in Nodes : Add(n) \/ Leave(n)
    \/ Delete

Spec == Init /\ [][Next]_<<serving, leaving>>

=============================================================================
