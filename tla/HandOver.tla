------------------------------ MODULE HandOver ------------------------------
(***************************************************************************)
(* What recv_thread and exec_thread of a b-CAP server promise each other:  *)
(* a request that is handed over is executed once, nothing is executed     *)
(* that was not handed over, and the next one is handed over only when the *)
(* latest is finished.                                                     *)
(***************************************************************************)
VARIABLES phase, ended

vars == <<phase, ended>>

Init == phase = "free" /\ ended = FALSE

HandTo == phase = "free" /\ phase' = "handed" /\ UNCHANGED ended
Start == phase = "handed" /\ ~ended /\ phase' = "executing" /\ UNCHANGED ended
Finish == phase = "executing" /\ phase' = "free" /\ UNCHANGED ended
End == ~ended /\ phase # "executing" /\ ended' = TRUE /\ UNCHANGED phase

Next == HandTo \/ Start \/ Finish \/ End

Safety == Init /\ [][Next]_vars
Spec == Safety /\ WF_vars(Start \/ Finish)
=============================================================================
