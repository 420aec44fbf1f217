------------------------------- MODULE MCDriver -------------------------------
(* The modules of the driver in one instance.  They share no variable: a
   behaviour runs one of them, which "part" names, and leaves the others in an
   initial state. *)
EXTENDS PobPower, IoPower, Board, Fram, DriverLife

VARIABLE part
allVars == <<pobVars, ioVars, boardVars, framVars, lifeVars, part>>

DriverInit ==
    /\ part \in {"pob", "io", "board", "fram", "life"}
    /\ PobInit /\ IoInit /\ BoardInit /\ FramInit /\ LifeInit
    /\ part # "io" => powerMode = "EXTERNAL"
    /\ part # "fram" => fram = [a \in Address |-> CHOOSE word \in Words : TRUE]
DriverNext ==
    /\ \/ part = "pob"   /\ PobNext   /\ UNCHANGED <<ioVars, boardVars, framVars, lifeVars>>
       \/ part = "io"    /\ IoNext    /\ UNCHANGED <<pobVars, boardVars, framVars, lifeVars>>
       \/ part = "board" /\ BoardNext /\ UNCHANGED <<pobVars, ioVars, framVars, lifeVars>>
       \/ part = "fram"  /\ FramNext  /\ UNCHANGED <<pobVars, ioVars, boardVars, lifeVars>>
       \/ part = "life"  /\ LifeNext  /\ UNCHANGED <<pobVars, ioVars, boardVars, framVars>>
    /\ UNCHANGED part

(* The fairness of each module, for the part that runs. *)
DriverFairness ==
    /\ WF_pobVars(part = "pob" /\ Interrupt) /\ WF_pobVars(part = "pob" /\ Timer100ms)
    /\ WF_pobVars(part = "pob" /\ Supply) /\ WF_pobVars(part = "pob" /\ Detect)
    /\ \A w \in Writers : WF_pobVars(part = "pob" /\ Finish(w))
    /\ WF_ioVars(part = "io" /\ CheckIoError) /\ WF_ioVars(part = "io" /\ SupplyCome)
    /\ \A c \in IoCallers : WF_ioVars(part = "io" /\ Continue(c))
    /\ WF_boardVars(part = "board" /\ FpgaInterrupt) /\ WF_boardVars(part = "board" /\ WdtTick)
    /\ \A c \in BoardCallers : /\ WF_boardVars(part = "board" /\ StoreIo(c))
                               /\ WF_boardVars(part = "board" /\ StoreDuty(c))
DriverSpec == DriverInit /\ [][DriverNext]_allVars /\ DriverFairness

(* BoardServes asks that what was initialised reaches the FPGA: it says nothing
   of a behaviour in which the board is left alone (ipc8.c:1026). *)
PartBoardServes == part = "board" => BoardServes
=============================================================================
