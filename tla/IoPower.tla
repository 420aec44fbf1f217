------------------------------- MODULE IoPower -------------------------------
(***************************************************************************)
(* The I/O power of the driver: the ioctl that selects where it comes      *)
(* from, and the check of the fuses and of the external supply that the    *)
(* 1 s timer runs.                                                         *)
(*                                                                         *)
(* Ioctls are unlocked.  The power supply is external: its communication   *)
(* (PsuComm) ends with or without an error.                                *)
(***************************************************************************)
EXTENDS Integers, FiniteSets

CONSTANTS
    IoCallers,      \* processes that call the driver
    Troubles,       \* inputs that may report trouble, among AllTroubles
    IoCheck         \* LIMIT_IO_CHECK, 4

AllTroubles == {"REVERSE", "NO_SUPPLY", "INTERNAL_FUSE", "IO_FUSE", "ACCESS", "OVER_TEMP"}

ASSUME IoAssumption == Troubles \subseteq AllTroubles /\ IoCheck \in Nat

VARIABLES
    ioMode,         \* io_info.io_pwr_mode
    powerMode,      \* the register io.power_mode
    ioError,        \* io_error.error
    ioCount,        \* io_check_count
    psuError,       \* 0 < psu_error.error
    req,            \* what each caller is doing, and its locals
    worker,         \* where timer_worker_1s is
    wires,          \* out_pwr_state and the other inputs that report trouble
    crossed         \* history: two calls that select the mode were under way together

ioVars == <<ioMode, powerMode, ioError, ioCount, psuError, req, worker, wires, crossed>>

Modes == {"EXTERNAL", "INTERNAL"}
Ready == [pc |-> "idle", mode |-> "UNKNOWN", supply |-> TRUE]

-----------------------------------------------------------------------------
(* do_ioctl_write_iopowermode *)

(* check_powermode: 1 goes on, 0 is nothing to do, -1 is EALREADY. *)
CheckPowerModeNone(mode) == 1           \* mutant: the mode may change at any time
CheckPowerMode(mode) ==
    CASE ioMode \in {"EXTERNAL", "NO_SUPPLY"} -> IF mode = "EXTERNAL" THEN 0 ELSE -1
      [] ioMode = "INTERNAL" -> IF mode = "INTERNAL" THEN 0 ELSE -1
      [] OTHER -> 1

Select(c, mode) ==
    /\ req[c].pc = "idle"
    /\ CheckPowerMode(mode) = 1
    /\ req' = [req EXCEPT ![c] = [Ready EXCEPT !.pc = "fuse", !.mode = mode]]
    /\ crossed' = (crossed \/ \E d \in IoCallers : req[d].pc \in {"fuse", "select", "comm"})
    /\ UNCHANGED <<ioMode, powerMode, ioError, ioCount, psuError, worker, wires>>

(* The fuse is read; a reversed supply ends the call, anything else clears the
   error. *)
ReadFuse(c) ==
    /\ req[c].pc = "fuse"
    /\ IF "REVERSE" \in wires
       THEN ioError' = ioError \cup {"FUSE"} /\ req' = [req EXCEPT ![c] = Ready]
       ELSE /\ ioError' = ioError \ {"FUSE"}
            /\ req' = [req EXCEPT ![c].pc = "select", ![c].supply = ("NO_SUPPLY" \notin wires)]
    /\ UNCHANGED <<ioMode, powerMode, ioCount, psuError, worker, wires, crossed>>

SelectExternal(c) ==
    /\ req[c].pc = "select" /\ req[c].mode = "EXTERNAL"
    /\ IF req[c].supply THEN powerMode' = "EXTERNAL" /\ ioMode' = "EXTERNAL"
                        ELSE ioMode' = "NO_SUPPLY" /\ UNCHANGED powerMode
    /\ req' = [req EXCEPT ![c] = Ready]
    /\ UNCHANGED <<ioError, ioCount, psuError, worker, wires, crossed>>
SelectInternal(c) ==
    /\ req[c].pc = "select" /\ req[c].mode = "INTERNAL"
    /\ IF req[c].supply THEN req' = [req EXCEPT ![c] = Ready] /\ UNCHANGED powerMode
       ELSE powerMode' = "INTERNAL" /\ req' = [req EXCEPT ![c].pc = "comm"]
    /\ UNCHANGED <<ioMode, ioError, ioCount, psuError, worker, wires, crossed>>
(* set_tx_pkt_sync has returned. *)
Switched(c) ==
    /\ req[c].pc = "comm"
    /\ psuError' \in {psuError, TRUE}
    /\ ioMode' = IF psuError' THEN ioMode ELSE "INTERNAL"
    /\ req' = [req EXCEPT ![c] = Ready]
    /\ UNCHANGED <<powerMode, ioError, ioCount, worker, wires, crossed>>

Continue(c) == ReadFuse(c) \/ SelectExternal(c) \/ SelectInternal(c) \/ Switched(c)

-----------------------------------------------------------------------------
(* check_io_error.  The constant it means to compare the mode with is a mask,
   so that the fuses of the internal supply are never looked at. *)
FusesForgotten == {}                    \* mutant: no fuse is looked at
FusesChecked == {"IO_FUSE"}
FaultErrors ==
    (IF wires \cap FusesChecked # {} THEN {"FUSE"} ELSE {})
    \cup (wires \cap {"ACCESS"})
    \cup (IF "OVER_TEMP" \in wires THEN {"MINI_OC"} ELSE {})
CheckIoError ==
    /\ worker = "idle" /\ worker' = "supply"
    /\ IF wires \cap {"REVERSE", "NO_SUPPLY"} # {}
       THEN ioError' = ioError \cup {"FUSE"} /\ UNCHANGED ioCount
       ELSE IF ioMode \in Modes /\ IoCheck <= ioCount
       THEN ioError' = (ioError \ {"FUSE"}) \cup FaultErrors /\ UNCHANGED ioCount
       ELSE /\ ioError' = ioError \ {"FUSE"}
            /\ ioCount' = IF ioMode \in Modes THEN ioCount + 1 ELSE ioCount
    /\ UNCHANGED <<ioMode, powerMode, psuError, req, wires, crossed>>
(* The rest of timer_worker_1s: the external supply has come. *)
TakeSupply == ioError = {}
SupplyCome ==
    /\ worker = "supply" /\ worker' = "idle"
    /\ IF TakeSupply /\ ioMode = "NO_SUPPLY"
       THEN powerMode' = "EXTERNAL" /\ ioMode' = "EXTERNAL"
       ELSE UNCHANGED <<powerMode, ioMode>>
    /\ UNCHANGED <<ioError, ioCount, psuError, req, wires, crossed>>

(* The hardware: an input changes. *)
Change ==
    /\ \E t \in Troubles : wires' = IF t \in wires THEN wires \ {t} ELSE wires \cup {t}
    /\ UNCHANGED <<ioMode, powerMode, ioError, ioCount, psuError, req, worker, crossed>>
IoInit ==
    /\ ioMode = "UNKNOWN" /\ powerMode \in Modes
    /\ ioError = {} /\ ioCount = 0 /\ psuError = FALSE
    /\ req = [c \in IoCallers |-> Ready] /\ worker = "idle"
    /\ wires = {} /\ crossed = FALSE
IoNext ==
    \/ \E c \in IoCallers :
          \/ \E mode \in Modes : Select(c, mode)
          \/ Continue(c)
    \/ CheckIoError \/ SupplyCome \/ Change
IoSpec == IoInit /\ [][IoNext]_ioVars

(* The kernel runs the timers and a system call that has begun; the power
   supply's communication ends (RequestEnds of PsuComm). *)
IoFairness ==
    /\ WF_ioVars(CheckIoError) /\ WF_ioVars(SupplyCome)
    /\ \A c \in IoCallers : WF_ioVars(Continue(c))
IoFairSpec == IoSpec /\ IoFairness

-----------------------------------------------------------------------------
IoTypeOK ==
    /\ ioMode \in Modes \cup {"UNKNOWN", "NO_SUPPLY"} /\ powerMode \in Modes
    /\ ioError \subseteq {"FUSE", "ACCESS", "MINI_OC"}
    /\ ioCount \in 0..IoCheck
    /\ {psuError, crossed} \subseteq BOOLEAN
    /\ wires \subseteq Troubles
    /\ req \in [IoCallers -> [pc : {"idle", "fuse", "select", "comm"},
                              mode : Modes \cup {"UNKNOWN"}, supply : BOOLEAN]]
    /\ worker \in {"idle", "supply"}

(* A mode once selected stays, in the driver and in the register, as long as
   no two calls have selected at the same time (ipc8.c:536): neither a late
   answer of the power supply nor the timer's EXTERNAL overrides it. *)
ModeKept ==
    [][(ioMode \in Modes /\ ~crossed') => (ioMode' = ioMode /\ powerMode' = ioMode)]_ioVars

(* What the timers are for.  A blown fuse of the I/O that stays is recorded for
   good, in spite of the error being cleared at every check; a supply that has
   come is taken up (ipc8.c:299, 481). *)
FuseReported ==
    <>[]("IO_FUSE" \in wires /\ ioMode \in Modes) => <>[]("FUSE" \in ioError)
SupplyTakenUp ==
    <>[](wires \cap {"REVERSE", "NO_SUPPLY"} = {} /\ ioError \subseteq {"FUSE"})
        => <>[](ioMode # "NO_SUPPLY")
TimersReport == FuseReported /\ SupplyTakenUp
=============================================================================
