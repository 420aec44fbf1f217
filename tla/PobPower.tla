------------------------------ MODULE PobPower ------------------------------
(***************************************************************************)
(* The power output boards of the driver: the ioctl that switches them,    *)
(* the work that supplies them, the work that detects them, and the checks *)
(* of the interrupt handler and of the 100 ms timer.                       *)
(*                                                                         *)
(* Ioctls are unlocked and the works run on any processor: a step is what  *)
(* one of them does between two accesses to what another may change.  The  *)
(* interrupt runs under irq_lock and is one step.  stop_pob_supply is one  *)
(* step as well: two of them write the same values.                        *)
(***************************************************************************)
EXTENDS Integers, FiniteSets

CONSTANTS
    Writers,        \* processes that call IPC8_IOCTL_WRITE_POBSTATE
    Slots,          \* power modules, PM_MAX of them
    FaultSlot,      \* the one of them whose fuses may blow
    I2cCheck,       \* LIMIT_I2C_CHECK, 3
    I2cRetry,       \* LIMIT_I2C_RETRY, 100
    PobCheck,       \* LIMIT_POB_CHECK, 2
    PobRetry        \* LIMIT_POB_RETRY, 3

ASSUME PobAssumption ==
    /\ IsFiniteSet(Slots) /\ FaultSlot \in Slots
    /\ {I2cCheck, I2cRetry, PobCheck} \subseteq Nat \ {0}
    /\ PobRetry \in Nat

VARIABLES
    isPob, output, check, checkCount, retries,  \* PM_INFO: output, check is enable_pob_check
    switch, power, ovp,     \* PORT_POB: board_switch, power_supply, ovp_check_enable
    pmError,                \* pm_error.error, its PM_ERROR_POB by what recorded it
    pfail,                  \* PSU_ERROR_PFAIL
    lock,                   \* pob_state_lock
    call,                   \* what each writer is doing, the state it asks for and
                            \* (history) the errors of a stop it has seen
    pending, supply,        \* supply_pob is queued; where start_pob_supply is
    detect,                 \* where detect_ioexp_board is, and its locals
    fault,                  \* what is broken
    stale                   \* history: a writer took the lock on what it had tested too early

pmVars == <<isPob, output, check, checkCount, retries>>
portVars == <<switch, power, ovp>>
errorVars == <<pmError, pfail>>
workVars == <<pending, supply>>
pobVars == <<pmVars, portVars, errorVars, lock, call, workVars, detect, fault, stale>>

Ids == {"nothing", "pob", "unknown"}
Boards == [Slots -> Ids]
NoBoards == [s \in Slots |-> "nothing"]
StopErrors == {"OVP", "FUSE", "STATE"}      \* recorded together with a stop
Faults == {"none", "ovp", "fuse", "board", "pfail"}

-----------------------------------------------------------------------------
(* stop_pob_supply, once errors (if any) have been found. *)
StopLeavesPower == /\ check' = FALSE /\ ovp' = FALSE    \* mutant: power stays on
                   /\ output' = FALSE /\ UNCHANGED power
StopPobSupply == check' = FALSE /\ ovp' = FALSE /\ output' = FALSE /\ power' = {}
StopOn(errors) ==
    /\ pmError' = pmError \cup errors
    /\ IF errors # {} THEN StopPobSupply ELSE UNCHANGED <<check, ovp, output, power>>

(* check_pob_error *)
InterruptErrors ==
    IF ~check THEN {}
    ELSE IF fault = "ovp" THEN {"OVP"}
    ELSE IF fault = "fuse" /\ FaultSlot \in isPob THEN {"FUSE"} ELSE {}

(* check_error_info in ipc8_irq, as far as it concerns the boards. *)
Interrupt ==
    /\ pfail' = (pfail \/ fault = "pfail")
    /\ StopOn(InterruptErrors)
    /\ UNCHANGED <<isPob, checkCount, retries, switch, lock, call, workVars, detect,
                   fault, stale>>

(* check_pob_state in timer_worker_100ms.  Bad are the boards that i2c_status
   lets read and whose state shows a blown fuse. *)
CheckDue == PobCheck <= checkCount + 1
CheckPobState(bad) ==
    LET over == {s \in bad : PobRetry <= retries[s]}
    IN  IF ~check THEN UNCHANGED <<pmVars, ovp, power, pmError>>
        ELSE IF ~CheckDue
        THEN checkCount' = checkCount + 1
             /\ UNCHANGED <<isPob, output, check, retries, ovp, power, pmError>>
        ELSE /\ checkCount' = 0
             /\ retries' = [s \in Slots |-> IF s \in bad \ over THEN retries[s] + 1 ELSE 0]
             /\ StopOn(IF over # {} THEN {"STATE"} ELSE {})
             /\ UNCHANGED isPob
Timer100ms ==
    /\ \E bad \in SUBSET (IF fault = "board" THEN {FaultSlot} ELSE {}) :
          CheckPobState(bad)
    /\ UNCHANGED <<switch, pfail, lock, call, workVars, detect, fault, stale>>

-----------------------------------------------------------------------------
(* detect_ioexp_board: the boards are read until I2cCheck reads agree or the
   reading has changed I2cRetry times. *)
EnablePowerOutputBoard(boards) ==
    /\ isPob' = {s \in Slots : boards[s] = "pob"}
    /\ switch' = isPob'
    /\ pmError' = pmError \cup (IF \E s \in Slots : boards[s] = "unknown" THEN {"UNKNOWN_ID"} ELSE {})
DetectFrom(pc) == [pc |-> pc, before |-> NoBoards, same |-> 0, changes |-> 0]
DetectDone == detect' = DetectFrom("done")
DetectRead(now) ==
    LET agrees == now = detect.before
        same == IF agrees THEN detect.same + 1 ELSE 1
        changes == IF agrees THEN detect.changes ELSE detect.changes + 1
    IN  CASE agrees /\ I2cCheck <= same -> DetectDone /\ EnablePowerOutputBoard(now)
          [] ~agrees /\ I2cRetry <= changes ->
                /\ DetectDone /\ isPob' = {} /\ switch' = {}
                /\ pmError' = pmError \cup {"TIMEOUT"}
          [] OTHER -> /\ detect' = [pc |-> "read", before |-> now, same |-> same,
                                    changes |-> changes]
                      /\ UNCHANGED <<isPob, switch, pmError>>
Detect ==
    /\ detect.pc = "read"
    /\ \E now \in Boards : DetectRead(now)
    /\ UNCHANGED <<output, check, checkCount, retries, power, ovp, pfail, lock, call,
                   workVars, fault, stale>>

-----------------------------------------------------------------------------
(* start_pob_supply; it sleeps at "sleep" for POB_OVP_WAIT. *)
SupplyUnchanged == UNCHANGED <<isPob, checkCount, retries, switch, errorVars, call,
                               detect, fault, stale>>
SupplyBegin ==
    /\ supply = "idle" /\ pending
    /\ pending' = FALSE
    /\ IF isPob = {} THEN supply' = "free" /\ UNCHANGED power
                     ELSE supply' = "on" /\ power' = isPob
    /\ SupplyUnchanged /\ UNCHANGED <<output, check, ovp, lock>>
SupplyOutput ==
    /\ supply = "on"
    /\ output' = TRUE /\ supply' = "sleep"
    /\ SupplyUnchanged /\ UNCHANGED <<check, power, ovp, lock, pending>>
SupplyOvp ==
    /\ supply = "sleep"
    /\ ovp' = TRUE /\ supply' = "check"
    /\ SupplyUnchanged /\ UNCHANGED <<output, check, power, lock, pending>>
SupplyCheckLeft == supply' = "free" /\ UNCHANGED check      \* mutant: the check stays off
SupplyCheckOn == supply' = "free" /\ check' = TRUE
SupplyCheck ==
    /\ supply = "check"
    /\ SupplyCheckOn
    /\ SupplyUnchanged /\ UNCHANGED <<output, power, ovp, lock, pending>>
KeepLock == UNCHANGED lock              \* mutant: the lock is not released
FreeLock == lock' = 0
SupplyFree ==
    /\ supply = "free"
    /\ FreeLock /\ supply' = "idle"
    /\ SupplyUnchanged /\ UNCHANGED <<output, check, power, ovp, pending>>
Supply == SupplyBegin \/ SupplyOutput \/ SupplyOvp \/ SupplyCheck \/ SupplyFree

-----------------------------------------------------------------------------
(* do_ioctl_write_pobstate *)
WriterUnchanged == UNCHANGED <<isPob, checkCount, retries, switch, errorVars, supply,
                               detect, fault>>
Idle == [pc |-> "idle", on |-> FALSE, seen |-> {}]
StopUnchanged == UNCHANGED <<output, check, power, ovp>>

(* The tests up to the lock; outval of a call that one of them ends. *)
Refusal(on) ==
    CASE on = output -> "0"
      [] Cardinality(isPob) > 1 -> "MULTIBOARD"
      [] on /\ pmError # {} -> "ERROR_RAISED"
      [] on /\ pfail -> "PFAIL"
      [] OTHER -> "none"
Begin(w, on) ==
    /\ call[w].pc = "idle"
    /\ Refusal(on) = "none"
    /\ call' = [call EXCEPT ![w] = [pc |-> "tested", on |-> on, seen |-> IF on THEN pmError \cap StopErrors ELSE {}]]
    /\ WriterUnchanged /\ StopUnchanged /\ UNCHANGED <<lock, pending, stale>>

(* atomic_read, or the end with POB_STATE_ERR_PROCESSING. *)
LockFree == lock = 0
LockRead(w) ==
    /\ call[w].pc = "tested"
    /\ call' = [call EXCEPT ![w] = IF LockFree THEN [@ EXCEPT !.pc = "passed"] ELSE Idle]
    /\ WriterUnchanged /\ StopUnchanged /\ UNCHANGED <<lock, pending, stale>>
(* atomic_inc.  What the call has tested may be gone by now. *)
Outdated(w) == lock # 0 \/
               (call[w].on /\ (output \/ ~(pmError \cap StopErrors \subseteq call[w].seen)))
LockInc(w) ==
    /\ call[w].pc = "passed"
    /\ call' = [call EXCEPT ![w].pc = "locked"]
    /\ lock' = lock + 1
    /\ stale' = (stale \/ Outdated(w))
    /\ WriterUnchanged /\ StopUnchanged /\ UNCHANGED pending

TurnOn(w) ==
    /\ call[w].pc = "locked" /\ call[w].on
    /\ pending' = TRUE
    /\ call' = [call EXCEPT ![w] = Idle]
    /\ WriterUnchanged /\ StopUnchanged /\ UNCHANGED <<lock, stale>>
TurnOff(w) ==
    /\ call[w].pc = "locked" /\ ~call[w].on
    /\ StopPobSupply
    /\ call' = [call EXCEPT ![w].pc = "free"]
    /\ WriterUnchanged /\ UNCHANGED <<lock, pending, stale>>
OffFree(w) ==
    /\ call[w].pc = "free"
    /\ lock' = 0
    /\ call' = [call EXCEPT ![w] = Idle]
    /\ WriterUnchanged /\ StopUnchanged /\ UNCHANGED <<pending, stale>>
Finish(w) == LockRead(w) \/ LockInc(w) \/ TurnOn(w) \/ TurnOff(w) \/ OffFree(w)
Write(w) == (\E on \in BOOLEAN : Begin(w, on)) \/ Finish(w)

-----------------------------------------------------------------------------
(* The fault breaks, once. *)
Break ==
    /\ fault = "none"
    /\ fault' \in Faults \ {"none"}
    /\ UNCHANGED <<pmVars, portVars, errorVars, lock, call, workVars, detect, stale>>

(* alloc_pci_resource has started the timers and queued detect_pm. *)
PobInit ==
    /\ isPob = {} /\ output = FALSE /\ check = FALSE /\ checkCount = 0
    /\ retries = [s \in Slots |-> 0]
    /\ switch = {} /\ power = {} /\ ovp = FALSE
    /\ pmError = {} /\ pfail = FALSE
    /\ lock = 0 /\ call = [w \in Writers |-> Idle]
    /\ pending = FALSE /\ supply = "idle"
    /\ detect = DetectFrom("read")
    /\ fault = "none"
    /\ stale = FALSE

PobNext ==
    \/ Interrupt \/ Timer100ms \/ Detect \/ Supply \/ Break
    \/ \E w \in Writers : Write(w)

PobSpec == PobInit /\ [][PobNext]_pobVars

(* The FPGA interrupts every 250 us; the kernel runs the
   timers, the works and a system call that has begun. *)
PobFairness ==
    /\ WF_pobVars(Interrupt) /\ WF_pobVars(Timer100ms) /\ WF_pobVars(Supply) /\ WF_pobVars(Detect)
    /\ \A w \in Writers : WF_pobVars(Finish(w))
PobFairSpec == PobSpec /\ PobFairness

-----------------------------------------------------------------------------
PobTypeOK ==
    /\ isPob \subseteq Slots /\ switch \subseteq Slots /\ power \subseteq Slots
    /\ {output, check, ovp, pfail, pending, stale} \subseteq BOOLEAN
    /\ checkCount \in 0..PobCheck - 1 /\ retries \in [Slots -> 0..PobRetry]
    /\ pmError \subseteq StopErrors \cup {"TIMEOUT", "UNKNOWN_ID"}
    /\ lock \in Nat
    /\ call \in [Writers -> [pc : {"idle", "tested", "passed", "locked", "free"}, on : BOOLEAN,
                         seen : SUBSET StopErrors]]
    /\ supply \in {"idle", "on", "sleep", "check", "free"}
    /\ detect \in [pc : {"read", "done"}, before : Boards, same : 0..I2cCheck, changes : 0..I2cRetry]
    /\ fault \in Faults

(* The error check is on only while the boards are, and what a check has stopped
   stays off (ipc8_pm.c:196), unless a writer took the lock after the state it
   had tested was gone (ipc8.c:798). *)
StopIsFinal ==
    ~stale => /\ check => output /\ power # {}
              /\ pmError \cap StopErrors # {} => power = {} /\ ~output

(* Whenever the lock is taken somebody is left who will release it: a writer,
   or the supply work, queued or running (ipc8.c:805). *)
LockHasOwner ==
    lock # 0 => \/ pending \/ supply # "idle"
                \/ \E w \in Writers : call[w].pc \in {"locked", "free"}

(* Boards switched on under an overvoltage are switched off again, whatever the
   writers do meanwhile (ipc8_pm.c:124). *)
OvervoltageEnds == (fault = "ovp" /\ power # {}) ~> (power = {})
=============================================================================
