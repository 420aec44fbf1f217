-------------------------------- MODULE Board --------------------------------
(***************************************************************************)
(* What the interrupt of the motion board carries: the output words that   *)
(* ioctls set and the fan speed go into the send buffer, the inputs and    *)
(* the safety switches come out of the receive buffer, and the watchdog    *)
(* counter of the 100 ms timer is cleared.  The FPGA raises the interrupt  *)
(* at every cycle, until it stops.                                         *)
(*                                                                         *)
(* The ioctls are unlocked: an output word is read, masked and stored, and *)
(* a fan speed is stored next to its duty, in steps.                       *)
(***************************************************************************)
EXTENDS Integers

CONSTANTS
    BoardCallers,   \* processes that call the driver
    Outputs,        \* lines of mini_out (or hand_out)
    Switches,       \* safety switches that are wired, among AllSwitches
    Speeds,         \* speeds asked of the fan, in percent
    WdtAllow        \* FPGA_WDT_ALLOW, 3

AllSwitches == {"EMERGENCY1", "EMERGENCY2", "DEAD_MAN1", "DEAD_MAN2"}

ASSUME BoardAssumption ==
    Switches \subseteq AllSwitches /\ Speeds \subseteq Nat /\ WdtAllow \in Nat

VARIABLES
    usable,         \* io_pwr_mode is EXTERNAL or INTERNAL and io_error.error is 0 (IoPower)
    outputs,        \* io_info.mini_out
    safety,         \* io_info.emergency_stop and dead_man, those that hold
    fan, duty,      \* fan_info
    sent,           \* send_dma_addr: the outputs, and the speed as a duty
    ioctl,          \* what each caller is doing, and its locals
    fpgaWdt, wdtCount,      \* FPGA_ERROR_WDT, fpga_wdt_count
    switches, alive,        \* the switches that are closed; the FPGA runs
    mixed           \* history: two ioctls that write were under way together

boardVars == <<usable, outputs, safety, fan, duty, sent, ioctl, fpgaWdt, wdtCount,
               switches, alive, mixed>>

Free == [pc |-> "idle", mask |-> {}, word |-> {}, speed |-> 0]
Enter(c, state) ==
    /\ ioctl[c] = Free /\ ioctl' = [ioctl EXCEPT ![c] = state]
    /\ mixed' = (mixed \/ \E d \in BoardCallers : ioctl[d] # Free)
Leave(c) == ioctl' = [ioctl EXCEPT ![c] = Free] /\ UNCHANGED mixed

(* do_ioctl_write_io *)
KeptNone(mask) == {}                    \* mutant: the word is not read before
Kept(mask) == outputs \ mask
WriteIo(c, mask, value) ==
    /\ usable
    /\ Enter(c, [Free EXCEPT !.pc = "io", !.mask = mask,
                             !.word = Kept(mask) \cup (value \cap mask)])
    /\ UNCHANGED <<usable, outputs, safety, fan, duty, sent, fpgaWdt, wdtCount, switches, alive>>
StoreIo(c) ==
    /\ ioctl[c].pc = "io"
    /\ outputs' = ioctl[c].word
    /\ Leave(c)
    /\ UNCHANGED <<usable, safety, fan, duty, sent, fpgaWdt, wdtCount, switches, alive>>

(* do_ioctl_write_fanspeed, set_fan_speed_local *)
CalcFanSpeedDuty(speed) ==
    IF speed <= 20 THEN 15
    ELSE IF speed <= 26 THEN (speed * 19) \div 25
    ELSE IF speed <= 92 THEN (speed * 114 - 500) \div 125
    ELSE IF speed <= 100 THEN (speed * 38 - 2300) \div 15 ELSE 100
FanMinSpeed == 60
FanMaxSpeed == 100
SetFanSpeed(c, speed) ==
    /\ Enter(c, [Free EXCEPT !.pc = "duty", !.speed = speed])
    /\ fan' = speed
    /\ UNCHANGED <<usable, outputs, safety, duty, sent, fpgaWdt, wdtCount, switches, alive>>
WriteFanSpeed(c, speed) ==
    FanMinSpeed <= speed /\ speed <= FanMaxSpeed /\ SetFanSpeed(c, speed)
(* The sysfs attribute takes any speed, in 16 bits. *)
FanSpdStore(c, value) == SetFanSpeed(c, value % 2^16)
StoreDuty(c) ==
    /\ ioctl[c].pc = "duty"
    /\ duty' = CalcFanSpeedDuty(ioctl[c].speed)
    /\ Leave(c)
    /\ UNCHANGED <<usable, outputs, safety, fan, sent, fpgaWdt, wdtCount, switches, alive>>

(* read_write_io: the dead man's switch needs both of its contacts, the
   emergency stop one. *)
Safety(closed) ==
    (IF closed \cap {"EMERGENCY1", "EMERGENCY2"} # {} THEN {"EMERGENCY"} ELSE {})
    \cup (IF {"DEAD_MAN1", "DEAD_MAN2"} \subseteq closed THEN {"DEAD_MAN"} ELSE {})
(* ipc8_irq *)
SendOld == sent                         \* mutant: the send buffer is left as it was
Send == [out |-> outputs, duty |-> duty]
FpgaInterrupt ==
    /\ alive
    /\ wdtCount' = 0
    /\ sent' = Send /\ safety' = Safety(switches)
    /\ UNCHANGED <<usable, outputs, fan, duty, ioctl, fpgaWdt, switches, alive, mixed>>

(* timer_worker_100ms, first half (the other half is CheckPobState of PobPower). *)
WdtExpired == WdtAllow < wdtCount + 1
WdtTick ==
    /\ ~fpgaWdt
    /\ wdtCount' = wdtCount + 1
    /\ fpgaWdt' = WdtExpired
    /\ UNCHANGED <<usable, outputs, safety, fan, duty, sent, ioctl, switches, alive, mixed>>

(* The outside: the I/O power and its errors, a switch, the FPGA stops for good. *)
PowerChanges ==
    /\ usable' = ~usable
    /\ UNCHANGED <<outputs, safety, fan, duty, sent, ioctl, fpgaWdt, wdtCount, switches, alive,
                   mixed>>
Press ==
    /\ \E s \in Switches : switches' = IF s \in switches THEN switches \ {s} ELSE switches \cup {s}
    /\ UNCHANGED <<usable, outputs, safety, fan, duty, sent, ioctl, fpgaWdt, wdtCount, alive, mixed>>
FpgaStops ==
    /\ alive /\ alive' = FALSE
    /\ UNCHANGED <<usable, outputs, safety, fan, duty, sent, ioctl, fpgaWdt, wdtCount, switches,
                   mixed>>

(* initialize_fan, initialize_io, initialize_send_dma: what is sent before the
   first interrupt is zero. *)
FanInitSpeed == 60
BoardInit ==
    /\ usable = FALSE /\ outputs = {} /\ safety = {}
    /\ fan = FanInitSpeed /\ duty = CalcFanSpeedDuty(FanInitSpeed)
    /\ sent = [out |-> {}, duty |-> 0]
    /\ ioctl = [c \in BoardCallers |-> Free]
    /\ fpgaWdt = FALSE /\ wdtCount = 0
    /\ switches = {} /\ alive = TRUE /\ mixed = FALSE
BoardNext ==
    \/ \E c \in BoardCallers :
          \/ \E mask, value \in SUBSET Outputs : WriteIo(c, mask, value)
          \/ \E speed \in Speeds : WriteFanSpeed(c, speed) \/ FanSpdStore(c, speed)
          \/ StoreIo(c) \/ StoreDuty(c)
    \/ FpgaInterrupt \/ WdtTick \/ PowerChanges \/ Press \/ FpgaStops
BoardSpec == BoardInit /\ [][BoardNext]_boardVars

(* The FPGA interrupts as long as it runs, the timer is re-armed at every tick,
   and the kernel runs a system call that has begun. *)
BoardFairSpec ==
    /\ BoardSpec
    /\ WF_boardVars(FpgaInterrupt) /\ WF_boardVars(WdtTick)
    /\ \A c \in BoardCallers : WF_boardVars(StoreIo(c)) /\ WF_boardVars(StoreDuty(c))

-----------------------------------------------------------------------------
BoardTypeOK ==
    /\ {usable, fpgaWdt, alive, mixed} \subseteq BOOLEAN
    /\ outputs \subseteq Outputs /\ sent.out \subseteq Outputs /\ switches \subseteq Switches
    /\ fan \in Nat /\ duty \in 0..100 /\ sent.duty \in 0..100
    /\ safety \subseteq {"EMERGENCY", "DEAD_MAN"} /\ wdtCount \in 0..WdtAllow + 1
    /\ \A c \in BoardCallers : ioctl[c].pc \in {"idle", "io", "duty"}

(* An output outside the mask of a call keeps its value through that call, as
   long as no two writes overlap (ipc8_io.c:211-215). *)
OutputsKept ==
    [][\A c \in BoardCallers :
          (ioctl[c].pc = "io" /\ ioctl'[c] = Free /\ ~mixed)
              => outputs' \ ioctl[c].mask = outputs \ ioctl[c].mask]_boardVars

(* What the cycle of the board is for: the outputs and the speed set last reach
   the FPGA while it runs, with the duty that belongs to the speed when no two
   writes overlapped; the state of the switches reaches the driver; and an FPGA
   that has stopped is found out. *)
SettingsReach ==
    <>[](alive /\ ~mixed /\ \A c \in BoardCallers : ioctl[c] = Free)
        => <>[](sent = [out |-> outputs, duty |-> CalcFanSpeedDuty(fan)])
SwitchesSeen ==
    \A closed \in SUBSET Switches :
        <>[](alive /\ switches = closed) => <>[](safety = Safety(closed))
DeadFpgaFound == ~alive ~> fpgaWdt
BoardServes == SettingsReach /\ SwitchesSeen /\ DeadFpgaFound
=============================================================================
