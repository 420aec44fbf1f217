---------------------------- MODULE Driver_proofs ----------------------------
(***************************************************************************)
(* Proofs about the parts of the driver that share no state: the I/O power *)
(* (IoPower), the motion board's outputs (Board), the life of the module   *)
(* and its board (DriverLife), the FRAM and the driver's copy of it (Fram) *)
(* and the power output boards (PobPower), for any number of callers, any  *)
(* outputs, boards, sizes and limits.                                      *)
(***************************************************************************)
EXTENDS IoPower, Board, DriverLife, Fram, PobPower, TLAPS

-----------------------------------------------------------------------------
(* The I/O power. *)

Busy == {"fuse", "select", "comm"}

(* As long as no two calls crossed: the one that is under way was let in while
   no mode was selected, and nobody but itself ends that; a call that waits for
   the power supply has switched the register already. *)
OneSelects ==
    \A c, d \in IoCallers : req[c].pc \in Busy /\ req[d].pc \in Busy => c = d
SelectsUnknown == \A c \in IoCallers : req[c].pc \in Busy => ioMode = "UNKNOWN"
SwitchedFirst == \A c \in IoCallers : req[c].pc = "comm" => powerMode = "INTERNAL"
RegisterAgrees == ioMode \in Modes => powerMode = ioMode
IoInv ==
    /\ IoTypeOK
    /\ ~crossed => OneSelects /\ SelectsUnknown /\ SwitchedFirst /\ RegisterAgrees

IoStates == [pc : {"idle", "fuse", "select", "comm"}, mode : Modes \cup {"UNKNOWN"}, supply : BOOLEAN]

LEMMA IoInitInv == IoInit => IoInv
<1> SUFFICES ASSUME IoInit PROVE IoInv
  OBVIOUS
<1>1. \A c \in IoCallers : req[c] = Ready /\ req[c].pc = "idle"
  BY DEF IoInit, Ready
<1>2. req \in [IoCallers -> IoStates]
  BY DEF IoInit, Ready, IoStates
<1>3. ioCount \in 0..IoCheck
  BY IoAssumption DEF IoAssumption, IoInit
<1>4. IoTypeOK
  BY <1>2, <1>3 DEF IoInit, IoTypeOK, IoStates
<1> QED BY <1>1, <1>4 DEF IoInit, IoInv, Busy, Modes, OneSelects, SelectsUnknown, SwitchedFirst,
                          RegisterAgrees

(* A call begins only when no mode is selected, and notes when it is not alone. *)
LEMMA SelectInv ==
    ASSUME IoInv, NEW c \in IoCallers, NEW mode \in Modes, Select(c, mode)
    PROVE  IoInv'
<1> DEFINE s == [Ready EXCEPT !.pc = "fuse", !.mode = mode]
<1> USE DEF IoInv
<1>1. s \in IoStates /\ s.pc = "fuse"
  BY DEF Ready, IoStates
<1>2. req' = [req EXCEPT ![c] = s] /\ req[c].pc = "idle"
      /\ UNCHANGED <<ioMode, powerMode, ioError, ioCount, psuError, worker, wires>>
  BY DEF Select
<1> HIDE DEF s
<1>3. IoTypeOK'
  <2>1. crossed' \in BOOLEAN
    BY Zenon DEF Select
  <2>2. req' \in [IoCallers -> IoStates]
    BY <1>1, <1>2 DEF IoTypeOK, IoStates
  <2> QED BY <1>2, <2>1, <2>2 DEF IoTypeOK, IoStates
<1>4. ASSUME ~crossed' PROVE (OneSelects /\ SelectsUnknown /\ SwitchedFirst /\ RegisterAgrees)'
  <2>1. ~crossed /\ \A d \in IoCallers : req[d].pc \notin Busy
    BY <1>4 DEF Select, IoTypeOK, Busy
  <2>2. ioMode = "UNKNOWN"
    BY DEF Select, CheckPowerMode, IoTypeOK, Modes
  <2>3. /\ req'[c].pc = "fuse" /\ \A d \in IoCallers \ {c} : req'[d].pc \notin Busy
    BY <1>1, <1>2, <2>1 DEF IoTypeOK
  <2> QED BY <1>2, <2>1, <2>2, <2>3 DEF OneSelects, SelectsUnknown, SwitchedFirst, RegisterAgrees,
                                         Busy, Modes
<1> QED BY <1>3, <1>4

(* What the call under way does: whatever the mode becomes, it is alone. *)
LEMMA ContinueInv ==
    ASSUME IoInv, NEW c \in IoCallers, Continue(c)
    PROVE  IoInv'
<1> USE DEF IoInv
<1>1. Ready \in IoStates /\ Ready.pc = "idle" /\ req[c] \in IoStates
  BY DEF Ready, IoStates, IoTypeOK
<1>2. PICK s \in IoStates : req' = [req EXCEPT ![c] = s]
  <2>1. CASE ReadFuse(c)
    <3>1. [req[c] EXCEPT !.pc = "select", !.supply = ("NO_SUPPLY" \notin wires)] \in IoStates
      BY <1>1 DEF IoStates
    <3>2. \/ req' = [req EXCEPT ![c] = Ready]
          \/ req' = [req EXCEPT ![c] = [req[c] EXCEPT !.pc = "select",
                                                     !.supply = ("NO_SUPPLY" \notin wires)]]
      BY <2>1 DEF ReadFuse, IoTypeOK
    <3> QED BY <1>1, <3>1, <3>2
  <2>2. CASE SelectExternal(c) \/ Switched(c)
    BY <1>1, <2>2 DEF SelectExternal, Switched
  <2>3. CASE SelectInternal(c)
    <3>1. [req[c] EXCEPT !.pc = "comm"] \in IoStates
      BY <1>1 DEF IoStates
    <3>2. \/ req' = [req EXCEPT ![c] = Ready]
          \/ req' = [req EXCEPT ![c] = [req[c] EXCEPT !.pc = "comm"]]
      BY <2>3 DEF SelectInternal, IoTypeOK
    <3> QED BY <1>1, <3>1, <3>2
  <2> QED BY <2>1, <2>2, <2>3 DEF Continue
<1>3. UNCHANGED <<ioCount, worker, wires, crossed>>
  BY DEF Continue, ReadFuse, SelectExternal, SelectInternal, Switched
<1>4. /\ ioMode' \in Modes \cup {"UNKNOWN", "NO_SUPPLY"} /\ powerMode' \in Modes
      /\ ioError' \subseteq {"FUSE", "ACCESS", "MINI_OC"} /\ psuError' \in BOOLEAN
  BY DEF Continue, ReadFuse, SelectExternal, SelectInternal, Switched, IoTypeOK, Modes
<1>5. IoTypeOK'
  BY <1>2, <1>3, <1>4 DEF IoTypeOK, IoStates
<1>6. ASSUME ~crossed PROVE (OneSelects /\ SelectsUnknown /\ SwitchedFirst /\ RegisterAgrees)'
  <2>1. req[c].pc \in Busy
    BY DEF Continue, ReadFuse, SelectExternal, SelectInternal, Switched, Busy
  <2>2. ioMode = "UNKNOWN" /\ \A d \in IoCallers \ {c} : req[d].pc \notin Busy
    BY <1>6, <2>1 DEF OneSelects, SelectsUnknown
  <2>3. req'[c] = s /\ \A d \in IoCallers \ {c} : req'[d].pc \notin Busy
    BY <1>2, <2>2 DEF IoTypeOK
  <2>4. OneSelects'
    BY <2>3 DEF OneSelects
  <2>5. /\ s.pc \in Busy => ioMode' = "UNKNOWN"
        /\ s.pc = "comm" => powerMode' = "INTERNAL"
        /\ ioMode' \in Modes => powerMode' = ioMode'
    <3>1. CASE ReadFuse(c)
      BY <1>1, <2>2, <2>3, <3>1 DEF ReadFuse, IoTypeOK, IoStates, Busy, Modes
    <3>2. CASE SelectExternal(c)
      BY <1>1, <2>2, <2>3, <3>2 DEF SelectExternal, IoTypeOK, IoStates, Busy, Modes
    <3>3. CASE SelectInternal(c)
      BY <1>1, <2>2, <2>3, <3>3 DEF SelectInternal, IoTypeOK, IoStates, Busy, Modes
    <3>4. CASE Switched(c)
      BY <1>1, <1>6, <2>2, <2>3, <3>4 DEF Switched, SwitchedFirst, IoTypeOK, IoStates, Busy, Modes
    <3> QED BY <3>1, <3>2, <3>3, <3>4 DEF Continue
  <2> QED BY <2>3, <2>4, <2>5 DEF SelectsUnknown, SwitchedFirst, RegisterAgrees, Busy
<1> QED BY <1>3, <1>5, <1>6

(* The timer changes the mode only from NO_SUPPLY, in which no call is under way. *)
LEMMA IoTimerInv ==
    ASSUME IoInv, CheckIoError \/ SupplyCome \/ Change
    PROVE  IoInv'
<1> USE DEF IoInv
<1>1. CASE CheckIoError
  <2>0. FaultErrors \subseteq {"FUSE", "ACCESS", "MINI_OC"}
    BY DEF FaultErrors
  <2>1. ioError' \subseteq {"FUSE", "ACCESS", "MINI_OC"}
    BY <1>1, <2>0 DEF CheckIoError, IoTypeOK
  <2>2. ioCount' \in 0..IoCheck
    BY <1>1, IoAssumption DEF IoAssumption, CheckIoError, IoTypeOK
  <2>3. UNCHANGED <<ioMode, powerMode, psuError, req, wires, crossed>> /\ worker' = "supply"
    BY <1>1 DEF CheckIoError
  <2> QED BY <2>1, <2>2, <2>3 DEF IoTypeOK, OneSelects, SelectsUnknown, SwitchedFirst, RegisterAgrees
<1>2. CASE SupplyCome
  <2>1. UNCHANGED <<ioError, ioCount, psuError, req, wires, crossed>> /\ worker' = "idle"
    BY <1>2 DEF SupplyCome
  <2>2. \/ UNCHANGED <<powerMode, ioMode>>
        \/ ioMode = "NO_SUPPLY" /\ powerMode' = "EXTERNAL" /\ ioMode' = "EXTERNAL"
    BY <1>2 DEF SupplyCome
  <2> QED BY <2>1, <2>2 DEF IoTypeOK, OneSelects, SelectsUnknown, SwitchedFirst, RegisterAgrees, Modes,
                             Busy
<1>3. CASE Change
  <2>1. wires' \subseteq Troubles
    BY <1>3 DEF Change, IoTypeOK
  <2> QED BY <1>3, <2>1 DEF Change, IoTypeOK, OneSelects, SelectsUnknown, SwitchedFirst, RegisterAgrees
<1> QED BY <1>1, <1>2, <1>3

LEMMA IoNextInv == IoInv /\ [IoNext]_ioVars => IoInv'
<1> SUFFICES ASSUME IoInv, [IoNext]_ioVars PROVE IoInv'
  OBVIOUS
<1>1. CASE IoNext
  BY <1>1, SelectInv, ContinueInv, IoTimerInv DEF IoNext
<1>2. CASE UNCHANGED ioVars
  BY <1>2 DEF ioVars, IoInv, IoTypeOK, OneSelects, SelectsUnknown, SwitchedFirst, RegisterAgrees
<1> QED BY <1>1, <1>2

(* The modes, the errors and the progress of every call stay in their ranges. *)
THEOREM IoTypeCorrect == IoSpec => []IoTypeOK
  BY IoInitInv, IoNextInv, PTL DEF IoSpec, IoInv

(* A mode that is selected stays, in the driver and in the register, as long as
   no two calls selected at the same time: a mode can only be changed by a call
   that was let in before it was selected, and such a call would not be alone
   (do_ioctl_write_iopowermode, timer_worker_1s). *)
THEOREM ModeStaysKept == IoSpec => ModeKept
<1>1. IoInv /\ [IoNext]_ioVars =>
         [(ioMode \in Modes /\ ~crossed') => (ioMode' = ioMode /\ powerMode' = ioMode)]_ioVars
  <2> SUFFICES ASSUME IoInv, IoNext, ioMode \in Modes, ~crossed'
               PROVE  ioMode' = ioMode /\ powerMode' = ioMode
    OBVIOUS
  <2>1. ~crossed
    BY DEF IoNext, Select, Continue, ReadFuse, SelectExternal, SelectInternal, Switched,
           CheckIoError, SupplyCome, Change, IoInv, IoTypeOK
  <2>2. powerMode = ioMode /\ \A c \in IoCallers : req[c].pc \notin Busy
    BY <2>1 DEF IoInv, RegisterAgrees, SelectsUnknown, Modes
  <2>3. \A c \in IoCallers : ~Continue(c)
    BY <2>2 DEF Continue, ReadFuse, SelectExternal, SelectInternal, Switched, Busy
  <2> QED BY <2>2, <2>3 DEF IoNext, Select, CheckIoError, SupplyCome, Change, Modes
<1> QED BY <1>1, IoInitInv, IoNextInv, PTL DEF IoSpec, ModeKept

-----------------------------------------------------------------------------
(* The motion board. *)

IoctlStates == [pc : {"idle", "io", "duty"}, mask : SUBSET Outputs, word : SUBSET Outputs,
                speed : Nat]
(* As long as no two writes were under way together, the one that is keeps what
   it has read: outside its mask, the word to be stored is the present one. *)
OneWrites ==
    \A c, d \in BoardCallers : ioctl[c] # Free /\ ioctl[d] # Free => c = d
WordFresh ==
    \A c \in BoardCallers :
        ioctl[c].pc = "io" => ioctl[c].word \ ioctl[c].mask = outputs \ ioctl[c].mask
BoardInv ==
    /\ BoardTypeOK
    /\ ioctl \in [BoardCallers -> IoctlStates]
    /\ ~fpgaWdt => wdtCount <= WdtAllow
    /\ ~mixed => OneWrites /\ WordFresh

LEMMA FreeType == Free \in IoctlStates /\ Free.pc = "idle"
  BY DEF Free, IoctlStates

(* A duty is a percentage, whatever the speed. *)
LEMMA DutyType ==
    ASSUME NEW speed \in Nat
    PROVE  CalcFanSpeedDuty(speed) \in 0..100
  BY DEF CalcFanSpeedDuty

LEMMA BoardInitInv == BoardInit => BoardInv
<1> SUFFICES ASSUME BoardInit PROVE BoardInv
  OBVIOUS
<1>1. ioctl \in [BoardCallers -> IoctlStates] /\ \A c \in BoardCallers : ioctl[c].pc = "idle" /\ ioctl[c] = Free
  BY FreeType DEF BoardInit
<1>2. duty \in 0..100 /\ fan \in Nat /\ sent.duty \in 0..100 /\ sent.out = {}
  BY DutyType DEF BoardInit, FanInitSpeed
<1>3. wdtCount = 0 /\ WdtAllow \in Nat
  BY BoardAssumption DEF BoardAssumption, BoardInit
<1>4. {usable, fpgaWdt, alive, mixed} \subseteq BOOLEAN
  BY Zenon DEF BoardInit
<1>5. BoardTypeOK
  BY <1>1, <1>2, <1>3, <1>4 DEF BoardInit, BoardTypeOK
<1> QED BY <1>1, <1>3, <1>5 DEF BoardInv, OneWrites, WordFresh

(* A write that enters is alone, or that it is not is noted. *)
LEMMA EnterInv ==
    ASSUME BoardInv, NEW c \in BoardCallers, NEW s \in IoctlStates, Enter(c, s),
           s.pc = "io" => s.word \ s.mask = outputs \ s.mask,
           UNCHANGED <<outputs, safety, duty, sent, fpgaWdt, wdtCount, switches, alive, usable>>,
           fan' \in Nat
    PROVE  BoardInv'
<1> USE DEF BoardInv
<1>1. ioctl[c] = Free /\ ioctl' = [ioctl EXCEPT ![c] = s]
  BY DEF Enter
<1>2. mixed' \in BOOLEAN
  BY Zenon DEF Enter
<1>3. ioctl' \in [BoardCallers -> IoctlStates]
  BY <1>1
<1>4. BoardTypeOK'
  BY <1>2, <1>3 DEF BoardTypeOK, IoctlStates
<1>5. ASSUME ~mixed' PROVE OneWrites' /\ WordFresh'
  <2>1. ~mixed /\ \A d \in BoardCallers : ioctl[d] = Free
    BY <1>5 DEF Enter, BoardTypeOK
  <2>2. ioctl'[c] = s /\ \A d \in BoardCallers \ {c} : ioctl'[d] = Free
    BY <1>1, <2>1
  <2> QED BY <2>2, FreeType DEF OneWrites, WordFresh
<1> QED BY <1>3, <1>4, <1>5

(* The first halves of the two writes. *)
LEMMA BeginsInv ==
    ASSUME BoardInv, NEW c \in BoardCallers
    PROVE  /\ \A mask, value \in SUBSET Outputs : WriteIo(c, mask, value) => BoardInv'
           /\ \A speed \in Nat : SetFanSpeed(c, speed) => BoardInv'
<1>1. ASSUME NEW mask \in SUBSET Outputs, NEW value \in SUBSET Outputs, WriteIo(c, mask, value)
      PROVE  BoardInv'
  <2> DEFINE s == [Free EXCEPT !.pc = "io", !.mask = mask,
                               !.word = Kept(mask) \cup (value \cap mask)]
  <2>1. s \in IoctlStates
    BY DEF Free, IoctlStates, Kept, BoardInv, BoardTypeOK
  <2>2. s.word \ s.mask = outputs \ s.mask
    BY DEF Free, Kept
  <2>3. Enter(c, s) /\ fan' \in Nat
        /\ UNCHANGED <<outputs, safety, duty, sent, fpgaWdt, wdtCount, switches, alive, usable>>
    BY <1>1 DEF WriteIo, BoardInv, BoardTypeOK
  <2> HIDE DEF s
  <2> QED BY <2>1, <2>2, <2>3, EnterInv
<1>2. ASSUME NEW speed \in Nat, SetFanSpeed(c, speed)
      PROVE  BoardInv'
  <2> DEFINE s == [Free EXCEPT !.pc = "duty", !.speed = speed]
  <2>1. s \in IoctlStates /\ s.pc = "duty"
    BY DEF Free, IoctlStates
  <2>2. Enter(c, s) /\ fan' \in Nat
        /\ UNCHANGED <<outputs, safety, duty, sent, fpgaWdt, wdtCount, switches, alive, usable>>
    BY <1>2 DEF SetFanSpeed
  <2> HIDE DEF s
  <2> QED BY <2>1, <2>2, EnterInv
<1> QED BY <1>1, <1>2

(* The second halves: what is stored was read by the only write under way. *)
LEMMA StoresInv ==
    ASSUME BoardInv, NEW c \in BoardCallers, StoreIo(c) \/ StoreDuty(c)
    PROVE  BoardInv'
<1> USE DEF BoardInv
<1>1. ioctl[c] \in IoctlStates /\ ioctl[c] # Free
  BY FreeType DEF StoreIo, StoreDuty
<1>2. ioctl' = [ioctl EXCEPT ![c] = Free] /\ mixed' = mixed
      /\ UNCHANGED <<usable, safety, fan, sent, fpgaWdt, wdtCount, switches, alive>>
  BY DEF StoreIo, StoreDuty, Leave
<1>3. ioctl' \in [BoardCallers -> IoctlStates]
  BY <1>2, FreeType
<1>4. outputs' \subseteq Outputs /\ duty' \in 0..100
  BY <1>1, DutyType DEF StoreIo, StoreDuty, IoctlStates, BoardTypeOK
<1>5. BoardTypeOK'
  BY <1>2, <1>3, <1>4 DEF BoardTypeOK, IoctlStates
<1>6. ASSUME ~mixed PROVE OneWrites' /\ WordFresh'
  <2>1. \A d \in BoardCallers : ioctl'[d] = Free
    BY <1>1, <1>2, <1>6 DEF OneWrites
  <2> QED BY <2>1, FreeType DEF OneWrites, WordFresh
<1> QED BY <1>2, <1>3, <1>5, <1>6

LEMMA BoardNextInv == BoardInv /\ [BoardNext]_boardVars => BoardInv'
<1> SUFFICES ASSUME BoardInv, [BoardNext]_boardVars PROVE BoardInv'
  OBVIOUS
<1> USE BoardAssumption DEF BoardAssumption
<1>1. ASSUME NEW c \in BoardCallers, NEW speed \in Speeds,
             WriteFanSpeed(c, speed) \/ FanSpdStore(c, speed)
      PROVE  BoardInv'
  <2>1. speed \in Nat /\ speed % 2^16 \in Nat
    OBVIOUS
  <2> QED BY <1>1, <2>1, BeginsInv DEF WriteFanSpeed, FanSpdStore
<1>2. ASSUME FpgaInterrupt PROVE BoardInv'
  <2>1. sent'.out = outputs /\ sent'.duty = duty /\ safety' \subseteq {"EMERGENCY", "DEAD_MAN"}
    BY <1>2 DEF FpgaInterrupt, Send, Safety
  <2>2. wdtCount' = 0 /\ UNCHANGED <<usable, outputs, fan, duty, ioctl, fpgaWdt, switches, alive, mixed>>
    BY <1>2 DEF FpgaInterrupt
  <2> QED BY <2>1, <2>2 DEF BoardInv, BoardTypeOK, OneWrites, WordFresh
<1>3. ASSUME WdtTick PROVE BoardInv'
  <2>1. /\ ~fpgaWdt /\ wdtCount' = wdtCount + 1 /\ fpgaWdt' = WdtExpired
        /\ UNCHANGED <<usable, outputs, safety, fan, duty, sent, ioctl, switches, alive, mixed>>
    BY <1>3 DEF WdtTick
  <2>2. WdtExpired \in BOOLEAN
    BY DEF WdtExpired
  <2>3. wdtCount \in 0..WdtAllow /\ (~WdtExpired => wdtCount + 1 <= WdtAllow)
    BY <2>1 DEF BoardInv, BoardTypeOK, WdtExpired
  <2> HIDE DEF WdtExpired
  <2>4. wdtCount' \in 0..WdtAllow + 1 /\ (~fpgaWdt' => wdtCount' <= WdtAllow)
    BY <2>1, <2>3
  <2> QED BY <2>1, <2>2, <2>4 DEF BoardInv, BoardTypeOK, OneWrites, WordFresh
<1>4. ASSUME PowerChanges \/ Press \/ FpgaStops PROVE BoardInv'
  <2>1. /\ UNCHANGED <<outputs, safety, fan, duty, sent, ioctl, fpgaWdt, wdtCount, mixed>>
        /\ switches' \subseteq Switches /\ usable' \in BOOLEAN /\ alive' \in BOOLEAN
    BY <1>4 DEF PowerChanges, Press, FpgaStops, BoardInv, BoardTypeOK
  <2> QED BY <2>1 DEF BoardInv, BoardTypeOK, OneWrites, WordFresh
<1>5. CASE BoardNext
  BY <1>1, <1>2, <1>3, <1>4, <1>5, BeginsInv, StoresInv DEF BoardNext
<1>6. CASE UNCHANGED boardVars
  BY <1>6 DEF boardVars, BoardInv, BoardTypeOK, OneWrites, WordFresh
<1> QED BY <1>5, <1>6

(* The outputs are lines of the board, a duty is a percentage whatever speed was
   asked for, and the watchdog's counter stops at its limit. *)
THEOREM BoardTypeCorrect == BoardSpec => []BoardTypeOK
  BY BoardInitInv, BoardNextInv, PTL DEF BoardSpec, BoardInv

(* A call of do_ioctl_write_io leaves the outputs outside its mask as they are
   when it stores, as long as no two writes overlapped: the word it has read is
   still the present one. *)
THEOREM OutputsStayKept == BoardSpec => OutputsKept
<1>1. BoardInv /\ [BoardNext]_boardVars =>
        [\A c \in BoardCallers :
            (ioctl[c].pc = "io" /\ ioctl'[c] = Free /\ ~mixed)
                => outputs' \ ioctl[c].mask = outputs \ ioctl[c].mask]_boardVars
  <2> SUFFICES ASSUME BoardInv, BoardNext, NEW c \in BoardCallers,
                      ioctl[c].pc = "io", ioctl'[c] = Free, ~mixed
               PROVE  outputs' \ ioctl[c].mask = outputs \ ioctl[c].mask
    OBVIOUS
  <2>1. ioctl[c].word \ ioctl[c].mask = outputs \ ioctl[c].mask /\ ioctl[c] # Free
    BY FreeType DEF BoardInv, WordFresh
  <2>2. CASE \E d \in BoardCallers : StoreIo(d)
    <3>1. PICK d \in BoardCallers : StoreIo(d)
      BY <2>2
    <3>2. d = c
      BY <2>1, <3>1, FreeType DEF StoreIo, BoardInv, OneWrites
    <3> QED BY <2>1, <3>1, <3>2 DEF StoreIo
  <2>3. CASE ~\E d \in BoardCallers : StoreIo(d)
    BY <2>3 DEF BoardNext, WriteIo, WriteFanSpeed, FanSpdStore, SetFanSpeed, StoreDuty,
                FpgaInterrupt, WdtTick, PowerChanges, Press, FpgaStops
  <2> QED BY <2>2, <2>3
<1> QED BY <1>1, BoardInitInv, BoardNextInv, PTL DEF BoardSpec, OutputsKept

-----------------------------------------------------------------------------
(* The life of the module and its board. *)

Software == {"class", "chrdev", "cdev", "device", "pcidriver"}
Probed   == {"ipc8_pci", "fram_buffer", "pcienable"}
Hardware == {"regions", "workqueue", "irq", "iomem", "dmabuf"}
Leftover == {"workqueue", "iomem"}

(* The order of free_pci_resource, each release by what it releases. *)
Order == <<"timer", "workqueue", "irq", "monitor", "dma", "dmabuf", "iomem", "regions",
           "pcienable", "fram_buffer", "ipc8_pci">>
Freed(n) == {Order[i] : i \in 1..(n - 1)}

(* What is held at each step, apart from what a failed probe has left. *)
Due ==
    CASE phase = "out" -> {}
      [] phase = "init" -> TakenBefore(InitProc, proc)
      [] phase = "probe" -> Software \cup TakenBefore(ProbeProc, proc)
      [] phase = "alloc" -> Software \cup Probed \cup TakenBefore(AllocProc, proc)
      [] phase \in {"in", "remove", "exit"} /\ ~board -> Software
      [] phase = "in" /\ board -> Software \cup Probed \cup Hardware \cup Running
      [] phase \in {"remove", "exit"} /\ board ->
             Software \cup ((Probed \cup Hardware \cup Running) \ Freed(proc))
Steps ==
    CASE phase = "init" -> 1..5
      [] phase = "probe" -> 1..4
      [] phase = "alloc" -> 1..6
      [] phase \in {"remove", "exit"} /\ board -> 1..11
      [] OTHER -> {0}
LifeInv ==
    /\ phase \in {"out", "init", "probe", "alloc", "in", "remove", "exit"}
    /\ board \in BOOLEAN /\ leaks \in 0..LeakLimit
    /\ proc \in Steps
    /\ board => phase \in {"in", "remove", "exit"}
    /\ phase = "remove" => board
    /\ Due \subseteq held
    /\ held \subseteq Due \cup (IF leaks = 0 THEN {} ELSE Leftover)
    /\ ipc8_pci \in {"null", "valid", "dangling"}
    /\ board \/ phase = "alloc" \/ (phase = "probe" /\ proc # 1) => ipc8_pci = "valid"
    /\ missed \subseteq {<<"irq", "iomem">>, <<"irq", "workqueue">>}

(* The steps taken so far, one step later. *)
LEMMA TakenStep ==
    ASSUME NEW steps, NEW n \in Nat \ {0}
    PROVE  TakenBefore(steps, n + 1) = TakenBefore(steps, n) \cup Taken(steps[n])
<1>1. 1..(n + 1 - 1) = 1..(n - 1) \cup {n}
  OBVIOUS
<1> HIDE DEF Taken
<1> QED BY <1>1 DEF TakenBefore

LEMMA TakenNone == \A steps : TakenBefore(steps, 1) = {}
<1>1. 1..(1 - 1) = {}
  OBVIOUS
<1> QED BY <1>1 DEF TakenBefore

(* What the three enumerations of ipc8.h take altogether. *)
LEMMA InitTaken ==
    /\ TakenBefore(InitProc, 5) = Software \ {"pcidriver"}
    /\ \A n \in 1..5 : TakenBefore(InitProc, n) \subseteq Software
<1>1. TakenBefore(InitProc, 1) = {}
  BY TakenNone
<1>2. TakenBefore(InitProc, 2) = {"class"}
  BY <1>1, TakenStep, 1 + 1 = 2 DEF Taken, InitProc
<1>3. TakenBefore(InitProc, 3) = {"class", "chrdev"}
  BY <1>2, TakenStep, 2 + 1 = 3 DEF Taken, InitProc
<1>4. TakenBefore(InitProc, 4) = {"class", "chrdev", "cdev"}
  BY <1>3, TakenStep, 3 + 1 = 4 DEF Taken, InitProc
<1>5. TakenBefore(InitProc, 5) = {"class", "chrdev", "cdev", "device"}
  BY <1>4, TakenStep, 4 + 1 = 5 DEF Taken, InitProc
<1>6. \A n \in 1..5 : n = 1 \/ n = 2 \/ n = 3 \/ n = 4 \/ n = 5
  OBVIOUS
<1> QED BY <1>1, <1>2, <1>3, <1>4, <1>5, <1>6 DEF Software

LEMMA ProbeTaken ==
    /\ TakenBefore(ProbeProc, 4) = Probed
    /\ \A n \in 1..4 : TakenBefore(ProbeProc, n) \subseteq Probed
    /\ \A n \in 1..4 : n # 1 <=> "ipc8_pci" \in TakenBefore(ProbeProc, n)
<1>1. TakenBefore(ProbeProc, 1) = {}
  BY TakenNone
<1>2. TakenBefore(ProbeProc, 2) = {"ipc8_pci"}
  BY <1>1, TakenStep, 1 + 1 = 2 DEF Taken, ProbeProc
<1>3. TakenBefore(ProbeProc, 3) = {"ipc8_pci", "fram_buffer"}
  BY <1>2, TakenStep, 2 + 1 = 3 DEF Taken, ProbeProc
<1>4. TakenBefore(ProbeProc, 4) = {"ipc8_pci", "fram_buffer", "pcienable"}
  BY <1>3, TakenStep, 3 + 1 = 4 DEF Taken, ProbeProc
<1>5. \A n \in 1..4 : n = 1 \/ n = 2 \/ n = 3 \/ n = 4
  OBVIOUS
<1> QED BY <1>1, <1>2, <1>3, <1>4, <1>5 DEF Probed

LEMMA AllocTaken ==
    /\ TakenBefore(AllocProc, 6) = Hardware
    /\ \A n \in 1..6 : TakenBefore(AllocProc, n) \subseteq Hardware
<1>1. TakenBefore(AllocProc, 1) = {}
  BY TakenNone
<1>2. TakenBefore(AllocProc, 2) = {"regions"}
  BY <1>1, TakenStep, 1 + 1 = 2 DEF Taken, AllocProc
<1>3. TakenBefore(AllocProc, 3) = {"regions", "workqueue", "irq"}
  BY <1>2, TakenStep, 2 + 1 = 3 DEF Taken, AllocProc
<1>4. TakenBefore(AllocProc, 4) = {"regions", "workqueue", "irq", "iomem"}
  BY <1>3, TakenStep, 3 + 1 = 4 DEF Taken, AllocProc
<1>5. TakenBefore(AllocProc, 5) = {"regions", "workqueue", "irq", "iomem", "dmabuf"}
  BY <1>4, TakenStep, 4 + 1 = 5 DEF Taken, AllocProc
<1>6. TakenBefore(AllocProc, 6) = {"regions", "workqueue", "irq", "iomem", "dmabuf"}
  BY <1>5, TakenStep, 5 + 1 = 6 DEF Taken, AllocProc
<1>7. \A n \in 1..6 : n = 1 \/ n = 2 \/ n = 3 \/ n = 4 \/ n = 5 \/ n = 6
  OBVIOUS
<1> QED BY <1>1, <1>2, <1>3, <1>4, <1>5, <1>6, <1>7 DEF Hardware

(* The releases of free_pci_resource: one thing at a time, none twice, and in the
   end everything but what the module itself holds. *)
LEMMA FreeOrderFacts ==
    /\ Len(FreeOrder) = 11
    /\ \A n \in 1..11 : FreeOrder[n] = {Order[n]} /\ Order[n] \in Probed \cup Hardware \cup Running
    /\ \A n \in 1..11 : Order[n] \notin Freed(n) /\ Freed(n + 1) = Freed(n) \cup {Order[n]}
    /\ Freed(1) = {} /\ Freed(12) = Probed \cup Hardware \cup Running
<1>1. Len(FreeOrder) = 11
  BY DEF FreeOrder
<1>2. \A n \in 1..11 : n = 1 \/ n = 2 \/ n = 3 \/ n = 4 \/ n = 5 \/ n = 6 \/ n = 7 \/ n = 8
                       \/ n = 9 \/ n = 10 \/ n = 11
  OBVIOUS
<1>3. \A n \in 1..11 : FreeOrder[n] = {Order[n]}
  BY <1>2 DEF FreeOrder, Order
<1>4. \A n \in 1..11 : Order[n] \in Probed \cup Hardware \cup Running
  BY <1>2 DEF Order, Probed, Hardware, Running
<1>5. /\ Order[1] = "timer" /\ Order[2] = "workqueue" /\ Order[3] = "irq" /\ Order[4] = "monitor"
      /\ Order[5] = "dma" /\ Order[6] = "dmabuf" /\ Order[7] = "iomem" /\ Order[8] = "regions"
      /\ Order[9] = "pcienable" /\ Order[10] = "fram_buffer" /\ Order[11] = "ipc8_pci"
  BY DEF Order
<1>6. \A i, n \in 1..11 : Order[i] = Order[n] => i = n
  BY <1>2, <1>5
<1>7. \A n \in 1..11 : Order[n] \notin Freed(n) /\ Freed(n + 1) = Freed(n) \cup {Order[n]}
  <2> TAKE n \in 1..11
  <2>1. 1..(n + 1 - 1) = 1..(n - 1) \cup {n} /\ 1..(n - 1) \subseteq 1..11 /\ n \notin 1..(n - 1)
    OBVIOUS
  <2> HIDE DEF Order
  <2> QED BY <1>6, <2>1 DEF Freed
<1>8. Freed(1) = {}
  BY DEF Freed
<1>9. Freed(12) = Probed \cup Hardware \cup Running
  <2>1. Freed(12) = {Order[i] : i \in 1..11}
    BY DEF Freed
  <2> QED BY <1>2, <1>5, <2>1 DEF Probed, Hardware, Running
<1> QED BY <1>1, <1>3, <1>4, <1>7, <1>8, <1>9

LEMMA LifeInitInv == LifeInit => LifeInv
<1> SUFFICES ASSUME LifeInit PROVE LifeInv
  OBVIOUS
<1>1. Due = {} /\ Steps = {0}
  BY DEF LifeInit, Due, Steps
<1>2. board \in BOOLEAN /\ ~board
  BY Zenon DEF LifeInit
<1>3. leaks \in 0..LeakLimit /\ phase = "out" /\ proc = 0 /\ held = {} /\ ipc8_pci = "null" /\ missed = {}
  BY DEF LifeInit, LeakLimit
<1> QED BY <1>1, <1>2, <1>3 DEF LifeInv

(* ipc8_init, and a board that is found. *)
LEMMA InitStepsInv ==
    ASSUME LifeInv, Load \/ InitStep \/ InitFails \/ Register \/ Plug
    PROVE  LifeInv'
<1>1. CASE Load
  <2>1. phase = "out" /\ Due = {} /\ Due' = {}
    BY <1>1, TakenNone DEF Load, Due
  <2> QED BY <1>1, <2>1 DEF Load, LifeInv, Steps
<1>2. CASE InitStep
  <2>0. phase = "init" /\ proc \in 1..5 /\ ~board
    BY <1>2 DEF InitStep, LifeInv, Steps
  <2>1. proc # 5
    BY <1>2 DEF InitStep, InitProc
  <2>2. /\ Due = TakenBefore(InitProc, proc)
        /\ Due' = TakenBefore(InitProc, proc) \cup Taken(InitProc[proc])
    BY <1>2, <2>0, TakenStep DEF InitStep, Due
  <2> QED BY <1>2, <2>0, <2>1, <2>2 DEF InitStep, LifeInv, Steps
<1>3. CASE InitFails
  <2>0. phase = "init" /\ proc \in 1..5 /\ ~board
    BY <1>3 DEF InitFails, LifeInv, Steps
  <2>1. Due = TakenBefore(InitProc, proc) /\ Due' = {}
    BY <1>3, <2>0 DEF InitFails, Due
  <2>2. missed' = missed /\ held' = held \ Due
    BY <1>3, <2>1 DEF InitFails, GiveBack, CleanInit, LifeInv
  <2> QED BY <1>3, <2>0, <2>1, <2>2 DEF InitFails, LifeInv, Steps
<1>4. CASE Register
  <2>0. phase = "init" /\ proc \in 1..5 /\ ~board
    BY <1>4 DEF Register, LifeInv, Steps
  <2>1. proc = 5
    <3>1. proc = 1 \/ proc = 2 \/ proc = 3 \/ proc = 4 \/ proc = 5
      BY <2>0
    <3> QED BY <1>4, <3>1 DEF Register, InitProc
  <2>2. Due = Software \ {"pcidriver"} /\ Due' = Software
    BY <1>4, <2>0, <2>1, InitTaken, TakenNone DEF Register, Due
  <2>3. held' = held \cup {"pcidriver"} /\ "pcidriver" \in Software
    BY <1>4 DEF Register, Software
  <2> QED BY <1>4, <2>0, <2>2, <2>3 DEF Register, LifeInv, Steps
<1>5. CASE Plug
  <2>1. Due = Software /\ Due' = Software
    BY <1>5, TakenNone DEF Plug, Due
  <2> QED BY <1>5, <2>1 DEF Plug, LifeInv, Steps
<1> QED BY <1>1, <1>2, <1>3, <1>4, <1>5

(* ipc8_probe: a probe that fails gives back what it took. *)
LEMMA ProbeStepsInv ==
    ASSUME LifeInv, ProbeStep \/ ProbeFails \/ Alloc
    PROVE  LifeInv'
<1>0. phase = "probe" /\ proc \in 1..4 /\ ~board
      /\ Due = Software \cup TakenBefore(ProbeProc, proc)
  BY DEF ProbeStep, ProbeFails, Alloc, LifeInv, Steps, Due
<1>1. Len(ProbeProc) = 3
  BY DEF ProbeProc
<1>2. CASE ProbeStep
  <2>1. /\ Due' = Software \cup TakenBefore(ProbeProc, proc) \cup Taken(ProbeProc[proc])
        /\ proc \in 1..3
    BY <1>0, <1>1, <1>2, TakenStep DEF ProbeStep, Due
  <2> QED BY <1>0, <1>2, <2>1 DEF ProbeStep, LifeInv, Steps
<1>3. CASE ProbeFails
  <2>1. /\ Due' = Software /\ phase' = "in" /\ proc' = 0 /\ board' = board /\ leaks' = leaks
        /\ ipc8_pci' \in {"null", "valid", "dangling"}
    BY <1>0, <1>3 DEF ProbeFails, ProbeEnds, Due, LifeInv
  <2>2. missed' = missed /\ held' = held \ TakenBefore(ProbeProc, proc)
    BY <1>0, <1>3, TakenNone DEF ProbeFails, ProbeEnds, GiveBack, CleanProbe, LifeInv
  <2>3. TakenBefore(ProbeProc, proc) \cap Software = {}
    BY <1>0, ProbeTaken DEF Probed, Software
  <2> QED BY <1>0, <2>1, <2>2, <2>3 DEF LifeInv, Steps
<1>4. CASE Alloc
  <2>1. proc = 4 /\ Due = Software \cup Probed /\ Due' = Software \cup Probed
    BY <1>0, <1>1, <1>4, ProbeTaken, TakenNone DEF Alloc, Due
  <2> QED BY <1>0, <1>4, <2>1 DEF Alloc, LifeInv, Steps
<1> QED BY <1>2, <1>3, <1>4

(* alloc_pci_resource: what a failure leaves behind is counted as a leak. *)
LEMMA AllocStepsInv ==
    ASSUME LifeInv, AllocStep \/ AllocFails \/ Started
    PROVE  LifeInv'
<1>0. phase = "alloc" /\ proc \in 1..6 /\ ~board
      /\ Due = Software \cup Probed \cup TakenBefore(AllocProc, proc)
  BY DEF AllocStep, AllocFails, Started, LifeInv, Steps, Due
<1>1. Len(AllocProc) = 5
  BY DEF AllocProc
<1>2. CASE AllocStep
  <2>1. /\ Due' = Software \cup Probed \cup TakenBefore(AllocProc, proc) \cup Taken(AllocProc[proc])
        /\ proc \in 1..5
    BY <1>0, <1>1, <1>2, TakenStep DEF AllocStep, Due
  <2> QED BY <1>0, <1>2, <2>1 DEF AllocStep, LifeInv, Steps
<1>3. CASE AllocFails
  <2> DEFINE things == CleanAlloc(proc) \cup CleanProbe(Len(ProbeProc) + 1)
  <2>1. things = (TakenBefore(AllocProc, proc) \ {"workqueue"}) \cup Probed
    BY ProbeTaken DEF CleanAlloc, CleanProbe, ProbeProc
  <2>2. things \cap Software = {} /\ things \subseteq Due
    BY <1>0, <2>1, AllocTaken DEF Probed, Software, Hardware
  <2>3. PICK left \in SUBSET Partial(proc) :
            /\ held' = (held \ things) \cup left
            /\ missed' = missed \cup {<<"alloc", t>> : t \in things \ held}
    BY <1>3 DEF AllocFails
  <2> HIDE DEF things
  <2>4. left \subseteq Leftover
    BY DEF Partial, Leftover
  <2>5. missed' = missed
    BY <2>2, <2>3 DEF LifeInv
  <2>6. Due' = Software /\ phase' = "in" /\ proc' = 0 /\ board' = board /\ ipc8_pci' = "dangling"
        /\ leaks' = leaks + 1 /\ leaks' \in 0..LeakLimit
    BY <1>0, <1>3 DEF AllocFails, Due, LifeInv, LeakLimit
  <2>7. leaks' # 0
    BY <2>6 DEF LifeInv
  <2>8. held' \subseteq Software \cup Leftover /\ Software \subseteq held'
    BY <1>0, <2>1, <2>2, <2>3, <2>4 DEF LifeInv, Leftover
  <2> QED BY <1>0, <2>5, <2>6, <2>7, <2>8 DEF LifeInv, Steps
<1>4. CASE Started
  <2>1. proc = 6 /\ Due = Software \cup Probed \cup Hardware
    BY <1>0, <1>1, <1>4, AllocTaken DEF Started
  <2>2. Due' = Software \cup Probed \cup Hardware \cup Running
    BY <1>4 DEF Started, Due
  <2> QED BY <1>0, <1>4, <2>1, <2>2 DEF Started, LifeInv, Steps
<1> QED BY <1>2, <1>3, <1>4

(* ipc8_remove and ipc8_exit: every release is of something held. *)
LEMMA RemoveStepsInv ==
    ASSUME LifeInv, Remove("remove") \/ Remove("exit") \/ FreeStep \/ Unload \/ Exit
    PROVE  LifeInv'
<1> DEFINE Board == Probed \cup Hardware \cup Running
<1>1. CASE Remove("remove") \/ Remove("exit")
  <2>1. Due = Software \cup Board /\ Due' = Software \cup Board
    BY <1>1, FreeOrderFacts DEF Remove, Due
  <2> HIDE DEF Board
  <2> QED BY <1>1, <2>1 DEF Remove, LifeInv, Steps
<1>2. CASE FreeStep
  <2>0. /\ phase \in {"remove", "exit"} /\ board /\ proc \in 1..11
        /\ Due = Software \cup (Board \ Freed(proc))
    BY <1>2 DEF FreeStep, LifeInv, Steps, Due
  <2>1. Board \cap Software = {}
    BY DEF Probed, Hardware, Running, Software
  <2>2. /\ FreeOrder[proc] = {Order[proc]} /\ Order[proc] \in Board \ Freed(proc)
        /\ Freed(proc + 1) = Freed(proc) \cup {Order[proc]}
        /\ Freed(12) = Board /\ Len(FreeOrder) = 11
    BY <2>0, FreeOrderFacts
  <2> HIDE DEF Board
  <2>3. held' = held \ {Order[proc]} /\ missed' = missed /\ leaks' = leaks
    BY <1>2, <2>0, <2>2 DEF FreeStep, GiveBack, LifeInv
  <2>4. CASE proc = 11
    <3>1. board' = FALSE /\ ipc8_pci' = "dangling" /\ proc' = 0 /\ phase' \in {"in", "exit"}
      BY <1>2, <2>0, <2>2, <2>4 DEF FreeStep
    <3>2. Due' = Software
      BY <3>1 DEF Due
    <3>3. Freed(proc + 1) = Board
      BY <2>2, <2>4
    <3>4. Software \subseteq held' /\ held' \subseteq Software \cup (IF leaks = 0 THEN {} ELSE Leftover)
      BY <2>0, <2>1, <2>2, <2>3, <3>3 DEF LifeInv
    <3> QED BY <2>3, <3>1, <3>2, <3>4 DEF LifeInv, Steps
  <2>5. CASE proc # 11
    <3>1. proc' = proc + 1 /\ UNCHANGED <<phase, board, ipc8_pci>> /\ proc' \in 1..11
      BY <1>2, <2>0, <2>2, <2>5 DEF FreeStep
    <3>2. Due' = Software \cup (Board \ Freed(proc + 1))
      BY <2>0, <3>1 DEF Due, Board
    <3> QED BY <2>0, <2>1, <2>2, <2>3, <3>1, <3>2 DEF LifeInv, Steps
  <2> QED BY <2>4, <2>5
<1>3. CASE Unload
  <2>1. Due = Software /\ Due' = Software
    BY <1>3 DEF Unload, Due
  <2> QED BY <1>3, <2>1 DEF Unload, LifeInv, Steps
<1>4. CASE Exit
  <2>1. Due = Software /\ Due' = {}
    BY <1>4 DEF Exit, Due
  <2>2. held' = held \ Software /\ missed' = missed
    BY <1>4, <2>1 DEF Exit, GiveBack, LifeInv, Software
  <2> QED BY <1>4, <2>1, <2>2 DEF Exit, LifeInv, Steps
<1> QED BY <1>1, <1>2, <1>3, <1>4

(* The engines and the handlers: whoever runs is released before what it uses,
   but for the interrupt. *)
LEMMA UseInv ==
    ASSUME LifeInv, NEW who \in {"dma", "timer", "irq"}, Use(who)
    PROVE  LifeInv'
<1> DEFINE part == Probed \cup Hardware \cup Running
<1>0. who \in held /\ who \notin Software /\ who \notin Leftover
  BY DEF Use, Software, Leftover
<1>1. who \in Due
  BY <1>0 DEF LifeInv
<1>2. CASE ~board
  <2>1. phase = "alloc" /\ who \in Hardware
    BY <1>0, <1>1, <1>2, InitTaken, ProbeTaken, AllocTaken DEF LifeInv, Due, Steps, Probed, Hardware
  <2>2. who = "irq" /\ "ipc8_pci" \in Due
    BY <1>2, <2>1 DEF Due, Hardware, Probed
  <2> QED BY <2>2 DEF Use, Uses, LifeInv, Due, Steps
<1>3. CASE board
  <2>1. phase \in {"in", "remove", "exit"}
    BY <1>3 DEF LifeInv
  <2>2. CASE phase = "in"
    <3>1. {"dmabuf", "workqueue", "ipc8_pci", "iomem"} \subseteq Due
      BY <1>3, <2>2 DEF Due, Probed, Hardware, Running
    <3>2. Uses(who) \subseteq held
      BY <3>1 DEF Uses, LifeInv
    <3> QED BY <3>2 DEF Use, LifeInv, Due, Steps
  <2>3. CASE phase # "in"
    <3>1. proc \in 1..11 /\ Due = Software \cup (part \ Freed(proc)) /\ who \notin Freed(proc)
      BY <1>0, <1>1, <1>3, <2>1, <2>3 DEF LifeInv, Steps, Due
    <3>2. /\ Order[1] = "timer" /\ Order[2] = "workqueue" /\ Order[3] = "irq"
          /\ Order[5] = "dma" /\ Order[6] = "dmabuf" /\ Order[7] = "iomem" /\ Order[11] = "ipc8_pci"
      BY DEF Order
    <3>3. \A i \in 1..11 : Order[i] = who => proc <= i
      BY <3>1 DEF Freed
    <3>4. \A i, j \in 1..11 : Order[i] = Order[j] => i = j
      <4>1. \A n \in 1..11 : n = 1 \/ n = 2 \/ n = 3 \/ n = 4 \/ n = 5 \/ n = 6 \/ n = 7 \/ n = 8
                             \/ n = 9 \/ n = 10 \/ n = 11
        OBVIOUS
      <4> QED BY <4>1 DEF Order
    <3>5. \A i \in 1..11 : proc <= i => Order[i] \notin Freed(proc)
      BY <3>1, <3>4 DEF Freed
    <3>6. "dmabuf" \in part /\ "ipc8_pci" \in part /\ "workqueue" \in part /\ "iomem" \in part
      BY DEF Probed, Hardware
    <3>7. Uses(who) \ held \subseteq (IF who = "irq" THEN {"iomem", "workqueue"} ELSE {})
      <4>1. CASE who = "dma"
        BY <3>1, <3>2, <3>3, <3>5, <3>6, <4>1 DEF Uses, LifeInv
      <4>2. CASE who = "timer"
        BY <3>1, <3>2, <3>3, <3>5, <3>6, <4>2 DEF Uses, LifeInv
      <4>3. CASE who = "irq"
        BY <3>1, <3>2, <3>3, <3>5, <3>6, <4>3 DEF Uses, LifeInv
      <4> QED BY <4>1, <4>2, <4>3
    <3> QED BY <3>7 DEF Use, LifeInv, Due, Steps
  <2> QED BY <2>1, <2>2, <2>3
<1> QED BY <1>2, <1>3 DEF LifeInv

LEMMA LifeNextInv == LifeInv /\ [LifeNext]_lifeVars => LifeInv'
<1> SUFFICES ASSUME LifeInv, [LifeNext]_lifeVars PROVE LifeInv'
  OBVIOUS
<1>1. CASE LifeNext
  BY <1>1, InitStepsInv, ProbeStepsInv, AllocStepsInv, RemoveStepsInv, UseInv DEF LifeNext
<1>2. CASE UNCHANGED lifeVars
  BY <1>2 DEF lifeVars, LifeInv, Due, Steps
<1> QED BY <1>1, <1>2

(* Every step of loading, probing, removing and unloading is inside its list. *)
THEOREM LifeTypeCorrect == LifeSpec => []LifeTypeOK
<1>1. LifeInv => LifeTypeOK
  BY FreeOrderFacts DEF LifeInv, LifeTypeOK, Steps
<1> QED BY <1>1, LifeInitInv, LifeNextInv, PTL DEF LifeSpec

(* Whatever step fails, what is given back was held, nothing that runs outlives
   what it uses but the interrupt, and the unloaded driver holds nothing but what
   failed probes have leaked (ipc8_init, ipc8_probe, alloc_pci_resource,
   free_pci_resource). *)
THEOREM LifeAlwaysClean == LifeSpec => []LifeClean
<1>1. LifeInv => LifeClean
  <2> SUFFICES ASSUME LifeInv PROVE LifeClean
    OBVIOUS
  <2>1. phase = "out" => held \subseteq (IF leaks = 0 THEN {} ELSE {"workqueue", "iomem"})
    BY DEF LifeInv, Due, Leftover
  <2> QED BY <2>1 DEF LifeInv, LifeClean
<1> QED BY <1>1, LifeInitInv, LifeNextInv, PTL DEF LifeSpec

-----------------------------------------------------------------------------
(* The FRAM: addresses stay inside it, and the copy holds what the device
   holds. *)

WriteStates == [pc : {"idle", "device", "copy"}, addr : Nat, index : Nat, data : Seq(Words)]

(* A write under way has words left, and room for them behind its address and
   behind its index. *)
Fits(s) ==
    /\ Len(s.data) > 0
    /\ s.addr + Len(s.data) <= Reserved + UserLength
    /\ s.index + Len(s.data) <= Reserved + UserLength
Typed ==
    /\ fram \in [Address -> Words] /\ buffer \in [Address -> Words]
    /\ writes \in [FramWriters -> WriteStates]
    /\ \A w \in FramWriters : IF writes[w].pc = "idle" THEN writes[w] = Rest ELSE Fits(writes[w])
    /\ overlap \in BOOLEAN /\ shifted \in BOOLEAN

Alone == \A v, w \in FramWriters : writes[v].pc # "idle" /\ writes[w].pc # "idle" => v = w
Aligned == \A w \in FramWriters : writes[w].addr = writes[w].index
(* The word to be copied is the one that the device got. *)
Carried == \A w \in FramWriters :
               writes[w].pc = "copy" => fram[writes[w].addr] = Head(writes[w].data)
Copied == \A a \in Address :
              \/ buffer[a] = fram[a]
              \/ \E w \in FramWriters : writes[w].pc = "copy" /\ writes[w].addr = a
FramInv ==
    /\ Typed
    /\ ~overlap => Alone /\ Carried
    /\ ~shifted => Aligned
    /\ ~overlap /\ ~shifted => Copied

-----------------------------------------------------------------------------
(* The steps of its writers. *)

(* initialize_fram leaves the copy equal and nobody writing. *)
LEMMA FramInitInv == FramInit => FramInv
<1> SUFFICES ASSUME FramInit PROVE FramInv
  OBVIOUS
<1>1. Rest \in WriteStates /\ Rest.pc = "idle" /\ Rest.addr = Rest.index
  BY DEF Rest, WriteStates
<1> QED BY <1>1 DEF FramInit, FramInv, Typed, Alone, Aligned, Carried, Copied

(* What is left of the words to be written. *)
LEMMA TailFacts ==
    ASSUME NEW S, NEW q \in Seq(S), Len(q) > 0, Len(q) # 1
    PROVE  Tail(q) \in Seq(S) /\ Len(Tail(q)) = Len(q) - 1 /\ Len(q) - 1 > 0
OBVIOUS

(* A write that begins writes nothing yet; it is alone or the overlap is noted. *)
LEMMA BeginInv ==
    ASSUME FramInv, NEW w \in FramWriters, NEW s \in WriteStates, BeginWrite(w, s),
           s = Rest \/ (s.pc = "device" /\ Fits(s)),
           shifted' \in BOOLEAN, ~shifted' => ~shifted /\ s.addr = s.index,
           UNCHANGED <<fram, buffer>>
    PROVE  FramInv'
<1> USE DEF FramInv
<1>1. /\ writes[w] = Rest /\ Rest.pc = "idle"
      /\ writes' = [writes EXCEPT ![w] = s] /\ s.pc # "copy"
  BY DEF BeginWrite, Rest
<1>2. overlap' \in BOOLEAN /\ (~overlap' => ~overlap /\ \A v \in FramWriters : writes[v].pc = "idle")
  <2>1. NoWrite => \A v \in FramWriters : writes[v].pc = "idle"
    BY <1>1 DEF NoWrite
  <2>2. NoWrite \in BOOLEAN
    BY DEF NoWrite
  <2>3. overlap' = (overlap \/ ~NoWrite) /\ overlap \in BOOLEAN
    BY DEF BeginWrite, Typed
  <2> HIDE DEF NoWrite
  <2> QED BY <2>1, <2>2, <2>3
<1>3. Typed'
  <2>1. writes' \in [FramWriters -> WriteStates]
    BY <1>1 DEF Typed
  <2>2. ASSUME NEW v \in FramWriters
        PROVE  IF writes'[v].pc = "idle" THEN writes'[v] = Rest ELSE Fits(writes'[v])
    <3>1. CASE v = w
      BY <1>1, <3>1 DEF Typed
    <3>2. CASE v # w
      BY <1>1, <3>2 DEF Typed
    <3> QED BY <3>1, <3>2
  <2>3. fram' \in [Address -> Words] /\ buffer' \in [Address -> Words]
    BY DEF Typed
  <2>4. \A v \in FramWriters :
            IF writes'[v].pc = "idle" THEN writes'[v] = Rest ELSE Fits(writes'[v])
    BY <2>2
  <2> QED BY <1>2, <2>1, <2>3, <2>4 DEF Typed
<1>4. ~overlap' => Alone' /\ Carried'
  BY <1>1, <1>2 DEF Typed, Alone, Carried
<1>5. ~shifted' => Aligned'
  BY <1>1 DEF Typed, Aligned
<1>6. ~overlap' /\ ~shifted' => Copied'
  BY <1>1, <1>2 DEF Typed, Copied
<1> QED BY <1>3, <1>4, <1>5, <1>6

(* The loop of WriteFram writes from its offset to the end that its length
   names, inside the user area. *)
LEMMA WriteFramInv ==
    ASSUME FramInv, NEW w \in FramWriters, NEW offset \in 0..UserLength, NEW data \in Buffers,
           WriteFram(w, offset, data)
    PROVE  FramInv'
<1> USE FramAssumption
<1> DEFINE n == Rounds(offset, Len(data))
           s == IF n = 0 THEN Rest
                ELSE [pc |-> "device", addr |-> Reserved + Start(offset), index |-> Reserved,
                      data |-> SubSeq(data, 1, n)]
<1>1. PICK m \in 0..UserLength : data \in [1..m -> Words]
  BY DEF Buffers
<1>2. data \in Seq(Words) /\ Len(data) = m
  BY <1>1
<1>3. n \in 0..m /\ (n # 0 => offset + n = m)
  BY <1>2 DEF Rounds
<1>4. n # 0 => SubSeq(data, 1, n) \in Seq(Words) /\ Len(SubSeq(data, 1, n)) = n
  BY <1>2, <1>3
<1>5. s \in WriteStates /\ (s = Rest \/ (s.pc = "device" /\ Fits(s)))
  <2>1. CASE n = 0
    BY <2>1 DEF WriteStates, Rest
  <2>2. CASE n # 0
    <3>1. s = [pc |-> "device", addr |-> Reserved + offset, index |-> Reserved,
               data |-> SubSeq(data, 1, n)]
      BY <2>2 DEF Start
    <3> HIDE DEF n, s
    <3> QED BY <1>1, <1>3, <1>4, <2>2, <3>1 DEF WriteStates, Fits
  <2> QED BY <2>1, <2>2
<1>6. BeginWrite(w, s) /\ UNCHANGED <<fram, buffer>>
  BY DEF WriteFram
<1>7. shifted' = (shifted \/ offset # 0) /\ shifted \in BOOLEAN
  BY DEF WriteFram, FramInv, Typed
<1>8. ~shifted' => ~shifted /\ s.addr = s.index
  <2> SUFFICES ASSUME ~shifted' PROVE ~shifted /\ s.addr = s.index
    OBVIOUS
  <2>1. ~shifted /\ offset = 0
    BY <1>7, Zenon
  <2> QED BY <2>1 DEF Rest, Start
<1>9. shifted' \in BOOLEAN
  BY <1>7
<1> HIDE DEF s, n
<1> QED BY <1>5, <1>6, <1>8, <1>9, BeginInv

(* An attribute writes one word, anywhere. *)
LEMMA WriteSysInv ==
    ASSUME FramInv, NEW w \in FramWriters, NEW ofs \in Address, NEW word \in Words,
           WriteSys(w, ofs, word)
    PROVE  FramInv'
<1> DEFINE s == [pc |-> "device", addr |-> ofs, index |-> ofs, data |-> <<word>>]
<1>1. s \in WriteStates /\ s.pc = "device" /\ Fits(s)
  BY FramAssumption DEF WriteStates, Fits, Address
<1>2. s.addr = s.index
  OBVIOUS
<1>3. BeginWrite(w, s) /\ UNCHANGED <<fram, buffer, shifted>>
  BY DEF WriteSys
<1>4. shifted \in BOOLEAN
  BY DEF FramInv, Typed
<1> HIDE DEF s
<1> QED BY <1>1, <1>2, <1>3, <1>4, BeginInv

(* The device has the word, and the copy has not. *)
LEMMA WriteDeviceInv ==
    ASSUME FramInv, NEW w \in FramWriters, WriteDevice(w)
    PROVE  FramInv'
<1> USE FramAssumption DEF FramInv
<1> DEFINE s == writes[w]
<1>1. s \in WriteStates /\ Fits(s) /\ s.pc = "device"
  BY DEF WriteDevice, Typed
<1>2. Head(s.data) \in Words /\ s.addr \in Address
  BY <1>1 DEF WriteStates, Fits, Address
<1>3. /\ fram' = [fram EXCEPT ![s.addr] = Head(s.data)]
      /\ writes' = [writes EXCEPT ![w].pc = "copy"]
      /\ UNCHANGED <<buffer, overlap, shifted>>
  BY DEF WriteDevice
<1>4. [s EXCEPT !.pc = "copy"] \in WriteStates /\ Fits([s EXCEPT !.pc = "copy"])
  BY <1>1 DEF WriteStates, Fits
<1>5. /\ writes' \in [FramWriters -> WriteStates]
      /\ writes'[w] = [s EXCEPT !.pc = "copy"]
      /\ \A v \in FramWriters \ {w} : writes'[v] = writes[v]
  BY <1>3, <1>4 DEF Typed
<1>6. /\ writes'[w].pc = "copy" /\ writes'[w].addr = s.addr /\ writes'[w].index = s.index
      /\ writes'[w].data = s.data
  BY <1>1, <1>5 DEF WriteStates
<1> HIDE DEF s
<1>7. Typed'
  <2>1. fram' \in [Address -> Words] /\ buffer' \in [Address -> Words]
    BY <1>2, <1>3 DEF Typed
  <2>2. ASSUME NEW v \in FramWriters
        PROVE  IF writes'[v].pc = "idle" THEN writes'[v] = Rest ELSE Fits(writes'[v])
    BY <1>4, <1>5, <1>6 DEF Typed
  <2> QED BY <1>3, <1>5, <2>1, <2>2 DEF Typed
<1>8. ~overlap' => Alone' /\ Carried'
  <2> SUFFICES ASSUME ~overlap PROVE Alone' /\ Carried'
    BY <1>3
  <2>1. \A v \in FramWriters \ {w} : writes[v].pc = "idle"
    BY <1>1 DEF Alone, s
  <2>2. Alone'
    BY <1>5, <2>1 DEF Alone
  <2>3. fram'[s.addr] = Head(s.data)
    BY <1>2, <1>3 DEF Typed
  <2>4. Carried'
    BY <1>5, <1>6, <2>1, <2>3 DEF Carried
  <2> QED BY <2>2, <2>4
<1>9. ~shifted' => Aligned'
  BY <1>3, <1>5, <1>6 DEF Aligned, s
<1>10. ~overlap' /\ ~shifted' => Copied'
  <2> SUFFICES ASSUME ~overlap, ~shifted, NEW a \in Address
               PROVE  \/ buffer'[a] = fram'[a]
                      \/ \E v \in FramWriters : writes'[v].pc = "copy" /\ writes'[v].addr = a
    BY <1>3 DEF Copied
  <2>1. CASE a = s.addr
    BY <1>6, <2>1
  <2>2. CASE a # s.addr
    <3>1. fram'[a] = fram[a] /\ buffer'[a] = buffer[a]
      BY <1>3, <2>2 DEF Typed
    <3>2. ASSUME NEW v \in FramWriters, writes[v].pc = "copy", writes[v].addr = a
          PROVE  writes'[v].pc = "copy" /\ writes'[v].addr = a
      BY <1>1, <1>5, <3>2 DEF s
    <3> QED BY <3>1, <3>2 DEF Copied
  <2> QED BY <2>1, <2>2
<1> QED BY <1>7, <1>8, <1>9, <1>10

(* The copy catches up, and the loop ends or goes on. *)
LEMMA WriteCopyInv ==
    ASSUME FramInv, NEW w \in FramWriters, WriteCopy(w)
    PROVE  FramInv'
<1> USE FramAssumption DEF FramInv
<1> DEFINE s == writes[w]
           t == IF Len(s.data) = 1 THEN Rest ELSE NextRound(s)
<1>1. s \in WriteStates /\ Fits(s) /\ s.pc = "copy"
  BY DEF WriteCopy, Typed
<1>2. Head(s.data) \in Words /\ s.addr \in Address /\ s.index \in Address
  BY <1>1 DEF WriteStates, Fits, Address
<1>3. /\ buffer' = [buffer EXCEPT ![s.index] = Head(s.data)]
      /\ writes' = [writes EXCEPT ![w] = t]
      /\ UNCHANGED <<fram, overlap, shifted>>
  BY DEF WriteCopy
<1>4. /\ t \in WriteStates /\ t.pc # "copy"
      /\ IF t.pc = "idle" THEN t = Rest ELSE Fits(t)
      /\ s.addr = s.index => t.addr = t.index
  <2>1. CASE Len(s.data) = 1
    BY <2>1 DEF WriteStates, Rest
  <2>2. CASE Len(s.data) # 1
    <3>0. s.data \in Seq(Words) /\ Len(s.data) > 0
      BY <1>1 DEF WriteStates, Fits
    <3>1. /\ Tail(s.data) \in Seq(Words) /\ Len(Tail(s.data)) = Len(s.data) - 1
          /\ Len(s.data) - 1 > 0
      BY <3>0, <2>2, TailFacts
    <3>2. t = [pc |-> "device", addr |-> s.addr + 1, index |-> s.index + 1, data |-> Tail(s.data)]
      BY <2>2 DEF NextRound
    <3>3. s.addr \in Nat /\ s.index \in Nat
      BY <1>1 DEF WriteStates
    <3>4. s.addr + Len(s.data) <= Reserved + UserLength /\ s.index + Len(s.data) <= Reserved + UserLength
          /\ Len(s.data) \in Nat
      BY <1>1 DEF Fits, WriteStates
    <3> HIDE DEF s, t
    <3>5. t \in WriteStates /\ t.pc = "device" /\ t.addr = s.addr + 1 /\ t.index = s.index + 1
          /\ t.data = Tail(s.data)
      BY <3>1, <3>2, <3>3 DEF WriteStates
    <3>6. Fits(t)
      BY <3>1, <3>3, <3>4, <3>5 DEF Fits
    <3> QED BY <3>5, <3>6
  <2> QED BY <2>1, <2>2
<1> HIDE DEF t
<1>5. /\ writes' \in [FramWriters -> WriteStates] /\ writes'[w] = t
      /\ \A v \in FramWriters \ {w} : writes'[v] = writes[v]
  BY <1>3, <1>4 DEF Typed
<1>6. Typed'
  <2>1. fram' \in [Address -> Words] /\ buffer' \in [Address -> Words]
    <3> HIDE DEF s
    <3> QED BY <1>2, <1>3 DEF Typed
  <2>2. ASSUME NEW v \in FramWriters
        PROVE  IF writes'[v].pc = "idle" THEN writes'[v] = Rest ELSE Fits(writes'[v])
    BY <1>4, <1>5 DEF Typed
  <2> QED BY <1>3, <1>5, <2>1, <2>2 DEF Typed
<1>7. ~overlap' => Alone' /\ Carried'
  BY <1>1, <1>3, <1>4, <1>5 DEF Alone, Carried
<1>8. ~shifted' => Aligned'
  BY <1>3, <1>4, <1>5 DEF Aligned
<1>9. ~overlap' /\ ~shifted' => Copied'
  <2> SUFFICES ASSUME ~overlap, ~shifted, NEW a \in Address
               PROVE  \/ buffer'[a] = fram'[a]
                      \/ \E v \in FramWriters : writes'[v].pc = "copy" /\ writes'[v].addr = a
    BY <1>3 DEF Copied
  <2>1. s.addr = s.index /\ fram[s.addr] = Head(s.data)
    BY <1>1 DEF Aligned, Carried
  <2>2. \A v \in FramWriters \ {w} : writes[v].pc = "idle"
    BY <1>1 DEF Alone
  <2> HIDE DEF s
  <2>3. CASE a = s.index
    BY <1>2, <1>3, <2>1, <2>3 DEF Typed
  <2>4. CASE a # s.index
    <3>1. buffer'[a] = buffer[a]
      BY <1>3, <2>4 DEF Typed
    <3>2. buffer[a] = fram[a]
      BY <2>1, <2>2, <2>4 DEF Copied, s
    <3> QED BY <1>3, <3>1, <3>2
  <2> QED BY <2>3, <2>4
<1> QED BY <1>6, <1>7, <1>8, <1>9

(* A write that fails has written the device and the copy as far as it came. *)
LEMMA WriteBrokenInv ==
    ASSUME FramInv, NEW w \in FramWriters, WriteBroken(w)
    PROVE  FramInv'
<1> USE DEF FramInv
<1>1. Rest \in WriteStates /\ Rest.pc = "idle" /\ Rest.addr = Rest.index
  BY DEF Rest, WriteStates
<1>2. /\ writes' \in [FramWriters -> WriteStates] /\ writes'[w] = Rest
      /\ \A v \in FramWriters \ {w} : writes'[v] = writes[v]
      /\ writes[w].pc = "device" /\ UNCHANGED <<fram, buffer, overlap, shifted>>
  BY <1>1 DEF WriteBroken, Typed
<1>3. Typed'
  <2>1. ASSUME NEW v \in FramWriters
        PROVE  IF writes'[v].pc = "idle" THEN writes'[v] = Rest ELSE Fits(writes'[v])
    BY <1>1, <1>2 DEF Typed
  <2> QED BY <1>2, <2>1 DEF Typed
<1>4. ~overlap' => Alone' /\ Carried'
  BY <1>1, <1>2 DEF Alone, Carried
<1>5. ~shifted' => Aligned'
  BY <1>1, <1>2 DEF Aligned
<1>6. ~overlap' /\ ~shifted' => Copied'
  BY <1>1, <1>2 DEF Copied
<1> QED BY <1>3, <1>4, <1>5, <1>6

-----------------------------------------------------------------------------

(* Every step keeps the invariant. *)
LEMMA FramNextInv == FramInv /\ [FramNext]_framVars => FramInv'
<1> SUFFICES ASSUME FramInv, [FramNext]_framVars PROVE FramInv'
  OBVIOUS
<1>1. CASE FramNext
  BY <1>1, WriteFramInv, WriteSysInv, WriteDeviceInv, WriteCopyInv, WriteBrokenInv DEF FramNext
<1>2. CASE UNCHANGED framVars
  BY <1>2 DEF framVars, FramInv, Typed, Alone, Aligned, Carried, Copied
<1> QED BY <1>1, <1>2

(* No write, by an ioctl or an attribute, leaves the FRAM. *)
THEOREM FramTypeCorrect == FramSpec => []FramTypeOK
<1>1. FramInv => FramTypeOK
  <2> SUFFICES ASSUME FramInv, NEW w \in FramWriters
               PROVE  /\ writes[w].pc \in {"idle", "device", "copy"}
                      /\ writes[w].pc # "idle" =>
                            writes[w].addr \in Address /\ writes[w].index \in Address
    BY DEF FramInv, Typed, FramTypeOK
  <2>1. writes[w] \in WriteStates /\ (writes[w].pc # "idle" => Fits(writes[w]))
    BY DEF FramInv, Typed
  <2> QED BY <2>1, FramAssumption DEF WriteStates, Fits, Address
<1> QED BY <1>1, FramInitInv, FramNextInv, PTL DEF FramSpec

(* The driver's copy holds what the device holds but for the word under way, as
   long as writes neither overlap nor begin behind the start of the user area
   (ipc8_fram.c:124-147). *)
THEOREM FramStaysCached == FramSpec => []FramCached
<1>1. FramInv => FramCached
  <2> SUFFICES ASSUME FramInv, ~overlap, ~shifted, NEW a \in Address
               PROVE  \/ buffer[a] = fram[a]
                      \/ \E w \in FramWriters :
                            writes[w].pc = "copy" /\ writes[w].addr = a /\ writes[w].index = a
    BY DEF FramCached
  <2> QED BY DEF FramInv, Copied, Aligned
<1> QED BY <1>1, FramInitInv, FramNextInv, PTL DEF FramSpec

-----------------------------------------------------------------------------
(* The power output boards. *)

(* The lock is held by one call, or by the supply work it has queued. *)
Holding(w) == call[w].pc \in {"locked", "free"}
OneOwner ==
    /\ pending \/ supply # "idle" => lock # 0
    /\ pending => supply = "idle"
    /\ \A w \in Writers :
          Holding(w) => /\ lock # 0 /\ ~pending /\ supply = "idle"
                        /\ \A v \in Writers \ {w} : ~Holding(v)

Stopped == power = {} /\ ~output /\ ~check
SupplyShape ==
    /\ check => output /\ power # {} /\ ~pending /\ supply \in {"free", "idle"}
    /\ pending => ~output
    /\ supply = "on" => ~output /\ power # {}
    /\ supply \in {"sleep", "check"} => output /\ power # {}
    /\ \A w \in Writers : call[w].pc = "locked" /\ call[w].on => ~output
    /\ \A w \in Writers : call[w].pc = "free" => Stopped

(* A stop leaves no call and no work behind that would switch on again. *)
StopShape ==
    pmError \cap StopErrors # {} =>
        /\ Stopped
        /\ ~pending /\ supply \in {"idle", "free"}
        /\ \A w \in Writers : call[w].pc = "locked" => ~call[w].on

SeenNothing == \A w \in Writers : call[w].on => call[w].seen = {}

-----------------------------------------------------------------------------
(* Their types. *)

Calls == [pc : {"idle", "tested", "passed", "locked", "free"}, on : BOOLEAN, seen : SUBSET StopErrors]

(* The board check keeps its counters within their limits. *)
LEMMA CheckTypes ==
    ASSUME PobTypeOK, NEW bad \in SUBSET Slots, CheckPobState(bad),
           UNCHANGED <<switch, pfail, lock, call, workVars, detect, fault, stale>>
    PROVE  PobTypeOK'
<1> USE PobAssumption DEF PobTypeOK, CheckPobState, pmVars, workVars
<1>1. CASE ~check
  BY <1>1 DEF errorVars
<1>2. CASE check /\ ~CheckDue
  BY <1>2 DEF CheckDue
<1>3. CASE check /\ CheckDue
  <2> DEFINE over == {s \in bad : PobRetry <= retries[s]}
  <2>1. retries' = [s \in Slots |-> IF s \in bad \ over THEN retries[s] + 1 ELSE 0]
    BY <1>3
  <2>2. \A s \in bad \ over : retries[s] + 1 \in 0..PobRetry
    OBVIOUS
  <2>3. retries' \in [Slots -> 0..PobRetry]
    <3> HIDE DEF over
    <3> QED BY <2>1, <2>2
  <2>4. checkCount' = 0 /\ isPob' = isPob
    BY <1>3
  <2>5. StopOn(IF over # {} THEN {"STATE"} ELSE {})
    BY <1>3
  <2>6. pmError' \subseteq StopErrors \cup {"TIMEOUT", "UNKNOWN_ID"}
    BY <2>5 DEF StopOn, StopErrors
  <2>7. {output', check', ovp'} \subseteq BOOLEAN /\ power' \subseteq Slots
    BY <2>5 DEF StopOn, StopPobSupply
  <2> QED BY <2>3, <2>4, <2>6, <2>7
<1> QED BY <1>1, <1>2, <1>3

(* Reading the boards keeps the locals of the detection within their limits. *)
LEMMA DetectTypes == PobTypeOK /\ Detect => PobTypeOK'
<1> SUFFICES ASSUME PobTypeOK, Detect PROVE PobTypeOK'
  OBVIOUS
<1> USE PobAssumption DEF PobTypeOK
<1>1. PICK now \in Boards : DetectRead(now)
  BY DEF Detect
<1> DEFINE same == IF now = detect.before THEN detect.same + 1 ELSE 1
           changes == IF now = detect.before THEN detect.changes ELSE detect.changes + 1
<1>2. \/ DetectDone /\ EnablePowerOutputBoard(now)
      \/ DetectDone /\ isPob' = {} /\ switch' = {} /\ pmError' = pmError \cup {"TIMEOUT"}
      \/ /\ ~(now = detect.before /\ I2cCheck <= same)
         /\ ~(now # detect.before /\ I2cRetry <= changes)
         /\ detect' = [pc |-> "read", before |-> now, same |-> same, changes |-> changes]
         /\ UNCHANGED <<isPob, switch, pmError>>
  BY <1>1, Zenon DEF DetectRead
<1>3. isPob' \subseteq Slots /\ switch' \subseteq Slots
      /\ pmError' \subseteq StopErrors \cup {"TIMEOUT", "UNKNOWN_ID"}
  BY <1>2 DEF EnablePowerOutputBoard
<1>4. detect' \in [pc : {"read", "done"}, before : Boards, same : 0..I2cCheck, changes : 0..I2cRetry]
  <2>1. NoBoards \in Boards
    BY DEF NoBoards, Boards, Ids
  <2>2. CASE DetectDone
    BY <2>1, <2>2 DEF DetectDone, DetectFrom
  <2>3. CASE ~(now = detect.before /\ I2cCheck <= same)
             /\ ~(now # detect.before /\ I2cRetry <= changes)
             /\ detect' = [pc |-> "read", before |-> now, same |-> same, changes |-> changes]
    <3>1. same \in 0..I2cCheck /\ changes \in 0..I2cRetry
      BY <2>3
    <3> QED BY <2>3, <3>1
  <2> QED BY <1>2, <2>2, <2>3
<1> QED BY <1>3, <1>4 DEF Detect, workVars

(* A step of a writer leaves everything but its own call, the lock, the queue
   and what a stop writes. *)
LEMMA WriteTypes ==
    ASSUME PobTypeOK, NEW w \in Writers, Write(w)
    PROVE  PobTypeOK'
<1> USE PobAssumption DEF PobTypeOK, WriterUnchanged, StopUnchanged, errorVars
<1>1. call \in [Writers -> Calls]
  BY DEF Calls
<1>2. call' \in [Writers -> Calls]
  <2>0. \A c \in Calls, p \in {"idle", "tested", "passed", "locked", "free"} :
            [c EXCEPT !.pc = p] \in Calls
    BY DEF Calls
  <2>1. Idle \in Calls
    BY DEF Idle, Calls
  <2>2. ASSUME NEW on \in BOOLEAN, Begin(w, on) PROVE call' \in [Writers -> Calls]
    <3>1. [pc |-> "tested", on |-> on, seen |-> IF on THEN pmError \cap StopErrors ELSE {}] \in Calls
      BY DEF Calls
    <3> QED BY <1>1, <2>2, <3>1 DEF Begin
  <2>3. CASE LockRead(w)
    <3>1. [call[w] EXCEPT !.pc = "passed"] \in Calls
      BY <1>1, <2>0
    <3> QED BY <1>1, <2>1, <2>3, <3>1 DEF LockRead
  <2>4. CASE LockInc(w)
    <3>1. [call[w] EXCEPT !.pc = "locked"] \in Calls
      BY <1>1, <2>0
    <3> QED BY <1>1, <2>4, <3>1 DEF LockInc
  <2>5. CASE TurnOn(w)
    BY <1>1, <2>1, <2>5 DEF TurnOn
  <2>6. CASE TurnOff(w)
    <3>1. [call[w] EXCEPT !.pc = "free"] \in Calls
      BY <1>1, <2>0
    <3> QED BY <1>1, <2>6, <3>1 DEF TurnOff
  <2>7. CASE OffFree(w)
    BY <1>1, <2>1, <2>7 DEF OffFree
  <2> QED BY <2>2, <2>3, <2>4, <2>5, <2>6, <2>7 DEF Write, Finish
<1>3. UNCHANGED <<isPob, checkCount, retries, switch, pmError, pfail, supply, detect, fault>>
  BY DEF Write, Finish, Begin, LockRead, LockInc, TurnOn, TurnOff, OffFree
<1>4. {output', check', ovp'} \subseteq BOOLEAN /\ power' \subseteq Slots
  BY DEF Write, Finish, Begin, LockRead, LockInc, TurnOn, TurnOff, OffFree, StopPobSupply
<1>5. lock' \in Nat /\ {pending', stale'} \subseteq BOOLEAN
  <2>1. Outdated(w) \in BOOLEAN
    BY DEF Outdated
  <2>2. stale' \in {stale, stale \/ Outdated(w)}
    BY <2>1, Zenon DEF Write, Finish, Begin, LockRead, LockInc, TurnOn, TurnOff, OffFree
  <2>3. stale' \in BOOLEAN
    <3> HIDE DEF Outdated
    <3> QED BY <2>1, <2>2
  <2>4. lock' \in {lock, lock + 1, 0}
    BY Zenon DEF Write, Finish, Begin, LockRead, LockInc, TurnOn, TurnOff, OffFree
  <2>5. pending' \in {pending, TRUE}
    BY Zenon DEF Write, Finish, Begin, LockRead, LockInc, TurnOn, TurnOff, OffFree
  <2>6. lock' \in Nat
    BY <2>4
  <2>7. pending \in BOOLEAN
    BY Zenon
  <2>8. pending' \in BOOLEAN
    BY <2>5, <2>7, Zenon
  <2> QED BY <2>3, <2>6, <2>8, Zenon
<1> QED BY <1>2, <1>3, <1>4, <1>5 DEF Calls

(* What alloc_pci_resource leaves has its type. *)
LEMMA InitTypes == PobInit => PobTypeOK
<1> USE PobAssumption DEF PobInit, PobTypeOK
<1> SUFFICES ASSUME PobInit PROVE PobTypeOK
  OBVIOUS
<1>1. retries \in [Slots -> 0..PobRetry] /\ checkCount \in 0..PobCheck - 1
  OBVIOUS
<1>2. call \in [Writers -> [pc : {"idle", "tested", "passed", "locked", "free"}, on : BOOLEAN,
                           seen : SUBSET StopErrors]]
  BY DEF Idle
<1>3. detect \in [pc : {"read", "done"}, before : Boards, same : 0..I2cCheck, changes : 0..I2cRetry]
  BY DEF DetectFrom, NoBoards, Boards, Ids
<1> QED BY <1>1, <1>2, <1>3 DEF Faults

(* Every step keeps the types. *)
LEMMA NextTypes == PobTypeOK /\ [PobNext]_pobVars => PobTypeOK'
<1> SUFFICES ASSUME PobTypeOK, [PobNext]_pobVars PROVE PobTypeOK'
  OBVIOUS
<1>1. CASE Interrupt
  <2>1. pmError' \subseteq StopErrors \cup {"TIMEOUT", "UNKNOWN_ID"}
    BY <1>1 DEF Interrupt, StopOn, InterruptErrors, StopErrors, PobTypeOK
  <2>2. {output', check', ovp'} \subseteq BOOLEAN /\ power' \subseteq Slots
    BY <1>1 DEF Interrupt, StopOn, StopPobSupply, PobTypeOK
  <2>3. pfail' \in BOOLEAN
    BY <1>1 DEF Interrupt, PobTypeOK
  <2> QED BY <1>1, <2>1, <2>2, <2>3 DEF Interrupt, PobTypeOK, workVars
<1>2. CASE Timer100ms
  <2>1. PICK bad \in SUBSET (IF fault = "board" THEN {FaultSlot} ELSE {}) : CheckPobState(bad)
    BY <1>2 DEF Timer100ms
  <2>2. bad \in SUBSET Slots
    BY PobAssumption
  <2> QED BY <1>2, <2>1, <2>2, CheckTypes DEF Timer100ms
<1>3. CASE Detect
  BY <1>3, DetectTypes
<1>4. CASE Supply
  <2> USE <1>4 DEF PobTypeOK, SupplyUnchanged, errorVars
  <2>1. UNCHANGED <<isPob, checkCount, retries, switch, pmError, pfail, call, detect, fault, stale>>
    BY DEF Supply, SupplyBegin, SupplyOutput, SupplyOvp, SupplyCheck, SupplyFree
  <2>2. {output', check', ovp', pending'} \subseteq BOOLEAN /\ power' \subseteq Slots
    BY DEF Supply, SupplyBegin, SupplyOutput, SupplyOvp, SupplyCheck, SupplyFree, SupplyCheckOn
  <2>3. lock' \in Nat /\ supply' \in {"idle", "on", "sleep", "check", "free"}
    BY DEF Supply, SupplyBegin, SupplyOutput, SupplyOvp, SupplyCheck, SupplyFree, SupplyCheckOn, FreeLock
  <2> QED BY <2>1, <2>2, <2>3
<1>5. CASE Break
  BY <1>5 DEF Break, PobTypeOK, Faults, pmVars, portVars, errorVars, workVars
<1>6. CASE \E w \in Writers : Write(w)
  BY <1>6, WriteTypes
<1>7. CASE UNCHANGED pobVars
  BY <1>7 DEF PobTypeOK, pobVars, pmVars, portVars, errorVars, workVars
<1> QED BY <1>1, <1>2, <1>3, <1>4, <1>5, <1>6, <1>7 DEF PobNext

(* Counters, locals and sets stay in their types for all limits. *)
THEOREM PobTypeCorrect == PobSpec => []PobTypeOK
BY InitTypes, NextTypes, PTL DEF PobSpec

-----------------------------------------------------------------------------
(* Their lock and their stop, action by action. *)

Shape == OneOwner /\ SupplyShape /\ StopShape

(* What a check finds is recorded with a stop, and without a stop nothing changes. *)
LEMMA StopKeepsShape ==
    ASSUME Shape, NEW errors, StopOn(errors),
           errors # {} => check, errors \subseteq StopErrors,
           UNCHANGED <<lock, call, pending, supply>>
    PROVE  Shape'
<1> USE DEF Shape, Holding
<1>1. OneOwner'
  BY DEF OneOwner
<1>2. CASE errors = {}
  <2>1. UNCHANGED <<output, check, power, pmError>>
    BY <1>2 DEF StopOn
  <2> QED BY <1>1, <2>1 DEF SupplyShape, StopShape, Stopped
<1>3. CASE errors # {}
  <2>1. check /\ output /\ ~pending /\ supply \in {"free", "idle"}
    BY <1>3 DEF SupplyShape
  <2>2. Stopped'
    BY <1>3 DEF StopOn, StopPobSupply, Stopped
  <2>3. \A w \in Writers : ~(call[w].pc = "locked" /\ call[w].on)
    BY <2>1 DEF SupplyShape
  <2> QED BY <1>1, <2>1, <2>2, <2>3 DEF SupplyShape, StopShape, Stopped
<1> QED BY <1>2, <1>3

(* The interrupt stops the boards only while their check is on. *)
LEMMA InterruptShape == Shape /\ Interrupt => Shape'
<1> SUFFICES ASSUME Shape, Interrupt PROVE Shape'
  OBVIOUS
<1>1. InterruptErrors # {} => check
  BY DEF InterruptErrors
<1>2. InterruptErrors \subseteq StopErrors
  BY DEF InterruptErrors, StopErrors
<1> QED BY <1>1, <1>2, StopKeepsShape DEF Interrupt, workVars

(* So does the check of the boards' state. *)
LEMMA TimerShape == Shape /\ Timer100ms => Shape'
<1> SUFFICES ASSUME Shape, Timer100ms PROVE Shape'
  OBVIOUS
<1>1. PICK bad : CheckPobState(bad)
  BY DEF Timer100ms
<1>2. UNCHANGED <<lock, call, pending, supply>>
  BY DEF Timer100ms, workVars
<1>3. CASE check /\ CheckDue
  <2>1. PICK errors \in SUBSET {"STATE"} : StopOn(errors)
    BY <1>1, <1>3 DEF CheckPobState
  <2> QED BY <1>2, <1>3, <2>1, StopKeepsShape DEF StopErrors
<1>4. CASE ~(check /\ CheckDue)
  <2>1. UNCHANGED <<output, check, power, pmError>>
    BY <1>1, <1>4 DEF CheckPobState, pmVars
  <2> QED BY <1>2, <2>1 DEF Shape, OneOwner, SupplyShape, StopShape, Stopped, Holding
<1> QED BY <1>3, <1>4

(* The detection touches neither the lock nor the supply. *)
LEMMA DetectShape == Shape /\ Detect => Shape'
<1> SUFFICES ASSUME Shape, Detect PROVE Shape'
  OBVIOUS
<1>1. pmError' \cap StopErrors = pmError \cap StopErrors
  BY DEF Detect, DetectRead, EnablePowerOutputBoard, StopErrors
<1>2. UNCHANGED <<output, check, power, lock, call, pending, supply>>
  BY DEF Detect, workVars
<1> QED BY <1>1, <1>2 DEF Shape, OneOwner, SupplyShape, StopShape, Stopped, Holding

(* The supply work owns the lock from the queue to its end; an overvoltage or a
   blown fuse can end it only after its last store. *)
LEMMA SupplyKeepsShape == Shape /\ Supply => Shape'
<1> SUFFICES ASSUME Shape, Supply PROVE Shape'
  OBVIOUS
<1> USE DEF Shape, Holding, SupplyUnchanged, errorVars
<1>0. UNCHANGED <<call, pmError>>
  BY DEF Supply, SupplyBegin, SupplyOutput, SupplyOvp, SupplyCheck, SupplyFree
<1>1. CASE SupplyBegin
  <2>1. OneOwner'
    BY <1>0, <1>1 DEF SupplyBegin, OneOwner
  <2>2. SupplyShape' /\ StopShape'
    BY <1>0, <1>1 DEF SupplyBegin, SupplyShape, StopShape, Stopped, OneOwner
  <2> QED BY <2>1, <2>2
<1>2. CASE SupplyOutput
  BY <1>0, <1>2 DEF SupplyOutput, OneOwner, SupplyShape, StopShape, Stopped
<1>3. CASE SupplyOvp
  BY <1>0, <1>3 DEF SupplyOvp, OneOwner, SupplyShape, StopShape, Stopped
<1>4. CASE SupplyCheck
  BY <1>0, <1>4 DEF SupplyCheck, SupplyCheckOn, OneOwner, SupplyShape, StopShape, Stopped
<1>5. CASE SupplyFree
  BY <1>0, <1>5 DEF SupplyFree, FreeLock, OneOwner, SupplyShape, StopShape, Stopped
<1> QED BY <1>1, <1>2, <1>3, <1>4, <1>5 DEF Supply

(* A call that asks for power has seen no stop when it begins. *)
LEMMA WriteSeen ==
    ASSUME PobTypeOK, SeenNothing, NEW w \in Writers, Write(w)
    PROVE  SeenNothing'
<1> USE DEF PobTypeOK, SeenNothing
<1>1. ASSUME NEW on \in BOOLEAN, Begin(w, on) PROVE SeenNothing'
  <2>1. on => pmError = {} \/ output = on
    BY <1>1 DEF Begin, Refusal
  <2> QED BY <1>1, <2>1 DEF Begin, Refusal
<1>2. CASE Finish(w)
  BY <1>2 DEF Finish, LockRead, LockInc, TurnOn, TurnOff, OffFree, Idle
<1> QED BY <1>1, <1>2 DEF Write

(* A call that takes the lock on tests that still hold keeps the shape. *)
LEMMA WriteShape ==
    ASSUME PobTypeOK, SeenNothing, Shape, ~stale', NEW w \in Writers, Write(w)
    PROVE  Shape'
<1> USE DEF PobTypeOK, Shape, Holding, WriterUnchanged, StopUnchanged, errorVars
<1>1. ASSUME NEW on \in BOOLEAN, Begin(w, on) PROVE Shape'
  BY <1>1 DEF Begin, OneOwner, SupplyShape, StopShape, Stopped
<1>2. CASE LockRead(w)
  BY <1>2 DEF LockRead, Idle, OneOwner, SupplyShape, StopShape, Stopped
<1>3. CASE LockInc(w)
  <2>1. lock = 0 /\ (call[w].on => ~output /\ pmError \cap StopErrors = {})
    BY <1>3 DEF LockInc, Outdated, SeenNothing
  <2>2. OneOwner'
    BY <1>3, <2>1 DEF LockInc, OneOwner
  <2>3. SupplyShape' /\ StopShape'
    BY <1>3, <2>1 DEF LockInc, SupplyShape, StopShape, Stopped
  <2> QED BY <2>2, <2>3
<1>4. CASE TurnOn(w)
  BY <1>4 DEF TurnOn, Idle, OneOwner, SupplyShape, StopShape, Stopped
<1>5. CASE TurnOff(w)
  BY <1>5 DEF TurnOff, StopPobSupply, OneOwner, SupplyShape, StopShape, Stopped
<1>6. CASE OffFree(w)
  BY <1>6 DEF OffFree, Idle, OneOwner, SupplyShape, StopShape, Stopped
<1> QED BY <1>1, <1>2, <1>3, <1>4, <1>5, <1>6 DEF Write, Finish

-----------------------------------------------------------------------------
PobInv == PobTypeOK /\ SeenNothing /\ (~stale => Shape)

(* At the start nothing is on and nobody holds the lock. *)
LEMMA InitInv == PobInit => PobInv
<1> SUFFICES ASSUME PobInit PROVE PobInv
  OBVIOUS
<1>1. PobTypeOK
  BY InitTypes
<1>2. SeenNothing /\ Shape
  BY DEF PobInit, Idle, SeenNothing, Shape, OneOwner, SupplyShape, StopShape, Stopped, Holding
<1> QED BY <1>1, <1>2 DEF PobInv

(* Every step keeps the invariant. *)
LEMMA NextInv == PobInv /\ [PobNext]_pobVars => PobInv'
<1> SUFFICES ASSUME PobInv, [PobNext]_pobVars PROVE PobInv'
  OBVIOUS
<1>1. PobTypeOK'
  BY NextTypes DEF PobInv
<1>2. CASE \E w \in Writers : Write(w)
  <2>1. PICK w \in Writers : Write(w)
    BY <1>2
  <2>2. SeenNothing'
    BY <2>1, WriteSeen DEF PobInv
  <2>3. ~stale' => ~stale
    BY <2>1 DEF Write, Finish, Begin, LockRead, LockInc, TurnOn, TurnOff, OffFree
  <2> QED BY <1>1, <2>1, <2>2, <2>3, WriteShape DEF PobInv
<1>3. CASE Interrupt \/ Timer100ms \/ Detect \/ Supply
  <2>1. UNCHANGED <<call, stale>>
    BY <1>3 DEF Interrupt, Timer100ms, Detect, Supply, SupplyUnchanged,
                SupplyBegin, SupplyOutput, SupplyOvp, SupplyCheck, SupplyFree
  <2>2. Shape => Shape'
    BY <1>3, InterruptShape, TimerShape, DetectShape, SupplyKeepsShape
  <2> QED BY <1>1, <2>1, <2>2 DEF PobInv, SeenNothing
<1>4. CASE Break \/ UNCHANGED pobVars
  <2>1. UNCHANGED <<output, check, power, pmError, lock, call, pending, supply, stale>>
    BY <1>4 DEF Break, pobVars, pmVars, portVars, errorVars, workVars
  <2> QED BY <1>1, <2>1
          DEF PobInv, SeenNothing, Shape, OneOwner, SupplyShape, StopShape, Stopped, Holding
<1> QED BY <1>2, <1>3, <1>4 DEF PobNext

(* Unless a writer took the lock on tests that were out of date, the error check
   is on only while the boards are, and what a check has stopped stays off
   (ipc8_pm.c:196). *)
THEOREM StopStaysFinal == PobSpec => []StopIsFinal
<1>1. PobInv => StopIsFinal
  BY DEF PobInv, Shape, SupplyShape, StopShape, Stopped, StopIsFinal
<1> QED BY <1>1, InitInv, NextInv, PTL DEF PobSpec

-----------------------------------------------------------------------------
(* The lock has an owner even when writers have raced for it. *)

(* A writer keeps the lock until it has queued the work or released it. *)
LEMMA OwnerStep == PobTypeOK /\ LockHasOwner /\ [PobNext]_pobVars => LockHasOwner'
<1> SUFFICES ASSUME PobTypeOK, LockHasOwner, [PobNext]_pobVars PROVE LockHasOwner'
  OBVIOUS
<1>1. CASE \E w \in Writers : Write(w)
  <2>1. PICK w \in Writers : Write(w)
    BY <1>1
  <2> USE DEF PobTypeOK, LockHasOwner, WriterUnchanged
  <2>2. ASSUME NEW on \in BOOLEAN, Begin(w, on) PROVE LockHasOwner'
    BY <2>2 DEF Begin
  <2>3. CASE LockRead(w)
    BY <2>3 DEF LockRead, Idle
  <2>4. CASE LockInc(w)
    BY <2>4 DEF LockInc
  <2>5. CASE TurnOn(w)
    BY <2>5 DEF TurnOn
  <2>6. CASE TurnOff(w)
    BY <2>6 DEF TurnOff
  <2>7. CASE OffFree(w)
    BY <2>7 DEF OffFree
  <2> QED BY <2>1, <2>2, <2>3, <2>4, <2>5, <2>6, <2>7 DEF Write, Finish
<1>2. CASE Supply
  <2>1. lock' = 0 \/ (lock' = lock /\ supply' # "idle")
    BY <1>2 DEF Supply, SupplyBegin, SupplyOutput, SupplyOvp, SupplyCheck, SupplyFree,
                SupplyCheckOn, FreeLock
  <2> QED BY <2>1 DEF LockHasOwner
<1>3. CASE Interrupt \/ Timer100ms \/ Detect \/ Break \/ UNCHANGED pobVars
  <2>1. UNCHANGED <<lock, call, pending, supply>>
    BY <1>3 DEF Interrupt, Timer100ms, Detect, Break, pobVars, workVars
  <2> QED BY <2>1 DEF LockHasOwner
<1> QED BY <1>1, <1>2, <1>3 DEF PobNext

(* Somebody is left to release the lock whenever it is taken (ipc8.c:805). *)
THEOREM LockAlwaysOwned == PobSpec => []LockHasOwner
<1>1. PobInit => LockHasOwner
  BY DEF PobInit, LockHasOwner
<1> QED BY <1>1, InitTypes, NextTypes, OwnerStep, PTL DEF PobSpec
=============================================================================
