------------------------------ MODULE DriverLife ------------------------------
(***************************************************************************)
(* The life of the driver: loading the module and its steps (INIT_PROC),   *)
(* the probe of the board (PROBE_PROC) and of its resources (ALLOC_PROC),  *)
(* the removal of the board and the unloading.  Each step may fail, and    *)
(* what an earlier step took is then given back in reverse.  Meanwhile the *)
(* board may raise its (shared) interrupt and the timers tick.             *)
(*                                                                         *)
(* A resource is held or not; "dma" and "monitor" are the engines of the   *)
(* board that run by themselves.                                           *)
(***************************************************************************)
EXTENDS Integers, Sequences

VARIABLES
    phase,          \* what is under way: "out", "init", "probe", "alloc", "in", "remove", "exit"
    proc,           \* the step of it, proc of the code
    held,           \* resources held
    board,          \* the PCI device is bound to the driver
    ipc8_pci,       \* the pointer of that name: "null", "valid" or "dangling"
    missed,         \* history: <<who, what>>: used, or given back, and not held
    leaks           \* history: how many probes failed past the work queue

lifeVars == <<phase, proc, held, board, ipc8_pci, missed, leaks>>

LeakLimit == 2      \* bound: probes that fail, within one run of the model

(* The steps, in the order of the three enumerations of ipc8.h. *)
InitProc  == <<"class", "chrdev", "cdev", "device", "pcidriver">>
ProbeProc == <<"ipc8_pci", "fram_buffer", "pcienable">>
AllocProc == <<"regions", "irq", "iomem", "dmabuf", "modules">>
Running == {"dma", "monitor", "timer"}

(* What a step takes; the second of AllocProc creates the work queue as well. *)
Taken(step) == IF step = "irq" THEN {"workqueue", "irq"}
               ELSE IF step \in {"pcidriver", "modules"} THEN {} ELSE {step}
TakenBefore(steps, n) == UNION {Taken(steps[i]) : i \in 1..(n - 1)}

(* Give back what of "things" there is; what is not held is missed. *)
GiveBack(who, things) ==
    /\ held' = held \ things
    /\ missed' = missed \cup {<<who, t>> : t \in things \ held}

-----------------------------------------------------------------------------
(* ipc8_init *)
Load ==
    /\ phase = "out" /\ phase' = "init" /\ proc' = 1
    /\ UNCHANGED <<held, board, ipc8_pci, missed, leaks>>
InitStep ==
    /\ phase = "init" /\ InitProc[proc] # "pcidriver"
    /\ held' = held \cup Taken(InitProc[proc])
    /\ proc' = proc + 1
    /\ UNCHANGED <<phase, board, ipc8_pci, missed, leaks>>
CleanInit(n) == TakenBefore(InitProc, n)
InitFails ==
    /\ phase = "init"
    /\ GiveBack("init", CleanInit(proc))
    /\ phase' = "out" /\ proc' = 0
    /\ UNCHANGED <<board, ipc8_pci, leaks>>
(* pci_register_driver: the board, if there is one, is probed from within; a
   probe that fails leaves the driver registered. *)
Register ==
    /\ phase = "init" /\ InitProc[proc] = "pcidriver"
    /\ held' = held \cup {"pcidriver"}
    /\ \/ phase' = "probe" /\ proc' = 1
       \/ phase' = "in" /\ proc' = 0
    /\ UNCHANGED <<board, ipc8_pci, missed, leaks>>
(* The board comes later, or again. *)
Plug ==
    /\ phase = "in" /\ ~board
    /\ phase' = "probe" /\ proc' = 1
    /\ UNCHANGED <<held, board, ipc8_pci, missed, leaks>>

(* ipc8_probe *)
ProbeStep ==
    /\ phase = "probe" /\ proc <= Len(ProbeProc)
    /\ held' = held \cup Taken(ProbeProc[proc])
    /\ ipc8_pci' = IF proc = 1 THEN "valid" ELSE ipc8_pci
    /\ proc' = proc + 1
    /\ UNCHANGED <<phase, board, missed, leaks>>
CleanProbe(n) == TakenBefore(ProbeProc, n)
ProbeEnds(who, things) ==
    /\ GiveBack(who, things)
    /\ ipc8_pci' = IF "ipc8_pci" \in things THEN "dangling" ELSE ipc8_pci
    /\ phase' = "in" /\ proc' = 0
ProbeFails ==
    /\ phase = "probe" /\ proc <= Len(ProbeProc)
    /\ IF proc = 1
       THEN ipc8_pci' = "null" /\ phase' = "in" /\ proc' = 0 /\ UNCHANGED <<held, missed>>
       ELSE ProbeEnds("probe", CleanProbe(proc))
    /\ UNCHANGED <<board, leaks>>

(* alloc_pci_resource *)
Alloc ==
    /\ phase = "probe" /\ proc = Len(ProbeProc) + 1
    /\ phase' = "alloc" /\ proc' = 1
    /\ UNCHANGED <<held, board, ipc8_pci, missed, leaks>>
AllocStep ==
    /\ phase = "alloc" /\ proc <= Len(AllocProc)
    /\ held' = held \cup Taken(AllocProc[proc])
    /\ proc' = proc + 1
    /\ UNCHANGED <<phase, board, ipc8_pci, missed, leaks>>
(* The clean-up, in both functions.  The work queue is left, and so are the
   areas of iomem that a failing step has mapped. *)
CleanAlloc(n) == TakenBefore(AllocProc, n) \ {"workqueue"}
Partial(n) == IF AllocProc[n] = "irq" THEN {"workqueue"}
              ELSE IF AllocProc[n] = "iomem" THEN {"iomem"} ELSE {}
AllocFails ==
    /\ phase = "alloc" /\ proc <= Len(AllocProc) /\ leaks < LeakLimit
    /\ \E left \in SUBSET Partial(proc) :
          LET things == CleanAlloc(proc) \cup CleanProbe(Len(ProbeProc) + 1)
          IN  /\ "irq" = AllocProc[proc] => left = Partial(proc)
              /\ held' = (held \ things) \cup left
              /\ missed' = missed \cup {<<"alloc", t>> : t \in things \ held}
    /\ ipc8_pci' = "dangling"
    /\ phase' = "in" /\ proc' = 0
    /\ leaks' = leaks + 1
    /\ UNCHANGED board
Started ==
    /\ phase = "alloc" /\ proc = Len(AllocProc) + 1
    /\ held' = held \cup Running
    /\ board' = TRUE /\ phase' = "in" /\ proc' = 0
    /\ UNCHANGED <<ipc8_pci, missed, leaks>>

-----------------------------------------------------------------------------
(* ipc8_remove, free_pci_resource: the groups of releases, in order.  The timers
   and the work queue go before the interrupt. *)
FreeOrderDmaLast ==                     \* mutant: the buffers go before the engine stops
    <<{"timer"}, {"workqueue"}, {"irq"}, {"dmabuf"}, {"monitor"}, {"dma"}, {"iomem"}, {"regions"},
      {"pcienable"}, {"fram_buffer"}, {"ipc8_pci"}>>
FreeOrder ==
    <<{"timer"}, {"workqueue"}, {"irq"}, {"monitor"}, {"dma"}, {"dmabuf"}, {"iomem"}, {"regions"},
      {"pcienable"}, {"fram_buffer"}, {"ipc8_pci"}>>
Remove(next) ==
    /\ phase = "in" /\ board
    /\ phase' = next /\ proc' = 1
    /\ UNCHANGED <<held, board, ipc8_pci, missed, leaks>>
FreeStep ==
    /\ phase \in {"remove", "exit"} /\ board
    /\ GiveBack("remove", FreeOrder[proc])
    /\ IF proc = Len(FreeOrder)
       THEN /\ board' = FALSE /\ ipc8_pci' = "dangling" /\ proc' = 0
            /\ phase' = IF phase = "remove" THEN "in" ELSE phase
       ELSE proc' = proc + 1 /\ UNCHANGED <<phase, board, ipc8_pci>>
    /\ UNCHANGED leaks
(* ipc8_exit: the board is removed from within pci_unregister_driver. *)
Unload ==
    /\ phase = "in" /\ ~board
    /\ phase' = "exit" /\ proc' = 0
    /\ UNCHANGED <<held, board, ipc8_pci, missed, leaks>>
Exit ==
    /\ phase = "exit" /\ ~board
    /\ GiveBack("exit", {"pcidriver", "device", "cdev", "chrdev", "class"})
    /\ ipc8_pci' = "null"               \* the module's memory is gone; a new load starts afresh
    /\ phase' = "out" /\ proc' = 0
    /\ UNCHANGED <<board, leaks>>

-----------------------------------------------------------------------------
(* The engines and the handlers use what they were given. *)
Uses(who) == CASE who = "dma" -> {"dmabuf"}
               [] who = "timer" -> {"workqueue", "ipc8_pci", "iomem"}
               [] who = "irq" -> {"iomem", "workqueue", "ipc8_pci"}
Use(who) ==
    /\ who \in held
    /\ missed' = missed \cup {<<who, t>> : t \in Uses(who) \ held}
    /\ UNCHANGED <<phase, proc, held, board, ipc8_pci, leaks>>

LifeInit ==
    /\ phase = "out" /\ proc = 0 /\ held = {} /\ board = FALSE /\ ipc8_pci = "null"
    /\ missed = {} /\ leaks = 0
LifeNext ==
    \/ Load \/ InitStep \/ InitFails \/ Register \/ Plug
    \/ ProbeStep \/ ProbeFails \/ Alloc \/ AllocStep \/ AllocFails \/ Started
    \/ Remove("remove") \/ Remove("exit") \/ FreeStep \/ Unload \/ Exit
    \/ \E who \in {"dma", "timer", "irq"} : Use(who)
LifeSpec == LifeInit /\ [][LifeNext]_lifeVars

-----------------------------------------------------------------------------
LifeTypeOK ==
    /\ phase \in {"out", "init", "probe", "alloc", "in", "remove", "exit"}
    /\ proc \in 0..Len(FreeOrder) /\ board \in BOOLEAN /\ leaks \in 0..LeakLimit
    /\ ipc8_pci \in {"null", "valid", "dangling"}

(* Whatever step fails, what is given back was held, exactly the engines and
   handlers that run have what they use, and unloaded the driver holds nothing:
   but for the work queue and the mappings that a failed probe leaves
   (ipc8.c:1655), the interrupt that comes while the areas are not mapped yet or
   the work queue is gone already (ipc8.c:1595, 1690). *)
LifeClean ==
    /\ missed \subseteq {<<"irq", "iomem">>, <<"irq", "workqueue">>}
    /\ phase = "out" => held \subseteq (IF leaks = 0 THEN {} ELSE {"workqueue", "iomem"})
    /\ board /\ phase = "in" => ipc8_pci = "valid"
=============================================================================
