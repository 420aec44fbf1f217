------------------------------- MODULE TPComm -------------------------------
(***************************************************************************)
(* The link to a teach pendant: the application's calls (TPComm_Open,      *)
(* TPComm_BEEP and the like, TPComm_Close), timer_thread, recv_thread, the *)
(* mutex that gives one of them the line, and the event by which the       *)
(* receiving thread lets the timer go on.                                  *)
(*                                                                         *)
(* A packet is its command.  The pendant is external: whenever a thread    *)
(* receives, anything of Arrivals may come, or nothing in time.  Time is   *)
(* now, in ticks; the code reads it as a millisecond counter that wraps.   *)
(***************************************************************************)
EXTENDS Integers, FiniteSets

CONSTANTS
    Modes,              \* values of flags.client the application may choose
    Links,              \* connection types it may choose: "COM", "UDP"
    Arrivals,           \* packets the pendant may send
    SendFails,          \* dn_send may fail
    TornFlags,          \* stores into the byte of flags may overlap (several processors)
    RetryNak,           \* TP_RETRY_NAK, 2
    RetryTimeout,       \* TP_RETRY_TIMEOUT, 2
    ErrorTimeout,       \* _TPERROR_TIMEOUT, 10 s
    LessInterval,       \* _TPLESS_INTERVAL, 10 s
    PingConnect,        \* _PING_INTERVAL_CONNECT, 300 ms
    PingError,          \* _PING_INTERVAL_TPERROR, 1 s
    InitClient,         \* _TP_INIT_WAIT_CLIENT, 100 ms
    InitServer,         \* _TP_INIT_WAIT_SERVER, 3 s
    Width,              \* the clock counts modulo Width, 2^32
    ClockStart,         \* its reading when the model starts
    TickMax             \* bound: ticks

Packets == {"ACK", "REJ", "NAK", "REQ_ID", "KEYINFO"}

ASSUME TPAssumption ==
    /\ Modes \subseteq BOOLEAN /\ Links \subseteq {"COM", "UDP"}
    /\ Arrivals \subseteq Packets /\ {SendFails, TornFlags} \subseteq BOOLEAN
    /\ RetryNak \in Nat /\ RetryTimeout \in Nat
    /\ {ErrorTimeout, LessInterval, PingConnect, PingError, InitClient, InitServer} \subseteq Nat
    /\ Width \in Nat \ {0} /\ ClockStart \in 0..Width - 1 /\ TickMax \in Nat

VARIABLES
    conn,       \* device.type and flags.client, set by TPComm_Open
    state,      \* flags.state
    flags,      \* the names of the one-bit flags that are set
    tpMutex,    \* the thread that holds it, or "free"
    evt,        \* the event is signalled
    app,        \* the application thread: where it is, tries and NAKs so far
    timer,      \* where timer_thread is
    recv,       \* where recv_thread is, NAKs so far and tmp_state
    ctsWire,    \* the pendant raises CTS
    now,        \* true time
    stamp,      \* ping_clock, init_clock and check_clock, as values of now
    reported    \* history: the state Call_TPState was told last

tpVars == <<conn, state, flags, tpMutex, evt, app, timer, recv, ctsWire, now, stamp, reported>>

States == {"CONNECT", "TPLESS", "TPERROR"}
Flags == {"init", "cts", "timer_flag", "recv_flag"}
Clocks == {"ping", "init", "check"}
TPThreads == {"app", "timer", "recv"}

-----------------------------------------------------------------------------
(* Time and the line. *)

(* calc_time_diff on two readings of gettimeofday_msec: when the counter has
   wrapped the two are exchanged. *)
Reading(t) == (ClockStart + t) % Width
CalcTimeDiff(start, end) ==
    IF end >= start THEN end - start ELSE (Width - 1 - end) + start
Since(clock) == CalcTimeDiff(Reading(stamp[clock]), Reading(now))

Tick == /\ now < TickMax
        /\ now' = now + 1
        /\ UNCHANGED <<conn, state, flags, tpMutex, evt, app, timer, recv, ctsWire, stamp, reported>>

(* The pendant is plugged or unplugged. *)
Plug == /\ ctsWire' = ~ctsWire
        /\ UNCHANGED <<conn, state, flags, tpMutex, evt, app, timer, recv, now, stamp, reported>>

(* tp_send stamps what it has sent. *)
SendResults == IF SendFails THEN {TRUE, FALSE} ELSE {TRUE}
Stamped(clocks) == [c \in Clocks |-> IF c \in clocks THEN now ELSE stamp[c]]
PingIf(sent) == IF sent THEN {"ping"} ELSE {}

(* One turn of tp_recv's loop, by how it ends: "ACCESSDENIED" when CTS is off,
   "TIMEOUT", "FAIL" for a dead device, a resend that fails or one NAK or bad
   packet too many, "AGAIN" after a NAK, or the packet. *)
NoCts == conn.link = "COM" /\ ~ctsWire
OutcomesAnyCts(naks) ==                 \* mutant: CTS is not looked at
    {"TIMEOUT", "FAIL"} \cup (Arrivals \ {"NAK"})
Outcomes(naks) ==
    IF NoCts THEN {"ACCESSDENIED"}
    ELSE {"TIMEOUT", "FAIL"} \cup (Arrivals \ {"NAK"})
         \cup (IF "NAK" \in Arrivals /\ naks < RetryNak THEN {"AGAIN"} ELSE {})
CtsFlag == IF conn.link # "COM" THEN flags
           ELSE IF ctsWire THEN flags \cup {"cts"} ELSE flags \ {"cts"}

(* Every member of TP_FLAGS, the state included, is a bit-field of one byte, which
   a store reads, changes and writes back.  The threads store under the mutex,
   TPComm_Close without it: of two stores that overlap the earlier is lost. *)
Clearing == app.pc \in {"clear_first", "clear_second"}
StoresInit ==
    conn.client \/ ("init" \notin flags /\ (state = "CONNECT" \/ Since("init") > InitServer))
ThreadStores ==
    \/ recv.pc = "commit" \/ (recv.pc = "receive" /\ conn.link = "COM")
    \/ timer = "event" /\ StoresInit
Stored(new, old, overlaps) == {new} \cup (IF TornFlags /\ overlaps THEN {old} ELSE {})

Lock(t) == tpMutex = "free" /\ tpMutex' = t
Unlock == tpMutex' = "free"

-----------------------------------------------------------------------------
(* recv_thread *)

(* The head of the loop; receive_execute reads flags.state before it locks. *)
RecvLoop ==
    /\ recv.pc = "loop"
    /\ recv' = IF "recv_flag" \in flags
               THEN [recv EXCEPT !.pc = "lock", !.tmp = state, !.naks = 0]
               ELSE [recv EXCEPT !.pc = "end"]
    /\ UNCHANGED <<conn, state, flags, tpMutex, evt, app, timer, ctsWire, now, stamp, reported>>

RecvLock ==
    /\ recv.pc = "lock" /\ Lock("recv")
    /\ recv' = [recv EXCEPT !.pc = "receive"]
    /\ UNCHANGED <<conn, state, flags, evt, app, timer, ctsWire, now, stamp, reported>>

(* A packet that asks for one is answered ACK or REJ, after its callback; a
   request ID is also answered with a ping.  When an answer cannot be sent the
   state is not updated. *)
Answered(p) == p \notin {"ACK", "REJ"}
AfterPacket(p, tmp) == IF tmp # "CONNECT" /\ p = "REQ_ID" THEN tmp ELSE "CONNECT"
ReceivePacket(p) ==
    \E sent \in IF Answered(p) THEN SendResults ELSE {FALSE} :
        /\ recv' = IF Answered(p) /\ ~sent
                   THEN [recv EXCEPT !.pc = "unlock"]
                   ELSE [recv EXCEPT !.pc = "update", !.tmp = AfterPacket(p, recv.tmp)]
        /\ stamp' = Stamped(PingIf(sent))
ReceiveFailed(o) ==
    /\ recv' = [recv EXCEPT !.pc = "update",
                            !.tmp = IF o = "ACCESSDENIED" THEN "TPLESS" ELSE "TPERROR"]
    /\ UNCHANGED stamp
RecvReceive ==
    /\ recv.pc = "receive"
    /\ flags' \in Stored(CtsFlag, flags, Clearing)
    /\ \E o \in Outcomes(recv.naks) :
        \/ /\ o \in Packets
           /\ ReceivePacket(o)
        \/ /\ o = "AGAIN"
           /\ recv' = [recv EXCEPT !.naks = @ + 1]
           /\ UNCHANGED stamp
        \/ /\ o \in {"ACCESSDENIED", "TIMEOUT", "FAIL"}
           /\ ReceiveFailed(o)
    /\ UNCHANGED <<conn, state, tpMutex, evt, app, timer, ctsWire, now, reported>>

(* When flags.state meets the new state: whether it is updated, and what the
   application is told of it. *)
Due(old, tmp) ==
    \/ tmp = "CONNECT"
    \/ old = "CONNECT" /\ (tmp = "TPLESS" \/ Since("check") > ErrorTimeout)
    \/ old # "CONNECT" /\ Since("check") > LessInterval
ReportOfSilence(old, tmp) ==            \* mutant: unplugging is not reported
    IF old # "CONNECT" THEN tmp ELSE IF tmp = "TPERROR" THEN "DISCONNECT" ELSE "none"
Report(old, tmp) ==
    IF old # "CONNECT" THEN tmp ELSE IF tmp = "CONNECT" THEN "none" ELSE "DISCONNECT"

(* The callback runs with the mutex held, before flags.state changes. *)
RecvReport ==
    /\ recv.pc = "update"
    /\ IF Due(state, recv.tmp)
       THEN /\ reported' = IF Report(state, recv.tmp) = "none" THEN reported
                           ELSE Report(state, recv.tmp)
            /\ recv' = [recv EXCEPT !.pc = "commit"]
       ELSE /\ recv' = [recv EXCEPT !.pc = "unlock"]
            /\ UNCHANGED reported
    /\ UNCHANGED <<conn, state, flags, tpMutex, evt, app, timer, ctsWire, now, stamp>>
RecvCommit ==
    /\ recv.pc = "commit"
    /\ state' \in Stored(recv.tmp, state, Clearing)
    /\ stamp' = Stamped({"check"})
    /\ recv' = [recv EXCEPT !.pc = "unlock"]
    /\ UNCHANGED <<conn, flags, tpMutex, evt, app, timer, ctsWire, now, reported>>

RecvUnlock ==
    /\ recv.pc = "unlock" /\ Unlock
    /\ recv' = [pc |-> "signal", naks |-> 0, tmp |-> "TPLESS"]
    /\ UNCHANGED <<conn, state, flags, evt, app, timer, ctsWire, now, stamp, reported>>

(* set_event after every receive_execute, and once more at the end. *)
RecvSignal ==
    /\ recv.pc \in {"signal", "end"}
    /\ evt' = TRUE
    /\ recv' = [recv EXCEPT !.pc = IF @ = "end" THEN "done" ELSE "loop"]
    /\ UNCHANGED <<conn, state, flags, tpMutex, app, timer, ctsWire, now, stamp, reported>>

-----------------------------------------------------------------------------
(* timer_thread *)

TimerLoop ==
    /\ timer = "loop"
    /\ timer' = IF "timer_flag" \in flags THEN "lock" ELSE "done"
    /\ UNCHANGED <<conn, state, flags, tpMutex, evt, app, recv, ctsWire, now, stamp, reported>>

TimerLock ==
    /\ timer = "lock" /\ Lock("timer")
    /\ timer' = "event"
    /\ UNCHANGED <<conn, state, flags, evt, app, recv, ctsWire, now, stamp, reported>>

(* What timer_event sends: a client asks for its ID until it is connected; a
   server asks once for the keys, when it was not connected in time, then
   pings. *)
TimerSends ==
    IF conn.client
    THEN IF Since("init") > InitClient /\ state # "CONNECT" THEN "REQ_ID" ELSE "none"
    ELSE IF "init" \notin flags
    THEN IF Since("init") > InitServer /\ state # "CONNECT" THEN "GET_KEYSTATE" ELSE "none"
    ELSE IF \/ state = "CONNECT" /\ Since("ping") > PingConnect
            \/ state = "TPERROR" /\ Since("ping") > PingError
    THEN "PING" ELSE "none"

TimerEvent ==
    /\ timer = "event" /\ Unlock
    /\ flags' \in IF StoresInit THEN Stored(flags \cup {"init"}, flags, Clearing) ELSE {flags}
    /\ \E sent \in IF TimerSends = "none" THEN {FALSE} ELSE SendResults :
        /\ stamp' = Stamped(PingIf(sent) \cup
                            (IF TimerSends = "REQ_ID" THEN {"init"} ELSE {}))
        /\ timer' = IF sent /\ TimerSends # "GET_KEYSTATE" THEN "reset" ELSE "loop"
    /\ UNCHANGED <<conn, state, evt, app, recv, ctsWire, now, reported>>

(* reset_event, then wait_event without a limit: auto-reset. *)
TimerReset ==
    /\ timer = "reset"
    /\ evt' = FALSE
    /\ timer' = "wait"
    /\ UNCHANGED <<conn, state, flags, tpMutex, app, recv, ctsWire, now, stamp, reported>>
TimerWait ==
    /\ timer = "wait" /\ evt
    /\ evt' = FALSE
    /\ timer' = "loop"
    /\ UNCHANGED <<conn, state, flags, tpMutex, app, recv, ctsWire, now, stamp, reported>>

-----------------------------------------------------------------------------
(* The application: one call after another. *)

(* TPComm_Open, when it succeeds: every failure leaves the handle free. *)
TPComm_Open ==
    /\ app.pc = "closed"
    /\ \E c \in Modes, l \in Links : conn' = [client |-> c, link |-> l]
    /\ state' = "TPLESS"
    /\ flags' = {"timer_flag", "recv_flag"}
    /\ evt' = FALSE
    /\ stamp' = [c \in Clocks |-> now]
    /\ timer' = "loop"
    /\ recv' = [pc |-> "loop", naks |-> 0, tmp |-> "TPLESS"]
    /\ reported' = "none"
    /\ app' = [app EXCEPT !.pc = "idle"]
    /\ UNCHANGED <<tpMutex, ctsWire, now>>

(* send_receive tests the state before it locks the mutex; the answer is the
   first packet that comes.  TPComm_BEEP, TPComm_LED, TPComm_LCD and the
   drawing functions all end in it. *)
Call ==
    /\ app.pc = "idle" /\ state # "TPLESS"
    /\ app' = [pc |-> "lock", try |-> 0, naks |-> 0]
    /\ UNCHANGED <<conn, state, flags, tpMutex, evt, timer, recv, ctsWire, now, stamp, reported>>
AppLock ==
    /\ app.pc = "lock" /\ Lock("app")
    /\ app' = [app EXCEPT !.pc = "send"]
    /\ UNCHANGED <<conn, state, flags, evt, timer, recv, ctsWire, now, stamp, reported>>
AppSend ==
    /\ app.pc = "send"
    /\ \E sent \in SendResults :
        /\ app' = [app EXCEPT !.pc = IF sent THEN "receive" ELSE "unlock", !.naks = 0]
        /\ stamp' = Stamped(PingIf(sent))
    /\ UNCHANGED <<conn, state, flags, tpMutex, evt, timer, recv, ctsWire, now, reported>>

(* A retry carries its number in the command; only a timeout is tried again. *)
TriesLeft == app.try < RetryTimeout
AppReceive ==
    /\ app.pc = "receive"
    /\ flags' = CtsFlag
    /\ \E o \in Outcomes(app.naks) :
        app' = CASE o = "AGAIN" -> [app EXCEPT !.naks = @ + 1]
                 [] o = "TIMEOUT" /\ TriesLeft ->
                        [app EXCEPT !.pc = "send", !.try = IF @ < RetryTimeout THEN @ + 1 ELSE @]
                 [] OTHER -> [app EXCEPT !.pc = "unlock"]
    /\ UNCHANGED <<conn, state, tpMutex, evt, timer, recv, ctsWire, now, stamp, reported>>
AppUnlock ==
    /\ app.pc = "unlock" /\ Unlock
    /\ app' = [pc |-> "idle", try |-> 0, naks |-> 0]
    /\ UNCHANGED <<conn, state, flags, evt, timer, recv, ctsWire, now, stamp, reported>>

(* TPComm_Close ends the timer thread first, the receiving thread second. *)
FlagOf == [timer |-> "timer_flag", recv |-> "recv_flag"]
EndedThreads == {t \in {"timer", "recv"} : (IF t = "timer" THEN timer ELSE recv.pc) = "done"}
FirstRecv == "recv"                     \* mutant: the other order
FirstThread == "timer"
TPComm_Close ==
    /\ app.pc = "idle"
    /\ app' = [app EXCEPT !.pc = "clear_first"]
    /\ UNCHANGED <<conn, state, flags, tpMutex, evt, timer, recv, ctsWire, now, stamp, reported>>
ClearFirst ==
    /\ app.pc = "clear_first"
    /\ flags' \in Stored(flags \ {FlagOf[FirstThread]}, flags, ThreadStores)
    /\ app' = [app EXCEPT !.pc = "join_first"]
    /\ UNCHANGED <<conn, state, tpMutex, evt, timer, recv, ctsWire, now, stamp, reported>>
JoinFirst ==
    /\ app.pc = "join_first" /\ FirstThread \in EndedThreads
    /\ app' = [app EXCEPT !.pc = "clear_second"]
    /\ UNCHANGED <<conn, state, flags, tpMutex, evt, timer, recv, ctsWire, now, stamp, reported>>
ClearSecond ==
    /\ app.pc = "clear_second"
    /\ flags' \in Stored(flags \ {"timer_flag", "recv_flag"}, flags, ThreadStores)
    /\ app' = [app EXCEPT !.pc = "join_second"]
    /\ UNCHANGED <<conn, state, tpMutex, evt, timer, recv, ctsWire, now, stamp, reported>>
(* The event and the mutex are destroyed and the handle is zeroed. *)
JoinSecond ==
    /\ app.pc = "join_second" /\ EndedThreads = {"timer", "recv"}
    /\ flags' = {}
    /\ state' = "TPLESS" /\ reported' = "none"
    /\ evt' = FALSE
    /\ stamp' = [c \in Clocks |-> 0]
    /\ timer' = "none"
    /\ recv' = [pc |-> "none", naks |-> 0, tmp |-> "TPLESS"]
    /\ app' = [app EXCEPT !.pc = "closed"]
    /\ UNCHANGED <<conn, tpMutex, ctsWire, now>>

-----------------------------------------------------------------------------
TPInit ==
    /\ conn \in [client : Modes, link : Links]
    /\ state = "TPLESS" /\ flags = {} /\ tpMutex = "free" /\ evt = FALSE
    /\ app = [pc |-> "closed", try |-> 0, naks |-> 0]
    /\ timer = "none"
    /\ recv = [pc |-> "none", naks |-> 0, tmp |-> "TPLESS"]
    /\ ctsWire \in BOOLEAN
    /\ now = 0 /\ stamp = [c \in Clocks |-> 0]
    /\ reported = "none"

RecvStep == RecvLoop \/ RecvReceive \/ RecvReport \/ RecvCommit \/ RecvUnlock \/ RecvSignal
TimerStep == TimerLoop \/ TimerEvent \/ TimerReset \/ TimerWait
AppStep == AppSend \/ AppReceive \/ AppUnlock
           \/ ClearFirst \/ JoinFirst \/ ClearSecond \/ JoinSecond

TPNext ==
    \/ RecvStep \/ RecvLock
    \/ TimerStep \/ TimerLock
    \/ AppStep \/ AppLock \/ TPComm_Open \/ Call \/ TPComm_Close
    \/ Tick \/ Plug

TPSpec == TPInit /\ [][TPNext]_tpVars

(* Every thread runs on, and none waits for ever for a mutex that is free again
   and again; the application need not call, the pendant need not answer. *)
TPFairSpec ==
    /\ TPSpec
    /\ WF_tpVars(RecvStep) /\ WF_tpVars(TimerStep) /\ WF_tpVars(AppStep)
    /\ SF_tpVars(RecvLock) /\ SF_tpVars(TimerLock) /\ SF_tpVars(AppLock)

-----------------------------------------------------------------------------
(* Properties. *)

(* Every variable keeps its type, and the mutex is held by the thread that is
   between its lock and its unlock and by no other. *)
Holders == (IF app.pc \in {"send", "receive", "unlock"} THEN {"app"} ELSE {})
           \cup (IF timer = "event" THEN {"timer"} ELSE {})
           \cup (IF recv.pc \in {"receive", "update", "commit", "unlock"} THEN {"recv"} ELSE {})
TPTypeOK ==
    /\ conn \in [client : Modes, link : Links]
    /\ state \in States /\ flags \subseteq Flags
    /\ tpMutex \in TPThreads \cup {"free"} /\ evt \in BOOLEAN
    /\ app \in [pc : {"closed", "idle", "lock", "send", "receive", "unlock", "clear_first",
                     "join_first", "clear_second", "join_second"},
                try : 0..RetryTimeout, naks : 0..RetryNak]
    /\ timer \in {"none", "loop", "lock", "event", "reset", "wait", "done"}
    /\ recv \in [pc : {"none", "loop", "lock", "receive", "update", "commit", "unlock", "signal",
                        "end", "done"}, naks : 0..RetryNak, tmp : States]
    /\ ctsWire \in BOOLEAN /\ now \in 0..TickMax /\ stamp \in [Clocks -> 0..TickMax]
    /\ reported \in States \cup {"none", "DISCONNECT"}
    /\ Holders = IF tpMutex = "free" THEN {} ELSE {tpMutex}

(* A timer thread that waits for the event, or is about to reset it, is woken:
   either the event is set after the reset or the receiving thread has yet to
   set it.  A wake-up lost between timer_event and reset_event costs one turn of
   the receiving thread, never the timer thread and with it TPComm_Close. *)
TimerWoken ==
    timer \in {"reset", "wait"} =>
        \/ timer = "wait" /\ evt
        \/ recv.pc \notin {"none", "done"}

(* Between two turns of the receiving thread the application has been told of
   the connection what flags.state says of it: connected exactly when CONNECT was
   the last report. *)
ReportedFaithfully ==
    recv.pc \in {"loop", "lock", "receive", "signal"} =>
        (state = "CONNECT") <=> (reported = "CONNECT")

(* Every call returns: a silent pendant, refusals and retries end, and so does
   the wait for the mutex. *)
CallReturns == (app.pc \in {"lock", "send", "receive", "unlock"}) ~> (app.pc = "idle")

(* TPComm_Close returns: neither thread is left waiting for the other, or running
   on because it has not seen its flag cleared (dn_tpcomm.c:903). *)
TPCloseReturns == (app.pc = "clear_first") ~> (app.pc = "closed")

(* A serial pendant that is unplugged for good is noticed: the link does not stay
   CONNECT. *)
UnplugNoticed == <>[](NoCts) => []<>(state # "CONNECT")

=============================================================================
