---------------------------- MODULE TPComm_proofs ----------------------------
(***************************************************************************)
(* Proofs about TPComm, for all limits, intervals, clock widths and any    *)
(* pendant: its types with the ownership of the mutex, that the timer      *)
(* thread is always woken, and that the application is told the truth.     *)
(***************************************************************************)
EXTENDS TPComm, TLAPS

AppPlaces == {"closed", "idle", "lock", "send", "receive", "unlock", "clear_first",
              "join_first", "clear_second", "join_second"}
AppStates == [pc : AppPlaces, try : 0..RetryTimeout, naks : 0..RetryNak]
RecvPlaces == {"none", "loop", "lock", "receive", "update", "commit", "unlock", "signal",
               "end", "done"}
RecvStates == [pc : RecvPlaces, naks : 0..RetryNak, tmp : States]

-----------------------------------------------------------------------------
(* The inductive invariants. *)

(* The threads exist while the handle is open; recv_thread sees its flag cleared
   only when timer_thread has ended. *)
Threads ==
    /\ (app.pc = "closed") <=> (recv.pc = "none")
    /\ app.pc = "closed" => timer = "none"
    /\ app.pc \notin {"closed", "join_second"} => "recv_flag" \in flags
    /\ app.pc \in {"clear_second", "join_second"} => timer = "done"
    /\ recv.pc \in {"end", "done"} => app.pc = "join_second"

(* What the application was told agrees with flags.state, or with what is about
   to be stored there. *)
Told ==
    IF recv.pc = "commit" THEN (recv.tmp = "CONNECT") <=> (reported = "CONNECT")
    ELSE (state = "CONNECT") <=> (reported = "CONNECT")

Inv == TPTypeOK /\ Threads

-----------------------------------------------------------------------------
(* Helpers. *)

(* A store into flags leaves flags, and keeps or adds what the store adds. *)
LEMMA StoredIn ==
    ASSUME NEW S, NEW new \in S, NEW old \in S, NEW overlaps, NEW x \in Stored(new, old, overlaps)
    PROVE  x \in S /\ x \in {new, old}
BY DEF Stored

(* A turn of reception sets or clears the CTS flag only. *)
LEMMA CtsFlagIn ==
    ASSUME flags \subseteq Flags
    PROVE  CtsFlag \subseteq Flags /\ ("recv_flag" \in flags => "recv_flag" \in CtsFlag)
BY DEF CtsFlag, Flags

(* A stamp is a time that has been. *)
LEMMA StampedIn ==
    ASSUME stamp \in [Clocks -> 0..TickMax], now \in 0..TickMax, NEW clocks
    PROVE  Stamped(clocks) \in [Clocks -> 0..TickMax]
BY DEF Stamped

(* A packet or an end of tp_recv; one more NAK is counted within the limit. *)
LEMMA OutcomesIn ==
    ASSUME NEW naks \in 0..RetryNak, NEW o \in Outcomes(naks)
    PROVE  o = "AGAIN" => naks + 1 \in 0..RetryNak
<1>1. o = "AGAIN" => naks < RetryNak
  BY TPAssumption DEF Outcomes, Packets
<1> QED BY <1>1, TPAssumption

(* Counters and clocks may start. *)
LEMMA Zeros == 0 \in 0..RetryNak /\ 0 \in 0..RetryTimeout /\ 0 \in 0..TickMax
BY TPAssumption

(* Where a thread is set to, it is, and it keeps its type. *)
LEMMA RecvMove ==
    ASSUME NEW r \in RecvStates, NEW p \in RecvPlaces
    PROVE  LET q == [r EXCEPT !.pc = p]
           IN  q \in RecvStates /\ q.pc = p /\ q.tmp = r.tmp /\ q.naks = r.naks
<1>1. [r EXCEPT !.pc = p] \in RecvStates
  BY DEF RecvStates
<1> QED BY <1>1 DEF RecvStates

(* The same, when tmp_state is set as well. *)
LEMMA RecvMoveWith ==
    ASSUME NEW r \in RecvStates, NEW p \in RecvPlaces, NEW t \in States
    PROVE  [r EXCEPT !.pc = p, !.tmp = t] \in RecvStates /\ [r EXCEPT !.pc = p, !.tmp = t].pc = p
<1>1. [r EXCEPT !.pc = p, !.tmp = t] \in RecvStates
  BY DEF RecvStates
<1> QED BY <1>1 DEF RecvStates

(* The same, when a turn begins. *)
LEMMA RecvMoveAll ==
    ASSUME NEW r \in RecvStates, NEW p \in RecvPlaces, NEW t \in States, NEW n \in 0..RetryNak
    PROVE  LET q == [r EXCEPT !.pc = p, !.tmp = t, !.naks = n]
           IN  q \in RecvStates /\ q.pc = p
<1>1. [r EXCEPT !.pc = p, !.tmp = t, !.naks = n] \in RecvStates
  BY DEF RecvStates
<1> QED BY <1>1 DEF RecvStates

(* One more NAK moves the thread nowhere. *)
LEMMA RecvCount ==
    ASSUME NEW r \in RecvStates, NEW n \in 0..RetryNak
    PROVE  [r EXCEPT !.naks = n] \in RecvStates /\ [r EXCEPT !.naks = n].pc = r.pc
<1>1. [r EXCEPT !.naks = n] \in RecvStates
  BY DEF RecvStates
<1> QED BY <1>1 DEF RecvStates

(* A call that moves on keeps its type. *)
LEMMA AppMove ==
    ASSUME NEW a \in AppStates, NEW p \in AppPlaces
    PROVE  [a EXCEPT !.pc = p] \in AppStates /\ [a EXCEPT !.pc = p].pc = p
<1>1. [a EXCEPT !.pc = p] \in AppStates
  BY DEF AppStates
<1> QED BY <1>1 DEF AppStates

(* A retry. *)
LEMMA AppRetry ==
    ASSUME NEW a \in AppStates, NEW p \in AppPlaces, NEW t \in 0..RetryTimeout
    PROVE  [a EXCEPT !.pc = p, !.try = t] \in AppStates /\ [a EXCEPT !.pc = p, !.try = t].pc = p
<1>1. [a EXCEPT !.pc = p, !.try = t] \in AppStates
  BY DEF AppStates
<1> QED BY <1>1 DEF AppStates

(* A try that begins, or has ended. *)
LEMMA AppMoveWith ==
    ASSUME NEW a \in AppStates, NEW p \in AppPlaces, NEW n \in 0..RetryNak
    PROVE  [a EXCEPT !.pc = p, !.naks = n] \in AppStates /\ [a EXCEPT !.pc = p, !.naks = n].pc = p
<1>1. [a EXCEPT !.pc = p, !.naks = n] \in AppStates
  BY DEF AppStates
<1> QED BY <1>1 DEF AppStates

(* One more NAK moves the call nowhere. *)
LEMMA AppCount ==
    ASSUME NEW a \in AppStates, NEW n \in 0..RetryNak
    PROVE  [a EXCEPT !.naks = n] \in AppStates /\ [a EXCEPT !.naks = n].pc = a.pc
<1>1. [a EXCEPT !.naks = n] \in AppStates
  BY DEF AppStates
<1> QED BY <1>1 DEF AppStates

-----------------------------------------------------------------------------
(* recv_thread. *)

(* Every step of recv_thread keeps the invariant. *)
LEMMA RecvInv == Inv /\ (RecvStep \/ RecvLock) => Inv'
<1> SUFFICES ASSUME Inv, RecvStep \/ RecvLock PROVE Inv'
  OBVIOUS
<1> USE DEF Inv
<1>1. recv \in RecvStates /\ stamp \in [Clocks -> 0..TickMax] /\ now \in 0..TickMax
      /\ flags \subseteq Flags /\ state \in States /\ reported \in States \cup {"none", "DISCONNECT"}
  BY DEF TPTypeOK, RecvStates, RecvPlaces
<1>2. UNCHANGED <<conn, app, timer, ctsWire, now>>
  BY DEF RecvStep, RecvLoop, RecvReceive, RecvReport, RecvCommit, RecvUnlock, RecvSignal, RecvLock
<1>3. CASE RecvLoop
  <2>1. recv' \in RecvStates /\ recv'.pc \in {"lock", "end"} /\ recv.pc = "loop"
        /\ (recv'.pc = "end" => "recv_flag" \notin flags)
    <3>1. CASE "recv_flag" \in flags
      <4> DEFINE q == [recv EXCEPT !.pc = "lock", !.tmp = state, !.naks = 0]
      <4>1. "lock" \in RecvPlaces
        BY DEF RecvPlaces
      <4>2. q \in RecvStates /\ q.pc = "lock"
        BY <1>1, <4>1, Zeros, RecvMoveAll
      <4>3. recv' = q /\ recv.pc = "loop"
        BY <1>3, <3>1 DEF RecvLoop
      <4> QED BY <3>1, <4>2, <4>3
    <3>2. CASE "recv_flag" \notin flags
      <4>1. recv' = [recv EXCEPT !.pc = "end"] /\ recv.pc = "loop"
        BY <1>3, <3>2 DEF RecvLoop
      <4> QED BY <1>1, <3>2, <4>1, RecvMove DEF RecvPlaces
    <3> QED BY <3>1, <3>2
  <2>2. UNCHANGED <<state, flags, tpMutex, evt, stamp, reported>>
    BY <1>3 DEF RecvLoop
  <2> QED BY <1>2, <2>1, <2>2 DEF TPTypeOK, Holders, Threads, RecvStates, RecvPlaces
<1>4. CASE RecvLock
  <2>1. recv' \in RecvStates /\ recv'.pc = "receive" /\ recv.pc = "lock"
        /\ tpMutex = "free" /\ tpMutex' = "recv"
    BY <1>1, <1>4, RecvMove DEF RecvLock, Lock, RecvPlaces
  <2>2. UNCHANGED <<state, flags, evt, stamp, reported>>
    BY <1>4 DEF RecvLock
  <2> QED BY <1>2, <2>1, <2>2 DEF TPTypeOK, Holders, Threads, RecvStates, RecvPlaces, TPThreads
<1>5. CASE RecvReceive
  <2>1. flags' \subseteq Flags /\ ("recv_flag" \in flags => "recv_flag" \in flags')
    <3>1. flags' \in Stored(CtsFlag, flags, Clearing)
      BY <1>5 DEF RecvReceive
    <3>2. flags' \in {CtsFlag, flags}
      BY <3>1 DEF Stored
    <3> QED BY <1>1, <3>2, CtsFlagIn
  <2>2. recv' \in RecvStates /\ recv'.pc \in {"receive", "update", "unlock"}
        /\ stamp' \in [Clocks -> 0..TickMax]
    <3>1. PICK o \in Outcomes(recv.naks) :
             \/ o \in Packets /\ ReceivePacket(o)
             \/ o = "AGAIN" /\ recv' = [recv EXCEPT !.naks = @ + 1] /\ UNCHANGED stamp
             \/ ReceiveFailed(o)
      BY <1>5 DEF RecvReceive
    <3>2. recv.pc = "receive" /\ recv.naks \in 0..RetryNak /\ recv.tmp \in States
      BY <1>1, <1>5 DEF RecvReceive, RecvStates
    <3>3. CASE o \in Packets /\ ReceivePacket(o)
      <4>1. AfterPacket(o, recv.tmp) \in States
        BY <3>2 DEF AfterPacket, States
      <4>2. PICK sent : /\ recv' = IF Answered(o) /\ ~sent THEN [recv EXCEPT !.pc = "unlock"]
                                   ELSE [recv EXCEPT !.pc = "update", !.tmp = AfterPacket(o, recv.tmp)]
                        /\ stamp' = Stamped(PingIf(sent))
        BY <3>3 DEF ReceivePacket
      <4>3. recv' \in {[recv EXCEPT !.pc = "unlock"],
                       [recv EXCEPT !.pc = "update", !.tmp = AfterPacket(o, recv.tmp)]}
        BY <4>2
      <4>4. recv' \in RecvStates /\ recv'.pc \in {"update", "unlock"}
        <5>1. CASE recv' = [recv EXCEPT !.pc = "unlock"]
          BY <1>1, <5>1, RecvMove DEF RecvPlaces
        <5>2. CASE recv' = [recv EXCEPT !.pc = "update", !.tmp = AfterPacket(o, recv.tmp)]
          <6>1. "update" \in RecvPlaces
            BY DEF RecvPlaces
          <6> DEFINE t == AfterPacket(o, recv.tmp)
          <6>2. t \in States
            BY <4>1
          <6> HIDE DEF t
          <6>3. recv' = [recv EXCEPT !.pc = "update", !.tmp = t]
            BY <5>2 DEF t
          <6> QED BY <1>1, <6>1, <6>2, <6>3, RecvMoveWith
        <5> QED BY <4>3, <5>1, <5>2
      <4> QED BY <1>1, <4>2, <4>4, StampedIn
    <3>4. CASE o = "AGAIN" /\ recv' = [recv EXCEPT !.naks = @ + 1] /\ UNCHANGED stamp
      <4>1. recv.naks + 1 \in 0..RetryNak
        BY <3>1, <3>2, <3>4, OutcomesIn
      <4>2. recv' \in RecvStates
        BY <1>1, <3>4, <4>1, RecvCount
      <4> QED BY <1>1, <3>2, <3>4, <4>1, <4>2, RecvCount
    <3>5. CASE ReceiveFailed(o)
      <4>1. PICK t \in States : recv' = [recv EXCEPT !.pc = "update", !.tmp = t]
        BY <3>5 DEF ReceiveFailed, States
      <4>2. recv' \in RecvStates /\ recv'.pc = "update"
        <5>1. "update" \in RecvPlaces
          BY DEF RecvPlaces
        <5>2. [recv EXCEPT !.pc = "update", !.tmp = t] \in RecvStates
          BY <1>1, <5>1, RecvMoveWith
        <5> QED BY <1>1, <4>1, <5>1, <5>2, RecvMoveWith
      <4> QED BY <1>1, <3>5, <4>2 DEF ReceiveFailed
    <3> QED BY <3>1, <3>3, <3>4, <3>5
  <2>3. UNCHANGED <<state, tpMutex, evt, reported>> /\ recv.pc = "receive"
    BY <1>5 DEF RecvReceive
  <2> QED BY <1>2, <2>1, <2>2, <2>3 DEF TPTypeOK, Holders, Threads, RecvStates, RecvPlaces
<1>6. CASE RecvReport
  <2>1. recv' \in RecvStates /\ recv'.pc \in {"commit", "unlock"} /\ recv.pc = "update"
    <3>1. recv.pc = "update" /\ recv' \in {[recv EXCEPT !.pc = "commit"], [recv EXCEPT !.pc = "unlock"]}
      BY <1>6 DEF RecvReport
    <3>2. CASE recv' = [recv EXCEPT !.pc = "commit"]
      BY <1>1, <3>1, <3>2, RecvMove DEF RecvPlaces
    <3>3. CASE recv' = [recv EXCEPT !.pc = "unlock"]
      BY <1>1, <3>1, <3>3, RecvMove DEF RecvPlaces
    <3> QED BY <3>1, <3>2, <3>3
  <2>2. reported' \in States \cup {"none", "DISCONNECT"}
    BY <1>1, <1>6 DEF RecvReport, Report, RecvStates
  <2>3. UNCHANGED <<state, flags, tpMutex, evt, stamp>>
    BY <1>6 DEF RecvReport
  <2> QED BY <1>2, <2>1, <2>2, <2>3 DEF TPTypeOK, Holders, Threads, RecvStates, RecvPlaces
<1>7. CASE RecvCommit
  <2>1. recv' \in RecvStates /\ recv'.pc = "unlock" /\ recv.pc = "commit"
    BY <1>1, <1>7, RecvMove DEF RecvCommit, RecvPlaces
  <2>2. state' \in States
    BY <1>1, <1>7, StoredIn DEF RecvCommit, RecvStates
  <2>3. stamp' \in [Clocks -> 0..TickMax]
    BY <1>1, <1>7, StampedIn DEF RecvCommit
  <2>4. UNCHANGED <<flags, tpMutex, evt, reported>>
    BY <1>7 DEF RecvCommit
  <2> QED BY <1>2, <2>1, <2>2, <2>3, <2>4 DEF TPTypeOK, Holders, Threads, RecvStates, RecvPlaces
<1>8. CASE RecvUnlock
  <2>1. recv' \in RecvStates /\ recv'.pc = "signal" /\ recv.pc = "unlock"
    BY <1>8, Zeros DEF RecvUnlock, RecvStates, RecvPlaces, States
  <2>2. UNCHANGED <<state, flags, evt, stamp, reported>> /\ tpMutex' = "free"
    BY <1>8 DEF RecvUnlock, Unlock
  <2>3. tpMutex = "recv" /\ Holders = {"recv"}
    BY <2>1 DEF TPTypeOK, Holders
  <2> QED BY <1>2, <2>1, <2>2, <2>3 DEF TPTypeOK, Holders, Threads, RecvStates, RecvPlaces
<1>9. CASE RecvSignal
  <2>1. recv' \in RecvStates /\ recv'.pc \in {"done", "loop"} /\ recv.pc \in {"signal", "end"}
        /\ (recv'.pc = "done" => recv.pc = "end")
    <3>1. CASE recv.pc = "end"
      <4>1. recv' = [recv EXCEPT !.pc = "done"]
        BY <1>9, <3>1 DEF RecvSignal
      <4> QED BY <1>1, <3>1, <4>1, RecvMove DEF RecvPlaces
    <3>2. CASE recv.pc = "signal"
      <4>1. recv' = [recv EXCEPT !.pc = "loop"]
        BY <1>9, <3>2 DEF RecvSignal
      <4> QED BY <1>1, <3>2, <4>1, RecvMove DEF RecvPlaces
    <3> QED BY <1>9, <3>1, <3>2 DEF RecvSignal
  <2>2. UNCHANGED <<state, flags, tpMutex, stamp, reported>> /\ evt' \in BOOLEAN
    BY <1>9 DEF RecvSignal
  <2> QED BY <1>2, <2>1, <2>2 DEF TPTypeOK, Holders, Threads, RecvStates, RecvPlaces
<1> QED BY <1>3, <1>4, <1>5, <1>6, <1>7, <1>8, <1>9 DEF RecvStep

-----------------------------------------------------------------------------
(* timer_thread. *)

(* So does every step of timer_thread. *)
LEMMA TimerInv == Inv /\ (TimerStep \/ TimerLock) => Inv'
<1> SUFFICES ASSUME Inv, TimerStep \/ TimerLock PROVE Inv'
  OBVIOUS
<1> USE DEF Inv
<1>1. UNCHANGED <<conn, state, app, recv, ctsWire, now, reported>>
  BY DEF TimerStep, TimerLoop, TimerEvent, TimerReset, TimerWait, TimerLock
<1>2. CASE TimerLoop \/ TimerReset \/ TimerWait
  <2>1. /\ timer' \in {"lock", "done", "wait", "loop"} /\ timer \in {"loop", "reset", "wait"}
        /\ evt' \in {evt, FALSE} /\ UNCHANGED <<flags, tpMutex, stamp>>
    BY <1>2 DEF TimerLoop, TimerReset, TimerWait
  <2>2. evt' \in BOOLEAN
    BY <2>1 DEF TPTypeOK
  <2> QED BY <1>1, <2>1, <2>2 DEF TPTypeOK, Holders, Threads
<1>3. CASE TimerLock
  BY <1>1, <1>3 DEF TimerLock, Lock, TPTypeOK, Holders, Threads, TPThreads
<1>4. CASE TimerEvent
  <2>1. flags' \subseteq Flags /\ ("recv_flag" \in flags => "recv_flag" \in flags')
    <3>1. flags' \in {flags \cup {"init"}, flags}
      BY <1>4 DEF TimerEvent, Stored
    <3> QED BY <3>1 DEF TPTypeOK, Flags
  <2>2. stamp' \in [Clocks -> 0..TickMax]
    BY <1>4, StampedIn DEF TimerEvent, TPTypeOK
  <2>3. timer' \in {"reset", "loop"} /\ timer = "event" /\ UNCHANGED evt
    BY <1>4 DEF TimerEvent
  <2>4. tpMutex' = "free" /\ tpMutex = "timer" /\ Holders = {"timer"}
    BY <1>4, <2>3 DEF TimerEvent, Unlock, TPTypeOK, Holders
  <2> QED BY <1>1, <2>1, <2>2, <2>3, <2>4 DEF TPTypeOK, Holders, Threads
<1> QED BY <1>2, <1>3, <1>4 DEF TimerStep

-----------------------------------------------------------------------------
(* The application. *)

(* Calls: everything but opening and closing. *)
LEMMA CallInv == Inv /\ (Call \/ AppLock \/ AppSend \/ AppReceive \/ AppUnlock) => Inv'
<1> SUFFICES ASSUME Inv, Call \/ AppLock \/ AppSend \/ AppReceive \/ AppUnlock PROVE Inv'
  OBVIOUS
<1> USE DEF Inv
<1>1. app \in AppStates
  BY DEF TPTypeOK, AppStates, AppPlaces
<1>2. UNCHANGED <<conn, state, evt, timer, recv, ctsWire, now, reported>>
  BY DEF Call, AppLock, AppSend, AppReceive, AppUnlock
<1>3. CASE Call
  <2>1. app' \in AppStates /\ app'.pc = "lock" /\ app.pc = "idle" /\ UNCHANGED <<flags, tpMutex, stamp>>
    BY <1>3, Zeros DEF Call, AppStates, AppPlaces
  <2> QED BY <1>2, <2>1 DEF TPTypeOK, Holders, Threads, AppStates, AppPlaces
<1>4. CASE AppLock
  <2>1. app' \in AppStates /\ app'.pc = "send" /\ app.pc = "lock"
    BY <1>1, <1>4, AppMove DEF AppLock, AppPlaces
  <2>2. tpMutex = "free" /\ tpMutex' = "app" /\ UNCHANGED <<flags, stamp>>
    BY <1>4 DEF AppLock, Lock
  <2> QED BY <1>2, <2>1, <2>2 DEF TPTypeOK, Holders, Threads, AppStates, AppPlaces, TPThreads
<1>5. CASE AppSend
  <2>1. app' \in AppStates /\ app'.pc \in {"receive", "unlock"} /\ app.pc = "send"
    <3>1. PICK sent : app' = [app EXCEPT !.pc = IF sent THEN "receive" ELSE "unlock", !.naks = 0]
      BY <1>5 DEF AppSend
    <3>2. app' \in {[app EXCEPT !.pc = "receive", !.naks = 0], [app EXCEPT !.pc = "unlock", !.naks = 0]}
      BY <3>1
    <3>3. app.pc = "send"
      BY <1>5 DEF AppSend
    <3>p. {"receive", "unlock"} \subseteq AppPlaces
      BY DEF AppPlaces
    <3>4. CASE app' = [app EXCEPT !.pc = "receive", !.naks = 0]
      BY <1>1, <3>p, <3>3, <3>4, Zeros, AppMoveWith
    <3>5. CASE app' = [app EXCEPT !.pc = "unlock", !.naks = 0]
      BY <1>1, <3>p, <3>3, <3>5, Zeros, AppMoveWith
    <3> QED BY <3>2, <3>4, <3>5
  <2>2. stamp' \in [Clocks -> 0..TickMax]
    <3>1. PICK sent : stamp' = Stamped(PingIf(sent))
      BY <1>5 DEF AppSend
    <3> QED BY <3>1, StampedIn DEF TPTypeOK
  <2>3. UNCHANGED <<flags, tpMutex>>
    BY <1>5 DEF AppSend
  <2> QED BY <1>2, <2>1, <2>2, <2>3 DEF TPTypeOK, Holders, Threads, AppStates, AppPlaces
<1>6. CASE AppReceive
  <2>1. flags' \subseteq Flags /\ ("recv_flag" \in flags => "recv_flag" \in flags')
    BY <1>6, CtsFlagIn DEF AppReceive, TPTypeOK
  <2>2. app' \in AppStates /\ app'.pc \in {"receive", "send", "unlock"} /\ app.pc = "receive"
    <3>1. PICK o \in Outcomes(app.naks) :
             app' = CASE o = "AGAIN" -> [app EXCEPT !.naks = @ + 1]
                      [] o = "TIMEOUT" /\ TriesLeft ->
                             [app EXCEPT !.pc = "send", !.try = IF @ < RetryTimeout THEN @ + 1 ELSE @]
                      [] OTHER -> [app EXCEPT !.pc = "unlock"]
      BY <1>6 DEF AppReceive
    <3>2. app.pc = "receive" /\ app.naks \in 0..RetryNak /\ app.try \in 0..RetryTimeout
      BY <1>1, <1>6 DEF AppReceive, AppStates
    <3>3. CASE o = "AGAIN"
      <4>1. app.naks + 1 \in 0..RetryNak /\ app' = [app EXCEPT !.naks = @ + 1]
        BY <3>1, <3>2, <3>3, OutcomesIn
      <4>2. app' \in AppStates
        BY <1>1, <4>1, AppCount
      <4> QED BY <1>1, <3>2, <4>1, <4>2, AppCount
    <3>4. CASE o # "AGAIN"
      <4>1. \E t \in 0..RetryTimeout :
               app' \in {[app EXCEPT !.pc = "send", !.try = t], [app EXCEPT !.pc = "unlock"]}
        <5>1. (IF app.try < RetryTimeout THEN app.try + 1 ELSE app.try) \in 0..RetryTimeout
          BY <3>2, TPAssumption
        <5> QED BY <3>1, <3>4, <5>1
      <4>2. PICK t \in 0..RetryTimeout :
               app' \in {[app EXCEPT !.pc = "send", !.try = t], [app EXCEPT !.pc = "unlock"]}
        BY <4>1
      <4>3. CASE app' = [app EXCEPT !.pc = "send", !.try = t]
        <5>1. "send" \in AppPlaces
          BY DEF AppPlaces
        <5> QED BY <1>1, <3>2, <4>2, <4>3, <5>1, AppRetry
      <4>4. CASE app' = [app EXCEPT !.pc = "unlock"]
        BY <1>1, <3>2, <4>4, AppMove DEF AppPlaces
      <4> QED BY <4>2, <4>3, <4>4
    <3> QED BY <3>3, <3>4
  <2>3. UNCHANGED <<stamp, tpMutex>>
    BY <1>6 DEF AppReceive
  <2> QED BY <1>2, <2>1, <2>2, <2>3 DEF TPTypeOK, Holders, Threads, AppStates, AppPlaces
<1>7. CASE AppUnlock
  <2>1. app.pc = "unlock" /\ app' = [pc |-> "idle", try |-> 0, naks |-> 0]
        /\ tpMutex' = "free" /\ UNCHANGED <<flags, stamp>>
    BY <1>7 DEF AppUnlock, Unlock
  <2>2. tpMutex = "app" /\ Holders = {"app"}
    BY <2>1 DEF TPTypeOK, Holders
  <2>3. app' \in AppStates
    BY <2>1, Zeros DEF AppStates, AppPlaces
  <2> QED BY <1>2, <2>1, <2>2, <2>3 DEF TPTypeOK, Holders, Threads, AppStates, AppPlaces
<1> QED BY <1>3, <1>4, <1>5, <1>6, <1>7

(* Opening starts both threads; closing ends the timer thread, then the other. *)
LEMMA OpenCloseInv ==
    Inv /\ (TPComm_Open \/ TPComm_Close \/ ClearFirst \/ JoinFirst \/ ClearSecond \/ JoinSecond) => Inv'
<1> SUFFICES ASSUME Inv, TPComm_Open \/ TPComm_Close \/ ClearFirst \/ JoinFirst
                         \/ ClearSecond \/ JoinSecond
             PROVE  Inv'
  OBVIOUS
<1> USE DEF Inv
<1>1. app \in AppStates
  BY DEF TPTypeOK, AppStates, AppPlaces
<1>2. CASE TPComm_Open
  <2>1. app.pc = "closed" /\ app' \in AppStates /\ app'.pc = "idle"
    BY <1>1, <1>2, AppMove DEF TPComm_Open, AppPlaces
  <2>2. conn' \in [client : Modes, link : Links]
    BY <1>2 DEF TPComm_Open
  <2>3. stamp' \in [Clocks -> 0..TickMax]
    BY <1>2 DEF TPComm_Open, TPTypeOK
  <2>4. recv' = [pc |-> "loop", naks |-> 0, tmp |-> "TPLESS"] /\ timer' = "loop"
        /\ state' = "TPLESS" /\ flags' = {"timer_flag", "recv_flag"} /\ evt' = FALSE
        /\ reported' = "none" /\ UNCHANGED <<tpMutex, ctsWire, now>>
    BY <1>2 DEF TPComm_Open
  <2>5. recv.pc = "none" /\ timer = "none"
    BY <2>1 DEF Threads
  <2>6. recv' \in RecvStates
    BY <2>4, Zeros DEF RecvStates, RecvPlaces, States
  <2> QED BY <2>1, <2>2, <2>3, <2>4, <2>5, <2>6
          DEF TPTypeOK, Holders, Threads, AppStates, AppPlaces, RecvStates, RecvPlaces, States, Flags
<1>3. CASE TPComm_Close
  <2>1. app.pc = "idle" /\ app' \in AppStates /\ app'.pc = "clear_first"
    BY <1>1, <1>3, AppMove DEF TPComm_Close, AppPlaces
  <2> QED BY <1>3, <2>1 DEF TPComm_Close, TPTypeOK, Holders, Threads, AppStates
<1>4. CASE ClearFirst
  <2>1. app.pc = "clear_first" /\ app' \in AppStates /\ app'.pc = "join_first"
    BY <1>1, <1>4, AppMove DEF ClearFirst, AppPlaces
  <2>2. flags' \subseteq Flags /\ "recv_flag" \in flags'
    <3>1. flags' \in {flags \ {"timer_flag"}, flags}
      BY <1>4 DEF ClearFirst, FlagOf, FirstThread, Stored
    <3> QED BY <2>1, <3>1 DEF TPTypeOK, Threads
  <2> QED BY <1>4, <2>1, <2>2 DEF ClearFirst, TPTypeOK, Holders, Threads, AppStates
<1>5. CASE JoinFirst
  <2>1. app.pc = "join_first" /\ app' \in AppStates /\ app'.pc = "clear_second"
    BY <1>1, <1>5, AppMove DEF JoinFirst, AppPlaces
  <2>2. timer = "done"
    BY <1>5 DEF JoinFirst, FirstThread, EndedThreads
  <2> QED BY <1>5, <2>1, <2>2 DEF JoinFirst, TPTypeOK, Holders, Threads, AppStates
<1>6. CASE ClearSecond
  <2>1. app.pc = "clear_second" /\ app' \in AppStates /\ app'.pc = "join_second"
    BY <1>1, <1>6, AppMove DEF ClearSecond, AppPlaces
  <2>2. flags' \subseteq Flags
    BY <1>6 DEF ClearSecond, Stored, TPTypeOK
  <2> QED BY <1>6, <2>1, <2>2 DEF ClearSecond, TPTypeOK, Holders, Threads, AppStates
<1>7. CASE JoinSecond
  <2>1. app.pc = "join_second" /\ app' \in AppStates /\ app'.pc = "closed"
    BY <1>1, <1>7, AppMove DEF JoinSecond, AppPlaces
  <2>2. timer = "done" /\ recv.pc = "done"
    BY <1>7 DEF JoinSecond, EndedThreads
  <2>3. stamp' \in [Clocks -> 0..TickMax]
    BY <1>7, Zeros DEF JoinSecond
  <2>4. /\ recv' = [pc |-> "none", naks |-> 0, tmp |-> "TPLESS"] /\ timer' = "none"
        /\ flags' = {} /\ state' = "TPLESS" /\ reported' = "none" /\ evt' = FALSE
        /\ UNCHANGED <<conn, tpMutex, ctsWire, now>>
    BY <1>7 DEF JoinSecond
  <2>5. recv' \in RecvStates
    BY <2>4, Zeros DEF RecvStates, RecvPlaces, States
  <2> QED BY <2>1, <2>2, <2>3, <2>4, <2>5 DEF RecvStates, RecvPlaces, TPTypeOK, Holders, Threads, AppStates, States
<1> QED BY <1>2, <1>3, <1>4, <1>5, <1>6, <1>7

-----------------------------------------------------------------------------

(* A handle that was never opened. *)
LEMMA InitInv == TPInit => Inv
<1> SUFFICES ASSUME TPInit PROVE Inv
  OBVIOUS
<1>1. app \in AppStates /\ recv \in RecvStates /\ stamp \in [Clocks -> 0..TickMax] /\ now \in 0..TickMax
  BY Zeros DEF TPInit, AppStates, AppPlaces, RecvStates, RecvPlaces, States
<1> QED BY <1>1 DEF TPInit, Inv, TPTypeOK, Holders, Threads, AppStates, AppPlaces, RecvStates,
                    RecvPlaces, States, Flags

(* Time and the cable change nothing that the invariant speaks of. *)
LEMMA NextInv == Inv /\ [TPNext]_tpVars => Inv'
<1> SUFFICES ASSUME Inv, [TPNext]_tpVars PROVE Inv'
  OBVIOUS
<1>1. CASE Tick \/ Plug \/ UNCHANGED tpVars
  <2>1. UNCHANGED <<conn, state, flags, tpMutex, evt, app, timer, recv, stamp, reported>>
    BY <1>1 DEF Tick, Plug, tpVars
  <2>2. now' \in 0..TickMax
    BY <1>1, TPAssumption DEF Tick, Plug, tpVars, Inv, TPTypeOK
  <2>3. ctsWire' \in BOOLEAN
    BY <1>1 DEF Tick, Plug, tpVars, Inv, TPTypeOK
  <2> QED BY <2>1, <2>2, <2>3 DEF Inv, TPTypeOK, Holders, Threads
<1> QED BY <1>1, RecvInv, TimerInv, CallInv, OpenCloseInv DEF TPNext, AppStep

(* Types for all limits, and the mutex held by exactly the thread that is between
   its lock and its unlock. *)
THEOREM TPTypeCorrect == TPSpec => []TPTypeOK
<1>1. Inv => TPTypeOK
  BY DEF Inv
<1> QED BY <1>1, InitInv, NextInv, PTL DEF TPSpec

(* The timer thread is always woken, because TPComm_Close ends it before it
   lets the receiving thread end (dn_tpcomm.c:903); also when a store into the
   byte of flags is lost. *)
THEOREM TimerAlwaysWoken == TPSpec => []TimerWoken
<1>1. Inv => TimerWoken
  BY DEF Inv, Threads, TimerWoken
<1> QED BY <1>1, InitInv, NextInv, PTL DEF TPSpec

-----------------------------------------------------------------------------
(* Only the receiving thread, opening and closing change what was told, or the state. *)
LEMMA ToldStep == ~TornFlags /\ Inv /\ Told /\ [TPNext]_tpVars => Told'
<1> SUFFICES ASSUME ~TornFlags, Inv, Told, [TPNext]_tpVars PROVE Told'
  OBVIOUS
<1>1. recv \in RecvStates
  BY DEF Inv, TPTypeOK, RecvStates, RecvPlaces
<1>2. CASE RecvReport
  <2>1. CASE Due(state, recv.tmp)
    <3>1. recv'.pc = "commit" /\ recv'.tmp = recv.tmp
      BY <1>1, <1>2, <2>1 DEF RecvReport, RecvStates
    <3>2. (state = "CONNECT") <=> (reported = "CONNECT")
      BY <1>2 DEF RecvReport, Told
    <3>3. reported' = IF Report(state, recv.tmp) = "none" THEN reported ELSE Report(state, recv.tmp)
      BY <1>2, <2>1 DEF RecvReport
    <3>4. recv.tmp \in States
      BY <1>1 DEF RecvStates
    <3> QED BY <3>1, <3>2, <3>3, <3>4 DEF Report, Told, States
  <2>2. CASE ~Due(state, recv.tmp)
    BY <1>1, <1>2, <2>2 DEF RecvReport, RecvStates, Told
  <2> QED BY <2>1, <2>2
<1>3. CASE RecvCommit
  <2>1. state' = recv.tmp /\ UNCHANGED reported
    BY <1>3 DEF RecvCommit, Stored
  <2>2. recv'.pc = "unlock" /\ recv.pc = "commit"
    BY <1>1, <1>3 DEF RecvCommit, RecvStates
  <2> QED BY <2>1, <2>2 DEF Told
<1>4. CASE TPComm_Open \/ JoinSecond
  BY <1>4 DEF TPComm_Open, JoinSecond, Told
<1>5. CASE RecvReceive
  <2>1. recv.pc = "receive" /\ UNCHANGED <<state, reported>>
    BY <1>5 DEF RecvReceive
  <2>2. recv'.pc # "commit"
    BY <1>1, <1>5 DEF RecvReceive, ReceivePacket, ReceiveFailed, RecvStates
  <2> QED BY <2>1, <2>2 DEF Told
<1>6. CASE RecvLoop \/ RecvLock \/ RecvUnlock \/ RecvSignal
  <2>1. recv.pc # "commit" /\ UNCHANGED <<state, reported>>
    BY <1>6 DEF RecvLoop, RecvLock, RecvUnlock, RecvSignal
  <2>2. recv'.pc # "commit"
    <3>1. CASE RecvLoop
      BY <1>1, <3>1 DEF RecvLoop, RecvStates
    <3>2. CASE RecvLock
      BY <1>1, <3>2 DEF RecvLock, RecvStates
    <3>3. CASE RecvUnlock
      BY <1>1, <3>3 DEF RecvUnlock, RecvStates
    <3>4. CASE RecvSignal
      BY <1>1, <3>4 DEF RecvSignal, RecvStates
    <3> QED BY <1>6, <3>1, <3>2, <3>3, <3>4
  <2> QED BY <2>1, <2>2 DEF Told
<1>7. CASE UNCHANGED <<state, recv, reported>>
  BY <1>7 DEF Told
<1>8. TimerStep \/ TimerLock \/ Tick \/ Plug \/ Call \/ AppLock \/ AppSend \/ AppReceive \/ AppUnlock
      \/ TPComm_Close \/ ClearFirst \/ JoinFirst \/ ClearSecond \/ UNCHANGED tpVars
      => UNCHANGED <<state, recv, reported>>
  BY DEF TimerStep, TimerLoop, TimerEvent, TimerReset, TimerWait, TimerLock, Tick, Plug, Call, AppLock,
         AppSend, AppReceive, AppUnlock, TPComm_Close, ClearFirst, JoinFirst, ClearSecond, tpVars
<1> QED BY <1>2, <1>3, <1>4, <1>5, <1>6, <1>7, <1>8 DEF TPNext, RecvStep, AppStep

(* As long as no store into the byte of flags is lost, the last report agrees
   with flags.state whenever the receiving thread is between two turns
   (dn_tpcomm.c:680-700). *)
THEOREM ReportsAreFaithful == ~TornFlags => (TPSpec => []ReportedFaithfully)
<1> SUFFICES ASSUME ~TornFlags PROVE TPSpec => []ReportedFaithfully
  OBVIOUS
<1>1. TPInit => Inv /\ Told
  BY InitInv DEF TPInit, Told
<1>2. Inv /\ Told /\ [TPNext]_tpVars => (Inv /\ Told)'
  BY NextInv, ToldStep
<1>3. Told => ReportedFaithfully
  BY DEF Told, ReportedFaithfully
<1> QED BY <1>1, <1>2, <1>3, PTL DEF TPSpec
=============================================================================
