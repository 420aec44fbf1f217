------------------------ MODULE BcapExchange_proofs ------------------------
(***************************************************************************)
(* Theorems about BcapExchange, for every value of its constants.          *)
(***************************************************************************)
EXTENDS BcapExchange_types

-----------------------------------------------------------------------------
(* The steps that concern the hand-over of a packet between the threads. *)

(* A packet that is answered at once leaves the shared packets, the events and
   the program counters of the two threads alone. *)
LEMMA RefusalsLeaveThePackets ==
    ASSUME NEW c, NEW i,
           \/ RefuseConnection(c, i) \/ AnswerRetry(c, i) \/ RefuseBusy(c, i)
           \/ RefuseObject(c, i) \/ RefuseOption(c, i)
    PROVE  UNCHANGED <<spc, execVars>>
  BY DEF RefuseConnection, AnswerRetry, RefuseBusy, RefuseObject, RefuseOption,
         serverVars

(* Neither do the clients and the link. *)
LEMMA EnvironmentLeavesThePackets ==
    ASSUME NEW c, ClientStep(c) \/ Lose(c) \/ Duplicate(c)
    PROVE  UNCHANGED <<spc, execVars>>
  BY DEF ClientStep, CallSome, Call, Timeout, ReceiveReply, Reopen, Lose,
         Duplicate, serverVars

(* comp_evt is created set: at first the receiver has the packets. *)
LEMMA HandOverInit == Init => HandOver
  BY DEF Init, HandOver

(* Every step of the two threads passes the packets on from the hand that has
   them, and no other step touches a holder. *)
LEMMA HandOverStep == HandOver /\ [Next]_vars => HandOver'
<1> SUFFICES ASSUME HandOver, [Next]_vars
             PROVE  HandOver'
  OBVIOUS
<1>1. ASSUME NEW c \in Peers, ClientStep(c) \/ Lose(c) \/ Duplicate(c)
      PROVE  HandOver'
  BY <1>1, EnvironmentLeavesThePackets DEF HandOver, execVars
<1>2. ASSUME NEW c \in Peers, Arrival(c)
      PROVE  HandOver'
  <2>1. PICK i \in DOMAIN toServer[c] :
           \/ RefuseConnection(c, i) \/ AnswerRetry(c, i) \/ RefuseBusy(c, i)
           \/ RefuseObject(c, i) \/ RefuseOption(c, i) \/ Accept(c, i)
    BY <1>2 DEF Arrival
  <2>2. CASE Accept(c, i)
    BY <2>2 DEF Accept, Incoming, Free, ResetComp, HandOver
  <2>3. CASE ~Accept(c, i)
    BY <2>1, <2>3, RefusalsLeaveThePackets DEF HandOver, execVars
  <2> QED  BY <2>2, <2>3
<1>3. CASE Signal
  BY <1>3 DEF Signal, HandOver
<1>4. CASE Complete
  BY <1>4 DEF Complete, HandOver, execVars
<1>5. CASE Executing
  BY <1>5 DEF Executing, HandOver, execVars
<1>6. CASE CheckTimeout
  BY <1>6 DEF CheckTimeout, HandOver, execVars
<1>7. CASE LeaveLoop \/ TerminateExec \/ ReleaseAll
  BY <1>7 DEF LeaveLoop, TerminateExec, ReleaseAll, HandOver, execVars
<1>8. CASE ExecStart
  BY <1>8 DEF ExecStart, HandOver
<1>9. CASE ExecFinish
  BY <1>9 DEF ExecFinish, SetComp, HandOver
<1>10. CASE ExecEnd
  BY <1>10 DEF ExecEnd, HandOver
<1>11. CASE UNCHANGED vars
  BY <1>11 DEF vars, serverVars, execVars, HandOver
<1> QED
  BY <1>1, <1>2, <1>3, <1>4, <1>5, <1>6, <1>7, <1>8, <1>9, <1>10, <1>11 DEF Next

(* HandOver in every state: comp_evt, exec_evt and the two program counters of
   receive_execute and exec_thread hand the shared packets over one at a time. *)
THEOREM HandOverInvariant == Spec => []HandOver
  BY HandOverInit, HandOverStep, PTL DEF Spec

-----------------------------------------------------------------------------
(* Only the holder of the packets writes them. *)

(* last_recv is replaced by Accept alone, which has seen comp_evt set. *)
LEMMA RequestStays ==
    ASSUME HandOver, Next, execEvt \/ xpc = "run"
    PROVE  lastRecv' = lastRecv
<1>1. ASSUME NEW c \in Peers, ClientStep(c) \/ Lose(c) \/ Duplicate(c)
      PROVE  lastRecv' = lastRecv
  BY <1>1, EnvironmentLeavesThePackets DEF execVars
<1>2. ASSUME NEW c \in Peers, Arrival(c)
      PROVE  lastRecv' = lastRecv
  <2>1. PICK i \in DOMAIN toServer[c] :
           \/ RefuseConnection(c, i) \/ AnswerRetry(c, i) \/ RefuseBusy(c, i)
           \/ RefuseObject(c, i) \/ RefuseOption(c, i) \/ Accept(c, i)
    BY <1>2 DEF Arrival
  <2>2. ~Accept(c, i)
    BY DEF Accept, Free, HandOver
  <2> QED
    BY <2>1, <2>2, RefusalsLeaveThePackets DEF execVars
<1>3. CASE Signal \/ Complete \/ Executing \/ CheckTimeout
  BY <1>3 DEF Signal, Complete, Executing, CheckTimeout, execVars
<1>4. CASE LeaveLoop \/ TerminateExec \/ ReleaseAll
  BY <1>4 DEF LeaveLoop, TerminateExec, ReleaseAll, execVars
<1>5. CASE ExecStart \/ ExecFinish \/ ExecEnd
  BY <1>5 DEF ExecStart, ExecFinish, ExecEnd
<1> QED
  BY <1>1, <1>2, <1>3, <1>4, <1>5 DEF Next

(* last_send is written by ExecStart and ExecFinish alone; comp_evt is not set
   before either of them. *)
LEMMA ResponseStays ==
    ASSUME HandOver, Next, compEvt
    PROVE  lastSend' = lastSend
<1>1. ASSUME NEW c \in Peers, ClientStep(c) \/ Lose(c) \/ Duplicate(c)
      PROVE  lastSend' = lastSend
  BY <1>1, EnvironmentLeavesThePackets DEF execVars
<1>2. ASSUME NEW c \in Peers, Arrival(c)
      PROVE  lastSend' = lastSend
  <2>1. PICK i \in DOMAIN toServer[c] :
           \/ RefuseConnection(c, i) \/ AnswerRetry(c, i) \/ RefuseBusy(c, i)
           \/ RefuseObject(c, i) \/ RefuseOption(c, i) \/ Accept(c, i)
    BY <1>2 DEF Arrival
  <2>2. CASE Accept(c, i)
    BY <2>2 DEF Accept
  <2> QED
    BY <2>1, <2>2, RefusalsLeaveThePackets DEF execVars
<1>3. CASE Signal \/ Complete \/ Executing \/ CheckTimeout
  BY <1>3 DEF Signal, Complete, Executing, CheckTimeout, execVars
<1>4. CASE LeaveLoop \/ TerminateExec \/ ReleaseAll
  BY <1>4 DEF LeaveLoop, TerminateExec, ReleaseAll, execVars
<1>5. ~ExecStart /\ ~ExecFinish
  BY DEF ExecStart, ExecFinish, HandOver
<1>6. CASE ExecEnd
  BY <1>6 DEF ExecEnd
<1> QED
  BY <1>1, <1>2, <1>3, <1>4, <1>5, <1>6 DEF Next

(* PacketsUntouched: recv_thread never replaces last_recv under exec_thread, and
   exec_thread never touches last_send once it is given back. *)
THEOREM PacketsStayUntouched == Spec => PacketsUntouched
<1>1. HandOver /\ [Next]_vars => [/\ execEvt \/ xpc = "run" => lastRecv' = lastRecv
                                  /\ compEvt => lastSend' = lastSend]_vars
  BY RequestStays, ResponseStays
<1> QED
  BY <1>1, HandOverInvariant, PTL DEF Spec, PacketsUntouched

-----------------------------------------------------------------------------
(* The server keeps the promise of HandOver. *)

(* Accept hands a request over, ExecStart starts it, ExecFinish finishes it and
   ExecEnd ends the thread; no other step moves the request. *)
LEMMA SharedStep == HandOver /\ [Next]_vars => [Shared!Next]_(Shared!vars)
<1> SUFFICES ASSUME HandOver, [Next]_vars PROVE [Shared!Next]_(Shared!vars)
  OBVIOUS
<1> USE DEF Shared!Next, Shared!vars
<1>1. ASSUME UNCHANGED <<compEvt, xpc>>, (spc' = "signal" \/ execEvt') <=> (spc = "signal" \/ execEvt)
      PROVE  [Shared!Next]_(Shared!vars)
  BY <1>1
<1>2. CASE UNCHANGED <<spc, execVars>>
  BY <1>1, <1>2 DEF execVars
<1>3. ASSUME NEW c \in Peers, ClientStep(c) \/ Lose(c) \/ Duplicate(c)
      PROVE  [Shared!Next]_(Shared!vars)
  BY <1>2, <1>3, EnvironmentLeavesThePackets
<1>4. ASSUME NEW c \in Peers, Arrival(c)
      PROVE  [Shared!Next]_(Shared!vars)
  <2>1. PICK i \in DOMAIN toServer[c] :
           \/ RefuseConnection(c, i) \/ AnswerRetry(c, i) \/ RefuseBusy(c, i)
           \/ RefuseObject(c, i) \/ RefuseOption(c, i) \/ Accept(c, i)
    BY <1>4 DEF Arrival
  <2>2. CASE Accept(c, i)
    <3>1. compEvt /\ ~compEvt' /\ spc' = "signal" /\ UNCHANGED xpc
      BY <2>2 DEF Accept, Free, ResetComp
    <3> QED BY <3>1 DEF Shared!HandTo
  <2>3. CASE ~Accept(c, i)
    BY <1>2, <2>1, <2>3, RefusalsLeaveThePackets
  <2> QED BY <2>2, <2>3
<1>5. CASE Signal
  BY <1>1, <1>5 DEF Signal
<1>6. CASE Complete \/ Executing \/ CheckTimeout
  BY <1>1, <1>6 DEF Complete, Executing, CheckTimeout, execVars
<1>7. CASE LeaveLoop \/ TerminateExec \/ ReleaseAll
  BY <1>1, <1>7 DEF LeaveLoop, TerminateExec, ReleaseAll, execVars
<1>8. CASE ExecStart
  <2>1. xpc = "wait" /\ execEvt /\ ~execEvt' /\ xpc' = "run" /\ UNCHANGED <<spc, compEvt>>
    BY <1>8 DEF ExecStart
  <2>2. ~compEvt /\ spc # "signal"
    BY <2>1 DEF HandOver
  <2> QED BY <2>1, <2>2 DEF Shared!Start
<1>9. CASE ExecFinish
  <2>1. xpc = "run" /\ xpc' = "wait" /\ compEvt' /\ UNCHANGED <<spc, execEvt>>
    BY <1>9 DEF ExecFinish, SetComp
  <2>2. ~compEvt /\ spc # "signal" /\ ~execEvt
    BY <2>1 DEF HandOver
  <2> QED BY <2>1, <2>2 DEF Shared!Finish
<1>10. CASE ExecEnd
  <2>1. xpc = "wait" /\ xpc' = "ended" /\ UNCHANGED <<spc, execEvt, compEvt>>
    BY <1>10 DEF ExecEnd
  <2>2. compEvt \/ spc = "signal" \/ execEvt
    BY <2>1 DEF HandOver
  <2> QED BY <2>1, <2>2 DEF Shared!End
<1>11. CASE UNCHANGED vars
  BY <1>2, <1>11 DEF vars, serverVars
<1> QED BY <1>3, <1>4, <1>5, <1>6, <1>7, <1>8, <1>9, <1>10, <1>11 DEF Next

(* What RequestsHandedOver says of safety: receive_execute, its retries, refusals,
   time limits and ends, and exec_thread only take steps of HandOver. *)
THEOREM ExchangeHandsOver == Spec => Shared!Safety
<1>1. Init => Shared!Init
  BY DEF Init, Shared!Init
<1> QED BY <1>1, HandOverInit, HandOverStep, SharedStep, PTL DEF Spec, Shared!Safety

-----------------------------------------------------------------------------
(* The packets of a client, wherever they are: under way, in packet_send, in
   last_recv.  The tries of a call are known by its number and by the serial of
   the first try, in reserv. *)
Queued(c) == {toServer[c][i] : i \in DOMAIN toServer[c]}
Known(c) == Queued(c) \cup {sent[c]} \cup (IF lastRecv.from = c THEN {lastRecv} ELSE {})
Proper(c, m) ==
    /\ m.call <= calls[c]
    /\ m.op # "RELEASE" => m.h = 0
    /\ m.call > 0 /\ link # "TCP" => m.reserv # 0
    /\ link \notin WdtLinks => m.op # "START_WDT"
PacketInv ==
    /\ \A c \in Clients : serial[c] > 0 /\ sent[c].call = calls[c]
    /\ \A c \in Clients : cpc[c] = "wait" => sent[c].from = c /\ sent[c].call > 0
    /\ \A c \in Clients : \A m \in Queued(c) : m.from = c /\ m.call > 0
    /\ \A c \in Clients : \A m \in Known(c) : Proper(c, m)
    /\ \A c \in Clients : \A m, n \in Known(c) : m.call = n.call => m.reserv = n.reserv

(* The elements of a concatenation. *)
LEMMA ConcatFront ==
    ASSUME NEW S, NEW a \in Seq(S), NEW b \in Seq(S), NEW k \in 1..Len(a)
    PROVE  (a \o b)[k] = a[k]
  OBVIOUS
LEMMA ConcatBack ==
    ASSUME NEW S, NEW a \in Seq(S), NEW b \in Seq(S), NEW k \in Len(a) + 1..Len(a) + Len(b)
    PROVE  (a \o b)[k] = b[k - Len(a)]
  OBVIOUS

(* RemoveAt and Append, by their elements. *)
LEMMA RemoveAtIs ==
    ASSUME NEW S, NEW s \in Seq(S), NEW i \in DOMAIN s
    PROVE  /\ DOMAIN RemoveAt(s, i) = 1..Len(s) - 1
           /\ \A k \in 1..Len(s) - 1 :
                  RemoveAt(s, i)[k] = IF k < i THEN s[k] ELSE s[k + 1]
<1> DEFINE a == SubSeq(s, 1, i - 1)
           b == SubSeq(s, i + 1, Len(s))
<1>1. i \in 1..Len(s) /\ Len(s) \in Nat
  OBVIOUS
<1>2. a \in Seq(S) /\ Len(a) = i - 1 /\ \A k \in 1..i - 1 : a[k] = s[k]
  BY <1>1
<1>3. b \in Seq(S) /\ Len(b) = Len(s) - i /\ \A k \in 1..Len(s) - i : b[k] = s[i + k]
  BY <1>1
<1>4. RemoveAt(s, i) = a \o b
  BY DEF RemoveAt
<1> HIDE DEF a, b
<1>5. a \o b \in Seq(S) /\ Len(a \o b) = Len(s) - 1
  BY <1>1, <1>2, <1>3
<1>6. ASSUME NEW k \in 1..Len(s) - 1
      PROVE  (a \o b)[k] = IF k < i THEN s[k] ELSE s[k + 1]
  <2>0. a \in Seq(S) /\ b \in Seq(S) /\ Len(a) = i - 1 /\ Len(b) = Len(s) - i
    BY <1>2, <1>3
  <2>1. CASE k < i
    <3>1. k \in 1..i - 1 /\ k \in 1..Len(a)
      BY <1>1, <2>0, <2>1
    <3>2. (a \o b)[k] = a[k]
      BY <2>0, <3>1, ConcatFront, Zenon
    <3> QED BY <1>2, <2>1, <3>1, <3>2
  <2>2. CASE ~(k < i)
    <3>0. k \in Len(a) + 1..Len(a) + Len(b) /\ Len(a) = i - 1
      BY <1>1, <2>0, <2>2
    <3>00. (a \o b)[k] = b[k - Len(a)]
      BY <2>0, <3>0, ConcatBack, Zenon
    <3>1. (a \o b)[k] = b[k - (i - 1)]
      BY <3>0, <3>00, Zenon
    <3>2. k - (i - 1) \in 1..Len(s) - i /\ i + (k - (i - 1)) = k + 1
      BY <1>1, <2>2
    <3> QED BY <1>3, <2>2, <3>1, <3>2
  <2> QED BY <2>1, <2>2
<1> QED BY <1>4, <1>5, <1>6

LEMMA RemoveAtElements ==
    ASSUME NEW S, NEW s \in Seq(S), NEW i \in DOMAIN s
    PROVE  \A k \in DOMAIN RemoveAt(s, i) : \E j \in DOMAIN s : RemoveAt(s, i)[k] = s[j]
<1> SUFFICES ASSUME NEW k \in DOMAIN RemoveAt(s, i)
             PROVE  \E j \in DOMAIN s : RemoveAt(s, i)[k] = s[j]
  OBVIOUS
<1>1. DOMAIN RemoveAt(s, i) = 1..Len(s) - 1 /\ Len(s) \in Nat
  BY RemoveAtIs
<1>3. k \in 1..Len(s) - 1
  BY <1>1
<1>4. RemoveAt(s, i)[k] = IF k < i THEN s[k] ELSE s[k + 1]
  BY <1>3, RemoveAtIs
<1>2. k \in DOMAIN s /\ k + 1 \in DOMAIN s
  BY <1>1, <1>3
<1> QED BY <1>2, <1>4

LEMMA AppendElements ==
    ASSUME NEW S, NEW s \in Seq(S), NEW p \in S
    PROVE  \A k \in DOMAIN Append(s, p) :
              Append(s, p)[k] = p \/ \E j \in DOMAIN s : Append(s, p)[k] = s[j]
  OBVIOUS

(* A step that makes no packet keeps PacketInv. *)
LEMMA NoNewPacket ==
    ASSUME PacketInv, UNCHANGED <<link, calls, sent>>,
           \A c \in Clients : serial'[c] > 0 /\ (cpc'[c] = "wait" => cpc[c] = "wait"),
           \A c \in Clients : Queued(c)' \subseteq Queued(c),
           \A c \in Clients : Known(c)' \subseteq Known(c)
    PROVE  PacketInv'
  BY DEF PacketInv, Proper

(* Nor does one that takes a packet off a queue, or repeats one. *)
LEMMA QueueShrinks ==
    ASSUME UNCHANGED <<sent, lastRecv>>, NEW c \in Clients, Queued(c)' \subseteq Queued(c)
    PROVE  Known(c)' \subseteq Known(c)
  BY DEF Known

LEMMA TakenQueue ==
    ASSUME TypeOK, NEW c \in Clients, NEW i \in DOMAIN toServer[c],
           toServer' = [toServer EXCEPT ![c] = RemoveAt(@, i)]
    PROVE  \A d \in Clients : Queued(d)' \subseteq Queued(d)
<1>1. toServer \in [Clients -> Seq(Request)]
  BY DEF TypeOK, NetTypeOK
<1>2. \A k \in DOMAIN RemoveAt(toServer[c], i) :
         \E j \in DOMAIN toServer[c] : RemoveAt(toServer[c], i)[k] = toServer[c][j]
  BY <1>1, RemoveAtElements
<1>3. ASSUME NEW d \in Clients PROVE Queued(d)' \subseteq Queued(d)
  <2>1. CASE d = c
    BY <1>1, <1>2, <2>1 DEF Queued
  <2>2. CASE d # c
    BY <1>1, <2>2 DEF Queued
  <2> QED BY <2>1, <2>2
<1> QED BY <1>3

(* Neither do the losses, repetitions and replies of the link. *)
LEMMA LinkPackets ==
    ASSUME TypeOK, PacketInv, NEW c \in Clients, Lose(c) \/ Duplicate(c)
    PROVE  PacketInv' /\ \A d \in Clients : Known(d)' \subseteq Known(d)
<1>0. UNCHANGED <<link, clientVars, serverVars>>
  BY DEF Lose, Duplicate
<1>1. toServer \in [Clients -> Seq(Request)]
  BY DEF TypeOK, NetTypeOK
<1>2. \A d \in Clients : Queued(d)' \subseteq Queued(d)
  <2>1. CASE UNCHANGED toServer
    BY <2>1 DEF Queued
  <2>2. ASSUME NEW i \in DOMAIN toServer[c], toServer' = [toServer EXCEPT ![c] = RemoveAt(@, i)]
        PROVE  \A d \in Clients : Queued(d)' \subseteq Queued(d)
    BY <2>2, TakenQueue
  <2>3. ASSUME NEW i \in DOMAIN toServer[c],
               toServer' = [toServer EXCEPT ![c] = Append(@, @[i])]
        PROVE  \A d \in Clients : Queued(d)' \subseteq Queued(d)
    <3>1. toServer[c][i] \in Request /\ toServer[c] \in Seq(Request)
      BY <1>1
    <3>2. \A k \in DOMAIN Append(toServer[c], toServer[c][i]) :
             \E j \in DOMAIN toServer[c] :
                 Append(toServer[c], toServer[c][i])[k] = toServer[c][j]
      BY <3>1, AppendElements
    <3>3. ASSUME NEW d \in Clients PROVE Queued(d)' \subseteq Queued(d)
      <4>1. CASE d = c
        BY <1>1, <2>3, <3>2, <4>1 DEF Queued
      <4>2. CASE d # c
        BY <1>1, <2>3, <4>2 DEF Queued
      <4> QED BY <4>1, <4>2
    <3> QED BY <3>3
  <2> QED BY <2>1, <2>2, <2>3 DEF Lose, Duplicate
<1>3. \A d \in Clients : Known(d)' \subseteq Known(d)
  BY <1>0, <1>2, QueueShrinks DEF clientVars, serverVars, execVars
<1> QED BY <1>0, <1>2, <1>3, NoNewPacket DEF clientVars, PacketInv

(* One pass of the retry loop makes one packet, m under the next serial. *)
LEMMA TryKnown ==
    ASSUME TypeOK, NEW c \in Clients, NEW m \in Request, Try(c, m), UNCHANGED lastRecv,
           NEW p, p = [m EXCEPT !.serial = serial[c]]
    PROVE  /\ p \in Request /\ p.from = m.from /\ p.call = m.call /\ p.reserv = m.reserv
           /\ p.op = m.op /\ p.h = m.h /\ p.serial = serial[c]
           /\ serial' = [serial EXCEPT ![c] = NextSerial(@)] /\ sent' = [sent EXCEPT ![c] = p]
           /\ \A d \in Clients : d # c => Queued(d)' = Queued(d) /\ Known(d)' = Known(d)
           /\ Queued(c)' \subseteq Queued(c) \cup {p} /\ Known(c)' \subseteq Known(c) \cup {p}
<1>1. /\ toServer \in [Clients -> Seq(Request)] /\ sent \in [Clients -> Request]
      /\ serial \in [Clients -> Serials] /\ calls \in [Clients -> Nat] /\ lastRecv \in Request
  BY DEF TypeOK, NetTypeOK, ClientTypeOK, ExecTypeOK
<1>2. /\ p \in Request /\ p.from = m.from /\ p.call = m.call /\ p.reserv = m.reserv
      /\ p.op = m.op /\ p.h = m.h /\ p.serial = serial[c]
  BY <1>1 DEF Request
<1>3. /\ serial' = [serial EXCEPT ![c] = NextSerial(@)] /\ sent' = [sent EXCEPT ![c] = p]
      /\ cpc' = [cpc EXCEPT ![c] = "wait"] \/ cpc' = [cpc EXCEPT ![c] = "idle"]
      /\ toServer' = toServer \/ toServer' = [toServer EXCEPT ![c] = Append(@, p)]
  BY DEF Try
<1>4. \A d \in Clients : d # c => Queued(d)' = Queued(d) /\ Known(d)' = Known(d)
  BY <1>1, <1>3 DEF Queued, Known
<1>5. Queued(c)' \subseteq Queued(c) \cup {p}
  <2>1. CASE toServer' = toServer
    BY <2>1 DEF Queued
  <2>2. CASE toServer' = [toServer EXCEPT ![c] = Append(@, p)]
    <3>1. \A k \in DOMAIN Append(toServer[c], p) :
             Append(toServer[c], p)[k] = p \/ \E j \in DOMAIN toServer[c] :
                                                 Append(toServer[c], p)[k] = toServer[c][j]
      BY <1>1, <1>2, AppendElements
    <3>2. toServer'[c] = Append(toServer[c], p)
      BY <1>1, <2>2
    <3> QED BY <3>1, <3>2 DEF Queued
  <2> QED BY <1>3, <2>1, <2>2
<1>6. Known(c)' \subseteq Known(c) \cup {p}
  BY <1>1, <1>3, <1>5 DEF Known
<1> QED BY <1>2, <1>3, <1>4, <1>5, <1>6

(* It is as proper as the packet it is made of. *)
LEMMA TryPackets ==
    ASSUME TypeOK, PacketInv, NEW c \in Clients, NEW m \in Request, Try(c, m),
           m.from = c, m.call > 0, m.call = calls'[c],
           calls' \in [Clients -> Nat], calls[c] <= calls'[c],
           \A d \in Clients : d # c => calls'[d] = calls[d],
           Proper(c, m)', UNCHANGED <<link, lastRecv>>,
           \A n \in Known(c) : n.call = m.call => n.reserv = m.reserv
    PROVE  PacketInv'
<1> DEFINE p == [m EXCEPT !.serial = serial[c]]
<1>1. /\ toServer \in [Clients -> Seq(Request)] /\ sent \in [Clients -> Request]
      /\ serial \in [Clients -> Serials] /\ calls \in [Clients -> Nat] /\ lastRecv \in Request
  BY DEF TypeOK, NetTypeOK, ClientTypeOK, ExecTypeOK
<1>2. /\ p \in Request /\ p.from = m.from /\ p.call = m.call /\ p.reserv = m.reserv
      /\ p.op = m.op /\ p.h = m.h
  BY TryKnown
<1>3. /\ serial' = [serial EXCEPT ![c] = NextSerial(@)] /\ sent' = [sent EXCEPT ![c] = p]
      /\ cpc' = [cpc EXCEPT ![c] = "wait"] \/ cpc' = [cpc EXCEPT ![c] = "idle"]
  BY DEF Try
<1>4. \A d \in Clients : d # c => Queued(d)' = Queued(d) /\ Known(d)' = Known(d)
  BY TryKnown
<1>5. Queued(c)' \subseteq Queued(c) \cup {p} /\ Known(c)' \subseteq Known(c) \cup {p}
  BY TryKnown
<1> HIDE DEF p
<1>7. \A d \in Clients : serial'[d] > 0 /\ sent'[d].call = calls'[d]
  <2>1. NextSerial(serial[c]) > 0
    BY <1>1, ExchangeAssumption DEF NextSerial, Serials, ExchangeAssumption
  <2>2. ASSUME NEW d \in Clients PROVE serial'[d] > 0 /\ sent'[d].call = calls'[d]
    <3>1. CASE d = c
      BY <1>1, <1>2, <1>3, <2>1, <3>1
    <3>2. CASE d # c
      BY <1>1, <1>3, <3>2 DEF PacketInv
    <3> QED BY <3>1, <3>2
  <2> QED BY <2>2
<1>8. ASSUME NEW d \in Clients, NEW n \in Queued(d)' PROVE n.from = d /\ n.call > 0
  BY <1>2, <1>4, <1>5, <1>8 DEF PacketInv
<1>9. ASSUME NEW d \in Clients, NEW n \in Known(d)' PROVE Proper(d, n)'
  <2>1. CASE n \in Known(d)
    <3>1. n \in Request
      BY <1>1, <2>1 DEF Known, Queued
    <3>2. Proper(d, n)
      BY <2>1 DEF PacketInv
    <3>3. calls[d] <= calls'[d] /\ n.call \in Nat
      <4>1. CASE d = c
        BY <1>1, <3>1, <4>1 DEF Request
      <4>2. CASE d # c
        BY <1>1, <3>1, <4>2 DEF Request
      <4> QED BY <4>1, <4>2
    <3> QED BY <1>1, <3>2, <3>3 DEF Proper
  <2>2. CASE n = p /\ d = c
    BY <1>2, <2>2 DEF Proper
  <2> QED BY <1>4, <1>5, <1>9, <2>1, <2>2
<1>10. ASSUME NEW d \in Clients, NEW n \in Known(d)', NEW o \in Known(d)', n.call = o.call
       PROVE  n.reserv = o.reserv
  BY <1>2, <1>4, <1>5, <1>10 DEF PacketInv
<1>11. ASSUME NEW d \in Clients, cpc'[d] = "wait" PROVE sent'[d].from = d /\ sent'[d].call > 0
  <2>1. cpc \in [Clients -> {"idle", "wait"}]
    BY DEF TypeOK, ClientTypeOK
  <2>2. CASE d = c
    BY <1>1, <1>2, <1>3, <2>2
  <2>3. CASE d # c
    <3>1. cpc[d] = "wait" /\ sent'[d] = sent[d]
      BY <1>1, <1>3, <1>11, <2>1, <2>3
    <3> QED BY <3>1 DEF PacketInv
  <2> QED BY <2>2, <2>3
<1> QED BY <1>7, <1>8, <1>9, <1>10, <1>11 DEF PacketInv

(* The client: a call is numbered after all packets there are. *)
LEMMA ClientPackets ==
    ASSUME TypeOK, PacketInv, NEW c \in Clients, ClientStep(c)
    PROVE  PacketInv'
<1>0. UNCHANGED <<link, lastRecv>>
  BY EnvironmentLeavesThePackets DEF ClientStep, CallSome, Call, Timeout, ReceiveReply, Reopen, execVars
<1>1. /\ sent \in [Clients -> Request] /\ serial \in [Clients -> Serials]
      /\ calls \in [Clients -> Nat] /\ toServer \in [Clients -> Seq(Request)] /\ lastRecv \in Request
      /\ cpc \in [Clients -> {"idle", "wait"}]
  BY DEF TypeOK, NetTypeOK, ClientTypeOK, ExecTypeOK
<1>2. ASSUME NEW op \in AllOps, NEW h \in Handles \cup {0}, op \in AskableOps, op # "RELEASE" => h = 0,
             Call(c, op, h)
      PROVE  PacketInv'
  <2>1. PICK m \in Request : Try(c, m) /\ m =
           [from |-> c, serial |-> 0, op |-> op, h |-> h, call |-> calls[c] + 1,
            reserv |-> IF link = "TCP" THEN 0 ELSE serial[c]]
    <3> DEFINE r == [from |-> c, serial |-> 0, op |-> op, h |-> h, call |-> calls[c] + 1,
                     reserv |-> IF link = "TCP" THEN 0 ELSE serial[c]]
    <3>1. r \in Request
      BY <1>1, ExchangeAssumption DEF Request, Serials, ExchangeAssumption
    <3>2. Try(c, r)
      BY <1>2 DEF Call
    <3> HIDE DEF r
    <3> QED BY <3>1, <3>2 DEF r
  <2>2. /\ m.from = c /\ m.call = calls[c] + 1 /\ m.op = op /\ m.h = h
        /\ link # "TCP" => m.reserv = serial[c]
    BY <2>1
  <2>3. calls' = [calls EXCEPT ![c] = @ + 1] /\ serial[c] > 0
    BY <1>2 DEF Call, PacketInv
  <2>4. calls' \in [Clients -> Nat] /\ m.call = calls'[c]
    BY <1>1, <2>2, <2>3
  <2>5. m.call > 0 /\ calls[c] <= calls'[c]
    BY <1>1, <2>2, <2>4
  <2>6. \A d \in Clients : d # c => calls'[d] = calls[d]
    BY <1>1, <2>3
  <2>7. Proper(c, m)'
    <3>1. m.call <= calls'[c]
      BY <2>4
    <3>2. link' # "TCP" => m.reserv # 0
      BY <1>0, <1>1, <2>2, <2>3 DEF Serials
    <3>3. link' \notin WdtLinks => op # "START_WDT"
      BY <1>0, <1>2 DEF AskableOps
    <3> QED BY <1>2, <2>2, <3>1, <3>2, <3>3 DEF Proper
  <2>8. \A n \in Known(c) : n.call # m.call
    <3> SUFFICES ASSUME NEW n \in Known(c) PROVE n.call # m.call
      OBVIOUS
    <3>1. n \in Request /\ n.call <= calls[c]
      BY <1>1 DEF PacketInv, Proper, Known, Queued
    <3> QED BY <1>1, <2>2, <3>1 DEF Request
  <2> QED BY <1>0, <2>1, <2>2, <2>4, <2>5, <2>6, <2>7, <2>8, TryPackets
<1>3. CASE CallSome(c)
  <2>1. AskableOps \subseteq AllOps
    BY ExchangeAssumption DEF AskableOps, ExchangeAssumption
  <2> QED BY <1>2, <1>3, <2>1 DEF CallSome
<1>4. CASE /\ UNCHANGED <<toServer, sent, calls>>
           /\ \A d \in Clients : serial'[d] > 0 /\ (cpc'[d] = "wait" => cpc[d] = "wait")
  BY <1>0, <1>4, NoNewPacket DEF Known, Queued
<1>5. CASE Timeout(c)
  <2>1. CASE tries[c] < Tries
    <3>1. PICK m \in Request : m = sent[c] /\ Try(c, m)
      BY <1>1, <1>5, <2>1 DEF Timeout
    <3>2. calls' = calls /\ m \in Known(c) /\ m.call = calls[c] /\ m.from = c /\ m.call > 0
      BY <1>5, <3>1 DEF Timeout, Known, PacketInv
    <3>3. Proper(c, m)'
      BY <1>0, <3>2 DEF PacketInv, Proper
    <3>4. \A n \in Known(c) : n.call = m.call => n.reserv = m.reserv
      BY <3>2 DEF PacketInv
    <3>5. /\ calls' \in [Clients -> Nat] /\ calls[c] <= calls'[c] /\ m.call = calls'[c]
          /\ \A d \in Clients : d # c => calls'[d] = calls[d]
      BY <1>1, <3>2
    <3> QED BY <1>0, <3>1, <3>2, <3>3, <3>4, <3>5, TryPackets
  <2>2. CASE ~(tries[c] < Tries)
    BY <1>1, <1>4, <1>5, <2>2 DEF Timeout, PacketInv
  <2> QED BY <2>1, <2>2
<1>6. CASE \E i \in DOMAIN toClient[c] : ReceiveReply(c, i)
  BY <1>1, <1>4, <1>6 DEF ReceiveReply, PacketInv
<1>7. CASE Reopen(c)
  BY <1>1, <1>4, <1>7 DEF Reopen, PacketInv, netVars
<1> QED BY <1>3, <1>5, <1>6, <1>7 DEF ClientStep

(* receive_execute() takes packets off the queues; the one it goes on with
   becomes last_recv. *)
LEMMA ArrivalPackets ==
    ASSUME TypeOK, PacketInv, NEW c \in Clients, Arrival(c)
    PROVE  PacketInv' /\ \A d \in Clients : Known(d)' \subseteq Known(d)
<1>0. PICK i \in DOMAIN toServer[c] :
         \/ RefuseConnection(c, i) \/ AnswerRetry(c, i) \/ RefuseBusy(c, i)
         \/ RefuseObject(c, i) \/ RefuseOption(c, i) \/ Accept(c, i)
  BY DEF Arrival
<1>1. Incoming(c, i)
  BY <1>0 DEF RefuseConnection, AnswerRetry, RefuseBusy, RefuseObject, RefuseOption, Accept
<1>2. UNCHANGED <<link, clientVars>> /\ toServer' = [toServer EXCEPT ![c] = RemoveAt(@, i)]
  BY <1>1 DEF Incoming
<1>3. \A d \in Clients : Queued(d)' \subseteq Queued(d)
  BY <1>2, TakenQueue
<1>4. lastRecv' = lastRecv \/ lastRecv' = toServer[c][i]
  BY <1>0, RefusalsLeaveThePackets DEF Accept, execVars
<1>5. toServer[c][i] \in Queued(c) /\ toServer[c][i].from = c
  BY DEF Queued, PacketInv
<1>6. ASSUME NEW d \in Clients PROVE Known(d)' \subseteq Known(d)
  BY <1>2, <1>3, <1>4, <1>5 DEF Known, clientVars
<1> QED BY <1>2, <1>3, <1>6, NoNewPacket DEF clientVars, PacketInv

LEMMA PacketStep == TypeOK /\ PacketInv /\ [Next]_vars => PacketInv'
<1> SUFFICES ASSUME TypeOK, PacketInv, [Next]_vars PROVE PacketInv'
  OBVIOUS
<1>1. CASE \E c \in Peers : ClientStep(c) \/ Lose(c) \/ Duplicate(c) \/ Arrival(c)
  BY <1>1, PeersAreClients, ClientPackets, LinkPackets, ArrivalPackets
<1>2. CASE UNCHANGED <<link, clientVars, toServer, lastRecv>>
  <2>1. \A c \in Clients : Queued(c)' = Queued(c) /\ Known(c)' = Known(c)
    BY <1>2 DEF clientVars, Queued, Known
  <2> QED BY <1>2, <2>1, NoNewPacket DEF clientVars, PacketInv
<1>3. CASE Signal \/ Complete \/ Executing \/ CheckTimeout
  BY <1>2, <1>3 DEF Signal, Complete, Executing, CheckTimeout, netVars, execVars
<1>4. CASE LeaveLoop \/ TerminateExec \/ ReleaseAll
  BY <1>2, <1>4 DEF LeaveLoop, TerminateExec, ReleaseAll, netVars, execVars
<1>5. CASE ExecStart \/ ExecFinish \/ ExecEnd
  BY <1>2, <1>5 DEF ExecStart, ExecFinish, ExecEnd, netVars
<1>6. CASE UNCHANGED vars
  BY <1>2, <1>6 DEF vars, netVars, serverVars, execVars
<1> QED BY <1>1, <1>3, <1>4, <1>5, <1>6 DEF Next

LEMMA PacketInit == Init => PacketInv
<1> SUFFICES ASSUME Init PROVE PacketInv
  OBVIOUS
<1>1. \A c \in Clients : Queued(c) = {} /\ sent[c] = NoRequest /\ calls[c] = 0 /\ serial[c] > 0
  BY ExchangeAssumption DEF Init, Queued, ExchangeAssumption
<1>2. \A c \in Clients : Known(c) = {NoRequest}
  BY <1>1 DEF Init, Known
<1>3. NoRequest.call = 0 /\ NoRequest.h = 0 /\ NoRequest.op = "EXECUTE"
  BY DEF NoRequest
<1>4. \A c \in Clients : cpc[c] = "idle"
  BY DEF Init
<1> QED BY <1>1, <1>2, <1>3, <1>4 DEF PacketInv, Proper

(* The packets there are: every packet belongs to the client it names and to a
   call of this client, whose tries agree on reserv. *)
LEMMA Packets == Spec => [](TypeOK /\ PacketInv)
<1>1. TypeOK /\ PacketInv /\ TypeOK' /\ [Next]_vars => PacketInv'
  BY PacketStep
<1> QED BY <1>1, PacketInit, TypeCorrect, PTL DEF Spec

-----------------------------------------------------------------------------
(* The execution of a request, from Accept to Complete. *)
Waits == spc \in {"signal", "await", "check"}
Done == compEvt /\ spc \in {"await", "check"}

(* The reply being made bears the serial of the try that is executed; a receiver
   that has not given an execution up has no other under way; the client it
   works for has its node. *)
ExecInv ==
    /\ HandOver
    /\ xpc = "run" \/ Done => lastSend.serial = lastRecv.serial
    /\ Waits /\ link = "UDP" => Client \in nodes
    /\ Waits \/ ~compEvt => lastRecv.call > 0
    /\ ~abandoned /\ spc \in {"recv", "exit", "join", "done"} => compEvt

(* Without the WDT option no execution is given up. *)
PatientInv ==
    link \notin WdtLinks =>
        /\ \A c \in Clients : ~wdt[c]
        /\ spc # "check"
        /\ spc = "recv" => compEvt

(* A request that is executed passed the test of receive_execute: the reply
   remembered for its client is of another serial, and remains so over UDP. *)
FreshInv == ~compEvt /\ link = "UDP" => LastReply(Client).serial # RetryKey(lastRecv)

LEMMA ExecStep == TypeOK /\ PacketInv /\ ExecInv /\ [Next]_vars => ExecInv'
<1> SUFFICES ASSUME TypeOK, PacketInv, ExecInv, [Next]_vars PROVE ExecInv'
  OBVIOUS
<1>0. HandOver'
  BY HandOverStep DEF ExecInv
<1>1. CASE UNCHANGED <<link, spc, nodes, execVars, abandoned>>
  BY <1>0, <1>1 DEF ExecInv, execVars, Waits, Done, Client
<1>2. CASE \E c \in Peers : ClientStep(c) \/ Lose(c) \/ Duplicate(c)
  <2>1. PICK c \in Peers : ClientStep(c) \/ Lose(c) \/ Duplicate(c)
    BY <1>2
  <2>2. UNCHANGED <<link, spc, nodes, execVars, abandoned>>
    BY <2>1, EnvironmentLeavesThePackets
       DEF ClientStep, CallSome, Call, Timeout, ReceiveReply, Reopen, Lose, Duplicate,
           serverVars, nodeVars, historyVars
  <2> QED BY <1>1, <2>2
<1>3. CASE \E c \in Peers : Arrival(c)
  <2>1. PICK c \in Clients : Arrival(c)
    BY <1>3, PeersAreClients
  <2>2. PICK i \in DOMAIN toServer[c] :
           \/ RefuseConnection(c, i) \/ AnswerRetry(c, i) \/ RefuseBusy(c, i)
           \/ RefuseObject(c, i) \/ RefuseOption(c, i) \/ Accept(c, i)
    BY <2>1 DEF Arrival
  <2>3. UNCHANGED <<link, abandoned>> /\ spc = "recv"
    BY <2>2 DEF RefuseConnection, AnswerRetry, RefuseBusy, RefuseObject, RefuseOption, Accept,
                Incoming
  <2>4. CASE ~Accept(c, i)
    <3>1. UNCHANGED <<spc, execVars>>
      BY <2>2, <2>4, RefusalsLeaveThePackets
    <3> QED BY <1>0, <2>3, <3>1 DEF ExecInv, execVars, Waits, Done
  <2>5. CASE Accept(c, i)
    <3>1. toServer[c][i].from = c /\ toServer[c][i].call > 0
      BY DEF PacketInv, Queued
    <3>2. /\ lastRecv' = toServer[c][i] /\ spc' = "signal" /\ compEvt' = FALSE
          /\ UNCHANGED <<lastSend, xpc>>
      BY <2>5 DEF Accept, ResetComp
    <3>3. link = "UDP" => c \in nodes'
      BY <2>5 DEF Accept, Admissions, Admit
    <3>4. xpc # "run"
      BY <2>5 DEF Accept, Free, ExecInv, HandOver
    <3> QED BY <1>0, <2>3, <3>1, <3>2, <3>3, <3>4 DEF ExecInv, Waits, Done, Client
  <2> QED BY <2>4, <2>5
<1>4. CASE Signal
  BY <1>0, <1>4 DEF Signal, nodeVars, ExecInv, HandOver, Waits, Done, Client
<1>5. CASE Complete
  <2>1. /\ spc = "await" /\ compEvt /\ spc' \in {"recv", "exit"}
        /\ UNCHANGED <<link, execVars, abandoned>>
    BY <1>5 DEF Complete
  <2> QED BY <1>0, <2>1 DEF ExecInv, execVars, Waits, Done, HandOver
<1>6. CASE Executing
  BY <1>0, <1>6 DEF Executing, nodeVars, execVars, ExecInv, Waits, Done, Client
<1>7. CASE CheckTimeout
  BY <1>0, <1>7 DEF CheckTimeout, nodeVars, execVars, ExecInv, Waits, Done, Client
<1>8. CASE LeaveLoop \/ TerminateExec
  BY <1>0, <1>8 DEF LeaveLoop, TerminateExec, nodeVars, execVars, historyVars, ExecInv,
                    Waits, Done, Client
<1>9. CASE ReleaseAll
  BY <1>0, <1>9 DEF ReleaseAll, execVars, ExecInv, Waits, Done, Client
<1>10. CASE ExecStart
  <2>1. UNCHANGED <<link, spc, nodes, lastRecv, compEvt, abandoned>> /\ lastSend'.serial = lastRecv.serial
    BY <1>10 DEF ExecStart, nodeVars
  <2> QED BY <1>0, <2>1 DEF ExecInv, Waits, Done, Client
<1>11. CASE ExecFinish
  <2>1. /\ UNCHANGED <<link, spc, nodes, lastRecv, abandoned>>
        /\ compEvt' /\ xpc' = "wait" /\ xpc = "run"
    BY <1>11 DEF ExecFinish, nodeVars, SetComp
  <2>2. lastSend'.serial = lastSend.serial
    BY <1>11 DEF ExecFinish, TypeOK, ExecTypeOK, Reply
  <2> QED BY <1>0, <2>1, <2>2 DEF ExecInv, Waits, Done, Client
<1>12. CASE ExecEnd
  BY <1>0, <1>12 DEF ExecEnd, nodeVars, historyVars, ExecInv, Waits, Done, Client
<1>13. CASE UNCHANGED vars
  BY <1>1, <1>13 DEF vars, serverVars, nodeVars, historyVars
<1> QED
  BY <1>2, <1>3, <1>4, <1>5, <1>6, <1>7, <1>8, <1>9, <1>10, <1>11, <1>12, <1>13 DEF Next

(* What receive_execute() does to the node of a client while it takes in a
   packet: a reply that is remembered stays, or is forgotten with the node. *)
LEMMA AdmitReplies ==
    ASSUME TypeOK, NEW c \in Clients, NEW n \in Admissions(c), NEW w, Admit(c, n, w),
           link' = link, link = "UDP", NEW d \in Clients
    PROVE  /\ LastReply(d)' \in {LastReply(d), Fresh}
           /\ d \in n /\ d \in nodes => LastReply(d)' = LastReply(d)
           /\ LastReply(c)' = LastReply(c)
<1>1. c \in n
  BY DEF Admissions
<1>2. nodes' = n /\ cache' = [e \in Clients |-> IF link # "UDP" \/ e \in nodes \cap n
                                               THEN cache[e] ELSE Fresh]
  BY DEF Admit, Memory
<1>3. ASSUME NEW e \in Clients
      PROVE  LastReply(e)' = IF e \in n /\ e \in nodes THEN cache[e] ELSE Fresh
  BY <1>2 DEF LastReply
<1> QED BY <1>1, <1>3 DEF LastReply

LEMMA AdmitIntervals ==
    ASSUME TypeOK, NEW c \in Clients, NEW n, NEW w \in BOOLEAN, Admit(c, n, w)
    PROVE  \A d \in Clients : wdt'[d] => wdt[d] \/ (d = c /\ w)
<1>1. wdt \in [Clients -> BOOLEAN]
  BY DEF TypeOK, NodeTypeOK
<1>2. wdt' = [[d \in Clients |-> IF link # "UDP" \/ d \in nodes \cap n THEN wdt[d] ELSE FALSE]
                EXCEPT ![c] = w]
  BY DEF Admit, Memory
<1>3. ASSUME NEW d \in Clients
      PROVE  wdt'[d] = IF d = c THEN w
                       ELSE IF link # "UDP" \/ d \in nodes \cap n THEN wdt[d] ELSE FALSE
  BY <1>2, Zenon
<1> QED BY <1>3

(* One admission of a packet, with the interval that it leaves. *)
LEMMA ArrivalAdmits ==
    ASSUME TypeOK, NEW c \in Clients, NEW i \in DOMAIN toServer[c],
           \/ RefuseConnection(c, i) \/ AnswerRetry(c, i) \/ RefuseBusy(c, i)
           \/ RefuseObject(c, i) \/ RefuseOption(c, i) \/ Accept(c, i)
    PROVE  \/ UNCHANGED <<nodeVars, remembered>> /\ ~Accept(c, i)
           \/ \E n \in Admissions(c), w \in BOOLEAN :
                 /\ Admit(c, n, w)
                 /\ w = wdt[c] \/ w \in NewWdt(c, toServer[c][i].op)
                 /\ Accept(c, i) \/ Forget(n)
<1> USE DEF TypeOK, NodeTypeOK
<1>1. CASE RefuseConnection(c, i) /\ ~Accept(c, i)
  BY <1>1 DEF RefuseConnection, serverVars
<1>2. CASE AnswerRetry(c, i)
  BY <1>2 DEF AnswerRetry
<1>3. CASE RefuseBusy(c, i)
  BY <1>3 DEF RefuseBusy
<1>4. CASE RefuseObject(c, i)
  BY <1>4 DEF RefuseObject
<1>5. CASE RefuseOption(c, i)
  BY <1>5, IntervalType DEF RefuseOption
<1>6. CASE Accept(c, i)
  <2> DEFINE m == toServer[c][i]
  <2>1. PICK n \in Admissions(c), w \in NewWdt(c, m.op) : Admit(c, n, w)
    BY <1>6 DEF Accept
  <2> HIDE DEF m
  <2>2. w \in BOOLEAN
    BY IntervalType
  <2> QED BY <1>6, <2>1, <2>2 DEF m
<1> QED BY <1>1, <1>2, <1>3, <1>4, <1>5, <1>6

(* device.type never changes. *)
LEMMA LinkFixed == [Next]_vars => link' = link
<1> SUFFICES ASSUME [Next]_vars PROVE link' = link
  OBVIOUS
<1>1. ASSUME NEW c \in Peers, ClientStep(c) \/ Lose(c) \/ Duplicate(c) PROVE link' = link
  BY <1>1 DEF ClientStep, CallSome, Call, Timeout, ReceiveReply, Reopen, Lose, Duplicate
<1>2. ASSUME NEW c \in Peers, Arrival(c) PROVE link' = link
  BY <1>2 DEF Arrival, RefuseConnection, AnswerRetry, RefuseBusy, RefuseObject, RefuseOption,
              Accept, Incoming
<1>3. CASE Signal \/ Complete \/ Executing \/ CheckTimeout \/ LeaveLoop \/ TerminateExec
  BY <1>3 DEF Signal, Complete, Executing, CheckTimeout, LeaveLoop, TerminateExec
<1>4. CASE ReleaseAll \/ ExecStart \/ ExecFinish \/ ExecEnd
  BY <1>4 DEF ReleaseAll, ExecStart, ExecFinish, ExecEnd
<1>5. CASE UNCHANGED vars
  BY <1>5 DEF vars
<1> QED BY <1>1, <1>2, <1>3, <1>4, <1>5 DEF Next

LEMMA PatientStep == TypeOK /\ PacketInv /\ PatientInv /\ [Next]_vars => PatientInv'
<1> SUFFICES ASSUME TypeOK, PacketInv, PatientInv, [Next]_vars, link' \notin WdtLinks
             PROVE  /\ \A c \in Clients : ~wdt'[c]
                    /\ spc' # "check"
                    /\ spc' = "recv" => compEvt'
  BY DEF PatientInv
<1>0. link' = link
  BY LinkFixed
<1>00. /\ \A c \in Clients : ~wdt[c]
       /\ spc # "check" /\ (spc = "recv" => compEvt)
  BY <1>0 DEF PatientInv
<1>1. CASE UNCHANGED <<wdt, spc, compEvt>>
  BY <1>00, <1>1
<1>2. CASE \E c \in Peers : ClientStep(c) \/ Lose(c) \/ Duplicate(c)
  BY <1>1, <1>2, EnvironmentLeavesThePackets
     DEF ClientStep, CallSome, Call, Timeout, ReceiveReply, Reopen, Lose, Duplicate,
         serverVars, nodeVars, execVars
<1>3. CASE \E c \in Peers : Arrival(c)
  <2>1. PICK c \in Clients : Arrival(c)
    BY <1>3, PeersAreClients
  <2>2. PICK i \in DOMAIN toServer[c] :
           \/ RefuseConnection(c, i) \/ AnswerRetry(c, i) \/ RefuseBusy(c, i)
           \/ RefuseObject(c, i) \/ RefuseOption(c, i) \/ Accept(c, i)
    BY <2>1 DEF Arrival
  <2>3. toServer[c][i].op # "START_WDT"
    BY <1>0 DEF PacketInv, Proper, Known, Queued
  <2>4. spc' # "check" /\ (spc' = "recv" => compEvt')
    <3>1. CASE Accept(c, i)
      BY <3>1 DEF Accept
    <3>2. CASE ~Accept(c, i)
      BY <1>00, <2>2, <3>2, RefusalsLeaveThePackets DEF execVars
    <3> QED BY <3>1, <3>2
  <2>5. ASSUME NEW d \in Clients PROVE ~wdt'[d]
    <3>1. CASE UNCHANGED nodeVars
      BY <1>00, <3>1 DEF nodeVars
    <3>2. ASSUME NEW n \in Admissions(c), NEW w \in BOOLEAN, Admit(c, n, w),
                 w = wdt[c] \/ w \in NewWdt(c, toServer[c][i].op)
          PROVE  ~wdt'[d]
      <4>1. ~w
        BY <1>0, <1>00, <2>3, <3>2, Zenon DEF NewWdt
      <4> QED BY <1>00, <3>2, <4>1, AdmitIntervals
    <3> QED BY <2>2, <3>1, <3>2, ArrivalAdmits
  <2> QED BY <2>4, <2>5
<1>4. CASE Signal
  BY <1>00, <1>4 DEF Signal, nodeVars
<1>5. CASE Complete
  <2>1. /\ spc' \in {"recv", "exit"} /\ compEvt /\ compEvt' = compEvt
        /\ wdt' = wdt \/ wdt' = [wdt EXCEPT ![Client] = FALSE]
    BY <1>5 DEF Complete, execVars
  <2>2. ASSUME NEW d \in Clients PROVE ~wdt'[d]
    BY <1>00, <2>1, Zenon DEF TypeOK, NodeTypeOK
  <2> QED BY <2>1, <2>2
<1>6. CASE Executing \/ CheckTimeout
  <2>1. Client \in Clients
    BY DEF Client, TypeOK, ExecTypeOK, Request
  <2> QED BY <1>00, <1>6, <2>1 DEF Executing, CheckTimeout
<1>7. CASE LeaveLoop \/ TerminateExec
  BY <1>00, <1>7 DEF LeaveLoop, TerminateExec, nodeVars, execVars
<1>8. CASE ReleaseAll
  BY <1>00, <1>8 DEF ReleaseAll
<1>9. CASE ExecStart \/ ExecFinish \/ ExecEnd
  BY <1>00, <1>9 DEF ExecStart, ExecFinish, ExecEnd, SetComp, nodeVars
<1>10. CASE UNCHANGED vars
  BY <1>1, <1>10 DEF vars, serverVars, nodeVars, execVars
<1> QED BY <1>2, <1>3, <1>4, <1>5, <1>6, <1>7, <1>8, <1>9, <1>10 DEF Next

LEMMA FreshStep == TypeOK /\ PacketInv /\ ExecInv /\ FreshInv /\ [Next]_vars => FreshInv'
<1> SUFFICES ASSUME TypeOK, PacketInv, ExecInv, FreshInv, [Next]_vars, ~compEvt', link' = "UDP"
             PROVE  LastReply(Client)'.serial # RetryKey(lastRecv)'
  BY DEF FreshInv
<1>0. link = "UDP"
  BY LinkFixed
<1>00. Client \in Clients
  BY DEF Client, TypeOK, ExecTypeOK, Request
<1>1. ~compEvt => /\ LastReply(Client).serial # RetryKey(lastRecv)
                  /\ RetryKey(lastRecv) # Fresh.serial
  <2>1. ~compEvt => lastRecv.reserv # 0
    <3>1. lastRecv \in Known(Client)
      BY DEF Known, Client
    <3>2. Proper(Client, lastRecv)
      BY <1>00, <3>1 DEF PacketInv
    <3> QED BY <1>0, <3>2 DEF ExecInv, Proper
  <2> QED BY <1>0, <2>1 DEF FreshInv, RetryKey, Fresh
<1>2. CASE UNCHANGED <<nodes, cache, lastRecv, compEvt>>
  BY <1>0, <1>1, <1>2 DEF LastReply, RetryKey, Client
<1>3. CASE \E c \in Peers : ClientStep(c) \/ Lose(c) \/ Duplicate(c)
  BY <1>2, <1>3 DEF ClientStep, CallSome, Call, Timeout, ReceiveReply, Reopen, Lose, Duplicate,
                    serverVars, nodeVars, execVars
<1>4. CASE \E c \in Peers : Arrival(c)
  <2>1. PICK c \in Clients : Arrival(c)
    BY <1>4, PeersAreClients
  <2>2. PICK i \in DOMAIN toServer[c] :
           \/ RefuseConnection(c, i) \/ AnswerRetry(c, i) \/ RefuseBusy(c, i)
           \/ RefuseObject(c, i) \/ RefuseOption(c, i) \/ Accept(c, i)
    BY <2>1 DEF Arrival
  <2>3. CASE Accept(c, i)
    <3>1. lastRecv' = toServer[c][i] /\ ~IsRetry(c, toServer[c][i])
      BY <2>3 DEF Accept
    <3>2. toServer[c][i].from = c
      BY DEF PacketInv, Queued
    <3>3. LastReply(c)' = LastReply(c)
      BY <1>0, <2>3, AdmitReplies DEF Accept
    <3> QED BY <1>0, <3>1, <3>2, <3>3 DEF IsRetry, RetryKey, Client
  <2>4. CASE ~Accept(c, i)
    <3>1. UNCHANGED <<lastRecv, compEvt>>
      BY <2>2, <2>4, RefusalsLeaveThePackets DEF execVars
    <3>2. CASE UNCHANGED nodeVars
      BY <1>2, <3>1, <3>2 DEF nodeVars
    <3>3. ASSUME NEW n \in Admissions(c), NEW w \in BOOLEAN, Admit(c, n, w)
          PROVE  LastReply(Client)'.serial # RetryKey(lastRecv)'
      <4>1. PICK d \in Clients : d = Client
        BY <1>00
      <4>2. LastReply(d)' \in {LastReply(d), Fresh}
        BY <1>0, <3>3, AdmitReplies
      <4> QED BY <1>1, <3>1, <4>1, <4>2 DEF RetryKey, Client
    <3> QED BY <2>2, <3>2, <3>3, ArrivalAdmits
  <2> QED BY <2>3, <2>4
<1>5. CASE Signal \/ Executing \/ CheckTimeout \/ LeaveLoop \/ TerminateExec \/ ExecStart \/ ExecEnd
  BY <1>2, <1>5 DEF Signal, Executing, CheckTimeout, LeaveLoop, TerminateExec, ExecStart,
                    ExecEnd, nodeVars, execVars
<1>6. CASE Complete
  BY <1>6 DEF Complete, execVars
<1>9. CASE ExecFinish
  BY <1>9 DEF ExecFinish, SetComp
<1>7. CASE ReleaseAll
  <2>1. nodes' = {} /\ lastRecv' = lastRecv /\ compEvt' = compEvt
    BY <1>7 DEF ReleaseAll, execVars
  <2> QED BY <1>0, <1>1, <2>1 DEF LastReply, RetryKey, Client
<1>8. CASE UNCHANGED vars
  BY <1>2, <1>8 DEF vars, serverVars, nodeVars, execVars
<1> QED BY <1>3, <1>4, <1>5, <1>6, <1>7, <1>8, <1>9 DEF Next

LEMMA Executions == Spec => [](TypeOK /\ PacketInv /\ ExecInv /\ PatientInv /\ FreshInv)
<1>1. Init => ExecInv /\ PatientInv /\ FreshInv
  <2> SUFFICES ASSUME Init PROVE ExecInv /\ PatientInv /\ FreshInv
    OBVIOUS
  <2>1. HandOver
    BY HandOverInit
  <2>2. \A c \in Clients : ~wdt[c]
    BY Zenon DEF Init
  <2> QED BY <2>1, <2>2 DEF Init, ExecInv, PatientInv, FreshInv, Waits, Done
<1>2. /\ TypeOK /\ PacketInv /\ ExecInv /\ PatientInv /\ FreshInv /\ [Next]_vars
      => ExecInv' /\ PatientInv' /\ FreshInv'
  BY ExecStep, PatientStep, FreshStep
<1> QED BY <1>1, <1>2, Packets, PTL DEF Spec

(* "If already responded, then does not execute": a packet that receive_execute
   takes for a retry is of a request that has been responded to, not of one that
   exec_thread still runs, unless the client of a serial line asks for the WDT
   option: there the reply under construction is the one that is compared. *)
THEOREM RetriesAreResponded ==
    ASSUME "COM" \notin Links \cap WdtLinks
    PROVE  Spec => []RetryMeansResponded
<1>1. TypeOK /\ PacketInv /\ ExecInv /\ PatientInv /\ FreshInv => RetryMeansResponded
  <2> SUFFICES ASSUME TypeOK, PacketInv, ExecInv, PatientInv, FreshInv,
                      NEW c \in Peers, NEW i \in Deliverable(toServer[c]),
                      spc = "recv", IsRetry(c, toServer[c][i]), xpc = "run",
                      lastRecv.from = c, lastRecv.call = toServer[c][i].call
               PROVE  FALSE
    BY DEF RetryMeansResponded
  <2>1. c \in Clients /\ i \in DOMAIN toServer[c] /\ link \in Links
    BY PeersAreClients DEF Deliverable, TypeOK
  <2>2. ~compEvt
    BY DEF ExecInv, HandOver
  <2>3. link = "UDP"
    <3>1. link # "TCP"
      BY DEF IsRetry
    <3>2. link # "COM"
      BY <2>1, <2>2 DEF PatientInv
    <3> QED BY <2>1, <3>1, <3>2, ExchangeAssumption DEF ExchangeAssumption
  <2>4. toServer[c][i].reserv = lastRecv.reserv
    BY <2>1 DEF PacketInv, Known, Queued
  <2>5. lastRecv.reserv # 0
    BY <2>1, <2>2, <2>3 DEF PacketInv, Proper, Known, ExecInv
  <2> QED BY <2>2, <2>3, <2>4, <2>5 DEF IsRetry, FreshInv, RetryKey, Client
<1> QED BY <1>1, Executions, PTL

-----------------------------------------------------------------------------
(* Over TCP a packet is sent once and none overtakes another: what is under way
   is of later calls than last_recv. *)
OrderInv ==
    /\ lastRecv.from \in Peers
    /\ \A c \in Clients : cpc[c] = "wait" => tries[c] > 0
    /\ link = "TCP" =>
          LET q == toServer[Solo] IN
          /\ \A i \in DOMAIN q : lastRecv.call < q[i].call
          /\ \A i, j \in DOMAIN q : i < j => q[i].call < q[j].call

(* What the server is bound to know of a call it is to execute once: that it
   executes it now, or the reply to it. *)
Serves == spc \in {"recv", "signal", "await", "check"}
Remembers(c) ==
    remembered[c] =>
        /\ c \in Peers /\ execs[c] <= 1
        /\ link = "UDP" => c \in nodes
        /\ lastRecv.from = c /\ lastRecv.call = calls[c] /\ (spc = "signal" \/ execEvt)
              => execs[c] = 0
        /\ link = "TCP" => lastRecv.call = calls[c]
        /\ link # "TCP" /\ Waits /\ lastRecv.from = c =>
              lastRecv.call = calls[c] /\ lastRecv.serial = sent[c].reserv
        /\ link # "TCP" /\ Serves /\ ~(Waits /\ lastRecv.from = c) =>
              LastReply(c).serial = sent[c].reserv /\ (lastRecv.from = c => compEvt)
RemInv == \A c \in Clients : Remembers(c)

LEMMA PeersFixed == [Next]_vars => Peers' = Peers
  BY LinkFixed DEF Peers

LEMMA OrderStep == TypeOK /\ PacketInv /\ OrderInv /\ [Next]_vars => OrderInv'
<1> SUFFICES ASSUME TypeOK, PacketInv, OrderInv, [Next]_vars PROVE OrderInv'
  OBVIOUS
<1> DEFINE q == toServer[Solo]
           Ordered(r, s) == /\ \A i \in DOMAIN s : r.call < s[i].call
                            /\ \A i, j \in DOMAIN s : i < j => s[i].call < s[j].call
<1>0. link' = link /\ Peers' = Peers
  BY LinkFixed, PeersFixed
<1>00. /\ Solo \in Clients /\ q \in Seq(Request) /\ toServer \in [Clients -> Seq(Request)]
       /\ calls \in [Clients -> Nat] /\ lastRecv \in Request
       /\ cpc \in [Clients -> {"idle", "wait"}] /\ tries \in [Clients -> 0..TryMax]
  BY ExchangeAssumption DEF ExchangeAssumption, TypeOK, NetTypeOK, ClientTypeOK, ExecTypeOK
<1>000. link = "TCP" => Ordered(lastRecv, q) /\ Peers = {Solo}
  BY DEF OrderInv, Peers
<1> SUFFICES /\ lastRecv'.from \in Peers
             /\ \A c \in Clients : cpc'[c] = "wait" => tries'[c] > 0
             /\ link = "TCP" => Ordered(lastRecv', toServer'[Solo])
  BY <1>0 DEF OrderInv
<1> HIDE DEF Ordered
<1>1. CASE UNCHANGED <<lastRecv, cpc, tries, toServer>>
  BY <1>000, <1>1 DEF OrderInv
<1>2. CASE \E c \in Peers : ClientStep(c)
  <2>1. PICK c \in Peers : ClientStep(c)
    BY <1>2
  <2>2. c \in Clients
    BY PeersAreClients
  <2>3. lastRecv' = lastRecv
    BY <2>1, EnvironmentLeavesThePackets DEF execVars
  <2>4. CASE CallSome(c)
    <3>1. PICK op \in AskableOps : \E h \in IF op = "RELEASE" THEN Handles ELSE {0} : Call(c, op, h)
      BY <2>4 DEF CallSome
    <3>2. PICK h \in Handles \cup {0} : Call(c, op, h)
      BY <3>1
    <3>3. tries' = [tries EXCEPT ![c] = 1]
      BY <3>2 DEF Call
    <3>4. PICK p : /\ p.call = calls[c] + 1
                   /\ toServer' = toServer \/ toServer' = [toServer EXCEPT ![c] = Append(@, p)]
                   /\ cpc' = [cpc EXCEPT ![c] = "wait"] \/ cpc' = [cpc EXCEPT ![c] = "idle"]
                   /\ p \in Request
      <4> DEFINE m == [from |-> c, serial |-> 0, op |-> op, h |-> h, call |-> calls[c] + 1,
                       reserv |-> IF link = "TCP" THEN 0 ELSE serial[c]]
                 p == [m EXCEPT !.serial = serial[c]]
      <4>1. Try(c, m)
        BY <3>2 DEF Call
      <4>2. p \in Request /\ p.call = calls[c] + 1
        <5>1. op \in AllOps /\ h \in Handles \cup {0}
          BY <3>1, <3>2, ExchangeAssumption DEF AskableOps, ExchangeAssumption
        <5>2. serial[c] \in Serials /\ calls[c] \in Nat /\ 0 \in Serials
          BY <2>2, ExchangeAssumption DEF TypeOK, ClientTypeOK, Serials, ExchangeAssumption
        <5> QED BY <2>2, <5>1, <5>2 DEF Request
      <4> QED BY <4>1, <4>2 DEF Try
    <3>5. \A d \in Clients : cpc'[d] = "wait" => tries'[d] > 0
      BY <1>00, <2>2, <3>3, <3>4 DEF OrderInv
    <3>6. ASSUME link = "TCP" PROVE Ordered(lastRecv, toServer'[Solo])
      <4>0. c = Solo
        BY <1>000, <2>1, <3>6
      <4>1. CASE toServer' = toServer
        BY <1>000, <3>6, <4>1
      <4>2. CASE toServer' = [toServer EXCEPT ![c] = Append(@, p)]
        <5>1. toServer'[Solo] = Append(q, p)
          BY <1>00, <4>0, <4>2
        <5>2. ASSUME NEW i \in DOMAIN q PROVE q[i].call <= calls[c] /\ q[i] \in Request
          BY <1>00, <4>0 DEF PacketInv, Proper, Known, Queued
        <5>3. lastRecv.call <= calls[c]
          BY <1>00, <1>000, <3>6, <4>0 DEF OrderInv, PacketInv, Proper, Known
        <5>4. calls[c] \in Nat /\ lastRecv.call \in Nat /\ \A i \in DOMAIN q : q[i].call \in Nat
          BY <1>00, <2>2, <5>2 DEF Request
        <5>5. DOMAIN Append(q, p) = 1..Len(q) + 1 /\ Len(q) \in Nat /\ DOMAIN q = 1..Len(q)
          BY <1>00, <3>4
        <5>6. \A i \in DOMAIN Append(q, p) :
                 Append(q, p)[i] = IF i = Len(q) + 1 THEN p ELSE q[i]
          BY <1>00, <3>4
        <5>7. \A i \in DOMAIN Append(q, p) : i # Len(q) + 1 => i \in DOMAIN q
          BY <5>5
        <5>8. ASSUME NEW i \in DOMAIN Append(q, p) PROVE lastRecv.call < Append(q, p)[i].call
          <6>1. CASE i = Len(q) + 1
            BY <3>4, <5>3, <5>4, <5>6, <6>1
          <6>2. CASE i # Len(q) + 1
            BY <1>000, <3>6, <5>6, <5>7, <6>2 DEF Ordered
          <6> QED BY <6>1, <6>2
        <5>9. ASSUME NEW i \in DOMAIN Append(q, p), NEW j \in DOMAIN Append(q, p), i < j
              PROVE  Append(q, p)[i].call < Append(q, p)[j].call
          <6>1. i # Len(q) + 1
            BY <5>5, <5>9
          <6>2. CASE j = Len(q) + 1
            BY <3>4, <5>2, <5>4, <5>6, <5>7, <6>1, <6>2
          <6>3. CASE j # Len(q) + 1
            BY <1>000, <3>6, <5>6, <5>7, <5>9, <6>1, <6>3 DEF Ordered
          <6> QED BY <6>2, <6>3
        <5> QED BY <5>1, <5>8, <5>9 DEF Ordered
      <4> QED BY <3>4, <4>1, <4>2
    <3> QED BY <2>3, <3>5, <3>6 DEF OrderInv
  <2>5. CASE Timeout(c)
    <3>1. cpc[c] = "wait" /\ tries[c] > 0
      BY <2>2, <2>5 DEF Timeout, OrderInv
    <3>2. CASE tries[c] < Tries
      <4>1. link # "TCP"
        BY <1>00, <2>2, <3>1, <3>2 DEF Tries
      <4>2. /\ tries' = [tries EXCEPT ![c] = @ + 1]
            /\ cpc' = [cpc EXCEPT ![c] = "wait"] \/ cpc' = [cpc EXCEPT ![c] = "idle"]
        BY <2>5, <3>2 DEF Timeout, Try
      <4>3. tries[c] + 1 > 0
        BY <1>00, <2>2, <3>1
      <4> QED BY <1>00, <2>2, <2>3, <4>1, <4>2, <4>3 DEF OrderInv
    <3>3. CASE ~(tries[c] < Tries)
      BY <1>00, <1>000, <2>2, <2>3, <2>5, <3>3 DEF Timeout, OrderInv
    <3> QED BY <3>2, <3>3
  <2>6. CASE (\E i \in DOMAIN toClient[c] : ReceiveReply(c, i)) \/ Reopen(c)
    BY <1>00, <1>000, <2>2, <2>3, <2>6 DEF ReceiveReply, Reopen, OrderInv, netVars
  <2> QED BY <2>1, <2>4, <2>5, <2>6 DEF ClientStep
<1>3. CASE \E c \in Peers : Lose(c) \/ Duplicate(c)
  BY <1>3 DEF Lose, Duplicate, OrderInv, clientVars, serverVars, execVars
<1>4. CASE \E c \in Peers : Arrival(c)
  <2>1. PICK c \in Peers : Arrival(c)
    BY <1>4
  <2>2. PICK i \in DOMAIN toServer[c] :
           \/ RefuseConnection(c, i) \/ AnswerRetry(c, i) \/ RefuseBusy(c, i)
           \/ RefuseObject(c, i) \/ RefuseOption(c, i) \/ Accept(c, i)
    BY <2>1 DEF Arrival
  <2>3. /\ c \in Clients /\ toServer[c][i].from = c
    BY PeersAreClients DEF PacketInv, Queued
  <2>4. Incoming(c, i)
    BY <2>2 DEF RefuseConnection, AnswerRetry, RefuseBusy, RefuseObject, RefuseOption, Accept
  <2>5. /\ UNCHANGED <<cpc, tries>> /\ i \in Deliverable(toServer[c])
        /\ toServer' = [toServer EXCEPT ![c] = RemoveAt(@, i)]
    BY <2>4 DEF Incoming, clientVars
  <2>6. lastRecv' = lastRecv \/ lastRecv' = toServer[c][i]
    BY <2>2, RefusalsLeaveThePackets DEF Accept, execVars
  <2>7. ASSUME link = "TCP" PROVE Ordered(lastRecv', toServer'[Solo])
    <3>1. c = Solo /\ i = 1
      BY <1>000, <2>1, <2>5, <2>7 DEF Deliverable
    <3> DEFINE r == RemoveAt(q, 1)
    <3>2. toServer'[Solo] = r
      BY <1>00, <2>5, <3>1
    <3>3. DOMAIN r = 1..Len(q) - 1 /\ Len(q) \in Nat /\ DOMAIN q = 1..Len(q) /\ 1 \in DOMAIN q
      BY <1>00, <2>2, <3>1, RemoveAtIs
    <3>4. \A k \in DOMAIN r : r[k] = q[k + 1] /\ k + 1 \in DOMAIN q /\ 1 < k + 1
      <4> SUFFICES ASSUME NEW k \in DOMAIN r PROVE r[k] = q[k + 1] /\ k + 1 \in DOMAIN q /\ 1 < k + 1
        OBVIOUS
      <4>1. k \in 1..Len(q) - 1
        BY <3>3
      <4>2. r[k] = IF k < 1 THEN q[k] ELSE q[k + 1]
        BY <1>00, <3>3, <4>1, RemoveAtIs
      <4> QED BY <3>3, <4>1, <4>2
    <3>5. \A j, k \in DOMAIN r : j < k => j + 1 < k + 1
      BY <3>3
    <3> HIDE DEF r
    <3>6. \A k \in DOMAIN r : lastRecv'.call < r[k].call
      BY <1>000, <2>6, <2>7, <3>1, <3>3, <3>4 DEF Ordered
    <3> QED BY <1>000, <2>7, <3>2, <3>4, <3>5, <3>6 DEF Ordered
  <2> QED BY <2>1, <2>3, <2>5, <2>6, <2>7 DEF OrderInv
<1>5. CASE Signal \/ Complete \/ Executing \/ CheckTimeout
  BY <1>1, <1>5 DEF Signal, Complete, Executing, CheckTimeout, clientVars, netVars, execVars
<1>6. CASE LeaveLoop \/ TerminateExec \/ ReleaseAll
  BY <1>1, <1>6 DEF LeaveLoop, TerminateExec, ReleaseAll, clientVars, netVars, execVars
<1>7. CASE ExecStart \/ ExecFinish \/ ExecEnd
  BY <1>1, <1>7 DEF ExecStart, ExecFinish, ExecEnd, clientVars, netVars
<1>8. CASE UNCHANGED vars
  BY <1>1, <1>8 DEF vars, clientVars, netVars, serverVars, execVars
<1> QED BY <1>2, <1>3, <1>4, <1>5, <1>6, <1>7, <1>8 DEF Next

(* A step that leaves the latest call, the packet being executed and the reply
   remembered for the client as they are. *)
LEMMA StillRemembered ==
    ASSUME NEW c \in Clients, Remembers(c), link' = link, Peers' = Peers, lastRecv' = lastRecv,
           remembered'[c] => remembered[c],
           calls'[c] = calls[c], execs'[c] = execs[c], sent'[c].reserv = sent[c].reserv,
           link = "UDP" /\ remembered'[c] => (c \in nodes => c \in nodes'),
           spc' = "signal" \/ execEvt' => spc = "signal" \/ execEvt,
           link # "TCP" /\ remembered'[c] /\ Serves' =>
               /\ Serves /\ (Waits /\ lastRecv.from = c <=> Waits' /\ lastRecv.from = c)
               /\ LastReply(c)'.serial = LastReply(c).serial /\ (compEvt => compEvt')
    PROVE  Remembers(c)'
<1> SUFFICES ASSUME remembered'[c]
             PROVE  /\ c \in Peers /\ execs[c] <= 1
                    /\ link = "UDP" => c \in nodes'
                    /\ lastRecv.from = c /\ lastRecv.call = calls[c] /\ (spc' = "signal" \/ execEvt')
                          => execs[c] = 0
                    /\ link = "TCP" => lastRecv.call = calls[c]
                    /\ link # "TCP" /\ Waits' /\ lastRecv.from = c =>
                          lastRecv.call = calls[c] /\ lastRecv.serial = sent[c].reserv
                    /\ link # "TCP" /\ Serves' /\ ~(Waits' /\ lastRecv.from = c) =>
                          LastReply(c)'.serial = sent[c].reserv /\ (lastRecv.from = c => compEvt')
  BY DEF Remembers
<1>1. Waits' => Serves'
  BY DEF Waits, Serves
<1> QED BY <1>1 DEF Remembers

LEMMA ClientRemembered ==
    ASSUME TypeOK, PacketInv, OrderInv, RemInv, NEW d \in Peers, ClientStep(d) \/ Lose(d) \/ Duplicate(d),
           NEW c \in Clients
    PROVE  Remembers(c)'
<1>0. link' = link /\ Peers' = Peers
  BY LinkFixed, PeersFixed DEF Next
<1>1. d \in Clients
  BY PeersAreClients
<1>2. UNCHANGED <<spc, execVars>>
  BY EnvironmentLeavesThePackets
<1>3. /\ calls \in [Clients -> Nat] /\ execs \in [Clients -> 0..2]
      /\ remembered \in [Clients -> BOOLEAN] /\ sent \in [Clients -> Request]
  BY DEF TypeOK, ClientTypeOK, HistoryTypeOK
<1>4. CASE /\ UNCHANGED <<remembered, nodes, cache>>
           /\ calls'[c] = calls[c] /\ execs'[c] = execs[c] /\ sent'[c].reserv = sent[c].reserv
  <2>1. LastReply(c)' = LastReply(c)
    BY <1>0, <1>2, <1>4 DEF LastReply, execVars
  <2>2. (Serves' <=> Serves) /\ (Waits' <=> Waits)
    BY <1>2 DEF Serves, Waits
  <2>3. Remembers(c)
    BY DEF RemInv
  <2> QED BY <1>0, <1>2, <1>4, <2>1, <2>2, <2>3, StillRemembered DEF execVars
<1>5. CASE CallSome(d)
  <2>1. PICK op, h : Call(d, op, h)
    BY <1>5 DEF CallSome
  <2>2. /\ remembered' = [remembered EXCEPT ![d] = FALSE] /\ calls' = [calls EXCEPT ![d] = @ + 1]
        /\ execs' = [execs EXCEPT ![d] = 0] /\ UNCHANGED serverVars
    BY <2>1 DEF Call
  <2>3. CASE c = d
    BY <1>3, <2>2, <2>3 DEF Remembers
  <2>4. CASE c # d
    <3>1. sent'[c] = sent[c]
      BY <1>1, <1>3, <2>1, <2>4 DEF Call, Try
    <3>2. remembered'[c] = remembered[c] /\ calls'[c] = calls[c] /\ execs'[c] = execs[c]
      BY <1>1, <1>3, <2>2, <2>4
    <3>3. Remembers(c)
      BY DEF RemInv
    <3>4. UNCHANGED <<nodes, cache>>
      BY <2>2 DEF serverVars, nodeVars
    <3>5. LastReply(c)' = LastReply(c)
      BY <1>0, <1>2, <3>4 DEF LastReply, execVars
    <3>6. (Serves' <=> Serves) /\ (Waits' <=> Waits)
      BY <1>2 DEF Serves, Waits
    <3> QED BY <1>0, <1>2, <3>1, <3>2, <3>3, <3>4, <3>5, <3>6, StillRemembered DEF execVars
  <2> QED BY <2>3, <2>4
<1>6. CASE Timeout(d)
  <2>1. UNCHANGED <<remembered, nodes, cache, calls, execs>>
    BY <1>6 DEF Timeout, serverVars, nodeVars, historyVars
  <2>2. sent'[c].reserv = sent[c].reserv
    <3>1. CASE tries[d] < Tries
      <4>1. sent' = [sent EXCEPT ![d] = [sent[d] EXCEPT !.serial = serial[d]]]
        BY <1>6, <3>1 DEF Timeout, Try
      <4>2. [sent[d] EXCEPT !.serial = serial[d]].reserv = sent[d].reserv
        BY <1>1, <1>3 DEF Request
      <4> QED BY <1>1, <1>3, <4>1, <4>2
    <3>2. CASE ~(tries[d] < Tries)
      BY <1>6, <3>2 DEF Timeout
    <3> QED BY <3>1, <3>2
  <2> QED BY <1>4, <2>1, <2>2
<1>7. CASE (\E i \in DOMAIN toClient[d] : ReceiveReply(d, i)) \/ Reopen(d)
  BY <1>4, <1>7 DEF ReceiveReply, Reopen, serverVars, nodeVars, historyVars
<1>8. CASE Lose(d) \/ Duplicate(d)
  BY <1>4, <1>8 DEF Lose, Duplicate, clientVars, serverVars, nodeVars, historyVars
<1> QED BY <1>5, <1>6, <1>7, <1>8 DEF ClientStep

(* A packet that is refused leaves what is remembered; one that is accepted is
   no retry, and so of a call that was not remembered. *)
LEMMA ArrivalRemembered ==
    ASSUME TypeOK, PacketInv, OrderInv, RemInv, NEW d \in Peers, Arrival(d), NEW c \in Clients
    PROVE  Remembers(c)'
<1>0. link' = link /\ Peers' = Peers
  BY LinkFixed, PeersFixed DEF Next
<1>1. d \in Clients /\ Remembers(c)
  BY PeersAreClients DEF RemInv
<1>2. PICK i \in DOMAIN toServer[d] :
         \/ RefuseConnection(d, i) \/ AnswerRetry(d, i) \/ RefuseBusy(d, i)
         \/ RefuseObject(d, i) \/ RefuseOption(d, i) \/ Accept(d, i)
  BY DEF Arrival
<1>3. Incoming(d, i)
  BY <1>2 DEF RefuseConnection, AnswerRetry, RefuseBusy, RefuseObject, RefuseOption, Accept
<1>4. UNCHANGED <<clientVars, execs>> /\ spc = "recv" /\ i \in Deliverable(toServer[d])
  BY <1>3 DEF Incoming
<1>5. remembered \in [Clients -> BOOLEAN] /\ execs \in [Clients -> 0..2]
  BY DEF TypeOK, HistoryTypeOK
<1>6. ~Waits /\ Serves
  BY <1>4 DEF Waits, Serves
<1>7. CASE UNCHANGED <<nodeVars, remembered>> /\ ~Accept(d, i)
  <2>1. UNCHANGED <<spc, execVars>>
    BY <1>2, <1>7, RefusalsLeaveThePackets
  <2>2. LastReply(c)' = LastReply(c)
    BY <1>0, <1>7, <2>1 DEF LastReply, nodeVars, execVars
  <2>3. (Serves' <=> Serves) /\ (Waits' <=> Waits)
    BY <2>1 DEF Serves, Waits
  <2> QED BY <1>0, <1>1, <1>4, <1>7, <2>1, <2>2, <2>3, StillRemembered
          DEF clientVars, nodeVars, execVars
<1>8. ASSUME NEW n \in Admissions(d), NEW w, Admit(d, n, w)
      PROVE  /\ nodes' = n
             /\ link = "UDP" /\ c \in n /\ c \in nodes => LastReply(c)' = LastReply(c)
  <2>1. nodes' = n
    BY <1>8 DEF Admit
  <2> QED BY <1>0, <1>1, <1>8, <2>1, AdmitReplies
<1>9. CASE ~Accept(d, i) /\ \E n \in Admissions(d), w \in BOOLEAN : Admit(d, n, w) /\ Forget(n)
  <2>1. PICK n \in Admissions(d), w \in BOOLEAN : Admit(d, n, w) /\ Forget(n)
    BY <1>9
  <2>2. UNCHANGED <<spc, execVars>>
    BY <1>2, <1>9, RefusalsLeaveThePackets
  <2>3. remembered'[c] => remembered[c] /\ (link = "UDP" => c \in n /\ c \in nodes)
    BY <2>1 DEF Forget, Memory
  <2>4. link # "TCP" /\ remembered'[c] => LastReply(c)' = LastReply(c)
    BY <1>0, <1>8, <2>1, <2>2, <2>3 DEF LastReply, execVars
  <2>5. (Serves' <=> Serves) /\ (Waits' <=> Waits)
    BY <2>2 DEF Serves, Waits
  <2>6. link = "UDP" /\ remembered'[c] => (c \in nodes => c \in nodes')
    BY <1>8, <2>1, <2>3
  <2> QED BY <1>0, <1>1, <1>4, <2>2, <2>3, <2>4, <2>5, <2>6, StillRemembered
          DEF clientVars, execVars
<1>10. CASE Accept(d, i)
  <2> DEFINE m == toServer[d][i]
  <2>1. PICK n \in Admissions(d), w \in NewWdt(d, m.op) :
           /\ Admit(d, n, w)
           /\ remembered' = [Memory(n, remembered, FALSE) EXCEPT ![d] =
                   m.call = calls[d] /\ (@ \/ (execs[d] = 0 /\ m.serial = RetryKey(m)))]
    BY <1>10 DEF Accept
  <2>2. /\ lastRecv' = m /\ spc' = "signal" /\ ~IsRetry(d, m) /\ UNCHANGED lastSend
        /\ compEvt' = FALSE
    BY <1>10 DEF Accept, ResetComp
  <2>3. m.from = d /\ m.call > 0 /\ m \in Known(d) /\ m \in Queued(d)
    BY <1>1 DEF PacketInv, Known, Queued
  <2>4. Waits' /\ Serves'
    BY <2>2 DEF Waits, Serves
  <2> SUFFICES ASSUME remembered'[c] PROVE Remembers(c)'
    BY DEF Remembers
  <2>5. CASE c # d
    <3>1. remembered'[c] = IF link # "UDP" \/ c \in nodes \cap n THEN remembered[c] ELSE FALSE
      BY <2>1, <2>5, Zenon DEF Memory
    <3>2. remembered[c] /\ c \in Peers
      BY <1>1, <3>1 DEF Remembers
    <3>3. link = "UDP"
      BY <2>5, <3>2 DEF Peers
    <3>4. c \in nodes /\ c \in n
      BY <3>1, <3>3
    <3>5. LastReply(c)' = LastReply(c) /\ c \in nodes'
      BY <1>8, <2>1, <3>3, <3>4
    <3> QED BY <1>0, <1>1, <1>4, <1>6, <2>2, <2>3, <2>5, <3>2, <3>3, <3>5
            DEF Remembers, clientVars
  <2>6. CASE c = d
    <3>1. /\ m.call = calls[c]
          /\ \/ remembered[c]
             \/ execs[c] = 0 /\ m.serial = RetryKey(m)
      <4> DEFINE f == Memory(n, remembered, FALSE)
      <4>1. f = [e \in Clients |-> IF link # "UDP" \/ e \in nodes \cap n THEN remembered[e] ELSE FALSE]
        BY DEF Memory
      <4>2. f[d] => remembered[d]
        BY <1>1, <4>1, Zenon
      <4>3. remembered'[d] = (m.call = calls[d] /\ (f[d] \/ (execs[d] = 0 /\ m.serial = RetryKey(m))))
        BY <1>1, <2>1, <4>1, Zenon
      <4> HIDE DEF f
      <4> QED BY <2>6, <4>2, <4>3
    <3>2. link # "TCP" => m.reserv # 0 /\ m.reserv = sent[c].reserv
      BY <1>1, <2>3, <2>6, <3>1 DEF PacketInv, Known, Proper
    <3>3. ~remembered[c]
      <4>1. CASE link = "TCP"
        <5>1. d = Solo /\ i = 1
          BY <1>4, <4>1 DEF Peers, Deliverable
        <5>2. lastRecv.call < m.call /\ lastRecv.call \in Nat
          BY <4>1, <5>1 DEF OrderInv, TypeOK, ExecTypeOK, Request
        <5> QED BY <1>1, <2>6, <3>1, <4>1, <5>2 DEF Remembers
      <4>2. CASE link # "TCP"
        <5>1. LastReply(d).serial # m.reserv
          BY <2>2, <3>2, <4>2 DEF IsRetry, RetryKey
        <5> QED BY <1>1, <1>6, <2>6, <3>2, <4>2, <5>1 DEF Remembers
      <4> QED BY <4>1, <4>2
    <3>4. execs[c] = 0 /\ (link # "TCP" => m.serial = sent[c].reserv)
      BY <3>1, <3>2, <3>3 DEF RetryKey
    <3>5. link = "UDP" => c \in nodes'
      BY <2>1, <2>6 DEF Admissions, Admit
    <3> HIDE DEF m
    <3> QED BY <1>0, <1>4, <2>2, <2>3, <2>4, <2>6, <3>1, <3>4, <3>5 DEF Remembers, clientVars
  <2> QED BY <2>5, <2>6
<1> QED BY <1>1, <1>2, <1>7, <1>9, <1>10, ArrivalAdmits

(* exec_thread begins the request at most once while it is remembered, and the
   reply it leaves bears the serial by which the retries are known. *)
LEMMA WorkRemembered ==
    ASSUME TypeOK, PacketInv, ExecInv, OrderInv, RemInv, NEW c \in Clients,
           Signal \/ Executing \/ CheckTimeout \/ LeaveLoop \/ TerminateExec \/ ReleaseAll
           \/ ExecStart \/ ExecFinish \/ ExecEnd
    PROVE  Remembers(c)'
<1>0. link' = link /\ Peers' = Peers
  BY LinkFixed, PeersFixed DEF Next
<1>1. Remembers(c)
  BY DEF RemInv
<1>2. remembered \in [Clients -> BOOLEAN] /\ execs \in [Clients -> 0..2] /\ Client \in Clients
  BY DEF TypeOK, HistoryTypeOK, ExecTypeOK, Client, Request
<1>3. CASE Signal
  <2>1. /\ UNCHANGED <<calls, execs, sent, lastRecv, remembered, nodes, cache, lastSend, compEvt>>
        /\ spc = "signal" /\ spc' \in {"exit", "await"}
    BY <1>3 DEF Signal, clientVars, nodeVars
  <2> QED BY <1>0, <1>1, <2>1, StillRemembered DEF Serves, Waits, LastReply
<1>4. CASE Executing
  <2>1. /\ UNCHANGED <<calls, execs, sent, remembered, nodes, cache, execVars>>
        /\ spc = "await" /\ spc' \in {"exit", "check"}
    BY <1>4 DEF Executing, clientVars, nodeVars
  <2> QED BY <1>0, <1>1, <2>1, StillRemembered DEF Serves, Waits, LastReply, execVars
<1>5. CASE CheckTimeout
  <2>1. /\ UNCHANGED <<calls, execs, sent, nodes, cache, execVars>>
        /\ spc = "check" /\ spc' \in {"recv", "await"}
        /\ \/ spc' = "await" /\ remembered' = remembered
           \/ remembered' = [remembered EXCEPT ![Client] = FALSE]
    BY <1>5 DEF CheckTimeout, clientVars, nodeVars
  <2>2. remembered'[c] => remembered[c] /\ (spc' = "recv" => lastRecv.from # c)
    BY <1>2, <2>1, Zenon DEF Client
  <2> QED BY <1>0, <1>1, <2>1, <2>2, StillRemembered DEF Serves, Waits, LastReply, execVars
<1>6. CASE LeaveLoop \/ TerminateExec
  <2>1. /\ UNCHANGED <<calls, execs, sent, remembered, nodes, cache, lastRecv, execEvt>>
        /\ spc' \in {"exit", "join"}
    BY <1>6 DEF LeaveLoop, TerminateExec, clientVars, nodeVars, execVars, historyVars
  <2> QED BY <1>0, <1>1, <2>1, StillRemembered DEF Serves, Waits
<1>7. CASE ReleaseAll
  BY <1>7 DEF ReleaseAll, Remembers
<1>8. CASE ExecStart
  <2>1. /\ UNCHANGED <<calls, sent, spc, nodes, cache, remembered, lastRecv, compEvt>>
        /\ execEvt /\ ~execEvt'
        /\ execs' = IF IsLatestCall
                    THEN [execs EXCEPT ![Client] = IF @ = 0 THEN 1 ELSE 2] ELSE execs
    BY <1>8 DEF ExecStart, clientVars, nodeVars
  <2>2. spc # "signal" /\ ~compEvt
    BY <2>1 DEF ExecInv, HandOver
  <2> SUFFICES ASSUME remembered[c] PROVE Remembers(c)'
    BY <2>1 DEF Remembers
  <2>3. execs'[c] <= 1
    <3>1. CASE IsLatestCall /\ Client = c
      <4>1. execs[c] = 0
        BY <1>1, <2>1, <3>1 DEF Remembers, IsLatestCall, Client
      <4>2. execs'[c] = 1
        BY <1>2, <2>1, <3>1, <4>1
      <4> QED BY <4>2
    <3>2. CASE ~(IsLatestCall /\ Client = c)
      <4>1. execs'[c] = execs[c]
        BY <1>2, <2>1, <3>2
      <4> QED BY <1>1, <4>1 DEF Remembers
    <3> QED BY <3>1, <3>2
  <2>4. link = "UDP" => LastReply(c)' = LastReply(c)
    BY <1>0, <2>1 DEF LastReply
  <2>5. link # "UDP" => lastRecv.from = c
    BY <1>1 DEF Remembers, OrderInv, Peers
  <2> QED BY <1>0, <1>1, <2>1, <2>2, <2>3, <2>4, <2>5 DEF Remembers, Serves, Waits
<1>9. CASE ExecFinish
  <2>1. /\ UNCHANGED <<calls, execs, sent, spc, nodes, cache, remembered, lastRecv, execEvt>>
        /\ compEvt' = TRUE /\ lastSend'.serial = lastSend.serial
    BY <1>9 DEF ExecFinish, SetComp, clientVars, nodeVars, TypeOK, ExecTypeOK, Reply
  <2> QED BY <1>0, <1>1, <2>1, StillRemembered DEF Serves, Waits, LastReply
<1>10. CASE ExecEnd
  <2>1. UNCHANGED <<calls, execs, sent, spc, nodes, cache, remembered, lastRecv, lastSend,
                    execEvt, compEvt>>
    BY <1>10 DEF ExecEnd, clientVars, nodeVars, historyVars
  <2> QED BY <1>0, <1>1, <2>1, StillRemembered DEF Serves, Waits, LastReply
<1> QED BY <1>3, <1>4, <1>5, <1>6, <1>7, <1>8, <1>9, <1>10

(* The reply that Complete sends is remembered for the retries of its call,
   unless the service has been stopped. *)
LEMMA CompleteRemembered ==
    ASSUME TypeOK, PacketInv, ExecInv, OrderInv, RemInv, NEW c \in Clients, Complete
    PROVE  Remembers(c)'
<1> DEFINE stops == link = "UDP" /\ lastRecv.op = "STOP" /\ lastSend.id = "S_OK"
<1>0. link' = link /\ Peers' = Peers
  BY LinkFixed, PeersFixed DEF Next
<1>1. Remembers(c)
  BY DEF RemInv
<1>2. /\ remembered \in [Clients -> BOOLEAN] /\ execs \in [Clients -> 0..2] /\ Client \in Clients
      /\ cache \in [Clients -> Reply]
  BY DEF TypeOK, HistoryTypeOK, ExecTypeOK, NodeTypeOK, Client, Request
<1>3. /\ spc = "await" /\ compEvt /\ UNCHANGED <<calls, sent, execs, execVars>>
      /\ nodes' = IF stops THEN nodes \ {Client} ELSE nodes
      /\ remembered' = IF stops THEN [remembered EXCEPT ![Client] = FALSE] ELSE remembered
      /\ \/ /\ spc' = "recv"
            /\ cache' = [d \in Clients |-> IF d # Client \/ link # "UDP" THEN cache[d]
                                           ELSE IF stops THEN Fresh ELSE lastSend]
         \/ spc' = "exit"
  BY DEF Complete, clientVars
<1>4. lastSend.serial = lastRecv.serial /\ (link = "UDP" => Client \in nodes)
  BY <1>3 DEF ExecInv, Done, Waits
<1>5. Waits /\ Serves /\ ~Waits' /\ (Serves' => spc' = "recv")
  BY <1>3 DEF Waits, Serves
<1> SUFFICES ASSUME remembered'[c] PROVE Remembers(c)'
  BY DEF Remembers
<1> HIDE DEF stops
<1>6. CASE lastRecv.from = c
  <2>1. ~stops /\ remembered[c]
    BY <1>2, <1>3, <1>6 DEF Client
  <2>2. nodes' = nodes
    BY <1>3, <2>1
  <2>3. link # "TCP" /\ Serves' => LastReply(c)' = lastSend
    BY <1>0, <1>2, <1>3, <1>4, <1>5, <1>6, <2>1, <2>2 DEF LastReply, Client, execVars
  <2> QED BY <1>0, <1>1, <1>3, <1>4, <1>5, <1>6, <2>1, <2>2, <2>3 DEF Remembers, execVars
<1>7. CASE lastRecv.from # c
  <2>1. remembered[c]
    BY <1>2, <1>3, <1>7, Zenon DEF Client
  <2>2. link = "UDP"
    BY <1>1, <1>7, <2>1 DEF Remembers, OrderInv, Peers
  <2>3. c \in nodes /\ c \in nodes'
    BY <1>1, <1>3, <1>7, <2>1, <2>2 DEF Remembers, Client
  <2>4. spc' = "recv" => LastReply(c)' = LastReply(c)
    BY <1>0, <1>3, <1>7, <2>2, <2>3 DEF LastReply, Client
  <2> QED BY <1>0, <1>1, <1>3, <1>5, <1>7, <2>1, <2>2, <2>3, <2>4 DEF Remembers, execVars
<1> QED BY <1>6, <1>7

LEMMA RemStep == TypeOK /\ PacketInv /\ ExecInv /\ OrderInv /\ RemInv /\ [Next]_vars => RemInv'
<1> SUFFICES ASSUME TypeOK, PacketInv, ExecInv, OrderInv, RemInv, [Next]_vars, NEW c \in Clients
             PROVE  Remembers(c)'
  BY DEF RemInv
<1>1. CASE UNCHANGED vars
  <2>1. UNCHANGED <<link, calls, sent, execs, spc, nodes, cache, execVars, remembered>>
    BY <1>1 DEF vars, clientVars, serverVars, nodeVars, historyVars
  <2>2. Remembers(c)' <=> Remembers(c)
    BY <2>1 DEF Remembers, Peers, Waits, Serves, LastReply, execVars
  <2> QED BY <2>2 DEF RemInv
<1>2. CASE Next
  BY <1>2, ClientRemembered, ArrivalRemembered, WorkRemembered, CompleteRemembered DEF Next
<1> QED BY <1>1, <1>2

LEMMA Remembered == Spec => [](TypeOK /\ PacketInv /\ ExecInv /\ OrderInv /\ RemInv)
<1>1. Init => OrderInv /\ RemInv
  <2> SUFFICES ASSUME Init PROVE OrderInv /\ RemInv
    OBVIOUS
  <2>1. \A c \in Clients : ~remembered[c] /\ cpc[c] = "idle" /\ toServer[c] = <<>>
    BY Zenon DEF Init
  <2>2. lastRecv.from = Solo /\ Solo \in Clients /\ Solo \in Peers
    BY ExchangeAssumption DEF Init, NoRequest, Peers, ExchangeAssumption
  <2> QED BY <2>1, <2>2 DEF OrderInv, RemInv, Remembers
<1>2. TypeOK /\ PacketInv /\ ExecInv /\ OrderInv /\ RemInv /\ [Next]_vars => OrderInv' /\ RemInv'
  BY OrderStep, RemStep
<1> QED BY <1>1, <1>2, Executions, PTL DEF Spec

(* "If already responded, then does not execute": a call whose first try was
   executed is not executed again by its retries, as long as the client's node
   stays and the receiver did not give the execution up. *)
THEOREM ExecutedOnceWhileRemembered == Spec => []OnceIfRemembered
<1>1. RemInv => OnceIfRemembered
  BY DEF RemInv, Remembers, OnceIfRemembered
<1> QED BY <1>1, Remembered, PTL

-----------------------------------------------------------------------------
(* The vector of objects and what the provider holds: each object is entered
   once, and the services that were started are told by their number. *)
Stops(v) == {k \in DOMAIN v : v[k].rel = "STOP"}
Holds(v, objects, services) ==
    /\ Released(v) = objects
    /\ Stopped(v) = services
    /\ \A j, k \in DOMAIN v : v[j] = v[k] /\ v[j].rel = "RELEASE" => j = k
    /\ \A k \in DOMAIN v : v[k].rel = "STOP" => v[k].h = 0

(* Renumbering entries does not change how many there are. *)
LEMMA Renumbered ==
    ASSUME NEW S, NEW T, IsFiniteSet(S), NEW f,
           f = [k \in S |-> f[k]],
           \A k \in S : f[k] \in T,
           \A j, k \in S : f[j] = f[k] => j = k,
           \A t \in T : \E k \in S : f[k] = t
    PROVE  IsFiniteSet(T) /\ Cardinality(T) = Cardinality(S)
<1>1. f \in Bijection(S, T)
  BY DEF Bijection, Injection, Surjection, IsInjective
<1> QED BY <1>1, FS_Bijection DEF ExistsBijection

LEMMA StopsFinite ==
    ASSUME NEW v \in Seq(Entry)
    PROVE  Stops(v) \in SUBSET (1..Len(v)) /\ IsFiniteSet(Stops(v)) /\ Cardinality(Stops(v)) \in Nat
<1>1. Len(v) \in Nat /\ DOMAIN v = 1..Len(v)
  OBVIOUS
<1>2. Stops(v) \in SUBSET (1..Len(v))
  BY <1>1 DEF Stops
<1>3. IsFiniteSet(1..Len(v))
  BY <1>1, FS_Interval
<1> QED BY <1>2, <1>3, FS_Subset, FS_CardinalityType

(* push_vector: a new object, or one more service. *)
LEMMA PushHolds ==
    ASSUME NEW v \in Seq(Entry), NEW e \in Entry, NEW objects, NEW services \in Int,
           Holds(v, objects, services)
    PROVE  /\ e.rel = "RELEASE" /\ e.h \notin objects
                 => Holds(<<e>> \o v, objects \cup {e.h}, services)
           /\ e.rel = "STOP" /\ e.h = 0 => Holds(<<e>> \o v, objects, services + 1)
<1> DEFINE w == <<e>> \o v
<1>1. /\ Len(v) \in Nat /\ DOMAIN v = 1..Len(v) /\ DOMAIN w = 1..Len(v) + 1
      /\ w[1] = e /\ \A k \in 1..Len(v) : w[k + 1] = v[k]
      /\ \A k \in DOMAIN v : v[k] \in Entry
  OBVIOUS
<1> HIDE DEF w
<1>2. /\ 1 \in DOMAIN w /\ \A k \in DOMAIN v : k + 1 \in DOMAIN w /\ w[k + 1] = v[k] /\ k + 1 # 1
      /\ \A j, k \in DOMAIN v : j + 1 = k + 1 => j = k
  BY <1>1
<1>3. \A k \in DOMAIN w : k = 1 \/ \E j \in DOMAIN v : k = j + 1
  <2> SUFFICES ASSUME NEW k \in DOMAIN w, k # 1 PROVE \E j \in DOMAIN v : k = j + 1
    OBVIOUS
  <2>1. k - 1 \in DOMAIN v /\ k = k - 1 + 1
    BY <1>1
  <2> QED BY <2>1
<1>4. \A x \in Released(w) : x \in Released(v) \/ (e.rel = "RELEASE" /\ x = e.h)
  BY <1>1, <1>2, <1>3 DEF Released
<1>5. /\ Released(v) \subseteq Released(w) /\ (e.rel = "RELEASE" => e.h \in Released(w))
  BY <1>1, <1>2 DEF Released
<1>6. /\ IsFiniteSet({k + 1 : k \in Stops(v)})
      /\ Cardinality({k + 1 : k \in Stops(v)}) = services
  <2> DEFINE S == Stops(v)
             T == {k + 1 : k \in S}
             f == [k \in S |-> k + 1]
  <2>1. S \subseteq DOMAIN v /\ IsFiniteSet(S) /\ Cardinality(S) = services
    BY StopsFinite DEF Holds, Stops, Stopped
  <2>2. f = [k \in S |-> f[k]] /\ \A k \in S : f[k] = k + 1
    OBVIOUS
  <2>3. \A k \in S : k + 1 \in T
    OBVIOUS
  <2>4. \A t \in T : \E k \in S : k + 1 = t
    OBVIOUS
  <2> HIDE DEF f, T, S
  <2>5. \A j, k \in S : f[j] = f[k] => j = k
    BY <1>2, <2>1, <2>2
  <2>6. (\A k \in S : f[k] \in T) /\ \A t \in T : \E k \in S : f[k] = t
    BY <2>2, <2>3, <2>4
  <2>7. IsFiniteSet(T) /\ Cardinality(T) = Cardinality(S)
    BY <2>1, <2>2, <2>5, <2>6, Renumbered
  <2> QED BY <2>1, <2>7 DEF S, T
<1>7. Stops(w) = {k + 1 : k \in Stops(v)} \cup (IF e.rel = "STOP" THEN {1} ELSE {})
  <2>1. ASSUME NEW k \in Stops(w)
        PROVE  k \in {j + 1 : j \in Stops(v)} \cup (IF e.rel = "STOP" THEN {1} ELSE {})
    BY <1>1, <1>2, <1>3 DEF Stops
  <2>2. ASSUME NEW k \in {j + 1 : j \in Stops(v)} \cup (IF e.rel = "STOP" THEN {1} ELSE {})
        PROVE  k \in Stops(w)
    BY <1>1, <1>2 DEF Stops
  <2> QED BY <2>1, <2>2
<1>8. 1 \notin {k + 1 : k \in Stops(v)}
  BY <1>2 DEF Stops
<1>9. ASSUME e.rel = "RELEASE", e.h \notin objects PROVE Holds(w, objects \cup {e.h}, services)
  <2>1. Stopped(w) = services
    BY <1>6, <1>7, <1>9 DEF Stops, Stopped
  <2>2. Released(w) = objects \cup {e.h}
    BY <1>4, <1>5, <1>9 DEF Holds
  <2>3. \A k \in DOMAIN v : v[k] # e
    BY <1>9 DEF Holds, Released
  <2>4. ASSUME NEW j \in DOMAIN w, NEW k \in DOMAIN w, w[j] = w[k], w[j].rel = "RELEASE" PROVE j = k
    BY <1>1, <1>2, <1>3, <2>3, <2>4 DEF Holds
  <2>5. \A k \in DOMAIN w : w[k].rel = "STOP" => w[k].h = 0
    BY <1>1, <1>2, <1>3, <1>9 DEF Holds
  <2> QED BY <2>1, <2>2, <2>4, <2>5 DEF Holds
<1>10. ASSUME e.rel = "STOP", e.h = 0 PROVE Holds(w, objects, services + 1)
  <2>1. Stopped(w) = services + 1
    <3> DEFINE T == {k + 1 : k \in Stops(v)}
    <3> HIDE DEF T
    <3>1. Stops(w) = T \cup {1} /\ 1 \notin T /\ IsFiniteSet(T) /\ Cardinality(T) = services
      BY <1>6, <1>7, <1>8, <1>10 DEF T
    <3>2. Cardinality(T \cup {1}) = services + 1
      BY <3>1, FS_AddElement
    <3> QED BY <3>1, <3>2 DEF Stops, Stopped
  <2>2. Released(w) = objects
    BY <1>4, <1>5, <1>10 DEF Holds
  <2>4. ASSUME NEW j \in DOMAIN w, NEW k \in DOMAIN w, w[j] = w[k], w[j].rel = "RELEASE" PROVE j = k
    BY <1>1, <1>2, <1>3, <1>10, <2>4 DEF Holds
  <2>5. \A k \in DOMAIN w : w[k].rel = "STOP" => w[k].h = 0
    BY <1>1, <1>2, <1>3, <1>10 DEF Holds
  <2> QED BY <2>1, <2>2, <2>4, <2>5 DEF Holds
<1> QED BY <1>9, <1>10 DEF w

(* An entry is removed: the object it is the only entry of, or one service. *)
LEMMA RemoveHolds ==
    ASSUME NEW v \in Seq(Entry), NEW i \in DOMAIN v, NEW objects, NEW services \in Int,
           Holds(v, objects, services)
    PROVE  /\ v[i].rel = "RELEASE" => Holds(RemoveAt(v, i), objects \ {v[i].h}, services)
           /\ v[i].rel = "STOP" => Holds(RemoveAt(v, i), objects, services - 1)
<1> DEFINE w == RemoveAt(v, i)
           at(k) == IF k < i THEN k ELSE k + 1
<1>1. /\ Len(v) \in Nat /\ DOMAIN v = 1..Len(v) /\ DOMAIN w = 1..Len(v) - 1
      /\ \A k \in DOMAIN w : w[k] = v[at(k)]
      /\ \A k \in DOMAIN v : v[k] \in Entry
  <2>1. /\ DOMAIN w = 1..Len(v) - 1
        /\ \A k \in 1..Len(v) - 1 : w[k] = IF k < i THEN v[k] ELSE v[k + 1]
    BY RemoveAtIs
  <2> QED BY <2>1
<1> HIDE DEF w
<1>2. /\ \A k \in DOMAIN w : at(k) \in DOMAIN v /\ at(k) # i
      /\ \A j, k \in DOMAIN w : at(j) = at(k) => j = k
  BY <1>1
<1>3. ASSUME NEW k \in DOMAIN v, k # i PROVE \E j \in DOMAIN w : at(j) = k
  <2>1. CASE k < i
    <3>1. k \in DOMAIN w /\ at(k) = k
      BY <1>1, <2>1
    <3> QED BY <3>1
  <2>2. CASE ~(k < i)
    <3>1. k - 1 \in DOMAIN w /\ at(k - 1) = k
      BY <1>1, <1>3, <2>2
    <3> QED BY <3>1
  <2> QED BY <2>1, <2>2
<1> HIDE DEF at
<1>4. \A x \in Released(w) : \E k \in DOMAIN v : k # i /\ v[k].rel = "RELEASE" /\ x = v[k].h
  BY <1>1, <1>2 DEF Released
<1>5. \A k \in DOMAIN v : k # i /\ v[k].rel = "RELEASE" => v[k].h \in Released(w)
  BY <1>1, <1>3 DEF Released
<1>6. Stopped(w) = Cardinality(Stops(v) \ {i})
  <2> DEFINE S == Stops(w)
             T == Stops(v) \ {i}
             f == [k \in S |-> at(k)]
  <2>1. w \in Seq(Entry)
    BY RemoveAtType DEF w
  <2>2. IsFiniteSet(S)
    BY <2>1, StopsFinite
  <2>3. f = [k \in S |-> f[k]] /\ \A k \in S : f[k] = at(k)
    OBVIOUS
  <2>4. S \subseteq DOMAIN w /\ \A k \in S : at(k) \in T
    BY <1>1, <1>2 DEF Stops
  <2>5. \A t \in T : \E k \in S : at(k) = t
    BY <1>1, <1>3 DEF Stops
  <2> HIDE DEF S, T, f
  <2>6. \A j, k \in S : f[j] = f[k] => j = k
    BY <1>2, <2>3, <2>4
  <2>8. (\A k \in S : f[k] \in T) /\ \A t \in T : \E k \in S : f[k] = t
    BY <2>3, <2>4, <2>5
  <2>7. Cardinality(T) = Cardinality(S)
    BY <2>2, <2>3, <2>6, <2>8, Renumbered
  <2> QED BY <2>7 DEF S, T, Stops, Stopped
<1>7. \A j, k \in DOMAIN w : w[j] = w[k] /\ w[j].rel = "RELEASE" => j = k
  BY <1>1, <1>2 DEF Holds
<1>8. \A k \in DOMAIN w : w[k].rel = "STOP" => w[k].h = 0
  BY <1>1, <1>2 DEF Holds
<1>9. IsFiniteSet(Stops(v)) /\ Cardinality(Stops(v)) = services
  BY StopsFinite DEF Holds, Stopped, Stops
<1>10. ASSUME v[i].rel = "RELEASE" PROVE Holds(w, objects \ {v[i].h}, services)
  <2>1. \A k \in DOMAIN v : k # i /\ v[k].rel = "RELEASE" => v[k].h # v[i].h
    <3> SUFFICES ASSUME NEW k \in DOMAIN v, k # i, v[k].rel = "RELEASE", v[k].h = v[i].h PROVE FALSE
      OBVIOUS
    <3>1. v[k] = v[i]
      BY <1>1, <1>10 DEF Entry
    <3> QED BY <1>10, <3>1 DEF Holds
  <2>2. ASSUME NEW x \in Released(w) PROVE x \in objects \ {v[i].h}
    <3>1. PICK k \in DOMAIN v : k # i /\ v[k].rel = "RELEASE" /\ x = v[k].h
      BY <1>4
    <3>2. x \in Released(v)
      BY <3>1 DEF Released
    <3> QED BY <2>1, <3>1, <3>2 DEF Holds
  <2>3. ASSUME NEW x \in objects \ {v[i].h} PROVE x \in Released(w)
    BY <1>5 DEF Holds, Released
  <2>4. i \notin Stops(v)
    BY <1>10 DEF Stops
  <2>5. Stopped(w) = services
    BY <1>6, <1>9, <2>4
  <2> QED BY <1>7, <1>8, <2>2, <2>3, <2>5 DEF Holds
<1>11. ASSUME v[i].rel = "STOP" PROVE Holds(w, objects, services - 1)
  <2>1. ASSUME NEW x \in Released(w) PROVE x \in objects
    <3>1. PICK k \in DOMAIN v : k # i /\ v[k].rel = "RELEASE" /\ x = v[k].h
      BY <1>4
    <3>2. x \in Released(v)
      BY <3>1 DEF Released
    <3> QED BY <3>2 DEF Holds
  <2>2. ASSUME NEW x \in objects PROVE x \in Released(w)
    BY <1>5, <1>11 DEF Holds, Released
  <2>3. i \in Stops(v)
    BY <1>11 DEF Stops
  <2>4. Stopped(w) = services - 1
    BY <1>6, <1>9, <2>3, FS_RemoveElement
  <2> QED BY <1>7, <1>8, <2>1, <2>2, <2>4 DEF Holds
<1> QED BY <1>10, <1>11 DEF w

(* search_vector finds an entry when there is one. *)
LEMMA PopIs ==
    ASSUME NEW v \in Seq(Entry), NEW m,
           \E k \in DOMAIN v : v[k] = [rel |-> m.op, h |-> m.h]
    PROVE  \E k \in DOMAIN v : v[k] = [rel |-> m.op, h |-> m.h] /\ Pop(v, m) = RemoveAt(v, k)
<1> DEFINE hits == {k \in DOMAIN v : v[k] = [rel |-> m.op, h |-> m.h]}
           first == CHOOSE k \in hits : \A j \in hits : k <= j
<1>1. hits # {} /\ hits \subseteq Nat
  OBVIOUS
<1>2. \E k \in hits : \A j \in hits : k <= j
  <2> HIDE DEF hits
  <2>1. PICK k \in hits : \A j \in hits : ~(<<j, k>> \in OpToRel(<, Nat))
    BY <1>1, NatLessThanWellFounded, WFMin
  <2>2. \A j \in hits : ~(j < k)
    BY <1>1, <2>1 DEF OpToRel
  <2>3. k \in Nat /\ \A j \in hits : j \in Nat
    BY <1>1
  <2>4. \A j \in hits : k <= j
    BY <2>2, <2>3
  <2> QED BY <2>4
<1>3. first \in hits
  BY <1>2
<1>4. Pop(v, m) = RemoveAt(v, first)
  BY <1>1 DEF Pop
<1> QED BY <1>3, <1>4

(* What the vector owes the provider: while no execution has been given up it
   holds what the provider holds, or will when Complete has updated it. *)
VectorInv == ~abandoned => Holds(IF Done THEN VectorAfter ELSE vector, live, started)

LEMMA EffectCases ==
    ASSUME NEW op, NEW h, NEW e \in Effects(op, h)
    PROVE  \/ e = [id |-> "E_FUNC", h |-> 0, live |-> live, started |-> started]
           \/ /\ op \in Starts
              /\ e = [id |-> "S_OK", h |-> 0, live |-> live, started |-> started + 1]
           \/ /\ op = "STOP" /\ started > 0
              /\ e = [id |-> "S_OK", h |-> 0, live |-> live, started |-> started - 1]
           \/ /\ op = "GET"
              /\ \E g \in Handles \ live :
                    e = [id |-> "S_OK", h |-> g, live |-> live \cup {g}, started |-> started]
           \/ /\ op = "RELEASE" /\ h \in live
              /\ e = [id |-> "S_OK", h |-> 0, live |-> live \ {h}, started |-> started]
           \/ /\ op = "EXECUTE"
              /\ e = [id |-> "S_OK", h |-> 0, live |-> live, started |-> started]
  BY DEF Effects, Starts

(* The vector is as exact after the function as before it. *)
LEMMA FinishHolds ==
    ASSUME TypeOK, PacketInv, ExecFinish, Holds(vector, live, started)
    PROVE  Holds(VectorAfter', live', started')
<1>1. /\ vector \in Seq(Entry) /\ live \subseteq Handles /\ started \in Int /\ 0 \notin Handles
      /\ lastRecv \in Request /\ lastSend \in Reply /\ lastRecv.h \in Handles \cup {0}
  BY ExchangeAssumption DEF TypeOK, ObjectTypeOK, ExecTypeOK, Request, ExchangeAssumption
<1>2. PICK e \in Effects(lastRecv.op, lastRecv.h) :
         /\ lastSend' = [lastSend EXCEPT !.id = e.id, !.h = e.h]
         /\ live' = e.live /\ started' = e.started
  BY DEF ExecFinish
<1>3. vector' = vector /\ lastRecv' = lastRecv
  BY DEF ExecFinish
<1>4. lastSend'.id = e.id /\ lastSend'.h = e.h
  BY <1>1, <1>2 DEF Reply
<1>5. lastRecv.op # "RELEASE" => lastRecv.h = 0
  <2>1. lastRecv \in Known(Client) /\ Client \in Clients
    BY <1>1 DEF Known, Client, Request
  <2> QED BY <2>1 DEF PacketInv, Proper
<1>6. VectorAfter' = IF e.id # "S_OK" THEN vector
                     ELSE IF lastRecv.op \in Creating THEN Push(vector, lastRecv, e.h)
                     ELSE IF lastRecv.op \in {"STOP", "RELEASE"} THEN Pop(vector, lastRecv)
                     ELSE vector
  BY <1>3, <1>4 DEF VectorAfter
<1>7. CASE e = [id |-> "E_FUNC", h |-> 0, live |-> live, started |-> started]
  BY <1>2, <1>6, <1>7
<1>8. CASE lastRecv.op \in Starts /\ e = [id |-> "S_OK", h |-> 0, live |-> live, started |-> started + 1]
  <2>1. e.id = "S_OK" /\ e.live = live /\ e.started = started + 1 /\ e.h = 0
    BY <1>8
  <2>2. Push(vector, lastRecv, e.h) = <<[rel |-> "STOP", h |-> 0]>> \o vector
    BY <1>8 DEF Push, ReleaseOf, Starts
  <2>3. [rel |-> "STOP", h |-> 0] \in Entry
    BY DEF Entry
  <2>4. Holds(<<[rel |-> "STOP", h |-> 0]>> \o vector, live, started + 1)
    BY <1>1, <2>3, PushHolds
  <2>5. lastRecv.op \in Creating
    BY <1>8 DEF Creating
  <2>6. VectorAfter' = <<[rel |-> "STOP", h |-> 0]>> \o vector
    BY <1>6, <2>1, <2>2, <2>5
  <2> QED BY <1>2, <2>1, <2>4, <2>6
<1>9. ASSUME lastRecv.op = "GET", NEW g \in Handles \ live,
             e = [id |-> "S_OK", h |-> g, live |-> live \cup {g}, started |-> started]
      PROVE  Holds(VectorAfter', live', started')
  <2>1. e.id = "S_OK" /\ e.live = live \cup {g} /\ e.started = started /\ e.h = g
    BY <1>9
  <2>2. Push(vector, lastRecv, e.h) = <<[rel |-> "RELEASE", h |-> g]>> \o vector
    BY <1>9, <2>1 DEF Push, ReleaseOf
  <2>3. [rel |-> "RELEASE", h |-> g] \in Entry
    BY DEF Entry
  <2>4. Holds(<<[rel |-> "RELEASE", h |-> g]>> \o vector, live \cup {g}, started)
    BY <1>1, <2>3, PushHolds
  <2>5. lastRecv.op \in Creating
    BY <1>9 DEF Creating
  <2>6. VectorAfter' = <<[rel |-> "RELEASE", h |-> g]>> \o vector
    BY <1>6, <2>1, <2>2, <2>5
  <2> QED BY <1>2, <2>1, <2>4, <2>6
<1>10. CASE /\ lastRecv.op = "STOP" /\ started > 0
            /\ e = [id |-> "S_OK", h |-> 0, live |-> live, started |-> started - 1]
  <2>1. e.id = "S_OK" /\ e.live = live /\ e.started = started - 1
    BY <1>10
  <2>2. \E k \in DOMAIN vector : vector[k] = [rel |-> "STOP", h |-> 0]
    <3>1. Stops(vector) # {}
      <4>1. Cardinality(Stops(vector)) = started
        BY DEF Holds, Stopped, Stops
      <4>2. Cardinality({}) = 0
        BY FS_EmptySet
      <4>3. Cardinality(Stops(vector)) # 0
        BY <1>1, <1>10, <4>1
      <4> QED BY <4>2, <4>3, Zenon
    <3>2. PICK k \in DOMAIN vector : vector[k].rel = "STOP"
      BY <3>1 DEF Stops
    <3>3. vector[k] \in Entry /\ vector[k].h = 0
      BY <1>1, <3>2 DEF Holds
    <3> QED BY <3>2, <3>3 DEF Entry
  <2>3. PICK k \in DOMAIN vector : /\ vector[k] = [rel |-> "STOP", h |-> 0]
                                   /\ Pop(vector, lastRecv) = RemoveAt(vector, k)
    BY <1>1, <1>5, <1>10, <2>2, PopIs
  <2>6. vector[k].rel = "STOP"
    BY <2>3
  <2>4. Holds(RemoveAt(vector, k), live, started - 1)
    BY <1>1, <2>6, RemoveHolds
  <2>5. VectorAfter' = RemoveAt(vector, k)
    BY <1>6, <1>10, <2>1, <2>3 DEF Creating, Starts
  <2> QED BY <1>2, <2>1, <2>4, <2>5
<1>11. CASE /\ lastRecv.op = "RELEASE" /\ lastRecv.h \in live
            /\ e = [id |-> "S_OK", h |-> 0, live |-> live \ {lastRecv.h}, started |-> started]
  <2>1. e.id = "S_OK" /\ e.live = live \ {lastRecv.h} /\ e.started = started
    BY <1>11
  <2>2. \E k \in DOMAIN vector : vector[k] = [rel |-> "RELEASE", h |-> lastRecv.h]
    <3>1. PICK k \in DOMAIN vector : vector[k].rel = "RELEASE" /\ vector[k].h = lastRecv.h
      BY <1>11 DEF Holds, Released
    <3>2. vector[k] \in Entry
      BY <1>1
    <3> QED BY <3>1, <3>2 DEF Entry
  <2>3. PICK k \in DOMAIN vector : /\ vector[k] = [rel |-> "RELEASE", h |-> lastRecv.h]
                                   /\ Pop(vector, lastRecv) = RemoveAt(vector, k)
    BY <1>1, <1>11, <2>2, PopIs
  <2>4. Holds(RemoveAt(vector, k), live \ {lastRecv.h}, started)
    BY <1>1, <2>3, RemoveHolds
  <2>5. VectorAfter' = RemoveAt(vector, k)
    BY <1>6, <1>11, <2>1, <2>3 DEF Creating, Starts
  <2> QED BY <1>2, <2>1, <2>4, <2>5
<1>12. CASE /\ lastRecv.op = "EXECUTE"
            /\ e = [id |-> "S_OK", h |-> 0, live |-> live, started |-> started]
  <2>1. e.live = live /\ e.started = started
    BY <1>12
  <2>2. VectorAfter' = vector
    BY <1>6, <1>12 DEF Creating, Starts
  <2> QED BY <1>2, <2>1, <2>2
<1> QED BY <1>7, <1>8, <1>9, <1>10, <1>11, <1>12, EffectCases

LEMMA VectorStep == TypeOK /\ PacketInv /\ ExecInv /\ VectorInv /\ [Next]_vars => VectorInv'
<1> SUFFICES ASSUME TypeOK, PacketInv, ExecInv, VectorInv, [Next]_vars, ~abandoned'
             PROVE  Holds(IF Done' THEN VectorAfter' ELSE vector', live', started')
  BY DEF VectorInv
<1>1. CASE UNCHANGED <<vector, live, started, abandoned>> /\ ~Done /\ ~Done'
  BY <1>1 DEF VectorInv
<1>2. CASE UNCHANGED <<spc, execVars, vector, live, started, abandoned>>
  <2>1. UNCHANGED <<lastSend, lastRecv, compEvt, spc>>
    BY <1>2 DEF execVars
  <2>2. VectorAfter' = VectorAfter /\ (Done' <=> Done)
    BY <1>2, <2>1 DEF VectorAfter, Done
  <2> QED BY <1>2, <2>2 DEF VectorInv
<1>3. CASE \E c \in Peers : ClientStep(c) \/ Lose(c) \/ Duplicate(c)
  <2>1. UNCHANGED <<spc, execVars, vector, live, started, abandoned>>
    BY <1>3, EnvironmentLeavesThePackets
       DEF ClientStep, CallSome, Call, Timeout, ReceiveReply, Reopen, Lose, Duplicate,
           serverVars, providerVars, historyVars
  <2> QED BY <1>2, <2>1
<1>4. CASE \E c \in Peers : Arrival(c)
  <2>1. /\ UNCHANGED <<vector, live, started, abandoned>>
        /\ spc = "recv" /\ spc' \in {"recv", "signal"}
    <3>0. PICK c \in Peers : Arrival(c)
      BY <1>4
    <3>1. PICK i \in DOMAIN toServer[c] :
             \/ RefuseConnection(c, i) \/ AnswerRetry(c, i) \/ RefuseBusy(c, i)
             \/ RefuseObject(c, i) \/ RefuseOption(c, i) \/ Accept(c, i)
      BY <3>0 DEF Arrival
    <3>2. UNCHANGED vector /\ Incoming(c, i)
      BY <3>1 DEF RefuseConnection, AnswerRetry, RefuseBusy, RefuseObject, RefuseOption, Accept,
                  serverVars
    <3>3. spc' = spc \/ spc' = "signal"
      BY <3>1, RefusalsLeaveThePackets DEF Accept
    <3> QED BY <3>2, <3>3 DEF Incoming, providerVars
  <2> QED BY <1>1, <2>1 DEF Done
<1>5. CASE Signal
  <2>1. /\ UNCHANGED <<vector, live, started, compEvt>> /\ spc = "signal" /\ ~abandoned
    BY <1>5 DEF Signal, providerVars
  <2>2. ~compEvt
    BY <2>1 DEF ExecInv, HandOver
  <2> QED BY <1>1, <1>5, <2>1, <2>2 DEF Done, Signal
<1>6. CASE Complete
  <2>1. /\ vector' = VectorAfter /\ UNCHANGED <<live, started, abandoned>>
        /\ spc = "await" /\ compEvt /\ spc' \in {"recv", "exit"}
    BY <1>6 DEF Complete, providerVars
  <2> QED BY <2>1 DEF VectorInv, Done
<1>7. CASE Executing \/ CheckTimeout
  <2>1. /\ UNCHANGED <<vector, live, started, execVars>>
        /\ spc \in {"await", "check"} /\ spc' \in {"await", "check"} /\ abandoned' = abandoned
    BY <1>7 DEF Executing, CheckTimeout, providerVars
  <2>2. UNCHANGED <<lastSend, lastRecv, compEvt>>
    BY <2>1 DEF execVars
  <2>3. VectorAfter' = VectorAfter /\ (Done' <=> Done)
    BY <2>1, <2>2 DEF VectorAfter, Done
  <2> QED BY <2>1, <2>3 DEF VectorInv
<1>8. CASE LeaveLoop \/ TerminateExec
  <2>1. /\ UNCHANGED <<vector, live, started, abandoned>>
        /\ spc \in {"recv", "exit"} /\ spc' \in {"exit", "join"}
    BY <1>8 DEF LeaveLoop, TerminateExec, providerVars, historyVars
  <2> QED BY <1>1, <2>1 DEF Done
<1>9. CASE ReleaseAll
  <2>1. /\ vector' = <<>> /\ live' = live \ Released(vector) /\ started' = started - Stopped(vector)
        /\ spc = "join" /\ spc' = "done" /\ abandoned' = abandoned
    BY <1>9 DEF ReleaseAll
  <2>2. Released(vector) = live /\ Stopped(vector) = started /\ started \in Int
    BY <2>1 DEF VectorInv, Holds, Done, TypeOK, ObjectTypeOK
  <2>3. live' = {} /\ started' = 0
    BY <2>1, <2>2
  <2>4. Released(<<>>) = {} /\ Stopped(<<>>) = 0
    <3>1. {k \in DOMAIN <<>> : <<>>[k].rel = "STOP"} = {} /\ {k \in DOMAIN <<>> : <<>>[k].rel = "RELEASE"} = {}
      OBVIOUS
    <3> QED BY <3>1, FS_EmptySet DEF Released, Stopped
  <2> QED BY <2>1, <2>3, <2>4 DEF Holds, Done
<1>10. CASE ExecStart
  <2>1. UNCHANGED <<vector, live, started, abandoned, spc, compEvt>> /\ execEvt
    BY <1>10 DEF ExecStart, providerVars
  <2> QED BY <1>1, <2>1 DEF Done, ExecInv, HandOver
<1>11. CASE ExecFinish
  <2>1. /\ UNCHANGED <<vector, abandoned, spc>> /\ xpc = "run" /\ compEvt'
    BY <1>11 DEF ExecFinish, SetComp
  <2>2. ~compEvt /\ spc # "signal" /\ spc \notin {"recv", "exit", "join", "done"}
    BY <2>1 DEF ExecInv, HandOver
  <2>3. ~Done /\ Done'
    BY <2>1, <2>2 DEF Done, TypeOK
  <2> QED BY <1>11, <2>1, <2>3, FinishHolds DEF VectorInv
<1>12. CASE ExecEnd
  BY <1>12, <1>2 DEF ExecEnd, execVars, providerVars, historyVars, VectorInv, VectorAfter, Done
<1>13. CASE UNCHANGED vars
  BY <1>2, <1>13 DEF vars, serverVars, providerVars, historyVars
<1> QED
  BY <1>3, <1>4, <1>5, <1>6, <1>7, <1>8, <1>9, <1>10, <1>11, <1>12, <1>13 DEF Next

(* Whenever recv_thread is between two packets, or has ended, the vector holds
   exactly the objects and services the provider holds, unless the receiver has
   given up an execution: nothing is leaked when the server closes. *)
THEOREM VectorStaysExact == Spec => []VectorExact
<1>1. Init => VectorInv
  <2> SUFFICES ASSUME Init PROVE VectorInv
    OBVIOUS
  <2>1. vector = <<>> /\ live = {} /\ started = 0 /\ ~Done
    BY DEF Init, Done
  <2>2. {k \in DOMAIN <<>> : <<>>[k].rel = "STOP"} = {} /\ {k \in DOMAIN <<>> : <<>>[k].rel = "RELEASE"} = {}
    OBVIOUS
  <2> QED BY <2>1, <2>2, FS_EmptySet DEF VectorInv, Holds, Released, Stopped
<1>2. VectorInv => VectorExact
  BY DEF VectorInv, VectorExact, Holds, Done
<1>3. TypeOK /\ PacketInv /\ ExecInv /\ VectorInv /\ [Next]_vars => VectorInv'
  BY VectorStep
<1> QED BY <1>1, <1>2, <1>3, Executions, PTL DEF Spec

=============================================================================
