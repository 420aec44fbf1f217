------------------------ MODULE BcapExchange_types ------------------------
(***************************************************************************)
(* Type correctness of BcapExchange, for every value of its constants: one *)
(* lemma for each operator that builds a packet or a node, one for each    *)
(* action, and the theorem.                                                *)
(***************************************************************************)
EXTENDS BcapExchange, TLAPS, FiniteSetTheorems, WellFoundedInduction

(* Taking a packet out of a queue leaves a queue of the same packets. *)
LEMMA RemoveAtType ==
    ASSUME NEW S, NEW s \in Seq(S), NEW i \in DOMAIN s
    PROVE  RemoveAt(s, i) \in Seq(S)
  BY DEF RemoveAt

(* The clients that take part on a link are clients. *)
LEMMA PeersAreClients == Peers \subseteq Clients
  BY ExchangeAssumption DEF ExchangeAssumption, Peers

(* serial++ of send_receive() stays within its uint16_t. *)
LEMMA NextSerialType ==
    ASSUME NEW s \in Serials
    PROVE  NextSerial(s) \in Serials
  BY ExchangeAssumption DEF NextSerial, Serials, ExchangeAssumption

(* What send_receive() returns is an id a call may return. *)
LEMMA AnswerType ==
    ASSUME ClientTypeOK, NEW c \in Clients, NEW id \in FuncIds \cup ErrorIds, NEW k \in Nat,
           Answer(c, id, k)
    PROVE  ret' \in [Clients -> [id : FuncIds \cup ErrorIds, call : Nat]]
<1>1. [id |-> id, call |-> k] \in [id : FuncIds \cup ErrorIds, call : Nat]
  OBVIOUS
<1> QED  BY <1>1 DEF Answer, ClientTypeOK

(* One pass of the retry loop: the packet it sends is a request, numbered
   within the uint16_t, and the client's variables keep their types. *)
LEMMA TryType ==
    ASSUME ClientTypeOK, NetTypeOK, NEW c \in Clients,
           NEW m \in Request, Try(c, m)
    PROVE  /\ serial' \in [Clients -> Serials]
           /\ sent' \in [Clients -> Request]
           /\ cpc' \in [Clients -> {"idle", "wait"}]
           /\ ret' \in [Clients -> [id : FuncIds \cup ErrorIds, call : Nat]]
           /\ toServer' \in [Clients -> Seq(Request)]
<1> DEFINE p == [m EXCEPT !.serial = serial[c]]
<1>1. p \in Request
  BY DEF Request, ClientTypeOK
<1>2. NextSerial(serial[c]) \in Serials
  BY NextSerialType DEF ClientTypeOK
<1>3. serial' \in [Clients -> Serials]
  BY <1>2 DEF Try, ClientTypeOK
<1>4. sent' \in [Clients -> Request]
  BY <1>1, Zenon DEF Try, ClientTypeOK
<1>5. CASE /\ cpc' = [cpc EXCEPT ![c] = "wait"]
           /\ toServer' = [toServer EXCEPT ![c] = Append(@, p)]
           /\ UNCHANGED ret
  <2> HIDE DEF p
  <2>1. Append(toServer[c], p) \in Seq(Request)
    BY <1>1 DEF NetTypeOK
  <2> QED  BY <1>3, <1>4, <1>5, <2>1 DEF ClientTypeOK, NetTypeOK
<1>6. CASE /\ cpc' = [cpc EXCEPT ![c] = "idle"]
           /\ Answer(c, "E_SEND", 0)
           /\ UNCHANGED toServer
  <2>1. ret' \in [Clients -> [id : FuncIds \cup ErrorIds, call : Nat]]
    BY <1>6, AnswerType DEF ErrorIds
  <2> QED  BY <1>3, <1>4, <1>6, <2>1 DEF ClientTypeOK, NetTypeOK
<1> QED  BY <1>5, <1>6, Zenon DEF Try

(* send_receive() entered: its first try keeps every type. *)
LEMMA CallType ==
    ASSUME TypeOK, NEW c \in Clients, NEW op \in AllOps,
           NEW h \in Handles \cup {0}, Call(c, op, h)
    PROVE  TypeOK'
<1> DEFINE m == [from |-> c, serial |-> 0, op |-> op, h |-> h, call |-> calls[c] + 1,
                 reserv |-> IF link = "TCP" THEN 0 ELSE serial[c]]
<1>1. m \in Request
  BY ExchangeAssumption DEF Request, Serials, TypeOK, ClientTypeOK, ExchangeAssumption
<1>2. Try(c, m)
  BY DEF Call
<1> HIDE DEF m
<1>3. /\ serial' \in [Clients -> Serials]
      /\ sent' \in [Clients -> Request]
      /\ cpc' \in [Clients -> {"idle", "wait"}]
      /\ ret' \in [Clients -> [id : FuncIds \cup ErrorIds, call : Nat]]
      /\ toServer' \in [Clients -> Seq(Request)]
  BY <1>1, <1>2, TryType DEF TypeOK
<1>4. ClientTypeOK'
  <2>1. 1 \in 0..TryMax
    BY ExchangeAssumption DEF ExchangeAssumption
  <2>2. tries' \in [Clients -> 0..TryMax]
    BY <2>1 DEF Call, TypeOK, ClientTypeOK
  <2>3. calls' \in [Clients -> Nat] /\ session' \in [Clients -> Nat]
    BY DEF Call, TypeOK, ClientTypeOK
  <2> QED  BY <1>3, <2>2, <2>3 DEF ClientTypeOK
<1>5. NetTypeOK'
  BY <1>3 DEF Call, TypeOK, NetTypeOK
<1>6. HistoryTypeOK'
  BY DEF Call, TypeOK, HistoryTypeOK
<1>7. NodeTypeOK' /\ ExecTypeOK' /\ ObjectTypeOK'
  BY DEF Call, serverVars, providerVars, nodeVars, execVars,
         TypeOK, NodeTypeOK, ExecTypeOK, ObjectTypeOK
<1> QED
  BY <1>4, <1>5, <1>6, <1>7 DEF Call, serverVars, TypeOK

(* bcap_recv times out: the next try, or the end of the call, keeps every type. *)
LEMMA TimeoutType ==
    ASSUME TypeOK, NEW c \in Clients, Timeout(c)
    PROVE  TypeOK'
<1>1. ClientTypeOK' /\ toServer' \in [Clients -> Seq(Request)]
  <2>1. CASE tries[c] < Tries
    <3>1. sent[c] \in Request
      BY DEF TypeOK, ClientTypeOK
    <3>2. Try(c, sent[c])
      BY <2>1 DEF Timeout
    <3>3. tries[c] + 1 \in 0..TryMax
      BY <2>1, ExchangeAssumption DEF Tries, TypeOK, ClientTypeOK, ExchangeAssumption
    <3>4. tries' \in [Clients -> 0..TryMax]
      BY <2>1, <3>3 DEF Timeout, TypeOK, ClientTypeOK
    <3> QED  BY <3>1, <3>2, <3>4, TryType DEF Timeout, TypeOK, ClientTypeOK
  <2>2. CASE ~(tries[c] < Tries)
    <3>1. ret' \in [Clients -> [id : FuncIds \cup ErrorIds, call : Nat]]
      BY <2>2, AnswerType DEF ErrorIds, Timeout, TypeOK
    <3> QED  BY <2>2, <3>1 DEF Timeout, TypeOK, ClientTypeOK, NetTypeOK
  <2> QED  BY <2>1, <2>2
<1>2. NetTypeOK'
  BY <1>1 DEF Timeout, TypeOK, NetTypeOK
<1>3. NodeTypeOK' /\ ExecTypeOK' /\ ObjectTypeOK' /\ HistoryTypeOK'
  BY DEF Timeout, serverVars, providerVars, nodeVars, execVars, historyVars,
         TypeOK, NodeTypeOK, ExecTypeOK, ObjectTypeOK, HistoryTypeOK
<1> QED
  BY <1>1, <1>2, <1>3 DEF Timeout, serverVars, TypeOK

(* A reply that ends a call is never S_EXECUTING, and every type is kept. *)
LEMMA ReceiveReplyType ==
    ASSUME TypeOK, NEW c \in Clients, NEW i \in DOMAIN toClient[c],
           ReceiveReply(c, i)
    PROVE  TypeOK'
<1> DEFINE r == toClient[c][i]
<1>1. r \in Reply
  BY DEF TypeOK, NetTypeOK
<1>2. ClientTypeOK'
  <2>1. CASE Accepts(c, r)
    <3>1. r.id \in FuncIds \cup ErrorIds /\ r.call \in Nat
      BY <1>1, <2>1 DEF Accepts, Reply
    <3>2. ret' \in [Clients -> [id : FuncIds \cup ErrorIds, call : Nat]]
      BY <2>1, <3>1, AnswerType DEF ReceiveReply, TypeOK
    <3> QED  BY <2>1, <3>2 DEF ReceiveReply, TypeOK, ClientTypeOK
  <2>2. CASE ~Accepts(c, r)
    BY <2>2 DEF ReceiveReply, TypeOK, ClientTypeOK
  <2> QED  BY <2>1, <2>2
<1>3. NetTypeOK'
  <2>1. RemoveAt(toClient[c], i) \in Seq(Reply)
    BY RemoveAtType DEF TypeOK, NetTypeOK
  <2> QED  BY <2>1 DEF ReceiveReply, TypeOK, NetTypeOK
<1>4. NodeTypeOK' /\ ExecTypeOK' /\ ObjectTypeOK' /\ HistoryTypeOK'
  BY DEF ReceiveReply, serverVars, providerVars, nodeVars, execVars, historyVars,
         TypeOK, NodeTypeOK, ExecTypeOK, ObjectTypeOK, HistoryTypeOK
<1> QED
  BY <1>2, <1>3, <1>4 DEF ReceiveReply, serverVars, TypeOK

(* bCap_Open_Client starts again from a serial number in range. *)
LEMMA ReopenType ==
    ASSUME TypeOK, NEW c \in Clients, Reopen(c)
    PROVE  TypeOK'
<1>1. ClientTypeOK'
  <2>1. 1 \in Serials
    BY ExchangeAssumption DEF Serials, ExchangeAssumption
  <2> QED  BY <2>1 DEF Reopen, TypeOK, ClientTypeOK
<1>2. NetTypeOK' /\ NodeTypeOK' /\ ExecTypeOK' /\ ObjectTypeOK' /\ HistoryTypeOK'
  BY DEF Reopen, netVars, serverVars, providerVars, nodeVars, execVars, historyVars,
         TypeOK, NetTypeOK, NodeTypeOK, ExecTypeOK, ObjectTypeOK, HistoryTypeOK
<1> QED
  BY <1>1, <1>2 DEF Reopen, serverVars, TypeOK

(* The link takes packets away and repeats them, it makes none up. *)
LEMMA LinkType ==
    ASSUME TypeOK, NEW c \in Clients, Lose(c) \/ Duplicate(c)
    PROVE  TypeOK'
<1>1. mishaps' \in Nat
  BY DEF Lose, Duplicate, TypeOK, NetTypeOK
<1>2. toServer' \in [Clients -> Seq(Request)]
  <2>1. ASSUME NEW i \in DOMAIN toServer[c]
        PROVE  /\ RemoveAt(toServer[c], i) \in Seq(Request)
               /\ Append(toServer[c], toServer[c][i]) \in Seq(Request)
    BY RemoveAtType DEF TypeOK, NetTypeOK
  <2> QED  BY <2>1 DEF Lose, Duplicate, TypeOK, NetTypeOK
<1>3. toClient' \in [Clients -> Seq(Reply)]
  <2>1. ASSUME NEW i \in DOMAIN toClient[c]
        PROVE  /\ RemoveAt(toClient[c], i) \in Seq(Reply)
               /\ Append(toClient[c], toClient[c][i]) \in Seq(Reply)
    BY RemoveAtType DEF TypeOK, NetTypeOK
  <2> QED  BY <2>1 DEF Lose, Duplicate, TypeOK, NetTypeOK
<1>4. ClientTypeOK' /\ NodeTypeOK' /\ ExecTypeOK' /\ ObjectTypeOK' /\ HistoryTypeOK'
  BY DEF Lose, Duplicate, clientVars, serverVars, providerVars, nodeVars, execVars,
         historyVars, TypeOK, ClientTypeOK, NodeTypeOK, ExecTypeOK, ObjectTypeOK,
         HistoryTypeOK
<1> QED
  BY <1>1, <1>2, <1>3, <1>4 DEF Lose, Duplicate, serverVars, TypeOK, NetTypeOK

-----------------------------------------------------------------------------
(* What receive_execute() does with the node of a packet's client. *)
LEMMA AdmissionType ==
    ASSUME TypeOK, NEW c \in Clients, NEW n \in Admissions(c)
    PROVE  n \subseteq Clients
  BY DEF Admissions, TypeOK, NodeTypeOK

(* The WDT interval stored for a node is finite or it is not. *)
LEMMA IntervalType ==
    ASSUME NEW c, NEW op, NEW w \in NewWdt(c, op)
    PROVE  w \in BOOLEAN
  BY DEF NewWdt

(* A node that leaves the list is replaced by a blank of the same type. *)
LEMMA MemoryType ==
    ASSUME NEW S, NEW f \in [Clients -> S], NEW blank \in S, NEW n
    PROVE  Memory(n, f, blank) \in [Clients -> S]
  BY DEF Memory

(* A last_send cleared by memset(0) is a reply. *)
LEMMA FreshType == Fresh \in Reply
  BY ExchangeAssumption DEF Fresh, Reply, Serials, FuncIds, ExchangeAssumption

(* The packets receive_execute() composes itself are replies. *)
LEMMA StatusType ==
    ASSUME NEW m \in Request, NEW id \in ErrorIds \cup {"S_EXECUTING"}
    PROVE  Status(m, id) \in Reply
  BY DEF Status, Request, Reply

(* bcap_send of a reply keeps the queue of replies typed. *)
LEMMA ReplyToType ==
    ASSUME TypeOK, NEW c \in Clients, NEW r \in Reply, ReplyTo(c, r)
    PROVE  toClient' \in [Clients -> Seq(Reply)]
<1>1. Append(toClient[c], r) \in Seq(Reply)
  BY DEF TypeOK, NetTypeOK
<1> QED  BY <1>1 DEF ReplyTo, TypeOK, NetTypeOK

(* The node list after search_node and ADD_CHILD is a list of clients' nodes. *)
LEMMA AdmitType ==
    ASSUME TypeOK, NEW c \in Clients, NEW n \in Admissions(c),
           NEW w \in BOOLEAN, Admit(c, n, w)
    PROVE  NodeTypeOK'
<1>1. nodes' \subseteq Clients
  BY AdmissionType DEF Admit
<1>2. cache' \in [Clients -> Reply]
  BY MemoryType, FreshType DEF Admit, TypeOK, NodeTypeOK
<1>3. wdt' \in [Clients -> BOOLEAN]
  <2>1. Memory(n, wdt, FALSE) \in [Clients -> BOOLEAN]
    BY MemoryType DEF TypeOK, NodeTypeOK
  <2> QED  BY <2>1 DEF Admit
<1> QED  BY <1>1, <1>2, <1>3 DEF NodeTypeOK

(* A packet taken off the link is a request; the rest of the queue stays. *)
LEMMA IncomingType ==
    ASSUME TypeOK, NEW c \in Clients, NEW i \in DOMAIN toServer[c], Incoming(c, i)
    PROVE  /\ toServer[c][i] \in Request
           /\ toServer' \in [Clients -> Seq(Request)]
<1>1. toServer[c][i] \in Request /\ RemoveAt(toServer[c], i) \in Seq(Request)
  BY RemoveAtType DEF TypeOK, NetTypeOK
<1> QED  BY <1>1 DEF Incoming, TypeOK, NetTypeOK

(* What is common to the packets that are answered at once. *)
LEMMA AnsweredType ==
    ASSUME TypeOK, NEW c \in Clients,
           NEW i \in DOMAIN toServer[c], Incoming(c, i),
           NEW r \in Reply, ReplyTo(c, r), UNCHANGED <<spc, execVars, vector>>,
           NodeTypeOK', remembered' \in [Clients -> BOOLEAN]
    PROVE  TypeOK'
<1>1. NetTypeOK'
  BY IncomingType, ReplyToType DEF Incoming, TypeOK, NetTypeOK
<1>2. ClientTypeOK' /\ ExecTypeOK'
  BY DEF Incoming, clientVars, execVars, TypeOK, ClientTypeOK, ExecTypeOK
<1>3. ObjectTypeOK' /\ HistoryTypeOK'
  BY DEF Incoming, providerVars, TypeOK, ObjectTypeOK, HistoryTypeOK
<1> QED
  BY <1>1, <1>2, <1>3 DEF Incoming, TypeOK

(* Forgetting the clients whose nodes have gone keeps the history typed. *)
LEMMA ForgetType ==
    ASSUME TypeOK, NEW n, Forget(n)
    PROVE  remembered' \in [Clients -> BOOLEAN]
  BY MemoryType DEF Forget, TypeOK, HistoryTypeOK

(* The last_send a packet is compared with is a reply. *)
LEMMA LastReplyType ==
    ASSUME TypeOK, NEW c \in Clients
    PROVE  LastReply(c) \in Reply
  BY FreshType DEF LastReply, TypeOK, NodeTypeOK, ExecTypeOK

-----------------------------------------------------------------------------
(* recv_thread: a packet arrives. *)
LEMMA ArrivalType ==
    ASSUME TypeOK, NEW c \in Clients, Arrival(c)
    PROVE  TypeOK'
<1>0. PICK i \in DOMAIN toServer[c] :
         \/ RefuseConnection(c, i) \/ AnswerRetry(c, i) \/ RefuseBusy(c, i)
         \/ RefuseObject(c, i) \/ RefuseOption(c, i) \/ Accept(c, i)
  BY DEF Arrival
<1> DEFINE m == toServer[c][i]
<1>1. m \in Request
  BY DEF TypeOK, NetTypeOK
<1>2. wdt[c] \in BOOLEAN
  BY DEF TypeOK, NodeTypeOK
<1>3. CASE RefuseConnection(c, i)
  <2>1. Status(m, "E_MAX_CONNECT") \in Reply
    BY <1>1, StatusType DEF ErrorIds
  <2>2. NodeTypeOK' /\ remembered' \in [Clients -> BOOLEAN]
    BY <1>3 DEF RefuseConnection, serverVars, nodeVars, TypeOK, NodeTypeOK, HistoryTypeOK
  <2> QED  BY <1>3, <2>1, <2>2, AnsweredType DEF RefuseConnection, serverVars
<1>4. CASE AnswerRetry(c, i)
  <2>1. [LastReply(c) EXCEPT !.serial = m.serial] \in Reply
    BY <1>1, LastReplyType DEF Request, Reply
  <2>2. NodeTypeOK' /\ remembered' \in [Clients -> BOOLEAN]
    BY <1>2, <1>4, AdmitType, ForgetType DEF AnswerRetry
  <2> QED  BY <1>4, <2>1, <2>2, AnsweredType DEF AnswerRetry
<1>5. CASE RefuseBusy(c, i)
  <2>1. Status(m, "E_BUSY_PROC") \in Reply
    BY <1>1, StatusType DEF ErrorIds
  <2>2. NodeTypeOK' /\ remembered' \in [Clients -> BOOLEAN]
    BY <1>2, <1>5, AdmitType, ForgetType DEF RefuseBusy
  <2> QED  BY <1>5, <2>1, <2>2, AnsweredType DEF RefuseBusy
<1>6. CASE RefuseObject(c, i)
  <2>1. Status(m, "E_MAX_OBJECT") \in Reply
    BY <1>1, StatusType DEF ErrorIds
  <2>2. NodeTypeOK' /\ remembered' \in [Clients -> BOOLEAN]
    BY <1>2, <1>6, AdmitType, ForgetType DEF RefuseObject
  <2> QED  BY <1>6, <2>1, <2>2, AnsweredType DEF RefuseObject
<1>7. CASE RefuseOption(c, i)
  <2>1. Status(m, "E_INVALIDARG") \in Reply
    BY <1>1, StatusType DEF ErrorIds
  <2>2. NodeTypeOK' /\ remembered' \in [Clients -> BOOLEAN]
    BY <1>7, IntervalType, AdmitType, ForgetType DEF RefuseOption
  <2> QED  BY <1>7, <2>1, <2>2, AnsweredType DEF RefuseOption
<1>8. CASE Accept(c, i)
  <2>1. PICK n \in Admissions(c), w \in NewWdt(c, m.op) :
           /\ Admit(c, n, w)
           /\ remembered' = [Memory(n, remembered, FALSE) EXCEPT ![c] =
                    m.call = calls[c] /\ (@ \/ (execs[c] = 0 /\ m.serial = RetryKey(m)))]
    BY <1>8 DEF Accept
  <2>2. NodeTypeOK'
    BY <2>1, IntervalType, AdmitType
  <2>3. HistoryTypeOK'
    <3>1. Memory(n, remembered, FALSE) \in [Clients -> BOOLEAN]
      BY MemoryType DEF TypeOK, HistoryTypeOK
    <3> DEFINE known == m.call = calls[c]
                          /\ (Memory(n, remembered, FALSE)[c]
                                \/ (execs[c] = 0 /\ m.serial = RetryKey(m)))
    <3>2. remembered' = [Memory(n, remembered, FALSE) EXCEPT ![c] = known]
      BY <2>1, Zenon
    <3>3. known \in BOOLEAN
      OBVIOUS
    <3> HIDE DEF known
    <3>4. remembered' \in [Clients -> BOOLEAN]
      BY <3>1, <3>2, <3>3
    <3> QED  BY <1>8, <3>4 DEF Accept, Incoming, TypeOK, HistoryTypeOK
  <2>4. ExecTypeOK'
    BY <1>1, <1>8 DEF Accept, ResetComp, TypeOK, ExecTypeOK
  <2>5. NetTypeOK'
    BY <1>8, IncomingType DEF Accept, Incoming, TypeOK, NetTypeOK
  <2>6. ClientTypeOK' /\ ObjectTypeOK'
    BY <1>8 DEF Accept, Incoming, clientVars, providerVars, TypeOK, ClientTypeOK,
       ObjectTypeOK
  <2> QED  BY <1>8, <2>2, <2>3, <2>4, <2>5, <2>6 DEF Accept, Incoming, TypeOK
<1> QED
  BY <1>0, <1>3, <1>4, <1>5, <1>6, <1>7, <1>8

-----------------------------------------------------------------------------
(* The two threads, from the hand-over of a request to its answer. *)
LEMMA EffectsType ==
    ASSUME TypeOK, NEW op, NEW h, NEW e \in Effects(op, h)
    PROVE  /\ e.id \in FuncIds
           /\ e.h \in Handles \cup {0}
           /\ e.live \subseteq Handles
           /\ e.started \in Int
<1>1. live \subseteq Handles /\ started \in Int
  BY DEF TypeOK, ObjectTypeOK
<1>2. CASE e = [id |-> "E_FUNC", h |-> 0, live |-> live, started |-> started]
  BY <1>1, <1>2 DEF FuncIds
<1>3. CASE op \in Starts /\ e = [id |-> "S_OK", h |-> 0, live |-> live, started |-> started + 1]
  BY <1>1, <1>3 DEF FuncIds
<1>4. CASE e = [id |-> "S_OK", h |-> 0, live |-> live, started |-> started - 1]
  BY <1>1, <1>4 DEF FuncIds
<1>5. CASE \E g \in Handles \ live :
              e = [id |-> "S_OK", h |-> g, live |-> live \cup {g}, started |-> started]
  BY <1>1, <1>5 DEF FuncIds
<1>6. CASE e = [id |-> "S_OK", h |-> 0, live |-> live \ {h}, started |-> started]
  BY <1>1, <1>6 DEF FuncIds
<1>7. CASE e = [id |-> "S_OK", h |-> 0, live |-> live, started |-> started]
  BY <1>1, <1>7 DEF FuncIds
<1> QED
  BY <1>2, <1>3, <1>4, <1>5, <1>6, <1>7 DEF Effects, Starts

(* push_vector and pop_vector leave a vector of objects. *)
LEMMA VectorType ==
    ASSUME TypeOK
    PROVE  VectorAfter \in Seq(Entry)
<1>1. vector \in Seq(Entry) /\ lastSend \in Reply /\ lastRecv \in Request
  BY DEF TypeOK, ObjectTypeOK, ExecTypeOK, Entry
<1>2. Push(vector, lastRecv, lastSend.h) \in Seq(Entry)
  <2> DEFINE x == [rel |-> ReleaseOf(lastRecv.op),
                   h   |-> IF lastRecv.op = "GET" THEN lastSend.h ELSE 0]
  <2>1. x \in Entry
    BY <1>1 DEF ReleaseOf, Entry, Reply
  <2> HIDE DEF x
  <2>2. <<x>> \o vector \in Seq(Entry)
    BY <1>1, <2>1
  <2> QED  BY <2>2 DEF Push, x
<1>3. Pop(vector, lastRecv) \in Seq(Entry)
  <2> DEFINE hits == {k \in DOMAIN vector :
                        vector[k] = [rel |-> lastRecv.op, h |-> lastRecv.h]}
             first == CHOOSE k \in hits : \A j \in hits : k <= j
  <2>1. CASE hits = {}
    BY <1>1, <2>1 DEF Pop
  <2>2. CASE hits # {}
    <3>1. \E k \in hits : \A j \in hits : k <= j
      <4>1. hits \subseteq Nat
        BY <1>1
      <4>2. PICK k \in hits : \A j \in hits : ~(<<j, k>> \in OpToRel(<, Nat))
        BY <2>2, <4>1, NatLessThanWellFounded, WFMin
      <4>3. \A j \in hits : ~(j < k)
        BY <4>1, <4>2 DEF OpToRel
      <4> QED  BY <4>1, <4>3
    <3>2. first \in DOMAIN vector
      BY <3>1
    <3> QED  BY <1>1, <2>2, <3>2, RemoveAtType DEF Pop
  <2> QED  BY <2>1, <2>2
<1> QED
  BY <1>1, <1>2, <1>3 DEF VectorAfter

(* The parts of the state no thread of the server writes by itself. *)
LEMMA ServerLeavesTheClients ==
    ASSUME TypeOK, UNCHANGED clientVars
    PROVE  ClientTypeOK'
  BY DEF clientVars, TypeOK, ClientTypeOK

(* set_event(exec_evt) keeps every type. *)
LEMMA SignalType ==
    ASSUME TypeOK, Signal
    PROVE  TypeOK'
<1>1. NetTypeOK' /\ NodeTypeOK' /\ ObjectTypeOK'
  BY DEF Signal, netVars, nodeVars, providerVars, TypeOK, NetTypeOK, NodeTypeOK,
         ObjectTypeOK
<1>2. ExecTypeOK' /\ HistoryTypeOK'
  BY DEF Signal, TypeOK, ExecTypeOK, HistoryTypeOK
<1> QED
  BY <1>1, <1>2, ServerLeavesTheClients DEF Signal, TypeOK

(* bcap_callfunc's preparation of last_send makes a reply of it. *)
LEMMA ExecStartType ==
    ASSUME TypeOK, ExecStart
    PROVE  TypeOK'
<1>1. NetTypeOK' /\ NodeTypeOK' /\ ObjectTypeOK'
  BY DEF ExecStart, netVars, nodeVars, providerVars, TypeOK, NetTypeOK, NodeTypeOK,
         ObjectTypeOK
<1>2. lastRecv \in Request
  BY DEF TypeOK, ExecTypeOK
<1>3. lastSend' \in Reply
  BY <1>2 DEF ExecStart, Request, Reply, ErrorIds
<1>4. ExecTypeOK'
  BY <1>3 DEF ExecStart, TypeOK, ExecTypeOK
<1>5. execs' \in [Clients -> 0..2]
  <2> DEFINE more == IF execs[Client] = 0 THEN 1 ELSE 2
  <2>1. more \in 0..2
    OBVIOUS
  <2>2. execs' = IF IsLatestCall THEN [execs EXCEPT ![Client] = more] ELSE execs
    BY DEF ExecStart
  <2>3. execs \in [Clients -> 0..2]
    BY DEF TypeOK, HistoryTypeOK
  <2> HIDE DEF more
  <2> QED  BY <2>1, <2>2, <2>3
<1>6. HistoryTypeOK'
  BY <1>5 DEF ExecStart, TypeOK, HistoryTypeOK
<1> QED
  BY <1>1, <1>4, <1>6, ServerLeavesTheClients DEF ExecStart, TypeOK

(* The return of a callback function keeps every type. *)
LEMMA ExecFinishType ==
    ASSUME TypeOK, ExecFinish
    PROVE  TypeOK'
<1>1. NetTypeOK' /\ NodeTypeOK'
  BY DEF ExecFinish, netVars, nodeVars, TypeOK, NetTypeOK, NodeTypeOK
<1>2. PICK e \in Effects(lastRecv.op, lastRecv.h) :
         /\ lastSend' = [lastSend EXCEPT !.id = e.id, !.h = e.h]
         /\ live' = e.live /\ started' = e.started
         /\ compEvt' = SetComp(e.id)
         /\ IF IsLatestCall
            THEN produced' = [produced EXCEPT ![Client] =
                                @ \cup {[id |-> e.id, call |-> lastRecv.call]}]
            ELSE UNCHANGED produced
  BY DEF ExecFinish
<1>3. lastRecv \in Request /\ lastSend \in Reply
  BY DEF TypeOK, ExecTypeOK
<1>4. e.id \in FuncIds /\ e.h \in Handles \cup {0} /\ e.live \subseteq Handles /\ e.started \in Int
  BY EffectsType
<1>5. lastSend' \in Reply
  BY <1>2, <1>3, <1>4 DEF Reply
<1>6. ExecTypeOK'
  BY <1>2, <1>5 DEF ExecFinish, SetComp, TypeOK, ExecTypeOK
<1>7. ObjectTypeOK'
  BY <1>2, <1>4 DEF ExecFinish, TypeOK, ObjectTypeOK
<1>8. produced' \in [Clients -> SUBSET [id : FuncIds, call : Nat]]
  <2>1. [id |-> e.id, call |-> lastRecv.call] \in [id : FuncIds, call : Nat]
    BY <1>3, <1>4 DEF Request
  <2>2. produced \in [Clients -> SUBSET [id : FuncIds, call : Nat]]
    BY DEF TypeOK, HistoryTypeOK
  <2> QED  BY <1>2, <2>1, <2>2
<1>9. HistoryTypeOK'
  BY <1>8 DEF ExecFinish, TypeOK, HistoryTypeOK
<1> QED
  BY <1>1, <1>6, <1>7, <1>9, ServerLeavesTheClients DEF ExecFinish, TypeOK

(* The end of receive_execute(), with comp_evt set, keeps every type. *)
LEMMA CompleteType ==
    ASSUME TypeOK, Complete
    PROVE  TypeOK'
<1>1. Client \in Clients /\ lastSend \in Reply
  BY DEF Client, TypeOK, ExecTypeOK, Request
<1>2. NetTypeOK'
  <2>1. toClient' \in [Clients -> Seq(Reply)]
    BY <1>1, ReplyToType DEF Complete, TypeOK, NetTypeOK
  <2> QED  BY <2>1 DEF Complete, TypeOK, NetTypeOK
<1>3. NodeTypeOK'
  <2> DEFINE stops == link = "UDP" /\ lastRecv.op = "STOP" /\ lastSend.id = "S_OK"
  <2> HIDE DEF stops
  <2>1. cache' \in [Clients -> Reply]
    <3>1. \/ cache' = [d \in Clients |-> IF d # Client \/ link # "UDP" THEN cache[d]
                                        ELSE IF stops THEN Fresh ELSE lastSend]
          \/ cache' = IF stops THEN [cache EXCEPT ![Client] = Fresh] ELSE cache
      BY DEF Complete, stops
    <3>2. cache \in [Clients -> Reply]
      BY DEF TypeOK, NodeTypeOK
    <3> QED  BY <1>1, <3>1, <3>2, FreshType
  <2>2. wdt' \in [Clients -> BOOLEAN] /\ nodes' \subseteq Clients
    BY DEF Complete, TypeOK, NodeTypeOK
  <2> QED  BY <2>1, <2>2 DEF NodeTypeOK
<1>4. ExecTypeOK'
  BY DEF Complete, execVars, TypeOK, ExecTypeOK
<1>5. ObjectTypeOK'
  BY VectorType DEF Complete, providerVars, TypeOK, ObjectTypeOK, Entry
<1>6. HistoryTypeOK'
  BY DEF Complete, TypeOK, HistoryTypeOK
<1> QED
  BY <1>2, <1>3, <1>4, <1>5, <1>6, ServerLeavesTheClients DEF Complete, TypeOK

(* S_EXECUTING and the check of exec_timeout keep every type. *)
LEMMA WaitingType ==
    ASSUME TypeOK, Executing \/ CheckTimeout
    PROVE  TypeOK'
<1>1. NodeTypeOK' /\ ExecTypeOK' /\ ObjectTypeOK'
  BY DEF Executing, CheckTimeout, nodeVars, execVars, providerVars, TypeOK, NodeTypeOK,
         ExecTypeOK, ObjectTypeOK
<1>2. HistoryTypeOK'
  BY DEF Executing, CheckTimeout, TypeOK, HistoryTypeOK
<1>3. Client \in Clients /\ Status(lastRecv, "S_EXECUTING") \in Reply
  BY StatusType DEF Client, TypeOK, ExecTypeOK, Request
<1>4. NetTypeOK'
  BY <1>3, ReplyToType DEF Executing, CheckTimeout, netVars, TypeOK, NetTypeOK
<1> QED
  BY <1>1, <1>2, <1>4, ServerLeavesTheClients DEF Executing, CheckTimeout, TypeOK

(* The steps that end the two threads keep every type. *)
LEMMA EndingType ==
    ASSUME TypeOK, LeaveLoop \/ TerminateExec \/ ExecEnd
    PROVE  TypeOK'
<1>1. NetTypeOK' /\ NodeTypeOK' /\ ObjectTypeOK' /\ HistoryTypeOK'
  BY DEF LeaveLoop, TerminateExec, ExecEnd, netVars, nodeVars, providerVars, historyVars,
         TypeOK, NetTypeOK, NodeTypeOK, ObjectTypeOK, HistoryTypeOK
<1>2. ExecTypeOK'
  BY DEF LeaveLoop, TerminateExec, ExecEnd, execVars, TypeOK, ExecTypeOK
<1> QED
  BY <1>1, <1>2, ServerLeavesTheClients DEF LeaveLoop, TerminateExec, ExecEnd, TypeOK

(* The release of the objects left in the vector keeps every type. *)
LEMMA ReleaseAllType ==
    ASSUME TypeOK, ReleaseAll
    PROVE  TypeOK'
<1>1. NetTypeOK' /\ ExecTypeOK'
  BY DEF ReleaseAll, netVars, execVars, TypeOK, NetTypeOK, ExecTypeOK
<1>2. NodeTypeOK' /\ HistoryTypeOK'
  BY FreshType DEF ReleaseAll, TypeOK, NodeTypeOK, HistoryTypeOK
<1>3. Stopped(vector) \in Int
  <2> DEFINE stops == {k \in DOMAIN vector : vector[k].rel = "STOP"}
  <2>1. stops \subseteq 1..Len(vector) /\ Len(vector) \in Nat
    BY DEF TypeOK, ObjectTypeOK
  <2>2. IsFiniteSet(stops)
    BY <2>1, FS_Interval, FS_Subset
  <2> QED  BY <2>2, FS_CardinalityType DEF Stopped
<1>4. ObjectTypeOK'
  BY <1>3 DEF ReleaseAll, TypeOK, ObjectTypeOK
<1> QED
  BY <1>1, <1>2, <1>4, ServerLeavesTheClients DEF ReleaseAll, TypeOK

-----------------------------------------------------------------------------
(* What bCap_Open_Client and bCap_Open_Server set up is typed. *)
LEMMA InitType == Init => TypeOK
<1> SUFFICES ASSUME Init
             PROVE  TypeOK
  OBVIOUS
<1>1. Fresh \in Reply /\ NoRequest \in Request
  <2>1. Solo \in Clients /\ 0 \in Serials /\ "EXECUTE" \in AllOps
    BY ExchangeAssumption DEF Serials, AllOps, ExchangeAssumption
  <2> QED  BY <2>1, FreshType DEF NoRequest, Request
<1>2. ClientTypeOK
  <2>1. serial \in [Clients -> Serials]
    BY ExchangeAssumption DEF Init, Serials, ExchangeAssumption
  <2>2. [id |-> "E_TIMEOUT", call |-> 0] \in [id : FuncIds \cup ErrorIds, call : Nat]
    BY DEF ErrorIds
  <2>3. ret \in [Clients -> [id : FuncIds \cup ErrorIds, call : Nat]]
    BY <2>2 DEF Init
  <2>4. tries \in [Clients -> 0..TryMax]
    BY ExchangeAssumption DEF Init, ExchangeAssumption
  <2>5. sent \in [Clients -> Request]
    BY <1>1 DEF Init
  <2> QED  BY <2>1, <2>3, <2>4, <2>5 DEF Init, ClientTypeOK
<1>3. NetTypeOK
  BY DEF Init, NetTypeOK
<1>4. NodeTypeOK /\ ExecTypeOK
  <2>1. nodes \subseteq Clients /\ cache \in [Clients -> Reply]
    BY <1>1 DEF Init
  <2>2. wdt \in [Clients -> BOOLEAN]
    BY Zenon DEF Init
  <2> QED  BY <1>1, <2>1, <2>2 DEF Init, NodeTypeOK, ExecTypeOK
<1>5. ObjectTypeOK
  BY DEF Init, ObjectTypeOK
<1>6. HistoryTypeOK
  <2>1. produced \in [Clients -> SUBSET [id : FuncIds, call : Nat]]
    BY DEF Init
  <2>2. execs \in [Clients -> 0..2]
    BY DEF Init
  <2>3. remembered \in [Clients -> BOOLEAN]
    BY Zenon DEF Init
  <2> QED  BY <2>1, <2>2, <2>3 DEF Init, HistoryTypeOK
<1> QED
  BY <1>2, <1>3, <1>4, <1>5, <1>6 DEF Init, TypeOK

(* Every step of a client keeps every type. *)
LEMMA ClientStepType ==
    ASSUME TypeOK, NEW c \in Clients, ClientStep(c)
    PROVE  TypeOK'
<1>1. CASE CallSome(c)
  <2>1. AskableOps \subseteq AllOps
    BY ExchangeAssumption DEF AskableOps, ExchangeAssumption
  <2> QED  BY <1>1, <2>1, CallType DEF CallSome
<1> QED
  BY <1>1, TimeoutType, ReceiveReplyType, ReopenType DEF ClientStep

(* Every variable keeps to its type; the serial numbers to their 16 bits. *)
THEOREM TypeCorrect == Spec => []TypeOK
<1>1. TypeOK /\ [Next]_vars => TypeOK'
  <2> SUFFICES ASSUME TypeOK, [Next]_vars
               PROVE  TypeOK'
    OBVIOUS
  <2>1. CASE \E c \in Peers : ClientStep(c) \/ Lose(c) \/ Duplicate(c) \/ Arrival(c)
    BY <2>1, PeersAreClients, ClientStepType, LinkType, ArrivalType
  <2>2. CASE Signal \/ Complete \/ Executing \/ CheckTimeout
    BY <2>2, SignalType, CompleteType, WaitingType
  <2>3. CASE LeaveLoop \/ TerminateExec \/ ReleaseAll
    BY <2>3, EndingType, ReleaseAllType
  <2>4. CASE ExecStart \/ ExecFinish \/ ExecEnd
    BY <2>4, ExecStartType, ExecFinishType, EndingType
  <2>5. CASE UNCHANGED vars
    BY <2>5 DEF vars, clientVars, netVars, serverVars, nodeVars, execVars, providerVars,
       historyVars, TypeOK, ClientTypeOK, NetTypeOK, NodeTypeOK, ExecTypeOK,
       ObjectTypeOK, HistoryTypeOK
  <2> QED  BY <2>1, <2>2, <2>3, <2>4, <2>5 DEF Next
<1> QED
  BY <1>1, InitType, PTL DEF Spec

=============================================================================
