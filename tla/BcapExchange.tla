---------------------------- MODULE BcapExchange ----------------------------
(***************************************************************************)
(* One b-CAP request/response exchange, end to end: the client library's   *)
(* send_receive() with its serial numbers and retries, a link that may     *)
(* lose, duplicate or reorder packets, and one server object: recv_thread  *)
(* running receive_execute(), exec_thread running bcap_callfunc(), and the *)
(* two events they hand a request over with.                               *)
(*                                                                         *)
(* link is the connection type.  A UDP server object serves every client   *)
(* and remembers one node for each of them; a serial line, and the server  *)
(* object of one accepted TCP connection, serve the single client Solo.    *)
(*                                                                         *)
(* Packets are records.  Request: from, serial, reserv, op, h (the object  *)
(* handle a release names) and call, the number of the caller's call.      *)
(* Reply: serial, id, h (the created handle) and call, the call whose      *)
(* execution made it (0: no execution did).  call is not in the packets of *)
(* the program: it lets the properties say whose answer an answer is.      *)
(***************************************************************************)
EXTENDS Integers, Sequences, FiniteSets, SequencesExt, FiniteSetsExt

CONSTANTS
    Clients,    \* UDP clients, by source address
    Solo,       \* the client of a serial line or of a TCP connection
    Links,      \* connection types of the run, of "TCP", "UDP", "COM"
    WdtLinks,   \* the links whose clients may ask for the WDT option
    Ops,        \* requests of the run, a subset of AllOps
    Handles,    \* object handles the provider may give out
    TryMax,     \* bcap_param->retry: tries of a call over UDP and COM
    SerialMax,  \* largest serial number: 65535 in the program
    ClientMax,  \* BCAP_CLIENT_MAX
    ObjectMax,  \* BCAP_OBJECT_MAX
    SerialStarts, \* the client's serial when the behaviour begins
    Faults,     \* bound: what may fail, a subset of AllFaults
    CallMax,    \* bound: calls of all clients together
    MishapMax,  \* bound: packets the link loses or duplicates
    SessionMax, \* bound: times a client opens its connection
    QueueMax    \* bound: replies under way to one client

AllOps == {"START", "START_WDT", "START_BAD", "START_MALFORMED", "STOP",
           "GET", "RELEASE", "EXECUTE"}
Starts == {"START", "START_WDT", "START_BAD", "START_MALFORMED"}
Creating == Starts \cup {"GET"}

(* bcap_send failing at the client or at the server; the server closed, or
   its socket broken, between two packets. *)
AllFaults == {"client_send", "server_send", "close"}

ASSUME ExchangeAssumption ==
    /\ Solo \in Clients
    /\ Links \subseteq {"TCP", "UDP", "COM"}
    /\ Ops \subseteq AllOps
    /\ Handles \subseteq Nat /\ 0 \notin Handles
    /\ TryMax \in Nat \ {0} /\ SerialMax \in Nat \ {0}
    /\ ClientMax \in Nat \ {0} /\ ObjectMax \in Nat \ {0}
    /\ SerialStarts \subseteq 1..SerialMax
    /\ Faults \subseteq AllFaults
    /\ CallMax \in Nat /\ MishapMax \in Nat
    /\ SessionMax \in Nat /\ QueueMax \in Nat

VARIABLES
    link,       \* device.type, fixed when the two ends are opened
    \* the client: struct CONN_BCAP_CLIENT and the locals of send_receive()
    cpc,        \* "idle": mutex free, "wait": in bcap_recv
    serial,     \* bcap_param->serial, the next serial number
    sent,       \* packet_send: the packet of the latest try
    tries,      \* retry_cnt + 1
    calls,      \* number of the latest call
    ret,        \* id and call of the answer the latest finished call returned
    session,    \* times this client has opened its connection
    \* the link
    toServer, toClient,
    mishaps,    \* packets lost or duplicated so far
    \* the server: struct CONN_BCAP_SERVER and the locals of receive_execute()
    spc,        \* where recv_thread is
    nodes,      \* UDP: the clients that have a node in the children list
    cache,      \* UDP: client -> last_send of its node
    wdt,        \* client -> wdt_interval of its node (or object) is finite
    lastRecv,   \* last_recv
    lastSend,   \* last_send of the server object
    compEvt, execEvt, termEvt,  \* comp_evt, exec_evt, term_sub_evt
    xpc,        \* where exec_thread is
    vector,     \* created objects, the latest first
    \* the provider behind the callback functions
    live, started,  \* objects it holds; services it has started
    \* history
    produced,   \* client -> outcomes produced for its latest call
    execs,      \* client -> executions begun for its latest call (2: several)
    remembered, \* client -> the server is bound to recognise the call's retries
    abandoned   \* the receiver has given up waiting for some execution

clientVars == <<cpc, serial, sent, tries, calls, ret, session>>
netVars == <<toServer, toClient, mishaps>>
nodeVars == <<nodes, cache, wdt>>
execVars == <<lastRecv, lastSend, compEvt, execEvt, termEvt, xpc>>
serverVars == <<spc, nodeVars, execVars, vector>>
providerVars == <<live, started>>
historyVars == <<produced, execs, remembered, abandoned>>
vars == <<link, clientVars, netVars, serverVars, providerVars, historyVars>>

-----------------------------------------------------------------------------
(* Packets and answers. *)

FuncIds == {"S_OK", "E_FUNC"}           \* what a callback function returns
ErrorIds == {"E_TIMEOUT", "E_SEND", "E_BUSY_PROC", "E_MAX_CONNECT",
             "E_MAX_OBJECT", "E_INVALIDARG"}
Serials == 0..SerialMax                 \* uint16_t
Request == [from : Clients, serial : Serials, reserv : Serials, op : AllOps,
            h : Handles \cup {0}, call : Nat]
Reply == [serial : Serials, id : FuncIds \cup ErrorIds \cup {"S_EXECUTING"},
          h : Handles \cup {0}, call : Nat]

(* An object or node cleared by memset(0): id 0 is S_OK, serial is 0. *)
Fresh == [serial |-> 0, id |-> "S_OK", h |-> 0, call |-> 0]
NoRequest == [from |-> Solo, serial |-> 0, reserv |-> 0, op |-> "EXECUTE",
              h |-> 0, call |-> 0]

(* A packet the server composes itself, without any execution. *)
Status(m, id) == [serial |-> m.serial, id |-> id, h |-> 0, call |-> 0]

Peers == IF link = "UDP" THEN Clients ELSE {Solo}
Tries == IF link = "TCP" THEN 1 ELSE TryMax

(* serial++ on a uint16_t, and 0 replaced by 1; in its mutant NextSerialZero, 0
   is not skipped. *)
NextSerialZero(s) == (s + 1) % (SerialMax + 1)
NextSerial(s) == LET n == (s + 1) % (SerialMax + 1) IN IF n = 0 THEN 1 ELSE n

(* TCP and a serial line keep the order of packets, UDP does not. *)
Deliverable(q) == IF link = "UDP" THEN DOMAIN q ELSE DOMAIN q \cap {1}

-----------------------------------------------------------------------------
(* The client. *)

Answer(c, id, call) == ret' = [ret EXCEPT ![c] = [id |-> id, call |-> call]]

(* One pass of the retry loop: the packet of this try takes the next serial
   number and is sent; when bcap_send fails the call returns its error. *)
Try(c, m) ==
    LET p == [m EXCEPT !.serial = serial[c]] IN
    /\ serial' = [serial EXCEPT ![c] = NextSerial(@)]
    /\ sent' = [sent EXCEPT ![c] = p]
    /\ \/ /\ cpc' = [cpc EXCEPT ![c] = "wait"]
          /\ toServer' = [toServer EXCEPT ![c] = Append(@, p)]
          /\ UNCHANGED ret
       \/ /\ "client_send" \in Faults
          /\ cpc' = [cpc EXCEPT ![c] = "idle"]
          /\ Answer(c, "E_SEND", 0)
          /\ UNCHANGED toServer

(* The requests an application makes: WDT is asked for on WdtLinks only. *)
AskableOps == IF link \in WdtLinks THEN Ops ELSE Ops \ {"START_WDT"}

(* send_receive() takes the mutex; the serial of the first try goes into
   reserv of every try, except over TCP. *)
Call(c, op, h) ==
    /\ cpc[c] = "idle"
    /\ calls[c] < CallMax /\ MapThenSumSet(LAMBDA d : calls[d], Clients) < CallMax
    /\ calls' = [calls EXCEPT ![c] = @ + 1]
    /\ tries' = [tries EXCEPT ![c] = 1]
    /\ Try(c, [from |-> c, serial |-> 0, op |-> op, h |-> h, call |-> calls[c] + 1,
               reserv |-> IF link = "TCP" THEN 0 ELSE serial[c]])
    /\ produced' = [produced EXCEPT ![c] = {}]
    /\ execs' = [execs EXCEPT ![c] = 0]
    /\ remembered' = [remembered EXCEPT ![c] = FALSE]
    /\ UNCHANGED <<link, session, toClient, mishaps, serverVars,
                   providerVars, abandoned>>

CallSome(c) ==
    \E op \in AskableOps :
      \E h \in IF op = "RELEASE" THEN Handles ELSE {0} : Call(c, op, h)

(* bcap_recv times out (or fails): the next try, or the end of the call. *)
Timeout(c) ==
    /\ cpc[c] = "wait"
    /\ IF tries[c] < Tries
       THEN /\ tries' = [tries EXCEPT ![c] = @ + 1]
            /\ Try(c, sent[c])
       ELSE /\ cpc' = [cpc EXCEPT ![c] = "idle"]
            /\ Answer(c, "E_TIMEOUT", 0)
            /\ UNCHANGED <<serial, sent, tries, toServer>>
    /\ UNCHANGED <<link, calls, session, toClient, mishaps, serverVars,
                   providerVars, historyVars>>

(* A reply ends the call when it carries the serial of the latest try and is
   not S_EXECUTING; any other is dropped and the client waits on. *)
Accepts(c, r) == r.serial = sent[c].serial /\ r.id # "S_EXECUTING"

ReceiveReply(c, i) ==
    /\ cpc[c] = "wait"
    /\ i \in Deliverable(toClient[c])
    /\ LET r == toClient[c][i] IN
       IF Accepts(c, r)
       THEN /\ cpc' = [cpc EXCEPT ![c] = "idle"]
            /\ Answer(c, r.id, r.call)
       ELSE UNCHANGED <<cpc, ret>>
    /\ toClient' = [toClient EXCEPT ![c] = RemoveAt(@, i)]
    /\ UNCHANGED <<link, serial, sent, tries, calls, session, toServer, mishaps, serverVars, providerVars, historyVars>>

(* The application closes the connection and opens it again from the same
   address or on the same line: bCap_Open_Client starts at serial 1. *)
Reopen(c) ==
    /\ link # "TCP"
    /\ cpc[c] = "idle"
    /\ session[c] < SessionMax
    /\ session' = [session EXCEPT ![c] = @ + 1]
    /\ serial' = [serial EXCEPT ![c] = 1]
    /\ UNCHANGED <<link, cpc, sent, tries, calls, ret, netVars, serverVars,
                   providerVars, historyVars>>

-----------------------------------------------------------------------------
(* The link. *)

(* A datagram, or a frame of a serial line whose CRC no longer matches. *)
Lose(c) ==
    /\ link # "TCP" /\ mishaps < MishapMax
    /\ mishaps' = mishaps + 1
    /\ \/ \E i \in DOMAIN toServer[c] :
             toServer' = [toServer EXCEPT ![c] = RemoveAt(@, i)] /\ UNCHANGED toClient
       \/ \E i \in DOMAIN toClient[c] :
             toClient' = [toClient EXCEPT ![c] = RemoveAt(@, i)] /\ UNCHANGED toServer
    /\ UNCHANGED <<link, clientVars, serverVars, providerVars, historyVars>>

Duplicate(c) ==
    /\ link = "UDP" /\ mishaps < MishapMax
    /\ mishaps' = mishaps + 1
    /\ \/ \E i \in DOMAIN toServer[c] :
             /\ toServer' = [toServer EXCEPT ![c] = Append(@, @[i])]
             /\ UNCHANGED toClient
       \/ \E i \in DOMAIN toClient[c] :
             /\ toClient' = [toClient EXCEPT ![c] = Append(@, @[i])]
             /\ UNCHANGED toServer
    /\ UNCHANGED <<link, clientVars, serverVars, providerVars, historyVars>>

-----------------------------------------------------------------------------
(* recv_thread: a packet arrives. *)

(* search_node, check_lifelimit and ADD_CHILD: the node sets a packet of c may
   leave behind.  When the list is full, any nodes may have expired. *)
Admissions(c) ==
    IF link # "UDP" \/ c \in nodes THEN {nodes}
    ELSE IF Cardinality(nodes) < ClientMax THEN {nodes \cup {c}}
    ELSE {(nodes \ gone) \cup {c} : gone \in SUBSET nodes \ {{}}}

(* The reply a packet of c is compared with. *)
LastReplyShared(c) == lastSend      \* mutant: one last_send for all the clients
LastReply(c) ==
    IF link = "UDP" THEN (IF c \in nodes THEN cache[c] ELSE Fresh) ELSE lastSend

\* Mutant of RetryKey: the reserve field is ignored.
RetryKeySerial(m) == m.serial
RetryKey(m) == IF m.reserv = 0 THEN m.serial ELSE m.reserv
\* Mutant of IsRetry: whatever is not newer than the last reply.
IsRetryOlder(c, m) == link # "TCP" /\ LastReply(c).serial >= RetryKey(m)
IsRetry(c, m) == link # "TCP" /\ LastReply(c).serial = RetryKey(m)

(* The node of c is found or added, with interval w; a node that leaves the
   list takes its memory of its client with it. *)
Memory(n, f, blank) ==
    [d \in Clients |-> IF link # "UDP" \/ d \in nodes \cap n THEN f[d] ELSE blank]
Admit(c, n, w) ==
    /\ nodes' = n
    /\ cache' = Memory(n, cache, Fresh)
    /\ wdt' = [Memory(n, wdt, FALSE) EXCEPT ![c] = w]

Forget(n) == remembered' = Memory(n, remembered, FALSE)

(* recv_thread takes a packet of c off the link and, in RefuseX and
   AnswerRetry, is done with it once it has replied. *)
Incoming(c, i) ==
    /\ spc = "recv" /\ i \in Deliverable(toServer[c])
    /\ toServer' = [toServer EXCEPT ![c] = RemoveAt(@, i)]
    /\ UNCHANGED <<link, clientVars, mishaps, providerVars, produced, execs, abandoned>>

ReplyTo(c, r) ==
    /\ Len(toClient[c]) < QueueMax
    /\ toClient' = [toClient EXCEPT ![c] = Append(@, r)]

(* All nodes are in use and none has expired. *)
RefuseConnection(c, i) ==
    /\ Incoming(c, i)
    /\ link = "UDP" /\ c \notin nodes /\ Cardinality(nodes) >= ClientMax
    /\ ReplyTo(c, Status(toServer[c][i], "E_MAX_CONNECT"))
    /\ UNCHANGED <<serverVars, remembered>>

(* "Checks retry packet": the last reply is sent again under the new serial. *)
AnswerRetry(c, i) ==
    /\ Incoming(c, i)
    /\ IsRetry(c, toServer[c][i])
    /\ ReplyTo(c, [LastReply(c) EXCEPT !.serial = toServer[c][i].serial])
    /\ \E n \in Admissions(c) : Admit(c, n, wdt[c]) /\ Forget(n)
    /\ UNCHANGED <<spc, execVars, vector>>

(* exec_thread still runs an earlier request, which the receiver gave up. *)
AlwaysFree == TRUE      \* mutant of Free: comp_evt is not looked at
Free == compEvt
RefuseBusy(c, i) ==
    /\ Incoming(c, i)
    /\ ~IsRetry(c, toServer[c][i]) /\ ~Free
    /\ ReplyTo(c, Status(toServer[c][i], "E_BUSY_PROC"))
    /\ \E n \in Admissions(c) : Admit(c, n, wdt[c]) /\ Forget(n)
    /\ UNCHANGED <<spc, execVars, vector>>

(* No room for another object. *)
Full(m) == m.op \in Creating /\ Len(vector) >= ObjectMax
RefuseObject(c, i) ==
    /\ Incoming(c, i)
    /\ ~IsRetry(c, toServer[c][i]) /\ Free /\ Full(toServer[c][i])
    /\ ReplyTo(c, Status(toServer[c][i], "E_MAX_OBJECT"))
    /\ \E n \in Admissions(c) : Admit(c, n, wdt[c]) /\ Forget(n)
    /\ UNCHANGED <<spc, execVars, vector>>

(* The WDT intervals receive_execute() may have stored, finite or not, by the
   time it goes on with a request or refuses its options. *)
NewWdt(c, op) ==
    {w \in BOOLEAN :
        CASE op = "START" -> ~w
          [] op = "START_WDT" -> w
          [] op = "START_BAD" -> w => wdt[c] \/ link \in WdtLinks
          [] op = "START_MALFORMED" -> w => link \in WdtLinks
          [] OTHER -> w = wdt[c]}

(* An option of ID_SERVICE_START is no string, or below its minimum. *)
RefuseOption(c, i) ==
    /\ Incoming(c, i)
    /\ ~IsRetry(c, toServer[c][i]) /\ Free /\ ~Full(toServer[c][i])
    /\ toServer[c][i].op = "START_BAD"
    /\ ReplyTo(c, Status(toServer[c][i], "E_INVALIDARG"))
    /\ \E n \in Admissions(c), w \in NewWdt(c, "START_BAD") :
          Admit(c, n, w) /\ Forget(n)
    /\ UNCHANGED <<spc, execVars, vector>>

(* The request goes to exec_thread: last_recv is replaced and comp_evt reset.
   exec_evt is set by the next step, Signal. *)
NoReset == compEvt      \* mutant of ResetComp: the reset is missing
ResetComp == FALSE
Accept(c, i) ==
    /\ Incoming(c, i)
    /\ LET m == toServer[c][i] IN
       /\ ~IsRetry(c, m) /\ Free /\ ~Full(m) /\ m.op # "START_BAD"
       /\ lastRecv' = m
       /\ \E n \in Admissions(c), w \in NewWdt(c, m.op) :
             /\ Admit(c, n, w)
             /\ remembered' = [Memory(n, remembered, FALSE) EXCEPT ![c] =
                    m.call = calls[c] /\ (@ \/ (execs[c] = 0 /\ m.serial = RetryKey(m)))]
    /\ compEvt' = ResetComp
    /\ spc' = "signal"
    /\ UNCHANGED <<toClient, lastSend, execEvt, termEvt, xpc, vector>>

(* GetOptionValue failed on a malformed InvokeTimeout: hr is an error, the
   receiver does not wait for the execution and leaves its loop. *)
Signal ==
    /\ spc = "signal"
    /\ execEvt' = TRUE
    /\ IF lastRecv.op = "START_MALFORMED"
       THEN spc' = "exit" /\ abandoned' = TRUE
       ELSE spc' = "await" /\ UNCHANGED abandoned
    /\ UNCHANGED <<link, clientVars, netVars, nodeVars, lastRecv, lastSend, compEvt,
                   termEvt, xpc, vector, providerVars, produced, execs, remembered>>

-----------------------------------------------------------------------------
(* exec_thread. *)

Client == lastRecv.from
IsLatestCall == lastRecv.call = calls[Client]

(* exec_evt wakes the thread; bcap_callfunc prepares last_send, the serial
   number included, before it calls the function. *)
ExecStart ==
    /\ xpc = "wait" /\ execEvt
    /\ execEvt' = FALSE
    /\ xpc' = "run"
    /\ lastSend' = [serial |-> lastRecv.serial, id |-> "E_INVALIDARG", h |-> 0,
                    call |-> lastRecv.call]
    /\ execs' = IF IsLatestCall
                THEN [execs EXCEPT ![Client] = IF @ = 0 THEN 1 ELSE 2] ELSE execs
    /\ UNCHANGED <<link, clientVars, netVars, spc, nodeVars, lastRecv, compEvt, termEvt,
                   vector, providerVars, produced, remembered, abandoned>>

(* What the provider may do for a request: the id it returns, the handle it
   creates (0: none) and the objects and services it holds afterwards. *)
Effects(op, h) ==
    {[id |-> "E_FUNC", h |-> 0, live |-> live, started |-> started]} \cup
    CASE op \in Starts ->
           {[id |-> "S_OK", h |-> 0, live |-> live, started |-> started + 1]}
      [] op = "STOP" /\ started > 0 ->
           {[id |-> "S_OK", h |-> 0, live |-> live, started |-> started - 1]}
      [] op = "GET" ->
           {[id |-> "S_OK", h |-> g, live |-> live \cup {g}, started |-> started] :
              g \in Handles \ live}
      [] op = "RELEASE" /\ h \in live ->
           {[id |-> "S_OK", h |-> 0, live |-> live \ {h}, started |-> started]}
      [] op = "EXECUTE" ->
           {[id |-> "S_OK", h |-> 0, live |-> live, started |-> started]}
      [] OTHER -> {}

(* The function returns: its id and value go to last_send, comp_evt is set. *)
SetCompOnSuccess(id) == id = "S_OK"     \* mutant of SetComp
SetComp(id) == TRUE
ExecFinish ==
    /\ xpc = "run"
    /\ \E e \in Effects(lastRecv.op, lastRecv.h) :
          /\ lastSend' = [lastSend EXCEPT !.id = e.id, !.h = e.h]
          /\ live' = e.live /\ started' = e.started
          /\ compEvt' = SetComp(e.id)
          /\ IF IsLatestCall
             THEN produced' = [produced EXCEPT ![Client] =
                                 @ \cup {[id |-> e.id, call |-> lastRecv.call]}]
             ELSE UNCHANGED produced
    /\ xpc' = "wait"
    /\ UNCHANGED <<link, clientVars, netVars, spc, nodeVars, lastRecv, execEvt, termEvt,
                   vector, execs, remembered, abandoned>>

(* term_sub_evt ends the thread; when exec_evt is set as well,
   wait_event_multi may report either of the two. *)
ExecEnd ==
    /\ xpc = "wait" /\ termEvt
    /\ xpc' = "ended"
    /\ UNCHANGED <<link, clientVars, netVars, spc, nodeVars, lastRecv, lastSend, compEvt,
                   execEvt, termEvt, vector, providerVars, historyVars>>

-----------------------------------------------------------------------------
(* recv_thread: waiting for the execution. *)

(* m_map_id: the release function of what a request creates. *)
ReleaseOf(op) == IF op = "GET" THEN "RELEASE" ELSE "STOP"

(* struct VEC_OBJECT: the release function and the handle of an object. *)
Entry == [rel : {"STOP", "RELEASE"}, h : Handles \cup {0}]

(* push_vector; search_vector, which looks from the latest object for one with
   this release function and handle, and pop_vector. *)
Push(v, m, h) == <<[rel |-> ReleaseOf(m.op), h |-> IF m.op = "GET" THEN h ELSE 0]>> \o v
Pop(v, m) ==
    LET hits == {k \in DOMAIN v : v[k] = [rel |-> m.op, h |-> m.h]} IN
    IF hits = {} THEN v ELSE RemoveAt(v, CHOOSE k \in hits : \A j \in hits : k <= j)
\* Mutant of VectorAfter: a failed function is taken for a successful one.
VectorAfterAny ==
    IF lastRecv.op \in Creating THEN Push(vector, lastRecv, lastSend.h)
    ELSE IF lastRecv.op \in {"STOP", "RELEASE"} THEN Pop(vector, lastRecv)
    ELSE vector
VectorAfter ==
    IF lastSend.id # "S_OK" THEN vector
    ELSE IF lastRecv.op \in Creating THEN Push(vector, lastRecv, lastSend.h)
    ELSE IF lastRecv.op \in {"STOP", "RELEASE"} THEN Pop(vector, lastRecv)
    ELSE vector

(* comp_evt is set: the vector of objects is brought up to date, over UDP a
   stopped service gives up its node, and the result is sent and remembered.
   When bcap_send fails (E_TOO_MUCH_DATA, a socket error) the thread ends. *)
Complete ==
    LET stops == link = "UDP" /\ lastRecv.op = "STOP" /\ lastSend.id = "S_OK"
        kept  == IF stops THEN nodes \ {Client} ELSE nodes
    IN /\ spc = "await" /\ compEvt
       /\ vector' = VectorAfter
       /\ nodes' = kept
       /\ wdt' = IF stops THEN [wdt EXCEPT ![Client] = FALSE] ELSE wdt
       /\ remembered' = IF stops THEN [remembered EXCEPT ![Client] = FALSE] ELSE remembered
       /\ \/ /\ ReplyTo(Client, lastSend)
             /\ spc' = "recv"
             /\ cache' = [d \in Clients |->
                            IF d # Client \/ link # "UDP" THEN cache[d]
                            ELSE IF stops THEN Fresh ELSE lastSend]
          \/ /\ "server_send" \in Faults
             /\ spc' = "exit"
             /\ cache' = IF stops THEN [cache EXCEPT ![Client] = Fresh] ELSE cache
             /\ UNCHANGED toClient
       /\ UNCHANGED <<link, clientVars, toServer, mishaps, execVars, providerVars,
                      produced, execs, abandoned>>

(* A finite wdt_interval passes first: S_EXECUTING tells the client to wait. *)
Executing ==
    /\ spc = "await" /\ ~compEvt /\ wdt[Client]
    /\ \/ /\ ReplyTo(Client, Status(lastRecv, "S_EXECUTING"))
          /\ spc' = "check"
          /\ UNCHANGED abandoned
       \/ /\ "server_send" \in Faults
          /\ spc' = "exit"
          /\ abandoned' = TRUE
          /\ UNCHANGED toClient
    /\ UNCHANGED <<link, clientVars, toServer, mishaps, nodeVars, execVars, vector,
                   providerVars, produced, execs, remembered>>

(* exec_timeout has passed, or not: E_TIMEOUT ends the wait without a reply,
   even when the function has returned since. *)
CheckTimeout ==
    /\ spc = "check"
    /\ \/ spc' = "await" /\ UNCHANGED <<remembered, abandoned>>
       \/ /\ spc' = "recv"
          /\ abandoned' = TRUE
          /\ remembered' = [remembered EXCEPT ![Client] = FALSE]
    /\ UNCHANGED <<link, clientVars, netVars, nodeVars, execVars, vector, providerVars,
                   produced, execs>>

-----------------------------------------------------------------------------
(* recv_thread: its end. *)

(* term_main_evt is set by bCap_Close_Server, or bcap_recv fails with
   something other than a timeout. *)
LeaveLoop ==
    /\ spc = "recv" /\ "close" \in Faults
    /\ spc' = "exit"
    /\ UNCHANGED <<link, clientVars, netVars, nodeVars, execVars, vector, providerVars,
                   historyVars>>

TerminateExec ==
    /\ spc = "exit"
    /\ spc' = "join"
    /\ termEvt' = TRUE
    /\ UNCHANGED <<link, clientVars, netVars, nodeVars, lastRecv, lastSend, compEvt, execEvt,
                   xpc, vector, providerVars, historyVars>>

(* exec_thread is joined, the release function of every object left in the
   vector is called (it succeeds), and the nodes are destroyed. *)
Released(v) == {v[k].h : k \in {k \in DOMAIN v : v[k].rel = "RELEASE"}}
Stopped(v) == Cardinality({k \in DOMAIN v : v[k].rel = "STOP"})
ReleaseAll ==
    /\ spc = "join" /\ xpc = "ended"
    /\ vector' = <<>>
    /\ live' = live \ Released(vector)
    /\ started' = started - Stopped(vector)
    /\ nodes' = {}
    /\ cache' = [c \in Clients |-> Fresh]
    /\ wdt' = [c \in Clients |-> FALSE]
    /\ remembered' = [c \in Clients |-> FALSE]
    /\ spc' = "done"
    /\ UNCHANGED <<link, clientVars, netVars, execVars, produced, execs, abandoned>>

-----------------------------------------------------------------------------
Init ==
    /\ link \in Links
    /\ cpc = [c \in Clients |-> "idle"]
    /\ \E s \in SerialStarts : serial = [c \in Clients |-> s]
    /\ sent = [c \in Clients |-> NoRequest]
    /\ tries = [c \in Clients |-> 0]
    /\ calls = [c \in Clients |-> 0]
    /\ ret = [c \in Clients |-> [id |-> "E_TIMEOUT", call |-> 0]]
    /\ session = [c \in Clients |-> 1]
    /\ toServer = [c \in Clients |-> <<>>]
    /\ toClient = [c \in Clients |-> <<>>]
    /\ mishaps = 0
    /\ spc = "recv"
    /\ nodes = {}
    /\ cache = [c \in Clients |-> Fresh]
    /\ wdt = [c \in Clients |-> FALSE]
    /\ lastRecv = NoRequest
    /\ lastSend = Fresh
    /\ compEvt = TRUE /\ execEvt = FALSE /\ termEvt = FALSE
    /\ xpc = "wait"
    /\ vector = <<>>
    /\ live = {} /\ started = 0
    /\ produced = [c \in Clients |-> {}]
    /\ execs = [c \in Clients |-> 0]
    /\ remembered = [c \in Clients |-> FALSE]
    /\ abandoned = FALSE

ClientStep(c) ==
    \/ CallSome(c)
    \/ Timeout(c)
    \/ \E i \in DOMAIN toClient[c] : ReceiveReply(c, i)
    \/ Reopen(c)

Arrival(c) ==
    \E i \in DOMAIN toServer[c] :
        \/ RefuseConnection(c, i)
        \/ AnswerRetry(c, i)
        \/ RefuseBusy(c, i)
        \/ RefuseObject(c, i)
        \/ RefuseOption(c, i)
        \/ Accept(c, i)

Next ==
    \/ \E c \in Peers : ClientStep(c)
    \/ \E c \in Peers : Lose(c) \/ Duplicate(c)
    \/ \E c \in Peers : Arrival(c)
    \/ Signal \/ Complete \/ Executing \/ CheckTimeout
    \/ LeaveLoop \/ TerminateExec \/ ReleaseAll
    \/ ExecStart \/ ExecFinish \/ ExecEnd

Spec == Init /\ [][Next]_vars

(* The server's threads run, and the provider's functions return.  Nothing
   makes a client call, a packet arrive or the server close; a receiver that
   keeps waiting for an execution is woken by it. *)
Fairness ==
    /\ WF_vars(Signal) /\ WF_vars(Complete) /\ WF_vars(CheckTimeout)
    /\ WF_vars(TerminateExec) /\ WF_vars(ReleaseAll)
    /\ WF_vars(ExecStart) /\ WF_vars(ExecFinish) /\ WF_vars(ExecEnd)

FairSpec == Spec /\ Fairness

-----------------------------------------------------------------------------
(* Every variable of the two ends and of the link holds a value of its kind:
   in particular serial numbers stay in the range of their uint16_t. *)
ClientTypeOK ==
    /\ cpc \in [Clients -> {"idle", "wait"}]
    /\ serial \in [Clients -> Serials]
    /\ sent \in [Clients -> Request]
    /\ tries \in [Clients -> 0..TryMax]
    /\ calls \in [Clients -> Nat]
    /\ ret \in [Clients -> [id : FuncIds \cup ErrorIds, call : Nat]]
    /\ session \in [Clients -> Nat]
NetTypeOK ==
    /\ toServer \in [Clients -> Seq(Request)]
    /\ toClient \in [Clients -> Seq(Reply)]
    /\ mishaps \in Nat
NodeTypeOK ==
    /\ nodes \subseteq Clients
    /\ cache \in [Clients -> Reply]
    /\ wdt \in [Clients -> BOOLEAN]
ExecTypeOK ==
    /\ lastRecv \in Request
    /\ lastSend \in Reply
    /\ compEvt \in BOOLEAN /\ execEvt \in BOOLEAN /\ termEvt \in BOOLEAN
    /\ xpc \in {"wait", "run", "ended"}
ObjectTypeOK ==
    /\ vector \in Seq(Entry)
    /\ live \subseteq Handles /\ started \in Int
HistoryTypeOK ==
    /\ produced \in [Clients -> SUBSET [id : FuncIds, call : Nat]]
    /\ execs \in [Clients -> 0..2]
    /\ remembered \in [Clients -> BOOLEAN]
    /\ abandoned \in BOOLEAN
TypeOK ==
    /\ link \in Links
    /\ spc \in {"recv", "signal", "await", "check", "exit", "join", "done"}
    /\ ClientTypeOK /\ NetTypeOK /\ NodeTypeOK
    /\ ExecTypeOK /\ ObjectTypeOK /\ HistoryTypeOK

(* send_receive and receive_execute together keep the promise of RemoteCall:
   a call that returns an outcome of a function returns one the function
   produced for this very call, whatever was lost, duplicated, reordered,
   answered from last_send or given up, and never the zeroed or half-written
   last_send of the server. *)
CallErrors(op) ==
    {[id |-> e, call |-> 0] :
        e \in {"E_TIMEOUT", "E_SEND", "E_BUSY_PROC", "E_MAX_CONNECT"}
              \cup (IF op \in Creating THEN {"E_MAX_OBJECT"} ELSE {})
              \cup (IF op = "START_BAD" THEN {"E_INVALIDARG"} ELSE {})}
Promise == INSTANCE RemoteCall WITH
    Requests <- AllOps,
    Outcomes <- [id : FuncIds, call : 1..CallMax],
    Errors   <- CallErrors,
    pending  <- [c \in Clients |-> cpc[c] = "wait"],
    request  <- [c \in Clients |-> sent[c].op],
    returned <- ret
CallFaithful == Promise!Spec

(* "If already responded, then does not execute": a call whose first try was
   executed is not executed again by its retries, as long as the client's node
   stays and the receiver did not give the execution up. *)
OnceIfRemembered == \A c \in Clients : remembered[c] => execs[c] <= 1

(* "If already responded, then does not execute" (receive_execute's comment on
   the test IsRetry): a packet that passes the test names a request whose
   response exists, not one that exec_thread is still running. *)
RetryMeansResponded ==
    \A c \in Peers : \A i \in Deliverable(toServer[c]) :
        LET m == toServer[c][i] IN
        spc = "recv" /\ IsRetry(c, m) /\ xpc = "run" =>
            lastRecv.from # c \/ lastRecv.call # m.call

(* "Checks retry packet": a packet that passes the test is a retry, so that the
   response it is answered with belongs to its own call. *)
RetryMeansSameCall ==
    \A c \in Peers : \A i \in Deliverable(toServer[c]) :
        spc = "recv" /\ IsRetry(c, toServer[c][i]) =>
            LastReply(c).call = toServer[c][i].call

(* Each call is executed at most once. *)
AtMostOnce == \A c \in Clients : execs[c] <= 1

(* The two packets are in one hand at a time: the receiver's (comp_evt is set),
   between its two event operations, in exec_evt, or the function's.  It is
   what makes last_recv and last_send, which no lock protects, safe to share. *)
HandOver ==
    /\ compEvt \/ spc = "signal" \/ execEvt \/ xpc = "run"
    /\ compEvt => spc # "signal" /\ ~execEvt /\ xpc # "run"
    /\ spc = "signal" => ~execEvt /\ xpc # "run"
    /\ execEvt => xpc # "run"

(* The two threads share two packets without a lock, and neither writes the one
   that the other uses: recv_thread never replaces last_recv while exec_thread has
   yet to run it or is running it; exec_thread never touches last_send once comp_evt
   is set, when recv_thread reads it, sends it and copies it to the client's node. *)
PacketsUntouched ==
    [][/\ execEvt \/ xpc = "run" => lastRecv' = lastRecv
       /\ compEvt => lastSend' = lastSend]_vars

(* Whenever recv_thread is between two packets, or has ended, the vector holds
   exactly the objects and services the provider holds, unless the receiver has
   given up an execution: nothing is leaked when the server closes. *)
VectorExact ==
    spc \in {"recv", "done"} /\ ~abandoned =>
        Released(vector) = live /\ Stopped(vector) = started

(* Seen through the two events and what exec_thread does, the server keeps the
   promise of HandOver, whatever the clients and the link do and wherever the
   receiver gives up or ends: each accepted request is executed once, or the thread
   ends instead, and the next is accepted when the one before is finished. *)
Shared == INSTANCE HandOver WITH
    phase <- IF compEvt THEN "free" ELSE IF spc = "signal" \/ execEvt THEN "handed" ELSE "executing",
    ended <- xpc = "ended"
RequestsHandedOver == Shared!Spec

(* recv_thread always comes back to its socket, or ends: no wake-up between
   the two threads is lost and the end of the server does not hang. *)
ServerReturns == spc \notin {"recv", "done"} ~> spc \in {"recv", "done"}

=============================================================================
