------------------------------- MODULE PsuComm -------------------------------
(***************************************************************************)
(* The driver's communication with the power-supply CPU: requests queued   *)
(* by send_enqueue() and set_tx_pkt_sync(), and power_communication(),     *)
(* which the interrupt handler calls every 250 us to send one byte, take   *)
(* in what was received and dispatch one received packet.                  *)
(*                                                                         *)
(* psu holds psu_param, the two rings, the stack of communication states   *)
(* and the error word; the functions of ipc8_ps_comm.c are operators from  *)
(* one value of psu to the next, composed as the code calls them.  The     *)
(* interrupt is one atomic action; between its ticks the callers take      *)
(* their own steps.                                                        *)
(*                                                                         *)
(* A received packet is its meaning: "ACK" and "REJ" name the command of   *)
(* send_data, "STRAY" is an ACK or a REJ of another command, "BAD" has a   *)
(* wrong check digit.  A packet arrives with its last byte.                *)
(***************************************************************************)
EXTENDS Integers, Sequences, FiniteSets, SequencesExt

CONSTANTS
    Callers,            \* processes that may be in set_tx_pkt_sync
    SendQueueSize,      \* SEND_QUEUE_SIZE, 6: one slot stays free
    RecvQueueSize,      \* RECV_QUEUE_SIZE, 6
    StackSize,          \* STACK_SIZE, 4
    PacketBytes,        \* bytes of a packet: 8 to 32
    TimeoutLimit,       \* LIMIT_TIMEOUT: ticks of 250 us in 40 ms
    TimeoutRetryLimit,  \* LIMIT_TIMEOUT_RETRY, 8
    SendNakLimit,       \* LIMIT_SEND_NAK, 8
    RecvNakLimit,       \* LIMIT_RECV_NAK, 8
    BootRequests,       \* requests queued at initialisation: 4
    Interrupts,         \* a caller's sleep may be cut short
    RequestMax,         \* bound: requests accepted
    NoiseMax            \* bound: packets and bytes received unexpectedly

ASSUME PsuAssumption ==
    /\ SendQueueSize \in Nat /\ SendQueueSize > 1
    /\ RecvQueueSize \in Nat /\ RecvQueueSize > 1
    /\ StackSize \in Nat \ {0} /\ PacketBytes \in Nat \ {0}
    /\ TimeoutLimit \in Nat \ {0}
    /\ TimeoutRetryLimit \in Nat /\ TimeoutRetryLimit > 1
    /\ SendNakLimit \in Nat \ {0} /\ RecvNakLimit \in Nat \ {0}
    /\ BootRequests \in 0..SendQueueSize - 1
    /\ Interrupts \in BOOLEAN
    /\ RequestMax \in Nat /\ NoiseMax \in Nat

VARIABLES
    psu,        \* PSU_PARAM, SEND_DATA_QUEUE, RECV_PACKET_QUEUE, COMM_STATE_STACK
                \* and psu_error.error
    cpc,        \* caller -> where it is in set_tx_pkt_sync
    cret,       \* caller -> how its latest call ended
    creq,       \* caller -> its latest request, by number
    \* history
    accepted,   \* requests accepted so far: numbers the requests
    firstSync,  \* number of the first synchronous request, 0: none yet
    failed,     \* some request ended without its ACK
    noise       \* packets and bytes received unexpectedly so far

vars == <<psu, cpc, cret, creq, accepted, firstSync, failed, noise>>

Unexpected == {"REJ", "STRAY", "NAK", "ERRWARN", "UNKNOWN", "BAD"}
Packets == {"ACK"} \cup Unexpected

(* PSU_COMM_DATA: number and wait.  PSU_COMM_STATE: all zero after memset. *)
Data == [id : Nat, wait : BOOLEAN]
CommState == [use : {"QUEUE", "ACK", "NAK"}, retry : Nat, nakSent : Nat, nakRecv : Nat]
Cleared == [use |-> "QUEUE", retry |-> 0, nakSent |-> 0, nakRecv |-> 0]

-----------------------------------------------------------------------------
(* The send ring. *)

NextIndex(i) == (i + 1) % SendQueueSize

FullNever(s) == FALSE           \* mutant: the ring is never found full
QueueFull(s) == NextIndex(s.tail) = s.head

Enqueued(s, d) == [s EXCEPT !.slots[s.tail] = d, !.tail = NextIndex(@)]
Dequeued(s) ==
    [s EXCEPT !.sendData = s.slots[s.head], !.head = NextIndex(@),
              !.comm = Cleared, !.noDequeue = TRUE]

(* send_enqueue: the request gets the next number, unless the ring is full. *)
SendEnqueue(wait) ==
    /\ accepted < RequestMax
    /\ IF QueueFull(psu) THEN UNCHANGED <<psu, accepted>>
       ELSE /\ psu' = Enqueued(psu, [id |-> accepted + 1, wait |-> wait])
            /\ accepted' = accepted + 1

-----------------------------------------------------------------------------
(* The stack of communication states; a push on a full stack loses comm. *)

Push(s) == IF Len(s.stack) < StackSize THEN [s EXCEPT !.stack = Append(@, s.comm)] ELSE s
Pop(s) == IF s.stack = <<>> THEN s
          ELSE [s EXCEPT !.comm = Last(s.stack), !.stack = Front(@)]

-----------------------------------------------------------------------------
(* Timeouts. *)

RecordNothing(s, e) == s        \* mutant: the error is not recorded
Record(s, e) == [s EXCEPT !.error = @ \cup {e}]

(* send_retry_packet: the current packet is sent again; at the limit the NAK
   exchange, or the request, is given up. *)
ResentUncounted(s) == [s EXCEPT !.receiving = FALSE]    \* mutant of Resent
Resent(s) == [s EXCEPT !.receiving = FALSE, !.comm.retry = @ + 1]
SendRetry(s) ==
    IF Resent(s).comm.retry < TimeoutRetryLimit THEN Resent(s)
    ELSE IF s.comm.use = "NAK" THEN Pop(Record(Resent(s), "COMMUNICATION"))
    ELSE [Record(Resent(s), "COMMUNICATION") EXCEPT !.noDequeue = FALSE]

(* timeout_count is compared with its limit only, and counts no further. *)
CountTimeout(s) ==
    [s EXCEPT !.timeoutCount = IF @ < TimeoutLimit THEN @ + 1 ELSE @]

(* check_retry_count: case PSU_USE_ACK pops the state and falls into PSU_USE_NAK. *)
CheckRetryCount(s) ==
    LET t == CountTimeout(s)
        u == IF t.comm.use = "ACK" THEN Pop(t) ELSE t
    IN IF t.timeoutCount < TimeoutLimit THEN t
       ELSE IF t.comm.use # "QUEUE" /\ u.comm.nakSent = SendNakLimit THEN Pop(u)
       ELSE SendRetry(u)

-----------------------------------------------------------------------------
(* Sending: set_send_packet. *)

WakesAny(s) == s.syncWait       \* mutant: whatever request has been sent
Wakes(s) == s.syncWait /\ s.sendData.wait

(* One more byte of the packet, or the turn to receiving after the last one. *)
SendByte(s) ==
    IF s.sendPos < PacketBytes
    THEN [s EXCEPT !.sending = TRUE, !.sendPos = @ + 1]
    ELSE [s EXCEPT !.sending = FALSE, !.receiving = TRUE, !.sendPos = 0,
                   !.timeoutCount = 0]

(* Between two requests the synchronous caller is woken and the next request,
   if there is one, is taken off the ring. *)
SetSendPacket(s) ==
    LET w == [s EXCEPT !.syncWait = @ /\ ~Wakes(s)] IN
    IF s.receiving THEN s
    ELSE IF s.comm.use # "QUEUE" \/ s.noDequeue THEN SendByte(s)
    ELSE IF s.head = s.tail THEN w
    ELSE SendByte(Dequeued(w))

-----------------------------------------------------------------------------
(* Receiving: get_recv_packet, analyze_recv_packet, dispatch_recv_packet. *)

(* What the tick finds in the receive buffer: nothing, bytes that are no
   packet ("byte"), or the end of a packet; and, when more, one further byte
   that is no packet: two bytes are what the line carries in 250 us.
   recv_enqueue drops a packet when its ring is full. *)
Arrived(s, rx) ==
    CASE rx = "none" -> IF s.receiving THEN CheckRetryCount(s) ELSE s
      [] rx = "byte" -> CheckRetryCount(s)
      [] OTHER -> IF Len(s.recvQ) < RecvQueueSize - 1
                  THEN [s EXCEPT !.recvQ = Append(@, rx)] ELSE s
Received(s, rx, more) ==
    IF more THEN CheckRetryCount(Arrived(s, rx)) ELSE Arrived(s, rx)

(* A wrong check digit: a NAK exchange begins, unless there were too many. *)
BadPacket(s) ==
    LET t == [s EXCEPT !.comm.nakSent = @ + 1] IN
    IF t.comm.nakSent >= SendNakLimit THEN Record(t, "COMMUNICATION")
    ELSE IF t.comm.use = "NAK" THEN t
    ELSE [Push(t) EXCEPT !.comm = [Cleared EXCEPT !.use = "NAK", !.nakSent = 1]]

GoodPacket(s, rx) ==
    CASE rx = "ACK"   -> [s EXCEPT !.noDequeue = FALSE]
      [] rx \in {"REJ", "UNKNOWN"} ->
                         [Record(s, "COMMUNICATION") EXCEPT !.noDequeue = FALSE]
      [] rx = "STRAY" -> [s EXCEPT !.receiving = TRUE]
      [] rx = "NAK"   ->
            LET t == [s EXCEPT !.comm.nakRecv = @ + 1] IN
            IF t.comm.nakRecv < RecvNakLimit THEN t
            ELSE [Record(t, "COMMUNICATION") EXCEPT !.noDequeue = FALSE]
      [] rx = "ERRWARN" ->
            [Record(Push(s), "ERRWARN") EXCEPT !.comm = [Cleared EXCEPT !.use = "ACK"]]

(* A packet is dispatched when none is being sent; a good one ends the ACK or
   NAK exchange under way. *)
DispatchesAny(s) == s.recvQ # <<>>      \* mutant: while a packet is being sent, too
Dispatches(s) == ~s.sending /\ s.recvQ # <<>>
Dispatched(s) ==
    LET t == [s EXCEPT !.recvQ = Tail(@), !.receiving = FALSE] IN
    IF ~Dispatches(s) THEN s
    ELSE IF Head(s.recvQ) = "BAD" THEN BadPacket(t)
    ELSE GoodPacket(Pop(t), Head(s.recvQ))

-----------------------------------------------------------------------------
(* The interrupt: power_communication. *)

(* What a power supply that works sends: nothing, or an ACK that is awaited. *)
Expected(rx) == rx = "none" \/ (rx = "ACK" /\ psu.receiving)

Tick(rx, more) ==
    LET s == Received(SetSendPacket(psu), rx, more)
        acked == Dispatches(s) /\ Head(s.recvQ) = "ACK"
    IN /\ more => rx # "none"
       /\ IF Expected(rx) /\ ~more THEN UNCHANGED noise
          ELSE noise < NoiseMax /\ noise' = noise + 1
       /\ psu' = Dispatched(s)
       /\ failed' = (failed \/ (psu.noDequeue /\ ~psu'.noDequeue /\ ~acked))
       /\ UNCHANGED <<cpc, cret, creq, accepted, firstSync>>

(* The requests of temp_worker, which nobody waits for. *)
QueueRequest ==
    /\ SendEnqueue(FALSE)
    /\ UNCHANGED <<cpc, cret, creq, firstSync, failed, noise>>

-----------------------------------------------------------------------------
(* A caller of set_tx_pkt_sync.  No lock covers its steps. *)

(* The test of sync_wait. *)
Enter(c) ==
    /\ cpc[c] = "idle"
    /\ IF psu.syncWait
       THEN cret' = [cret EXCEPT ![c] = "busy"] /\ UNCHANGED cpc
       ELSE cret' = [cret EXCEPT ![c] = "none"] /\ cpc' = [cpc EXCEPT ![c] = "enqueue"]
    /\ UNCHANGED <<psu, creq, accepted, firstSync, failed, noise>>

Enqueue(c) ==
    /\ cpc[c] = "enqueue"
    /\ SendEnqueue(TRUE)
    /\ IF QueueFull(psu)
       THEN /\ cpc' = [cpc EXCEPT ![c] = "idle"]
            /\ cret' = [cret EXCEPT ![c] = "full"]
            /\ UNCHANGED <<creq, firstSync>>
       ELSE /\ cpc' = [cpc EXCEPT ![c] = "flag"]
            /\ creq' = [creq EXCEPT ![c] = accepted']
            /\ firstSync' = IF firstSync = 0 THEN accepted' ELSE firstSync
            /\ UNCHANGED cret
    /\ UNCHANGED <<failed, noise>>

SetFlag(c) ==
    /\ cpc[c] = "flag"
    /\ psu' = [psu EXCEPT !.syncWait = TRUE]
    /\ cpc' = [cpc EXCEPT ![c] = "sleep"]
    /\ UNCHANGED <<cret, creq, accepted, firstSync, failed, noise>>

(* wait_event_interruptible_timeout finds sync_wait cleared. *)
Woken(c) ==
    /\ cpc[c] = "sleep" /\ ~psu.syncWait
    /\ cpc' = [cpc EXCEPT ![c] = "idle"]
    /\ cret' = [cret EXCEPT ![c] = "woken"]
    /\ UNCHANGED <<psu, creq, accepted, firstSync, failed, noise>>

(* Five seconds have passed or a signal has come: the call returns 0 as well,
   and leaves sync_wait as it is. *)
Interrupted(c) ==
    /\ cpc[c] = "sleep" /\ psu.syncWait /\ Interrupts
    /\ cpc' = [cpc EXCEPT ![c] = "idle"]
    /\ cret' = [cret EXCEPT ![c] = "interrupted"]
    /\ UNCHANGED <<psu, creq, accepted, firstSync, failed, noise>>

Call(c) == Enter(c) \/ Enqueue(c) \/ SetFlag(c) \/ Woken(c) \/ Interrupted(c)

Init ==
    /\ psu = [slots |-> [i \in 0..SendQueueSize - 1 |->
                            [id |-> IF i < BootRequests THEN i + 1 ELSE 0, wait |-> FALSE]],
              head |-> 0, tail |-> BootRequests,
              recvQ |-> <<>>, stack |-> <<>>, comm |-> Cleared,
              sendData |-> [id |-> 0, wait |-> FALSE], sendPos |-> 0, timeoutCount |-> 0,
              noDequeue |-> FALSE, receiving |-> FALSE, sending |-> FALSE,
              syncWait |-> FALSE, error |-> {}]
    /\ cpc = [c \in Callers |-> "idle"]
    /\ cret = [c \in Callers |-> "none"]
    /\ creq = [c \in Callers |-> 0]
    /\ accepted = BootRequests
    /\ firstSync = 0
    /\ failed = FALSE
    /\ noise = 0

Inputs == {"none", "byte"} \cup Packets
Interrupt == \E rx \in Inputs, more \in BOOLEAN : Tick(rx, more)

Next ==
    \/ Interrupt
    \/ QueueRequest
    \/ \E c \in Callers : Call(c)

Spec == Init /\ [][Next]_vars

(* The interrupt comes every 250 us; what it finds in the buffer is free. *)
FairSpec == Spec /\ WF_vars(Interrupt)

-----------------------------------------------------------------------------
Finished(id) == id < psu.sendData.id \/ (id = psu.sendData.id /\ ~psu.noDequeue)

(* Every field of psu_param and of the rings is in its range: indices inside
   the rings, the stack no deeper than STACK_SIZE, the offset inside a packet. *)
PsuState ==
    [slots : [0..SendQueueSize - 1 -> Data],
     head : 0..SendQueueSize - 1, tail : 0..SendQueueSize - 1,
     recvQ : Seq(Packets), stack : Seq(CommState), comm : CommState,
     sendData : Data, sendPos : 0..PacketBytes, timeoutCount : 0..TimeoutLimit,
     noDequeue : BOOLEAN, receiving : BOOLEAN, sending : BOOLEAN, syncWait : BOOLEAN,
     error : SUBSET {"COMMUNICATION", "ERRWARN"}]
PsuTypeOK ==
    /\ psu \in PsuState
    /\ Len(psu.recvQ) < RecvQueueSize /\ Len(psu.stack) <= StackSize
CallerTypeOK ==
    /\ cpc \in [Callers -> {"idle", "enqueue", "flag", "sleep"}]
    /\ cret \in [Callers -> {"none", "busy", "full", "woken", "interrupted"}]
    /\ creq \in [Callers -> Nat]
TypeOK ==
    /\ PsuTypeOK /\ CallerTypeOK
    /\ accepted \in Nat /\ firstSync \in Nat
    /\ failed \in BOOLEAN /\ noise \in Nat

(* The ring between send_enqueue and send_dequeue is a queue: the requests
   accepted and not yet taken off stand in it in their order, none is lost,
   overwritten or taken twice. *)
FifoOrder ==
    LET n == (psu.tail - psu.head) % SendQueueSize IN
    /\ accepted = psu.sendData.id + n
    /\ \A i \in 0..n - 1 :
          psu.slots[(psu.head + i) % SendQueueSize].id = psu.sendData.id + 1 + i

(* The request's state is at the bottom of the stack while an ACK or a NAK
   exchange goes on above it, and current otherwise: the exchanges, nested,
   given up or with the stack full, always lead back to the request. *)
StackShape ==
    /\ psu.comm.use = "QUEUE" <=> psu.stack = <<>>
    /\ \A i \in DOMAIN psu.stack : psu.stack[i].use = "QUEUE" <=> i = 1

(* The line is used in one direction at a time: while a packet is on its way
   out, wholly or in part unsent, no answer is waited for. *)
HalfDuplex ==
    /\ psu.sending <=> psu.sendPos > 0
    /\ psu.sending => ~psu.receiving

(* A request that ends in any other way than by its ACK leaves an error in the
   word by which the ioctls judge success. *)
FailureRecorded == failed => "COMMUNICATION" \in psu.error

(* A synchronous caller is not woken before some synchronous request has been
   through: requests of the temperature worker do not wake it. *)
WokenByFinished == \A c \in Callers : cret[c] = "woken" => Finished(firstSync)

(* A synchronous caller is woken when its own request has been through. *)
SyncAnswered == \A c \in Callers : cret[c] = "woken" => Finished(creq[c])

(* power_communication never exchanges the packet it is in the middle of, as
   long as the time for an answer has not run out. *)
Packet(s) == <<s.comm.use, IF s.comm.use = "QUEUE" THEN s.sendData.id ELSE 0>>
PacketStable ==
    [][psu.sendPos > 0 /\ psu'.sendPos > 0 /\ psu'.timeoutCount < TimeoutLimit =>
          Packet(psu') = Packet(psu)]_vars

(* Every request taken off the ring comes to its end, however the power
   supply behaves: it may stay silent, send wrong or unexpected packets, NAKs
   or warnings, as long as it does so a finite number of times. *)
RequestEnds == psu.noDequeue ~> ~psu.noDequeue

=============================================================================
