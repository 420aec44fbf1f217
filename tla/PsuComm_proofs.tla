--------------------------- MODULE PsuComm_proofs ---------------------------
(***************************************************************************)
(* Proofs about PsuComm for every size of rings, stack and packets, every  *)
(* limit and every number of callers: one lemma for each function of       *)
(* ipc8_ps_comm.c, from which the interrupt follows as their composition.  *)
(***************************************************************************)
EXTENDS PsuComm, TLAPS

(* What every function of the interrupt preserves. *)
Typed(s) ==
    s \in PsuState /\ Len(s.recvQ) < RecvQueueSize /\ Len(s.stack) <= StackSize
Shaped(s) ==
    /\ s.comm.use = "QUEUE" <=> s.stack = <<>>
    /\ \A i \in DOMAIN s.stack : s.stack[i].use = "QUEUE" <=> i = 1
Duplex(s) ==
    /\ s.sending <=> s.sendPos > 0
    /\ s.sending => ~s.receiving
Sound(s) == Typed(s) /\ Shaped(s) /\ Duplex(s)

(* From s to t no error is forgotten, and a request does not end silently. *)
Recorded(s, t) ==
    /\ s.error \subseteq t.error
    /\ s.noDequeue /\ ~t.noDequeue => "COMMUNICATION" \in t.error

(* Recording is transitive: it can be shown function by function. *)
LEMMA RecordedTransitive ==
    ASSUME NEW s, NEW t, NEW u, s.noDequeue \in BOOLEAN, t.noDequeue \in BOOLEAN,
           u.noDequeue \in BOOLEAN, Recorded(s, t), Recorded(t, u)
    PROVE  Recorded(s, u)
  BY DEF Recorded

(* next_index stays inside the ring. *)
LEMMA NextIndexType ==
    ASSUME NEW i \in 0..SendQueueSize - 1
    PROVE  NextIndex(i) \in 0..SendQueueSize - 1
  BY PsuAssumption DEF PsuAssumption, NextIndex

(* The states of memset are states. *)
LEMMA ClearedType ==
    /\ Cleared \in CommState
    /\ [Cleared EXCEPT !.use = "NAK", !.nakSent = 1] \in CommState
    /\ [Cleared EXCEPT !.use = "ACK"] \in CommState
  BY DEF Cleared, CommState

(* Taking the last state off a stack. *)
LEMMA FrontType ==
    ASSUME NEW q \in Seq(CommState), q # <<>>
    PROVE  /\ Front(q) \in Seq(CommState)
           /\ Len(Front(q)) = Len(q) - 1
           /\ \A i \in DOMAIN Front(q) : i \in DOMAIN q /\ Front(q)[i] = q[i]
           /\ Len(q) \in DOMAIN q
           /\ Last(q) = q[Len(q)] /\ Last(q) \in CommState
  BY DEF Front, Last

(* Of a state, what a function leaves alone. *)
SameButComm(s, t) ==
    /\ t.noDequeue = s.noDequeue /\ t.error = s.error /\ t.recvQ = s.recvQ
    /\ t.sending = s.sending /\ t.receiving = s.receiving /\ t.sendPos = s.sendPos

(* state_pop_stack: the state below comes back, and the shape of the stack
   makes it the request's exactly when nothing is left below. *)
LEMMA PopSound ==
    ASSUME NEW s, Typed(s), Shaped(s)
    PROVE  Typed(Pop(s)) /\ Shaped(Pop(s)) /\ SameButComm(s, Pop(s))
<1>1. CASE s.stack = <<>>
  BY <1>1 DEF Pop, SameButComm
<1>2. CASE s.stack # <<>>
  <2> DEFINE f == Front(s.stack)
             l == Last(s.stack)
  <2>1. s.stack \in Seq(CommState) /\ Len(s.stack) <= StackSize
    BY DEF Typed, PsuState
  <2>2. /\ f \in Seq(CommState) /\ Len(f) = Len(s.stack) - 1
        /\ \A i \in DOMAIN f : i \in DOMAIN s.stack /\ f[i] = s.stack[i]
        /\ l = s.stack[Len(s.stack)] /\ l \in CommState
        /\ Len(s.stack) \in DOMAIN s.stack
    BY <1>2, <2>1, FrontType
  <2>3. Pop(s) = [s EXCEPT !.comm = l, !.stack = f]
    BY <1>2 DEF Pop
  <2> HIDE DEF f, l
  <2>4. Len(f) <= StackSize
    BY <2>1, <2>2, PsuAssumption DEF PsuAssumption
  <2>5. Typed(Pop(s)) /\ Pop(s).comm = l /\ Pop(s).stack = f
    <3>1. s \in PsuState /\ l \in CommState /\ f \in Seq(CommState)
      BY <2>2 DEF Typed
    <3>2. [s EXCEPT !.comm = l, !.stack = f] \in PsuState
      BY <3>1 DEF PsuState
    <3>3. LET t == [s EXCEPT !.comm = l, !.stack = f] IN
          t.comm = l /\ t.stack = f /\ t.recvQ = s.recvQ
      BY <3>1 DEF PsuState
    <3> QED  BY <2>3, <2>4, <3>2, <3>3 DEF Typed
  <2>6. l.use = "QUEUE" <=> f = <<>>
    BY <2>1, <2>2 DEF Shaped
  <2>7. SameButComm(s, Pop(s))
    BY <2>3 DEF SameButComm, Typed, PsuState
  <2> QED  BY <2>2, <2>5, <2>6, <2>7 DEF Shaped
<1> QED  BY <1>1, <1>2

(* state_push_stack leaves a state. *)
LEMMA PushTyped ==
    ASSUME NEW s, Typed(s)
    PROVE  Push(s) \in PsuState
<1>1. s \in PsuState /\ s.stack \in Seq(CommState) /\ s.comm \in CommState
  BY DEF Typed, PsuState
<1>2. Append(s.stack, s.comm) \in Seq(CommState)
  BY <1>1
<1>3. [s EXCEPT !.stack = Append(s.stack, s.comm)] \in PsuState
  BY <1>1, <1>2 DEF PsuState
<1> QED  BY <1>1, <1>3 DEF Push

(* state_push_stack followed by a new exchange's state: even when the stack is
   full and the state is lost, the request's stays at the bottom. *)
LEMMA PushSound ==
    ASSUME NEW s, Typed(s), Shaped(s), NEW c \in CommState, c.use # "QUEUE"
    PROVE  LET t == [Push(s) EXCEPT !.comm = c] IN
           Typed(t) /\ Shaped(t) /\ SameButComm(s, t)
<1> DEFINE t == [Push(s) EXCEPT !.comm = c]
<1>0. s \in PsuState /\ s.stack \in Seq(CommState) /\ s.comm \in CommState
  BY DEF Typed, PsuState
<1>1. CASE Len(s.stack) < StackSize
  <2> DEFINE f == Append(s.stack, s.comm)
  <2>1. t = [s EXCEPT !.comm = c, !.stack = f]
    BY <1>0, <1>1 DEF Push, PsuState
  <2>2. f \in Seq(CommState) /\ Len(f) = Len(s.stack) + 1 /\ Len(f) <= StackSize
    <3>1. f \in Seq(CommState) /\ Len(f) = Len(s.stack) + 1
      BY <1>0
    <3>2. Len(s.stack) \in Nat /\ StackSize \in Nat
      BY <1>0, PsuAssumption DEF PsuAssumption
    <3> QED  BY <1>1, <3>1, <3>2
  <2>3. \A i \in DOMAIN f : f[i].use = "QUEUE" <=> i = 1
    BY <1>0 DEF Shaped
  <2>4. f # <<>>
    BY <1>0
  <2> HIDE DEF f, t
  <2>5. Typed(t) /\ t.comm = c /\ t.stack = f
    <3>1. [s EXCEPT !.comm = c, !.stack = f] \in PsuState
      BY <1>0, <2>2 DEF PsuState
    <3>2. LET u == [s EXCEPT !.comm = c, !.stack = f] IN
          u.comm = c /\ u.stack = f /\ u.recvQ = s.recvQ
      BY <1>0 DEF PsuState
    <3> QED  BY <2>1, <2>2, <3>1, <3>2 DEF Typed
  <2>6. SameButComm(s, t)
    BY <1>0, <2>1 DEF SameButComm, PsuState
  <2> QED  BY <2>3, <2>4, <2>5, <2>6 DEF t, Shaped
<1>2. CASE ~(Len(s.stack) < StackSize)
  <2>1. t = [s EXCEPT !.comm = c]
    BY <1>2 DEF Push
  <2>2. s.stack # <<>>
    BY <1>0, <1>2, PsuAssumption DEF PsuAssumption
  <2> HIDE DEF t
  <2>3. Typed(t) /\ t.comm = c /\ t.stack = s.stack /\ SameButComm(s, t)
    BY <2>1 DEF Typed, PsuState, SameButComm
  <2> QED  BY <2>2, <2>3 DEF t, Shaped
<1> QED  BY <1>1, <1>2

(* What recording an error changes: the error word only. *)
LEMMA RecordSound ==
    ASSUME NEW s, Sound(s), NEW e \in {"COMMUNICATION", "ERRWARN"}
    PROVE  /\ Sound(Record(s, e)) /\ Record(s, e).error = s.error \cup {e}
           /\ Record(s, e).noDequeue = s.noDequeue /\ Record(s, e).comm = s.comm
           /\ Record(s, e).sending = s.sending
<1> DEFINE t == Record(s, e)
<1>0. s \in PsuState
  BY DEF Sound, Typed
<1>1. t \in PsuState
  BY <1>0 DEF Record, PsuState
<1>2. /\ t.error = s.error \cup {e} /\ t.noDequeue = s.noDequeue /\ t.comm = s.comm
      /\ t.stack = s.stack /\ t.recvQ = s.recvQ /\ t.sending = s.sending
      /\ t.receiving = s.receiving /\ t.sendPos = s.sendPos
  BY <1>0 DEF Record, PsuState
<1> QED  BY <1>1, <1>2 DEF Sound, Typed, Shaped, Duplex

(* The first two assignments of send_retry_packet. *)
LEMMA ResentSound ==
    ASSUME NEW s, Sound(s)
    PROVE  /\ Sound(Resent(s)) /\ Resent(s).comm.use = s.comm.use
           /\ Resent(s).noDequeue = s.noDequeue /\ Resent(s).error = s.error
<1> DEFINE t == Resent(s)
<1>0. s \in PsuState /\ s.comm \in CommState
  BY DEF Sound, Typed, PsuState
<1>1. [s.comm EXCEPT !.retry = @ + 1] \in CommState
  BY <1>0 DEF CommState
<1>2. t = [s EXCEPT !.receiving = FALSE, !.comm = [s.comm EXCEPT !.retry = @ + 1]]
  BY <1>0 DEF Resent, PsuState, CommState
<1>3. t \in PsuState
  BY <1>0, <1>1, <1>2 DEF PsuState
<1>4. /\ t.error = s.error /\ t.noDequeue = s.noDequeue /\ t.stack = s.stack
      /\ t.recvQ = s.recvQ /\ t.sending = s.sending /\ t.receiving = FALSE
      /\ t.sendPos = s.sendPos /\ t.comm = [s.comm EXCEPT !.retry = @ + 1]
  BY <1>0, <1>2 DEF PsuState
<1>5. t.comm.use = s.comm.use
  BY <1>0, <1>4 DEF CommState
<1> QED  BY <1>3, <1>4, <1>5 DEF Sound, Typed, Shaped, Duplex

(* state_pop_stack, as the other functions use it. *)
LEMMA PopKeeps ==
    ASSUME NEW s, Sound(s)
    PROVE  /\ Sound(Pop(s)) /\ Pop(s).noDequeue = s.noDequeue
           /\ Pop(s).error = s.error /\ Pop(s).sending = s.sending
  BY PopSound DEF Sound, Duplex, SameButComm

(* Every function of the interrupt satisfies this, from the state it is called
   in to the state it leaves. *)
Keeps(s, t) == Sound(t) /\ Recorded(s, t)

(* send_retry_packet: the request it gives up is recorded as an error. *)
LEMMA SendRetryKeeps ==
    ASSUME NEW s, Sound(s)
    PROVE  Keeps(s, SendRetry(s))
<1> DEFINE r == Resent(s)
           t == Record(r, "COMMUNICATION")
<1>1. Sound(r) /\ r.noDequeue = s.noDequeue /\ r.error = s.error
  BY ResentSound
<1> HIDE DEF r
<1>2. /\ Sound(t) /\ t.error = s.error \cup {"COMMUNICATION"}
      /\ t.noDequeue = s.noDequeue
  BY <1>1, RecordSound
<1> HIDE DEF t
<1>3. CASE SendRetry(s) = r
  BY <1>1, <1>3 DEF Keeps, Recorded
<1>4. CASE SendRetry(s) = Pop(t)
  BY <1>2, <1>4, PopKeeps DEF Keeps, Recorded
<1>5. CASE SendRetry(s) = [t EXCEPT !.noDequeue = FALSE]
  <2> DEFINE u == [t EXCEPT !.noDequeue = FALSE]
  <2>0. t \in PsuState
    BY <1>2 DEF Sound, Typed
  <2>1. u \in PsuState
    BY <2>0 DEF PsuState
  <2>2. /\ u.error = t.error /\ u.stack = t.stack /\ u.comm = t.comm
        /\ u.recvQ = t.recvQ /\ u.sending = t.sending
        /\ u.receiving = t.receiving /\ u.sendPos = t.sendPos
    BY <2>0 DEF PsuState
  <2>3. Sound(u)
    BY <1>2, <2>1, <2>2 DEF Sound, Typed, Shaped, Duplex
  <2> QED  BY <1>2, <1>5, <2>2, <2>3 DEF Keeps, Recorded
<1> QED  BY <1>3, <1>4, <1>5 DEF SendRetry, r, t

(* The counting of check_retry_count. *)
LEMMA CountTimeoutSound ==
    ASSUME NEW s, Sound(s)
    PROVE  /\ Sound(CountTimeout(s)) /\ CountTimeout(s).comm = s.comm
           /\ CountTimeout(s).noDequeue = s.noDequeue
           /\ CountTimeout(s).error = s.error /\ CountTimeout(s).sending = s.sending
<1> DEFINE t == CountTimeout(s)
           n == IF s.timeoutCount < TimeoutLimit THEN s.timeoutCount + 1 ELSE s.timeoutCount
<1>0. s \in PsuState /\ s.timeoutCount \in 0..TimeoutLimit
  BY DEF Sound, Typed, PsuState
<1>1. n \in 0..TimeoutLimit
  BY <1>0, PsuAssumption DEF PsuAssumption
<1>2. t = [s EXCEPT !.timeoutCount = n]
  BY DEF CountTimeout
<1> HIDE DEF n
<1>3. t \in PsuState
  BY <1>0, <1>1, <1>2 DEF PsuState
<1>4. /\ t.error = s.error /\ t.noDequeue = s.noDequeue /\ t.comm = s.comm
      /\ t.stack = s.stack /\ t.recvQ = s.recvQ /\ t.sending = s.sending
      /\ t.receiving = s.receiving /\ t.sendPos = s.sendPos
  BY <1>0, <1>2 DEF PsuState
<1> QED  BY <1>3, <1>4 DEF Sound, Typed, Shaped, Duplex

(* check_retry_count, its missing break included. *)
LEMMA CheckRetryCountKeeps ==
    ASSUME NEW s, Sound(s)
    PROVE  Keeps(s, CheckRetryCount(s))
<1> DEFINE t == CountTimeout(s)
           u == IF t.comm.use = "ACK" THEN Pop(t) ELSE t
<1>1. Sound(t) /\ t.noDequeue = s.noDequeue /\ t.error = s.error
  BY CountTimeoutSound
<1> HIDE DEF t
<1>2. Sound(u) /\ u.noDequeue = s.noDequeue /\ u.error = s.error
  BY <1>1, PopKeeps
<1> HIDE DEF u
<1>3. CASE CheckRetryCount(s) = t
  BY <1>1, <1>3 DEF Keeps, Recorded
<1>4. CASE CheckRetryCount(s) = Pop(u)
  BY <1>2, <1>4, PopKeeps DEF Keeps, Recorded
<1>5. CASE CheckRetryCount(s) = SendRetry(u)
  BY <1>2, <1>5, SendRetryKeeps DEF Keeps, Recorded
<1> QED  BY <1>3, <1>4, <1>5 DEF CheckRetryCount, t, u

(* The end of set_send_packet: the direction of the line changes only when
   the last byte is out. *)
LEMMA SendByteSound ==
    ASSUME NEW s, Sound(s), ~s.receiving
    PROVE  /\ Sound(SendByte(s)) /\ SendByte(s).noDequeue = s.noDequeue
           /\ SendByte(s).error = s.error
<1> DEFINE t == SendByte(s)
<1>0. s \in PsuState /\ s.sendPos \in 0..PacketBytes
  BY DEF Sound, Typed, PsuState
<1>1. CASE s.sendPos < PacketBytes
  <2>1. t = [s EXCEPT !.sending = TRUE, !.sendPos = s.sendPos + 1]
    BY <1>1 DEF SendByte
  <2>2. s.sendPos + 1 \in 0..PacketBytes /\ s.sendPos + 1 > 0
    BY <1>0, <1>1, PsuAssumption DEF PsuAssumption
  <2>3. t \in PsuState
    BY <1>0, <2>1, <2>2 DEF PsuState
  <2>4. /\ t.error = s.error /\ t.noDequeue = s.noDequeue /\ t.comm = s.comm
        /\ t.stack = s.stack /\ t.recvQ = s.recvQ /\ t.sending = TRUE
        /\ t.receiving = s.receiving /\ t.sendPos = s.sendPos + 1
    BY <1>0, <2>1 DEF PsuState
  <2> QED  BY <2>2, <2>3, <2>4 DEF Sound, Typed, Shaped, Duplex
<1>2. CASE ~(s.sendPos < PacketBytes)
  <2>1. t = [s EXCEPT !.sending = FALSE, !.receiving = TRUE, !.sendPos = 0,
                      !.timeoutCount = 0]
    BY <1>2 DEF SendByte
  <2>2. 0 \in 0..PacketBytes /\ 0 \in 0..TimeoutLimit
    BY PsuAssumption DEF PsuAssumption
  <2>3. t \in PsuState
    BY <1>0, <2>1, <2>2 DEF PsuState
  <2>4. /\ t.error = s.error /\ t.noDequeue = s.noDequeue /\ t.comm = s.comm
        /\ t.stack = s.stack /\ t.recvQ = s.recvQ /\ t.sending = FALSE
        /\ t.sendPos = 0
    BY <1>0, <2>1 DEF PsuState
  <2> QED  BY <2>3, <2>4 DEF Sound, Typed, Shaped, Duplex
<1> QED  BY <1>1, <1>2

(* The wake-up and the dequeuing of set_send_packet, between two requests. *)
LEMMA WakeSound ==
    ASSUME NEW s, Sound(s), NEW b \in BOOLEAN
    PROVE  LET w == [s EXCEPT !.syncWait = b] IN
           /\ Sound(w) /\ w.noDequeue = s.noDequeue /\ w.error = s.error
           /\ w.comm = s.comm /\ w.receiving = s.receiving
           /\ w.head = s.head /\ w.tail = s.tail
<1> DEFINE w == [s EXCEPT !.syncWait = b]
<1>0. s \in PsuState
  BY DEF Sound, Typed
<1>1. w \in PsuState
  BY <1>0 DEF PsuState
<1>2. /\ w.error = s.error /\ w.noDequeue = s.noDequeue /\ w.comm = s.comm
      /\ w.stack = s.stack /\ w.recvQ = s.recvQ /\ w.sending = s.sending
      /\ w.receiving = s.receiving /\ w.sendPos = s.sendPos
      /\ w.head = s.head /\ w.tail = s.tail
  BY <1>0 DEF PsuState
<1> QED  BY <1>1, <1>2 DEF Sound, Typed, Shaped, Duplex

LEMMA DequeuedType ==
    ASSUME NEW s \in PsuState, NEW d \in Data, NEW h \in 0..SendQueueSize - 1, NEW c \in CommState
    PROVE  [s EXCEPT !.sendData = d, !.head = h, !.comm = c, !.noDequeue = TRUE] \in PsuState
  BY DEF PsuState

LEMMA DequeuedSound ==
    ASSUME NEW s, Sound(s), s.comm.use = "QUEUE", ~s.noDequeue
    PROVE  /\ Sound(Dequeued(s)) /\ Recorded(s, Dequeued(s))
           /\ Dequeued(s).receiving = s.receiving
<1> DEFINE t == Dequeued(s)
           h == NextIndex(s.head)
           d == s.slots[s.head]
<1>0. s \in PsuState /\ s.head \in 0..SendQueueSize - 1
  BY DEF Sound, Typed, PsuState
<1>1. h \in 0..SendQueueSize - 1
  BY <1>0, NextIndexType
<1>2. d \in Data
  BY <1>0 DEF PsuState
<1>3. t = [s EXCEPT !.sendData = d, !.head = h, !.comm = Cleared, !.noDequeue = TRUE]
  BY DEF Dequeued
<1> HIDE DEF h, d, t
<1>4. t \in PsuState
  <2>1. Cleared \in CommState
    BY ClearedType
  <2>2. [s EXCEPT !.sendData = d, !.head = h, !.comm = Cleared, !.noDequeue = TRUE] \in PsuState
    BY <1>0, <1>1, <1>2, <2>1, DequeuedType, Zenon
  <2> QED BY <1>3, <2>2, Zenon
<1>5. /\ t.error = s.error /\ t.noDequeue = TRUE /\ t.comm = Cleared
      /\ t.stack = s.stack /\ t.recvQ = s.recvQ /\ t.sending = s.sending
      /\ t.receiving = s.receiving /\ t.sendPos = s.sendPos
  BY <1>0, <1>3 DEF PsuState
<1>6. t.comm.use = "QUEUE"
  BY <1>5 DEF Cleared
<1>7. Sound(t)
  BY <1>4, <1>5, <1>6 DEF Sound, Typed, Shaped, Duplex
<1> QED  BY <1>5, <1>7 DEF Recorded, t

(* set_send_packet. *)
LEMMA SetSendPacketKeeps ==
    ASSUME NEW s, Sound(s)
    PROVE  Keeps(s, SetSendPacket(s))
<1> DEFINE b == s.syncWait /\ ~Wakes(s)
           w == [s EXCEPT !.syncWait = @ /\ ~Wakes(s)]
<1>1. s \in PsuState /\ s.syncWait \in BOOLEAN
  BY DEF Sound, Typed, PsuState
<1>2. w = [s EXCEPT !.syncWait = b] /\ b \in BOOLEAN
  BY <1>1
<1> HIDE DEF b
<1>3. /\ Sound(w) /\ w.noDequeue = s.noDequeue /\ w.error = s.error
      /\ w.comm = s.comm /\ w.receiving = s.receiving
  BY <1>2, WakeSound
<1> HIDE DEF w
<1>4. CASE SetSendPacket(s) = s
  BY <1>4 DEF Keeps, Recorded
<1>5. CASE SetSendPacket(s) = w
  BY <1>3, <1>5 DEF Keeps, Recorded
<1>6. CASE SetSendPacket(s) = SendByte(s) /\ ~s.receiving
  BY <1>6, SendByteSound DEF Keeps, Recorded
<1>7. CASE /\ SetSendPacket(s) = SendByte(Dequeued(w))
           /\ ~s.receiving /\ s.comm.use = "QUEUE" /\ ~s.noDequeue
  <2>1. Sound(Dequeued(w)) /\ Recorded(w, Dequeued(w)) /\ ~Dequeued(w).receiving
    BY <1>3, <1>7, DequeuedSound
  <2> QED  BY <1>3, <1>7, <2>1, SendByteSound DEF Keeps, Recorded
<1> QED  BY <1>4, <1>5, <1>6, <1>7 DEF SetSendPacket, w

(* The receiving loop of power_communication. *)
LEMMA ReceivedKeeps ==
    ASSUME NEW s, Sound(s), NEW rx \in Inputs, NEW more \in BOOLEAN
    PROVE  Keeps(s, Received(s, rx, more))
<1>1. Keeps(s, Arrived(s, rx))
  <2>1. CASE Arrived(s, rx) = s
    BY <2>1 DEF Keeps, Recorded
  <2>2. CASE Arrived(s, rx) = CheckRetryCount(s)
    BY <2>2, CheckRetryCountKeeps
  <2>3. CASE /\ rx \in Packets /\ Len(s.recvQ) < RecvQueueSize - 1
             /\ Arrived(s, rx) = [s EXCEPT !.recvQ = Append(s.recvQ, rx)]
    <3> DEFINE q == Append(s.recvQ, rx)
               t == [s EXCEPT !.recvQ = q]
    <3>0. s \in PsuState /\ s.recvQ \in Seq(Packets)
      BY DEF Sound, Typed, PsuState
    <3>1. q \in Seq(Packets) /\ Len(q) = Len(s.recvQ) + 1
      BY <2>3, <3>0
    <3>2. Len(q) < RecvQueueSize
      BY <2>3, <3>0, <3>1, PsuAssumption DEF PsuAssumption
    <3> HIDE DEF q
    <3>3. t \in PsuState
      BY <3>0, <3>1 DEF PsuState
    <3>4. /\ t.error = s.error /\ t.noDequeue = s.noDequeue /\ t.comm = s.comm
          /\ t.stack = s.stack /\ t.recvQ = q /\ t.sending = s.sending
          /\ t.receiving = s.receiving /\ t.sendPos = s.sendPos
      BY <3>0 DEF PsuState
    <3> HIDE DEF t
    <3>5. Sound(t) /\ Recorded(s, t)
      BY <3>2, <3>3, <3>4 DEF Sound, Typed, Shaped, Duplex, Recorded
    <3> QED  BY <2>3, <3>5 DEF Keeps, t, q
  <2> QED  BY <2>1, <2>2, <2>3 DEF Arrived, Inputs
<1> DEFINE a == Arrived(s, rx)
<1>2. CASE ~more
  BY <1>1, <1>2 DEF Received
<1>3. CASE more
  <2>1. Keeps(s, a) /\ Keeps(a, CheckRetryCount(a))
    BY <1>1, CheckRetryCountKeeps DEF Keeps
  <2>2. Received(s, rx, more) = CheckRetryCount(a)
    BY <1>3 DEF Received
  <2> HIDE DEF a
  <2> QED  BY <2>1, <2>2 DEF Keeps, Recorded
<1> QED  BY <1>2, <1>3

(* A new exchange on top of the current one, in analyze_recv_packet and in
   dispatch_error_warning_packet. *)
LEMMA PushKeeps ==
    ASSUME NEW s, Sound(s), NEW c \in CommState, c.use # "QUEUE"
    PROVE  Keeps(s, [Push(s) EXCEPT !.comm = c])
<1> DEFINE t == [Push(s) EXCEPT !.comm = c]
<1>1. Typed(t) /\ Shaped(t) /\ SameButComm(s, t)
  BY PushSound DEF Sound
<1> HIDE DEF t
<1>2. Keeps(s, t)
  BY <1>1 DEF Sound, Duplex, SameButComm, Keeps, Recorded
<1> QED  BY <1>2 DEF t

(* analyze_recv_packet on a wrong check digit. *)
LEMMA BadPacketKeeps ==
    ASSUME NEW s, Sound(s)
    PROVE  Keeps(s, BadPacket(s))
<1> DEFINE d == [s.comm EXCEPT !.nakSent = @ + 1]
           t == [s EXCEPT !.comm.nakSent = @ + 1]
           c == [Cleared EXCEPT !.use = "NAK", !.nakSent = 1]
<1>0. s \in PsuState /\ s.comm \in CommState
  BY DEF Sound, Typed, PsuState
<1>1. d \in CommState /\ d.use = s.comm.use
  BY <1>0 DEF CommState
<1>2. t = [s EXCEPT !.comm = d]
  OBVIOUS
<1> HIDE DEF d
<1>3. t \in PsuState
  BY <1>0, <1>1, <1>2 DEF PsuState
<1>4. /\ t.error = s.error /\ t.noDequeue = s.noDequeue /\ t.comm = d
      /\ t.stack = s.stack /\ t.recvQ = s.recvQ /\ t.sending = s.sending
      /\ t.receiving = s.receiving /\ t.sendPos = s.sendPos
  BY <1>0, <1>2 DEF PsuState
<1>5. Sound(t) /\ t.error = s.error /\ t.noDequeue = s.noDequeue
  BY <1>1, <1>3, <1>4 DEF Sound, Typed, Shaped, Duplex
<1>6. c \in CommState /\ c.use # "QUEUE"
  BY ClearedType DEF Cleared
<1> HIDE DEF t, c
<1>7. CASE BadPacket(s) = Record(t, "COMMUNICATION")
  BY <1>5, <1>7, RecordSound DEF Keeps, Recorded
<1>8. CASE BadPacket(s) = t
  BY <1>5, <1>8 DEF Keeps, Recorded
<1>9. CASE BadPacket(s) = [Push(t) EXCEPT !.comm = c]
  BY <1>5, <1>6, <1>9, PushKeeps DEF Keeps, Recorded
<1> QED  BY <1>7, <1>8, <1>9 DEF BadPacket, t, c

(* Ending the request: flag_no_dequeue is cleared. *)
LEMMA EndSound ==
    ASSUME NEW s, Sound(s)
    PROVE  LET t == [s EXCEPT !.noDequeue = FALSE] IN
           Sound(t) /\ t.error = s.error
<1> DEFINE t == [s EXCEPT !.noDequeue = FALSE]
<1>0. s \in PsuState
  BY DEF Sound, Typed
<1>1. t \in PsuState
  BY <1>0 DEF PsuState
<1>2. /\ t.error = s.error /\ t.comm = s.comm /\ t.stack = s.stack
      /\ t.recvQ = s.recvQ /\ t.sending = s.sending
      /\ t.receiving = s.receiving /\ t.sendPos = s.sendPos
  BY <1>0 DEF PsuState
<1> QED  BY <1>1, <1>2 DEF Sound, Typed, Shaped, Duplex

(* dispatch_recv_packet: only an ACK ends the request without an error. *)
LEMMA GoodPacketKeeps ==
    ASSUME NEW s, Sound(s), ~s.sending, NEW rx \in Packets, rx # "BAD"
    PROVE  /\ Sound(GoodPacket(s, rx)) /\ s.error \subseteq GoodPacket(s, rx).error
           /\ rx # "ACK" => Recorded(s, GoodPacket(s, rx))
<1>0. s \in PsuState /\ s.comm \in CommState
  BY DEF Sound, Typed, PsuState
<1>1. CASE rx = "ACK"
  BY <1>1, EndSound DEF GoodPacket
<1>2. CASE rx \in {"REJ", "UNKNOWN"}
  <2>1. GoodPacket(s, rx) = [Record(s, "COMMUNICATION") EXCEPT !.noDequeue = FALSE]
    BY <1>2 DEF GoodPacket
  <2> QED  BY <2>1, RecordSound, EndSound DEF Recorded
<1>3. CASE rx = "STRAY"
  <2> DEFINE t == [s EXCEPT !.receiving = TRUE]
  <2>1. GoodPacket(s, rx) = t
    BY <1>3 DEF GoodPacket
  <2>2. t \in PsuState
    BY <1>0 DEF PsuState
  <2>3. /\ t.error = s.error /\ t.noDequeue = s.noDequeue /\ t.comm = s.comm
        /\ t.stack = s.stack /\ t.recvQ = s.recvQ /\ t.sending = s.sending
        /\ t.sendPos = s.sendPos
    BY <1>0 DEF PsuState
  <2>4. Sound(t) /\ t.error = s.error /\ t.noDequeue = s.noDequeue
    BY <2>2, <2>3 DEF Sound, Typed, Shaped, Duplex
  <2> QED  BY <2>1, <2>4 DEF Recorded
<1>4. CASE rx = "NAK"
  <2> DEFINE d == [s.comm EXCEPT !.nakRecv = @ + 1]
             t == [s EXCEPT !.comm.nakRecv = @ + 1]
  <2>1. d \in CommState /\ d.use = s.comm.use
    BY <1>0 DEF CommState
  <2>2. t = [s EXCEPT !.comm = d]
    OBVIOUS
  <2> HIDE DEF d
  <2>3. t \in PsuState
    BY <1>0, <2>1, <2>2 DEF PsuState
  <2>4. /\ t.error = s.error /\ t.noDequeue = s.noDequeue /\ t.comm = d
        /\ t.stack = s.stack /\ t.recvQ = s.recvQ /\ t.sending = s.sending
        /\ t.receiving = s.receiving /\ t.sendPos = s.sendPos
    BY <1>0, <2>2 DEF PsuState
  <2>5. Sound(t)
    BY <2>1, <2>3, <2>4 DEF Sound, Typed, Shaped, Duplex
  <2> HIDE DEF t
  <2>6. CASE GoodPacket(s, rx) = t
    BY <2>4, <2>5, <2>6 DEF Recorded
  <2>7. CASE GoodPacket(s, rx) = [Record(t, "COMMUNICATION") EXCEPT !.noDequeue = FALSE]
    BY <2>4, <2>5, <2>7, RecordSound, EndSound DEF Recorded
  <2> QED  BY <1>4, <2>6, <2>7 DEF GoodPacket, t
<1>5. CASE rx = "ERRWARN"
  <2> DEFINE p == Push(s)
             c == [Cleared EXCEPT !.use = "ACK"]
  <2>1. c \in CommState /\ c.use # "QUEUE"
    BY ClearedType DEF Cleared
  <2>2. GoodPacket(s, rx) = [Record(p, "ERRWARN") EXCEPT !.comm = c]
    BY <1>5 DEF GoodPacket
  <2>3. p \in PsuState
    BY <1>0, PushTyped DEF Sound
  <2> HIDE DEF p, c
  <2>4. [Record(p, "ERRWARN") EXCEPT !.comm = c] = Record([p EXCEPT !.comm = c], "ERRWARN")
    BY <2>3 DEF Record, PsuState
  <2>5. Keeps(s, [p EXCEPT !.comm = c])
    BY <2>1, PushKeeps DEF p
  <2>6. Sound([p EXCEPT !.comm = c]) /\ Recorded(s, [p EXCEPT !.comm = c])
    BY <2>5 DEF Keeps
  <2> DEFINE t == [p EXCEPT !.comm = c]
  <2>7. /\ Sound(Record(t, "ERRWARN"))
        /\ Record(t, "ERRWARN").error = t.error \cup {"ERRWARN"}
        /\ Record(t, "ERRWARN").noDequeue = t.noDequeue
    BY <2>6, RecordSound
  <2> HIDE DEF t
  <2>8. GoodPacket(s, rx) = Record(t, "ERRWARN") /\ Recorded(s, t)
    BY <2>2, <2>4, <2>6 DEF t
  <2> QED  BY <2>7, <2>8 DEF Recorded
<1> QED  BY <1>1, <1>2, <1>3, <1>4, <1>5 DEF Packets, Unexpected

(* The end of power_communication: a packet comes off the receive ring and is
   dispatched, when nothing is being sent. *)
LEMMA DispatchedKeeps ==
    ASSUME NEW s, Sound(s)
    PROVE  /\ Sound(Dispatched(s)) /\ s.error \subseteq Dispatched(s).error
           /\ ~(Dispatches(s) /\ Head(s.recvQ) = "ACK") => Recorded(s, Dispatched(s))
<1> DEFINE q == Tail(s.recvQ)
           t == [s EXCEPT !.recvQ = q, !.receiving = FALSE]
           rx == Head(s.recvQ)
<1>1. CASE ~Dispatches(s)
  BY <1>1 DEF Dispatched, Recorded
<1>2. CASE Dispatches(s)
  <2>0. s \in PsuState /\ s.recvQ \in Seq(Packets) /\ s.recvQ # <<>> /\ ~s.sending
    BY <1>2 DEF Sound, Typed, PsuState, Dispatches
  <2>1. q \in Seq(Packets) /\ Len(q) = Len(s.recvQ) - 1 /\ rx \in Packets
    BY <2>0
  <2>2. Len(q) < RecvQueueSize
    BY <2>0, <2>1, PsuAssumption DEF PsuAssumption, Sound, Typed
  <2>3. Dispatched(s) = IF rx = "BAD" THEN BadPacket(t) ELSE GoodPacket(Pop(t), rx)
    BY <1>2 DEF Dispatched
  <2> HIDE DEF q, rx
  <2>4. t \in PsuState
    BY <2>0, <2>1 DEF PsuState
  <2>5. /\ t.error = s.error /\ t.noDequeue = s.noDequeue /\ t.comm = s.comm
        /\ t.stack = s.stack /\ t.recvQ = q /\ t.sending = s.sending
        /\ t.receiving = FALSE /\ t.sendPos = s.sendPos
    BY <2>0 DEF PsuState
  <2> HIDE DEF t
  <2>6. Sound(t)
    BY <2>2, <2>4, <2>5 DEF Sound, Typed, Shaped, Duplex
  <2>7. CASE rx = "BAD"
    BY <2>3, <2>5, <2>6, <2>7, BadPacketKeeps DEF Keeps, Recorded
  <2>8. CASE rx # "BAD"
    <3>1. /\ Sound(Pop(t)) /\ Pop(t).noDequeue = s.noDequeue
          /\ Pop(t).error = s.error /\ ~Pop(t).sending
      BY <2>0, <2>5, <2>6, PopKeeps
    <3>2. /\ Sound(GoodPacket(Pop(t), rx))
          /\ Pop(t).error \subseteq GoodPacket(Pop(t), rx).error
          /\ rx # "ACK" => Recorded(Pop(t), GoodPacket(Pop(t), rx))
      BY <2>1, <2>8, <3>1, GoodPacketKeeps
    <3> QED  BY <1>2, <2>3, <2>8, <3>1, <3>2 DEF Recorded, rx
  <2> QED  BY <2>7, <2>8
<1> QED  BY <1>1, <1>2

-----------------------------------------------------------------------------
(* The inductive invariant: the four properties together.  StackShape is what
   makes the request's state current again when the stack runs empty, so that
   set_send_packet consults flag_no_dequeue only then; the error word only
   grows. *)
IInv == TypeOK /\ StackShape /\ HalfDuplex /\ FailureRecorded

LEMMA SoundEquiv == Sound(psu) <=> PsuTypeOK /\ StackShape /\ HalfDuplex
  BY DEF Sound, Typed, Shaped, Duplex, PsuTypeOK, StackShape, HalfDuplex

LEMMA InitInv == Init => IInv
<1> SUFFICES ASSUME Init PROVE IInv
  OBVIOUS
<1> USE PsuAssumption DEF PsuAssumption
<1>1. Cleared \in CommState
  BY ClearedType
<1>2. psu \in PsuState
  BY <1>1 DEF Init, PsuState, Data
<1>3. /\ psu.recvQ = <<>> /\ psu.stack = <<>> /\ psu.comm.use = "QUEUE"
      /\ ~psu.sending /\ psu.sendPos = 0
  BY DEF Init, Cleared
<1>4. PsuTypeOK /\ StackShape /\ HalfDuplex
  BY <1>2, <1>3 DEF PsuTypeOK, StackShape, HalfDuplex
<1>5. CallerTypeOK /\ accepted \in Nat /\ firstSync \in Nat
  BY DEF Init, CallerTypeOK
<1>6. failed \in BOOLEAN /\ noise \in Nat /\ FailureRecorded
  BY DEF Init, FailureRecorded
<1> QED  BY <1>4, <1>5, <1>6 DEF IInv, TypeOK

(* The interrupt: the functions above, in the order of power_communication. *)
LEMMA TickInv ==
    ASSUME IInv, NEW rx \in Inputs, NEW more \in BOOLEAN, Tick(rx, more)
    PROVE  IInv'
<1> DEFINE a == SetSendPacket(psu)
           s == Received(a, rx, more)
           acked == Dispatches(s) /\ Head(s.recvQ) = "ACK"
<1>1. Sound(psu)
  BY SoundEquiv DEF IInv, TypeOK
<1>2. Sound(a) /\ Recorded(psu, a)
  BY <1>1, SetSendPacketKeeps DEF Keeps
<1>3. psu' = Dispatched(s)
  BY DEF Tick
<1>4. failed' = (failed \/ (psu.noDequeue /\ ~psu'.noDequeue /\ ~acked))
  BY DEF Tick
<1> HIDE DEF a
<1>5. Sound(s) /\ Recorded(a, s)
  BY <1>2, ReceivedKeeps DEF Keeps
<1> HIDE DEF s
<1>6. /\ Sound(psu') /\ s.error \subseteq psu'.error
      /\ ~acked => Recorded(s, psu')
  BY <1>3, <1>5, DispatchedKeeps
<1> HIDE DEF acked
<1>7. psu.error \subseteq psu'.error
  BY <1>2, <1>5, <1>6 DEF Recorded
<1>8. ~acked /\ psu.noDequeue /\ ~psu'.noDequeue => "COMMUNICATION" \in psu'.error
  <2>1. /\ psu.noDequeue \in BOOLEAN /\ a.noDequeue \in BOOLEAN
        /\ s.noDequeue \in BOOLEAN /\ psu'.noDequeue \in BOOLEAN
    BY <1>1, <1>2, <1>5, <1>6 DEF Sound, Typed, PsuState
  <2>2. Recorded(psu, s)
    BY <1>2, <1>5, <2>1, RecordedTransitive
  <2>3. ~acked => Recorded(psu, psu')
    BY <1>6, <2>1, <2>2, RecordedTransitive
  <2> QED  BY <2>3 DEF Recorded
<1>9. FailureRecorded'
  BY <1>4, <1>7, <1>8 DEF FailureRecorded, IInv
<1>10. (PsuTypeOK /\ StackShape /\ HalfDuplex)'
  BY <1>6 DEF Sound, Typed, Shaped, Duplex, PsuTypeOK, StackShape, HalfDuplex
<1>11. failed' \in BOOLEAN /\ noise' \in Nat
  BY <1>4 DEF Tick, IInv, TypeOK
<1>12. CallerTypeOK' /\ accepted' \in Nat /\ firstSync' \in Nat
  BY DEF Tick, IInv, TypeOK, CallerTypeOK
<1> QED  BY <1>9, <1>10, <1>11, <1>12 DEF IInv, TypeOK

(* send_enqueue writes the ring only. *)
LEMMA SendEnqueueInv ==
    ASSUME IInv, NEW wait \in BOOLEAN, SendEnqueue(wait)
    PROVE  /\ (PsuTypeOK /\ StackShape /\ HalfDuplex)' /\ accepted' \in Nat
           /\ psu'.error = psu.error
<1> USE DEF IInv, TypeOK
<1>1. CASE QueueFull(psu)
  BY <1>1 DEF SendEnqueue, PsuTypeOK, StackShape, HalfDuplex
<1>2. CASE ~QueueFull(psu)
  <2> DEFINE d == [id |-> accepted + 1, wait |-> wait]
             n == NextIndex(psu.tail)
             r == [psu.slots EXCEPT ![psu.tail] = d]
  <2>0. psu \in PsuState /\ psu.tail \in 0..SendQueueSize - 1
    BY DEF PsuTypeOK, PsuState
  <2>1. d \in Data /\ n \in 0..SendQueueSize - 1
    BY <2>0, NextIndexType DEF Data
  <2>2. r \in [0..SendQueueSize - 1 -> Data]
    BY <2>0, <2>1 DEF PsuState
  <2>3. psu' = [psu EXCEPT !.slots = r, !.tail = n] /\ accepted' = accepted + 1
    BY <1>2, <2>0 DEF SendEnqueue, Enqueued, PsuState
  <2> HIDE DEF d, n, r
  <2>4. psu' \in PsuState
    BY <2>0, <2>1, <2>2, <2>3 DEF PsuState
  <2>5. /\ psu'.error = psu.error /\ psu'.comm = psu.comm
        /\ psu'.stack = psu.stack /\ psu'.recvQ = psu.recvQ
        /\ psu'.sending = psu.sending /\ psu'.receiving = psu.receiving
        /\ psu'.sendPos = psu.sendPos
    BY <2>0, <2>3 DEF PsuState
  <2>6. PsuTypeOK' /\ StackShape' /\ HalfDuplex'
    BY <2>4, <2>5 DEF PsuTypeOK, StackShape, HalfDuplex
  <2> QED  BY <2>3, <2>5, <2>6
<1> QED  BY <1>1, <1>2

(* The steps of a caller. *)
LEMMA CallInv ==
    ASSUME IInv, NEW c \in Callers, Call(c)
    PROVE  IInv'
<1> USE DEF IInv, TypeOK
<1>1. CASE Enter(c) \/ Woken(c) \/ Interrupted(c)
  <2>1. UNCHANGED <<psu, creq, accepted, firstSync, failed, noise>> /\ CallerTypeOK'
    BY <1>1 DEF Enter, Woken, Interrupted, CallerTypeOK
  <2> QED  BY <2>1 DEF PsuTypeOK, StackShape, HalfDuplex, FailureRecorded
<1>2. CASE Enqueue(c)
  <2>1. /\ (PsuTypeOK /\ StackShape /\ HalfDuplex)' /\ accepted' \in Nat
        /\ psu'.error = psu.error
    BY <1>2, SendEnqueueInv DEF Enqueue
  <2>2. CallerTypeOK' /\ firstSync' \in Nat
    BY <1>2, <2>1 DEF Enqueue, CallerTypeOK
  <2>3. UNCHANGED <<failed, noise>>
    BY <1>2 DEF Enqueue
  <2> QED  BY <2>1, <2>2, <2>3 DEF FailureRecorded
<1>3. CASE SetFlag(c)
  <2>1. psu' = [psu EXCEPT !.syncWait = TRUE]
    BY <1>3 DEF SetFlag
  <2>2. Sound(psu') /\ psu'.error = psu.error
    BY <2>1, WakeSound, SoundEquiv
  <2>3. (PsuTypeOK /\ StackShape /\ HalfDuplex)'
    BY <2>2 DEF Sound, Typed, Shaped, Duplex, PsuTypeOK, StackShape, HalfDuplex
  <2>4. UNCHANGED <<cret, creq, accepted, firstSync, failed, noise>> /\ CallerTypeOK'
    BY <1>3 DEF SetFlag, CallerTypeOK
  <2> QED  BY <2>2, <2>3, <2>4 DEF FailureRecorded
<1> QED  BY <1>1, <1>2, <1>3 DEF Call

(* IInv holds in every reachable state. *)
LEMMA Invariance == Spec => []IInv
<1>1. IInv /\ [Next]_vars => IInv'
  <2> SUFFICES ASSUME IInv, [Next]_vars PROVE IInv'
    OBVIOUS
  <2>1. CASE Interrupt
    BY <2>1, TickInv DEF Interrupt
  <2>2. CASE QueueRequest
    <3>1. /\ (PsuTypeOK /\ StackShape /\ HalfDuplex)' /\ accepted' \in Nat
          /\ psu'.error = psu.error
      BY <2>2, SendEnqueueInv DEF QueueRequest
    <3>2. UNCHANGED <<cpc, cret, creq, firstSync, failed, noise>>
      BY <2>2 DEF QueueRequest
    <3> QED  BY <3>1, <3>2 DEF IInv, TypeOK, CallerTypeOK, FailureRecorded
  <2>3. CASE \E c \in Callers : Call(c)
    BY <2>3, CallInv
  <2>4. CASE UNCHANGED vars
    BY <2>4 DEF vars, IInv, TypeOK, PsuTypeOK, CallerTypeOK, StackShape,
                HalfDuplex, FailureRecorded
  <2> QED  BY <2>1, <2>2, <2>3, <2>4 DEF Next
<1> QED  BY <1>1, InitInv, PTL DEF Spec

(* Every field of psu_param, the rings and the stack stays in its range,
   whatever the power supply sends. *)
THEOREM TypeCorrect == Spec => []TypeOK
  BY Invariance, PTL DEF IInv

(* The exchanges always lead back to the request: pushes lost on a full stack,
   the double pop of check_retry_count and every dispatched packet included. *)
THEOREM StackAlwaysShaped == Spec => []StackShape
  BY Invariance, PTL DEF IInv

(* power_communication never waits for an answer in the middle of a packet. *)
THEOREM LineHalfDuplex == Spec => []HalfDuplex
  BY Invariance, PTL DEF IInv

(* No request is given up, rejected or cut short without PSU_ERROR_COMMUNICATION. *)
THEOREM FailuresRecorded == Spec => []FailureRecorded
  BY Invariance, PTL DEF IInv

-----------------------------------------------------------------------------
(* What the functions of the interrupt leave alone.  The rings and what was taken
   off them change in set_send_packet only; a request that has ended stays so. *)
SameRing(s, t) ==
    /\ t.slots = s.slots /\ t.head = s.head /\ t.tail = s.tail
    /\ t.sendData = s.sendData /\ t.syncWait = s.syncWait
    /\ t.noDequeue => s.noDequeue
SameLine(s, t) == t.sending = s.sending /\ t.sendPos = s.sendPos
SameTimeout(s, t) == t.timeoutCount = s.timeoutCount
Frame(s, t) == SameRing(s, t) /\ SameLine(s, t)

LEMMA FrameTransitive ==
    ASSUME NEW s, NEW t, NEW u, Frame(s, t), Frame(t, u)
    PROVE  Frame(s, u)
  BY DEF Frame, SameRing, SameLine

LEMMA PopFrame ==
    ASSUME NEW s, s \in PsuState
    PROVE  Frame(s, Pop(s)) /\ SameTimeout(s, Pop(s))
  BY DEF Pop, Frame, SameRing, SameLine, SameTimeout, PsuState

LEMMA PushFrame ==
    ASSUME NEW s, s \in PsuState, NEW c
    PROVE  Frame(s, [Push(s) EXCEPT !.comm = c])
  BY DEF Push, Frame, SameRing, SameLine, PsuState

LEMMA RecordFrame ==
    ASSUME NEW s, s \in PsuState, NEW e
    PROVE  Frame(s, Record(s, e)) /\ SameTimeout(s, Record(s, e)) /\ Record(s, e).comm = s.comm
  BY DEF Record, Frame, SameRing, SameLine, SameTimeout, PsuState

LEMMA ResentFrame ==
    ASSUME NEW s, s \in PsuState
    PROVE  Frame(s, Resent(s)) /\ SameTimeout(s, Resent(s))
  BY DEF Resent, Frame, SameRing, SameLine, SameTimeout, PsuState

LEMMA EndFrame ==
    ASSUME NEW s, s \in PsuState
    PROVE  LET t == [s EXCEPT !.noDequeue = FALSE] IN Frame(s, t) /\ SameTimeout(s, t)
  BY DEF Frame, SameRing, SameLine, SameTimeout, PsuState

(* send_retry_packet. *)
LEMMA SendRetryFrame ==
    ASSUME NEW s, Sound(s)
    PROVE  Frame(s, SendRetry(s)) /\ SameTimeout(s, SendRetry(s))
<1> DEFINE r == Resent(s)
           t == Record(r, "COMMUNICATION")
<1>1. s \in PsuState /\ Sound(r) /\ r \in PsuState
  BY ResentSound DEF Sound, Typed
<1>2. Frame(s, r) /\ SameTimeout(s, r)
  BY <1>1, ResentFrame
<1> HIDE DEF r
<1>3. Frame(s, t) /\ SameTimeout(s, t)
  BY <1>1, <1>2, RecordFrame, FrameTransitive DEF SameTimeout
<1>4. t \in PsuState
  BY <1>1, RecordSound DEF Sound, Typed
<1> HIDE DEF t
<1>5. CASE SendRetry(s) = r
  BY <1>2, <1>5
<1>6. CASE SendRetry(s) = Pop(t)
  BY <1>3, <1>4, <1>6, PopFrame, FrameTransitive DEF SameTimeout
<1>7. CASE SendRetry(s) = [t EXCEPT !.noDequeue = FALSE]
  BY <1>3, <1>4, <1>7, EndFrame, FrameTransitive DEF SameTimeout
<1> QED BY <1>5, <1>6, <1>7 DEF SendRetry, r, t

(* Until the time has run out, counting is all that check_retry_count does. *)
Still(s, t) ==
    t.timeoutCount < TimeoutLimit =>
        s.timeoutCount < TimeoutLimit /\ t.comm = s.comm /\ t.noDequeue = s.noDequeue
LEMMA CheckRetryCountFrame ==
    ASSUME NEW s, Sound(s)
    PROVE  Frame(s, CheckRetryCount(s)) /\ Still(s, CheckRetryCount(s))
<1> DEFINE t == CountTimeout(s)
           u == IF t.comm.use = "ACK" THEN Pop(t) ELSE t
           v == CheckRetryCount(s)
<1>0. s \in PsuState /\ Sound(t) /\ t \in PsuState
  BY CountTimeoutSound DEF Sound, Typed
<1>1. /\ Frame(s, t) /\ t.comm = s.comm /\ t.noDequeue = s.noDequeue
      /\ t.timeoutCount < TimeoutLimit => s.timeoutCount < TimeoutLimit
  BY <1>0 DEF CountTimeout, Frame, SameRing, SameLine, PsuState
<1>2. v = IF t.timeoutCount < TimeoutLimit THEN t
          ELSE IF t.comm.use # "QUEUE" /\ u.comm.nakSent = SendNakLimit THEN Pop(u)
          ELSE SendRetry(u)
  BY DEF CheckRetryCount
<1> HIDE DEF t, v
<1>3. Sound(u) /\ u \in PsuState /\ Frame(s, u) /\ SameTimeout(t, u)
  <2>1. CASE t.comm.use = "ACK"
    BY <1>0, <1>1, <2>1, PopKeeps, PopFrame, FrameTransitive DEF Sound, Typed
  <2>2. CASE t.comm.use # "ACK"
    BY <1>0, <1>1, <2>2 DEF SameTimeout
  <2> QED BY <2>1, <2>2
<1> HIDE DEF u
<1>4. CASE v = t
  BY <1>1, <1>4 DEF Still, v
<1>5. CASE v = Pop(u) /\ ~(t.timeoutCount < TimeoutLimit)
  BY <1>3, <1>5, PopFrame, FrameTransitive DEF Still, SameTimeout, v
<1>6. CASE v = SendRetry(u) /\ ~(t.timeoutCount < TimeoutLimit)
  BY <1>3, <1>6, SendRetryFrame, FrameTransitive DEF Still, SameTimeout, v
<1> QED BY <1>2, <1>4, <1>5, <1>6

(* The receiving loop. *)
LEMMA ReceivedFrame ==
    ASSUME NEW s, Sound(s), NEW rx \in Inputs, NEW more \in BOOLEAN
    PROVE  Frame(s, Received(s, rx, more)) /\ Still(s, Received(s, rx, more))
<1> DEFINE a == Arrived(s, rx)
<1>1. Sound(a)
  <2>1. Received(s, rx, FALSE) = a
    BY DEF Received
  <2> QED BY <2>1, ReceivedKeeps DEF Keeps
<1>2. Frame(s, a) /\ Still(s, a)
  <2>1. CASE a = s
    BY <2>1 DEF Frame, SameRing, SameLine, Still
  <2>2. CASE a = CheckRetryCount(s)
    BY <2>2, CheckRetryCountFrame
  <2>3. CASE a = [s EXCEPT !.recvQ = Append(@, rx)]
    BY <2>3 DEF Frame, SameRing, SameLine, Still, Sound, Typed, PsuState
  <2> QED BY <2>1, <2>2, <2>3 DEF Arrived, Inputs
<1> HIDE DEF a
<1>3. CASE ~more
  BY <1>2, <1>3 DEF Received, a
<1>4. CASE more
  <2>1. Frame(a, CheckRetryCount(a)) /\ Still(a, CheckRetryCount(a))
    BY <1>1, CheckRetryCountFrame
  <2>2. Received(s, rx, more) = CheckRetryCount(a)
    BY <1>4 DEF Received, a
  <2> QED BY <1>2, <2>1, <2>2, FrameTransitive DEF Still
<1> QED BY <1>3, <1>4

(* Dispatching, which does nothing while a packet is being sent. *)
LEMMA DispatchedFrame ==
    ASSUME NEW s, Sound(s)
    PROVE  Frame(s, Dispatched(s)) /\ (s.sending => Dispatched(s) = s)
<1> DEFINE q == Tail(s.recvQ)
           t == [s EXCEPT !.recvQ = q, !.receiving = FALSE]
           rx == Head(s.recvQ)
<1>1. CASE ~Dispatches(s)
  BY <1>1 DEF Dispatched, Frame, SameRing, SameLine
<1>2. CASE Dispatches(s)
  <2>0. s \in PsuState /\ s.recvQ \in Seq(Packets) /\ s.recvQ # <<>> /\ ~s.sending
    BY <1>2 DEF Sound, Typed, PsuState, Dispatches
  <2>1. q \in Seq(Packets) /\ rx \in Packets
    BY <2>0
  <2>2. Dispatched(s) = IF rx = "BAD" THEN BadPacket(t) ELSE GoodPacket(Pop(t), rx)
    BY <1>2 DEF Dispatched
  <2> HIDE DEF q, rx
  <2>3. t \in PsuState /\ Frame(s, t)
    BY <2>0, <2>1 DEF PsuState, Frame, SameRing, SameLine
  <2>4. Sound(t)
    <3>1. Len(q) < RecvQueueSize
      BY <2>0, PsuAssumption DEF q, PsuAssumption, Sound, Typed
    <3>2. /\ t.comm = s.comm /\ t.stack = s.stack /\ t.recvQ = q /\ t.sending = s.sending
          /\ t.receiving = FALSE /\ t.sendPos = s.sendPos
      BY <2>0 DEF PsuState
    <3> QED BY <2>3, <3>1, <3>2 DEF Sound, Typed, Shaped, Duplex
  <2> HIDE DEF t
  <2>5. CASE rx = "BAD"
    <3> DEFINE d == [t EXCEPT !.comm.nakSent = @ + 1]
    <3>1. d \in PsuState /\ Frame(t, d)
      <4>1. t.comm \in CommState
        BY <2>3 DEF PsuState
      <4>2. [t.comm EXCEPT !.nakSent = @ + 1] \in CommState
        BY <4>1 DEF CommState
      <4>3. d = [t EXCEPT !.comm = [t.comm EXCEPT !.nakSent = @ + 1]]
        BY <2>3 DEF PsuState, CommState
      <4> HIDE DEF d
      <4> QED BY <2>3, <4>2, <4>3 DEF PsuState, Frame, SameRing, SameLine
    <3>2. \/ BadPacket(t) = Record(d, "COMMUNICATION") \/ BadPacket(t) = d
          \/ BadPacket(t) = [Push(d) EXCEPT !.comm = [Cleared EXCEPT !.use = "NAK", !.nakSent = 1]]
      BY DEF BadPacket
    <3> HIDE DEF d
    <3>3. Frame(t, BadPacket(t))
      BY <3>1, <3>2, RecordFrame, PushFrame, FrameTransitive
    <3> QED BY <2>0, <2>2, <2>3, <2>5, <3>3, FrameTransitive
  <2>6. CASE rx # "BAD"
    <3> DEFINE p == Pop(t)
    <3>1. p \in PsuState /\ Sound(p) /\ Frame(t, p)
      BY <2>3, <2>4, PopFrame, PopKeeps DEF Sound, Typed
    <3> HIDE DEF p
    <3>2. Frame(p, GoodPacket(p, rx))
      <4>1. CASE rx = "ACK"
        BY <3>1, <4>1, EndFrame DEF GoodPacket
      <4>2. CASE rx \in {"REJ", "UNKNOWN"}
        <5>1. GoodPacket(p, rx) = [Record(p, "COMMUNICATION") EXCEPT !.noDequeue = FALSE]
          BY <4>2 DEF GoodPacket
        <5>2. Record(p, "COMMUNICATION") \in PsuState
          BY <3>1, RecordSound DEF Sound, Typed
        <5> QED BY <3>1, <5>1, <5>2, RecordFrame, EndFrame, FrameTransitive
      <4>3. CASE rx = "STRAY"
        BY <3>1, <4>3 DEF GoodPacket, Frame, SameRing, SameLine, PsuState
      <4>4. CASE rx = "NAK"
        <5> DEFINE d == [p EXCEPT !.comm.nakRecv = @ + 1]
        <5>1. d \in PsuState /\ Frame(p, d)
          <6>1. p.comm \in CommState
            BY <3>1 DEF PsuState
          <6>2. [p.comm EXCEPT !.nakRecv = @ + 1] \in CommState
            BY <6>1 DEF CommState
          <6>3. d = [p EXCEPT !.comm = [p.comm EXCEPT !.nakRecv = @ + 1]]
            BY <3>1 DEF PsuState, CommState
          <6> HIDE DEF d
          <6> QED BY <3>1, <6>2, <6>3 DEF PsuState, Frame, SameRing, SameLine
        <5>2. \/ GoodPacket(p, rx) = d
              \/ GoodPacket(p, rx) = [Record(d, "COMMUNICATION") EXCEPT !.noDequeue = FALSE]
          BY <4>4 DEF GoodPacket
        <5> HIDE DEF d
        <5>3. Record(d, "COMMUNICATION") \in PsuState
          BY <5>1 DEF Record, PsuState
        <5> QED BY <5>1, <5>2, <5>3, RecordFrame, EndFrame, FrameTransitive
      <4>5. CASE rx = "ERRWARN"
        <5>1. GoodPacket(p, rx) = [Record(Push(p), "ERRWARN") EXCEPT
                                      !.comm = [Cleared EXCEPT !.use = "ACK"]]
          BY <4>5 DEF GoodPacket
        <5>2. Push(p) \in PsuState
          BY <3>1, PushTyped DEF Sound
        <5> QED BY <3>1, <5>1, <5>2 DEF Push, Record, Frame, SameRing, SameLine, PsuState
      <4> QED BY <2>1, <2>6, <4>1, <4>2, <4>3, <4>4, <4>5 DEF Packets, Unexpected
    <3> QED BY <2>0, <2>2, <2>3, <2>6, <3>1, <3>2, FrameTransitive DEF p
  <2> QED BY <2>5, <2>6
<1> QED BY <1>1, <1>2

(* set_send_packet: it leaves the ring alone, clears sync_wait between two
   requests, or takes the next request off as well. *)
LEMMA SetSendPacketCases ==
    ASSUME NEW s, Sound(s)
    PROVE  LET w == [s EXCEPT !.syncWait = @ /\ ~Wakes(s)]
               a == SetSendPacket(s) IN
           \/ /\ a = s /\ s.receiving
           \/ /\ a = SendByte(s) /\ ~s.receiving
              /\ s.comm.use # "QUEUE" \/ s.noDequeue
           \/ /\ a = w /\ ~s.receiving /\ s.comm.use = "QUEUE" /\ ~s.noDequeue
           \/ /\ a = SendByte(Dequeued(w)) /\ ~s.receiving /\ s.comm.use = "QUEUE" /\ ~s.noDequeue
              /\ s.head # s.tail
  BY DEF SetSendPacket

LEMMA SendByteFrame ==
    ASSUME NEW s, s \in PsuState
    PROVE  /\ SameRing(s, SendByte(s)) /\ SendByte(s).comm = s.comm
           /\ SendByte(s).noDequeue = s.noDequeue
           /\ SendByte(s).sendPos > 0 => SendByte(s).timeoutCount = s.timeoutCount
  BY DEF SendByte, SameRing, PsuState
-----------------------------------------------------------------------------
(* The send ring as a queue.  "last" is the number of the request put in last. *)
Waiting(s) == (s.tail - s.head) % SendQueueSize
At(s, i) == s.slots[(s.head + i) % SendQueueSize]
Fifo(s, last) ==
    /\ last = s.sendData.id + Waiting(s)
    /\ \A i \in 0..Waiting(s) - 1 : At(s, i).id = s.sendData.id + 1 + i
(* A synchronous request has a number, from the first one on. *)
SyncFrom(first, d) == d.wait => 0 < first /\ first <= d.id
WaitsFrom(s, first) ==
    /\ SyncFrom(first, s.sendData)
    /\ \A i \in 0..Waiting(s) - 1 : SyncFrom(first, At(s, i))

(* The remainder, where indices can get to. *)
LEMMA Modulo ==
    /\ \A x \in 0..SendQueueSize - 1 : x % SendQueueSize = x
    /\ \A x \in SendQueueSize..2 * SendQueueSize - 1 : x % SendQueueSize = x - SendQueueSize
    /\ \A x \in (-SendQueueSize)..(-1) : x % SendQueueSize = x + SendQueueSize
  BY PsuAssumption DEF PsuAssumption

LEMMA RingIndexes ==
    ASSUME NEW s \in PsuState
    PROVE  /\ Waiting(s) \in 0..SendQueueSize - 1
           /\ Waiting(s) = IF s.head <= s.tail THEN s.tail - s.head
                                                ELSE s.tail - s.head + SendQueueSize
           /\ \A i \in 0..SendQueueSize - 1 :
                  /\ (s.head + i) % SendQueueSize \in 0..SendQueueSize - 1
                  /\ (s.head + i) % SendQueueSize =
                        IF s.head + i < SendQueueSize THEN s.head + i ELSE s.head + i - SendQueueSize
<1> DEFINE N == SendQueueSize
<1>1. s.head \in 0..N - 1 /\ s.tail \in 0..N - 1 /\ N \in Nat
  BY PsuAssumption DEF PsuAssumption, PsuState
<1>2. Waiting(s) = IF s.head <= s.tail THEN s.tail - s.head ELSE s.tail - s.head + N
  <2>1. CASE s.head <= s.tail
    <3>1. s.tail - s.head \in 0..N - 1
      BY <1>1, <2>1
    <3> QED BY <2>1, <3>1, Modulo DEF Waiting
  <2>2. CASE ~(s.head <= s.tail)
    <3>1. s.tail - s.head \in (-N)..(-1)
      BY <1>1, <2>2
    <3> QED BY <2>2, <3>1, Modulo DEF Waiting
  <2> QED BY <2>1, <2>2
<1>3. ASSUME NEW i \in 0..N - 1
      PROVE  (s.head + i) % N = IF s.head + i < N THEN s.head + i ELSE s.head + i - N
  <2>1. CASE s.head + i < N
    <3>1. s.head + i \in 0..N - 1
      BY <1>1, <2>1
    <3> QED BY <2>1, <3>1, Modulo
  <2>2. CASE ~(s.head + i < N)
    <3>1. s.head + i \in N..2 * N - 1
      BY <1>1, <2>2
    <3> QED BY <1>1, <2>2, <3>1, Modulo
  <2> QED BY <2>1, <2>2
<1>4. Waiting(s) \in 0..N - 1
  BY <1>1, <1>2
<1>5. ASSUME NEW i \in 0..N - 1 PROVE (s.head + i) % N \in 0..N - 1
  BY <1>1, <1>3
<1> QED BY <1>2, <1>3, <1>4, <1>5

LEMMA NextIndexIs ==
    ASSUME NEW i \in 0..SendQueueSize - 1
    PROVE  NextIndex(i) = IF i = SendQueueSize - 1 THEN 0 ELSE i + 1
<1> USE PsuAssumption DEF PsuAssumption
<1>1. CASE i = SendQueueSize - 1
  <2>1. i + 1 \in SendQueueSize..2 * SendQueueSize - 1
    BY <1>1
  <2> QED BY <1>1, <2>1, Modulo DEF NextIndex
<1>2. CASE i # SendQueueSize - 1
  <2>1. i + 1 \in 0..SendQueueSize - 1
    BY <1>2
  <2> QED BY <1>2, <2>1, Modulo DEF NextIndex
<1> QED BY <1>1, <1>2

(* What stands in the ring depends on the ring only. *)
LEMMA SameRingKeeps ==
    ASSUME NEW s, NEW t, SameRing(s, t), NEW last, NEW first
    PROVE  /\ Waiting(t) = Waiting(s) /\ \A i \in Int : At(t, i) = At(s, i)
           /\ Fifo(s, last) => Fifo(t, last)
           /\ WaitsFrom(s, first) => WaitsFrom(t, first)
  BY DEF SameRing, Waiting, At, Fifo, WaitsFrom

(* send_dequeue takes the one that waited longest. *)
LEMMA DequeuedFifo ==
    ASSUME NEW s \in PsuState, s.head # s.tail, NEW last, Fifo(s, last),
           NEW first, WaitsFrom(s, first)
    PROVE  /\ Fifo(Dequeued(s), last) /\ WaitsFrom(Dequeued(s), first)
           /\ Dequeued(s).sendData.id = s.sendData.id + 1
<1> DEFINE t == Dequeued(s)
           N == SendQueueSize
<1>0. s.head \in 0..N - 1 /\ s.tail \in 0..N - 1 /\ N \in Nat /\ N > 1
  BY PsuAssumption DEF PsuAssumption, PsuState
<1>1. /\ t.slots = s.slots /\ t.tail = s.tail /\ t.head = NextIndex(s.head)
      /\ t.sendData = s.slots[s.head]
  BY DEF Dequeued, PsuState
<1>2. t.head \in 0..N - 1 /\ t.head = IF s.head = N - 1 THEN 0 ELSE s.head + 1
  BY <1>0, <1>1, NextIndexIs, NextIndexType
<1>3. t \in PsuState
  <2>1. t = [s EXCEPT !.sendData = s.slots[s.head], !.head = NextIndex(s.head),
                      !.comm = Cleared, !.noDequeue = TRUE]
    BY DEF Dequeued
  <2>2. s.slots[s.head] \in Data
    BY <1>0 DEF PsuState
  <2> HIDE DEF t
  <2> QED BY <1>0, <2>1, <2>2, NextIndexType, ClearedType DEF PsuState
<1> HIDE DEF t
<1>4. Waiting(s) >= 1 /\ Waiting(t) = Waiting(s) - 1
  <2>1. Waiting(s) = IF s.head <= s.tail THEN s.tail - s.head ELSE s.tail - s.head + N
    BY RingIndexes
  <2>2. Waiting(t) = IF t.head <= t.tail THEN t.tail - t.head ELSE t.tail - t.head + N
    BY <1>3, RingIndexes
  <2> QED BY <1>0, <1>1, <1>2, <2>1, <2>2
<1>5. Waiting(s) \in 0..N - 1
  BY RingIndexes
<1>6. ASSUME NEW i \in 0..Waiting(t) - 1
      PROVE  At(t, i) = At(s, i + 1) /\ i + 1 \in 0..Waiting(s) - 1
  <2>1. i \in 0..N - 1 /\ i + 1 \in 0..N - 1 /\ i + 1 \in 0..Waiting(s) - 1
    BY <1>0, <1>4, <1>5
  <2>2. (t.head + i) % N = IF t.head + i < N THEN t.head + i ELSE t.head + i - N
    BY <1>3, <2>1, RingIndexes
  <2>3. (s.head + (i + 1)) % N = IF s.head + (i + 1) < N THEN s.head + (i + 1)
                                                         ELSE s.head + (i + 1) - N
    BY <2>1, RingIndexes
  <2>4. (t.head + i) % N = (s.head + (i + 1)) % N
    BY <1>0, <1>2, <2>1, <2>2, <2>3
  <2> QED BY <1>1, <2>1, <2>4 DEF At
<1>7. At(s, 0) = t.sendData /\ 0 \in 0..Waiting(s) - 1
  <2>1. (s.head + 0) % N = s.head
    BY <1>0, RingIndexes
  <2> QED BY <1>1, <1>4, <1>5, <2>1 DEF At
<1>8. s.sendData.id \in Nat
  BY DEF PsuState, Data
<1>9. t.sendData.id = s.sendData.id + 1
  BY <1>7, <1>8 DEF Fifo
<1>10. Fifo(t, last)
  BY <1>4, <1>5, <1>6, <1>8, <1>9 DEF Fifo
<1>11. WaitsFrom(t, first)
  BY <1>6, <1>7 DEF WaitsFrom
<1> QED BY <1>9, <1>10, <1>11 DEF t

(* send_enqueue puts the new one behind them all, into a slot that is free. *)
LEMMA EnqueuedFifo ==
    ASSUME NEW s \in PsuState, ~QueueFull(s), NEW last \in Nat, Fifo(s, last),
           NEW wait \in BOOLEAN, NEW first, WaitsFrom(s, first),
           SyncFrom(first, [id |-> last + 1, wait |-> wait])
    PROVE  LET t == Enqueued(s, [id |-> last + 1, wait |-> wait]) IN
           Fifo(t, last + 1) /\ WaitsFrom(t, first)
<1> DEFINE N == SendQueueSize
           d == [id |-> last + 1, wait |-> wait]
           t == Enqueued(s, d)
<1>0. /\ s.head \in 0..N - 1 /\ s.tail \in 0..N - 1 /\ N \in Nat /\ N > 1
      /\ s.slots \in [0..N - 1 -> Data] /\ d \in Data
  BY PsuAssumption DEF PsuAssumption, PsuState, Data
<1>00. SyncFrom(first, d) /\ d.id = last + 1
  OBVIOUS
<1> HIDE DEF d
<1>1. /\ t.slots = [s.slots EXCEPT ![s.tail] = d] /\ t.tail = NextIndex(s.tail) /\ t.head = s.head
      /\ t.sendData = s.sendData
  BY <1>0 DEF Enqueued, PsuState
<1>2. t.tail \in 0..N - 1 /\ t.tail = IF s.tail = N - 1 THEN 0 ELSE s.tail + 1
  BY <1>0, <1>1, NextIndexIs, NextIndexType
<1>3. t \in PsuState
  <2>1. t = [s EXCEPT !.slots = [s.slots EXCEPT ![s.tail] = d], !.tail = NextIndex(s.tail)]
    BY <1>0 DEF Enqueued, PsuState
  <2>2. [s.slots EXCEPT ![s.tail] = d] \in [0..N - 1 -> Data]
    BY <1>0
  <2> HIDE DEF t
  <2> QED BY <1>1, <1>2, <2>1, <2>2 DEF PsuState
<1> HIDE DEF t
<1>4. Waiting(t) = Waiting(s) + 1
  <2>1. Waiting(s) = IF s.head <= s.tail THEN s.tail - s.head ELSE s.tail - s.head + N
    BY RingIndexes
  <2>2. Waiting(t) = IF t.head <= t.tail THEN t.tail - t.head ELSE t.tail - t.head + N
    BY <1>3, RingIndexes
  <2>3. t.tail # s.head
    BY <1>1 DEF QueueFull
  <2>4. \A h, k \in 0..N - 1 :
            LET m == IF k = N - 1 THEN 0 ELSE k + 1 IN
            m # h => (IF h <= m THEN m - h ELSE m - h + N)
                       = (IF h <= k THEN k - h ELSE k - h + N) + 1
    BY PsuAssumption DEF PsuAssumption
  <2> QED BY <1>0, <1>1, <1>2, <2>1, <2>2, <2>3, <2>4
<1>5. Waiting(s) \in 0..N - 1 /\ Waiting(t) \in 0..N - 1
  BY <1>3, RingIndexes
<1>6. ASSUME NEW i \in 0..Waiting(t) - 1
      PROVE  IF i = Waiting(s) THEN At(t, i) = d ELSE i \in 0..Waiting(s) - 1 /\ At(t, i) = At(s, i)
  <2>1. i \in 0..N - 1 /\ i <= Waiting(s)
    BY <1>0, <1>4, <1>5
  <2>2. (s.head + i) % N = IF s.head + i < N THEN s.head + i ELSE s.head + i - N
    BY <2>1, RingIndexes
  <2>3. Waiting(s) = IF s.head <= s.tail THEN s.tail - s.head ELSE s.tail - s.head + N
    BY RingIndexes
  <2>4. \A h, k, j \in 0..N - 1 :
            (j = IF h <= k THEN k - h ELSE k - h + N)
                <=> ((IF h + j < N THEN h + j ELSE h + j - N) = k)
    BY PsuAssumption DEF PsuAssumption
  <2>5. i = Waiting(s) <=> (s.head + i) % N = s.tail
    <3>1. s.head \in 0..N - 1 /\ s.tail \in 0..N - 1
      BY <1>0
    <3> HIDE DEF N
    <3> QED BY <2>1, <2>2, <2>3, <2>4, <3>1
  <2>6. (s.head + i) % N \in 0..N - 1
    BY <2>1, RingIndexes
  <2>7. i # Waiting(s) => i \in 0..Waiting(s) - 1
    BY <1>5, <2>1
  <2> QED BY <1>0, <1>1, <2>5, <2>6, <2>7 DEF At
<1>7. s.sendData.id \in Nat
  BY DEF PsuState, Data
<1>8. ASSUME NEW i \in 0..Waiting(t) - 1
      PROVE  At(t, i).id = t.sendData.id + 1 + i
  <2>1. CASE i = Waiting(s)
    BY <1>00, <1>1, <1>5, <1>6, <1>7, <2>1 DEF Fifo
  <2>2. CASE i # Waiting(s)
    BY <1>1, <1>6, <2>2 DEF Fifo
  <2> QED BY <2>1, <2>2
<1>9. Fifo(t, last + 1)
  BY <1>1, <1>4, <1>5, <1>7, <1>8 DEF Fifo
<1>10. ASSUME NEW i \in 0..Waiting(t) - 1
       PROVE  SyncFrom(first, At(t, i))
  BY <1>00, <1>6 DEF WaitsFrom
<1>11. WaitsFrom(t, first)
  BY <1>1, <1>10 DEF WaitsFrom
<1> QED BY <1>9, <1>11 DEF t, d

(* A request is through: its successor is being sent, or it has ended. *)
Ended(s, id) == id < s.sendData.id \/ (id = s.sendData.id /\ ~s.noDequeue)

(* In the middle of a packet there is a request or an exchange that it belongs
   to, unless the time for an answer has run out. *)
InPacket(s) ==
    s.sendPos > 0 /\ s.timeoutCount < TimeoutLimit => s.comm.use # "QUEUE" \/ s.noDequeue

(* From s to t the ring remains a queue, sync_wait is cleared only when a
   synchronous request has ended, and what has ended stays so. *)
Moves(s, t, first, last) ==
    /\ Fifo(t, last)
    /\ WaitsFrom(t, first)
    /\ t.syncWait => s.syncWait
    /\ s.syncWait /\ ~t.syncWait => Ended(t, first)
    /\ Ended(s, first) => Ended(t, first)

(* What leaves the ring alone moves nothing. *)
LEMMA FrameMoves ==
    ASSUME NEW s, NEW t, Frame(s, t), NEW first, WaitsFrom(s, first), NEW last, Fifo(s, last)
    PROVE  Moves(s, t, first, last)
<1>1. SameRing(s, t)
  BY DEF Frame
<1>2. /\ Fifo(t, last)
      /\ WaitsFrom(t, first)
  BY <1>1, SameRingKeeps
<1> QED BY <1>1, <1>2 DEF SameRing, Moves, Ended

(* The wake-up of set_send_packet: the request that has ended is one that a
   caller waits for. *)
LEMMA WakeMoves ==
    ASSUME NEW s, Sound(s), NEW first \in Nat, WaitsFrom(s, first),
           NEW last, Fifo(s, last), ~s.noDequeue
    PROVE  LET w == [s EXCEPT !.syncWait = @ /\ ~Wakes(s)] IN
           /\ Moves(s, w, first, last) /\ w \in PsuState /\ w.sendData = s.sendData
           /\ SameLine(s, w) /\ SameTimeout(s, w)
<1> DEFINE b == s.syncWait /\ ~Wakes(s)
           w == [s EXCEPT !.syncWait = b]
<1>0. s \in PsuState /\ s.syncWait \in BOOLEAN /\ s.sendData \in Data
  BY DEF Sound, Typed, PsuState
<1>1. b \in BOOLEAN
  BY <1>0
<1>2. (b => s.syncWait) /\ (s.syncWait /\ ~b => s.sendData.wait)
  BY DEF Wakes
<1>3. [s EXCEPT !.syncWait = @ /\ ~Wakes(s)] = w
  BY <1>0 DEF PsuState
<1> HIDE DEF b
<1>4. w \in PsuState
  BY <1>0, <1>1 DEF PsuState
<1>5. /\ w.slots = s.slots /\ w.head = s.head /\ w.tail = s.tail /\ w.sendData = s.sendData
      /\ w.noDequeue = s.noDequeue /\ w.syncWait = b
      /\ SameLine(s, w) /\ SameTimeout(s, w)
  BY <1>0 DEF PsuState, SameLine, SameTimeout
<1> HIDE DEF w
<1>6. /\ Fifo(w, last)
      /\ WaitsFrom(w, first)
  BY <1>5 DEF Fifo, WaitsFrom, Waiting, At
<1>7. s.sendData.wait => Ended(s, first)
  <2>1. s.sendData.id \in Nat
    BY <1>0 DEF Data
  <2> QED BY <2>1 DEF WaitsFrom, SyncFrom, Ended
<1>8. Moves(s, w, first, last)
  BY <1>2, <1>5, <1>6, <1>7 DEF Moves, Ended
<1> QED BY <1>3, <1>4, <1>5, <1>8

(* set_send_packet. *)
LEMMA SetSendPacketMoves ==
    ASSUME NEW s, Sound(s), NEW first \in Nat, WaitsFrom(s, first),
           NEW last, Fifo(s, last), InPacket(s)
    PROVE  LET a == SetSendPacket(s) IN
           /\ Moves(s, a, first, last) /\ InPacket(a)
           /\ s.sendPos > 0 /\ a.sendPos > 0 /\ a.timeoutCount < TimeoutLimit =>
                 a.comm = s.comm /\ a.sendData = s.sendData
<1> DEFINE w == [s EXCEPT !.syncWait = @ /\ ~Wakes(s)]
           d == Dequeued(w)
           a == SetSendPacket(s)
           Kept(t) == /\ Moves(s, t, first, last) /\ InPacket(t)
                      /\ s.sendPos > 0 /\ t.sendPos > 0 /\ t.timeoutCount < TimeoutLimit =>
                            t.comm = s.comm /\ t.sendData = s.sendData
<1>0. s \in PsuState
  BY DEF Sound, Typed
<1>00. Frame(s, s)
  BY DEF Frame, SameRing, SameLine
<1>1. CASE a = s
  BY <1>00, <1>1, FrameMoves
<1>2. CASE a = SendByte(s) /\ (s.comm.use # "QUEUE" \/ s.noDequeue)
  <2> DEFINE t == SendByte(s)
  <2>1. SameRing(s, t) /\ t.comm = s.comm /\ t.noDequeue = s.noDequeue /\ t.sendData = s.sendData
    BY <1>0, SendByteFrame DEF SameRing
  <2> HIDE DEF t
  <2>2. /\ Fifo(t, last)
        /\ WaitsFrom(t, first)
    BY <2>1, SameRingKeeps
  <2>3. Moves(s, t, first, last)
    BY <2>1, <2>2 DEF SameRing, Moves, Ended
  <2> QED BY <1>2, <2>1, <2>3 DEF InPacket, t
<1>3. CASE ~s.noDequeue /\ s.comm.use = "QUEUE" /\ (a = w \/ a = SendByte(d)) /\
           (a = w \/ s.head # s.tail)
  <2>1. /\ Moves(s, w, first, last) /\ w \in PsuState /\ w.sendData = s.sendData
        /\ SameLine(s, w) /\ SameTimeout(s, w)
    BY <1>3, WakeMoves
  <2>2. w.head = s.head /\ w.tail = s.tail /\ w.comm = s.comm /\ w.noDequeue = s.noDequeue
    BY <1>0 DEF PsuState
  <2> HIDE DEF w
  <2>3. ~(s.sendPos > 0 /\ s.timeoutCount < TimeoutLimit)
    BY <1>3 DEF InPacket
  <2>4. CASE a = w
    BY <2>1, <2>2, <2>3, <2>4 DEF SameLine, SameTimeout, InPacket
  <2>5. CASE a = SendByte(d) /\ s.head # s.tail
    <3> DEFINE t == SendByte(d)
    <3>1. Fifo(d, last) /\ WaitsFrom(d, first) /\ d.sendData.id = w.sendData.id + 1
      BY <2>1, <2>2, <2>5, DequeuedFifo DEF Moves
    <3>2. /\ d \in PsuState /\ d.noDequeue /\ d.syncWait = w.syncWait
          /\ d.timeoutCount = w.timeoutCount
      <4>1. d = [w EXCEPT !.sendData = w.slots[w.head], !.head = NextIndex(w.head),
                          !.comm = Cleared, !.noDequeue = TRUE]
        BY DEF Dequeued
      <4>2. w.slots[w.head] \in Data /\ NextIndex(w.head) \in 0..SendQueueSize - 1
        BY <2>1, NextIndexType DEF PsuState
      <4> HIDE DEF d
      <4> QED BY <2>1, <4>1, <4>2, ClearedType DEF PsuState
    <3> HIDE DEF d
    <3>3. /\ SameRing(d, t) /\ t.noDequeue /\ t.sendData = d.sendData /\ t.syncWait = d.syncWait
          /\ t.sendPos > 0 => t.timeoutCount = d.timeoutCount
      BY <3>2, SendByteFrame DEF SameRing
    <3> HIDE DEF t
    <3>4. Fifo(t, last) /\ WaitsFrom(t, first)
      BY <3>1, <3>3, SameRingKeeps
    <3>5. Ended(w, first) => Ended(t, first)
      <4>1. w.sendData.id \in Nat
        BY <2>1 DEF PsuState, Data
      <4> QED BY <3>1, <3>3, <4>1 DEF Ended
    <3>6. Moves(s, t, first, last)
      BY <2>1, <3>2, <3>3, <3>4, <3>5 DEF Moves
    <3> QED BY <2>1, <2>3, <2>5, <3>2, <3>3, <3>6 DEF InPacket, SameTimeout, t
  <2> QED BY <1>3, <2>4, <2>5
<1> QED BY <1>1, <1>2, <1>3 DEF SetSendPacket

(* The interrupt. *)
LEMMA TickMoves ==
    ASSUME IInv, WaitsFrom(psu, firstSync), Fifo(psu, accepted), InPacket(psu),
           NEW rx \in Inputs, NEW more \in BOOLEAN, Tick(rx, more)
    PROVE  /\ Moves(psu, psu', firstSync, accepted) /\ InPacket(psu')
           /\ psu.sendPos > 0 /\ psu'.sendPos > 0 /\ psu'.timeoutCount < TimeoutLimit =>
                 Packet(psu') = Packet(psu)
<1> DEFINE a == SetSendPacket(psu)
           s == Received(a, rx, more)
<1>1. Sound(psu) /\ firstSync \in Nat
  BY SoundEquiv DEF IInv, TypeOK
<1>2. psu' = Dispatched(s)
  BY DEF Tick
<1>3. Sound(a)
  BY <1>1, SetSendPacketKeeps DEF Keeps
<1>4. /\ Moves(psu, a, firstSync, accepted) /\ InPacket(a)
      /\ psu.sendPos > 0 /\ a.sendPos > 0 /\ a.timeoutCount < TimeoutLimit =>
            a.comm = psu.comm /\ a.sendData = psu.sendData
  BY <1>1, SetSendPacketMoves
<1> HIDE DEF a
<1>5. Frame(a, s) /\ Still(a, s) /\ Sound(s)
  BY <1>3, ReceivedFrame, ReceivedKeeps DEF Keeps
<1> HIDE DEF s
<1>6. Frame(s, psu') /\ (s.sending => psu' = s)
  BY <1>2, <1>5, DispatchedFrame
<1>7. Frame(a, psu')
  BY <1>5, <1>6, FrameTransitive
<1>8. Moves(psu, psu', firstSync, accepted)
  <2>1. Moves(a, psu', firstSync, accepted)
    BY <1>4, <1>7, FrameMoves DEF Moves
  <2>2. psu'.syncWait = a.syncWait
    BY <1>7 DEF Frame, SameRing
  <2> QED BY <1>4, <2>1, <2>2 DEF Moves
<1>9. ASSUME psu'.sendPos > 0, psu'.timeoutCount < TimeoutLimit
      PROVE  /\ a.sendPos > 0 /\ a.timeoutCount < TimeoutLimit /\ psu'.comm = a.comm
             /\ psu'.noDequeue = a.noDequeue /\ psu'.sendData = a.sendData
  <2>1. s.sending /\ a.sendPos > 0
    BY <1>5, <1>6, <1>9 DEF Frame, SameLine, Sound, Duplex
  <2> QED BY <1>5, <1>6, <1>9, <2>1 DEF Still, Frame, SameRing
<1>10. InPacket(psu')
  BY <1>4, <1>9 DEF InPacket
<1> QED BY <1>4, <1>8, <1>9, <1>10 DEF Packet

-----------------------------------------------------------------------------
(* Who is woken.  A caller that has set its flag, sleeps or has been woken comes
   after the first synchronous request, which is through when sync_wait has been
   cleared. *)
WakeInv ==
    /\ firstSync <= accepted
    /\ psu.syncWait => 0 < firstSync
    /\ \A c \in Callers :
          /\ cpc[c] \in {"flag", "sleep"} \/ cret[c] = "woken" => 0 < firstSync
          /\ cpc[c] = "sleep" => psu.syncWait \/ Ended(psu, firstSync)
          /\ cret[c] = "woken" => Ended(psu, firstSync)

QInv ==
    /\ IInv
    /\ Fifo(psu, accepted) /\ WaitsFrom(psu, firstSync) /\ InPacket(psu)
    /\ WakeInv

LEMMA InitQ == Init => QInv
<1> SUFFICES ASSUME Init PROVE QInv
  OBVIOUS
<1>1. IInv
  BY InitInv
<1>2. psu \in PsuState
  BY <1>1 DEF IInv, TypeOK, PsuTypeOK
<1>3. /\ psu.head = 0 /\ psu.tail = BootRequests /\ psu.sendData = [id |-> 0, wait |-> FALSE]
      /\ psu.sendPos = 0 /\ ~psu.syncWait
      /\ psu.slots = [i \in 0..SendQueueSize - 1 |->
                         [id |-> IF i < BootRequests THEN i + 1 ELSE 0, wait |-> FALSE]]
  BY DEF Init
<1>4. BootRequests \in 0..SendQueueSize - 1 /\ SendQueueSize \in Nat
  BY PsuAssumption DEF PsuAssumption
<1>5. Waiting(psu) = BootRequests
  BY <1>2, <1>3, <1>4, RingIndexes
<1>6. ASSUME NEW i \in 0..BootRequests - 1
      PROVE  At(psu, i) = [id |-> i + 1, wait |-> FALSE]
  <2>1. i \in 0..SendQueueSize - 1 /\ i < BootRequests
    BY <1>4
  <2>2. (psu.head + i) % SendQueueSize = i
    <3>1. (psu.head + i) % SendQueueSize =
             IF psu.head + i < SendQueueSize THEN psu.head + i ELSE psu.head + i - SendQueueSize
      BY <1>2, <2>1, RingIndexes
    <3>2. psu.head + i = i /\ i < SendQueueSize
      BY <1>3, <1>4, <2>1
    <3> QED BY <3>1, <3>2
  <2> QED BY <1>3, <2>1, <2>2 DEF At
<1>7. accepted = BootRequests /\ firstSync = 0
  BY DEF Init
<1>8. Fifo(psu, accepted)
  BY <1>3, <1>4, <1>5, <1>6, <1>7 DEF Fifo
<1>9. WaitsFrom(psu, firstSync)
  BY <1>3, <1>5, <1>6 DEF WaitsFrom, SyncFrom
<1>10. InPacket(psu)
  BY <1>3 DEF InPacket
<1>11. WakeInv
  BY <1>3, <1>4, <1>7 DEF Init, WakeInv
<1> QED BY <1>1, <1>8, <1>9, <1>10, <1>11 DEF QInv

(* The interrupt wakes callers by clearing sync_wait, once a request they may
   count on is through. *)
LEMMA TickQ ==
    ASSUME QInv, NEW rx \in Inputs, NEW more \in BOOLEAN, Tick(rx, more)
    PROVE  QInv'
<1>1. IInv'
  BY TickInv DEF QInv
<1>2. Moves(psu, psu', firstSync, accepted) /\ InPacket(psu')
  BY TickMoves DEF QInv
<1>3. UNCHANGED <<cpc, cret, creq, accepted, firstSync>>
  BY DEF Tick
<1>4. WakeInv'
  BY <1>2, <1>3 DEF QInv, WakeInv, Moves, Ended
<1>5. Fifo(psu, accepted)' /\ WaitsFrom(psu, firstSync)' /\ InPacket(psu)'
  BY <1>2, <1>3 DEF Moves, Fifo, WaitsFrom, SyncFrom, Waiting, At, InPacket
<1> QED BY <1>1, <1>4, <1>5 DEF QInv

(* send_enqueue, for the worker or for a caller whose request is the first
   synchronous one or not. *)
LEMMA SendEnqueueQ ==
    ASSUME QInv, NEW wait \in BOOLEAN, SendEnqueue(wait),
           firstSync' = IF wait /\ firstSync = 0 /\ ~QueueFull(psu) THEN accepted' ELSE firstSync
    PROVE  /\ Fifo(psu', accepted') /\ WaitsFrom(psu', firstSync') /\ InPacket(psu')
           /\ psu'.sendData = psu.sendData /\ psu'.noDequeue = psu.noDequeue
           /\ psu'.syncWait = psu.syncWait /\ accepted' >= accepted
           /\ firstSync' <= accepted'
           /\ wait /\ ~QueueFull(psu) => 0 < firstSync'
<1>1. psu \in PsuState /\ accepted \in Nat /\ firstSync \in Nat /\ firstSync <= accepted
  BY DEF QInv, IInv, TypeOK, PsuTypeOK, WakeInv
<1>2. CASE QueueFull(psu)
  BY <1>1, <1>2 DEF SendEnqueue, QInv
<1>3. CASE ~QueueFull(psu)
  <2> DEFINE d == [id |-> accepted + 1, wait |-> wait]
  <2>1. psu' = Enqueued(psu, d) /\ accepted' = accepted + 1
    BY <1>3 DEF SendEnqueue
  <2>2. firstSync' = IF wait /\ firstSync = 0 THEN accepted + 1 ELSE firstSync
    BY <1>3, <2>1
  <2>3. SyncFrom(firstSync', d)
    BY <1>1, <2>2 DEF SyncFrom
  <2>4. WaitsFrom(psu, firstSync')
    BY <1>1, <2>2 DEF QInv, WaitsFrom, SyncFrom
  <2>5. Fifo(psu', accepted') /\ WaitsFrom(psu', firstSync')
    BY <1>1, <1>3, <2>1, <2>3, <2>4, EnqueuedFifo DEF QInv
  <2>6. /\ psu'.sendData = psu.sendData /\ psu'.noDequeue = psu.noDequeue
        /\ psu'.syncWait = psu.syncWait /\ psu'.sendPos = psu.sendPos
        /\ psu'.timeoutCount = psu.timeoutCount /\ psu'.comm = psu.comm
    BY <1>1, <2>1 DEF Enqueued, PsuState
  <2>7. InPacket(psu')
    BY <2>6 DEF QInv, InPacket
  <2>8. accepted' >= accepted
    BY <1>1, <2>1
  <2>9. firstSync' <= accepted' /\ (wait => 0 < firstSync')
    <3>1. CASE wait /\ firstSync = 0
      BY <1>1, <2>1, <2>2, <3>1
    <3>2. CASE ~(wait /\ firstSync = 0)
      BY <1>1, <2>1, <2>2, <3>2
    <3> QED BY <3>1, <3>2
  <2> QED BY <2>5, <2>6, <2>7, <2>8, <2>9
<1> QED BY <1>2, <1>3

(* The steps of a caller. *)
LEMMA CallQ ==
    ASSUME QInv, NEW c \in Callers, Call(c)
    PROVE  QInv'
<1>1. IInv'
  BY CallInv DEF QInv
<1>2. /\ psu \in PsuState /\ accepted \in Nat /\ firstSync \in Nat
      /\ cpc \in [Callers -> {"idle", "enqueue", "flag", "sleep"}]
      /\ cret \in [Callers -> {"none", "busy", "full", "woken", "interrupted"}]
  BY DEF QInv, IInv, TypeOK, PsuTypeOK, CallerTypeOK
<1>3. CASE UNCHANGED <<psu, accepted, firstSync>> /\ WakeInv'
  <2>1. Fifo(psu, accepted)' /\ WaitsFrom(psu, firstSync)' /\ InPacket(psu)'
    BY <1>3 DEF QInv, Fifo, WaitsFrom, SyncFrom, Waiting, At, InPacket
  <2> QED BY <1>1, <1>3, <2>1 DEF QInv
<1>4. CASE Enter(c)
  <2>1. WakeInv'
    BY <1>2, <1>4 DEF Enter, QInv, WakeInv, Ended
  <2> QED BY <1>3, <1>4, <2>1 DEF Enter
<1>5. CASE Enqueue(c)
  <2>1. firstSync' = IF TRUE /\ firstSync = 0 /\ ~QueueFull(psu) THEN accepted' ELSE firstSync
    BY <1>5 DEF Enqueue
  <2>2. /\ Fifo(psu', accepted') /\ WaitsFrom(psu', firstSync') /\ InPacket(psu')
        /\ psu'.sendData = psu.sendData /\ psu'.noDequeue = psu.noDequeue
        /\ psu'.syncWait = psu.syncWait /\ accepted' >= accepted
        /\ firstSync' <= accepted'
        /\ ~QueueFull(psu) => 0 < firstSync'
    BY <1>5, <2>1, SendEnqueueQ DEF Enqueue
  <2>3. \/ ~QueueFull(psu) /\ cpc' = [cpc EXCEPT ![c] = "flag"] /\ cret' = cret
        \/ cpc' = [cpc EXCEPT ![c] = "idle"] /\ cret' = [cret EXCEPT ![c] = "full"]
    BY <1>5 DEF Enqueue
  <2>4. 0 < firstSync => firstSync' = firstSync
    BY <1>2, <2>1
  <2>5. WakeInv'
    <3> SUFFICES ASSUME NEW e \in Callers
                 PROVE  /\ cpc'[e] \in {"flag", "sleep"} \/ cret'[e] = "woken" => 0 < firstSync'
                        /\ cpc'[e] = "sleep" => psu'.syncWait \/ Ended(psu', firstSync')
                        /\ cret'[e] = "woken" => Ended(psu', firstSync')
      BY <1>2, <2>2, <2>4 DEF WakeInv, QInv
    <3>1. CASE e = c
      BY <1>2, <2>2, <2>3, <2>4, <3>1 DEF WakeInv, QInv, Ended
    <3>2. CASE e # c
      BY <1>2, <2>2, <2>3, <2>4, <3>2 DEF WakeInv, QInv, Ended
    <3> QED BY <3>1, <3>2
  <2>6. Fifo(psu, accepted)' /\ WaitsFrom(psu, firstSync)' /\ InPacket(psu)'
    BY <2>2 DEF Fifo, WaitsFrom, SyncFrom, Waiting, At, InPacket
  <2> QED BY <1>1, <2>5, <2>6 DEF QInv
<1>6. CASE SetFlag(c)
  <2>1. /\ psu' = [psu EXCEPT !.syncWait = TRUE] /\ cpc[c] = "flag"
        /\ cpc' = [cpc EXCEPT ![c] = "sleep"]
        /\ UNCHANGED <<cret, accepted, firstSync>>
    BY <1>6 DEF SetFlag
  <2>2. /\ psu'.slots = psu.slots /\ psu'.head = psu.head /\ psu'.tail = psu.tail
        /\ psu'.sendData = psu.sendData /\ psu'.noDequeue = psu.noDequeue
        /\ psu'.comm = psu.comm /\ psu'.sendPos = psu.sendPos
        /\ psu'.timeoutCount = psu.timeoutCount /\ psu'.syncWait = TRUE
    BY <1>2, <2>1 DEF PsuState
  <2>3. Fifo(psu, accepted)' /\ WaitsFrom(psu, firstSync)' /\ InPacket(psu)'
    BY <2>1, <2>2 DEF QInv, Fifo, WaitsFrom, SyncFrom, Waiting, At, InPacket
  <2>4. WakeInv'
    BY <1>2, <2>1, <2>2 DEF QInv, WakeInv, Ended
  <2> QED BY <1>1, <2>3, <2>4 DEF QInv
<1>7. CASE Woken(c)
  <2>1. WakeInv'
    BY <1>2, <1>7 DEF Woken, QInv, WakeInv, Ended
  <2> QED BY <1>3, <1>7, <2>1 DEF Woken
<1>8. CASE Interrupted(c)
  <2>1. WakeInv'
    BY <1>2, <1>8 DEF Interrupted, QInv, WakeInv, Ended
  <2> QED BY <1>3, <1>8, <2>1 DEF Interrupted
<1> QED BY <1>4, <1>5, <1>6, <1>7, <1>8 DEF Call

LEMMA NextQ == QInv /\ [Next]_vars => QInv'
<1> SUFFICES ASSUME QInv, [Next]_vars PROVE QInv'
  OBVIOUS
<1>1. CASE Interrupt
  BY <1>1, TickQ DEF Interrupt
<1>2. CASE QueueRequest
  <2>1. /\ (PsuTypeOK /\ StackShape /\ HalfDuplex)' /\ accepted' \in Nat
        /\ psu'.error = psu.error
    BY <1>2, SendEnqueueInv DEF QueueRequest, QInv
  <2>2. UNCHANGED <<cpc, cret, creq, firstSync, failed, noise>>
    BY <1>2 DEF QueueRequest
  <2>3. IInv'
    BY <2>1, <2>2 DEF QInv, IInv, TypeOK, CallerTypeOK, FailureRecorded
  <2>4. firstSync' = IF FALSE /\ firstSync = 0 /\ ~QueueFull(psu) THEN accepted' ELSE firstSync
    BY <2>2
  <2>5. /\ Fifo(psu', accepted') /\ WaitsFrom(psu', firstSync') /\ InPacket(psu')
        /\ psu'.sendData = psu.sendData /\ psu'.noDequeue = psu.noDequeue
        /\ psu'.syncWait = psu.syncWait /\ firstSync' <= accepted'
    BY <1>2, <2>4, SendEnqueueQ DEF QueueRequest
  <2>6. WakeInv'
    BY <2>2, <2>5 DEF QInv, WakeInv, Ended
  <2>7. Fifo(psu, accepted)' /\ WaitsFrom(psu, firstSync)' /\ InPacket(psu)'
    BY <2>5 DEF Fifo, WaitsFrom, SyncFrom, Waiting, At, InPacket
  <2> QED BY <2>3, <2>6, <2>7 DEF QInv
<1>3. CASE \E c \in Callers : Call(c)
  BY <1>3, CallQ
<1>4. CASE UNCHANGED vars
  <2>1. IInv'
    BY <1>4 DEF vars, QInv, IInv, TypeOK, PsuTypeOK, CallerTypeOK, StackShape,
                HalfDuplex, FailureRecorded
  <2>2. Fifo(psu, accepted)' /\ WaitsFrom(psu, firstSync)' /\ InPacket(psu)' /\ WakeInv'
    BY <1>4 DEF vars, QInv, WakeInv, Ended, Fifo, WaitsFrom, SyncFrom, Waiting, At, InPacket
  <2> QED BY <2>1, <2>2 DEF QInv
<1> QED BY <1>1, <1>2, <1>3, <1>4 DEF Next

LEMMA QueueInvariance == Spec => []QInv
  BY InitQ, NextQ, PTL DEF Spec

(* The ring between send_enqueue and send_dequeue is a queue: no request is lost,
   overwritten or sent twice, for any size of the ring. *)
THEOREM RingIsQueue == Spec => []FifoOrder
<1>1. QInv => FifoOrder
  BY DEF QInv, FifoOrder, Fifo, Waiting, At
<1> QED BY <1>1, QueueInvariance, PTL

(* The requests of the temperature worker wake nobody: a woken caller comes after
   a synchronous request that is through. *)
THEOREM WokenLate == Spec => []WokenByFinished
<1>1. QInv => WokenByFinished
  BY DEF QInv, WakeInv, WokenByFinished, Finished, Ended
<1> QED BY <1>1, QueueInvariance, PTL

(* power_communication finishes the packet it has begun, unless the time for an
   answer has run out: neither the ring nor a received packet exchanges it. *)
THEOREM PacketKept == Spec => PacketStable
<1> DEFINE Kept == psu.sendPos > 0 /\ psu'.sendPos > 0 /\ psu'.timeoutCount < TimeoutLimit =>
                      Packet(psu') = Packet(psu)
<1>1. QInv /\ [Next]_vars => [Kept]_vars
  <2> SUFFICES ASSUME QInv, Next PROVE Kept
    OBVIOUS
  <2>1. CASE Interrupt
    BY <2>1, TickMoves DEF Interrupt, QInv
  <2>2. CASE psu' = psu
    BY <2>2
  <2>3. psu \in PsuState
    BY DEF QInv, IInv, TypeOK, PsuTypeOK
  <2>4. ASSUME NEW wait \in BOOLEAN, SendEnqueue(wait) PROVE Packet(psu') = Packet(psu)
    BY <2>3, <2>4 DEF SendEnqueue, Enqueued, Packet, PsuState
  <2>5. CASE QueueRequest
    BY <2>4, <2>5 DEF QueueRequest
  <2>6. ASSUME NEW c \in Callers, Call(c) PROVE Kept
    <3>1. CASE Enqueue(c)
      BY <2>4, <3>1 DEF Enqueue
    <3>2. CASE SetFlag(c)
      BY <2>3, <3>2 DEF SetFlag, Packet, PsuState
    <3>3. CASE Enter(c) \/ Woken(c) \/ Interrupted(c)
      BY <2>2, <3>3 DEF Enter, Woken, Interrupted
    <3> QED BY <2>6, <3>1, <3>2, <3>3 DEF Call
  <2> QED BY <2>1, <2>5, <2>6 DEF Next
<1> QED BY <1>1, QueueInvariance, PTL DEF Spec, PacketStable
=============================================================================
