------------------------ MODULE BcapExchange_answers ------------------------
(***************************************************************************)
(* Whose answer an answer is: while the serial numbers of a client are not *)
(* used up, no two of its tries bear the same one, so that the serial of a *)
(* reply tells the call that it belongs to.  From this: the calls keep the *)
(* promise of RemoteCall (CallFaithful), and what receive_execute takes    *)
(* for a retry is one (RetryMeansSameCall).                                *)
(***************************************************************************)
EXTENDS BcapExchange_proofs

(* How many serial numbers ago s was given out, when t is the next one; the
   numbers given out so far, at most. *)
Age(t, s) == IF s < t THEN t - s ELSE t - s + SerialMax
Tried(c) == TryMax * calls[c] - TryMax + tries[c]

(* One session, whose tries do not use the serial numbers up. *)
ShortSession == SessionMax = 1 /\ TryMax * CallMax <= SerialMax

(* The serial numbers of the latest call are its tries[c] latest ones, the first
   of them in reserv; the numbers of the packets of earlier calls are older. *)
Placed(c, m) ==
    /\ m.serial # 0 /\ Age(serial[c], m.serial) <= Tried(c)
    /\ m.call < calls[c] => Age(serial[c], m.serial) > tries[c]
    /\ m.call = calls[c] =>
          /\ m.op = sent[c].op /\ Age(serial[c], m.serial) <= tries[c]
          /\ link # "TCP" => Age(serial[c], m.reserv) = tries[c]
SerialInv ==
    \A c \in Clients :
        /\ session[c] > 0 /\ calls[c] <= CallMax
        /\ calls[c] > 0 => tries[c] > 0 /\ Age(serial[c], sent[c].serial) = 1
        /\ \A m \in Known(c) : m.call > 0 => Placed(c, m)

(* serial++: the numbers given out age by one, the one just given out is 1. *)
LEMMA AgeNext ==
    ASSUME NEW t \in 1..SerialMax, NEW s \in 1..SerialMax
    PROVE  /\ NextSerial(t) \in 1..SerialMax
           /\ Age(t, s) \in 1..SerialMax
           /\ Age(t, s) < SerialMax => Age(NextSerial(t), s) = Age(t, s) + 1
           /\ Age(NextSerial(t), t) = 1
<1>1. SerialMax \in Nat /\ SerialMax > 0
  BY ExchangeAssumption DEF ExchangeAssumption
<1>2. \A n \in Nat, x \in Nat : x < n => x % n = x
  OBVIOUS
<1>3. \A n \in Nat : n > 0 => n % n = 0
  OBVIOUS
<1>4. CASE t = SerialMax
  <2>1. (t + 1) % (SerialMax + 1) = 0
    BY <1>1, <1>3, <1>4
  <2>2. NextSerial(t) = 1
    BY <2>1 DEF NextSerial
  <2> QED BY <1>1, <1>4, <2>2 DEF Age
<1>5. CASE t # SerialMax
  <2>1. (t + 1) % (SerialMax + 1) = t + 1
    BY <1>1, <1>2, <1>5
  <2>2. NextSerial(t) = t + 1
    BY <2>1 DEF NextSerial
  <2> QED BY <1>1, <1>5, <2>2 DEF Age
<1> QED BY <1>4, <1>5

(* The tries of k calls of at most t tries, and of one more. *)
LEMMA TriesAdd ==
    ASSUME NEW t \in Nat \ {0}, NEW k \in Nat, NEW n \in Nat, NEW x \in 0..t
    PROVE  /\ k < n => /\ t * k - t + x + 1 <= t * (k + 1) - t + 1
                       /\ t * (k + 1) - t + 1 <= t * n
                       /\ 1 <= t * (k + 1) - t + 1
           /\ 0 < k /\ k <= n /\ x < t => /\ t * k - t + (x + 1) = t * k - t + x + 1
                                          /\ t * k - t + (x + 1) <= t * n
                                          /\ x + 1 <= t * n /\ x + 1 <= t * k - t + (x + 1)
<1>1. t * (k + 1) = t * k + t /\ t * k \in Nat /\ t * n \in Nat
  OBVIOUS
<1>2. \A i, j \in Nat : i <= j => t * i <= t * j
  OBVIOUS
<1>3. k < n => t * (k + 1) <= t * n
  BY <1>2
<1>4. k <= n => t * k <= t * n
  BY <1>2
<1>5. 0 < n => t <= t * n
  OBVIOUS
<1>6. ASSUME k < n
      PROVE  /\ t * k - t + x + 1 <= t * (k + 1) - t + 1 /\ t * (k + 1) - t + 1 <= t * n
             /\ 1 <= t * (k + 1) - t + 1
  BY <1>1, <1>3, <1>6
<1>8. 0 < k => t <= t * k
  OBVIOUS
<1>7. ASSUME 0 < k, k <= n, x < t
      PROVE  /\ t * k - t + (x + 1) = t * k - t + x + 1 
             /\ t * k - t + (x + 1) <= t * n /\ x + 1 <= t * n
             /\ x + 1 <= t * k - t + (x + 1)
  BY <1>1, <1>4, <1>5, <1>7, <1>8
<1> QED BY <1>6, <1>7

(* The serial numbers there are, and the retry keys. *)
LEMMA SerialRanges ==
    ASSUME TypeOK, PacketInv, NEW c \in Clients
    PROVE  /\ serial[c] \in 1..SerialMax /\ calls[c] \in Nat /\ tries[c] \in 0..TryMax
           /\ Tried(c) \in Int
           /\ \A m \in Known(c) : /\ m \in Request /\ m.call \in Nat
                                  /\ m.serial # 0 => m.serial \in 1..SerialMax
                                  /\ m.call > 0 /\ link # "TCP" => m.reserv \in 1..SerialMax
<1>1. /\ serial \in [Clients -> Serials] /\ sent \in [Clients -> Request] /\ lastRecv \in Request
      /\ toServer \in [Clients -> Seq(Request)] /\ calls \in [Clients -> Nat]
      /\ tries \in [Clients -> 0..TryMax]
  BY DEF TypeOK, ClientTypeOK, NetTypeOK, ExecTypeOK
<1>2. TryMax \in Nat /\ SerialMax \in Nat
  BY ExchangeAssumption DEF ExchangeAssumption
<1>3. serial[c] \in 1..SerialMax
  BY <1>1, <1>2 DEF PacketInv, Serials
<1>4. Tried(c) \in Int
  BY <1>1, <1>2 DEF Tried
<1>5. ASSUME NEW m \in Known(c)
      PROVE  /\ m \in Request /\ m.call \in Nat
             /\ m.serial # 0 => m.serial \in 1..SerialMax
             /\ m.call > 0 /\ link # "TCP" => m.reserv \in 1..SerialMax
  <2>1. m \in Request
    BY <1>1 DEF Known, Queued
  <2>2. m.serial \in Serials /\ m.reserv \in Serials /\ m.call \in Nat
    BY <2>1 DEF Request
  <2>3. m.call > 0 /\ link # "TCP" => m.reserv # 0
    BY DEF PacketInv, Proper
  <2> QED BY <1>2, <2>1, <2>2, <2>3 DEF Serials
<1> QED BY <1>1, <1>3, <1>4, <1>5

(* The tries a client makes count towards its serial numbers. *)
LEMMA TriesCount ==
    ASSUME TypeOK, PacketInv, SerialInv, ShortSession, NEW c \in Clients, NEW op, NEW h,
           Call(c, op, h) \/ (Timeout(c) /\ tries[c] < Tries)
    PROVE  /\ tries'[c] > 0 /\ tries'[c] <= SerialMax /\ calls'[c] <= CallMax
           /\ Tried(c) + 1 <= Tried(c)' /\ Tried(c)' <= SerialMax /\ Tried(c)' \in Int
           /\ tries'[c] <= Tried(c)'
           /\ \/ calls'[c] = calls[c] + 1 /\ tries'[c] = 1
              \/ calls'[c] = calls[c] /\ tries'[c] = tries[c] + 1 /\ calls[c] > 0
<1>1. /\ calls \in [Clients -> Nat] /\ tries \in [Clients -> 0..TryMax]
      /\ TryMax \in Nat \ {0} /\ SerialMax \in Nat /\ CallMax \in Nat /\ SerialMax > 0
      /\ cpc \in [Clients -> {"idle", "wait"}]
  BY ExchangeAssumption DEF ExchangeAssumption, TypeOK, ClientTypeOK
<1>2. TryMax * CallMax <= SerialMax /\ TryMax * CallMax \in Nat
  BY <1>1 DEF ShortSession
<1> DEFINE k == calls[c]
           x == tries[c]
<1>3. k \in Nat /\ x \in 0..TryMax /\ k <= CallMax
  BY <1>1 DEF SerialInv
<1>4. CASE Call(c, op, h)
  <2>1. calls'[c] = k + 1 /\ tries'[c] = 1 /\ k < CallMax
    BY <1>1, <1>4 DEF Call
  <2>2. Tried(c) = TryMax * k - TryMax + x /\ Tried(c)' = TryMax * (k + 1) - TryMax + 1
    BY <2>1 DEF Tried
  <2>3. TryMax * k \in Nat /\ TryMax * (k + 1) \in Nat
    BY <1>1, <1>3
  <2> HIDE DEF k, x
  <2>4. /\ TryMax * k - TryMax + x + 1 <= TryMax * (k + 1) - TryMax + 1
        /\ TryMax * (k + 1) - TryMax + 1 <= TryMax * CallMax
        /\ 1 <= TryMax * (k + 1) - TryMax + 1
    BY <1>1, <1>3, <2>1, TriesAdd
  <2>5. Tried(c) + 1 <= Tried(c)' /\ Tried(c)' <= SerialMax /\ Tried(c)' \in Int
    BY <1>1, <1>2, <1>3, <2>2, <2>3, <2>4
  <2>6. 1 <= SerialMax /\ k + 1 <= CallMax
    BY <1>1, <1>3, <2>1
  <2> QED BY <2>1, <2>2, <2>4, <2>5, <2>6 DEF k
<1>5. CASE Timeout(c) /\ tries[c] < Tries
  <2>1. calls' = calls /\ tries'[c] = x + 1 /\ x < TryMax /\ cpc[c] = "wait"
    BY <1>1, <1>5 DEF Timeout, Tries
  <2>2. Tried(c) = TryMax * k - TryMax + x /\ Tried(c)' = TryMax * k - TryMax + (x + 1)
    BY <2>1 DEF Tried
  <2>3. 0 < k /\ TryMax * k \in Nat
    BY <1>1, <1>3, <2>1 DEF PacketInv
  <2> HIDE DEF k, x
  <2>4. /\ TryMax * k - TryMax + (x + 1) = TryMax * k - TryMax + x + 1
        /\ TryMax * k - TryMax + (x + 1) <= TryMax * CallMax
        /\ x + 1 <= TryMax * CallMax /\ x + 1 <= TryMax * k - TryMax + (x + 1)
    BY <1>1, <1>3, <2>1, <2>3, TriesAdd
  <2>5. Tried(c) + 1 <= Tried(c)' /\ Tried(c)' <= SerialMax /\ Tried(c)' \in Int
    BY <1>1, <1>2, <1>3, <2>2, <2>3, <2>4
  <2>6. x + 1 > 0 /\ x + 1 <= SerialMax
    BY <1>1, <1>2, <1>3, <2>4
  <2> QED BY <1>3, <2>1, <2>2, <2>3, <2>4, <2>5, <2>6 DEF k, x
<1> QED BY <1>4, <1>5

(* A try takes a serial number that no packet of the client bears. *)
LEMMA TrySerials ==
    ASSUME TypeOK, PacketInv, SerialInv, NEW c \in Clients, NEW m \in Request, Try(c, m),
           UNCHANGED <<link, lastRecv, session>>, m.call = calls'[c], m.call > 0,
           \A d \in Clients : d # c => calls'[d] = calls[d] /\ tries'[d] = tries[d],
           tries'[c] > 0, tries'[c] <= SerialMax, tries'[c] <= Tried(c)', calls'[c] <= CallMax,
           Tried(c) + 1 <= Tried(c)', Tried(c)' <= SerialMax, Tried(c)' \in Int,
           \/ calls'[c] = calls[c] + 1 /\ tries'[c] = 1 /\ (link # "TCP" => m.reserv = serial[c])
           \/ calls'[c] = calls[c] /\ tries'[c] = tries[c] + 1 /\ calls[c] > 0 /\ m = sent[c]
    PROVE  SerialInv'
<1>0. PICK p : p = [m EXCEPT !.serial = serial[c]]
  OBVIOUS
<1>1. /\ sent \in [Clients -> Request] /\ serial \in [Clients -> Serials]
  BY DEF TypeOK, ClientTypeOK
<1>2. /\ p.call = m.call /\ p.reserv = m.reserv /\ p.op = m.op /\ p.serial = serial[c]
      /\ serial' = [serial EXCEPT ![c] = NextSerial(@)] /\ sent' = [sent EXCEPT ![c] = p]
      /\ \A d \in Clients : d # c => Known(d)' = Known(d)
      /\ Known(c)' \subseteq Known(c) \cup {p}
  BY <1>0, TryKnown
<1>3. /\ serial[c] \in 1..SerialMax /\ calls[c] \in Nat /\ tries[c] \in 0..TryMax
      /\ Tried(c) \in Int /\ TryMax \in Nat /\ SerialMax \in Nat
  BY SerialRanges, ExchangeAssumption DEF ExchangeAssumption
<1>4. serial'[c] = NextSerial(serial[c]) /\ sent'[c] = p
  BY <1>1, <1>2
<1>5. Age(serial'[c], serial[c]) = 1
  BY <1>3, <1>4, AgeNext
<1>6. \A s \in 1..SerialMax : Age(serial[c], s) < SerialMax =>
                                  Age(serial'[c], s) = Age(serial[c], s) + 1
  BY <1>3, <1>4, AgeNext
<1>7. \A s \in 1..SerialMax : Age(serial[c], s) \in 1..SerialMax
  BY <1>3, AgeNext
<1>8. Placed(c, p)'
  <2>1. \/ link = "TCP"
        \/ m.reserv \in 1..SerialMax /\ Age(serial'[c], m.reserv) = tries'[c]
    <3>1. CASE calls'[c] = calls[c] + 1 /\ tries'[c] = 1 /\ (link # "TCP" => m.reserv = serial[c])
      BY <1>3, <1>5, <3>1
    <3>2. CASE calls'[c] = calls[c] /\ tries'[c] = tries[c] + 1 /\ calls[c] > 0 /\ m = sent[c]
      <4>1. sent[c] \in Known(c)
        BY DEF Known
      <4>2. link # "TCP" => m.reserv \in 1..SerialMax
        BY <3>2, <4>1, SerialRanges
      <4>3. link # "TCP" => Age(serial[c], m.reserv) = tries[c]
        BY <3>2, <4>1 DEF SerialInv, Placed
      <4>4. tries[c] < SerialMax
        BY <1>3, <3>2
      <4> QED BY <1>6, <3>2, <4>2, <4>3, <4>4
    <3> QED BY <3>1, <3>2
  <2>2. p.op = sent'[c].op /\ p.call = calls'[c] /\ p.serial = serial[c] /\ serial[c] # 0
    BY <1>2, <1>3, <1>4
  <2>3. 1 <= tries'[c] /\ 1 <= Tried(c)'
    <3>1. CASE calls'[c] = calls[c] + 1 /\ tries'[c] = 1
      BY <3>1
    <3>2. CASE tries'[c] = tries[c] + 1
      BY <1>3, <3>2
    <3> QED BY <3>1, <3>2
  <2>4. p.call \in Nat /\ ~(p.call < calls'[c])
    BY <1>2, <2>2 DEF Request
  <2>5. Age(serial'[c], p.serial) = 1 /\ p.reserv = m.reserv
    BY <1>2, <1>5
  <2>6. link' # "TCP" => Age(serial'[c], p.reserv) = tries'[c]
    BY <2>1, <2>5
  <2> QED BY <2>2, <2>3, <2>4, <2>5, <2>6 DEF Placed
<1>9. ASSUME NEW n \in Known(c), n.call > 0 PROVE Placed(c, n)'
  <2>1. n.serial \in 1..SerialMax /\ n.call \in Nat /\ (link # "TCP" => n.reserv \in 1..SerialMax)
    BY <1>9, SerialRanges DEF SerialInv, Placed
  <2>2. Placed(c, n) /\ n.call <= calls[c]
    BY <1>9 DEF SerialInv, PacketInv, Proper
  <2>3. Age(serial[c], n.serial) < SerialMax
    BY <1>3, <1>7, <2>1, <2>2 DEF Placed
  <2>4. /\ Age(serial'[c], n.serial) = Age(serial[c], n.serial) + 1
        /\ Age(serial[c], n.serial) \in 1..SerialMax
    BY <1>6, <1>7, <2>1, <2>3
  <2>5. Age(serial'[c], n.serial) <= Tried(c)'
    BY <1>3, <2>2, <2>4 DEF Placed
  <2>6. CASE calls'[c] = calls[c] + 1 /\ tries'[c] = 1
    <3>1. n.call < calls'[c] /\ Age(serial'[c], n.serial) > tries'[c]
      BY <1>3, <2>1, <2>2, <2>4, <2>6
    <3> QED BY <2>1, <2>5, <3>1 DEF Placed
  <2>7. CASE calls'[c] = calls[c] /\ tries'[c] = tries[c] + 1 /\ calls[c] > 0 /\ m = sent[c]
    <3>1. n.call < calls'[c] => Age(serial'[c], n.serial) > tries'[c]
      BY <1>3, <2>2, <2>4, <2>7 DEF Placed
    <3>2. n.call = calls'[c] => n.op = sent'[c].op /\ Age(serial'[c], n.serial) <= tries'[c]
      BY <1>2, <1>3, <1>4, <2>2, <2>4, <2>7 DEF Placed
    <3>3. n.call = calls'[c] /\ link # "TCP" => Age(serial'[c], n.reserv) = tries'[c]
      BY <1>3, <1>6, <2>1, <2>2, <2>7 DEF Placed
    <3> QED BY <2>1, <2>5, <3>1, <3>2, <3>3 DEF Placed
  <2> QED BY <2>6, <2>7
<1>10. ASSUME NEW d \in Clients, d # c
       PROVE  /\ serial'[d] = serial[d] /\ sent'[d] = sent[d] /\ Tried(d)' = Tried(d)
              /\ calls'[d] = calls[d] /\ tries'[d] = tries[d]
  BY <1>1, <1>2, <1>10 DEF Tried
<1> SUFFICES ASSUME NEW d \in Clients
             PROVE  /\ session'[d] > 0 /\ calls'[d] <= CallMax
                    /\ calls'[d] > 0 => tries'[d] > 0 /\ Age(serial'[d], sent'[d].serial) = 1
                    /\ \A n \in Known(d)' : n.call > 0 => Placed(d, n)'
  BY DEF SerialInv
<1>11. CASE d = c
  BY <1>2, <1>4, <1>5, <1>8, <1>9, <1>11 DEF SerialInv
<1>12. CASE d # c
  <2>1. \A n : Placed(d, n)' <=> Placed(d, n)
    BY <1>10, <1>12 DEF Placed
  <2> QED BY <1>2, <1>10, <1>12, <2>1 DEF SerialInv
<1> QED BY <1>11, <1>12

(* Only the client makes packets. *)
LEMMA ServerMakesNoPackets ==
    ASSUME TypeOK, PacketInv, [Next]_vars, ~\E c \in Peers : ClientStep(c)
    PROVE  UNCHANGED <<link, clientVars>> /\ \A d \in Clients : Known(d)' \subseteq Known(d)
<1>1. CASE \E c \in Peers : Lose(c) \/ Duplicate(c)
  <2>1. PICK c \in Clients : Lose(c) \/ Duplicate(c)
    BY <1>1, PeersAreClients
  <2>2. UNCHANGED <<link, clientVars>>
    BY <2>1 DEF Lose, Duplicate
  <2> QED BY <2>1, <2>2, LinkPackets
<1>2. CASE \E c \in Peers : Arrival(c)
  <2>1. PICK c \in Clients : Arrival(c)
    BY <1>2, PeersAreClients
  <2>2. UNCHANGED <<link, clientVars>>
    BY <2>1 DEF Arrival, RefuseConnection, AnswerRetry, RefuseBusy, RefuseObject, RefuseOption,
                Accept, Incoming
  <2> QED BY <2>1, <2>2, ArrivalPackets
<1>3. CASE UNCHANGED <<link, clientVars, toServer, lastRecv>>
  BY <1>3 DEF clientVars, Known, Queued
<1>4. CASE Signal \/ Complete \/ Executing \/ CheckTimeout
  BY <1>3, <1>4 DEF Signal, Complete, Executing, CheckTimeout, netVars, execVars
<1>5. CASE LeaveLoop \/ TerminateExec \/ ReleaseAll
  BY <1>3, <1>5 DEF LeaveLoop, TerminateExec, ReleaseAll, netVars, execVars
<1>6. CASE ExecStart \/ ExecFinish \/ ExecEnd
  BY <1>3, <1>6 DEF ExecStart, ExecFinish, ExecEnd, netVars
<1>7. CASE UNCHANGED vars
  BY <1>3, <1>7 DEF vars, netVars, serverVars, execVars
<1> QED BY <1>1, <1>2, <1>4, <1>5, <1>6, <1>7 DEF Next

(* A client's call or retry, as one pass of the retry loop. *)
LEMMA ClientTries ==
    ASSUME TypeOK, PacketInv, SerialInv, ShortSession, NEW c \in Peers, NEW op \in AllOps,
           NEW h \in Handles \cup {0}, Call(c, op, h) \/ (Timeout(c) /\ tries[c] < Tries)
    PROVE  \E m \in Request :
              /\ Try(c, m) /\ m.call = calls'[c] /\ m.call > 0
              /\ Call(c, op, h) => m.op = op /\ (link # "TCP" => m.reserv = serial[c])
              /\ Timeout(c) => m = sent[c]
<1>1. /\ sent \in [Clients -> Request] /\ serial \in [Clients -> Serials]
      /\ calls \in [Clients -> Nat] /\ c \in Clients /\ cpc \in [Clients -> {"idle", "wait"}]
  BY PeersAreClients DEF TypeOK, ClientTypeOK
<1>2. CASE Call(c, op, h)
  <2> DEFINE r == [from |-> c, serial |-> 0, op |-> op, h |-> h, call |-> calls[c] + 1,
                   reserv |-> IF link = "TCP" THEN 0 ELSE serial[c]]
  <2>1. r \in Request
    BY <1>1, ExchangeAssumption DEF Request, Serials, ExchangeAssumption
  <2>2. Try(c, r)
    BY <1>2 DEF Call
  <2>3. r.call = calls[c] + 1 /\ r.op = op /\ (link # "TCP" => r.reserv = serial[c])
    OBVIOUS
  <2> HIDE DEF r
  <2>4. calls'[c] = calls[c] + 1 /\ calls[c] + 1 > 0 /\ cpc[c] = "idle"
    BY <1>1, <1>2 DEF Call
  <2> QED BY <2>1, <2>2, <2>3, <2>4 DEF Timeout
<1>3. CASE Timeout(c) /\ tries[c] < Tries
  <2>1. Try(c, sent[c]) /\ calls' = calls /\ cpc[c] = "wait"
    BY <1>3 DEF Timeout
  <2>2. sent[c].call = calls[c] /\ sent[c].call > 0 /\ sent[c] \in Request
    BY <1>1, <2>1 DEF PacketInv
  <2> QED BY <2>1, <2>2 DEF Call
<1> QED BY <1>2, <1>3

LEMMA ClientSerials ==
    ASSUME TypeOK, PacketInv, SerialInv, ShortSession, NEW c \in Peers, ClientStep(c)
    PROVE  SerialInv'
<1>0. link' = link /\ c \in Clients /\ lastRecv' = lastRecv
  BY LinkFixed, PeersAreClients, EnvironmentLeavesThePackets DEF Next, execVars
<1>1. ASSUME UNCHANGED <<serial, sent, tries, calls, session, toServer>> PROVE SerialInv'
  <2>1. \A d \in Clients : Known(d)' = Known(d)
    BY <1>0, <1>1 DEF Known, Queued
  <2> QED BY <1>0, <1>1, <2>1 DEF SerialInv, Placed, Tried
<1>2. /\ calls \in [Clients -> Nat] /\ tries \in [Clients -> 0..TryMax]
  BY DEF TypeOK, ClientTypeOK
<1>3. ASSUME NEW op \in AllOps, NEW h \in Handles \cup {0},
             Call(c, op, h) \/ (Timeout(c) /\ tries[c] < Tries)
      PROVE  SerialInv'
  <2>1. PICK m \in Request :
          /\ Try(c, m) /\ m.call = calls'[c] /\ m.call > 0
          /\ Call(c, op, h) => m.op = op /\ (link # "TCP" => m.reserv = serial[c])
          /\ Timeout(c) => m = sent[c]
    BY <1>3, ClientTries
  <2>2. /\ session' = session
        /\ \A d \in Clients : d # c => calls'[d] = calls[d] /\ tries'[d] = tries[d]
    BY <1>2, <1>3 DEF Call, Timeout
  <2>3. /\ tries'[c] > 0 /\ tries'[c] <= SerialMax /\ calls'[c] <= CallMax
        /\ Tried(c) + 1 <= Tried(c)' /\ Tried(c)' <= SerialMax /\ Tried(c)' \in Int
        /\ tries'[c] <= Tried(c)'
    BY <1>0, <1>3, TriesCount
  <2>4. \/ /\ calls'[c] = calls[c] + 1 /\ tries'[c] = 1
           /\ link # "TCP" => m.reserv = serial[c]
        \/ calls'[c] = calls[c] /\ tries'[c] = tries[c] + 1 /\ calls[c] > 0 /\ m = sent[c]
    <3>1. CASE Call(c, op, h)
      <4>1. calls'[c] = calls[c] + 1 /\ tries'[c] = 1
        BY <1>0, <1>2, <3>1 DEF Call
      <4> QED BY <2>1, <3>1, <4>1
    <3>2. CASE Timeout(c) /\ tries[c] < Tries
      <4>1. calls' = calls /\ tries'[c] = tries[c] + 1
        BY <1>0, <1>2, <3>2 DEF Timeout
      <4> QED BY <2>1, <3>2, <4>1
    <3> QED BY <1>3, <3>1, <3>2
  <2> QED BY <1>0, <2>1, <2>2, <2>3, <2>4, TrySerials
<1>4. CASE CallSome(c)
  <2>1. AskableOps \subseteq AllOps
    BY ExchangeAssumption DEF AskableOps, ExchangeAssumption
  <2>2. PICK op \in AskableOps, h \in Handles \cup {0} : Call(c, op, h)
    BY <1>4 DEF CallSome
  <2> QED BY <1>3, <2>1, <2>2
<1>5. CASE Timeout(c) /\ tries[c] < Tries
  <2>1. "GET" \in AllOps
    BY DEF AllOps
  <2> QED BY <1>3, <1>5, <2>1
<1>6. CASE Timeout(c) /\ ~(tries[c] < Tries)
  BY <1>1, <1>6 DEF Timeout
<1>7. CASE \E i \in DOMAIN toClient[c] : ReceiveReply(c, i)
  BY <1>1, <1>7 DEF ReceiveReply
<1>8. CASE Reopen(c)
  <2>1. session[c] > 0 /\ session[c] < 1 /\ session[c] \in Nat
    BY <1>0, <1>8 DEF Reopen, SerialInv, ShortSession, TypeOK, ClientTypeOK
  <2> QED BY <2>1
<1> QED BY <1>4, <1>5, <1>6, <1>7, <1>8 DEF ClientStep

LEMMA SerialStep ==
    TypeOK /\ PacketInv /\ SerialInv /\ ShortSession /\ [Next]_vars => SerialInv'
<1> SUFFICES ASSUME TypeOK, PacketInv, SerialInv, ShortSession, [Next]_vars PROVE SerialInv'
  OBVIOUS
<1>1. CASE \E c \in Peers : ClientStep(c)
  BY <1>1, ClientSerials
<1>2. CASE ~\E c \in Peers : ClientStep(c)
  <2>1. /\ UNCHANGED <<link, serial, sent, tries, calls, session>>
        /\ \A d \in Clients : Known(d)' \subseteq Known(d)
    BY <1>2, ServerMakesNoPackets DEF clientVars
  <2>2. ASSUME NEW d \in Clients, NEW n PROVE Placed(d, n)' <=> Placed(d, n)
    BY <2>1 DEF Placed, Tried
  <2> QED BY <2>1, <2>2 DEF SerialInv
<1> QED BY <1>1, <1>2

LEMMA SerialInit == Init => SerialInv
<1> SUFFICES ASSUME Init, NEW c \in Clients
             PROVE  /\ session[c] > 0 /\ calls[c] <= CallMax /\ ~(calls[c] > 0)
                    /\ \A m \in Known(c) : ~(m.call > 0)
  BY DEF SerialInv
<1>1. calls[c] = 0 /\ session[c] = 1 /\ Known(c) = {NoRequest}
  BY DEF Init, Known, Queued
<1>2. NoRequest.call = 0
  BY DEF NoRequest
<1> QED BY <1>1, <1>2, ExchangeAssumption DEF ExchangeAssumption

-----------------------------------------------------------------------------
(* A reply under the serial number of a try of the latest call answers this call:
   with what its execution produced, or an error that its request may meet. *)
Answers(c, r) ==
    \/ r.id = "S_EXECUTING"
    \/ [id |-> r.id, call |-> r.call] \in produced[c] \cup CallErrors(sent[c].op)
Genuine(c, r) ==
    r.serial # 0 =>
        /\ Age(serial[c], r.serial) <= Tried(c)
        /\ Age(serial[c], r.serial) <= tries[c] => Answers(c, r)

(* So are the replies under way, those remembered, and the one that is made. *)
ReplyInv ==
    /\ \A c \in Clients : \A i \in DOMAIN toClient[c] : Genuine(c, toClient[c][i])
    /\ \A c \in Clients : Genuine(c, cache[c])
    /\ compEvt => Genuine(Client, lastSend)
    /\ xpc = "run" => lastSend.call = lastRecv.call

LEMMA GenuineKept ==
    ASSUME NEW c \in Clients, NEW r, Genuine(c, r), serial'[c] = serial[c], tries'[c] = tries[c],
           calls'[c] = calls[c], sent'[c].op = sent[c].op, produced[c] \subseteq produced'[c]
    PROVE  Genuine(c, r)'
  BY DEF Genuine, Tried, Answers, CallErrors

(* A new call or a retry leaves the replies what they are. *)
LEMMA ClientGenuine ==
    ASSUME TypeOK, PacketInv, SerialInv, ShortSession, NEW c \in Peers, ClientStep(c),
           NEW d \in Clients, NEW r \in Reply, Genuine(d, r)
    PROVE  Genuine(d, r)'
<1>0. c \in Clients /\ lastRecv' = lastRecv
  BY PeersAreClients, EnvironmentLeavesThePackets DEF execVars
<1>1. /\ calls \in [Clients -> Nat] /\ tries \in [Clients -> 0..TryMax]
      /\ sent \in [Clients -> Request] /\ serial \in [Clients -> Serials]
      /\ produced \in [Clients -> SUBSET [id : FuncIds, call : Nat]]
  BY DEF TypeOK, ClientTypeOK, HistoryTypeOK
<1>2. ASSUME UNCHANGED <<serial, sent, tries, calls, produced>> PROVE Genuine(d, r)'
  BY <1>2, GenuineKept
<1>3. ASSUME NEW op \in AllOps, NEW h \in Handles \cup {0},
             Call(c, op, h) \/ (Timeout(c) /\ tries[c] < Tries)
      PROVE  Genuine(d, r)'
  <2>1. PICK m \in Request :
          /\ Try(c, m) /\ m.call = calls'[c] /\ m.call > 0
          /\ Call(c, op, h) => m.op = op /\ (link # "TCP" => m.reserv = serial[c])
          /\ Timeout(c) => m = sent[c]
    BY <1>3, ClientTries
  <2>2. PICK p : p = [m EXCEPT !.serial = serial[c]]
    OBVIOUS
  <2>3. /\ p.op = m.op
        /\ serial' = [serial EXCEPT ![c] = NextSerial(@)] /\ sent' = [sent EXCEPT ![c] = p]
    BY <1>0, <2>1, <2>2, TryKnown
  <2>4. CASE d # c
    <3>1. serial'[d] = serial[d] /\ sent'[d] = sent[d]
      BY <1>1, <2>3, <2>4
    <3>2. calls'[d] = calls[d] /\ tries'[d] = tries[d] /\ produced'[d] = produced[d]
      BY <1>1, <1>3, <2>4 DEF Call, Timeout, historyVars
    <3> QED BY <3>1, <3>2, GenuineKept
  <2>5. CASE d = c
    <3> SUFFICES ASSUME r.serial # 0
                 PROVE  /\ Age(serial'[c], r.serial) <= Tried(c)'
                        /\ Age(serial'[c], r.serial) <= tries'[c] => Answers(c, r)'
      BY <2>5 DEF Genuine
    <3>1. /\ Tried(c) + 1 <= Tried(c)' /\ Tried(c)' <= SerialMax /\ Tried(c)' \in Int
          /\ \/ tries'[c] = 1 /\ Call(c, op, h)
             \/ tries'[c] = tries[c] + 1 /\ Timeout(c) /\ tries[c] < Tries
      <4>1. /\ Tried(c) + 1 <= Tried(c)' /\ Tried(c)' <= SerialMax /\ Tried(c)' \in Int
        BY <1>0, <1>3, TriesCount
      <4>2. Call(c, op, h) => tries'[c] = 1
        BY <1>0, <1>1 DEF Call
      <4>3. Timeout(c) /\ tries[c] < Tries => tries'[c] = tries[c] + 1
        BY <1>0, <1>1 DEF Timeout
      <4> QED BY <1>3, <4>1, <4>2, <4>3
    <3>2. r.serial \in 1..SerialMax /\ serial[c] \in 1..SerialMax
      BY <1>0, SerialRanges, ExchangeAssumption DEF Reply, Serials, ExchangeAssumption
    <3>3. /\ SerialMax \in Nat /\ tries[c] \in Nat /\ Tried(c) \in Int
          /\ serial'[c] = NextSerial(serial[c])
      BY <1>0, <1>1, <2>3, SerialRanges, ExchangeAssumption DEF ExchangeAssumption
    <3>4. Age(serial[c], r.serial) <= Tried(c) /\ Age(serial[c], r.serial) \in 1..SerialMax
      BY <2>5, <3>2, AgeNext DEF Genuine
    <3>5. Age(serial'[c], r.serial) = Age(serial[c], r.serial) + 1
      <4>1. Age(serial[c], r.serial) < SerialMax
        BY <3>1, <3>3, <3>4
      <4> QED BY <3>2, <3>3, <4>1, AgeNext
    <3>6. Age(serial'[c], r.serial) <= Tried(c)'
      BY <3>1, <3>3, <3>4, <3>5
    <3>7. CASE tries'[c] = 1 /\ Call(c, op, h)
      BY <3>3, <3>4, <3>5, <3>6, <3>7
    <3>8. CASE tries'[c] = tries[c] + 1 /\ Timeout(c) /\ tries[c] < Tries
      <4>1. Age(serial'[c], r.serial) <= tries'[c] => Answers(c, r)
        BY <2>5, <3>3, <3>4, <3>5, <3>8 DEF Genuine
      <4>2. produced' = produced /\ sent'[c].op = sent[c].op
        BY <1>0, <1>1, <2>1, <2>3, <3>8 DEF Timeout, historyVars
      <4>3. Answers(c, r)' <=> Answers(c, r)
        BY <4>2 DEF Answers, CallErrors
      <4> QED BY <3>6, <4>1, <4>3
    <3> QED BY <3>1, <3>7, <3>8
  <2> QED BY <2>4, <2>5
<1>4. CASE CallSome(c)
  <2>1. AskableOps \subseteq AllOps
    BY ExchangeAssumption DEF AskableOps, ExchangeAssumption
  <2>2. PICK op \in AskableOps, h \in Handles \cup {0} : Call(c, op, h)
    BY <1>4 DEF CallSome
  <2> QED BY <1>3, <2>1, <2>2
<1>5. CASE Timeout(c) /\ tries[c] < Tries
  <2>1. "GET" \in AllOps
    BY DEF AllOps
  <2> QED BY <1>3, <1>5, <2>1
<1>6. CASE Timeout(c) /\ ~(tries[c] < Tries)
  BY <1>2, <1>6 DEF Timeout, historyVars
<1>7. CASE \E i \in DOMAIN toClient[c] : ReceiveReply(c, i)
  BY <1>2, <1>7 DEF ReceiveReply, historyVars
<1>8. CASE Reopen(c)
  <2>1. session[c] > 0 /\ session[c] < 1 /\ session[c] \in Nat
    BY <1>0, <1>8 DEF Reopen, SerialInv, ShortSession, TypeOK, ClientTypeOK
  <2> QED BY <2>1
<1> QED BY <1>4, <1>5, <1>6, <1>7, <1>8 DEF ClientStep

(* A reply of the server itself, under the serial of a packet: its error is one
   that the request of the packet may meet. *)
LEMMA StatusGenuine ==
    ASSUME TypeOK, PacketInv, SerialInv, NEW c \in Clients, NEW m \in Known(c), m.call > 0, NEW id,
           \/ id \in {"S_EXECUTING", "E_BUSY_PROC", "E_MAX_CONNECT"}
           \/ id = "E_MAX_OBJECT" /\ m.op \in Creating
           \/ id = "E_INVALIDARG" /\ m.op = "START_BAD"
    PROVE  Genuine(c, Status(m, id))
<1> DEFINE r == Status(m, id)
<1>1. r.serial = m.serial /\ r.id = id /\ r.call = 0
  BY DEF Status
<1>2. Placed(c, m) /\ m.call <= calls[c] /\ m.call \in Nat /\ calls[c] \in Nat
  BY SerialRanges DEF SerialInv, PacketInv, Proper
<1>3. m.serial \in 1..SerialMax /\ tries[c] \in 0..TryMax /\ Age(serial[c], m.serial) \in 1..SerialMax
  <2>1. m.serial \in 1..SerialMax /\ tries[c] \in 0..TryMax /\ serial[c] \in 1..SerialMax
    BY <1>2, SerialRanges DEF Placed
  <2> QED BY <2>1, AgeNext
<1>4. ASSUME Age(serial[c], m.serial) <= tries[c] PROVE Answers(c, r)
  <2>1. m.call = calls[c]
    BY <1>2, <1>3, <1>4 DEF Placed
  <2>2. m.op = sent[c].op
    BY <1>2, <2>1 DEF Placed
  <2>3. id = "S_EXECUTING" \/ [id |-> id, call |-> 0] \in CallErrors(sent[c].op)
    BY <2>2 DEF CallErrors
  <2> QED BY <1>1, <2>3 DEF Answers
<1> HIDE DEF r
<1>5. Genuine(c, r)
  BY <1>1, <1>2, <1>4 DEF Genuine, Placed
<1> QED BY <1>5 DEF r

(* A retry that is recognised is of the call whose reply is remembered. *)
LEMMA RetryGenuine ==
    ASSUME TypeOK, PacketInv, SerialInv, NEW c \in Clients, NEW m \in Known(c), m.call > 0,
           NEW r \in Reply, Genuine(c, r), link # "TCP", r.serial = RetryKey(m)
    PROVE  Genuine(c, [r EXCEPT !.serial = m.serial])
<1> DEFINE s == [r EXCEPT !.serial = m.serial]
<1>1. s.serial = m.serial /\ s.id = r.id /\ s.call = r.call
  BY DEF Reply
<1> HIDE DEF s
<1>2. /\ Placed(c, m) /\ m.call <= calls[c] /\ m.call \in Nat /\ calls[c] \in Nat
      /\ m.reserv \in 1..SerialMax /\ tries[c] \in 0..TryMax /\ serial[c] \in 1..SerialMax
  BY SerialRanges DEF SerialInv, PacketInv, Proper
<1>3. r.serial = m.reserv /\ r.serial # 0
  BY <1>2 DEF RetryKey
<1>4. ASSUME Age(serial[c], m.serial) <= tries[c] PROVE Answers(c, s)
  <2>1. m.serial \in 1..SerialMax
    BY <1>2, SerialRanges DEF Placed
  <2>2. Age(serial[c], m.serial) \in 1..SerialMax
    BY <1>2, <2>1, AgeNext
  <2>3. m.call = calls[c]
    BY <1>2, <1>4, <2>2 DEF Placed
  <2>4. Age(serial[c], r.serial) = tries[c]
    BY <1>2, <1>3, <2>3 DEF Placed
  <2>5. Answers(c, r)
    BY <1>2, <1>3, <2>4 DEF Genuine
  <2> QED BY <1>1, <2>5 DEF Answers
<1>5. Genuine(c, s)
  BY <1>1, <1>2, <1>4 DEF Genuine, Placed
<1> QED BY <1>5 DEF s

(* What recv_thread sends is put behind what is under way. *)
LEMMA ReplyGenuine ==
    ASSUME TypeOK, ReplyInv, NEW c \in Clients, NEW r \in Reply, ReplyTo(c, r), Genuine(c, r)
    PROVE  \A d \in Clients : \A i \in DOMAIN toClient'[d] : Genuine(d, toClient'[d][i])
<1>1. toClient \in [Clients -> Seq(Reply)]
  BY DEF TypeOK, NetTypeOK
<1>2. toClient' = [toClient EXCEPT ![c] = Append(@, r)]
  BY DEF ReplyTo
<1>3. \A i \in DOMAIN Append(toClient[c], r) :
         \/ Append(toClient[c], r)[i] = r
         \/ \E j \in DOMAIN toClient[c] : Append(toClient[c], r)[i] = toClient[c][j]
  BY <1>1, AppendElements
<1> SUFFICES ASSUME NEW d \in Clients, NEW i \in DOMAIN toClient'[d]
             PROVE  Genuine(d, toClient'[d][i])
  OBVIOUS
<1>4. CASE d = c
  BY <1>1, <1>2, <1>3, <1>4 DEF ReplyInv
<1>5. CASE d # c
  BY <1>1, <1>2, <1>5 DEF ReplyInv
<1> QED BY <1>4, <1>5

(* A server step makes no reply worse. *)
LEMMA ServerGenuine ==
    ASSUME TypeOK, PacketInv, [Next]_vars, ~\E c \in Peers : ClientStep(c),
           NEW d \in Clients, NEW r, Genuine(d, r)
    PROVE  Genuine(d, r)'
<1>1. UNCHANGED <<serial, tries, calls, sent>>
  BY ServerMakesNoPackets DEF clientVars
<1>2. produced \in [Clients -> SUBSET [id : FuncIds, call : Nat]]
  BY DEF TypeOK, HistoryTypeOK
<1>3. produced[d] \subseteq produced'[d]
  <2>1. CASE \E c \in Peers : Lose(c) \/ Duplicate(c)
    BY <2>1 DEF Lose, Duplicate, historyVars
  <2>2. CASE \E c \in Peers : Arrival(c)
    <3>1. PICK c \in Peers : Arrival(c)
      BY <2>2
    <3>2. PICK i \in DOMAIN toServer[c] :
             \/ RefuseConnection(c, i) \/ AnswerRetry(c, i) \/ RefuseBusy(c, i)
             \/ RefuseObject(c, i) \/ RefuseOption(c, i) \/ Accept(c, i)
      BY <3>1 DEF Arrival
    <3>3. Incoming(c, i)
      BY <3>2 DEF RefuseConnection, AnswerRetry, RefuseBusy, RefuseObject, RefuseOption, Accept
    <3> QED BY <3>3 DEF Incoming
  <2>3. CASE Signal \/ Complete \/ Executing \/ CheckTimeout
    BY <2>3 DEF Signal, Complete, Executing, CheckTimeout
  <2>4. CASE LeaveLoop \/ TerminateExec \/ ReleaseAll
    BY <2>4 DEF LeaveLoop, TerminateExec, ReleaseAll, historyVars
  <2>5. CASE ExecStart \/ ExecEnd
    BY <2>5 DEF ExecStart, ExecEnd, historyVars
  <2>6. CASE ExecFinish
    <3>1. PICK e : produced' = IF IsLatestCall
                               THEN [produced EXCEPT ![Client] = @ \cup {[id |-> e.id, call |-> lastRecv.call]}]
                               ELSE produced
      BY <2>6 DEF ExecFinish
    <3> QED BY <1>2, <3>1
  <2>7. CASE UNCHANGED vars
    BY <2>7 DEF vars, historyVars
  <2> QED BY <2>1, <2>2, <2>3, <2>4, <2>5, <2>6, <2>7 DEF Next
<1> QED BY <1>1, <1>3, GenuineKept

(* A packet arrives: the replies under way, and those remembered. *)
LEMMA ArrivalReplies ==
    ASSUME TypeOK, PacketInv, ExecInv, PatientInv, OrderInv, SerialInv, ReplyInv,
           "COM" \notin Links \cap WdtLinks, NEW c \in Peers, Arrival(c)
    PROVE  /\ \A d \in Clients : \A i \in DOMAIN toClient'[d] : Genuine(d, toClient'[d][i])
           /\ \A d \in Clients : Genuine(d, cache'[d])
           /\ compEvt' => UNCHANGED <<lastRecv, lastSend, compEvt>>
           /\ xpc' = "run" => UNCHANGED <<lastRecv, lastSend, xpc>>
<1>0. c \in Clients /\ link' = link
  BY PeersAreClients, LinkFixed DEF Next
<1>1. PICK i \in DOMAIN toServer[c] :
         \/ RefuseConnection(c, i) \/ AnswerRetry(c, i) \/ RefuseBusy(c, i)
         \/ RefuseObject(c, i) \/ RefuseOption(c, i) \/ Accept(c, i)
  BY DEF Arrival
<1>2. PICK m \in Known(c) : /\ m = toServer[c][i] /\ m.call > 0 /\ m.from = c /\ m \in Request
  <2>1. toServer \in [Clients -> Seq(Request)]
    BY DEF TypeOK, NetTypeOK
  <2>2. toServer[c][i] \in Queued(c) /\ toServer[c][i] \in Request
    BY <1>0, <2>1 DEF Queued
  <2> QED BY <1>0, <2>2 DEF PacketInv, Known
<1>3. spc = "recv"
  BY <1>1 DEF RefuseConnection, AnswerRetry, RefuseBusy, RefuseObject, RefuseOption, Accept, Incoming
<1>4. compEvt' => UNCHANGED <<lastRecv, lastSend, compEvt>>
  BY <1>1, RefusalsLeaveThePackets DEF Accept, ResetComp, execVars
<1>5. xpc' = "run" => UNCHANGED <<lastRecv, lastSend, xpc>>
  BY <1>1, RefusalsLeaveThePackets DEF Accept, ExecInv, HandOver, Free, execVars
<1>6. \A d \in Clients : Genuine(d, cache'[d])
  <2>1. CASE UNCHANGED nodeVars
    BY <2>1 DEF nodeVars, ReplyInv
  <2>2. ASSUME NEW n, NEW w, Admit(c, n, w) PROVE \A d \in Clients : Genuine(d, cache'[d])
    <3>1. \A d \in Clients : cache'[d] = cache[d] \/ cache'[d] = Fresh
      BY <2>2 DEF Admit, Memory
    <3>2. Fresh.serial = 0
      BY DEF Fresh
    <3>3. \A d \in Clients : Genuine(d, Fresh)
      BY <3>2 DEF Genuine
    <3> QED BY <3>1, <3>3 DEF ReplyInv
  <2> QED BY <1>0, <1>1, <2>1, <2>2, ArrivalAdmits
<1>7. ASSUME NEW id \in {"E_BUSY_PROC", "E_MAX_CONNECT", "E_MAX_OBJECT", "E_INVALIDARG"},
             ReplyTo(c, Status(m, id)), Genuine(c, Status(m, id))
      PROVE  \A d \in Clients : \A k \in DOMAIN toClient'[d] : Genuine(d, toClient'[d][k])
  <2>1. Status(m, id) \in Reply
    BY <1>2, StatusType DEF ErrorIds
  <2> QED BY <1>0, <1>7, <2>1, ReplyGenuine
<1>8. CASE RefuseConnection(c, i)
  <2>1. ReplyTo(c, Status(m, "E_MAX_CONNECT"))
    BY <1>2, <1>8 DEF RefuseConnection
  <2>2. Genuine(c, Status(m, "E_MAX_CONNECT"))
    BY <1>0, <1>2, StatusGenuine
  <2> QED BY <1>4, <1>5, <1>6, <1>7, <2>1, <2>2
<1>9. CASE RefuseBusy(c, i)
  <2>1. ReplyTo(c, Status(m, "E_BUSY_PROC"))
    BY <1>2, <1>9 DEF RefuseBusy
  <2>2. Genuine(c, Status(m, "E_BUSY_PROC"))
    BY <1>0, <1>2, StatusGenuine
  <2> QED BY <1>4, <1>5, <1>6, <1>7, <2>1, <2>2
<1>10. CASE RefuseObject(c, i)
  <2>1. ReplyTo(c, Status(m, "E_MAX_OBJECT")) /\ m.op \in Creating
    BY <1>2, <1>10 DEF RefuseObject, Full
  <2>2. Genuine(c, Status(m, "E_MAX_OBJECT"))
    BY <1>0, <1>2, <2>1, StatusGenuine
  <2> QED BY <1>4, <1>5, <1>6, <1>7, <2>1, <2>2
<1>11. CASE RefuseOption(c, i)
  <2>1. ReplyTo(c, Status(m, "E_INVALIDARG")) /\ m.op = "START_BAD"
    BY <1>2, <1>11 DEF RefuseOption
  <2>2. Genuine(c, Status(m, "E_INVALIDARG"))
    BY <1>0, <1>2, <2>1, StatusGenuine
  <2> QED BY <1>4, <1>5, <1>6, <1>7, <2>1, <2>2
<1>12. CASE Accept(c, i)
  <2>1. toClient' = toClient
    BY <1>12 DEF Accept
  <2> QED BY <1>4, <1>5, <1>6, <2>1 DEF ReplyInv
<1>13. CASE AnswerRetry(c, i)
  <2> DEFINE r == LastReply(c)
  <2>1. /\ ReplyTo(c, [r EXCEPT !.serial = m.serial])
        /\ link # "TCP" /\ r.serial = RetryKey(m)
    BY <1>2, <1>13 DEF AnswerRetry, IsRetry
  <2>2. r \in Reply /\ Genuine(c, r)
    <3>1. CASE link = "UDP"
      <4>1. r = cache[c] \/ r = Fresh
        BY <3>1 DEF LastReply
      <4>2. Fresh.serial = 0
        BY DEF Fresh
      <4>3. Genuine(c, Fresh)
        BY <4>2 DEF Genuine
      <4> QED BY <1>0, <4>1, <4>3, FreshType DEF ReplyInv, TypeOK, NodeTypeOK
    <3>2. CASE link # "UDP"
      <4>1. link = "COM"
        BY <2>1, <3>2, ExchangeAssumption DEF TypeOK, ExchangeAssumption
      <4>2. compEvt
        BY <1>3, <4>1 DEF PatientInv, TypeOK
      <4>3. Client = c
        BY <4>1 DEF OrderInv, Client, Peers
      <4>4. r = lastSend
        BY <3>2 DEF LastReply
      <4> QED BY <4>2, <4>3, <4>4 DEF ReplyInv, TypeOK, ExecTypeOK
    <3> QED BY <3>1, <3>2
  <2>3. m.serial \in Serials
    BY <1>2 DEF Request
  <2> HIDE DEF r
  <2>4. [r EXCEPT !.serial = m.serial] \in Reply
    BY <2>2, <2>3 DEF Reply
  <2>5. Genuine(c, [r EXCEPT !.serial = m.serial])
    BY <1>0, <1>2, <2>1, <2>2, RetryGenuine
  <2>6. \A d \in Clients : \A k \in DOMAIN toClient'[d] : Genuine(d, toClient'[d][k])
    BY <1>0, <2>1, <2>4, <2>5, ReplyGenuine
  <2> QED BY <1>4, <1>5, <1>6, <2>6
<1> QED BY <1>1, <1>8, <1>9, <1>10, <1>11, <1>12, <1>13

(* The function has returned: the reply is of the call it was executed for. *)
LEMMA FinishReplies ==
    ASSUME TypeOK, PacketInv, ExecInv, SerialInv, ReplyInv, ExecFinish
    PROVE  Genuine(Client, lastSend)'
<1>1. /\ xpc = "run" /\ ~compEvt /\ lastSend.serial = lastRecv.serial
      /\ lastSend.call = lastRecv.call /\ lastRecv.call > 0
  BY DEF ExecFinish, ExecInv, HandOver, ReplyInv
<1>2. /\ Client \in Clients /\ lastSend \in Reply /\ lastRecv \in Known(Client)
      /\ produced \in [Clients -> SUBSET [id : FuncIds, call : Nat]]
  BY DEF TypeOK, ExecTypeOK, HistoryTypeOK, Client, Request, Known
<1>3. PICK c \in Clients : c = Client
  BY <1>2
<1>4. UNCHANGED <<serial, tries, calls, sent, lastRecv>> /\ Client' = c
  BY <1>3 DEF ExecFinish, clientVars, Client
<1>5. PICK e : /\ lastSend' = [lastSend EXCEPT !.id = e.id, !.h = e.h]
               /\ IF IsLatestCall
                  THEN produced' = [produced EXCEPT ![Client] =
                                      @ \cup {[id |-> e.id, call |-> lastRecv.call]}]
                  ELSE UNCHANGED produced
  BY DEF ExecFinish
<1>6. lastSend'.serial = lastRecv.serial /\ lastSend'.id = e.id /\ lastSend'.call = lastRecv.call
  BY <1>1, <1>2, <1>5 DEF Reply
<1>7. Placed(c, lastRecv) /\ lastRecv.call <= calls[c] /\ lastRecv.call \in Nat /\ calls[c] \in Nat
      /\ lastRecv.serial \in 1..SerialMax /\ tries[c] \in Nat /\ serial[c] \in 1..SerialMax
  BY <1>1, <1>2, <1>3, SerialRanges DEF SerialInv, PacketInv, Proper, Placed
<1>8. Age(serial[c], lastRecv.serial) \in 1..SerialMax
  BY <1>7, AgeNext
<1>9. ASSUME Age(serial[c], lastRecv.serial) <= tries[c]
      PROVE  [id |-> e.id, call |-> lastRecv.call] \in produced'[c]
  <2>1. lastRecv.call = calls[c]
    BY <1>7, <1>8, <1>9 DEF Placed
  <2>2. IsLatestCall
    BY <1>3, <2>1 DEF IsLatestCall
  <2> QED BY <1>2, <1>3, <1>5, <2>2
<1>10. Genuine(c, lastSend)'
  <2>1. Tried(c)' = Tried(c)
    BY <1>4 DEF Tried
  <2>2. Age(serial[c], lastRecv.serial) <= tries[c] => Answers(c, lastSend)'
    BY <1>6, <1>9 DEF Answers
  <2> QED BY <1>4, <1>6, <1>7, <2>1, <2>2 DEF Genuine, Placed
<1> QED BY <1>3, <1>4, <1>10

(* A client takes replies off its queue; a new call or a retry leaves the others
   what they are. *)
LEMMA ClientReplies ==
    ASSUME TypeOK, PacketInv, SerialInv, ReplyInv, ShortSession, NEW c \in Peers, ClientStep(c)
    PROVE  ReplyInv'
<1>1. /\ toClient \in [Clients -> Seq(Reply)] /\ cache \in [Clients -> Reply]
      /\ lastSend \in Reply /\ Client \in Clients /\ c \in Clients
  BY PeersAreClients DEF TypeOK, NetTypeOK, NodeTypeOK, ExecTypeOK, Client, Request
<1>2. UNCHANGED <<cache, lastSend, lastRecv, compEvt, xpc>>
  <2>1. UNCHANGED serverVars
    BY DEF ClientStep, CallSome, Call, Timeout, ReceiveReply, Reopen
  <2> QED BY <2>1 DEF serverVars, nodeVars, execVars
<1>3. \A d \in Clients : \A i \in DOMAIN toClient'[d] :
         \E j \in DOMAIN toClient[d] : toClient'[d][i] = toClient[d][j]
  <2>1. CASE UNCHANGED toClient
    BY <2>1
  <2>2. CASE \E i \in DOMAIN toClient[c] : ReceiveReply(c, i)
    <3>1. PICK i \in DOMAIN toClient[c] : toClient' = [toClient EXCEPT ![c] = RemoveAt(@, i)]
      BY <2>2 DEF ReceiveReply
    <3>2. \A k \in DOMAIN RemoveAt(toClient[c], i) :
             \E j \in DOMAIN toClient[c] : RemoveAt(toClient[c], i)[k] = toClient[c][j]
      BY <1>1, RemoveAtElements
    <3> SUFFICES ASSUME NEW d \in Clients, NEW k \in DOMAIN toClient'[d]
                 PROVE  \E j \in DOMAIN toClient[d] : toClient'[d][k] = toClient[d][j]
      OBVIOUS
    <3>3. CASE d = c
      BY <1>1, <3>1, <3>2, <3>3
    <3>4. CASE d # c
      BY <1>1, <3>1, <3>4
    <3> QED BY <3>3, <3>4
  <2>3. CASE CallSome(c) \/ Timeout(c) \/ Reopen(c)
    BY <2>1, <2>3 DEF CallSome, Call, Timeout, Reopen, netVars
  <2> QED BY <2>2, <2>3 DEF ClientStep
<1>4. ASSUME NEW d \in Clients, NEW i \in DOMAIN toClient'[d] PROVE Genuine(d, toClient[d][i])'
  <2>1. PICK j \in DOMAIN toClient[d] : toClient'[d][i] = toClient[d][j]
    BY <1>3
  <2>2. PICK r \in Reply : r = toClient[d][j]
    BY <1>1
  <2>3. Genuine(d, r)'
    BY <2>2, ClientGenuine DEF ReplyInv
  <2> QED BY <2>1, <2>2, <2>3
<1>5. ASSUME NEW d \in Clients PROVE Genuine(d, cache[d])'
  <2>1. PICK r \in Reply : r = cache[d]
    BY <1>1
  <2>2. Genuine(d, r)'
    BY <2>1, ClientGenuine DEF ReplyInv
  <2> QED BY <1>2, <2>1, <2>2
<1>6. ASSUME compEvt PROVE Genuine(Client, lastSend)'
  <2>1. PICK r \in Reply, d \in Clients : r = lastSend /\ d = Client
    BY <1>1
  <2>2. Genuine(d, r)'
    BY <1>6, <2>1, ClientGenuine DEF ReplyInv
  <2>3. Client' = d /\ lastSend' = r
    BY <1>2, <2>1 DEF Client
  <2> QED BY <2>2, <2>3
<1> QED BY <1>2, <1>4, <1>5, <1>6 DEF ReplyInv

(* What a step of the server or of the link puts on a queue, remembers or makes. *)
LEMMA ServerReplies ==
    ASSUME TypeOK, PacketInv, ExecInv, PatientInv, OrderInv, SerialInv, ReplyInv,
           "COM" \notin Links \cap WdtLinks, [Next]_vars, ~\E c \in Peers : ClientStep(c)
    PROVE  /\ \A d \in Clients : \A i \in DOMAIN toClient'[d] : Genuine(d, toClient'[d][i])
           /\ \A d \in Clients : Genuine(d, cache'[d])
           /\ compEvt' => UNCHANGED <<lastRecv, lastSend, compEvt>> \/ Genuine(Client, lastSend)'
           /\ xpc' = "run" => lastSend'.call = lastRecv'.call
<1>1. /\ toClient \in [Clients -> Seq(Reply)] /\ cache \in [Clients -> Reply]
      /\ lastSend \in Reply /\ lastRecv \in Request /\ Client \in Clients
      /\ lastRecv \in Known(Client)
  BY DEF TypeOK, NetTypeOK, NodeTypeOK, ExecTypeOK, Client, Request, Known
<1>2. \A d \in Clients : Genuine(d, Fresh)
  BY DEF Genuine, Fresh
<1>3. CASE UNCHANGED <<toClient, cache, lastRecv, lastSend, compEvt, xpc>>
  BY <1>3 DEF ReplyInv
<1>4. CASE \E c \in Peers : Lose(c) \/ Duplicate(c)
  <2>1. PICK c \in Clients : Lose(c) \/ Duplicate(c)
    BY <1>4, PeersAreClients
  <2>2. UNCHANGED <<cache, lastRecv, lastSend, compEvt, xpc>>
    BY <2>1 DEF Lose, Duplicate, serverVars, nodeVars, execVars
  <2>3. \/ UNCHANGED toClient
        \/ \E i \in DOMAIN toClient[c] :
              \/ toClient' = [toClient EXCEPT ![c] = RemoveAt(@, i)]
              \/ toClient' = [toClient EXCEPT ![c] = Append(@, @[i])]
    BY <2>1 DEF Lose, Duplicate
  <2>4. ASSUME NEW i \in DOMAIN toClient[c], NEW q,
               q = RemoveAt(toClient[c], i) \/ q = Append(toClient[c], toClient[c][i])
        PROVE  \A k \in DOMAIN q : \E j \in DOMAIN toClient[c] : q[k] = toClient[c][j]
    <3>1. toClient[c] \in Seq(Reply) /\ toClient[c][i] \in Reply
      BY <1>1
    <3>2. /\ \A k \in DOMAIN RemoveAt(toClient[c], i) :
                \E j \in DOMAIN toClient[c] : RemoveAt(toClient[c], i)[k] = toClient[c][j]
          /\ \A k \in DOMAIN Append(toClient[c], toClient[c][i]) :
                \/ Append(toClient[c], toClient[c][i])[k] = toClient[c][i]
                \/ \E j \in DOMAIN toClient[c] :
                      Append(toClient[c], toClient[c][i])[k] = toClient[c][j]
      BY <3>1, RemoveAtElements, AppendElements
    <3> QED BY <2>4, <3>2
  <2>5. ASSUME NEW d \in Clients, NEW k \in DOMAIN toClient'[d]
        PROVE  Genuine(d, toClient'[d][k])
    <3>1. CASE UNCHANGED toClient
      BY <3>1 DEF ReplyInv
    <3>2. CASE d # c
      <4>1. toClient'[d] = toClient[d]
        BY <1>1, <2>3, <3>2
      <4> QED BY <4>1 DEF ReplyInv
    <3>3. CASE d = c /\ ~UNCHANGED toClient
      <4>1. PICK i \in DOMAIN toClient[c] :
               \/ toClient'[c] = RemoveAt(toClient[c], i)
               \/ toClient'[c] = Append(toClient[c], toClient[c][i])
        BY <1>1, <2>3, <3>3
      <4>2. \E j \in DOMAIN toClient[c] : toClient'[c][k] = toClient[c][j]
        BY <2>4, <3>3, <4>1
      <4> QED BY <3>3, <4>2 DEF ReplyInv
    <3> QED BY <3>1, <3>2, <3>3
  <2> QED BY <2>2, <2>5 DEF ReplyInv
<1>5. CASE \E c \in Peers : Arrival(c)
  <2>1. PICK c \in Peers : Arrival(c)
    BY <1>5
  <2>2. /\ \A d \in Clients : \A i \in DOMAIN toClient'[d] : Genuine(d, toClient'[d][i])
        /\ \A d \in Clients : Genuine(d, cache'[d])
        /\ compEvt' => UNCHANGED <<lastRecv, lastSend, compEvt>>
        /\ xpc' = "run" => UNCHANGED <<lastRecv, lastSend, xpc>>
    BY <2>1, ArrivalReplies
  <2> QED BY <2>2 DEF ReplyInv
<1>6. CASE Signal \/ CheckTimeout \/ LeaveLoop \/ TerminateExec
  BY <1>3, <1>6 DEF Signal, CheckTimeout, LeaveLoop, TerminateExec, netVars, nodeVars, execVars
<1>7. CASE Executing
  <2>1. UNCHANGED <<cache, lastRecv, lastSend, compEvt, xpc>> /\ lastRecv.call > 0
    BY <1>7 DEF Executing, nodeVars, execVars, ExecInv, Waits
  <2>2. CASE UNCHANGED toClient
    BY <1>3, <2>1, <2>2
  <2>3. CASE ReplyTo(Client, Status(lastRecv, "S_EXECUTING"))
    <3>1. Genuine(Client, Status(lastRecv, "S_EXECUTING"))
      BY <1>1, <2>1, StatusGenuine
    <3>2. Status(lastRecv, "S_EXECUTING") \in Reply
      BY <1>1, StatusType
    <3>3. \A d \in Clients : \A i \in DOMAIN toClient'[d] : Genuine(d, toClient'[d][i])
      BY <1>1, <2>3, <3>1, <3>2, ReplyGenuine
    <3> QED BY <2>1, <3>3 DEF ReplyInv
  <2> QED BY <1>7, <2>2, <2>3 DEF Executing
<1>8. CASE Complete
  <2>1. compEvt /\ UNCHANGED <<lastRecv, lastSend, compEvt, xpc>> /\ Genuine(Client, lastSend)
    BY <1>8 DEF Complete, execVars, ReplyInv
  <2>2. ASSUME NEW d \in Clients
        PROVE  cache'[d] \in {cache[d], Fresh} \/ (d = Client /\ cache'[d] = lastSend)
    BY <1>1, <1>8 DEF Complete
  <2>3. \A d \in Clients : Genuine(d, cache'[d])
    BY <1>2, <2>1, <2>2 DEF ReplyInv
  <2>4. ReplyTo(Client, lastSend) \/ UNCHANGED toClient
    BY <1>8 DEF Complete
  <2>5. \A d \in Clients : \A i \in DOMAIN toClient'[d] : Genuine(d, toClient'[d][i])
    BY <1>1, <2>1, <2>4, ReplyGenuine DEF ReplyInv
  <2> QED BY <2>1, <2>3, <2>5 DEF ReplyInv
<1>9. CASE ReleaseAll
  <2>1. UNCHANGED <<toClient, lastRecv, lastSend, compEvt, xpc>>
        /\ \A d \in Clients : cache'[d] = Fresh
    BY <1>9 DEF ReleaseAll, netVars, execVars
  <2> QED BY <1>2, <2>1 DEF ReplyInv
<1>10. CASE ExecStart
  <2>1. UNCHANGED <<toClient, cache, lastRecv, compEvt>> /\ lastSend'.call = lastRecv.call /\ execEvt
    BY <1>10 DEF ExecStart, netVars, nodeVars
  <2>2. ~compEvt
    BY <2>1 DEF ExecInv, HandOver
  <2> QED BY <2>1, <2>2 DEF ReplyInv
<1>11. CASE ExecFinish
  <2>1. UNCHANGED <<toClient, cache>> /\ xpc' = "wait"
    BY <1>11 DEF ExecFinish, netVars, nodeVars
  <2> QED BY <1>11, <2>1, FinishReplies DEF ReplyInv
<1>12. CASE ExecEnd
  <2>1. UNCHANGED <<toClient, cache, lastRecv, lastSend, compEvt>> /\ xpc' = "ended"
    BY <1>12 DEF ExecEnd, netVars, nodeVars
  <2> QED BY <2>1 DEF ReplyInv
<1>13. CASE UNCHANGED vars
  BY <1>3, <1>13 DEF vars, netVars, serverVars, nodeVars, execVars
<1> QED BY <1>4, <1>5, <1>6, <1>7, <1>8, <1>9, <1>10, <1>11, <1>12, <1>13 DEF Next

LEMMA ReplyStep ==
    ASSUME ShortSession, "COM" \notin Links \cap WdtLinks
    PROVE  /\ TypeOK /\ PacketInv /\ ExecInv /\ PatientInv /\ OrderInv /\ SerialInv /\ ReplyInv
           /\ [Next]_vars
           => ReplyInv'
<1> SUFFICES ASSUME TypeOK, PacketInv, ExecInv, PatientInv, OrderInv, SerialInv, ReplyInv, [Next]_vars
             PROVE  ReplyInv'
  OBVIOUS
<1>1. CASE \E c \in Peers : ClientStep(c)
  BY <1>1, ClientReplies
<1>2. CASE ~\E c \in Peers : ClientStep(c)
  <2>1. /\ \A d \in Clients : \A i \in DOMAIN toClient'[d] : Genuine(d, toClient'[d][i])
        /\ \A d \in Clients : Genuine(d, cache'[d])
        /\ compEvt' => UNCHANGED <<lastRecv, lastSend, compEvt>> \/ Genuine(Client, lastSend)'
        /\ xpc' = "run" => lastSend'.call = lastRecv'.call
    BY <1>2, ServerReplies
  <2>2. ASSUME NEW d \in Clients, NEW i \in DOMAIN toClient'[d] PROVE Genuine(d, toClient[d][i])'
    <3>1. PICK r : r = toClient'[d][i]
      OBVIOUS
    <3>2. Genuine(d, r)'
      BY <1>2, <2>1, <3>1, ServerGenuine
    <3> QED BY <3>1, <3>2
  <2>3. ASSUME NEW d \in Clients PROVE Genuine(d, cache[d])'
    <3>1. PICK r : r = cache'[d]
      OBVIOUS
    <3>2. Genuine(d, r)'
      BY <1>2, <2>1, <3>1, ServerGenuine
    <3> QED BY <3>1, <3>2
  <2>4. ASSUME compEvt', UNCHANGED <<lastRecv, lastSend, compEvt>> PROVE Genuine(Client, lastSend)'
    <3>1. Client \in Clients
      BY DEF TypeOK, ExecTypeOK, Client, Request
    <3>2. PICK r \in {lastSend}, d \in {Client} : TRUE
      OBVIOUS
    <3>3. Genuine(d, r)'
      BY <1>2, <2>4, <3>1, <3>2, ServerGenuine DEF ReplyInv
    <3>4. Client' = d /\ lastSend' = r
      BY <2>4, <3>2 DEF Client
    <3> QED BY <3>3, <3>4
  <2> QED BY <2>1, <2>2, <2>3, <2>4 DEF ReplyInv
<1> QED BY <1>1, <1>2

LEMMA ReplyInit == Init => ReplyInv
<1> SUFFICES ASSUME Init PROVE ReplyInv
  OBVIOUS
<1>1. \A c \in Clients : toClient[c] = <<>> /\ cache[c] = Fresh
  BY Zenon DEF Init
<1>2. \A c : Genuine(c, Fresh)
  BY DEF Genuine, Fresh
<1>3. lastSend = Fresh /\ xpc = "wait"
  BY DEF Init
<1> QED BY <1>1, <1>2, <1>3 DEF ReplyInv

LEMMA Answered ==
    ASSUME ShortSession, "COM" \notin Links \cap WdtLinks
    PROVE  Spec => [](/\ TypeOK /\ PacketInv /\ ExecInv /\ PatientInv /\ OrderInv
                      /\ SerialInv /\ ReplyInv)
<1>1. /\ TypeOK /\ PacketInv /\ ExecInv /\ PatientInv /\ OrderInv /\ SerialInv /\ ReplyInv
      /\ [Next]_vars
      => SerialInv' /\ ReplyInv'
  BY SerialStep, ReplyStep
<1> QED BY <1>1, SerialInit, ReplyInit, Executions, Remembered, PTL DEF Spec

-----------------------------------------------------------------------------
(* The calls of the clients, as RemoteCall sees them. *)

(* A client's step begins a call, or returns an answer that is its own. *)
LEMMA ClientPromise ==
    ASSUME TypeOK, PacketInv, OrderInv, SerialInv, ReplyInv, NEW c \in Peers, ClientStep(c)
    PROVE  [Promise!Next]_(Promise!callVars)
<1>0. c \in Clients
  BY PeersAreClients
<1>1. /\ cpc \in [Clients -> {"idle", "wait"}] /\ sent \in [Clients -> Request]
      /\ toClient \in [Clients -> Seq(Reply)]
      /\ ret \in [Clients -> [id : FuncIds \cup ErrorIds, call : Nat]]
      /\ produced \in [Clients -> SUBSET [id : FuncIds, call : Nat]]
  BY DEF TypeOK, ClientTypeOK, NetTypeOK, HistoryTypeOK
<1>2. \A o, id : id \in {"E_SEND", "E_TIMEOUT"} => [id |-> id, call |-> 0] \in CallErrors(o)
  BY DEF CallErrors
<1>3. ASSUME NEW m \in Request, Try(c, m)
      PROVE  /\ sent' = [sent EXCEPT ![c] = [m EXCEPT !.serial = serial[c]]]
             /\ [m EXCEPT !.serial = serial[c]].op = m.op
             /\ \/ cpc' = [cpc EXCEPT ![c] = "wait"] /\ ret' = ret
                \/ /\ cpc' = [cpc EXCEPT ![c] = "idle"]
                   /\ ret' = [ret EXCEPT ![c] = [id |-> "E_SEND", call |-> 0]]
  BY <1>3 DEF Try, Answer, Request
<1>4. CASE CallSome(c)
  <2>1. PICK op \in AllOps, h \in Handles \cup {0} : Call(c, op, h)
    BY <1>4, ExchangeAssumption DEF CallSome, AskableOps, ExchangeAssumption
  <2> DEFINE m == [from |-> c, serial |-> 0, op |-> op, h |-> h, call |-> calls[c] + 1,
                   reserv |-> IF link = "TCP" THEN 0 ELSE serial[c]]
  <2>2. m \in Request /\ m.op = op /\ Try(c, m)
    BY <1>0, <2>1, ExchangeAssumption
       DEF Call, Request, Serials, TypeOK, ClientTypeOK, ExchangeAssumption
  <2>3. cpc[c] = "idle" /\ produced' = [produced EXCEPT ![c] = {}]
    BY <2>1 DEF Call
  <2> HIDE DEF m
  <2>4. \A d \in Clients : sent'[d].op = IF d = c THEN op ELSE sent[d].op
    BY <1>1, <1>3, <2>2
  <2>5. CASE cpc' = [cpc EXCEPT ![c] = "wait"] /\ ret' = ret
    <3>1. Promise!Begin(c)
      BY <1>0, <1>1, <2>3, <2>4, <2>5 DEF Promise!Begin
    <3> QED BY <1>0, <3>1 DEF Promise!Next
  <2>6. CASE /\ cpc' = [cpc EXCEPT ![c] = "idle"]
             /\ ret' = [ret EXCEPT ![c] = [id |-> "E_SEND", call |-> 0]]
    <3>1. Promise!BeginAndFail(c)
      BY <1>0, <1>1, <1>2, <2>3, <2>4, <2>6 DEF Promise!BeginAndFail
    <3> QED BY <1>0, <3>1 DEF Promise!Next
  <2> QED BY <1>3, <2>2, <2>5, <2>6
<1>5. CASE Timeout(c)
  <2>1. cpc[c] = "wait" /\ produced' = produced
    BY <1>5 DEF Timeout, historyVars
  <2>2. CASE tries[c] < Tries
    <3>1. Try(c, sent[c]) /\ sent[c] \in Request
      BY <1>0, <1>1, <1>5, <2>2 DEF Timeout
    <3>2. \A d \in Clients : sent'[d].op = sent[d].op
      BY <1>1, <1>3, <3>1
    <3>3. CASE cpc' = [cpc EXCEPT ![c] = "wait"] /\ ret' = ret
      BY <1>1, <2>1, <3>2, <3>3 DEF Promise!callVars
    <3>4. CASE /\ cpc' = [cpc EXCEPT ![c] = "idle"]
               /\ ret' = [ret EXCEPT ![c] = [id |-> "E_SEND", call |-> 0]]
      <4>1. Promise!Return(c)
        BY <1>0, <1>1, <1>2, <2>1, <3>2, <3>4 DEF Promise!Return
      <4> QED BY <1>0, <4>1 DEF Promise!Next
    <3> QED BY <1>3, <3>1, <3>3, <3>4
  <2>3. CASE ~(tries[c] < Tries)
    <3>1. /\ cpc' = [cpc EXCEPT ![c] = "idle"] /\ sent' = sent
          /\ ret' = [ret EXCEPT ![c] = [id |-> "E_TIMEOUT", call |-> 0]]
      BY <1>5, <2>3 DEF Timeout, Answer
    <3>2. Promise!Return(c)
      BY <1>0, <1>1, <1>2, <2>1, <3>1 DEF Promise!Return
    <3> QED BY <1>0, <3>2 DEF Promise!Next
  <2> QED BY <2>2, <2>3
<1>6. CASE \E i \in DOMAIN toClient[c] : ReceiveReply(c, i)
  <2>1. PICK i \in DOMAIN toClient[c] : ReceiveReply(c, i)
    BY <1>6
  <2>2. PICK r \in Reply : r = toClient[c][i]
    BY <1>0, <1>1
  <2>3. cpc[c] = "wait" /\ sent' = sent /\ produced' = produced
    BY <2>1 DEF ReceiveReply, historyVars
  <2>4. CASE Accepts(c, r)
    <3>1. /\ cpc' = [cpc EXCEPT ![c] = "idle"]
          /\ ret' = [ret EXCEPT ![c] = [id |-> r.id, call |-> r.call]]
      BY <2>1, <2>2, <2>4 DEF ReceiveReply, Answer
    <3>2. /\ sent[c].call = calls[c] /\ sent[c].call > 0 /\ sent[c] \in Known(c)
          /\ r.serial = sent[c].serial /\ r.id # "S_EXECUTING"
      BY <1>0, <2>3, <2>4 DEF PacketInv, Known, Accepts
    <3>3. r.serial # 0 /\ Age(serial[c], r.serial) = 1 /\ tries[c] > 0 /\ tries[c] \in Int
      BY <1>0, <3>2 DEF SerialInv, Placed, TypeOK, ClientTypeOK
    <3>4. Genuine(c, r)
      BY <1>0, <2>2 DEF ReplyInv
    <3>5. Age(serial[c], r.serial) <= tries[c]
      BY <3>3
    <3>6. [id |-> r.id, call |-> r.call] \in produced[c] \cup CallErrors(sent[c].op)
      BY <3>2, <3>3, <3>4, <3>5 DEF Genuine, Answers
    <3>7. Promise!Return(c)
      BY <1>0, <1>1, <2>3, <3>1, <3>6 DEF Promise!Return
    <3> QED BY <1>0, <3>7 DEF Promise!Next
  <2>5. CASE ~Accepts(c, r)
    BY <2>1, <2>2, <2>3, <2>5 DEF ReceiveReply, Promise!callVars
  <2> QED BY <2>4, <2>5
<1>7. CASE Reopen(c)
  BY <1>7 DEF Reopen, historyVars, Promise!callVars
<1> QED BY <1>4, <1>5, <1>6, <1>7 DEF ClientStep

(* A step of the server produces an outcome for the latest call, or is not seen. *)
LEMMA ServerPromise ==
    ASSUME TypeOK, PacketInv, ExecInv, SerialInv, [Next]_vars, ~\E c \in Peers : ClientStep(c)
    PROVE  [Promise!Next]_(Promise!callVars)
<1>1. UNCHANGED <<cpc, sent, ret>>
  BY ServerMakesNoPackets DEF clientVars
<1>2. CASE UNCHANGED produced
  BY <1>1, <1>2 DEF Promise!callVars
<1>3. CASE \E c \in Peers : Lose(c) \/ Duplicate(c)
  BY <1>2, <1>3 DEF Lose, Duplicate, historyVars
<1>4. CASE \E c \in Peers : Arrival(c)
  <2>1. PICK c \in Peers : Arrival(c)
    BY <1>4
  <2>2. PICK i \in DOMAIN toServer[c] :
           \/ RefuseConnection(c, i) \/ AnswerRetry(c, i) \/ RefuseBusy(c, i)
           \/ RefuseObject(c, i) \/ RefuseOption(c, i) \/ Accept(c, i)
    BY <2>1 DEF Arrival
  <2>3. Incoming(c, i)
    BY <2>2 DEF RefuseConnection, AnswerRetry, RefuseBusy, RefuseObject, RefuseOption, Accept
  <2> QED BY <1>2, <2>3 DEF Incoming
<1>5. CASE Signal \/ Complete \/ Executing \/ CheckTimeout
  BY <1>2, <1>5 DEF Signal, Complete, Executing, CheckTimeout
<1>6. CASE LeaveLoop \/ TerminateExec \/ ReleaseAll
  BY <1>2, <1>6 DEF LeaveLoop, TerminateExec, ReleaseAll, historyVars
<1>7. CASE ExecStart \/ ExecEnd
  BY <1>2, <1>7 DEF ExecStart, ExecEnd, historyVars
<1>8. CASE ExecFinish
  <2>1. Client \in Clients /\ lastRecv \in Known(Client) /\ lastRecv \in Request
    BY DEF TypeOK, ExecTypeOK, Client, Request, Known
  <2>2. ~compEvt /\ lastRecv.call > 0
    BY <1>8 DEF ExecFinish, ExecInv, HandOver
  <2>3. lastRecv.call \in 1..CallMax
    <3>1. /\ lastRecv.call <= calls[Client] /\ calls[Client] <= CallMax
          /\ calls[Client] \in Nat /\ lastRecv.call \in Nat
      BY <2>1 DEF SerialInv, PacketInv, Proper, TypeOK, ClientTypeOK, Request
    <3> QED BY <2>2, <3>1, ExchangeAssumption DEF ExchangeAssumption
  <2>4. PICK e \in Effects(lastRecv.op, lastRecv.h) :
           IF IsLatestCall
           THEN produced' = [produced EXCEPT ![Client] =
                               @ \cup {[id |-> e.id, call |-> lastRecv.call]}]
           ELSE UNCHANGED produced
    BY <1>8 DEF ExecFinish
  <2>5. e.id \in FuncIds
    BY EffectCases DEF FuncIds
  <2>6. CASE IsLatestCall
    <3>1. [id |-> e.id, call |-> lastRecv.call] \in [id : FuncIds, call : 1..CallMax]
      BY <2>3, <2>5
    <3>2. Promise!Produce(Client)
      BY <1>1, <2>4, <2>6, <3>1 DEF Promise!Produce
    <3> QED BY <2>1, <3>2 DEF Promise!Next
  <2> QED BY <1>2, <2>4, <2>6
<1>9. CASE UNCHANGED vars
  BY <1>2, <1>9 DEF vars, historyVars
<1> QED BY <1>3, <1>4, <1>5, <1>6, <1>7, <1>8, <1>9 DEF Next

(* send_receive and receive_execute keep the promise of RemoteCall: every
   answer of a function that a call returns was produced for this very call,
   whatever was lost, duplicated, reordered, answered from last_send or given
   up.  It holds of a session whose tries do not use up the serial numbers:
   beyond, a number is given out twice; and it needs that no client of a serial
   line asks for the WDT option, as RetriesAreResponded does. *)
THEOREM CallsAreFaithful ==
    ASSUME ShortSession, "COM" \notin Links \cap WdtLinks
    PROVE  Spec => CallFaithful
<1>1. Init => Promise!Init
  <2> SUFFICES ASSUME Init PROVE Promise!Init
    OBVIOUS
  <2>1. /\ cpc = [c \in Clients |-> "idle"] /\ sent = [c \in Clients |-> NoRequest]
        /\ produced = [c \in Clients |-> {}]
        /\ ret = [c \in Clients |-> [id |-> "E_TIMEOUT", call |-> 0]]
    BY DEF Init
  <2>2. NoRequest.op \in AllOps /\ [id |-> "E_TIMEOUT", call |-> 0] \in CallErrors(NoRequest.op)
    BY DEF NoRequest, AllOps, CallErrors
  <2> QED BY <2>1, <2>2 DEF Promise!Init
<1>2. /\ TypeOK /\ PacketInv /\ ExecInv /\ PatientInv /\ OrderInv /\ SerialInv /\ ReplyInv
      /\ [Next]_vars
      => [Promise!Next]_(Promise!callVars)
  BY ClientPromise, ServerPromise
<1> QED BY <1>1, <1>2, Answered, PTL DEF Spec, CallFaithful, Promise!Spec

-----------------------------------------------------------------------------
(* The tries of a client in the order of its calls: the serial numbers of a call
   were all given out before the first one of a later call, in reserv. *)
PairInv ==
    link # "TCP" =>
      \A c \in Clients : \A m, n \in Known(c) : m.call > 0 =>
        /\ Age(serial[c], m.serial) <= Age(serial[c], m.reserv)
        /\ Age(serial[c], m.reserv) <= Tried(c)
        /\ m.call < n.call => Age(serial[c], m.serial) > Age(serial[c], n.reserv)

(* A reply that is compared with packets has its place in this order. *)
Behind(c, r) ==
    r.serial # 0 =>
        /\ r.call <= calls[c] /\ Age(serial[c], r.serial) <= Tried(c)
        /\ \A m \in Known(c) : m.call > 0 =>
              /\ r.call < m.call => Age(serial[c], r.serial) > Age(serial[c], m.reserv)
              /\ r.call > m.call => Age(serial[c], r.serial) < Age(serial[c], m.serial)
RecallInv ==
    link # "TCP" =>
        /\ \A c \in Clients : Behind(c, cache[c])
        /\ compEvt => Behind(Client, lastSend)

(* A client's step makes no packet, or is one pass of the retry loop. *)
LEMMA ClientCases ==
    ASSUME TypeOK, SerialInv, ShortSession, NEW c \in Peers, ClientStep(c)
    PROVE  \/ UNCHANGED <<serial, sent, tries, calls, toServer>>
           \/ \E op \in AllOps, h \in Handles \cup {0} :
                 Call(c, op, h) \/ (Timeout(c) /\ tries[c] < Tries)
<1>1. CASE CallSome(c)
  BY <1>1, ExchangeAssumption DEF CallSome, AskableOps, ExchangeAssumption
<1>2. CASE Timeout(c)
  <2>1. "GET" \in AllOps
    BY DEF AllOps
  <2> QED BY <1>2, <2>1 DEF Timeout
<1>3. CASE \E i \in DOMAIN toClient[c] : ReceiveReply(c, i)
  BY <1>3 DEF ReceiveReply
<1>4. CASE Reopen(c)
  <2>1. session[c] > 0 /\ session[c] < 1 /\ session[c] \in Nat
    BY <1>4, PeersAreClients DEF Reopen, SerialInv, ShortSession, TypeOK, ClientTypeOK
  <2> QED BY <2>1
<1> QED BY <1>1, <1>2, <1>3, <1>4 DEF ClientStep

(* A try ages the serial numbers that were given out. *)
LEMMA TryAges ==
    ASSUME TypeOK, PacketInv, SerialInv, ShortSession, NEW c \in Peers, NEW op \in AllOps,
           NEW h \in Handles \cup {0}, Call(c, op, h) \/ (Timeout(c) /\ tries[c] < Tries),
           NEW s \in 1..SerialMax, Age(serial[c], s) <= Tried(c)
    PROVE  /\ Age(serial[c], s) \in 1..SerialMax
           /\ Age(serial'[c], s) = Age(serial[c], s) + 1
           /\ Age(serial'[c], s) <= Tried(c)'
<1>0. c \in Clients /\ serial \in [Clients -> Serials]
  BY PeersAreClients DEF TypeOK, ClientTypeOK
<1>1. PICK m \in Request : Try(c, m)
  BY ClientTries
<1>2. serial'[c] = NextSerial(serial[c])
  BY <1>0, <1>1 DEF Try
<1>3. Tried(c) + 1 <= Tried(c)' /\ Tried(c)' <= SerialMax /\ Tried(c)' \in Int
  BY <1>0, TriesCount
<1>4. serial[c] \in 1..SerialMax /\ Tried(c) \in Int /\ SerialMax \in Nat
  BY <1>0, SerialRanges, ExchangeAssumption DEF ExchangeAssumption
<1>5. Age(serial[c], s) \in 1..SerialMax
  BY <1>4, AgeNext
<1>6. Age(serial[c], s) < SerialMax
  BY <1>3, <1>4, <1>5
<1>7. Age(serial'[c], s) = Age(serial[c], s) + 1
  BY <1>2, <1>4, <1>6, AgeNext
<1> QED BY <1>3, <1>4, <1>5, <1>7

(* The packets that a client knows after a try: those it knew, and one of the
   latest call, under the serial number just given out. *)
LEMMA TryNewest ==
    ASSUME TypeOK, TypeOK', PacketInv, PacketInv', SerialInv, SerialInv', ShortSession, link # "TCP",
           NEW c \in Peers, NEW op \in AllOps, NEW h \in Handles \cup {0},
           Call(c, op, h) \/ (Timeout(c) /\ tries[c] < Tries)
    PROVE  \E p \in Request :
              /\ Known(c)' \subseteq Known(c) \cup {p} /\ p \in Known(c)'
              /\ \A d \in Clients : d # c => Known(d)' = Known(d) /\ Tried(d)' = Tried(d)
                                             /\ serial'[d] = serial[d] /\ calls'[d] = calls[d]
              /\ p.call = calls'[c] /\ p.call > 0
              /\ Age(serial'[c], p.serial) = 1 /\ Age(serial'[c], p.reserv) = tries'[c]
              /\ tries'[c] \in Nat /\ tries'[c] > 0 /\ tries'[c] <= Tried(c)'
<1>0. /\ c \in Clients /\ serial \in [Clients -> Serials] /\ sent \in [Clients -> Request]
      /\ sent' \in [Clients -> Request]
      /\ calls \in [Clients -> Nat] /\ tries \in [Clients -> 0..TryMax]
      /\ tries' \in [Clients -> 0..TryMax] /\ TryMax \in Nat
  BY PeersAreClients, ExchangeAssumption DEF TypeOK, ClientTypeOK, ExchangeAssumption
<1>1. PICK m \in Request : Try(c, m) /\ m.call = calls'[c] /\ m.call > 0
  BY ClientTries
<1>2. PICK p : p = [m EXCEPT !.serial = serial[c]]
  OBVIOUS
<1>3. link' = link /\ lastRecv' = lastRecv
  BY DEF Call, Timeout, serverVars, execVars
<1>4. /\ p.call = m.call
      /\ serial' = [serial EXCEPT ![c] = NextSerial(@)] /\ sent' = [sent EXCEPT ![c] = p]
      /\ \A d \in Clients : d # c => Known(d)' = Known(d)
      /\ Known(c)' \subseteq Known(c) \cup {p}
  BY <1>0, <1>1, <1>2, <1>3, TryKnown
<1>5. sent'[c] = p /\ p \in Request
  BY <1>0, <1>4
<1>6. p \in Known(c)'
  BY <1>5 DEF Known
<1>7. Age(serial'[c], p.serial) = 1
  BY <1>0, <1>1, <1>4, <1>5 DEF SerialInv
<1>8. Placed(c, p)'
  BY <1>0, <1>1, <1>4, <1>6 DEF SerialInv
<1>9. Age(serial'[c], p.reserv) = tries'[c]
  BY <1>1, <1>3, <1>4, <1>8 DEF Placed
<1>10. tries'[c] > 0 /\ tries'[c] <= Tried(c)'
  BY <1>0, TriesCount
<1>11. ASSUME NEW d \in Clients, d # c
       PROVE  Tried(d)' = Tried(d) /\ serial'[d] = serial[d] /\ calls'[d] = calls[d]
  <2>1. calls'[d] = calls[d] /\ tries'[d] = tries[d]
    BY <1>0, <1>11 DEF Call, Timeout
  <2> QED BY <1>0, <1>4, <1>11, <2>1 DEF Tried
<1> QED BY <1>0, <1>1, <1>4, <1>5, <1>6, <1>7, <1>9, <1>10, <1>11

(* Numbers of packets, for the prover. *)
LEMMA PairRanges ==
    ASSUME TypeOK, PacketInv, SerialInv, link # "TCP", NEW c \in Clients, NEW m \in Known(c), m.call > 0
    PROVE  /\ m.serial \in 1..SerialMax /\ m.reserv \in 1..SerialMax
           /\ Age(serial[c], m.serial) \in 1..SerialMax /\ Age(serial[c], m.reserv) \in 1..SerialMax
           /\ m.call \in Nat /\ m.call <= calls[c]
<1>1. m.serial # 0 /\ m.call <= calls[c]
  BY DEF SerialInv, Placed, PacketInv, Proper
<1>2. m.serial \in 1..SerialMax /\ m.reserv \in 1..SerialMax /\ m.call \in Nat /\ serial[c] \in 1..SerialMax
  BY <1>1, SerialRanges
<1> QED BY <1>1, <1>2, AgeNext

LEMMA TryPairs ==
    ASSUME TypeOK, TypeOK', PacketInv, PacketInv', SerialInv, SerialInv', ShortSession, PairInv,
           NEW c \in Peers, NEW op \in AllOps, NEW h \in Handles \cup {0},
           Call(c, op, h) \/ (Timeout(c) /\ tries[c] < Tries)
    PROVE  PairInv'
<1>0. c \in Clients /\ link' = link
  BY PeersAreClients DEF Call, Timeout
<1> SUFFICES ASSUME link # "TCP", NEW d \in Clients, NEW m \in Known(d)', NEW n \in Known(d)', m.call > 0
             PROVE  /\ Age(serial'[d], m.serial) <= Age(serial'[d], m.reserv)
                    /\ Age(serial'[d], m.reserv) <= Tried(d)'
                    /\ m.call < n.call => Age(serial'[d], m.serial) > Age(serial'[d], n.reserv)
  BY <1>0 DEF PairInv
<1>1. PICK p \in Request :
        /\ Known(c)' \subseteq Known(c) \cup {p} /\ p \in Known(c)'
        /\ \A e \in Clients : e # c => Known(e)' = Known(e) /\ Tried(e)' = Tried(e)
                                       /\ serial'[e] = serial[e] /\ calls'[e] = calls[e]
        /\ p.call = calls'[c] /\ p.call > 0
        /\ Age(serial'[c], p.serial) = 1 /\ Age(serial'[c], p.reserv) = tries'[c]
        /\ tries'[c] \in Nat /\ tries'[c] > 0 /\ tries'[c] <= Tried(c)'
  BY TryNewest
<1>2. CASE d # c
  <2>1. m \in Known(d) /\ n \in Known(d)
    BY <1>1, <1>2
  <2> QED BY <1>1, <1>2, <2>1 DEF PairInv
<1>3. CASE d = c
  <2>1. ASSUME NEW k \in Known(c), k.call > 0
        PROVE  /\ Age(serial'[c], k.serial) = Age(serial[c], k.serial) + 1
               /\ Age(serial'[c], k.reserv) = Age(serial[c], k.reserv) + 1
               /\ Age(serial'[c], k.reserv) <= Tried(c)'
               /\ Age(serial[c], k.serial) \in Int /\ Age(serial[c], k.reserv) \in Int
               /\ Age(serial[c], k.serial) <= Age(serial[c], k.reserv)
    <3>1. /\ k.serial \in 1..SerialMax /\ k.reserv \in 1..SerialMax
          /\ Age(serial[c], k.serial) <= Tried(c)
      BY <1>0, <2>1, PairRanges DEF SerialInv, Placed
    <3>2. Age(serial[c], k.reserv) <= Tried(c) /\ Age(serial[c], k.serial) <= Age(serial[c], k.reserv)
      BY <1>0, <2>1 DEF PairInv
    <3> QED BY <3>1, <3>2, TryAges
  <2>2. m.call \in Nat /\ n.call \in Nat /\ n.call <= calls'[c] /\ calls'[c] \in Nat
    <3>1. \A k \in Known(c) : k.call \in Nat
      BY <1>0, SerialRanges
    <3>2. p.call \in Nat
      BY DEF Request
    <3>3. m.call \in Nat /\ n.call \in Nat
      BY <1>1, <1>3, <3>1, <3>2
    <3>4. n.call <= calls'[c]
      BY <1>0, <1>3 DEF PacketInv, Proper
    <3>5. calls'[c] \in Nat
      BY <1>0 DEF TypeOK, ClientTypeOK
    <3> QED BY <3>3, <3>4, <3>5
  <2>3. CASE m = p
    <3>1. ~(m.call < n.call)
      BY <1>1, <2>2, <2>3
    <3> QED BY <1>1, <1>3, <2>3, <3>1
  <2>4. CASE m # p /\ n = p
    <3>1. m \in Known(c)
      BY <1>1, <1>3, <2>4
    <3>2. m.call < n.call => Age(serial'[c], m.serial) > tries'[c]
      BY <1>0, <1>1, <1>3, <2>4 DEF SerialInv, Placed
    <3> QED BY <1>1, <1>3, <2>1, <2>4, <3>1, <3>2
  <2>5. CASE m # p /\ n # p
    <3>1. m \in Known(c) /\ n \in Known(c)
      BY <1>1, <1>3, <2>5
    <3>2. m.call < n.call => n.call > 0 /\ Age(serial[c], m.serial) > Age(serial[c], n.reserv)
      BY <1>0, <2>2, <3>1 DEF PairInv
    <3> QED BY <1>3, <2>1, <3>1, <3>2
  <2> QED BY <2>3, <2>4, <2>5
<1> QED BY <1>2, <1>3

LEMMA TryBehind ==
    ASSUME TypeOK, TypeOK', PacketInv, PacketInv', SerialInv, SerialInv', ShortSession, PairInv,
           NEW c \in Peers, NEW op \in AllOps, NEW h \in Handles \cup {0}, link # "TCP",
           Call(c, op, h) \/ (Timeout(c) /\ tries[c] < Tries),
           NEW d \in Clients, NEW r \in Reply, Behind(d, r)
    PROVE  Behind(d, r)'
<1>0. /\ c \in Clients /\ calls \in [Clients -> Nat] /\ calls' \in [Clients -> Nat]
      /\ tries \in [Clients -> 0..TryMax] /\ sent \in [Clients -> Request] /\ TryMax \in Nat
      /\ sent' \in [Clients -> Request] /\ r.call \in Nat /\ r.serial \in Serials
      /\ SerialMax \in Nat
  BY PeersAreClients, ExchangeAssumption DEF TypeOK, ClientTypeOK, ExchangeAssumption, Reply
<1>1. PICK p \in Request :
        /\ Known(c)' \subseteq Known(c) \cup {p} /\ p \in Known(c)'
        /\ \A e \in Clients : e # c => Known(e)' = Known(e) /\ Tried(e)' = Tried(e)
                                       /\ serial'[e] = serial[e] /\ calls'[e] = calls[e]
        /\ p.call = calls'[c] /\ p.call > 0
        /\ Age(serial'[c], p.serial) = 1 /\ Age(serial'[c], p.reserv) = tries'[c]
        /\ tries'[c] \in Nat /\ tries'[c] > 0 /\ tries'[c] <= Tried(c)'
  BY TryNewest
<1> SUFFICES ASSUME r.serial # 0
             PROVE  /\ r.call <= calls'[d] /\ Age(serial'[d], r.serial) <= Tried(d)'
                    /\ \A m \in Known(d)' : m.call > 0 =>
                          /\ r.call < m.call => Age(serial'[d], r.serial) > Age(serial'[d], m.reserv)
                          /\ r.call > m.call => Age(serial'[d], r.serial) < Age(serial'[d], m.serial)
  BY DEF Behind
<1>2. CASE d # c
  BY <1>1, <1>2 DEF Behind
<1>3. CASE d = c
  <2>1. r.call <= calls[c] /\ Age(serial[c], r.serial) <= Tried(c)
    BY <1>3 DEF Behind
  <2>2. /\ Age(serial'[c], r.serial) = Age(serial[c], r.serial) + 1
        /\ Age(serial'[c], r.serial) <= Tried(c)' /\ Age(serial[c], r.serial) \in 1..SerialMax
    <3>1. r.serial \in 1..SerialMax
      BY <1>0 DEF Serials
    <3> QED BY <2>1, <3>1, TryAges
  <2>3. \/ calls'[c] = calls[c] + 1 /\ tries'[c] = 1
        \/ calls'[c] = calls[c] /\ tries'[c] = tries[c] + 1 /\ calls[c] > 0
    BY <1>0, TriesCount
  <2>4. r.call <= calls'[c]
    BY <1>0, <2>1, <2>3
  <2>5. ASSUME NEW m \in Known(c), m.call > 0
        PROVE  /\ r.call < m.call => Age(serial'[c], r.serial) > Age(serial'[c], m.reserv)
               /\ r.call > m.call => Age(serial'[c], r.serial) < Age(serial'[c], m.serial)
    <3>1. /\ m.serial \in 1..SerialMax /\ m.reserv \in 1..SerialMax
          /\ Age(serial[c], m.serial) \in Int /\ Age(serial[c], m.reserv) \in Int
      BY <1>0, <2>5, PairRanges
    <3>2. Age(serial[c], m.serial) <= Tried(c) /\ Age(serial[c], m.reserv) <= Tried(c)
      BY <1>0, <2>5 DEF PairInv, SerialInv, Placed
    <3>3. /\ Age(serial'[c], m.serial) = Age(serial[c], m.serial) + 1
          /\ Age(serial'[c], m.reserv) = Age(serial[c], m.reserv) + 1
      BY <3>1, <3>2, TryAges
    <3>4. /\ r.call < m.call => Age(serial[c], r.serial) > Age(serial[c], m.reserv)
          /\ r.call > m.call => Age(serial[c], r.serial) < Age(serial[c], m.serial)
      BY <1>3, <2>5 DEF Behind
    <3> QED BY <2>2, <3>1, <3>3, <3>4
  <2>6. r.call < p.call => Age(serial'[c], r.serial) > Age(serial'[c], p.reserv)
    <3>1. CASE calls'[c] = calls[c] + 1 /\ tries'[c] = 1
      BY <1>1, <2>2, <3>1
    <3>2. CASE calls'[c] = calls[c] /\ tries'[c] = tries[c] + 1 /\ calls[c] > 0
      <4>1. sent[c] \in Known(c) /\ sent[c].call = calls[c]
        BY <1>0 DEF Known, PacketInv
      <4>2. Age(serial[c], sent[c].reserv) = tries[c]
        BY <1>0, <3>2, <4>1 DEF SerialInv, Placed
      <4>3. r.call < calls[c] => Age(serial[c], r.serial) > tries[c]
        BY <1>3, <3>2, <4>1, <4>2 DEF Behind
      <4> QED BY <1>0, <1>1, <2>2, <3>2, <4>3
    <3> QED BY <2>3, <3>1, <3>2
  <2>7. ~(r.call > p.call)
    BY <1>0, <1>1, <2>4
  <2> QED BY <1>1, <1>3, <2>2, <2>4, <2>5, <2>6, <2>7
<1> QED BY <1>2, <1>3

LEMMA PairStep ==
    ASSUME ShortSession
    PROVE  /\ TypeOK /\ TypeOK' /\ PacketInv /\ PacketInv' /\ SerialInv /\ SerialInv' /\ PairInv
           /\ [Next]_vars
           => PairInv'
<1> SUFFICES ASSUME TypeOK, TypeOK', PacketInv, PacketInv', SerialInv, SerialInv', PairInv, [Next]_vars
             PROVE  PairInv'
  OBVIOUS
<1>0. link' = link
  BY LinkFixed
<1>1. ASSUME UNCHANGED <<serial, tries, calls>>, \A d \in Clients : Known(d)' \subseteq Known(d)
      PROVE  PairInv'
  BY <1>0, <1>1 DEF PairInv, Tried
<1>2. CASE \E c \in Peers : ClientStep(c)
  <2>1. PICK c \in Peers : ClientStep(c)
    BY <1>2
  <2>2. CASE UNCHANGED <<serial, sent, tries, calls, toServer>>
    <3>1. UNCHANGED lastRecv
      BY <2>1, EnvironmentLeavesThePackets DEF execVars
    <3> QED BY <1>1, <2>2, <3>1 DEF Known, Queued
  <2> QED BY <2>1, <2>2, ClientCases, TryPairs
<1>3. CASE ~\E c \in Peers : ClientStep(c)
  BY <1>1, <1>3, ServerMakesNoPackets DEF clientVars
<1> QED BY <1>2, <1>3

(* A step that makes no packet leaves a reply its place. *)
LEMMA BehindKept ==
    ASSUME UNCHANGED <<serial, tries, calls>>, NEW c \in Clients, NEW r, Behind(c, r),
           Known(c)' \subseteq Known(c)
    PROVE  Behind(c, r)'
  BY DEF Behind, Tried

LEMMA BehindStep ==
    ASSUME TypeOK, TypeOK', PacketInv, PacketInv', SerialInv, SerialInv', ShortSession, PairInv,
           [Next]_vars, link # "TCP", NEW d \in Clients, NEW r \in Reply, Behind(d, r)
    PROVE  Behind(d, r)'
<1>1. CASE \E c \in Peers : ClientStep(c)
  <2>1. PICK c \in Peers : ClientStep(c)
    BY <1>1
  <2>2. CASE UNCHANGED <<serial, sent, tries, calls, toServer>>
    <3>1. UNCHANGED lastRecv
      BY <2>1, EnvironmentLeavesThePackets DEF execVars
    <3>2. Known(d)' \subseteq Known(d)
      BY <2>2, <3>1 DEF Known, Queued
    <3> QED BY <2>2, <3>2, BehindKept
  <2> QED BY <2>1, <2>2, ClientCases, TryBehind
<1>2. CASE ~\E c \in Peers : ClientStep(c)
  BY <1>2, ServerMakesNoPackets, BehindKept DEF clientVars
<1> QED BY <1>1, <1>2

(* The function has returned: its reply has the place of the packet executed. *)
LEMMA FinishBehind ==
    ASSUME TypeOK, PacketInv, ExecInv, SerialInv, PairInv, ReplyInv, ExecFinish, link # "TCP"
    PROVE  Behind(Client, lastSend)'
<1>1. /\ xpc = "run" /\ ~compEvt /\ lastSend.serial = lastRecv.serial
      /\ lastSend.call = lastRecv.call /\ lastRecv.call > 0
  BY DEF ExecFinish, ExecInv, HandOver, ReplyInv
<1>2. /\ Client \in Clients /\ lastSend \in Reply /\ lastRecv \in Known(Client)
  BY DEF TypeOK, ExecTypeOK, Client, Request, Known
<1>3. PICK c \in {Client}, q \in {lastRecv} : TRUE
  OBVIOUS
<1>4. UNCHANGED <<serial, tries, calls>> /\ Known(c)' = Known(c) /\ Client' = c
  BY <1>3 DEF ExecFinish, clientVars, netVars, Client, Known, Queued
<1>5. lastSend'.serial = q.serial /\ lastSend'.call = q.call
  <2>1. PICK e : lastSend' = [lastSend EXCEPT !.id = e.id, !.h = e.h]
    BY DEF ExecFinish
  <2> QED BY <1>1, <1>2, <1>3, <2>1 DEF Reply
<1>6. /\ q.call \in Nat /\ q.call <= calls[c] /\ Age(serial[c], q.serial) <= Tried(c)
      /\ Age(serial[c], q.serial) \in Int /\ Age(serial[c], q.reserv) \in Int
  <2>1. Placed(c, q)
    BY <1>1, <1>2, <1>3 DEF SerialInv
  <2> QED BY <1>1, <1>2, <1>3, <2>1, PairRanges DEF Placed
<1>7. ASSUME NEW m \in Known(c), m.call > 0
      PROVE  /\ q.call < m.call => Age(serial[c], q.serial) > Age(serial[c], m.reserv)
             /\ q.call > m.call => Age(serial[c], q.serial) < Age(serial[c], m.serial)
  <2>1. /\ q.call < m.call => Age(serial[c], q.serial) > Age(serial[c], m.reserv)
        /\ m.call < q.call => Age(serial[c], m.serial) > Age(serial[c], q.reserv)
        /\ Age(serial[c], q.serial) <= Age(serial[c], q.reserv)
    BY <1>1, <1>2, <1>3, <1>7 DEF PairInv
  <2>2. m.call \in Nat /\ Age(serial[c], m.serial) \in Int
    BY <1>2, <1>3, <1>7, PairRanges
  <2> QED BY <1>6, <2>1, <2>2
<1>8. Tried(c)' = Tried(c)
  BY <1>4 DEF Tried
<1>9. Behind(c, lastSend)'
  BY <1>4, <1>5, <1>6, <1>7, <1>8 DEF Behind
<1> QED BY <1>3, <1>4, <1>9

(* What is remembered is what was, or a reply that is complete. *)
LEMMA Remembering ==
    ASSUME TypeOK, PacketInv, ExecInv, [Next]_vars
    PROVE  /\ \A d \in Clients : \/ cache'[d] \in {cache[d], Fresh}
                                 \/ d = Client /\ compEvt /\ cache'[d] = lastSend
           /\ compEvt' => UNCHANGED <<lastRecv, lastSend, compEvt>> \/ ExecFinish
<1>1. cache \in [Clients -> Reply] /\ Client \in Clients
  BY DEF TypeOK, NodeTypeOK, ExecTypeOK, Client, Request
<1>2. CASE UNCHANGED <<cache, lastRecv, lastSend, compEvt>>
  BY <1>2
<1>3. CASE \E c \in Peers : ClientStep(c) \/ Lose(c) \/ Duplicate(c)
  <2>1. UNCHANGED serverVars
    BY <1>3 DEF ClientStep, CallSome, Call, Timeout, ReceiveReply, Reopen, Lose, Duplicate
  <2> QED BY <1>2, <2>1 DEF serverVars, nodeVars, execVars
<1>4. CASE \E c \in Peers : Arrival(c)
  <2>1. PICK c \in Clients : Arrival(c)
    BY <1>4, PeersAreClients
  <2>2. PICK i \in DOMAIN toServer[c] :
           \/ RefuseConnection(c, i) \/ AnswerRetry(c, i) \/ RefuseBusy(c, i)
           \/ RefuseObject(c, i) \/ RefuseOption(c, i) \/ Accept(c, i)
    BY <2>1 DEF Arrival
  <2>3. compEvt' => UNCHANGED <<lastRecv, lastSend, compEvt>>
    BY <2>2, RefusalsLeaveThePackets DEF Accept, ResetComp, execVars
  <2>4. ASSUME NEW n, NEW w, Admit(c, n, w) PROVE \A d \in Clients : cache'[d] \in {cache[d], Fresh}
    BY <2>4 DEF Admit, Memory
  <2>5. UNCHANGED nodeVars \/ \E n, w : Admit(c, n, w)
    BY <2>2, ArrivalAdmits
  <2>6. UNCHANGED nodeVars => \A d \in Clients : cache'[d] \in {cache[d], Fresh}
    BY DEF nodeVars
  <2> QED BY <2>3, <2>4, <2>5, <2>6
<1>5. CASE Signal \/ CheckTimeout \/ LeaveLoop \/ TerminateExec \/ Executing
  BY <1>2, <1>5 DEF Signal, CheckTimeout, LeaveLoop, TerminateExec, Executing, nodeVars, execVars
<1>6. CASE Complete
  <2>1. compEvt /\ UNCHANGED <<lastRecv, lastSend, compEvt>>
    BY <1>6 DEF Complete, execVars
  <2>2. \A d \in Clients :
           cache'[d] \in {cache[d], Fresh} \/ (d = Client /\ cache'[d] = lastSend)
    BY <1>1, <1>6 DEF Complete
  <2> QED BY <2>1, <2>2
<1>7. CASE ReleaseAll
  BY <1>7 DEF ReleaseAll, execVars
<1>8. CASE ExecStart
  <2>1. ~compEvt /\ UNCHANGED <<cache, compEvt>>
    BY <1>8 DEF ExecStart, nodeVars, ExecInv, HandOver
  <2> QED BY <2>1
<1>9. CASE ExecFinish
  BY <1>9 DEF ExecFinish, nodeVars
<1>10. CASE ExecEnd
  BY <1>2, <1>10 DEF ExecEnd, nodeVars
<1>11. CASE UNCHANGED vars
  BY <1>2, <1>11 DEF vars, serverVars, nodeVars, execVars
<1> QED BY <1>3, <1>4, <1>5, <1>6, <1>7, <1>8, <1>9, <1>10, <1>11 DEF Next

LEMMA RecallStep ==
    ASSUME ShortSession
    PROVE  /\ TypeOK /\ TypeOK' /\ PacketInv /\ PacketInv' /\ SerialInv /\ SerialInv'
           /\ ExecInv /\ ReplyInv /\ PairInv /\ RecallInv /\ [Next]_vars
           => RecallInv'
<1> SUFFICES ASSUME TypeOK, TypeOK', PacketInv, PacketInv', SerialInv, SerialInv', ExecInv, ReplyInv,
                    PairInv, RecallInv, [Next]_vars, link # "TCP"
             PROVE  /\ \A d \in Clients : Behind(d, cache[d])'
                    /\ compEvt' => Behind(Client, lastSend)'
  BY LinkFixed DEF RecallInv
<1>1. cache \in [Clients -> Reply] /\ Client \in Clients /\ lastSend \in Reply
  BY DEF TypeOK, NodeTypeOK, ExecTypeOK, Client, Request
<1>2. ASSUME NEW d \in Clients PROVE Behind(d, cache[d])'
  <2>1. PICK r : r = cache'[d]
    OBVIOUS
  <2>2. \/ r \in {cache[d], Fresh}
        \/ d = Client /\ compEvt /\ r = lastSend
    BY <2>1, Remembering
  <2>3. Behind(d, Fresh)
    BY DEF Behind, Fresh
  <2>4. r \in Reply /\ Behind(d, r)
    BY <1>1, <2>2, <2>3, FreshType DEF RecallInv
  <2>5. Behind(d, r)'
    BY <2>4, BehindStep
  <2> QED BY <2>1, <2>5
<1>3. ASSUME compEvt' PROVE Behind(Client, lastSend)'
  <2>1. UNCHANGED <<lastRecv, lastSend, compEvt>> \/ ExecFinish
    BY <1>3, Remembering
  <2>2. CASE UNCHANGED <<lastRecv, lastSend, compEvt>>
    <3>1. PICK r \in {lastSend}, d \in {Client} : TRUE
      OBVIOUS
    <3>2. Behind(d, r)'
      BY <1>1, <1>3, <2>2, <3>1, BehindStep DEF RecallInv
    <3>3. Client' = d /\ lastSend' = r
      BY <2>2, <3>1 DEF Client
    <3> QED BY <3>2, <3>3
  <2> QED BY <2>1, <2>2, FinishBehind
<1> QED BY <1>2, <1>3

LEMMA Recalled ==
    ASSUME ShortSession, "COM" \notin Links \cap WdtLinks
    PROVE  Spec => [](/\ TypeOK /\ PacketInv /\ PatientInv /\ OrderInv /\ SerialInv
                      /\ PairInv /\ RecallInv)
<1>1. Init => PairInv /\ RecallInv
  <2> SUFFICES ASSUME Init PROVE PairInv /\ RecallInv
    OBVIOUS
  <2>1. \A c \in Clients : Known(c) = {NoRequest} /\ cache[c] = Fresh
    BY DEF Init, Known, Queued
  <2>2. NoRequest.call = 0 /\ \A c : Behind(c, Fresh)
    BY DEF NoRequest, Behind, Fresh
  <2>3. lastSend = Fresh
    BY DEF Init
  <2> QED BY <2>1, <2>2, <2>3 DEF PairInv, RecallInv
<1>2. /\ TypeOK /\ TypeOK' /\ PacketInv /\ PacketInv' /\ SerialInv /\ SerialInv'
      /\ ExecInv /\ ReplyInv /\ PairInv /\ RecallInv /\ [Next]_vars
      => PairInv' /\ RecallInv'
  BY PairStep, RecallStep
<1> QED BY <1>1, <1>2, Answered, PTL DEF Spec

(* "Checks retry packet": what receive_execute takes for a retry, by the serial
   number in its reserve field, is a retry of the call whose response it is then
   answered with; for the sessions of CallsAreFaithful. *)
THEOREM RetriesAreOfTheSameCall ==
    ASSUME ShortSession, "COM" \notin Links \cap WdtLinks
    PROVE  Spec => []RetryMeansSameCall
<1>1. TypeOK /\ PacketInv /\ PatientInv /\ OrderInv /\ SerialInv /\ PairInv /\ RecallInv
      => RetryMeansSameCall
  <2> SUFFICES ASSUME TypeOK, PacketInv, PatientInv, OrderInv, SerialInv, PairInv, RecallInv,
                      NEW c \in Peers, NEW i \in Deliverable(toServer[c]),
                      spc = "recv", IsRetry(c, toServer[c][i])
               PROVE  LastReply(c).call = toServer[c][i].call
    BY DEF RetryMeansSameCall
  <2>1. c \in Clients /\ i \in DOMAIN toServer[c] /\ link \in Links /\ link # "TCP"
    BY PeersAreClients DEF Deliverable, TypeOK, IsRetry
  <2>2. PICK m \in Known(c) : m = toServer[c][i] /\ m.call > 0
    BY <2>1 DEF PacketInv, Known, Queued
  <2>3. PICK r : r = LastReply(c)
    OBVIOUS
  <2>4. r \in Reply /\ Behind(c, r)
    <3>1. CASE link = "UDP"
      <4>1. Behind(c, Fresh)
        BY DEF Behind, Fresh
      <4> QED BY <2>1, <2>3, <3>1, <4>1, FreshType DEF LastReply, RecallInv, TypeOK, NodeTypeOK
    <3>2. CASE link # "UDP"
      <4>1. link = "COM"
        BY <2>1, <3>2, ExchangeAssumption DEF ExchangeAssumption
      <4>2. compEvt /\ Client = c
        BY <2>1, <4>1 DEF PatientInv, OrderInv, Client, Peers
      <4> QED BY <2>1, <2>3, <3>2, <4>2 DEF LastReply, RecallInv, TypeOK, ExecTypeOK
    <3> QED BY <3>1, <3>2
  <2>5. /\ m.call \in Nat /\ m.reserv \in 1..SerialMax /\ r.call \in Nat
        /\ Age(serial[c], m.serial) \in Int /\ Age(serial[c], m.reserv) \in Int
    BY <2>1, <2>2, <2>4, PairRanges DEF Reply
  <2>6. r.serial = m.reserv /\ r.serial # 0
    BY <2>2, <2>3, <2>5 DEF IsRetry, RetryKey
  <2>7. Age(serial[c], m.serial) <= Age(serial[c], m.reserv)
    BY <2>1, <2>2 DEF PairInv
  <2>8. /\ r.call < m.call => Age(serial[c], r.serial) > Age(serial[c], m.reserv)
        /\ r.call > m.call => Age(serial[c], r.serial) < Age(serial[c], m.serial)
    BY <2>2, <2>4, <2>6 DEF Behind
  <2> QED BY <2>2, <2>3, <2>5, <2>6, <2>7, <2>8
<1> QED BY <1>1, Recalled, PTL
=============================================================================
