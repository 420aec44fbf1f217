--------------------------- MODULE Library_proofs ---------------------------
(***************************************************************************)
(* Proofs about the other parts of the library.                            *)
(*                                                                         *)
(* ClientTable: descriptors, memory, mutexes and the UDP counter are those *)
(* of the entries, when calls are serialised.  FunctionTable: what the     *)
(* server enters to be released is what the provider holds.  Framing: the  *)
(* boundaries of packets are never lost over TCP, nor on a serial line     *)
(* that spoils nothing.  Options: the option that was asked for is the one *)
(* that is found.  Variants: every block of memory has one owner.          *)
(* WireDates: a date loses a second at most.                               *)
(***************************************************************************)
EXTENDS ClientTable, FunctionTable, Framing, Options, Variants, WireDates, Server_proofs

-----------------------------------------------------------------------------
(* ClientTable. *)

(* A thread that opens or closes, where it is, and what is in its entry by then. *)
Devices == {TCP, UDP, COM}
PCs == {"idle", "parse", "refused", "mutex", "device", "timeout", "retry", "close",
        "hang up", "free", "reset"}
EntryType == [sock : Nat, type : {"none"} \cup {c.scheme : c \in Connects}, arg : Nat,
              mutex : BOOLEAN, retry : Int]
ThreadType == [pc : PCs, index : Nat, to : Connects \cup {Nowhere.to}, retry : Int]
Busy(t) == at[t].pc # "idle"
StageOf(a, e) ==
    /\ a.pc # "idle" /\ a.index \in Indexes
    /\ a.pc = "parse" => e = Reset /\ a.to \in Connects
    /\ a.pc \in {"refused", "mutex", "device", "free", "reset"} => e.sock = 0
    /\ a.pc \in {"timeout", "retry", "close", "hang up"} => e.sock # 0
    /\ a.pc \in {"mutex", "device", "timeout", "retry", "close", "hang up"} => e.type \in Devices
    /\ a.pc \in {"mutex", "device", "timeout", "retry"} => (e.type = UDP <=> e.arg # 0)
    /\ a.pc \in {"device", "timeout", "retry"} => e.mutex
    /\ a.pc = "reset" => e.arg = 0

(* Descriptors and blocks are those of the entries, each of one entry. *)
Owned ==
    /\ opened = {table[i].sock : i \in Indexes} \ {0}
    /\ blocks = {table[i].arg : i \in Indexes} \ {0}
    /\ \A i, j \in Indexes : table[i].sock = table[j].sock /\ table[i].sock # 0 => i = j
    /\ \A i, j \in Indexes : table[i].arg = table[j].arg /\ table[i].arg # 0 => i = j
Networked == {i \in Indexes : table[i].sock # 0 /\ table[i].type # COM}

ClientTypes ==
    /\ table \in [Indexes -> EntryType]
    /\ opened \subseteq Nat \ {0} /\ IsFiniteSet(opened)
    /\ blocks \subseteq Nat \ {0} /\ IsFiniteSet(blocks)
    /\ connected \subseteq Indexes
    /\ at \in [Threads -> ThreadType]
Alone == \A t, u \in Threads : Busy(t) /\ Busy(u) => t = u
Staged ==
    \A t \in Threads :
        IF Busy(t) THEN StageOf(at[t], Entry(t)) /\ at[t].index \notin connected ELSE at[t] = Nowhere
AtRest == \A i \in Indexes \ connected :
              (\A t \in Threads : Busy(t) => at[t].index # i) => table[i] = Reset
Stands(e) ==
    /\ e.sock # 0 /\ e.mutex /\ e.type \in Devices
    /\ e.type = UDP <=> e.arg # 0
    /\ e.retry \in RETRY_MIN..RETRY_MAX
Connected == \A i \in connected : Stands(table[i])
Counting == counter = Cardinality(Networked)
ClientInv == ClientTypes /\ Alone /\ Staged /\ AtRest /\ Connected /\ Owned /\ Counting

(* There is a lowest number that is free. *)
LEMMA LowestIs ==
    ASSUME NEW U, IsFiniteSet(U), NEW base \in Nat
    PROVE  Lowest(U, base) \in Nat /\ Lowest(U, base) >= base /\ Lowest(U, base) \notin U
<1> DEFINE C == base..base + Cardinality(U)
           Free == C \ U
           P(n) == n \notin U /\ \A m \in base..n - 1 : m \in U
<1>1. Cardinality(U) \in Nat
  BY FS_CardinalityType
<1>2. Cardinality(C) = Cardinality(U) + 1
  <2>1. base + Cardinality(U) \in Nat /\ base <= base + Cardinality(U)
    BY <1>1
  <2>2. Cardinality(C) = (base + Cardinality(U)) - base + 1
    BY <1>1, <2>1, FS_Interval
  <2> QED BY <1>1, <2>2
<1>3. Free # {} /\ Free \subseteq Nat
  <2>1. ~(C \subseteq U)
    <3> HIDE DEF C
    <3> QED BY <1>1, <1>2, FS_Subset
  <2> QED BY <1>1, <2>1
<1>4. PICK n \in Free : \A m \in Free : ~(<<m, n>> \in OpToRel(<, Nat))
  <2> HIDE DEF Free
  <2> QED BY <1>3, NatLessThanWellFounded, WFMin
<1>5. n \in C /\ P(n)
  <2>1. n \in Nat /\ n \in C /\ n \notin U /\ base <= n /\ n <= base + Cardinality(U)
    <3>1. n \in C /\ n \notin U
      BY <1>4
    <3> QED BY <1>1, <3>1
  <2>2. ASSUME NEW m \in base..n - 1 PROVE m \in U
    <3>1. m \in C /\ m \in Nat /\ m < n
      BY <1>1, <2>1
    <3> QED BY <1>4, <2>1, <3>1 DEF OpToRel
  <2> QED BY <2>1, <2>2
<1>6. Lowest(U, base) = CHOOSE k \in C : P(k)
  BY DEF Lowest
<1> HIDE DEF P
<1>7. Lowest(U, base) \in C /\ P(Lowest(U, base))
  BY <1>5, <1>6, Zenon
<1> QED BY <1>1, <1>7 DEF P

LEMMA ClientStart == ClientInit => ClientInv
<1> SUFFICES ASSUME ClientInit PROVE ClientInv
  OBVIOUS
<1>1. Reset \in EntryType /\ Reset.sock = 0 /\ Reset.arg = 0
  BY DEF Reset, EntryType
<1>2. ClientTypes
  BY <1>1, FS_EmptySet DEF ClientInit, ClientTypes, ThreadType, Nowhere, PCs
<1>3. Networked = {}
  BY <1>1 DEF ClientInit, Networked
<1>4. Owned /\ Counting
  BY <1>1, <1>3, FS_EmptySet DEF ClientInit, Owned, Counting
<1> QED BY <1>2, <1>4 DEF ClientInit, ClientInv, Alone, Staged, AtRest, Connected, Busy, Nowhere

(* One entry changes, and its descriptor and its block are opened or closed with it. *)
LEMMA EntryChanges ==
    ASSUME ClientTypes, Owned, NEW i \in Indexes, NEW e \in EntryType,
           table' = [table EXCEPT ![i] = e],
           \/ e.sock = table[i].sock /\ opened' = opened
           \/ table[i].sock = 0 /\ e.sock # 0 /\ e.sock \notin opened /\ opened' = opened \cup {e.sock}
           \/ e.sock = 0 /\ opened' = opened \ {table[i].sock},
           \/ e.arg = table[i].arg /\ blocks' = blocks
           \/ table[i].arg = 0 /\ e.arg # 0 /\ e.arg \notin blocks /\ blocks' = blocks \cup {e.arg}
           \/ e.arg = 0 /\ blocks' = blocks \ {table[i].arg}
    PROVE  /\ Owned' /\ table' \in [Indexes -> EntryType]
           /\ opened' \subseteq Nat \ {0} /\ IsFiniteSet(opened')
           /\ blocks' \subseteq Nat \ {0} /\ IsFiniteSet(blocks')
<1>1. /\ table \in [Indexes -> EntryType] /\ table' \in [Indexes -> EntryType]
      /\ table'[i] = e /\ \A j \in Indexes \ {i} : table'[j] = table[j]
  BY DEF ClientTypes
<1>2. e.sock \in Nat /\ e.arg \in Nat
  BY DEF EntryType
<1>3. opened' \subseteq Nat \ {0} /\ IsFiniteSet(opened')
  <2>1. IsFiniteSet(opened) /\ opened \subseteq Nat \ {0}
    BY DEF ClientTypes
  <2>2. IsFiniteSet(opened \cup {e.sock}) /\ IsFiniteSet(opened \ {table[i].sock})
    BY <2>1, FS_AddElement, FS_RemoveElement
  <2> QED BY <1>2, <2>1, <2>2
<1>4. blocks' \subseteq Nat \ {0} /\ IsFiniteSet(blocks')
  <2>1. IsFiniteSet(blocks) /\ blocks \subseteq Nat \ {0}
    BY DEF ClientTypes
  <2>2. IsFiniteSet(blocks \cup {e.arg}) /\ IsFiniteSet(blocks \ {table[i].arg})
    BY <2>1, FS_AddElement, FS_RemoveElement
  <2> QED BY <1>2, <2>1, <2>2
<1>5. /\ opened' = {table'[j].sock : j \in Indexes} \ {0}
      /\ \A j, k \in Indexes : table'[j].sock = table'[k].sock /\ table'[j].sock # 0 => j = k
  <2>1. \A j \in Indexes : table[j].sock # 0 => table[j].sock \in opened
    BY DEF Owned
  <2>2. CASE e.sock = table[i].sock /\ opened' = opened
    BY <1>1, <2>2 DEF Owned
  <2>3. CASE table[i].sock = 0 /\ e.sock # 0 /\ e.sock \notin opened /\ opened' = opened \cup {e.sock}
    BY <1>1, <2>1, <2>3 DEF Owned
  <2>4. CASE e.sock = 0 /\ opened' = opened \ {table[i].sock}
    BY <1>1, <2>1, <2>4 DEF Owned
  <2> QED BY <2>2, <2>3, <2>4
<1>6. /\ blocks' = {table'[j].arg : j \in Indexes} \ {0}
      /\ \A j, k \in Indexes : table'[j].arg = table'[k].arg /\ table'[j].arg # 0 => j = k
  <2>1. \A j \in Indexes : table[j].arg # 0 => table[j].arg \in blocks
    BY DEF Owned
  <2>2. CASE e.arg = table[i].arg /\ blocks' = blocks
    BY <1>1, <2>2 DEF Owned
  <2>3. CASE table[i].arg = 0 /\ e.arg # 0 /\ e.arg \notin blocks /\ blocks' = blocks \cup {e.arg}
    BY <1>1, <2>1, <2>3 DEF Owned
  <2>4. CASE e.arg = 0 /\ blocks' = blocks \ {table[i].arg}
    BY <1>1, <2>1, <2>4 DEF Owned
  <2> QED BY <2>2, <2>3, <2>4
<1> QED BY <1>1, <1>3, <1>4, <1>5, <1>6 DEF Owned

(* A thread that opens or closes takes one step with its own entry: it stays where
   the entry is as StageOf says, or it is done with an entry that is free or stands
   for a connection. *)
LEMMA OwnEntryStep ==
    ASSUME ClientInv, NEW t \in Threads, Busy(t), NEW e \in EntryType, NEW a \in ThreadType,
           table' = [table EXCEPT ![at[t].index] = e], at' = [at EXCEPT ![t] = a],
           \/ StageOf(a, e) /\ a.index = at[t].index /\ connected' = connected
           \/ a = Nowhere /\ e = Reset /\ connected' = connected
           \/ a = Nowhere /\ Stands(e) /\ connected' = connected \cup {at[t].index},
           \/ e.sock = Entry(t).sock /\ opened' = opened
           \/ Entry(t).sock = 0 /\ e.sock # 0 /\ e.sock \notin opened /\ opened' = opened \cup {e.sock}
           \/ e.sock = 0 /\ opened' = opened \ {Entry(t).sock},
           \/ e.arg = Entry(t).arg /\ blocks' = blocks
           \/ Entry(t).arg = 0 /\ e.arg # 0 /\ e.arg \notin blocks /\ blocks' = blocks \cup {e.arg}
           \/ e.arg = 0 /\ blocks' = blocks \ {Entry(t).arg},
           counter' = IF e.sock = Entry(t).sock THEN counter
                      ELSE IF e.sock # 0 THEN IF e.type # COM THEN counter + 1 ELSE counter
                      ELSE IF Entry(t).type # COM THEN counter - 1 ELSE counter,
           e.sock = Entry(t).sock /\ e.sock # 0 => e.type = Entry(t).type,
           e.sock = 0 \/ Entry(t).sock = 0 \/ e.sock = Entry(t).sock
    PROVE  ClientInv'
<1> DEFINE i == at[t].index
<1>1. StageOf(at[t], Entry(t)) /\ i \in Indexes /\ i \notin connected /\ Entry(t) = table[i]
  BY DEF ClientInv, Staged, StageOf, Entry
<1>2. /\ table \in [Indexes -> EntryType] /\ at \in [Threads -> ThreadType] /\ connected \subseteq Indexes
      /\ table'[i] = e /\ \A j \in Indexes \ {i} : table'[j] = table[j]
      /\ at'[t] = a /\ \A u \in Threads \ {t} : at'[u] = at[u]
  BY <1>1 DEF ClientInv, ClientTypes
<1>3. /\ Owned' /\ table' \in [Indexes -> EntryType]
      /\ opened' \subseteq Nat \ {0} /\ IsFiniteSet(opened')
      /\ blocks' \subseteq Nat \ {0} /\ IsFiniteSet(blocks')
  BY <1>1, EntryChanges DEF ClientInv
<1>4. connected' \subseteq Indexes /\ at' \in [Threads -> ThreadType]
  BY <1>1, <1>2
<1>5. \A u \in Threads \ {t} : ~Busy(u) /\ ~Busy(u)' /\ at'[u] = Nowhere
  BY <1>2 DEF ClientInv, Alone, Staged, Busy
<1>6. Alone'
  BY <1>5 DEF Alone
<1>7. Staged'
  <2>1. Nowhere.pc = "idle"
    BY DEF Nowhere
  <2>2. IF Busy(t)' THEN StageOf(at'[t], table'[at'[t].index]) /\ at'[t].index \notin connected'
        ELSE at'[t] = Nowhere
    BY <1>1, <1>2, <2>1 DEF Busy, StageOf
  <2> QED BY <1>5, <2>2 DEF Staged, Entry
<1>8. AtRest'
  <2>1. ASSUME NEW j \in Indexes, j \notin connected', \A u \in Threads : Busy(u)' => at'[u].index # j
        PROVE  table'[j] = Reset
    <3>1. CASE j = i
      <4>1. ~Busy(t)'
        <5>1. Busy(t)' => at'[t].index # i
          BY <2>1, <3>1
        <5> QED BY <1>2, <5>1 DEF Busy, Nowhere
      <4> QED BY <1>1, <1>2, <2>1, <3>1, <4>1 DEF Busy, StageOf
    <3>2. CASE j # i
      <4>1. \A u \in Threads : Busy(u) => at[u].index # j
        BY <1>5, <3>2
      <4>2. j \notin connected
        BY <2>1
      <4> QED BY <1>2, <2>1, <3>2, <4>1, <4>2 DEF ClientInv, AtRest
    <3> QED BY <3>1, <3>2
  <2> QED BY <2>1 DEF AtRest
<1>9. Connected'
  <2>1. ASSUME NEW j \in connected' PROVE Stands(table'[j])
    <3>1. CASE j = i
      BY <1>1, <1>2, <3>1
    <3>2. CASE j # i
      BY <1>1, <1>2, <1>4, <3>2 DEF ClientInv, Connected
    <3> QED BY <3>1, <3>2
  <2> QED BY <2>1 DEF Connected
<1>10. Counting'
  <2>1. IsFiniteSet(Networked)
    <3>1. IsFiniteSet(Indexes)
      BY FS_Interval, ClientTableAssumption DEF Indexes, ClientTableAssumption
    <3> QED BY <3>1, FS_Subset DEF Networked
  <2>2. counter = Cardinality(Networked)
    BY DEF ClientInv, Counting
  <2>3. \A j \in Indexes \ {i} : j \in Networked' <=> j \in Networked
    BY <1>2 DEF Networked
  <2>4. /\ i \in Networked' <=> e.sock # 0 /\ e.type # COM
        /\ i \in Networked <=> Entry(t).sock # 0 /\ Entry(t).type # COM
    BY <1>1, <1>2 DEF Networked
  <2>5. Networked \subseteq Indexes /\ Networked' \subseteq Indexes
    BY DEF Networked
  <2>6. CASE (i \in Networked) <=> (i \in Networked')
    <3>1. Networked' = Networked
      BY <2>3, <2>5, <2>6
    <3>2. counter' = counter
      BY <2>4, <2>6
    <3> QED BY <2>2, <3>1, <3>2 DEF Counting
  <2>7. CASE i \notin Networked /\ i \in Networked'
    <3>1. Networked' = Networked \cup {i}
      BY <2>3, <2>5, <2>7
    <3>2. counter' = counter + 1
      BY <2>4, <2>7
    <3>3. Cardinality(Networked') = Cardinality(Networked) + 1
      BY <2>1, <2>7, <3>1, FS_AddElement
    <3> QED BY <2>2, <3>2, <3>3 DEF Counting
  <2>8. CASE i \in Networked /\ i \notin Networked'
    <3>1. Networked' = Networked \ {i}
      BY <2>3, <2>5, <2>8
    <3>2. counter' = counter - 1
      BY <2>4, <2>8
    <3>3. Cardinality(Networked') = Cardinality(Networked) - 1
      BY <2>1, <2>8, <3>1, FS_RemoveElement
    <3> QED BY <2>2, <3>2, <3>3 DEF Counting
  <2> QED BY <2>6, <2>7, <2>8
<1> QED BY <1>3, <1>4, <1>6, <1>7, <1>8, <1>9, <1>10 DEF ClientInv, ClientTypes

(* What a busy thread has before its step. *)
LEMMA BusyHas ==
    ASSUME ClientInv, NEW t \in Threads, Busy(t)
    PROVE  /\ StageOf(at[t], Entry(t)) /\ at[t].index \in Indexes
           /\ at[t] \in ThreadType /\ Entry(t) \in EntryType /\ Entry(t) = table[at[t].index]
           /\ table = [table EXCEPT ![at[t].index] = Entry(t)]
           /\ \A next \in PCs : [at[t] EXCEPT !.pc = next] \in ThreadType
           /\ Nowhere \in ThreadType /\ Reset \in EntryType
<1>1. StageOf(at[t], Entry(t)) /\ at[t].index \in Indexes /\ Entry(t) = table[at[t].index]
  BY DEF ClientInv, Staged, StageOf, Entry
<1>2. at[t] \in ThreadType /\ Entry(t) \in EntryType
  BY <1>1 DEF ClientInv, ClientTypes
<1>3. table = [table EXCEPT ![at[t].index] = Entry(t)]
  BY <1>1 DEF ClientInv, ClientTypes
<1>4. \A next \in PCs : [at[t] EXCEPT !.pc = next] \in ThreadType
  BY <1>2 DEF ThreadType
<1>5. Nowhere \in ThreadType /\ Reset \in EntryType
  BY DEF ThreadType, Nowhere, PCs, Reset, EntryType
<1> QED BY <1>1, <1>2, <1>3, <1>4, <1>5

(* A step that gives up, with an entry that has no descriptor, or closes the entry. *)
LEMMA AbandonKeeps ==
    ASSUME ClientInv, NEW t \in Threads, Busy(t), Entry(t).sock = 0, AbandonOpen(t),
           UNCHANGED <<opened, counter, connected>>
    PROVE  ClientInv'
<1>1. Reset \in EntryType /\ Reset.sock = 0 /\ Reset.arg = 0 /\ Nowhere \in ThreadType
  BY BusyHas DEF Reset
<1>2. /\ table' = [table EXCEPT ![at[t].index] = Reset] /\ at' = [at EXCEPT ![t] = Nowhere]
      /\ blocks' = blocks \ {Entry(t).arg}
  BY DEF AbandonOpen, FreeArg, Set, Leave
<1> QED BY <1>1, <1>2, OwnEntryStep

(* The steps of bCap_Open_Client. *)
LEMMA ParseKeeps ==
    ASSUME ClientInv, NEW t \in Threads, OpenParse(t)
    PROVE  ClientInv'
<1> DEFINE c == at[t].to
           typed == [Entry(t) EXCEPT !.type = c.scheme]
           next == IF parse(c) = "S_OK" THEN "mutex" ELSE "refused"
           to(p) == [at[t] EXCEPT !.pc = p]
<1>1. Busy(t) /\ at[t].pc = "parse" /\ UNCHANGED <<opened, counter, connected>>
  BY DEF OpenParse, Mine, Busy
<1>2. /\ Entry(t) = Reset /\ c \in Connects /\ at[t].index \in Indexes /\ at[t] \in ThreadType
      /\ Reset \in EntryType
  BY <1>1, BusyHas DEF StageOf
<1>3. parse(c) = "S_OK" => c.scheme \in Devices
  BY DEF parse, Devices
<1>4. /\ typed \in EntryType /\ typed.sock = 0 /\ typed.arg = 0 /\ typed.type = c.scheme
      /\ \A n \in Nat : LET e == [typed EXCEPT !.arg = n] IN
            e \in EntryType /\ e.sock = 0 /\ e.arg = n /\ e.type = c.scheme
  <2>1. c.scheme \in {"none"} \cup {d.scheme : d \in Connects}
    BY <1>2
  <2>2. Reset \in EntryType /\ Reset.sock = 0 /\ Reset.arg = 0
    BY <1>2 DEF Reset
  <2>3. typed = [Reset EXCEPT !.type = c.scheme]
    BY <1>2
  <2> HIDE DEF typed, c
  <2>4. typed \in EntryType /\ typed.sock = 0 /\ typed.arg = 0 /\ typed.type = c.scheme
    BY <2>1, <2>2, <2>3 DEF EntryType
  <2>5. ASSUME NEW n \in Nat
        PROVE  LET e == [typed EXCEPT !.arg = n] IN
                  e \in EntryType /\ e.sock = 0 /\ e.arg = n /\ e.type = c.scheme
    BY <2>4 DEF EntryType
  <2> QED BY <2>4, <2>5
<1>5. Entry(t).sock = 0 /\ Entry(t).arg = 0
  BY <1>2 DEF Reset
<1>6. \A p \in PCs : to(p) \in ThreadType /\ to(p).pc = p /\ to(p).index = at[t].index
  BY <1>2 DEF ThreadType
<1>7. next \in {"mutex", "refused"} /\ next \in PCs /\ "refused" \in PCs
  BY DEF PCs
<1>8. NewArg \in Nat /\ NewArg # 0 /\ NewArg \notin blocks
  <2>1. IsFiniteSet(blocks)
    BY DEF ClientInv, ClientTypes
  <2> QED BY <2>1, LowestIs DEF NewArg
<1> HIDE DEF typed, next, to
<1>9. CASE c.scheme = UDP /\ blocks' = blocks \cup {NewArg} /\ Set(t, [typed EXCEPT !.arg = NewArg])
           /\ Go(t, next)
  <2> DEFINE e == [typed EXCEPT !.arg = NewArg]
  <2>1. e \in EntryType /\ e.sock = 0 /\ e.arg = NewArg /\ e.type = UDP
    BY <1>4, <1>8, <1>9
  <2>2. table' = [table EXCEPT ![at[t].index] = e] /\ at' = [at EXCEPT ![t] = to(next)]
    BY <1>9 DEF Set, Go, to
  <2> HIDE DEF e
  <2>3. StageOf(to(next), e) /\ to(next).index = at[t].index
    BY <1>2, <1>6, <1>7, <1>8, <2>1 DEF StageOf, Devices
  <2>4. to(next) \in ThreadType
    BY <1>6, <1>7
  <2> QED BY <1>1, <1>5, <1>8, <1>9, <2>1, <2>2, <2>3, <2>4, OwnEntryStep
<1>10. CASE c.scheme = UDP /\ Set(t, typed) /\ Go(t, "refused") /\ UNCHANGED blocks
  <2>1. table' = [table EXCEPT ![at[t].index] = typed] /\ at' = [at EXCEPT ![t] = to("refused")]
    BY <1>10 DEF Set, Go, to
  <2>2. StageOf(to("refused"), typed) /\ to("refused").index = at[t].index
    BY <1>2, <1>4, <1>6, <1>7 DEF StageOf
  <2>3. to("refused") \in ThreadType
    BY <1>6, <1>7
  <2> QED BY <1>1, <1>4, <1>5, <1>10, <2>1, <2>2, <2>3, OwnEntryStep
<1>11. CASE c.scheme # UDP /\ Set(t, typed) /\ Go(t, next) /\ UNCHANGED blocks
  <2>1. table' = [table EXCEPT ![at[t].index] = typed] /\ at' = [at EXCEPT ![t] = to(next)]
    BY <1>11 DEF Set, Go, to
  <2>2. StageOf(to(next), typed) /\ to(next).index = at[t].index
    BY <1>2, <1>3, <1>4, <1>6, <1>7, <1>11 DEF StageOf, next
  <2>3. to(next) \in ThreadType
    BY <1>6, <1>7
  <2> QED BY <1>1, <1>4, <1>5, <1>11, <2>1, <2>2, <2>3, OwnEntryStep
<1> QED BY <1>9, <1>10, <1>11 DEF OpenParse, typed, next

(* The steps that leave the entry's descriptor and block as they are. *)
LEMMA StayKeeps ==
    ASSUME ClientInv, NEW t \in Threads,
           OpenMutex(t) \/ OpenTimeout(t) \/ OpenRetry(t) \/ CloseMutex(t)
    PROVE  ClientInv'
<1>1. Busy(t) /\ UNCHANGED <<opened, counter, blocks>>
  BY DEF OpenMutex, OpenTimeout, OpenRetry, CloseMutex, Mine, Busy
<1>2. /\ StageOf(at[t], Entry(t)) /\ at[t] \in ThreadType /\ Entry(t) \in EntryType
      /\ table = [table EXCEPT ![at[t].index] = Entry(t)] /\ Nowhere \in ThreadType
      /\ \A next \in PCs : [at[t] EXCEPT !.pc = next] \in ThreadType
  BY <1>1, BusyHas
<1>3. \A next \in PCs : LET a == [at[t] EXCEPT !.pc = next] IN
         a.pc = next /\ a.index = at[t].index /\ a.retry = at[t].retry /\ a.to = at[t].to
  BY <1>2 DEF ThreadType
<1>4. CASE OpenMutex(t) \/ CloseMutex(t)
  <2>1. PICK m \in BOOLEAN, next \in {"device", "hang up"} :
           /\ table' = [table EXCEPT ![at[t].index] = [Entry(t) EXCEPT !.mutex = m]]
           /\ at' = [at EXCEPT ![t] = [at[t] EXCEPT !.pc = next]] /\ connected' = connected
           /\ at[t].pc = IF next = "device" THEN "mutex" ELSE "close"
           /\ next = "device" => m
    BY <1>4 DEF OpenMutex, CloseMutex, Mine, Set, Go
  <2> DEFINE e == [Entry(t) EXCEPT !.mutex = m]
             a == [at[t] EXCEPT !.pc = next]
  <2>2. e \in EntryType /\ e.sock = Entry(t).sock /\ e.arg = Entry(t).arg
        /\ e.type = Entry(t).type /\ e.mutex = m
    BY <1>2 DEF EntryType
  <2>3. a \in ThreadType /\ a.pc = next /\ a.index = at[t].index
    <3>1. next \in PCs
      BY DEF PCs
    <3> QED BY <1>2, <1>3, <3>1, Zenon
  <2>4. table' = [table EXCEPT ![at[t].index] = e] /\ at' = [at EXCEPT ![t] = a]
    BY <2>1
  <2> HIDE DEF e, a
  <2>5. StageOf(a, e)
    BY <1>2, <2>1, <2>2, <2>3 DEF StageOf
  <2>6. connected' = connected
    BY <2>1
  <2> QED BY <1>1, <2>2, <2>3, <2>4, <2>5, <2>6, OwnEntryStep
<1>5. CASE OpenTimeout(t)
  <2>1. PICK next \in {"retry", "close"} :
           at' = [at EXCEPT ![t] = [at[t] EXCEPT !.pc = next]]
    BY <1>5 DEF OpenTimeout, Go
  <2> DEFINE a == [at[t] EXCEPT !.pc = next]
  <2>2. a \in ThreadType /\ a.pc = next /\ a.index = at[t].index /\ a.retry = at[t].retry
    <3>1. next \in PCs
      BY DEF PCs
    <3> QED BY <1>2, <1>3, <3>1, Zenon
  <2>3. at' = [at EXCEPT ![t] = a] /\ connected' = connected
        /\ table' = [table EXCEPT ![at[t].index] = Entry(t)]
    BY <1>2, <1>5, <2>1 DEF OpenTimeout
  <2> HIDE DEF a
  <2>4. StageOf(a, Entry(t))
    BY <1>2, <1>5, <2>1, <2>2 DEF StageOf, OpenTimeout, Mine
  <2> QED BY <1>1, <1>2, <2>2, <2>3, <2>4, OwnEntryStep
<1>6. CASE OpenRetry(t)
  <2> DEFINE e == [Entry(t) EXCEPT !.retry = RetryOf(Entry(t).type, at[t].retry)]
  <2>1. at[t].pc = "retry"
    BY <1>6 DEF OpenRetry, Mine
  <2>2. RetryOf(Entry(t).type, at[t].retry) \in RETRY_MIN..RETRY_MAX
    BY <1>2, ClientTableAssumption DEF RetryOf, Clamped, ClientTableAssumption, ThreadType
  <2>3. e \in EntryType /\ e.sock = Entry(t).sock /\ e.arg = Entry(t).arg
        /\ e.type = Entry(t).type /\ e.mutex = Entry(t).mutex /\ e.retry \in RETRY_MIN..RETRY_MAX
    BY <1>2, <2>2, ClientTableAssumption DEF EntryType, ClientTableAssumption
  <2>4. /\ table' = [table EXCEPT ![at[t].index] = e] /\ at' = [at EXCEPT ![t] = Nowhere]
        /\ connected' = connected \cup {at[t].index}
    BY <1>6 DEF OpenRetry, Set, Leave
  <2> HIDE DEF e
  <2>5. Stands(e)
    BY <1>2, <2>1, <2>3 DEF StageOf, Stands
  <2> QED BY <1>1, <1>2, <2>3, <2>4, <2>5, OwnEntryStep
<1> QED BY <1>4, <1>5, <1>6

(* dn_open, of which a failure leaves no descriptor open. *)
LEMMA DeviceKeeps ==
    ASSUME ClientInv, ~StateFails, NEW t \in Threads, OpenDevice(t)
    PROVE  ClientInv'
<1>1. Busy(t) /\ at[t].pc = "device" /\ connected' = connected
  BY DEF OpenDevice, Mine, Busy
<1>2. /\ StageOf(at[t], Entry(t)) /\ at[t] \in ThreadType /\ Entry(t) \in EntryType
      /\ \A next \in PCs : [at[t] EXCEPT !.pc = next] \in ThreadType
  BY <1>1, BusyHas
<1>3. Entry(t).sock = 0 /\ Entry(t).type \in Devices
  BY <1>1, <1>2 DEF StageOf
<1>4. CASE DeviceOpens(t)
  <2> DEFINE e == [Entry(t) EXCEPT !.sock = NewSock]
             a == [at[t] EXCEPT !.pc = "timeout"]
  <2>1. NewSock \in Nat /\ NewSock # 0 /\ NewSock \notin opened
    <3>1. IsFiniteSet(opened)
      BY DEF ClientInv, ClientTypes
    <3> QED BY <3>1, LowestIs DEF NewSock
  <2>2. /\ e \in EntryType /\ e.sock = NewSock /\ e.arg = Entry(t).arg
        /\ e.type = Entry(t).type /\ e.mutex = Entry(t).mutex
    BY <1>2, <2>1 DEF EntryType
  <2>3. a \in ThreadType /\ a.pc = "timeout" /\ a.index = at[t].index
    <3>1. "timeout" \in PCs
      BY DEF PCs
    <3>2. a.pc = "timeout" /\ a.index = at[t].index
      BY <1>2 DEF ThreadType
    <3> QED BY <1>2, <3>1, <3>2
  <2>4. /\ table' = [table EXCEPT ![at[t].index] = e] /\ at' = [at EXCEPT ![t] = a]
        /\ opened' = opened \cup {NewSock} /\ blocks' = blocks
        /\ counter' = IF Network(t) THEN counter + 1 ELSE counter
    BY <1>4 DEF DeviceOpens, Set, Go
  <2> HIDE DEF e, a
  <2>5. StageOf(a, e)
    BY <1>1, <1>2, <2>1, <2>2, <2>3 DEF StageOf
  <2>6. Network(t) <=> e.type # COM
    BY <1>3, <2>2 DEF Network, Devices, TCP, UDP, COM
  <2> QED BY <1>1, <1>3, <2>1, <2>2, <2>3, <2>4, <2>5, <2>6, OwnEntryStep
<1>5. CASE DeviceFails(t)
  <2>1. opened' = opened /\ counter' = counter /\ AbandonOpen(t)
    BY <1>5 DEF DeviceFails, LeftOpen
  <2> QED BY <1>1, <1>3, <2>1, AbandonKeeps
<1> QED BY <1>4, <1>5 DEF OpenDevice

(* The steps of bCap_Close_Client that give back what the entry has. *)
LEMMA CloseKeeps ==
    ASSUME ClientInv, NEW t \in Threads, CloseDevice(t) \/ CloseFree(t) \/ CloseReset(t)
    PROVE  ClientInv'
<1>1. Busy(t) /\ connected' = connected
  BY DEF CloseDevice, CloseFree, CloseReset, Mine, Busy
<1>2. /\ StageOf(at[t], Entry(t)) /\ at[t] \in ThreadType /\ Entry(t) \in EntryType
      /\ Nowhere \in ThreadType /\ Reset \in EntryType
      /\ \A next \in PCs : [at[t] EXCEPT !.pc = next] \in ThreadType
  BY <1>1, BusyHas
<1>3. CASE CloseDevice(t)
  <2> DEFINE e == [Entry(t) EXCEPT !.sock = 0]
             a == [at[t] EXCEPT !.pc = "free"]
  <2>1. at[t].pc = "hang up" /\ Entry(t).sock # 0 /\ Entry(t).type \in Devices
    BY <1>2, <1>3 DEF CloseDevice, Mine, StageOf
  <2>2. e \in EntryType /\ e.sock = 0 /\ e.arg = Entry(t).arg /\ e.type = Entry(t).type
    BY <1>2 DEF EntryType
  <2>3. a \in ThreadType /\ a.pc = "free" /\ a.index = at[t].index
    <3>1. "free" \in PCs
      BY DEF PCs
    <3>2. a.pc = "free" /\ a.index = at[t].index
      BY <1>2 DEF ThreadType
    <3> QED BY <1>2, <3>1, <3>2
  <2>4. /\ table' = [table EXCEPT ![at[t].index] = e] /\ at' = [at EXCEPT ![t] = a]
        /\ opened' = opened \ {Entry(t).sock} /\ blocks' = blocks
        /\ counter' = IF Network(t) THEN counter - 1 ELSE counter
    BY <1>3 DEF CloseDevice, Set, Go
  <2> HIDE DEF e, a
  <2>5. StageOf(a, e)
    BY <1>2, <2>2, <2>3 DEF StageOf
  <2>6. Network(t) <=> Entry(t).type # COM
    BY <2>1 DEF Network, Devices, TCP, UDP, COM
  <2> QED BY <1>1, <2>1, <2>2, <2>3, <2>4, <2>5, <2>6, OwnEntryStep
<1>4. CASE CloseFree(t)
  <2> DEFINE e == [Entry(t) EXCEPT !.arg = 0]
             a == [at[t] EXCEPT !.pc = "reset"]
  <2>1. Entry(t).sock = 0
    BY <1>2, <1>4 DEF CloseFree, Mine, StageOf
  <2>2. e \in EntryType /\ e.sock = 0 /\ e.arg = 0 /\ e.type = Entry(t).type
    BY <1>2, <2>1 DEF EntryType
  <2>3. a \in ThreadType /\ a.pc = "reset" /\ a.index = at[t].index
    <3>1. "reset" \in PCs
      BY DEF PCs
    <3>2. a.pc = "reset" /\ a.index = at[t].index
      BY <1>2 DEF ThreadType
    <3> QED BY <1>2, <3>1, <3>2
  <2>4. /\ table' = [table EXCEPT ![at[t].index] = e] /\ at' = [at EXCEPT ![t] = a]
        /\ opened' = opened /\ counter' = counter /\ blocks' = blocks \ {Entry(t).arg}
    BY <1>4 DEF CloseFree, FreeArg, Set, Go
  <2> HIDE DEF e, a
  <2>5. StageOf(a, e)
    BY <1>2, <2>2, <2>3 DEF StageOf
  <2> QED BY <1>1, <2>1, <2>2, <2>3, <2>4, <2>5, OwnEntryStep
<1>5. CASE CloseReset(t)
  <2>1. Entry(t).sock = 0 /\ Entry(t).arg = 0 /\ Reset.sock = 0 /\ Reset.arg = 0
    BY <1>2, <1>5 DEF CloseReset, Mine, StageOf, Reset
  <2>2. /\ table' = [table EXCEPT ![at[t].index] = Reset] /\ at' = [at EXCEPT ![t] = Nowhere]
        /\ opened' = opened /\ counter' = counter /\ blocks' = blocks
    BY <1>5 DEF CloseReset, Set, Leave
  <2> QED BY <1>1, <1>2, <2>1, <2>2, OwnEntryStep
<1> QED BY <1>3, <1>4, <1>5

(* A thread enters while no other is within: with an entry that is free, or with one
   that stands for a connection. *)
LEMMA EnterKeeps ==
    ASSUME ClientInv, Serialised, NEW t \in Threads, OpenFind(t) \/ CloseFind(t)
    PROVE  ClientInv'
<1>1. /\ UNCHANGED <<table, opened, counter, blocks>>
      /\ \A u \in Threads : ~Busy(u) /\ at[u] = Nowhere
  BY DEF OpenFind, CloseFind, MayEnter, Busy, ClientInv, Staged
<1>2. /\ table \in [Indexes -> EntryType] /\ at \in [Threads -> ThreadType] /\ connected \subseteq Indexes
      /\ \A i \in Indexes \ connected : table[i] = Reset
  BY <1>1 DEF ClientInv, ClientTypes, AtRest
<1>3. PICK a \in ThreadType :
         /\ at' = [at EXCEPT ![t] = a] /\ a.index \in Indexes /\ StageOf(a, table[a.index])
         /\ connected' = connected \ {a.index}
  <2>1. CASE OpenFind(t)
    <3>1. PICK i \in find_open_address, c \in Connects, r \in Retries :
             at' = [at EXCEPT ![t] = [pc |-> "parse", index |-> i, to |-> c, retry |-> r]]
      BY <2>1 DEF OpenFind
    <3>2. i \in Indexes /\ i \notin connected
      BY <3>1 DEF find_open_address, ClientInv, Connected, Stands
    <3> DEFINE a == [pc |-> "parse", index |-> i, to |-> c, retry |-> r]
    <3>3. a \in ThreadType /\ a.index = i
      BY <3>1, <3>2, ClientTableAssumption DEF ThreadType, PCs, Indexes, ClientTableAssumption
    <3>4. StageOf(a, table[i])
      BY <1>2, <3>2 DEF StageOf
    <3>5. connected' = connected \ {i}
      BY <2>1, <3>2 DEF OpenFind
    <3> QED BY <3>1, <3>2, <3>3, <3>4, <3>5
  <2>2. CASE CloseFind(t)
    <3>1. PICK i \in connected :
             connected' = connected \ {i} /\ at' = [at EXCEPT ![t].pc = "close", ![t].index = i]
      BY <2>2 DEF CloseFind
    <3> DEFINE a == [Nowhere EXCEPT !.pc = "close", !.index = i]
    <3>2. at' = [at EXCEPT ![t] = a]
      BY <1>1, <1>2, <3>1
    <3>3. i \in Indexes /\ i \in Nat
      BY <1>2 DEF Indexes
    <3>4. a \in ThreadType /\ a.index = i /\ a.pc = "close"
      <4>1. Nowhere \in ThreadType /\ "close" \in PCs
        BY DEF ThreadType, PCs, Nowhere
      <4> QED BY <3>3, <4>1 DEF ThreadType
    <3>5. Stands(table[i])
      BY DEF ClientInv, Connected
    <3> HIDE DEF a
    <3>6. StageOf(a, table[i])
      BY <3>3, <3>4, <3>5 DEF StageOf, Stands
    <3> QED BY <3>1, <3>2, <3>3, <3>4, <3>6
  <2> QED BY <2>1, <2>2
<1>4. /\ at'[t] = a /\ \A u \in Threads \ {t} : at'[u] = Nowhere /\ ~Busy(u)'
  BY <1>1, <1>2, <1>3 DEF Busy
<1>5. ClientTypes'
  BY <1>1, <1>2, <1>3 DEF ClientInv, ClientTypes
<1>6. Alone'
  BY <1>4 DEF Alone
<1>7. Staged'
  <2>1. Nowhere.pc = "idle"
    BY DEF Nowhere
  <2>2. Busy(t)' /\ StageOf(at'[t], table'[at'[t].index]) /\ at'[t].index \notin connected'
    <3>1. a.pc # "idle"
      BY <1>3 DEF StageOf
    <3>2. at'[t] = a /\ table' = table /\ a.index \notin connected'
      BY <1>1, <1>3, <1>4
    <3> QED BY <1>3, <3>1, <3>2 DEF Busy
  <2> QED BY <1>4, <2>1, <2>2 DEF Staged, Busy, Entry
<1>8. AtRest'
  <2>1. Busy(t)'
    BY <1>3, <1>4 DEF Busy, StageOf
  <2> QED BY <1>1, <1>2, <1>3, <1>4, <2>1 DEF AtRest
<1>9. Connected'
  BY <1>1, <1>3 DEF ClientInv, Connected
<1>10. Owned' /\ Counting'
  BY <1>1 DEF ClientInv, Owned, Counting, Networked
<1> QED BY <1>5, <1>6, <1>7, <1>8, <1>9, <1>10 DEF ClientInv

(* bCap_SetRetry changes an entry that stands for a connection, and only its retries. *)
LEMMA RetryKeeps ==
    ASSUME ClientInv, NEW t \in Threads, SetRetry(t)
    PROVE  ClientInv'
<1>1. PICK i \in connected, r \in Retries :
         /\ table' = [table EXCEPT ![i].retry = RetryOf(table[i].type, r)]
         /\ UNCHANGED <<opened, counter, blocks, at, connected>>
  BY DEF SetRetry
<1>2. i \in Indexes /\ table \in [Indexes -> EntryType] /\ table[i] \in EntryType
  BY DEF ClientInv, ClientTypes
<1> DEFINE e == [table[i] EXCEPT !.retry = RetryOf(table[i].type, r)]
<1>3. RetryOf(table[i].type, r) \in RETRY_MIN..RETRY_MAX /\ RETRY_MIN..RETRY_MAX \subseteq Int
  BY ClientTableAssumption DEF RetryOf, Clamped, ClientTableAssumption
<1>4. /\ e \in EntryType /\ e.sock = table[i].sock /\ e.arg = table[i].arg /\ e.type = table[i].type
      /\ e.mutex = table[i].mutex /\ e.retry \in RETRY_MIN..RETRY_MAX
  BY <1>2, <1>3 DEF EntryType
<1>5. table' = [table EXCEPT ![i] = e]
  BY <1>1, <1>2
<1> HIDE DEF e
<1>6. /\ Owned' /\ table' \in [Indexes -> EntryType]
      /\ opened' \subseteq Nat \ {0} /\ IsFiniteSet(opened')
      /\ blocks' \subseteq Nat \ {0} /\ IsFiniteSet(blocks')
  BY <1>1, <1>2, <1>4, <1>5, EntryChanges DEF ClientInv
<1>7. /\ table'[i] = e /\ \A j \in Indexes \ {i} : table'[j] = table[j]
  BY <1>2, <1>5
<1>8. \A u \in Threads : Busy(u)' = Busy(u) /\ at'[u] = at[u]
  BY <1>1 DEF Busy
<1>9. Staged'
  <2>1. ASSUME NEW u \in Threads, Busy(u) PROVE Entry(u)' = Entry(u)
    <3>1. at[u].index \in Indexes /\ at[u].index # i
      BY <2>1 DEF ClientInv, Staged, StageOf
    <3> QED BY <1>1, <1>7, <3>1 DEF Entry
  <2> QED BY <1>1, <1>8, <2>1 DEF ClientInv, Staged
<1>10. Connected'
  <2>1. Stands(e)
    BY <1>4 DEF ClientInv, Connected, Stands
  <2>2. connected \subseteq Indexes
    BY DEF ClientInv, ClientTypes
  <2> QED BY <1>1, <1>7, <2>1, <2>2 DEF ClientInv, Connected
<1>11. Counting'
  <2>1. Networked' = Networked
    BY <1>4, <1>7 DEF Networked
  <2> QED BY <1>1, <2>1 DEF ClientInv, Counting
<1>12. AtRest'
  BY <1>1, <1>7, <1>8 DEF ClientInv, AtRest
<1>13. Alone'
  BY <1>8 DEF ClientInv, Alone
<1>14. ClientTypes'
  BY <1>1, <1>6 DEF ClientInv, ClientTypes
<1> QED BY <1>6, <1>9, <1>10, <1>11, <1>12, <1>13, <1>14 DEF ClientInv

LEMMA ClientStep ==
    ASSUME ClientInv, Serialised, ~StateFails, [ClientNext]_clientVars
    PROVE  ClientInv'
<1>1. CASE ClientNext
  <2>1. PICK t \in Threads : Opening(t) \/ Closing(t) \/ SetRetry(t)
    BY <1>1 DEF ClientNext
  <2>2. CASE OpenRefused(t)
    <3>1. Busy(t) /\ Entry(t).sock = 0
      BY <2>2, BusyHas DEF OpenRefused, Mine, Busy, StageOf
    <3> QED BY <2>2, <3>1, AbandonKeeps DEF OpenRefused
  <2>3. CASE ~OpenRefused(t)
    BY <2>1, <2>3, ParseKeeps, StayKeeps, DeviceKeeps, CloseKeeps, EnterKeeps, RetryKeeps
       DEF Opening, Closing
  <2> QED BY <2>2, <2>3
<1>2. CASE UNCHANGED clientVars
  BY <1>2 DEF clientVars, ClientInv, ClientTypes, Alone, Staged, AtRest, Connected, Owned, Counting,
              Busy, Entry, Networked
<1> QED BY <1>1, <1>2

(* As long as the application opens and closes one connection at a time and a serial
   port that opens takes its settings, a handle stands for a whole connection of its
   own, and between the calls the handles account for every descriptor, address,
   mutex and entry, whatever openings failed in between (bCap_Open_Client,
   bCap_Close_Client): for every number of threads, entries and connection strings. *)
THEOREM ResourcesStayAccounted == Serialised /\ ~StateFails => (ClientSpec => []ResourcesAccounted)
<1> SUFFICES ASSUME Serialised, ~StateFails PROVE ClientSpec => []ResourcesAccounted
  OBVIOUS
<1>1. ClientInv /\ [ClientNext]_clientVars => ClientInv'
  BY ClientStep
<1>2. ClientInv => ResourcesAccounted
  <2> SUFFICES ASSUME ClientInv PROVE ResourcesAccounted
    OBVIOUS
  <2>1. connected \subseteq Indexes /\ \A i \in connected : Stands(table[i])
    BY DEF ClientInv, ClientTypes, Connected
  <2>2. HandlesWhole
    BY <2>1 DEF HandlesWhole, Stands, ClientInv, Owned
  <2>3. ASSUME \A t \in Threads : at[t].pc = "idle"
        PROVE  /\ opened = {table[i].sock : i \in connected}
               /\ blocks = {table[i].arg : i \in connected} \ {0}
               /\ counter = Cardinality({i \in connected : table[i].type # COM})
               /\ \A i \in Indexes \ connected : table[i] = Reset
    <3>1. \A i \in Indexes \ connected : table[i] = Reset
      BY <2>3 DEF ClientInv, AtRest, Busy
    <3>2. \A i \in Indexes \ connected : table[i].sock = 0 /\ table[i].arg = 0
      BY <3>1 DEF Reset
    <3>3. \A i \in connected : table[i].sock # 0
      BY <2>1 DEF Stands
    <3>4. opened = {table[i].sock : i \in connected}
      BY <2>1, <3>2, <3>3 DEF ClientInv, Owned
    <3>5. blocks = {table[i].arg : i \in connected} \ {0}
      BY <2>1, <3>2 DEF ClientInv, Owned
    <3>6. Networked = {i \in connected : table[i].type # COM}
      BY <2>1, <3>2, <3>3 DEF Networked
    <3> QED BY <3>1, <3>4, <3>5, <3>6 DEF ClientInv, Counting
  <2> QED BY <2>2, <2>3 DEF ResourcesAccounted
<1> QED BY <1>1, <1>2, ClientStart, PTL DEF ClientSpec

-----------------------------------------------------------------------------
(* FunctionTable. *)

(* A new head, and an element less, of a sequence without repetitions. *)
LEMMA PrependOnce ==
    ASSUME NEW S, NEW s \in Seq(S), OnceEach(s), NEW n \in S, n \notin ToSet(s)
    PROVE  OnceEach(<<n>> \o s) /\ ToSet(<<n>> \o s) = ToSet(s) \cup {n}
<1> DEFINE r == <<n>> \o s
<1>1. /\ r \in Seq(S) /\ Len(r) = Len(s) + 1 /\ Len(s) \in Nat /\ r[1] = n
      /\ \A k \in 1..Len(s) : r[k + 1] = s[k]
  BY PrependIs
<1> HIDE DEF r
<1>2. ASSUME NEW k \in DOMAIN r
      PROVE  (k = 1 /\ r[k] = n) \/ (k # 1 /\ k - 1 \in DOMAIN s /\ r[k] = s[k - 1])
  <2> SUFFICES ASSUME k # 1 PROVE k - 1 \in DOMAIN s /\ r[k] = s[k - 1]
    BY <1>1
  <2>1. k - 1 \in 1..Len(s) /\ (k - 1) + 1 = k
    BY <1>1
  <2>2. r[(k - 1) + 1] = s[k - 1]
    BY <1>1, <2>1
  <2> QED BY <2>1, <2>2
<1>3. \A k \in DOMAIN s : s[k] # n
  BY DEF ToSet
<1>4. ASSUME NEW j \in DOMAIN r, NEW k \in DOMAIN r, r[j] = r[k] PROVE j = k
  <2>1. j \in Int /\ k \in Int
    BY <1>1
  <2>2. CASE j = 1 \/ k = 1
    BY <1>2, <1>3, <1>4, <2>2
  <2>3. CASE j # 1 /\ k # 1
    <3>1. j - 1 \in DOMAIN s /\ k - 1 \in DOMAIN s /\ s[j - 1] = s[k - 1]
      BY <1>2, <1>4, <2>3
    <3> QED BY <2>1, <3>1 DEF OnceEach
  <2> QED BY <2>2, <2>3
<1>5. \A k \in DOMAIN s : k + 1 \in DOMAIN r /\ r[k + 1] = s[k]
  BY <1>1
<1>6. 1 \in DOMAIN r /\ r[1] = n
  BY <1>1
<1>7. \A x \in ToSet(r) : x \in ToSet(s) \cup {n}
  BY <1>2 DEF ToSet
<1>8. \A x \in ToSet(s) \cup {n} : x \in ToSet(r)
  BY <1>5, <1>6 DEF ToSet
<1> QED BY <1>4, <1>7, <1>8 DEF OnceEach, r

LEMMA RemoveOnce ==
    ASSUME NEW S, NEW s \in Seq(S), OnceEach(s), NEW i \in DOMAIN s
    PROVE  OnceEach(RemoveAt(s, i)) /\ ToSet(RemoveAt(s, i)) = ToSet(s) \ {s[i]}
<1> DEFINE r == RemoveAt(s, i)
<1>1. /\ r \in Seq(S) /\ DOMAIN r = 1..Len(s) - 1
      /\ \A k \in 1..Len(s) - 1 : r[k] = IF k < i THEN s[k] ELSE s[k + 1]
  BY RemoveAtIs
<1>2. i \in 1..Len(s) /\ Len(s) \in Nat
  OBVIOUS
<1> HIDE DEF r
<1>3. ASSUME NEW k \in DOMAIN r
      PROVE  \/ k < i /\ k \in DOMAIN s /\ r[k] = s[k] /\ k # i
             \/ i <= k /\ k + 1 \in DOMAIN s /\ r[k] = s[k + 1] /\ k + 1 # i
  <2>1. k \in 1..Len(s) - 1
    BY <1>1
  <2>2. r[k] = IF k < i THEN s[k] ELSE s[k + 1]
    BY <1>1, <2>1
  <2> QED BY <1>2, <2>1, <2>2
<1>4. ASSUME NEW j \in DOMAIN r, NEW k \in DOMAIN r, r[j] = r[k] PROVE j = k
  <2>1. j \in 1..Len(s) - 1 /\ k \in 1..Len(s) - 1
    BY <1>1
  <2> QED BY <1>2, <1>3, <1>4, <2>1 DEF OnceEach
<1>5. ASSUME NEW j \in DOMAIN s, j # i PROVE \E k \in DOMAIN r : r[k] = s[j]
  <2>1. CASE j < i
    <3>1. j \in 1..Len(s) - 1 /\ r[j] = s[j]
      BY <1>1, <1>2, <2>1
    <3> QED BY <1>1, <3>1
  <2>2. CASE i < j
    <3>1. j - 1 \in 1..Len(s) - 1 /\ ~(j - 1 < i) /\ (j - 1) + 1 = j
      BY <1>2, <2>2
    <3>2. r[j - 1] = s[j]
      BY <1>1, <3>1
    <3> QED BY <1>1, <3>1, <3>2
  <2> QED BY <1>2, <1>5, <2>1, <2>2
<1>6. \A x \in ToSet(r) : x \in ToSet(s) \ {s[i]}
  BY <1>3 DEF ToSet, OnceEach
<1>7. \A x \in ToSet(s) \ {s[i]} : x \in ToSet(r)
  BY <1>5 DEF ToSet
<1> QED BY <1>4, <1>6, <1>7 DEF OnceEach, r

(* The vector is a list, without repetitions, of what releases the objects that the
   provider holds; each is of a class that some function makes. *)
Entries == [id : Int, hObj : Handles \cup {0}]
ReleasedBy(o) == [id |-> ReleaseOf(o[1]), hObj |-> o[2]]
MadeObjects == {<<Made(id), h>> : id \in {i \in Called : Creates(i)}, h \in Handles \cup {0}}
TableInv ==
    /\ held \subseteq MadeObjects /\ IsFiniteSet(held) /\ known = held /\ lost = {}
    /\ vector \in Seq(Entries) /\ OnceEach(vector) /\ Len(vector) = Cardinality(held)
    /\ ToSet(vector) = {ReleasedBy(o) : o \in held}

(* What releases an object tells the object. *)
LEMMA ReleasedOne ==
    ASSUME RowsAgree
    PROVE  /\ \A o, p \in MadeObjects : ReleasedBy(o) = ReleasedBy(p) => o = p
           /\ \A o \in MadeObjects : ReleasedBy(o) \in Entries /\ ClassOf(ReleaseOf(o[1])) = o[1]
                                     /\ o = <<o[1], o[2]>>
<1>1. ASSUME NEW o \in MadeObjects
      PROVE  /\ ReleasedBy(o) \in Entries /\ ClassOf(ReleaseOf(o[1])) = o[1] /\ o = <<o[1], o[2]>>
             /\ ReleasedBy(o).id = ReleaseOf(o[1]) /\ ReleasedBy(o).hObj = o[2]
  <2>1. PICK id \in Called, h \in Handles \cup {0} : Creates(id) /\ o = <<Made(id), h>>
    BY DEF MadeObjects
  <2>2. Relation(id) = ReleaseOf(Made(id)) /\ Relation(id) > 0 /\ ClassOf(ReleaseOf(Made(id))) = Made(id)
    BY <2>1 DEF RowsAgree
  <2>3. Relation(id) \in Int
    BY DEF Relation
  <2> QED BY <2>1, <2>2, <2>3 DEF ReleasedBy, Entries
<1>2. ASSUME NEW o \in MadeObjects, NEW p \in MadeObjects, ReleasedBy(o) = ReleasedBy(p) PROVE o = p
  <2>1. ReleaseOf(o[1]) = ReleaseOf(p[1]) /\ o[2] = p[2]
    BY <1>1, <1>2
  <2> QED BY <1>1, <2>1
<1> QED BY <1>1, <1>2

(* The least of the places where something occurs, as pop_vector finds it. *)
LEMMA LeastHit ==
    ASSUME NEW D \in SUBSET Nat, D # {}
    PROVE  (CHOOSE k \in D : \A j \in D : k <= j) \in D
<1>1. PICK k \in D : \A j \in D : <<j, k>> \notin OpToRel(<, Nat)
  BY WFMin, NatLessThanWellFounded
<1>2. \A j \in D : ~(j < k)
  BY <1>1 DEF OpToRel
<1>3. \A j \in D : k <= j
  BY <1>2
<1> QED BY <1>3

(* What a call does to the vector, by the row of its function. *)
LEMMA PushIs ==
    ASSUME RowsAgree, TableInv, NEW id \in Called, Creates(id), NEW new \in Handles \cup {0},
           <<Made(id), new>> \notin held, id = Start <=> new = 0
    PROVE  LET s == Push(id, new) IN
           /\ s \in Seq(Entries) /\ OnceEach(s) /\ Len(s) = Len(vector) + 1
           /\ ToSet(s) = {ReleasedBy(o) : o \in held \cup {<<Made(id), new>>}}
<1> DEFINE o == <<Made(id), new>>
           e == [id |-> Relation(id), hObj |-> IF id = Start THEN 0 ELSE new]
<1>1. o \in MadeObjects
  BY DEF MadeObjects
<1>2. e = ReleasedBy(o)
  BY DEF RowsAgree, ReleasedBy
<1>3. e \in Entries
  BY <1>1, <1>2, ReleasedOne
<1>4. e \notin ToSet(vector)
  BY <1>1, <1>2, ReleasedOne DEF TableInv
<1>5. Push(id, new) = <<e>> \o vector
  BY DEF Push
<1> HIDE DEF e
<1>6. /\ <<e>> \o vector \in Seq(Entries) /\ Len(<<e>> \o vector) = Len(vector) + 1
  BY <1>3, PrependIs DEF TableInv
<1>7. OnceEach(<<e>> \o vector) /\ ToSet(<<e>> \o vector) = ToSet(vector) \cup {e}
  BY <1>3, <1>4, PrependOnce DEF TableInv
<1>8. ToSet(vector) \cup {e} = {ReleasedBy(p) : p \in held \cup {o}}
  BY <1>2 DEF TableInv
<1> QED BY <1>5, <1>6, <1>7, <1>8

LEMMA PopIs ==
    ASSUME RowsAgree, TableInv, NEW id \in Called, Releases(id), NEW arg \in Handles \cup {0}
    PROVE  LET s == Pop(id, arg)
               o == <<ClassOf(id), arg>> IN
           /\ s \in Seq(Entries) /\ OnceEach(s)
           /\ Len(s) = IF o \in held THEN Len(vector) - 1 ELSE Len(vector)
           /\ ToSet(s) = {ReleasedBy(p) : p \in held \ {o}}
<1> DEFINE o == <<ClassOf(id), arg>>
           e == [id |-> id, hObj |-> arg]
           hits == {k \in DOMAIN vector : vector[k] = e}
           i == CHOOSE k \in hits : \A j \in hits : k <= j
<1>1. Pop(id, arg) = IF hits = {} THEN vector ELSE RemoveAt(vector, i)
  BY DEF Pop
<1>2. ReleasedBy(o) = e
  BY DEF RowsAgree, ReleasedBy
<1>3. ASSUME NEW p \in held, ReleasedBy(p) = e PROVE p = o
  <2>1. p \in MadeObjects
    BY DEF TableInv
  <2>2. ClassOf(ReleaseOf(p[1])) = p[1] /\ p = <<p[1], p[2]>>
    BY <2>1, ReleasedOne
  <2>3. ReleaseOf(p[1]) = id /\ p[2] = arg
    BY <1>3 DEF ReleasedBy
  <2> QED BY <2>2, <2>3
<1> HIDE DEF e, o
<1>4. hits = {} <=> o \notin held
  <2>1. hits = {} <=> e \notin ToSet(vector)
    BY DEF ToSet
  <2>2. e \in ToSet(vector) <=> \E p \in held : ReleasedBy(p) = e
    BY DEF TableInv
  <2> QED BY <1>2, <1>3, <2>1, <2>2
<1>5. CASE hits = {}
  BY <1>1, <1>4, <1>5 DEF TableInv, o
<1>6. CASE hits # {}
  <2>1. i \in DOMAIN vector /\ vector[i] = e
    <3>1. hits \in SUBSET Nat
      BY DEF TableInv
    <3> QED BY <1>6, <3>1, LeastHit
  <2> HIDE DEF i, hits
  <2>2. Len(RemoveAt(vector, i)) = Len(vector) - 1 /\ RemoveAt(vector, i) \in Seq(Entries)
    BY <2>1, RemoveAtIs DEF TableInv
  <2>3. OnceEach(RemoveAt(vector, i)) /\ ToSet(RemoveAt(vector, i)) = ToSet(vector) \ {e}
    BY <2>1, RemoveOnce DEF TableInv
  <2>4. ToSet(vector) \ {e} = {ReleasedBy(p) : p \in held \ {o}}
    <3>1. \A x \in ToSet(vector) \ {e} : \E p \in held \ {o} : x = ReleasedBy(p)
      BY <1>2 DEF TableInv
    <3>2. \A p \in held \ {o} : ReleasedBy(p) \in ToSet(vector) \ {e}
      BY <1>3 DEF TableInv
    <3> QED BY <3>1, <3>2
  <2> QED BY <1>1, <1>4, <1>6, <2>2, <2>3, <2>4 DEF o
<1> QED BY <1>5, <1>6

LEMMA CallKeepsTable ==
    ASSUME TableAssumption, RowsAgree, TableInv,
           NEW id \in Called, NEW arg \in Handles \cup {0}, NEW new \in Handles \cup {0},
           NEW ret \in BOOLEAN, CallFn(id, arg, new, ret)
    PROVE  TableInv'
<1>1. lost' = {}
  BY DEF CallFn, TableInv, Delivered, RowsAgree
<1>2. Len(vector) = Cardinality(held) /\ IsFiniteSet(held)
  BY DEF TableInv
<1>3. CASE Creates(id)
  <2> DEFINE o == <<Made(id), new>>
  <2>1. ~Releases(id) /\ o \notin held /\ (id = Start <=> new = 0) /\ Relation(id) > 0
    BY <1>3 DEF CallFn, RowsAgree
  <2>2. id = Start \/ Delivered(id, ret)
    BY <1>3 DEF CallFn, RowsAgree, Sends, Delivered
  <2>3. held' = held \cup {o} /\ known' = held'
    BY <1>3, <2>1, <2>2 DEF CallFn, TableInv
  <2>4. vector' = Push(id, new)
    BY <2>1 DEF CallFn, VectorAfter
  <2>5. o \in MadeObjects
    BY <1>3 DEF MadeObjects
  <2> HIDE DEF o
  <2>6. IsFiniteSet(held') /\ Cardinality(held') = Cardinality(held) + 1
    BY <1>2, <2>1, <2>3, FS_AddElement
  <2>7. /\ vector' \in Seq(Entries) /\ OnceEach(vector') /\ Len(vector') = Len(vector) + 1
        /\ ToSet(vector') = {ReleasedBy(p) : p \in held'}
    BY <1>3, <2>1, <2>3, <2>4, PushIs DEF o
  <2> QED BY <1>1, <1>2, <2>3, <2>5, <2>6, <2>7 DEF TableInv, OnceEach, ToSet
<1>4. CASE Releases(id)
  <2> DEFINE o == <<ClassOf(id), arg>>
  <2>1. ~Creates(id) /\ Relation(id) = -1
    BY <1>4 DEF RowsAgree
  <2>2. held' = held \ {o} /\ known' = held'
    BY <1>4, <2>1 DEF CallFn, TableInv
  <2>3. vector' = Pop(id, arg)
    BY <2>1 DEF CallFn, VectorAfter
  <2> HIDE DEF o
  <2>4. /\ IsFiniteSet(held')
        /\ Cardinality(held') = IF o \in held THEN Cardinality(held) - 1 ELSE Cardinality(held)
    BY <1>2, <2>2, FS_RemoveElement
  <2>5. /\ vector' \in Seq(Entries) /\ OnceEach(vector')
        /\ Len(vector') = IF o \in held THEN Len(vector) - 1 ELSE Len(vector)
        /\ ToSet(vector') = {ReleasedBy(p) : p \in held'}
    BY <1>4, <2>2, <2>3, PopIs DEF o
  <2> QED BY <1>1, <1>2, <2>2, <2>4, <2>5 DEF TableInv, OnceEach, ToSet
<1>5. CASE ~Creates(id) /\ ~Releases(id)
  <2>1. Relation(id) = 0
    BY <1>5 DEF RowsAgree
  <2>2. vector' = vector /\ held' = held /\ known' = known
    BY <1>5, <2>1 DEF CallFn, VectorAfter
  <2> QED BY <1>1, <2>2 DEF TableInv, OnceEach, ToSet
<1> QED BY <1>3, <1>4, <1>5

(* The end of the connection releases everything: an entry names the class and the
   handle of its object. *)
LEMMA DisconnectKeepsTable ==
    ASSUME RowsAgree, TableInv, Disconnect
    PROVE  TableInv'
<1>1. vector' = <<>> /\ known' = {} /\ lost' = {}
  BY DEF Disconnect, TableInv
<1>2. ASSUME NEW o \in held
      PROVE  \E k \in DOMAIN vector : o = <<ClassOf(vector[k].id), vector[k].hObj>>
  <2>1. ReleasedBy(o) \in ToSet(vector) /\ o \in MadeObjects
    BY DEF TableInv
  <2>2. PICK k \in DOMAIN vector : vector[k] = ReleasedBy(o)
    BY <2>1 DEF ToSet
  <2>3. ClassOf(ReleaseOf(o[1])) = o[1] /\ o = <<o[1], o[2]>>
    BY <2>1, ReleasedOne
  <2> QED BY <2>2, <2>3 DEF ReleasedBy
<1>3. held' = {}
  BY <1>2 DEF Disconnect
<1> QED BY <1>1, <1>3, FS_EmptySet DEF TableInv, OnceEach, ToSet

LEMMA TableInvImplies == TableInv => TablesAgree
  BY DEF TableInv, TablesAgree, ObjectsAccounted, ResultsDelivered, ReleasedBy

(* The client and the server agree on every function: the vector of a connection
   holds the releasing function and the handle of exactly the objects the provider
   holds, the client can name each of them, and every result it expects comes,
   whatever it calls in whatever order (m_map_id of bcap_mapid.h, bcap_callfunc,
   the wrappers of bcap_client.c), when the rows of what it calls agree. *)
THEOREM TablesStayAgreed == RowsAgree => (TableSpec => []TablesAgree)
<1> SUFFICES ASSUME RowsAgree PROVE TableSpec => []TablesAgree
  OBVIOUS
<1>1. TableInit => TableInv
  BY FS_EmptySet DEF TableInit, TableInv, OnceEach, ToSet
<1>2. TableInv /\ [TableNext]_tableVars => TableInv'
  <2> SUFFICES ASSUME TableInv, [TableNext]_tableVars PROVE TableInv'
    OBVIOUS
  <2>1. ASSUME NEW id \in Called, NEW arg \in Handles \cup {0}, NEW new \in Handles \cup {0},
               NEW ret \in BOOLEAN, CallFn(id, arg, new, ret)
        PROVE  TableInv'
    BY <2>1, TableAssumption, CallKeepsTable
  <2>2. CASE Disconnect
    BY <2>2, DisconnectKeepsTable
  <2>3. CASE UNCHANGED tableVars
    BY <2>3 DEF tableVars, TableInv, OnceEach, ToSet
  <2> QED BY <2>1, <2>2, <2>3 DEF TableNext
<1> QED BY <1>1, <1>2, TableInvImplies, PTL DEF TableSpec

-----------------------------------------------------------------------------
(* Framing, over TCP. *)

(* The i-th packet on the line, and where each of the packets sent ends in the
   stream: off[0] is the beginning. *)
Pkt(i) == Frame("tcp", Contents[i])
Postable == Contents \in Seq(Seq(Nat)) /\ BufferMax \in Nat
Offsets(off) ==
    /\ off \in [0..sent -> Nat] /\ off[0] = 0
    /\ \A i \in 1..sent : off[i] = off[i - 1] + Len(Contents[i]) + 3
    /\ \A i \in 0..sent : off[i] <= off[sent]
(* How much of the stream was read, and that the wire holds what follows of it. *)
ReadSoFar(off) == off[Len(received)] + (IF pc = "body" THEN Len(body) ELSE 0)
OnTheWire(off) ==
    /\ Len(wire) = off[sent] - ReadSoFar(off)
    /\ \A i \in 1..sent : \A k \in 1..Len(Contents[i]) + 3 :
          off[i - 1] + k > ReadSoFar(off) => wire[off[i - 1] + k - ReadSoFar(off)] = Pkt(i)[k]
(* The part of a packet that was read is the beginning of the next one. *)
InTheBody ==
    /\ Len(received) < sent /\ need = Len(Contents[Len(received) + 1]) + 3
    /\ Len(body) <= need
    /\ \A k \in 1..Len(body) : body[k] = Pkt(Len(received) + 1)[k]
StreamTypes ==
    /\ line = "tcp" /\ sent \in 0..Len(Contents) /\ wire \in Seq(Nat) /\ buf = <<>>
    /\ pc \in {"scan", "body"} /\ body \in Seq(Nat) /\ need \in Nat
    /\ received \in Seq(Seq(Nat)) /\ Len(received) <= sent
    /\ \A i \in 1..Len(received) : received[i] = Contents[i]
StreamInv ==
    /\ StreamTypes
    /\ pc = "body" => InTheBody
    /\ \E off : Offsets(off) /\ OnTheWire(off)
TcpInv == line = "tcp" => StreamInv

(* Two elements before and one after a sequence, and one more. *)
LEMMA FramedIs ==
    ASSUME NEW S, NEW c \in Seq(S), NEW a \in S, NEW b \in S, NEW z \in S
    PROVE  LET f == <<a, b>> \o c \o <<z>> IN
           /\ f \in Seq(S) /\ Len(c) \in Nat /\ Len(f) = Len(c) + 3
           /\ f[1] = a /\ f[2] = b /\ f[Len(c) + 3] = z
           /\ SubSeq(f, 3, Len(c) + 2) = c
<1> DEFINE f == <<a, b>> \o c \o <<z>>
<1>1. Len(c) \in Nat
  OBVIOUS
<1>2. f \in Seq(S) /\ Len(f) = Len(c) + 3
  OBVIOUS
<1>3. f[1] = a /\ f[2] = b /\ f[Len(c) + 3] = z
  OBVIOUS
<1>4. \A k \in 1..Len(c) : f[k + 2] = c[k]
  OBVIOUS
<1> HIDE DEF f
<1>5. SubSeq(f, 3, Len(c) + 2) = c
  BY <1>1, <1>2, <1>4
<1> QED BY <1>1, <1>2, <1>3, <1>5 DEF f

LEMMA FramedTwiceIs ==
    ASSUME NEW S, NEW c \in Seq(S), NEW a \in S, NEW b \in S, NEW y \in S, NEW z \in S
    PROVE  LET f == <<a, b>> \o c \o <<y, z>> IN
           /\ f \in Seq(S) /\ Len(c) \in Nat /\ Len(f) = Len(c) + 4
           /\ f[1] = a /\ f[2] = b
           /\ SubSeq(f, 3, Len(c) + 2) = c
<1> DEFINE f == <<a, b>> \o c \o <<y, z>>
<1>1. Len(c) \in Nat
  OBVIOUS
<1>2. f \in Seq(S) /\ Len(f) = Len(c) + 4
  OBVIOUS
<1>3. f[1] = a /\ f[2] = b
  OBVIOUS
<1>4. \A k \in 1..Len(c) : f[k + 2] = c[k]
  OBVIOUS
<1> HIDE DEF f
<1>5. SubSeq(f, 3, Len(c) + 2) = c
  BY <1>1, <1>2, <1>4
<1> QED BY <1>1, <1>2, <1>3, <1>5 DEF f

(* bcap_packet2bytary and bcap_bytary2packet over TCP: length, header, terminator,
   and the contents back. *)
LEMMA FrameIs ==
    ASSUME Postable, NEW i \in 1..Len(Contents)
    PROVE  /\ Contents[i] \in Seq(Nat) /\ Len(Contents[i]) \in Nat
           /\ Pkt(i) \in Seq(Nat) /\ Len(Pkt(i)) = Len(Contents[i]) + 3
           /\ Pkt(i)[1] = Header /\ Pkt(i)[2] = Len(Contents[i]) + 3
           /\ Pkt(i)[Len(Contents[i]) + 3] = Terminator
           /\ SubSeq(Pkt(i), 3, Len(Contents[i]) + 2) = Contents[i]
<1> DEFINE c == Contents[i]
<1>1. c \in Seq(Nat) /\ Len(c) \in Nat
  BY DEF Postable
<1>2. Pkt(i) = <<Header, Len(c) + 3>> \o c \o <<Terminator>>
  BY DEF Pkt, Frame
<1> HIDE DEF c
<1>3. Header \in Nat /\ Len(c) + 3 \in Nat /\ Terminator \in Nat
  BY <1>1 DEF Header, Terminator
<1> DEFINE f == <<Header, Len(c) + 3>> \o c \o <<Terminator>>
<1>4. /\ f \in Seq(Nat) /\ Len(f) = Len(c) + 3 /\ f[1] = Header /\ f[2] = Len(c) + 3
      /\ f[Len(c) + 3] = Terminator /\ SubSeq(f, 3, Len(c) + 2) = c
  BY <1>1, <1>3, FramedIs
<1> HIDE DEF f
<1>5. Pkt(i) = f
  BY <1>2 DEF f
<1> QED BY <1>1, <1>4, <1>5 DEF c

(* What is left of the wire when some of it was read. *)
LEMMA RestIs ==
    ASSUME wire \in Seq(Nat), NEW n \in 0..Len(wire)
    PROVE  /\ Rest(n) \in Seq(Nat) /\ Len(Rest(n)) = Len(wire) - n
           /\ \A k \in 1..Len(wire) - n : Rest(n)[k] = wire[k + n]
  BY DEF Rest

(* memchr on what begins with a header. *)
LEMMA FromHeaderIs ==
    ASSUME NEW S, NEW b \in Seq(S), Len(b) >= 1, b[1] = Header
    PROVE  FromHeader(b) = b
<1> DEFINE pos == {i \in DOMAIN b : b[i] = Header}
           least == CHOOSE i \in pos : \A j \in pos : i <= j
<1>1. 1 \in pos /\ \A j \in pos : 1 <= j
  OBVIOUS
<1>2. least \in pos /\ \A j \in pos : least <= j
  BY <1>1
<1>3. least = 1
  BY <1>1, <1>2
<1> HIDE DEF least
<1>4. FromHeader(b) = SubSeq(b, least, Len(b))
  BY <1>1 DEF FromHeader, least
<1>5. SubSeq(b, 1, Len(b)) = b
  OBVIOUS
<1> QED BY <1>3, <1>4, <1>5

(* What the wire holds between packets begins with the next of them. *)
LEMMA NextOnTheWire ==
    ASSUME Postable, StreamInv, pc = "scan", NEW off, Offsets(off), OnTheWire(off),
           Len(wire) >= 1, NEW r, r = Len(received) + 1
    PROVE  /\ r \in 1..sent /\ r \in 1..Len(Contents)
           /\ Len(Contents[r]) + 3 <= Len(wire)
           /\ \A k \in 1..Len(Contents[r]) + 3 : wire[k] = Pkt(r)[k]
<1> DEFINE got == Len(received)
<1>1. got \in Nat /\ got <= sent /\ sent \in Nat /\ sent <= Len(Contents)
  BY DEF StreamInv, StreamTypes
<1>2. off[sent] \in Nat /\ off[got] \in Nat
  BY <1>1 DEF Offsets
<1>3. ReadSoFar(off) = off[got]
  BY <1>2 DEF ReadSoFar
<1>4. Len(wire) = off[sent] - off[got]
  BY <1>3 DEF OnTheWire
<1>5. got # sent
  BY <1>2, <1>4
<1>6. r \in 1..sent /\ r - 1 = got
  BY <1>1, <1>5
<1>7. r \in 1..Len(Contents)
  BY <1>1, <1>6
<1> HIDE DEF got
<1>8. Len(Contents[r]) \in Nat
  BY <1>7, FrameIs
<1>9. off[r] = off[got] + Len(Contents[r]) + 3 /\ off[r] <= off[sent]
  BY <1>6 DEF Offsets
<1>10. ASSUME NEW k \in 1..Len(Contents[r]) + 3 PROVE wire[k] = Pkt(r)[k]
  <2>0. k \in Int /\ k >= 1
    BY <1>8
  <2>1. off[got] + k > off[got] /\ off[got] + k - off[got] = k
    BY <1>2, <2>0
  <2> QED BY <1>3, <1>6, <2>1 DEF OnTheWire
<1>11. Len(Contents[r]) + 3 <= Len(wire)
  <2> DEFINE n == Len(Contents[r])
             pos == off[got]
             to == off[sent]
  <2>1. n \in Nat /\ pos \in Nat /\ to \in Nat /\ off[r] = pos + n + 3 /\ off[r] <= to /\ Len(wire) = to - pos
    BY <1>2, <1>4, <1>8, <1>9
  <2> HIDE DEF n, pos, to
  <2>2. pos + n + 3 <= to
    BY <2>1
  <2>3. n + 3 <= Len(wire)
    BY <2>1, <2>2
  <2> QED BY <2>3 DEF n
<1> QED BY <1>6, <1>7, <1>10, <1>11

LEMMA JoinedIs ==
    ASSUME NEW S, NEW s \in Seq(S), NEW t \in Seq(S)
    PROVE  /\ s \o t \in Seq(S) /\ Len(s \o t) = Len(s) + Len(t)
           /\ \A k \in 1..Len(s) : (s \o t)[k] = s[k]
           /\ \A k \in 1..Len(t) : (s \o t)[Len(s) + k] = t[k]
  OBVIOUS

LEMMA BeginningIs ==
    ASSUME NEW S, NEW s \in Seq(S), NEW m \in 0..Len(s)
    PROVE  /\ SubSeq(s, 1, m) \in Seq(S) /\ Len(SubSeq(s, 1, m)) = m
           /\ \A k \in 1..m : SubSeq(s, 1, m)[k] = s[k]
  OBVIOUS

LEMMA ReadMore ==
    ASSUME NEW b \in Seq(Nat), NEW w \in Seq(Nat), NEW k \in 0..Len(w)
    PROVE  LET s == b \o SubSeq(w, 1, k) IN
           /\ s \in Seq(Nat) /\ Len(s) = Len(b) + k
           /\ \A j \in 1..Len(b) : s[j] = b[j]
           /\ \A j \in 1..k : s[Len(b) + j] = w[j]
<1> DEFINE a == SubSeq(w, 1, k)
<1>1. a \in Seq(Nat) /\ Len(a) = k /\ \A j \in 1..k : a[j] = w[j]
  BY BeginningIs
<1> HIDE DEF a
<1>2. /\ b \o a \in Seq(Nat) /\ Len(b \o a) = Len(b) + Len(a)
      /\ \A j \in 1..Len(b) : (b \o a)[j] = b[j]
      /\ \A j \in 1..Len(a) : (b \o a)[Len(b) + j] = a[j]
  <2>1. a \in Seq(Nat)
    BY <1>1
  <2> QED BY <2>1, JoinedIs
<1> QED BY <1>1, <1>2 DEF a

LEMMA SamePrefix ==
    ASSUME NEW S, NEW s \in Seq(S), NEW t \in Seq(S), NEW n \in 0..Len(t), Len(s) <= n,
           \A i \in 1..Len(s) : s[i] = t[i]
    PROVE  IsPrefix(s, SubSeq(t, 1, n))
<1> DEFINE u == SubSeq(t, 1, n)
           v == SubSeq(u, 1, Len(s))
<1>1. Len(s) \in 0..n /\ n \in Nat
  OBVIOUS
<1>2. u \in Seq(S) /\ Len(u) = n /\ \A k \in 1..n : u[k] = t[k]
  BY BeginningIs
<1> HIDE DEF u
<1>3. v \in Seq(S) /\ Len(v) = Len(s) /\ \A k \in 1..Len(s) : v[k] = u[k]
  BY <1>1, <1>2, BeginningIs
<1> HIDE DEF v
<1>4. \A k \in 1..Len(s) : k \in 1..n /\ v[k] = s[k]
  BY <1>1, <1>2, <1>3
<1>5. v = s
  BY <1>3, <1>4
<1>6. SubSeq(s, 1, Len(s)) = s
  OBVIOUS
<1> QED BY <1>2, <1>5, <1>6 DEF IsPrefix, u, v

(* Reading on. *)
LEMMA OnTheWireStays ==
    ASSUME Postable, StreamTypes, NEW off, Offsets(off), OnTheWire(off),
           NEW n \in 0..Len(wire), wire' = Rest(n), sent' = sent,
           ReadSoFar(off) \in Nat, ReadSoFar(off)' = ReadSoFar(off) + n
    PROVE  OnTheWire(off)'
<1> DEFINE pos == ReadSoFar(off)
           to == off[sent]
<1>1. /\ Len(wire') = Len(wire) - n
      /\ \A k \in 1..Len(wire) - n : wire'[k] = wire[k + n]
  BY RestIs DEF StreamTypes
<1>2. to \in Nat /\ Len(wire) = to - pos /\ sent \in Nat /\ Len(wire) \in Nat
  BY DEF Offsets, OnTheWire, StreamTypes
<1>3. ASSUME NEW i \in 1..sent, NEW k \in 1..Len(Contents[i]) + 3, off[i - 1] + k > pos + n
      PROVE  wire'[off[i - 1] + k - (pos + n)] = Pkt(i)[k]
  <2> DEFINE from == off[i - 1]
             len == Len(Contents[i])
  <2>1. i \in 1..Len(Contents)
    BY DEF StreamTypes
  <2>2. len \in Nat
    BY <2>1, FrameIs
  <2>3. i - 1 \in 0..sent /\ i \in 0..sent
    BY <1>2
  <2>4. from \in Nat /\ off[i] = from + len + 3 /\ off[i] <= to
    BY <2>3 DEF Offsets
  <2>5. k \in Int /\ 1 <= k /\ k <= len + 3
    BY <2>2
  <2> DEFINE j == from + k - (pos + n)
  <2> HIDE DEF pos, to, from, len
  <2>6. from + k > pos + n /\ pos \in Nat /\ to \in Nat /\ Len(wire) = to - pos /\ n \in Nat
    BY <1>2, <1>3 DEF pos, from, to
  <2>9. from + k > pos /\ j + n = from + k - pos /\ j \in 1..Len(wire) - n
    BY <2>2, <2>4, <2>5, <2>6
  <2>7. wire[from + k - pos] = Pkt(i)[k]
    BY <2>5, <2>9 DEF OnTheWire, pos, from, len
  <2> HIDE DEF j
  <2>8. wire'[j] = wire[j + n]
    BY <1>1, <2>9
  <2> QED BY <2>7, <2>8, <2>9 DEF j, pos, from
<1>4. Len(wire') = to - (pos + n)
  BY <1>1, <1>2
<1> QED BY <1>3, <1>4 DEF OnTheWire

LEMMA SendKeepsStream ==
    ASSUME Postable, TcpInv, line = "tcp", SendPacket
    PROVE  TcpInv'
<1>1. /\ line' = "tcp" /\ sent < Len(Contents) /\ sent' = sent + 1 /\ wire' = wire \o Pkt(sent + 1)
      /\ UNCHANGED <<pc, buf, body, need, received>>
  BY DEF SendPacket, SendTcp, SendSerial, Pkt
<1>2. StreamInv
  BY DEF TcpInv
<1>3. sent \in Nat /\ sent + 1 \in 1..Len(Contents)
  BY <1>1, <1>2 DEF StreamInv, StreamTypes
<1>4. /\ Pkt(sent + 1) \in Seq(Nat) /\ Len(Pkt(sent + 1)) = Len(Contents[sent + 1]) + 3
      /\ Len(Contents[sent + 1]) \in Nat
  BY <1>3, FrameIs
<1>5. StreamTypes'
  <2>1. wire' \in Seq(Nat)
    BY <1>1, <1>2, <1>4 DEF StreamInv, StreamTypes
  <2>2. sent' \in 0..Len(Contents) /\ Len(received') <= sent'
    BY <1>1, <1>2, <1>3 DEF StreamInv, StreamTypes
  <2> QED BY <1>1, <1>2, <2>1, <2>2 DEF StreamInv, StreamTypes
<1>6. pc' = "body" => InTheBody'
  <2> SUFFICES ASSUME pc = "body" PROVE InTheBody'
    BY <1>1
  <2>1. InTheBody
    BY <1>2 DEF StreamInv
  <2>2. Len(received') < sent'
    BY <1>1, <1>2, <1>3, <2>1 DEF InTheBody, StreamInv, StreamTypes
  <2> QED BY <1>1, <2>1, <2>2 DEF InTheBody
<1>7. PICK off : Offsets(off) /\ OnTheWire(off)
  BY <1>2 DEF StreamInv
<1> DEFINE n == Len(Contents[sent + 1]) + 3
           pos == ReadSoFar(off)
<1>8. /\ off \in [0..sent -> Nat] /\ off[sent] \in Nat /\ n \in Nat
      /\ \A i \in 0..sent : off[i] <= off[sent]
  BY <1>3, <1>4, <1>7 DEF Offsets
<1> HIDE DEF n
<1>9. PICK new \in [0..sent + 1 -> Nat] :
         /\ \A i \in 0..sent : new[i] = off[i]
         /\ new[sent + 1] = off[sent] + n
  <2> DEFINE f == [i \in 0..sent + 1 |-> IF i = sent + 1 THEN off[sent] + n ELSE off[i]]
  <2>1. \A i \in 0..sent : i \in 0..sent + 1 /\ i # sent + 1
    BY <1>3
  <2>2. sent + 1 \in 0..sent + 1
    BY <1>3
  <2>3. off[sent] + n \in Nat
    BY <1>8
  <2>4. \A i \in 0..sent + 1 : i # sent + 1 => i \in 0..sent
    BY <1>3
  <2>5. f \in [0..sent + 1 -> Nat]
    BY <1>8, <2>3, <2>4
  <2>6. \A i \in 0..sent : f[i] = off[i]
    BY <2>1
  <2>7. f[sent + 1] = off[sent] + n
    BY <2>2
  <2> HIDE DEF f
  <2> QED BY <2>5, <2>6, <2>7
<1>10. Offsets(new)'
  <2>1. new[0] = 0
    BY <1>3, <1>7, <1>9 DEF Offsets
  <2>2. ASSUME NEW i \in 1..sent + 1 PROVE new[i] = new[i - 1] + Len(Contents[i]) + 3
    <3>1. CASE i = sent + 1
      <4>1. i - 1 = sent /\ sent \in 0..sent
        BY <1>3, <3>1
      <4>2. Len(Contents[sent + 1]) \in Nat
        BY <1>4
      <4> QED BY <1>8, <1>9, <3>1, <4>1, <4>2 DEF n
    <3>2. CASE i # sent + 1
      <4>1. i \in 1..sent /\ i \in 0..sent /\ i - 1 \in 0..sent
        BY <1>3, <3>2
      <4> QED BY <1>7, <1>9, <4>1 DEF Offsets
    <3> QED BY <3>1, <3>2
  <2>3. ASSUME NEW i \in 0..sent + 1 PROVE new[i] <= new[sent + 1]
    <3>1. CASE i = sent + 1
      BY <1>8, <1>9, <3>1
    <3>2. CASE i # sent + 1
      <4>1. i \in 0..sent
        BY <1>3, <3>2
      <4>2. off[i] \in Nat /\ off[i] <= off[sent] /\ new[i] = off[i]
        BY <1>8, <1>9, <4>1
      <4> QED BY <1>8, <1>9, <4>2
    <3> QED BY <3>1, <3>2
  <2> QED BY <1>1, <1>9, <2>1, <2>2, <2>3 DEF Offsets
<1>11. Len(received) \in 0..sent
  BY <1>2, <1>3 DEF StreamInv, StreamTypes
<1>12. ReadSoFar(new)' = pos
  BY <1>1, <1>9, <1>11 DEF ReadSoFar
<1>13. /\ Len(wire) = off[sent] - pos /\ Len(wire) \in Nat /\ wire \in Seq(Nat)
       /\ pos \in Int
  <2>1. Len(body) \in Nat /\ off[Len(received)] \in Nat
    BY <1>2, <1>8, <1>11 DEF StreamInv, StreamTypes
  <2> QED BY <1>2, <1>7, <2>1 DEF OnTheWire, StreamInv, StreamTypes, ReadSoFar
<1>14. Len(Pkt(sent + 1)) = n /\ Len(wire') = Len(wire) + n
  <2> DEFINE p == Pkt(sent + 1)
  <2>1. p \in Seq(Nat) /\ wire' = wire \o p /\ Len(p) = n
    BY <1>1, <1>4 DEF n
  <2> HIDE DEF p
  <2>2. Len(wire') = Len(wire) + n
    BY <1>13, <2>1, JoinedIs
  <2> QED BY <2>1, <2>2 DEF p
<1>15. /\ \A k \in 1..Len(wire) : wire'[k] = wire[k]
       /\ \A k \in 1..n : wire'[Len(wire) + k] = Pkt(sent + 1)[k]
  <2> DEFINE p == Pkt(sent + 1)
  <2>1. p \in Seq(Nat) /\ wire' = wire \o p /\ Len(p) = n
    BY <1>1, <1>4, <1>14
  <2> HIDE DEF p
  <2>2. /\ \A k \in 1..Len(wire) : wire'[k] = wire[k]
        /\ \A k \in 1..Len(p) : wire'[Len(wire) + k] = p[k]
    <3>1. wire \in Seq(Nat) /\ p \in Seq(Nat)
      BY <1>13, <2>1
    <3>2. /\ \A k \in 1..Len(wire) : (wire \o p)[k] = wire[k]
          /\ \A k \in 1..Len(p) : (wire \o p)[Len(wire) + k] = p[k]
      BY <3>1, JoinedIs
    <3> QED BY <2>1, <3>2
  <2> QED BY <2>1, <2>2 DEF p
<1> HIDE DEF pos
<1>16. ASSUME NEW i \in 1..sent + 1, NEW k \in 1..Len(Contents[i]) + 3, new[i - 1] + k > pos
       PROVE  wire'[new[i - 1] + k - pos] = Pkt(i)[k]
  <2>1. CASE i = sent + 1
    <3>1. i - 1 = sent /\ sent \in 0..sent
      BY <1>3, <2>1
    <3>2. new[i - 1] = off[sent]
      BY <1>9, <3>1
    <3>3. k \in 1..n
      BY <2>1 DEF n
    <3>4. off[sent] + k - pos = Len(wire) + k
      BY <1>8, <1>13, <3>3
    <3> QED BY <1>15, <2>1, <3>2, <3>3, <3>4
  <2>2. CASE i # sent + 1
    <3>1. i \in 1..sent /\ i \in 0..sent /\ i - 1 \in 0..sent
      BY <1>3, <2>2
    <3> DEFINE from == off[i - 1]
               len == Len(Contents[i])
    <3>2. new[i - 1] = from /\ from \in Nat
      BY <1>8, <1>9, <3>1
    <3>3. wire[from + k - pos] = Pkt(i)[k]
      BY <1>7, <1>16, <3>1, <3>2 DEF OnTheWire, pos
    <3>4. i \in 1..Len(Contents)
      BY <1>1, <1>3, <3>1
    <3>5. len \in Nat
      BY <3>4, FrameIs
    <3>6. off[i] = from + len + 3 /\ off[i] <= off[sent]
      BY <1>7, <3>1 DEF Offsets
    <3>7. k \in Int /\ k <= len + 3 /\ from + k > pos
      BY <1>16, <3>2, <3>5
    <3> HIDE DEF from, len
    <3>8. from + k - pos \in 1..Len(wire)
      BY <1>8, <1>13, <3>2, <3>5, <3>6, <3>7
    <3> QED BY <1>15, <3>2, <3>3, <3>8
  <2> QED BY <2>1, <2>2
<1>17. Len(wire') = new[sent + 1] - pos
  BY <1>8, <1>9, <1>13, <1>14
<1>18. OnTheWire(new)'
  BY <1>1, <1>12, <1>16, <1>17 DEF OnTheWire
<1> QED BY <1>1, <1>5, <1>6, <1>10, <1>18 DEF TcpInv, StreamInv

(* bcap_recv over TCP never skips a byte: between packets what comes begins with a
   header whose length is right. *)
LEMMA ScanKeepsStream ==
    ASSUME Postable, TcpInv, line = "tcp", Scan
    PROVE  TcpInv'
<1>1. StreamInv /\ StreamTypes /\ pc = "scan"
  BY DEF TcpInv, StreamInv, Scan
<1>2. PICK k \in AtMost(BufferMax - Len(buf), Len(wire)) : ScanTcp(k) /\ UNCHANGED <<buf, naks, hollow>>
  BY DEF Scan
<1>3. UNCHANGED <<line, sent, spoils, received, buf>>
  BY <1>2 DEF Scan
<1>4. wire \in Seq(Nat) /\ Len(wire) \in Nat /\ k \in 1..Len(wire)
  <2>1. wire \in Seq(Nat) /\ Len(wire) \in Nat /\ buf = <<>> /\ BufferMax \in Nat
    BY <1>1 DEF StreamTypes, Postable
  <2>2. Len(buf) = 0
    BY <2>1
  <2> QED BY <1>2, <2>1, <2>2 DEF AtMost
<1>5. PICK off : Offsets(off) /\ OnTheWire(off)
  BY <1>1 DEF StreamInv
<1>6. PICK r : r = Len(received) + 1
  OBVIOUS
<1> DEFINE n == Len(Contents[r]) + 3
<1>7. /\ r \in 1..sent /\ r \in 1..Len(Contents) /\ n <= Len(wire)
      /\ \A j \in 1..n : wire[j] = Pkt(r)[j]
  <2>1. Len(wire) >= 1
    BY <1>4
  <2>2. /\ r \in 1..sent /\ r \in 1..Len(Contents) /\ Len(Contents[r]) + 3 <= Len(wire)
        /\ \A j \in 1..Len(Contents[r]) + 3 : wire[j] = Pkt(r)[j]
    BY <1>1, <1>5, <1>6, <2>1, NextOnTheWire, Zenon
  <2> QED BY <2>2
<1>8. n \in Nat /\ n >= 3 /\ Pkt(r)[1] = Header /\ Pkt(r)[2] = n
  <2>1. r \in 1..Len(Contents)
    BY <1>7
  <2>2. Len(Contents[r]) \in Nat /\ Pkt(r)[1] = Header /\ Pkt(r)[2] = Len(Contents[r]) + 3
    BY <2>1, FrameIs
  <2> QED BY <2>2
<1> HIDE DEF n
<1>9. wire[1] = Header /\ wire[2] = n
  <2>1. 1 \in 1..n /\ 2 \in 1..n
    BY <1>8
  <2> QED BY <1>7, <1>8, <2>1
<1> DEFINE seen == SubSeq(wire, 1, k)
           m == IF n < k THEN n ELSE k
<1>10. seen \in Seq(Nat) /\ Len(seen) = k /\ \A j \in 1..k : seen[j] = wire[j]
  BY <1>4
<1>11. FromHeader(seen) = seen
  <2>1. 1 \in 1..k /\ Len(seen) >= 1
    BY <1>4, <1>10
  <2>2. seen[1] = Header
    BY <1>9, <1>10, <2>1
  <2> QED BY <1>10, <2>1, <2>2, FromHeaderIs
<1> HIDE DEF seen
<1>12. k - Len(seen) = 0
  BY <1>4, <1>10
<1>13. Len(received) \in 0..sent /\ off[Len(received)] \in Nat /\ off \in [0..sent -> Nat]
  BY <1>1, <1>5 DEF StreamTypes, Offsets
<1>14. ReadSoFar(off) = off[Len(received)]
  BY <1>1, <1>13 DEF ReadSoFar
<1>15. Offsets(off)'
  BY <1>3, <1>5 DEF Offsets
<1>16. CASE k < 2
  <2>1. wire' = Rest(0) /\ UNCHANGED <<pc, body, need>>
    <3>1. Len(seen) < Enough
      BY <1>10, <1>16 DEF Enough
    <3> QED BY <1>2, <1>11, <1>12, <3>1 DEF ScanTcp, seen
  <2>2. ReadSoFar(off)' = ReadSoFar(off) + 0
    BY <1>1, <1>3, <1>13, <1>14, <2>1 DEF ReadSoFar
  <2>3. OnTheWire(off)'
    <3>1. 0 \in 0..Len(wire)
      BY <1>4
    <3> QED BY <1>1, <1>3, <1>5, <1>13, <1>14, <2>1, <2>2, <3>1, OnTheWireStays
  <2>4. wire' \in Seq(Nat)
    <3>1. 0 \in 0..Len(wire)
      BY <1>4
    <3> QED BY <1>4, <2>1, <3>1, RestIs
  <2>5. StreamTypes' /\ pc' = "scan"
    BY <1>1, <1>3, <2>1, <2>4 DEF StreamTypes
  <2> QED BY <1>15, <2>3, <2>5 DEF TcpInv, StreamInv
<1>17. CASE ~(k < 2)
  <2>1. Announced(seen) = n /\ Plausible(n) /\ ~(Len(seen) < Enough)
    <3>1. 2 \in 1..k /\ k >= 2
      BY <1>4, <1>17
    <3>2. seen[2] = n
      BY <1>9, <1>10, <3>1
    <3> QED BY <1>8, <1>10, <3>1, <3>2 DEF Announced, Plausible, Enough
  <2>2. /\ body' = SubSeq(seen, 1, m) /\ wire' = Rest(m) /\ need' = n /\ pc' = "body"
    <3>1. body' = SubSeq(seen, 1, IF n < Len(seen) THEN n ELSE Len(seen)) /\ need' = n /\ pc' = "body"
          /\ wire' = Rest(0 + PeekRead(seen, n))
      BY <1>2, <1>11, <1>12, <2>1 DEF ScanTcp, seen
    <3>2. 0 + PeekRead(seen, n) = m
      BY <1>4, <1>8, <1>10 DEF PeekRead
    <3> QED BY <1>10, <3>1, <3>2
  <2>3. m \in 0..Len(wire) /\ m <= n /\ m <= k /\ m \in Nat
    <3>1. n \in Nat /\ k \in Nat /\ Len(wire) \in Nat /\ k <= Len(wire)
      BY <1>4, <1>8
    <3> QED BY <3>1
  <2> HIDE DEF m
  <2>4. body' \in Seq(Nat) /\ Len(body') = m /\ \A j \in 1..m : body'[j] = wire[j]
    <3>1. m \in 0..Len(seen) /\ \A j \in 1..m : j \in 1..k
      BY <1>4, <1>10, <2>3
    <3>2. /\ SubSeq(seen, 1, m) \in Seq(Nat) /\ Len(SubSeq(seen, 1, m)) = m
          /\ \A j \in 1..m : SubSeq(seen, 1, m)[j] = seen[j]
      BY <1>10, <3>1, BeginningIs
    <3> QED BY <1>10, <2>2, <3>1, <3>2
  <2>5. ReadSoFar(off)' = ReadSoFar(off) + m
    BY <1>3, <1>14, <2>2, <2>4 DEF ReadSoFar
  <2>6. OnTheWire(off)'
    BY <1>1, <1>3, <1>5, <1>13, <1>14, <2>2, <2>3, <2>5, OnTheWireStays
  <2>7. wire' \in Seq(Nat)
    BY <1>4, <2>2, <2>3, RestIs
  <2>8. StreamTypes'
    BY <1>1, <1>3, <1>8, <2>2, <2>4, <2>7 DEF StreamTypes
  <2>9. InTheBody'
    <3>1. Len(received') < sent'
      <4>1. sent \in Int /\ Len(received) \in Int
        BY <1>1 DEF StreamTypes
      <4> QED BY <1>3, <1>6, <1>7, <4>1
    <3>2. need' = Len(Contents[Len(received') + 1]) + 3
      BY <1>3, <1>6, <2>2 DEF n
    <3>3. \A j \in 1..Len(body') : body'[j] = Pkt(Len(received') + 1)[j]
      <4>1. \A j \in 1..m : j \in 1..n
        BY <1>8, <2>3
      <4> QED BY <1>3, <1>6, <1>7, <2>4, <4>1
    <3> QED BY <2>2, <2>3, <2>4, <3>1, <3>2, <3>3 DEF InTheBody
  <2> QED BY <1>15, <2>6, <2>8, <2>9 DEF TcpInv, StreamInv
<1> QED BY <1>16, <1>17

LEMMA ReadBodyKeepsStream ==
    ASSUME Postable, TcpInv, line = "tcp", ReadBody
    PROVE  TcpInv'
<1>1. StreamInv /\ StreamTypes /\ InTheBody /\ pc = "body"
  BY DEF TcpInv, StreamInv, ReadBody
<1>2. PICK k \in AtMost(need - Len(body), Len(wire)) :
         body' = body \o SubSeq(wire, 1, k) /\ wire' = Rest(k)
  BY DEF ReadBody
<1>3. UNCHANGED <<line, sent, pc, buf, need, received>>
  BY DEF ReadBody
<1>4. /\ wire \in Seq(Nat) /\ Len(wire) \in Nat /\ body \in Seq(Nat) /\ Len(body) \in Nat /\ need \in Nat
      /\ sent \in Nat /\ Len(received) \in Nat /\ Len(received) <= sent
  BY <1>1 DEF StreamTypes
<1>5. k \in 1..Len(wire) /\ k <= need - Len(body)
  BY <1>2, <1>4 DEF AtMost
<1>6. PICK off : Offsets(off) /\ OnTheWire(off)
  BY <1>1 DEF StreamInv
<1>7. PICK r : r = Len(received) + 1
  OBVIOUS
<1>9. /\ body' \in Seq(Nat) /\ Len(body') = Len(body) + k
      /\ \A j \in 1..Len(body) : body'[j] = body[j]
      /\ \A j \in 1..k : body'[Len(body) + j] = wire[j]
  <2>1. k \in 0..Len(wire)
    BY <1>5
  <2> QED BY <1>2, <1>4, <2>1, ReadMore
<1>10. Len(received) \in 0..sent /\ off[Len(received)] \in Nat
  BY <1>4, <1>6 DEF Offsets
<1>11. ReadSoFar(off) = off[Len(received)] + Len(body) /\ ReadSoFar(off) \in Nat
  BY <1>1, <1>4, <1>10 DEF ReadSoFar
<1>12. ReadSoFar(off)' = ReadSoFar(off) + k
  <2> DEFINE pos == off[Len(received)]
             b == Len(body)
  <2>1. ReadSoFar(off)' = pos + Len(body') /\ Len(body') = b + k /\ ReadSoFar(off) = pos + b
    BY <1>1, <1>3, <1>9, <1>11 DEF ReadSoFar
  <2>2. pos \in Nat /\ b \in Nat /\ k \in Int
    BY <1>4, <1>5, <1>10
  <2> HIDE DEF pos, b
  <2>3. pos + (b + k) = pos + b + k
    BY <2>2
  <2> QED BY <2>1, <2>3
<1>13. OnTheWire(off)'
  <2>1. k \in 0..Len(wire)
    BY <1>5
  <2> QED BY <1>1, <1>2, <1>3, <1>6, <1>11, <1>12, <2>1, OnTheWireStays
<1>14. Offsets(off)'
  BY <1>3, <1>6 DEF Offsets
<1>15. StreamTypes'
  <2>1. wire' \in Seq(Nat)
    <3>1. k \in 0..Len(wire)
      BY <1>5
    <3> QED BY <1>2, <1>4, <3>1, RestIs
  <2> QED BY <1>1, <1>3, <1>9, <2>1 DEF StreamTypes
<1>16. r \in 1..sent /\ r - 1 = Len(received)
  BY <1>1, <1>4, <1>7 DEF InTheBody
<1> DEFINE n == Len(Contents[r])
<1>17. need = n + 3 /\ n \in Nat
  <2>1. r \in 1..Len(Contents)
    BY <1>1, <1>16 DEF StreamTypes
  <2> QED BY <1>1, <1>7, <2>1, FrameIs DEF InTheBody
<1>18. ASSUME NEW j \in 1..k PROVE wire[j] = Pkt(r)[Len(body) + j]
  <2> DEFINE pos == off[Len(received)]
             i == Len(body) + j
  <2>1. i \in 1..n + 3
    <3>1. n \in Nat /\ need = n + 3 /\ Len(body) \in Nat /\ k <= need - Len(body) /\ j \in 1..k /\ k \in Int
      BY <1>4, <1>5, <1>17
    <3> HIDE DEF n
    <3> QED BY <3>1
  <2>2. pos + i > ReadSoFar(off) /\ pos + i - ReadSoFar(off) = j
    <3>1. pos \in Nat /\ Len(body) \in Nat /\ j \in Int /\ j >= 1 /\ ReadSoFar(off) = pos + Len(body)
      BY <1>4, <1>5, <1>10, <1>11
    <3> HIDE DEF pos
    <3> QED BY <3>1
  <2> HIDE DEF i
  <2>3. wire[pos + i - ReadSoFar(off)] = Pkt(r)[i]
    BY <1>6, <1>16, <2>1, <2>2 DEF OnTheWire
  <2> QED BY <2>2, <2>3 DEF i
<1> HIDE DEF n
<1>19. ASSUME NEW j \in 1..Len(body') PROVE body'[j] = Pkt(r)[j]
  <2>1. CASE j <= Len(body)
    <3>1. j \in 1..Len(body)
      BY <1>4, <2>1
    <3> QED BY <1>1, <1>7, <1>9, <3>1 DEF InTheBody
  <2>2. CASE ~(j <= Len(body))
    <3> DEFINE i == j - Len(body)
    <3>1. Len(body) \in Nat /\ k \in Int /\ j \in 1..Len(body) + k
      BY <1>4, <1>5, <1>9
    <3>3. i \in 1..k /\ Len(body) + i = j
      BY <2>2, <3>1
    <3> HIDE DEF i
    <3>2. body'[Len(body) + i] = wire[i] /\ wire[i] = Pkt(r)[Len(body) + i]
      BY <1>9, <1>18, <3>3
    <3> QED BY <3>2, <3>3
  <2> QED BY <2>1, <2>2
<1>20. InTheBody'
  <2>1. Len(body') <= need'
    BY <1>3, <1>4, <1>5, <1>9
  <2> QED BY <1>1, <1>3, <1>7, <1>19, <2>1 DEF InTheBody
<1> QED BY <1>13, <1>14, <1>15, <1>20 DEF TcpInv, StreamInv

(* A complete packet is the next one that was sent, and is accepted. *)
LEMMA CompleteKeepsStream ==
    ASSUME Postable, TcpInv, line = "tcp", Complete
    PROVE  TcpInv'
<1>1. StreamInv /\ StreamTypes /\ InTheBody /\ pc = "body" /\ Len(body) = need
  BY DEF TcpInv, StreamInv, Complete, Whole
<1>2. pc' = "scan" /\ UNCHANGED <<line, sent, wire, buf, body, need>>
  BY DEF Complete
<1>3. PICK r : r = Len(received) + 1
  OBVIOUS
<1>4. /\ sent \in Nat /\ Len(received) \in Nat /\ Len(received) < sent /\ sent <= Len(Contents)
      /\ body \in Seq(Nat) /\ received \in Seq(Seq(Nat))
  BY <1>1 DEF StreamTypes, InTheBody
<1>5. r \in 1..sent /\ r - 1 = Len(received) /\ r \in 1..Len(Contents)
  BY <1>3, <1>4
<1> DEFINE n == Len(Contents[r])
<1>6. /\ n \in Nat /\ Len(body) = n + 3 /\ \A j \in 1..n + 3 : body[j] = Pkt(r)[j]
      /\ Pkt(r) \in Seq(Nat) /\ Len(Pkt(r)) = n + 3 /\ Pkt(r)[n + 3] = Terminator
      /\ SubSeq(Pkt(r), 3, n + 2) = Contents[r] /\ Contents[r] \in Seq(Nat)
  BY <1>1, <1>3, <1>5, FrameIs DEF InTheBody
<1> HIDE DEF n
<1>7. body = Pkt(r)
  BY <1>4, <1>6
<1>8. EndsWell(body) /\ SumsUp(body)
  BY <1>6, <1>7 DEF EndsWell, SumsUp
<1>9. ContentsOf(body) = Contents[r]
  <2>1. Len(body) - 1 = n + 2
    BY <1>6
  <2> QED BY <1>6, <1>7, <2>1 DEF ContentsOf
<1>10. received' = Append(received, Contents[r])
  BY <1>8, <1>9 DEF Complete
<1>11. /\ received' \in Seq(Seq(Nat)) /\ Len(received') = r
       /\ \A i \in 1..r - 1 : received'[i] = received[i]
       /\ received'[r] = Contents[r]
  BY <1>3, <1>4, <1>6, <1>10
<1>12. StreamTypes'
  <2>1. \A i \in 1..r : i = r \/ i \in 1..Len(received)
    BY <1>4, <1>5
  <2>2. \A i \in 1..Len(received') : received'[i] = Contents[i]
    BY <1>1, <1>5, <1>11, <2>1 DEF StreamTypes
  <2>3. Len(received') <= sent'
    BY <1>2, <1>4, <1>5, <1>11
  <2> QED BY <1>1, <1>2, <1>11, <2>2, <2>3 DEF StreamTypes
<1>13. PICK off : Offsets(off) /\ OnTheWire(off)
  BY <1>1 DEF StreamInv
<1>14. off[r - 1] \in Nat /\ off[r] = off[r - 1] + n + 3 /\ off[r] \in Nat
  <2>1. r - 1 \in 0..sent /\ r \in 0..sent
    BY <1>4, <1>5
  <2> QED BY <1>5, <1>13, <2>1 DEF Offsets, n
<1>15. ReadSoFar(off)' = ReadSoFar(off) + 0 /\ ReadSoFar(off) \in Nat
  <2>1. ReadSoFar(off)' = off[r] + 0
    BY <1>2, <1>11 DEF ReadSoFar
  <2>2. ReadSoFar(off) = off[r - 1] + (n + 3)
    BY <1>1, <1>5, <1>6 DEF ReadSoFar
  <2> DEFINE pos == off[r - 1]
             next == off[r]
  <2>3. pos \in Nat /\ next = pos + n + 3 /\ next \in Nat
    BY <1>14
  <2> HIDE DEF pos, next
  <2>4. pos + (n + 3) = next /\ next + 0 = next
    BY <1>6, <2>3
  <2>5. ReadSoFar(off)' = next /\ ReadSoFar(off) = next
    BY <2>1, <2>2, <2>4 DEF pos, next
  <2>6. next + 0 = next
    BY <2>3
  <2> QED BY <2>3, <2>5, <2>6
<1>16. OnTheWire(off)'
  <2>1. ReadSoFar(off)' = ReadSoFar(off)
    BY <1>15
  <2> QED BY <1>2, <1>13, <2>1 DEF OnTheWire
<1>17. Offsets(off)'
  BY <1>2, <1>13 DEF Offsets
<1> QED BY <1>2, <1>12, <1>16, <1>17 DEF TcpInv, StreamInv

LEMMA StreamInvImplies ==
    ASSUME Postable, TcpInv
    PROVE  line = "tcp" => PacketsGenuine
<1> SUFFICES ASSUME line = "tcp" PROVE PacketsGenuine
  OBVIOUS
<1>0. StreamTypes
  BY DEF TcpInv, StreamInv
<1>1. /\ received \in Seq(Seq(Nat)) /\ Len(received) <= sent /\ sent \in Nat /\ sent <= Len(Contents)
      /\ \A i \in 1..Len(received) : received[i] = Contents[i]
  BY <1>0 DEF StreamTypes
<1>5. Contents \in Seq(Seq(Nat))
  BY DEF Postable
<1>2. received \in Seq(Seq(Nat)) /\ Contents \in Seq(Seq(Nat)) /\ sent \in 0..Len(Contents)
  BY <1>1, <1>5
<1>3. Len(received) <= sent /\ \A i \in 1..Len(received) : received[i] = Contents[i]
  BY <1>1
<1>4. IsPrefix(received, SubSeq(Contents, 1, sent))
  BY <1>2, <1>3, SamePrefix, Zenon
<1> QED BY <1>4 DEF PacketsGenuine

(* Over TCP, however the bytes are cut and whatever the packets carry, what bcap_recv
   accepts are the packets that were sent, each once, in their order: the receiver
   never loses the boundary of a packet (bcap_recv and bcap_send of bcap_common.c). *)
THEOREM TcpStaysGenuine == FramingSpec => [](line = "tcp" => PacketsGenuine)
<1>0. Postable
  BY FramingAssumption DEF FramingAssumption, Postable
<1>1. FramingInit => TcpInv
  <2> SUFFICES ASSUME FramingInit, line = "tcp" PROVE StreamInv
    BY DEF TcpInv
  <2>1. StreamTypes /\ pc = "scan"
    BY <1>0 DEF FramingInit, StreamTypes, Postable
  <2> DEFINE f == [i \in 0..0 |-> 0]
  <2>2. Offsets(f) /\ OnTheWire(f)
    BY DEF FramingInit, Offsets, OnTheWire, ReadSoFar
  <2> QED BY <2>1, <2>2 DEF StreamInv
<1>2. TcpInv /\ [FramingNext]_frameVars => TcpInv'
  <2> SUFFICES ASSUME TcpInv, [FramingNext]_frameVars PROVE TcpInv'
    OBVIOUS
  <2>1. line' = line
    BY DEF FramingNext, SendPacket, ReceiverMoves, Scan, ReadBody, Complete, Timeout, frameVars
  <2>2. CASE line # "tcp"
    BY <2>1, <2>2 DEF TcpInv
  <2>3. CASE line = "tcp"
    <3>1. CASE SendPacket
      BY <2>3, <3>1, <1>0, SendKeepsStream
    <3>2. CASE Scan
      BY <2>3, <3>2, <1>0, ScanKeepsStream
    <3>3. CASE ReadBody
      BY <2>3, <3>3, <1>0, ReadBodyKeepsStream
    <3>4. CASE Complete
      BY <2>3, <3>4, <1>0, CompleteKeepsStream
    <3>5. CASE Timeout
      BY <2>3, <3>5 DEF Timeout
    <3>6. CASE UNCHANGED frameVars
      <4>1. /\ line' = line /\ sent' = sent /\ wire' = wire /\ buf' = buf /\ pc' = pc /\ body' = body
            /\ need' = need /\ received' = received
        BY <3>6 DEF frameVars
      <4>2. StreamTypes' = StreamTypes /\ InTheBody' = InTheBody
        BY <4>1 DEF StreamTypes, InTheBody
      <4>3. \A off : (Offsets(off) /\ OnTheWire(off)) => Offsets(off)' /\ OnTheWire(off)'
        BY <4>1 DEF Offsets, OnTheWire, ReadSoFar
      <4> QED BY <2>3, <4>1, <4>2, <4>3, Zenon DEF TcpInv, StreamInv
    <3> QED BY <3>1, <3>2, <3>3, <3>4, <3>5, <3>6 DEF FramingNext, ReceiverMoves
  <2> QED BY <2>2, <2>3
<1>3. TcpInv => (line = "tcp" => PacketsGenuine)
  BY <1>0, StreamInvImplies
<1> QED BY <1>1, <1>2, <1>3, PTL DEF FramingSpec

-----------------------------------------------------------------------------
(* Framing, over a serial line that spoils nothing. *)

(* The bytes on the line.  What is proved holds whatever the check sums are: when
   one does not fit, the packet is refused and sent again. *)
Sums == {SumOf(Contents[i]) + Len(Contents[i]) + 4 : i \in 1..Len(Contents)}
            \cup {SumOf(Contents[i]) + Len(Contents[i]) + Header : i \in 1..Len(Contents)}
Bytes == Nat \cup Sums
Around(l) == IF l = "com" THEN 4 ELSE 3
PacketsFit ==
    \A l \in Lines \ {"tcp"} : \A i \in 1..Len(Contents) :
        Len(Contents[i]) + Around(l) <= PacketMax

(* The packet under way is the next one; what was read of it and what is on the line
   make it up. *)
Coming == Frame(line, Contents[Len(received) + 1])
Quiet == pc = "scan" /\ buf = <<>> /\ wire = <<>>
UnderWay ==
    /\ sent = Len(received) + 1
    /\ pc = "scan" => buf \o wire = Coming /\ Len(buf) < Enough
    /\ pc = "body" => buf = <<>> /\ body \o wire = Coming /\ need = Len(Coming)
SerialTypes ==
    /\ line \in {"com", "rtk"} /\ line \in Lines /\ sent \in 0..Len(Contents)
    /\ wire \in Seq(Bytes) /\ buf \in Seq(Bytes) /\ body \in Seq(Bytes)
    /\ pc \in {"scan", "body"} /\ ~hollow
    /\ received \in Seq(Seq(Nat)) /\ Len(received) <= sent
    /\ \A i \in 1..Len(received) : received[i] = Contents[i]
SerialInv == SerialTypes /\ (Quiet \/ UnderWay)
CleanLineInv == spoils \in Nat /\ (line # "tcp" /\ spoils = 0 => SerialInv)

LEMMA WiderSeq ==
    ASSUME NEW S, NEW T, S \subseteq T, NEW s \in Seq(S)
    PROVE  s \in Seq(T)
  OBVIOUS

(* What rtk_param2packet and rtk_send, bcap_packet2bytary and bcap_send put on a
   serial line: the header, a length that the receiver takes, the contents. *)
LEMMA SerialFrameIs ==
    ASSUME Contents \in Seq(Seq(Nat)), PacketMax \in Nat, PacketsFit,
           line \in {"com", "rtk"}, line \in Lines,
           NEW i \in 1..Len(Contents), NEW f, f = Frame(line, Contents[i])
    PROVE  /\ f \in Seq(Bytes) /\ Len(f) \in Nat /\ Len(f) >= 3 /\ Len(f) >= Enough
           /\ f[1] = Header
           /\ \A b : b[2] = f[2] => Announced(b) = Len(f) /\ Plausible(Announced(b))
           /\ ContentsOf(f) = Contents[i] /\ Contents[i] \in Seq(Nat)
<1> DEFINE c == Contents[i]
           n == Len(c)
<1>1. c \in Seq(Nat) /\ n \in Nat
  OBVIOUS
<1>2. c \in Seq(Bytes) /\ Header \in Bytes /\ Terminator \in Bytes /\ n \in Bytes /\ n + 4 \in Bytes
  <2>3. c \in Seq(Bytes)
    BY <1>1, WiderSeq DEF Bytes
  <2>4. Header \in Nat /\ Terminator \in Nat /\ n + 4 \in Nat
    BY <1>1 DEF Header, Terminator
  <2> QED BY <1>1, <2>3, <2>4 DEF Bytes
<1>3. n + Around(line) <= PacketMax
  BY DEF PacketsFit
<1>4. CASE line = "com"
  <2> DEFINE sum == SumOf(c) + n + 4
  <2>1. sum \in Bytes
    BY DEF Bytes, Sums
  <2>2. f = <<Header, n + 4>> \o c \o <<sum, Terminator>>
    BY <1>4 DEF Frame
  <2> HIDE DEF sum, c
  <2>3. /\ f \in Seq(Bytes) /\ Len(f) = n + 4 /\ f[1] = Header /\ f[2] = n + 4
        /\ SubSeq(f, 3, n + 2) = c
    BY <1>2, <2>1, <2>2, FramedTwiceIs
  <2>4. Len(f) - 2 = n + 2
    BY <1>1, <2>3
  <2>5. ContentsOf(f) = c
    BY <1>4, <2>3, <2>4 DEF ContentsOf
  <2>6. ASSUME NEW b, b[2] = f[2] PROVE Announced(b) = Len(f) /\ Plausible(Announced(b))
    <3>1. Announced(b) = n + 4
      BY <1>4, <2>3, <2>6 DEF Announced
    <3>2. n + 4 \in 4..PacketMax
      BY <1>1, <1>3, <1>4 DEF Around
    <3> QED BY <1>4, <2>3, <3>1, <3>2 DEF Plausible
  <2>7. Len(f) \in Nat /\ Len(f) >= 3 /\ Len(f) >= Enough
    BY <1>1, <1>4, <2>3 DEF Enough
  <2> QED BY <1>1, <2>3, <2>5, <2>6, <2>7 DEF c
<1>5. CASE line = "rtk"
  <2> DEFINE sum == SumOf(c) + n + Header
  <2>1. sum \in Bytes
    BY DEF Bytes, Sums
  <2>2. f = <<Header, n>> \o c \o <<sum>>
    BY <1>5 DEF Frame
  <2> HIDE DEF sum, c
  <2>3. /\ f \in Seq(Bytes) /\ Len(f) = n + 3 /\ f[1] = Header /\ f[2] = n
        /\ SubSeq(f, 3, n + 2) = c
    BY <1>2, <2>1, <2>2, FramedIs
  <2>4. Len(f) - 1 = n + 2
    BY <1>1, <2>3
  <2>5. ContentsOf(f) = c
    BY <1>5, <2>3, <2>4 DEF ContentsOf
  <2>6. ASSUME NEW b, b[2] = f[2] PROVE Announced(b) = Len(f) /\ Plausible(Announced(b))
    <3>1. Announced(b) = n + 3
      BY <1>5, <2>3, <2>6 DEF Announced
    <3>2. n + 3 <= PacketMax
      BY <1>3, <1>5 DEF Around
    <3> QED BY <1>5, <2>3, <3>1, <3>2 DEF Plausible
  <2>7. Len(f) \in Nat /\ Len(f) >= 3 /\ Len(f) >= Enough
    BY <1>1, <1>5, <2>3 DEF Enough
  <2> QED BY <1>1, <2>3, <2>5, <2>6, <2>7 DEF c
<1> QED BY <1>4, <1>5

JoinOf(s, t, r) ==
    /\ Len(r) = Len(s) + Len(t)
    /\ \A j \in 1..Len(s) : r[j] = s[j]
    /\ \A j \in 1..Len(t) : r[Len(s) + j] = t[j]
LEMMA JoinedAs ==
    \A S : \A s, t \in Seq(S) : s \o t \in Seq(S) /\ JoinOf(s, t, s \o t)
  BY DEF JoinOf

LEMMA SeqsAlike ==
    ASSUME NEW S, NEW a \in Seq(S), NEW b \in Seq(S), NEW n \in Nat, Len(a) = n, Len(b) = n,
           \A j \in 1..n : a[j] = b[j]
    PROVE  a = b
  OBVIOUS

(* t is s with the first k elements of w, u the others. *)
Moved(s, w, k, t, u) ==
    /\ k \in 0..Len(w) /\ Len(t) = Len(s) + k /\ Len(u) = Len(w) - k
    /\ \A j \in 1..Len(s) : t[j] = s[j]
    /\ \A j \in 1..k : t[Len(s) + j] = w[j]
    /\ \A j \in 1..Len(w) - k : u[j] = w[j + k]
LEMMA SameJoined ==
    \A S : \A s, w, t, u \in Seq(S) : \A k : Moved(s, w, k, t, u) => t \o u = s \o w
<1> SUFFICES ASSUME NEW S, NEW s \in Seq(S), NEW w \in Seq(S), NEW t \in Seq(S), NEW u \in Seq(S),
                    NEW k, Moved(s, w, k, t, u)
             PROVE  t \o u = s \o w
  OBVIOUS
<1>a. PICK a : a = t \o u
  OBVIOUS
<1>b. PICK b : b = s \o w
  OBVIOUS
<1> DEFINE m == Len(s)
           n == Len(w)
<1>c. a \in Seq(S) /\ JoinOf(t, u, a)
  <2>1. t \in Seq(S) /\ u \in Seq(S)
    OBVIOUS
  <2> QED BY <1>a, <2>1, JoinedAs, Zenon
<1>1. /\ a \in Seq(S) /\ Len(a) = Len(t) + Len(u)
      /\ \A j \in 1..Len(t) : a[j] = t[j]
      /\ \A j \in 1..Len(u) : a[Len(t) + j] = u[j]
  BY <1>c, Zenon DEF JoinOf
<1>2. /\ b \in Seq(S) /\ Len(b) = m + n
      /\ \A j \in 1..m : b[j] = s[j]
      /\ \A j \in 1..n : b[m + j] = w[j]
  BY <1>b, JoinedAs DEF JoinOf
<1>3. /\ m \in Nat /\ n \in Nat /\ k \in 0..n /\ Len(t) = m + k /\ Len(u) = n - k
      /\ \A j \in 1..m : t[j] = s[j]
      /\ \A j \in 1..k : t[m + j] = w[j]
      /\ \A j \in 1..n - k : u[j] = w[j + k]
  BY DEF Moved
<1> HIDE DEF m, n
<1>4. /\ Len(a) = m + n
      /\ \A j \in 1..m + k : a[j] = t[j]
      /\ \A j \in 1..n - k : a[m + k + j] = u[j]
  <2>1. m + k + (n - k) = m + n
    BY <1>3
  <2>2. Len(t) = m + k /\ Len(u) = n - k
    BY <1>3
  <2> QED BY <1>1, <2>1, <2>2, Zenon
<1>5. ASSUME NEW j \in 1..m + n PROVE a[j] = b[j]
  <2>1. CASE j <= m
    <3>1. j \in 1..m /\ j \in 1..m + k
      BY <1>3, <2>1
    <3> QED BY <1>2, <1>3, <1>4, <3>1
  <2>2. CASE m < j /\ j <= m + k
    <3> DEFINE i == j - m
    <3>1. i \in 1..k /\ i \in 1..n /\ m + i = j /\ j \in 1..m + k
      BY <1>3, <2>2
    <3> HIDE DEF i
    <3>2. t[m + i] = w[i] /\ b[m + i] = w[i]
      BY <1>2, <1>3, <3>1
    <3> QED BY <1>4, <3>1, <3>2
  <2>3. CASE m + k < j
    <3> DEFINE i == j - m - k
    <3>1. i \in 1..n - k /\ i + k \in 1..n /\ m + (i + k) = j /\ m + k + i = j
      BY <1>3, <2>3
    <3> HIDE DEF i
    <3>2. u[i] = w[i + k] /\ a[m + k + i] = u[i] /\ b[m + (i + k)] = w[i + k]
      BY <1>2, <1>3, <1>4, <3>1
    <3> QED BY <3>1, <3>2
  <2> QED BY <1>3, <2>1, <2>2, <2>3
<1>6. m + n \in Nat
  BY <1>3
<1>7. a = b
  BY <1>1, <1>2, <1>4, <1>5, <1>6, SeqsAlike
<1> QED BY <1>7, <1>a, <1>b

(* Reading on cuts a stream elsewhere and changes nothing of it. *)
Recut(S, s, w, t, u) == t \in Seq(S) /\ u \in Seq(S) /\ t \o u = s \o w
LEMMA CutElsewhere ==
    ASSUME NEW S, NEW s \in Seq(S), NEW w \in Seq(S), NEW k \in 1..Len(w)
    PROVE  /\ Recut(S, s, w, s \o SubSeq(w, 1, k), SubSeq(w, k + 1, Len(w)))
           /\ Len(s \o SubSeq(w, 1, k)) = Len(s) + k
<1>h. PICK h : h = SubSeq(w, 1, k)
  OBVIOUS
<1>t. PICK t : t = s \o h
  OBVIOUS
<1>u. PICK u : u = SubSeq(w, k + 1, Len(w))
  OBVIOUS
<1>1. h \in Seq(S) /\ Len(h) = k /\ \A j \in 1..k : h[j] = w[j]
  BY <1>h
<1>2. u \in Seq(S) /\ Len(u) = Len(w) - k /\ \A j \in 1..Len(w) - k : u[j] = w[j + k]
  BY <1>u
<1>3. /\ t \in Seq(S) /\ Len(t) = Len(s) + k
      /\ \A j \in 1..Len(s) : t[j] = s[j]
      /\ \A j \in 1..k : t[Len(s) + j] = w[j]
  <2>1. /\ t \in Seq(S) /\ Len(t) = Len(s) + Len(h)
        /\ \A j \in 1..Len(s) : t[j] = s[j]
        /\ \A j \in 1..Len(h) : t[Len(s) + j] = h[j]
    <3>1. t \in Seq(S) /\ JoinOf(s, h, t)
      BY <1>1, <1>t, JoinedAs, Zenon
    <3> QED BY <3>1, Zenon DEF JoinOf
  <2> QED BY <1>1, <2>1
<1>4. k \in 0..Len(w)
  OBVIOUS
<1>5. t \o u = s \o w
  <2>1. Moved(s, w, k, t, u)
    BY <1>2, <1>3, <1>4, Zenon DEF Moved
  <2>2. s \in Seq(S) /\ w \in Seq(S) /\ t \in Seq(S) /\ u \in Seq(S)
    BY <1>2, <1>3
  <2> QED BY <2>1, <2>2, SameJoined, SMT
<1>6. Recut(S, s, w, t, u)
  BY <1>2, <1>3, <1>5 DEF Recut
<1> QED BY <1>3, <1>6, <1>h, <1>t, <1>u

(* A part of a stream is its beginning. *)
LEMMA BeginsAlike ==
    \A S : \A s, w \in Seq(S) :
        /\ Len(s \o w) = Len(s) + Len(w)
        /\ \A j \in 1..Len(s) : s[j] = (s \o w)[j]
        /\ Len(w) = 0 => s = s \o w
<1> SUFFICES ASSUME NEW S, NEW s \in Seq(S), NEW w \in Seq(S)
             PROVE  /\ Len(s \o w) = Len(s) + Len(w)
                    /\ \A j \in 1..Len(s) : s[j] = (s \o w)[j]
                    /\ Len(w) = 0 => s = s \o w
  OBVIOUS
<1>1. Len(s \o w) = Len(s) + Len(w) /\ \A j \in 1..Len(s) : s[j] = (s \o w)[j]
  BY JoinedIs
<1>2. ASSUME Len(w) = 0 PROVE s = s \o w
  BY <1>2
<1> QED BY <1>1, <1>2

LEMMA SerialSent ==
    ASSUME FramingAssumption, PacketsFit, CleanLineInv, SendPacket
    PROVE  CleanLineInv'
<1>1. /\ UNCHANGED <<line, pc, buf, body, need, naks, hollow, received>>
      /\ SendTcp \/ SendSerial
  BY DEF SendPacket
<1>2. spoils' \in Nat /\ (spoils' = 0 => spoils = 0 /\ (line = "tcp" \/ wire' = Frame(line, Contents[Len(received) + 1])))
  BY <1>1 DEF CleanLineInv, SendTcp, SendSerial
<1>3. ASSUME line # "tcp", spoils' = 0 PROVE SerialInv'
  <2>1. SerialTypes /\ (Quiet \/ UnderWay) /\ spoils = 0 /\ wire' = Coming
    BY <1>1, <1>2, <1>3 DEF CleanLineInv, SerialInv, Coming
  <2>2. /\ wire = <<>> /\ Len(received) < Len(Contents) /\ sent' = Len(received) + 1 /\ Idle
    BY <1>1, <1>2, <1>3, <2>1 DEF SendTcp, SendSerial
  <2>3. pc = "scan" /\ buf = <<>> /\ Len(received) \in Nat
    BY <2>1, <2>2 DEF Idle, SerialTypes
  <2>4. Contents \in Seq(Seq(Nat)) /\ PacketMax \in Nat /\ line \in {"com", "rtk"} /\ line \in Lines
    BY <2>1 DEF FramingAssumption, SerialTypes
  <2>5. Len(received) + 1 \in 1..Len(Contents)
    BY <2>2, <2>3, <2>4
  <2>6. Coming \in Seq(Bytes)
    BY <2>4, <2>5, SerialFrameIs DEF Coming
  <2>7. Coming' = Coming /\ Enough' = Enough
    BY <1>1 DEF Coming, Enough
  <2>8. UnderWay'
    <3>1. <<>> \o Coming = Coming
      BY <2>6
    <3>2. Len(<<>>) < Enough
      BY DEF Enough
    <3> QED BY <1>1, <2>1, <2>2, <2>3, <2>7, <3>1, <3>2 DEF UnderWay
  <2>9. SerialTypes'
    <3>1. sent' \in 0..Len(Contents) /\ Len(received') <= sent'
      BY <1>1, <2>2, <2>3, <2>5
    <3> QED BY <1>1, <2>1, <2>6, <3>1 DEF SerialTypes
  <2> QED BY <2>8, <2>9 DEF SerialInv
<1> QED BY <1>1, <1>2, <1>3 DEF CleanLineInv

(* The packet under way, as the receiver's steps need it. *)
LEMMA ComingIs ==
    ASSUME FramingAssumption, PacketsFit, SerialTypes, UnderWay
    PROVE  /\ Coming \in Seq(Bytes) /\ Len(Coming) \in Nat /\ Len(Coming) >= 3 /\ Len(Coming) >= Enough
           /\ Coming[1] = Header /\ Enough >= 2
           /\ \A b : b[2] = Coming[2] => Announced(b) = Len(Coming) /\ Plausible(Announced(b))
           /\ ContentsOf(Coming) = Contents[Len(received) + 1]
           /\ Len(received) + 1 \in 1..Len(Contents) /\ Contents[Len(received) + 1] \in Seq(Nat)
<1>1. Contents \in Seq(Seq(Nat)) /\ PacketMax \in Nat /\ line \in {"com", "rtk"} /\ line \in Lines
  BY DEF FramingAssumption, SerialTypes
<1>2. Len(received) + 1 \in 1..Len(Contents)
  BY <1>1 DEF SerialTypes, UnderWay
<1>3. Enough >= 2
  BY DEF Enough
<1> QED BY <1>1, <1>2, <1>3, SerialFrameIs DEF Coming

LEMMA SerialScanned ==
    ASSUME FramingAssumption, PacketsFit, SerialInv, Scan
    PROVE  SerialInv'
<1>1. SerialTypes /\ pc = "scan" /\ line # "tcp"
  BY DEF SerialInv, SerialTypes, Scan
<1>2. PICK k \in AtMost(BufferMax - Len(buf), Len(wire)) : ScanSerial(k)
  BY <1>1 DEF Scan
<1>3. UNCHANGED <<line, sent, spoils, received>>
  BY DEF Scan
<1>4. wire \in Seq(Bytes) /\ buf \in Seq(Bytes) /\ Len(wire) \in Nat /\ Len(buf) \in Nat
  BY <1>1 DEF SerialTypes
<1>5. k \in 1..Len(wire)
  <2>1. BufferMax \in Nat
    BY DEF FramingAssumption
  <2> QED BY <1>2, <1>4, <2>1 DEF AtMost
<1>6. UnderWay
  <2>1. wire # <<>>
    BY <1>4, <1>5
  <2> QED BY <2>1 DEF SerialInv, Quiet
<1>7. /\ Coming \in Seq(Bytes) /\ Len(Coming) \in Nat /\ Len(Coming) >= 3 /\ Coming[1] = Header /\ Enough >= 2
      /\ \A b : b[2] = Coming[2] => Announced(b) = Len(Coming) /\ Plausible(Announced(b))
  BY <1>1, <1>6, ComingIs
<1>8. buf \o wire = Coming /\ sent = Len(received) + 1
  BY <1>1, <1>6 DEF UnderWay
<1>9. PICK b : b = buf \o SubSeq(wire, 1, k)
  OBVIOUS
<1>10. PICK w : w = SubSeq(wire, k + 1, Len(wire))
  OBVIOUS
<1>11. b \in Seq(Bytes) /\ w \in Seq(Bytes) /\ b \o w = Coming /\ Len(b) = Len(buf) + k
  <2>1. Recut(Bytes, buf, wire, b, w) /\ Len(b) = Len(buf) + k
    BY <1>4, <1>5, <1>9, <1>10, CutElsewhere, Zenon
  <2> QED BY <1>8, <2>1 DEF Recut
<1>12. Len(b) <= Len(Coming) /\ Len(b) >= 1 /\ Len(b) \in Nat /\ \A j \in 1..Len(b) : b[j] = Coming[j]
  <2>1. Len(Coming) = Len(b) + Len(w) /\ \A j \in 1..Len(b) : b[j] = Coming[j]
    BY <1>11, BeginsAlike
  <2>2. Len(w) \in Nat /\ Len(b) \in Nat
    BY <1>11
  <2> QED BY <1>4, <1>5, <1>11, <2>1, <2>2
<1>13. FromHeader(b) = b
  <2>1. b[1] = Header
    BY <1>7, <1>12
  <2> QED BY <1>11, <1>12, <2>1, FromHeaderIs
<1>14. wire' = w
  BY <1>2, <1>10 DEF ScanSerial, Rest
<1>15. Coming' = Coming /\ Enough' = Enough
  BY <1>3 DEF Coming, Enough
<1>16. CASE Len(b) < Enough
  <2>1. buf' = b /\ UNCHANGED <<pc, body, need, hollow>>
    BY <1>2, <1>9, <1>13, <1>16 DEF ScanSerial
  <2>2. UnderWay'
    BY <1>1, <1>3, <1>8, <1>11, <1>14, <1>15, <1>16, <2>1 DEF UnderWay
  <2>3. SerialTypes'
    BY <1>1, <1>3, <1>11, <1>14, <2>1 DEF SerialTypes
  <2> QED BY <2>2, <2>3 DEF SerialInv
<1>17. CASE ~(Len(b) < Enough)
  <2>1. Announced(b) = Len(Coming) /\ Plausible(Announced(b))
    <3>1. 2 \in 1..Len(b)
      BY <1>7, <1>12, <1>17 DEF Enough
    <3> QED BY <1>7, <1>12, <3>1
  <2>2. /\ body' = SubSeq(b, 1, IF Announced(b) < Len(b) THEN Announced(b) ELSE Len(b))
        /\ need' = Announced(b) /\ pc' = "body" /\ buf' = <<>> /\ UNCHANGED hollow
    BY <1>2, <1>9, <1>13, <1>17, <2>1 DEF ScanSerial
  <2>3. body' = b
    <3>1. ~(Len(Coming) < Len(b))
      BY <1>7, <1>12
    <3>2. body' = SubSeq(b, 1, Len(b))
      BY <2>1, <2>2, <3>1
    <3>3. SubSeq(b, 1, Len(b)) = b
      BY <1>11
    <3> QED BY <3>2, <3>3
  <2>4. UnderWay'
    BY <1>3, <1>8, <1>11, <1>14, <1>15, <2>1, <2>2, <2>3 DEF UnderWay
  <2>5. SerialTypes'
    <3>1. <<>> \in Seq(Bytes)
      OBVIOUS
    <3>2. wire' \in Seq(Bytes) /\ buf' \in Seq(Bytes) /\ body' \in Seq(Bytes) /\ pc' = "body"
      BY <1>11, <1>14, <2>2, <2>3, <3>1
    <3> QED BY <1>1, <1>3, <2>2, <3>2 DEF SerialTypes
  <2> QED BY <2>4, <2>5 DEF SerialInv
<1> QED BY <1>16, <1>17

LEMMA SerialRead ==
    ASSUME FramingAssumption, PacketsFit, SerialInv, ReadBody
    PROVE  SerialInv'
<1>1. SerialTypes /\ pc = "body" /\ UnderWay
  BY DEF SerialInv, Quiet, ReadBody
<1>2. PICK k \in AtMost(need - Len(body), Len(wire)) :
          body' = body \o SubSeq(wire, 1, k) /\ wire' = Rest(k)
  BY DEF ReadBody
<1>3. UNCHANGED <<line, sent, spoils, pc, buf, need, naks, hollow, received>>
  BY DEF ReadBody
<1>4. /\ wire \in Seq(Bytes) /\ body \in Seq(Bytes) /\ Len(wire) \in Nat /\ Len(body) \in Nat
      /\ body \o wire = Coming /\ need = Len(Coming) /\ buf = <<>>
  <2>1. wire \in Seq(Bytes) /\ body \in Seq(Bytes)
    BY <1>1 DEF SerialTypes
  <2>2. body \o wire = Coming /\ need = Len(Coming) /\ buf = <<>>
    BY <1>1, Zenon DEF UnderWay
  <2> QED BY <2>1, <2>2
<1>5. k \in 1..Len(wire)
  <2>1. Len(Coming) \in Nat
    BY <1>1, ComingIs
  <2> QED BY <1>2, <1>4, <2>1 DEF AtMost
<1>6. wire' = SubSeq(wire, k + 1, Len(wire))
  BY <1>2 DEF Rest
<1>7. body' \in Seq(Bytes) /\ wire' \in Seq(Bytes) /\ body' \o wire' = Coming
  <2>1. Recut(Bytes, body, wire, body', wire')
    <3>1. Recut(Bytes, body, wire, body \o SubSeq(wire, 1, k), SubSeq(wire, k + 1, Len(wire)))
      BY <1>4, <1>5, CutElsewhere, Zenon
    <3> QED BY <1>2, <1>6, <3>1, Zenon
  <2> QED BY <1>4, <2>1 DEF Recut
<1>8. Coming' = Coming
  BY <1>3 DEF Coming
<1>9. UnderWay'
  BY <1>1, <1>3, <1>4, <1>7, <1>8 DEF UnderWay
<1>10. SerialTypes'
  BY <1>1, <1>3, <1>7 DEF SerialTypes
<1> QED BY <1>9, <1>10 DEF SerialInv

(* A complete packet is the one under way; when its check sum fits it is accepted,
   and when not, the line is quiet and the packet comes again. *)
LEMMA SerialCompleted ==
    ASSUME FramingAssumption, PacketsFit, SerialInv, Complete
    PROVE  SerialInv'
<1>1. SerialTypes /\ pc = "body" /\ Len(body) = need /\ UnderWay
  BY DEF SerialInv, Quiet, Complete, Whole
<1>2. pc' = "scan" /\ UNCHANGED <<line, sent, wire, spoils, buf, body, need, hollow>>
  BY DEF Complete
<1>3. /\ wire \in Seq(Bytes) /\ body \in Seq(Bytes) /\ Len(wire) \in Nat /\ Len(body) \in Nat
      /\ body \o wire = Coming /\ need = Len(Coming) /\ buf = <<>> /\ sent = Len(received) + 1
      /\ received \in Seq(Seq(Nat)) /\ Len(received) \in Nat
  <2>1. wire \in Seq(Bytes) /\ body \in Seq(Bytes) /\ received \in Seq(Seq(Nat))
    BY <1>1 DEF SerialTypes
  <2>2. body \o wire = Coming /\ need = Len(Coming) /\ buf = <<>> /\ sent = Len(received) + 1
    BY <1>1, Zenon DEF UnderWay
  <2> QED BY <2>1, <2>2
<1>4. Len(wire) = 0 /\ body = Coming
  <2>1. Len(Coming) = Len(body) + Len(wire) /\ (Len(wire) = 0 => body = Coming)
    <3>1. wire \in Seq(Bytes) /\ body \in Seq(Bytes) /\ body \o wire = Coming
      BY <1>3
    <3> QED BY <3>1, BeginsAlike
  <2> QED BY <1>1, <1>3, <2>1
<1>5. Quiet'
  <2>1. wire = <<>>
    BY <1>3, <1>4
  <2> QED BY <1>2, <1>3, <2>1 DEF Quiet
<1>6. ContentsOf(body) = Contents[Len(received) + 1] /\ Contents[Len(received) + 1] \in Seq(Nat)
  BY <1>1, <1>4, ComingIs
<1>7. CASE UNCHANGED received
  BY <1>1, <1>2, <1>5, <1>7 DEF SerialInv, SerialTypes
<1>8. CASE received' = Append(received, ContentsOf(body))
  <2> DEFINE r == Len(received) + 1
             c == Contents[r]
  <2>1. received' = Append(received, c) /\ c \in Seq(Nat) /\ r \in Nat /\ sent = r
    BY <1>3, <1>6, <1>8
  <2> HIDE DEF c
  <2>2. /\ received' \in Seq(Seq(Nat)) /\ Len(received') = r
        /\ \A i \in 1..Len(received) : received'[i] = received[i]
        /\ received'[r] = c
    BY <1>3, <2>1
  <2>3. \A i \in 1..Len(received') : received'[i] = Contents[i]
    <3>1. \A i \in 1..r : i = r \/ i \in 1..Len(received)
      BY <1>3
    <3>2. \A i \in 1..Len(received) : received[i] = Contents[i]
      BY <1>1 DEF SerialTypes
    <3> QED BY <2>2, <3>1, <3>2 DEF c
  <2>4. Len(received') <= sent'
    BY <1>2, <2>1, <2>2
  <2>5. SerialTypes'
    BY <1>1, <1>2, <2>2, <2>3, <2>4 DEF SerialTypes
  <2> QED BY <1>5, <2>5 DEF SerialInv
<1> QED BY <1>7, <1>8 DEF Complete

(* No packet is given up half-read. *)
LEMMA SerialTimedOut ==
    ASSUME FramingAssumption, PacketsFit, SerialInv, Timeout
    PROVE  SerialInv'
<1>1. /\ wire = <<>> /\ ~Whole /\ pc' = "scan" /\ buf' = <<>>
      /\ UNCHANGED <<line, sent, wire, spoils, body, need, hollow, received>>
  BY DEF Timeout
<1>2. SerialTypes
  BY DEF SerialInv
<1>3. Quiet
  <2> SUFFICES ASSUME UnderWay PROVE FALSE
    BY DEF SerialInv
  <2>1. /\ Len(Coming) \in Nat /\ Len(Coming) >= Enough /\ Enough \in Nat
    BY <1>2, ComingIs DEF Enough
  <2>2. wire \in Seq(Bytes) /\ Len(wire) = 0 /\ buf \in Seq(Bytes) /\ body \in Seq(Bytes)
    BY <1>1, <1>2 DEF SerialTypes
  <2>3. CASE pc = "scan"
    <3>1. buf \o wire = Coming /\ Len(buf) < Enough
      BY <2>3 DEF UnderWay
    <3>2. buf = Coming
      BY <2>2, <3>1, BeginsAlike
    <3> QED BY <2>1, <3>1, <3>2
  <2>4. CASE pc = "body"
    <3>1. body \o wire = Coming /\ need = Len(Coming)
      BY <2>4 DEF UnderWay
    <3>2. body = Coming
      BY <2>2, <3>1, BeginsAlike
    <3> QED BY <1>1, <2>4, <3>1, <3>2 DEF Whole
  <2> QED BY <1>2, <2>3, <2>4 DEF SerialTypes
<1> QED BY <1>1, <1>2, <1>3 DEF SerialInv, SerialTypes, Quiet

(* On a serial line, of either protocol, as long as it spoils nothing: what
   bcap_recv and rtk_recv accept are the packets that were sent, each once, in
   their order, however the bytes are cut, and rtk_recv never returns S_OK without
   a packet.  What one read takes beyond a packet, which the code drops, holds
   nothing. *)
THEOREM SerialStaysGenuine ==
    PacketsFit => (FramingSpec => [](line # "tcp" /\ spoils = 0 => PacketsGenuine /\ ~hollow))
<1> SUFFICES ASSUME PacketsFit
             PROVE  FramingSpec => [](line # "tcp" /\ spoils = 0 => PacketsGenuine /\ ~hollow)
  OBVIOUS
<1>0. FramingAssumption
  BY FramingAssumption
<1>1. FramingInit => CleanLineInv
  <2> SUFFICES ASSUME FramingInit PROVE CleanLineInv
    OBVIOUS
  <2>1. Contents \in Seq(Seq(Nat)) /\ Lines \subseteq {"tcp", "com", "rtk"}
    BY <1>0 DEF FramingAssumption
  <2>2. line # "tcp" => SerialTypes
    BY <2>1 DEF FramingInit, SerialTypes
  <2> QED BY <2>2 DEF FramingInit, CleanLineInv, SerialInv, Quiet
<1>2. CleanLineInv /\ [FramingNext]_frameVars => CleanLineInv'
  <2> SUFFICES ASSUME CleanLineInv, [FramingNext]_frameVars PROVE CleanLineInv'
    OBVIOUS
  <2>1. CASE SendPacket
    BY <2>1, <1>0, SerialSent
  <2>2. CASE ReceiverMoves
    <3>1. UNCHANGED <<line, spoils>>
      BY <2>2 DEF ReceiverMoves, Scan, ReadBody, Complete, Timeout
    <3>2. ASSUME SerialInv PROVE SerialInv'
      BY <3>2, <2>2, <1>0, SerialScanned, SerialRead, SerialCompleted, SerialTimedOut DEF ReceiverMoves
    <3> QED BY <3>1, <3>2 DEF CleanLineInv
  <2>3. CASE UNCHANGED frameVars
    BY <2>3 DEF frameVars, CleanLineInv, SerialInv, SerialTypes, Quiet, UnderWay, Coming, Enough
  <2> QED BY <2>1, <2>2, <2>3 DEF FramingNext
<1>3. CleanLineInv => (line # "tcp" /\ spoils = 0 => PacketsGenuine /\ ~hollow)
  <2> SUFFICES ASSUME SerialTypes PROVE PacketsGenuine /\ ~hollow
    BY DEF CleanLineInv, SerialInv
  <2>1. /\ received \in Seq(Seq(Nat)) /\ Contents \in Seq(Seq(Nat)) /\ sent \in 0..Len(Contents)
        /\ Len(received) <= sent /\ \A i \in 1..Len(received) : received[i] = Contents[i] /\ ~hollow
    BY <1>0 DEF FramingAssumption, SerialTypes
  <2>2. IsPrefix(received, SubSeq(Contents, 1, sent))
    BY <2>1, SamePrefix, Zenon
  <2> QED BY <2>1, <2>2 DEF PacketsGenuine, SerialTypes
<1> QED BY <1>1, <1>2, <1>3, PTL DEF FramingSpec

-----------------------------------------------------------------------------
(* Options. *)

(* What has been read of a sequence, and one more element of it. *)
Read(s, n) == SubSeq(s, 1, n)
LEMMA OneMoreRead ==
    ASSUME NEW S, NEW s \in Seq(S), NEW n \in Nat, n < Len(s)
    PROVE  Read(s, n + 1) = Append(Read(s, n), s[n + 1])
<1> DEFINE a == SubSeq(s, 1, n + 1)
           b == SubSeq(s, 1, n)
           c == Append(b, s[n + 1])
<1>1. a \in Seq(S) /\ Len(a) = n + 1 /\ \A i \in 1..n + 1 : a[i] = s[i]
  OBVIOUS
<1>2. b \in Seq(S) /\ Len(b) = n /\ \A i \in 1..n : b[i] = s[i]
  OBVIOUS
<1>3. s[n + 1] \in S
  OBVIOUS
<1> HIDE DEF a, b
<1>4. c \in Seq(S) /\ Len(c) = n + 1 /\ \A i \in 1..n + 1 : c[i] = IF i = n + 1 THEN s[n + 1] ELSE b[i]
  BY <1>2, <1>3
<1> HIDE DEF c
<1>5. \A i \in 1..n + 1 : a[i] = c[i]
  BY <1>1, <1>2, <1>4
<1>6. a = c
  BY <1>1, <1>4, <1>5
<1> QED BY <1>6 DEF Read, a, b, c

LEMMA ReadEnds ==
    ASSUME NEW S, NEW s \in Seq(S)
    PROVE  Read(s, 0) = <<>> /\ Read(s, Len(s)) = s
  BY DEF Read
LEMMA ReadType ==
    ASSUME NEW S, NEW s \in Seq(S), NEW n \in 0..Len(s)
    PROVE  Read(s, n) \in Seq(S) /\ Len(Read(s, n)) = n
  BY DEF Read

(* The same behind another sequence. *)
LEMMA ReadBehind ==
    ASSUME NEW S, NEW a \in Seq(S), NEW s \in Seq(S), NEW n \in Nat, n < Len(s)
    PROVE  a \o Read(s, n + 1) = Append(a \o Read(s, n), s[n + 1])
<1>1. Read(s, n + 1) = Append(Read(s, n), s[n + 1])
  BY OneMoreRead, Zenon
<1>2. Read(s, n) \in Seq(S) /\ s[n + 1] \in S
  BY ReadType
<1>3. \A b \in Seq(S), x \in S : a \o Append(b, x) = Append(a \o b, x)
  OBVIOUS
<1> QED BY <1>1, <1>2, <1>3

(* An element more. *)
LEMMA TimesNext ==
    ASSUME NEW s, NEW x, NEW n \in Nat
    PROVE  /\ Times(s, x, n) \in Nat
           /\ Times(s, x, n + 1) = Times(s, x, n) + (IF s[n + 1] = x THEN 1 ELSE 0)
<1> DEFINE A == {i \in 1..n : s[i] = x}
           B == {i \in 1..n + 1 : s[i] = x}
<1>1. IsFiniteSet(A) /\ Cardinality(A) \in Nat
  <2>1. IsFiniteSet(1..n)
    BY FS_Interval
  <2>2. A \subseteq 1..n
    OBVIOUS
  <2> QED BY <2>1, <2>2, FS_Subset, FS_CardinalityType
<1>2. n + 1 \notin A
  OBVIOUS
<1>3. B = IF s[n + 1] = x THEN A \cup {n + 1} ELSE A
  OBVIOUS
<1> HIDE DEF A, B
<1>4. Cardinality(A \cup {n + 1}) = Cardinality(A) + 1
  BY <1>1, <1>2, FS_AddElement
<1>5. Cardinality(A) \in Nat /\ Cardinality(B) = Cardinality(A) + (IF s[n + 1] = x THEN 1 ELSE 0)
  BY <1>1, <1>3, <1>4
<1> QED BY <1>5 DEF A, B, Times

(* The pair a bracket belongs to. *)
LEMMA PairsAre ==
    /\ \A p \in Pairs : /\ PairOf(p[1]) = p /\ PairOf(p[2]) = p /\ p[1] # p[2]
                        /\ {p[1], p[2]} \subseteq Brackets
    /\ \A c \in Brackets : PairOf(c) \in Pairs /\ c \in {PairOf(c)[1], PairOf(c)[2]}
    /\ {Blank, "=", ",", EndOfText, "none"} \cap Brackets = {}
    /\ Blank \notin {"=", ","} /\ "=" # ","
<1>0. \A p \in Pairs : \/ p[1] = "(" /\ p[2] = ")" /\ p = <<"(", ")">>
                       \/ p[1] = "[" /\ p[2] = "]" /\ p = <<"[", "]">>
                       \/ p[1] = "{" /\ p[2] = "}" /\ p = <<"{", "}">>
                       \/ p[1] = "<" /\ p[2] = ">" /\ p = <<"<", ">">>
  <2>1. \A p \in Pairs : p = <<"(", ")">> \/ p = <<"[", "]">> \/ p = <<"{", "}">> \/ p = <<"<", ">">>
    BY Zenon DEF Pairs
  <2>2. \A p, x, y : p = <<x, y>> => p[1] = x /\ p[2] = y
    OBVIOUS
  <2> TAKE p \in Pairs
  <2>3. CASE p = <<"(", ")">>
    BY <2>2, <2>3, Zenon
  <2>4. CASE p = <<"[", "]">>
    BY <2>2, <2>4, Zenon
  <2>5. CASE p = <<"{", "}">>
    BY <2>2, <2>5, Zenon
  <2>6. CASE p = <<"<", ">">>
    BY <2>2, <2>6, Zenon
  <2> QED BY <2>1, <2>3, <2>4, <2>5, <2>6, Zenon
<1>1. \A p, q \in Pairs : {p[1], p[2]} \cap {q[1], q[2]} # {} => p = q
  BY <1>0
<1>2. \A p \in Pairs : p[1] # p[2]
  BY <1>0
<1>a. \A p \in Pairs : {p[1], p[2]} \subseteq Brackets
  BY Zenon DEF Brackets
<1>3. \A c \in Brackets : \E p \in Pairs : c \in {p[1], p[2]}
  BY Zenon DEF Brackets
<1>4. \A c \in Brackets : PairOf(c) \in Pairs /\ c \in {PairOf(c)[1], PairOf(c)[2]}
  BY <1>3, Zenon DEF PairOf
<1>5. \A p \in Pairs : PairOf(p[1]) = p /\ PairOf(p[2]) = p
  <2> TAKE p \in Pairs
  <2>1. p[1] \in Brackets /\ p[2] \in Brackets
    BY <1>a
  <2>2. p[1] \in {PairOf(p[1])[1], PairOf(p[1])[2]} /\ PairOf(p[1]) \in Pairs
    BY <2>1, <1>4
  <2>3. p[2] \in {PairOf(p[2])[1], PairOf(p[2])[2]} /\ PairOf(p[2]) \in Pairs
    BY <2>1, <1>4
  <2>4. PairOf(p[1]) = p
    BY <2>2, <1>1
  <2>5. PairOf(p[2]) = p
    BY <2>3, <1>1
  <2> QED BY <2>4, <2>5
<1>6. {Blank, "=", ",", "none"} \cap Brackets = {} /\ Blank \notin {"=", ","} /\ "=" # ","
  <2>1. \A p \in Pairs : {Blank, "=", ",", "none"} \cap {p[1], p[2]} = {}
    BY <1>0 DEF Blank
  <2> QED BY <1>3, <2>1 DEF Blank
<1>7. EndOfText \notin Brackets
  BY OptionsAssumption DEF OptionsAssumption
<1> QED BY <1>2, <1>a, <1>4, <1>5, <1>6, <1>7

LEMMA DepthNext ==
    ASSUME NEW s, NEW p \in Pairs, NEW n \in Nat
    PROVE  /\ Depth(s, p, n) \in Int
           /\ Depth(s, p, n + 1) = IF s[n + 1] = p[1] THEN Depth(s, p, n) + 1
                                   ELSE IF s[n + 1] = p[2] THEN Depth(s, p, n) - 1 ELSE Depth(s, p, n)
<1>1. p[1] # p[2]
  BY PairsAre
<1>2. Times(s, p[1], n) \in Nat /\ Times(s, p[1], n + 1) = Times(s, p[1], n) + (IF s[n + 1] = p[1] THEN 1 ELSE 0)
  BY TimesNext, Zenon
<1>3. Times(s, p[2], n) \in Nat /\ Times(s, p[2], n + 1) = Times(s, p[2], n) + (IF s[n + 1] = p[2] THEN 1 ELSE 0)
  BY TimesNext, Zenon
<1> QED BY <1>1, <1>2, <1>3 DEF Depth
LEMMA DepthBegin == ASSUME NEW s, NEW p PROVE Depth(s, p, 0) = 0
<1>1. \A x : {i \in 1..0 : s[i] = x} = {}
  OBVIOUS
<1>2. Times(s, p[1], 0) = 0 /\ Times(s, p[2], 0) = 0
  BY <1>1, FS_EmptySet DEF Times
<1> QED BY <1>2 DEF Depth

(* What a turn of the loop does, by the character it looks at. *)
Locals(l, p, q, t, r, v) == [level |-> l, open |-> p, close |-> q, title |-> t, run |-> r, part |-> v]
Marks == Brackets \cup {"none"}

LEMMA LocalsFields ==
    ASSUME NEW l, NEW p, NEW q, NEW t, NEW r, NEW v, NEW s, s = Locals(l, p, q, t, r, v)
    PROVE  /\ s.level = l /\ s.open = p /\ s.close = q /\ s.title = t /\ s.run = r /\ s.part = v
           /\ \A k : [s EXCEPT !.level = k] = Locals(k, p, q, t, r, v)
           /\ \A k : [s EXCEPT !.open = k] = Locals(l, k, q, t, r, v)
           /\ \A k : [s EXCEPT !.close = k] = Locals(l, p, k, t, r, v)
           /\ \A k : [s EXCEPT !.title = k] = Locals(l, p, q, k, r, v)
           /\ \A k : [s EXCEPT !.run = k] = Locals(l, p, q, t, k, v)
           /\ \A k : [s EXCEPT !.part = k] = Locals(l, p, q, t, r, k)
           /\ \A c : [s EXCEPT !.run = Append(@, c)] = Locals(l, p, q, t, Append(r, c), v)
  BY DEF Locals
LEMMA LevelSet ==
    ASSUME NEW l, NEW p, NEW q, NEW t, NEW r, NEW v, NEW s, s = Locals(l, p, q, t, r, v), l \in Int
    PROVE  Deeper(s) = Locals(l + 1, p, q, t, r, v) /\ Shallower(s) = Locals(l - 1, p, q, t, r, v)
  BY DEF Locals, Deeper, Shallower
LEMMA LocalsCounted ==
    ASSUME NEW l, NEW p, NEW q, NEW t, NEW r, NEW v, NEW s, s = Locals(l, p, q, t, r, v)
    PROVE  Count(s) = Locals(l, p, q, t, Append(r, Character), v)
  BY LocalsFields DEF Count
LEMMA LocalsValue ==
    ASSUME NEW l, NEW p, NEW q, NEW t, NEW r, NEW v, NEW s, s = Locals(l, p, q, t, r, v)
    PROVE  r # <<>> => ValueBegins(s) = Locals(l, p, q, r, <<>>, "value")
<1>1. \A x : x = Locals(l, p, q, t, r, v) => [x EXCEPT !.title = r] = Locals(l, p, q, r, r, v)
  BY DEF Locals
<1>2. \A x : x = Locals(l, p, q, r, r, v) => [x EXCEPT !.run = <<>>] = Locals(l, p, q, r, <<>>, v)
  BY DEF Locals
<1>3. \A x : x = Locals(l, p, q, r, <<>>, v) => [x EXCEPT !.part = "value"] = Locals(l, p, q, r, <<>>, "value")
  BY DEF Locals
<1>4. [[[s EXCEPT !.title = r] EXCEPT !.run = <<>>] EXCEPT !.part = "value"] = Locals(l, p, q, r, <<>>, "value")
  BY <1>1, <1>2, <1>3
<1>5. s.run = r
  BY DEF Locals
<1> QED BY <1>4, <1>5 DEF ValueBegins
LEMMA LocalsNext ==
    ASSUME NEW l, NEW p, NEW q, NEW t, NEW r, NEW v, NEW s, s = Locals(l, p, q, t, r, v)
    PROVE  NextOption(s) = Locals(l, p, q, <<>>, <<>>, "title")
<1>1. \A x : x = Locals(l, p, q, t, r, v) => [x EXCEPT !.title = <<>>] = Locals(l, p, q, <<>>, r, v)
  BY DEF Locals
<1>2. \A x : x = Locals(l, p, q, <<>>, r, v) => [x EXCEPT !.run = <<>>] = Locals(l, p, q, <<>>, <<>>, v)
  BY DEF Locals
<1>3. \A x : x = Locals(l, p, q, <<>>, <<>>, v) => [x EXCEPT !.part = "title"] = Locals(l, p, q, <<>>, <<>>, "title")
  BY DEF Locals
<1>4. [[[s EXCEPT !.title = <<>>] EXCEPT !.run = <<>>] EXCEPT !.part = "title"] = Locals(l, p, q, <<>>, <<>>, "title")
  BY <1>1, <1>2, <1>3
<1> QED BY <1>4 DEF NextOption

LEMMA Outside ==
    ASSUME OptionsNext, NEW p \in Marks, NEW q \in Marks, NEW t, NEW r, NEW v,
           scan = Locals(0, p, q, t, r, v), Character \notin Brackets, Character # "none"
    PROVE  /\ Character \notin {"=", ",", EndOfText} => Goes(Locals(0, p, q, t, Append(r, Character), v))
           /\ Character = "=" /\ v = "value" => Yields(OptionFails)
           /\ Character = "=" /\ v = "title" /\ r # <<>> => Goes(Locals(0, p, q, r, <<>>, "value"))
           /\ Character \in {",", EndOfText} => EndOption
<1>1. Kind = Locals(0, p, q, t, r, v)
  BY DEF Kind, Locals
<1>2. Character \notin {Kind.open, Kind.close}
  BY <1>1 DEF Marks, Locals
<1>3. ~OpenBracket /\ ~CloseBracket
  BY <1>2 DEF OpenBracket, CloseBracket
<1>4. EqualSign \/ EndOption \/ CountCharacter
  BY <1>3 DEF OptionsNext
<1>5. scan.level = 0 /\ scan.run = r /\ scan.part = v /\ scan.title = t
  BY DEF Locals
<1>6. {"=", ",", EndOfText} \cap Brackets = {} /\ "=" # "," /\ EndOfText # "=" /\ EndOfText # ","
  BY PairsAre, OptionsAssumption DEF OptionsAssumption
<1>7. ASSUME Character \notin {"=", ",", EndOfText}
      PROVE  Goes(Locals(0, p, q, t, Append(r, Character), v))
  <2>1. Goes(Count(Kind))
    BY <1>4, <1>7 DEF EqualSign, EndOption, CountCharacter
  <2>2. Count(Kind) = Locals(0, p, q, t, Append(r, Character), v)
    BY <1>1, LocalsCounted
  <2> QED BY <2>1, <2>2
<1>8. ASSUME Character = "="
      PROVE  EqualSign
  BY <1>4, <1>5, <1>6, <1>8 DEF EndOption, CountCharacter
<1>9. ASSUME Character = "=", v = "title", r # <<>>
      PROVE  Goes(Locals(0, p, q, r, <<>>, "value"))
  <2>1. Goes(ValueBegins(scan))
    BY <1>5, <1>8, <1>9 DEF EqualSign
  <2>2. ValueBegins(scan) = Locals(0, p, q, r, <<>>, "value")
    BY <1>9, LocalsValue
  <2> QED BY <2>1, <2>2
<1>10. ASSUME Character = "=", v = "value"
       PROVE  Yields(OptionFails)
  BY <1>5, <1>8, <1>10 DEF EqualSign
<1>11. ASSUME Character \in {",", EndOfText}
       PROVE  EndOption
  BY <1>4, <1>5, <1>6, <1>11 DEF EqualSign, CountCharacter
<1> QED BY <1>7, <1>9, <1>10, <1>11

LEMMA AtBracket ==
    ASSUME OptionsNext, NEW p, NEW q, NEW t, NEW r, NEW v, NEW b \in Pairs,
           scan = Locals(0, p, q, t, r, v)
    PROVE  /\ Character = b[1] => Goes(Locals(1, b[1], b[2], t, r, v))
           /\ Character = b[2] => Yields(OptionFails)
<1>1. ASSUME Character \in {b[1], b[2]}
      PROVE  /\ Kind = Locals(0, b[1], b[2], t, r, v) /\ Kind.level = 0
             /\ Kind.open = b[1] /\ Kind.close = b[2] /\ b[1] # b[2]
             /\ OpenBracket \/ CloseBracket
  <2>1. Character \in Brackets /\ PairOf(Character) = b /\ b[1] # b[2]
    BY <1>1, PairsAre
  <2>2. Kind = Locals(0, b[1], b[2], t, r, v)
    BY <2>1 DEF Kind, Locals
  <2>3. Kind.level = 0 /\ Kind.open = b[1] /\ Kind.close = b[2]
    BY <2>2 DEF Locals
  <2>4. ~EqualSign /\ ~EndOption
    BY <2>1, PairsAre DEF EqualSign, EndOption
  <2>5. ~CountCharacter
    BY <1>1, <2>3 DEF CountCharacter
  <2> QED BY <2>1, <2>2, <2>3, <2>4, <2>5 DEF OptionsNext
<1>2. ASSUME Character = b[1]
      PROVE  Goes(Locals(1, b[1], b[2], t, r, v))
  <2>1. OpenBracket
    BY <1>1, <1>2 DEF CloseBracket
  <2>2. Goes(Deeper(Kind))
    BY <2>1, <1>1, <1>2 DEF OpenBracket
  <2>3. Deeper(Kind) = Locals(1, b[1], b[2], t, r, v)
    BY <1>1, <1>2, LevelSet
  <2> QED BY <2>2, <2>3
<1>3. ASSUME Character = b[2]
      PROVE  Yields(OptionFails)
  <2>1. CloseBracket
    BY <1>1, <1>3 DEF OpenBracket
  <2> QED BY <2>1, <1>1, <1>3 DEF CloseBracket
<1> QED BY <1>2, <1>3

LEMMA Inside ==
    ASSUME OptionsNext, NEW b \in Pairs, NEW t, NEW r, NEW v, NEW l \in Nat, l # 0,
           scan = Locals(l, b[1], b[2], t, r, v)
    PROVE  /\ Character = b[1] => Goes(Locals(l + 1, b[1], b[2], t, Append(r, Character), v))
           /\ Character = b[2] /\ l > 1 => Goes(Locals(l - 1, b[1], b[2], t, Append(r, Character), v))
           /\ Character = b[2] /\ l = 1 => Goes(Locals(0, b[1], b[2], t, r, v))
           /\ Character \notin {b[1], b[2], EndOfText} => Goes(Locals(l, b[1], b[2], t, Append(r, Character), v))
           /\ Character = EndOfText => Yields(OptionFails)
<1>1. Kind = scan /\ Kind.level = l /\ Kind.open = b[1] /\ Kind.close = b[2] /\ scan.level = l
  BY DEF Kind, Locals
<1>2. b[1] # b[2] /\ EndOfText \notin {b[1], b[2]}
  BY PairsAre
<1>3. ~EqualSign /\ ~EndOption
  BY <1>1 DEF EqualSign, EndOption
<1>4. Count(Kind) = Locals(l, b[1], b[2], t, Append(r, Character), v)
  BY <1>1, LocalsCounted
<1>5. ASSUME Character = b[1]
      PROVE  Goes(Locals(l + 1, b[1], b[2], t, Append(r, Character), v))
  <2>1. OpenBracket
    BY <1>1, <1>2, <1>3, <1>5 DEF OptionsNext, CloseBracket, CountCharacter
  <2> DEFINE x == IF Kind.level = 0 THEN Kind ELSE Count(Kind)
  <2>2. Goes(Deeper(x))
    BY <2>1, Zenon DEF OpenBracket
  <2>3. x = Locals(l, b[1], b[2], t, Append(r, Character), v)
    BY <1>1, <1>4
  <2> HIDE DEF x
  <2>4. Deeper(x) = Locals(l + 1, b[1], b[2], t, Append(r, Character), v)
    BY <2>3, LevelSet
  <2> QED BY <2>2, <2>4
<1>6. ASSUME Character = b[2]
      PROVE  CloseBracket
  BY <1>1, <1>2, <1>3, <1>6 DEF OptionsNext, OpenBracket, CountCharacter
<1>7. ASSUME Character = b[2], l > 1
      PROVE  Goes(Locals(l - 1, b[1], b[2], t, Append(r, Character), v))
  <2> DEFINE x == IF Kind.level = 1 THEN Kind ELSE Count(Kind)
  <2>1. Goes(Shallower(x))
    BY <1>6, <1>7, <1>1 DEF CloseBracket
  <2>2. x = Locals(l, b[1], b[2], t, Append(r, Character), v)
    BY <1>1, <1>4, <1>7
  <2> HIDE DEF x
  <2>3. Shallower(x) = Locals(l - 1, b[1], b[2], t, Append(r, Character), v)
    BY <2>2, LevelSet
  <2> QED BY <2>1, <2>3
<1>8. ASSUME Character = b[2], l = 1
      PROVE  Goes(Locals(0, b[1], b[2], t, r, v))
  <2>1. Goes(Shallower(Kind))
    BY <1>6, <1>8, <1>1 DEF CloseBracket
  <2>2. Shallower(Kind) = Locals(0, b[1], b[2], t, r, v)
    BY <1>1, <1>8, LevelSet
  <2> QED BY <2>1, <2>2
<1>9. ASSUME Character \notin {b[1], b[2]}
      PROVE  CountCharacter
  BY <1>1, <1>3, <1>9 DEF OptionsNext, OpenBracket, CloseBracket
<1>10. ASSUME Character \notin {b[1], b[2], EndOfText}
       PROVE  Goes(Locals(l, b[1], b[2], t, Append(r, Character), v))
  BY <1>9, <1>10, <1>4 DEF CountCharacter
<1>11. ASSUME Character = EndOfText
       PROVE  Yields(OptionFails)
  BY <1>9, <1>11, <1>2 DEF CountCharacter
<1> QED BY <1>5, <1>7, <1>8, <1>10, <1>11

(* Which character is where. *)
Concatenated(S, w, a, b) ==
    /\ w \in Seq(S) /\ Len(w) = Len(a) + Len(b) /\ Len(a) \in Nat /\ Len(b) \in Nat
    /\ \A k \in 1..Len(a) : w[k] = a[k]
    /\ \A k \in 1..Len(b) : w[Len(a) + k] = b[k]
Opened(S, w, a, x, b) ==
    /\ w \in Seq(S) /\ Len(w) = Len(a) + 1 + Len(b) /\ Len(a) \in Nat /\ Len(b) \in Nat
    /\ \A k \in 1..Len(a) : w[k] = a[k]
    /\ w[Len(a) + 1] = x
    /\ \A k \in 1..Len(b) : w[Len(a) + 1 + k] = b[k]
Closed(S, w, a, x, b, y, f) ==
    /\ w \in Seq(S) /\ Len(w) = Len(a) + 2 + Len(b) + Len(f)
    /\ Len(a) \in Nat /\ Len(b) \in Nat /\ Len(f) \in Nat
    /\ \A k \in 1..Len(a) : w[k] = a[k]
    /\ w[Len(a) + 1] = x
    /\ \A k \in 1..Len(b) : w[Len(a) + 1 + k] = b[k]
    /\ w[Len(a) + Len(b) + 2] = y
    /\ \A k \in 1..Len(f) : w[Len(a) + Len(b) + 2 + k] = f[k]

LEMMA ConcatenatedIs == ASSUME NEW S, NEW a \in Seq(S), NEW b \in Seq(S) PROVE Concatenated(S, a \o b, a, b)
  BY DEF Concatenated
LEMMA OneIs == ASSUME NEW S, NEW c \in S PROVE <<c>> \in Seq(S) /\ Len(<<c>>) = 1 /\ <<c>>[1] = c
  OBVIOUS
LEMMA OpenedIs ==
    ASSUME NEW S, NEW a \in Seq(S), NEW b \in Seq(S), NEW x \in S
    PROVE  Opened(S, a \o <<x>> \o b, a, x, b)
<1>1. \A c, w, u : Concatenated(S, c, a, u) /\ Concatenated(S, w, c, b) /\ Len(u) = 1 /\ u[1] = x => Opened(S, w, a, x, b)
  <2> SUFFICES ASSUME NEW c, NEW w, NEW u, Concatenated(S, c, a, u), Concatenated(S, w, c, b), Len(u) = 1, u[1] = x
               PROVE  Opened(S, w, a, x, b)
    OBVIOUS
  <2>1. /\ w \in Seq(S) /\ Len(w) = Len(a) + 1 + Len(b) /\ Len(a) \in Nat /\ Len(b) \in Nat
        /\ \A k \in 1..Len(a) : w[k] = a[k]
        /\ w[Len(a) + 1] = x
    BY DEF Concatenated
  <2>2. \A k \in 1..Len(b) : w[Len(a) + 1 + k] = b[k]
    BY DEF Concatenated
  <2> QED BY <2>1, <2>2 DEF Opened
<1>2. <<x>> \in Seq(S) /\ Len(<<x>>) = 1 /\ <<x>>[1] = x
  BY OneIs
<1>3. Concatenated(S, a \o <<x>>, a, <<x>>)
  BY <1>2, ConcatenatedIs
<1>4. a \o <<x>> \in Seq(S)
  BY <1>3 DEF Concatenated
<1>5. Concatenated(S, a \o <<x>> \o b, a \o <<x>>, b)
  BY <1>4, ConcatenatedIs
<1> QED BY <1>1, <1>2, <1>3, <1>5, Zenon
LEMMA ClosedIs ==
    ASSUME NEW S, NEW a \in Seq(S), NEW b \in Seq(S), NEW f \in Seq(S), NEW x \in S, NEW y \in S
    PROVE  Closed(S, a \o <<x>> \o b \o <<y>> \o f, a, x, b, y, f)
<1>1. \A c, w : Opened(S, c, a, x, b) /\ Opened(S, w, c, y, f) => Closed(S, w, a, x, b, y, f)
  <2> SUFFICES ASSUME NEW c, NEW w, Opened(S, c, a, x, b), Opened(S, w, c, y, f)
               PROVE  Closed(S, w, a, x, b, y, f)
    OBVIOUS
  <2>1. /\ w \in Seq(S) /\ Len(w) = Len(a) + 2 + Len(b) + Len(f) /\ Len(a) \in Nat /\ Len(b) \in Nat /\ Len(f) \in Nat
        /\ \A k \in 1..Len(a) : w[k] = a[k]
        /\ w[Len(a) + 1] = x
    BY DEF Opened
  <2>2. \A k \in 1..Len(b) : w[Len(a) + 1 + k] = b[k]
    BY DEF Opened
  <2>3. w[Len(a) + Len(b) + 2] = y
    BY DEF Opened
  <2>4. \A k \in 1..Len(f) : w[Len(a) + Len(b) + 2 + k] = f[k]
    <3> TAKE k \in 1..Len(f)
    <3>1. w[Len(c) + 1 + k] = f[k]
      BY DEF Opened
    <3>2. Len(a) + Len(b) + 2 + k = Len(c) + 1 + k
      BY DEF Opened
    <3> QED BY <3>1, <3>2
  <2> QED BY <2>1, <2>2, <2>3, <2>4, Zenon DEF Closed
<1>2. Opened(S, a \o <<x>> \o b, a, x, b)
  BY OpenedIs
<1>3. a \o <<x>> \o b \in Seq(S)
  BY <1>2 DEF Opened
<1>4. Opened(S, a \o <<x>> \o b \o <<y>> \o f, a \o <<x>> \o b, y, f)
  BY <1>3, OpenedIs
<1> QED BY <1>1, <1>2, <1>4, Zenon
(* What they say of positions. *)
LEMMA ConcatenatedHas ==
    ASSUME NEW S, NEW w, NEW a, NEW b, Concatenated(S, w, a, b)
    PROVE  /\ Len(w) \in Nat /\ Len(a) \in Nat /\ Len(b) \in Nat /\ Len(w) = Len(a) + Len(b)
           /\ \A k \in 1..Len(a) : k \in 1..Len(w) /\ w[k] = a[k]
           /\ Len(b) >= 1 => Len(a) + 1 \in 1..Len(w) /\ w[Len(a) + 1] = b[1]
  BY DEF Concatenated
LEMMA OpenedHas ==
    ASSUME NEW S, NEW w, NEW a, NEW x, NEW b, Opened(S, w, a, x, b)
    PROVE  /\ Len(w) \in Nat /\ Len(a) \in Nat /\ Len(b) \in Nat /\ Len(w) = Len(a) + 1 + Len(b)
           /\ \A k \in 1..Len(a) : k \in 1..Len(w) /\ w[k] = a[k]
           /\ Len(a) + 1 \in 1..Len(w) /\ w[Len(a) + 1] = x
           /\ \A k \in 1..Len(b) : Len(a) + 1 + k \in 1..Len(w) /\ w[Len(a) + 1 + k] = b[k]
  BY DEF Opened
LEMMA ClosedHas ==
    ASSUME NEW S, NEW w, NEW a, NEW x, NEW b, NEW y, NEW f, Closed(S, w, a, x, b, y, f)
    PROVE  /\ Len(w) \in Nat /\ Len(a) \in Nat /\ Len(b) \in Nat /\ Len(f) \in Nat
           /\ Len(w) = Len(a) + 2 + Len(b) + Len(f)
           /\ \A k \in 1..Len(a) : k \in 1..Len(w) /\ w[k] = a[k]
           /\ Len(a) + 1 \in 1..Len(w) /\ w[Len(a) + 1] = x
           /\ \A k \in 1..Len(b) : Len(a) + 1 + k \in 1..Len(w) /\ w[Len(a) + 1 + k] = b[k]
           /\ Len(a) + Len(b) + 2 \in 1..Len(w) /\ w[Len(a) + Len(b) + 2] = y
           /\ \A k \in 1..Len(f) : Len(a) + Len(b) + 2 + k \in 1..Len(w) /\ w[Len(a) + Len(b) + 2 + k] = f[k]
<1>1. /\ Len(w) \in Nat /\ Len(a) \in Nat /\ Len(b) \in Nat /\ Len(f) \in Nat
      /\ Len(w) = Len(a) + 2 + Len(b) + Len(f)
  BY DEF Closed
<1>2. \A k \in 1..Len(a) : k \in 1..Len(w) /\ w[k] = a[k]
  BY <1>1 DEF Closed
<1>3. Len(a) + 1 \in 1..Len(w) /\ w[Len(a) + 1] = x
  BY <1>1 DEF Closed
<1>4. \A k \in 1..Len(b) : Len(a) + 1 + k \in 1..Len(w) /\ w[Len(a) + 1 + k] = b[k]
  BY <1>1 DEF Closed
<1>5. Len(a) + Len(b) + 2 \in 1..Len(w) /\ w[Len(a) + Len(b) + 2] = y
  BY <1>1 DEF Closed
<1>6. \A k \in 1..Len(f) : Len(a) + Len(b) + 2 + k \in 1..Len(w) /\ w[Len(a) + Len(b) + 2 + k] = f[k]
  BY <1>1 DEF Closed
<1> QED BY <1>1, <1>2, <1>3, <1>4, <1>5, <1>6, Zenon
LEMMA InWider == ASSUME NEW S, NEW T, S \subseteq T PROVE Seq(S) \subseteq Seq(T)
  OBVIOUS

LEMMA ReadableParts ==
    ASSUME NEW o, Readable(o)
    PROVE  /\ o.pad \in Seq(Characters) /\ o.key \in Seq(Characters) /\ o.before \in Seq(Characters)
           /\ o.inner \in Seq(Characters) /\ o.after \in Seq(Characters)
           /\ o.form \in {"enclosed", "unclosed"} => o.pair \in Pairs /\ o.pair[1] \in Characters /\ o.pair[2] \in Characters
           /\ Title(o) \in Seq(Characters)
<1>1. /\ o.pad \in Seq(Characters) /\ o.key \in Seq(Characters) /\ o.before \in Seq(Characters)
      /\ o.inner \in Seq(Characters) /\ o.after \in Seq(Characters)
  BY DEF Readable
<1>2. o.form \in {"enclosed", "unclosed"} => o.pair \in Pairs
  BY DEF Readable
<1>3. Brackets \subseteq Characters
  BY OptionsAssumption DEF OptionsAssumption
<1>4. o.form \in {"enclosed", "unclosed"} => o.pair[1] \in Characters /\ o.pair[2] \in Characters
  BY <1>2, <1>3, PairsAre
<1>5. Title(o) \in Seq(Characters)
  BY <1>1 DEF Title
<1> QED BY <1>1, <1>2, <1>4, <1>5

(* The text of a value, part by part. *)
LEMMA ValuePlain ==
    ASSUME NEW o, Readable(o), o.form = "plain"
    PROVE  ValueText(o) = o.before
  BY DEF ValueText
LEMMA ValueBroken ==
    ASSUME NEW o, Readable(o), o.form = "broken"
    PROVE  Concatenated(Characters, ValueText(o), o.before, o.inner) /\ Len(o.inner) >= 1
<1>1. ValueText(o) = o.before \o o.inner /\ o.inner # <<>>
  BY DEF ValueText, Readable
<1>2. o.before \in Seq(Characters) /\ o.inner \in Seq(Characters)
  BY ReadableParts
<1>3. Len(o.inner) >= 1
  BY <1>1, <1>2
<1> QED BY <1>1, <1>2, <1>3, ConcatenatedIs
LEMMA ValueUnclosed ==
    ASSUME NEW o, Readable(o), o.form = "unclosed"
    PROVE  Opened(Characters, ValueText(o), o.before, o.pair[1], o.inner)
<1>1. ValueText(o) = o.before \o <<o.pair[1]>> \o o.inner
  BY DEF ValueText
<1>2. o.before \in Seq(Characters) /\ o.inner \in Seq(Characters) /\ o.pair[1] \in Characters
  BY ReadableParts
<1> QED BY <1>1, <1>2, OpenedIs
LEMMA ValueEnclosed ==
    ASSUME NEW o, Readable(o), o.form = "enclosed"
    PROVE  Closed(Characters, ValueText(o), o.before, o.pair[1], o.inner, o.pair[2], o.after)
<1>1. ValueText(o) = o.before \o <<o.pair[1]>> \o o.inner \o <<o.pair[2]>> \o o.after
  BY DEF ValueText
<1>2. /\ o.before \in Seq(Characters) /\ o.inner \in Seq(Characters) /\ o.after \in Seq(Characters)
      /\ o.pair[1] \in Characters /\ o.pair[2] \in Characters
  BY ReadableParts
<1> QED BY <1>1, <1>2, ClosedIs
LEMMA ValueIs == ASSUME NEW o, Readable(o) PROVE ValueText(o) \in Seq(Characters)
<1>1. o.form \in {"plain", "enclosed", "unclosed", "broken"}
  BY DEF Readable
<1>2. o.form = "plain" => ValueText(o) \in Seq(Characters)
  BY ValuePlain, ReadableParts
<1>3. o.form = "broken" => ValueText(o) \in Seq(Characters)
  BY ValueBroken DEF Concatenated
<1>4. o.form = "unclosed" => ValueText(o) \in Seq(Characters)
  BY ValueUnclosed DEF Opened
<1>5. o.form = "enclosed" => ValueText(o) \in Seq(Characters)
  BY ValueEnclosed DEF Closed
<1> QED BY <1>1, <1>2, <1>3, <1>4, <1>5

(* An option with what is behind it. *)
WithBehind(o, e) == Rendered(o) \o <<e>>
LEMMA BareAt ==
    ASSUME NEW o, Readable(o), o.bare, NEW e
    PROVE  \E S : Concatenated(S, WithBehind(o, e), Title(o), <<e>>) /\ Len(<<e>>) = 1 /\ <<e>>[1] = e
<1>1. Title(o) \in Seq(Characters \cup {e}) /\ e \in Characters \cup {e}
  BY ReadableParts, InWider
<1>2. WithBehind(o, e) = Title(o) \o <<e>>
  BY DEF WithBehind, Rendered
<1>3. <<e>> \in Seq(Characters \cup {e}) /\ Len(<<e>>) = 1 /\ <<e>>[1] = e
  BY OneIs
<1>4. Concatenated(Characters \cup {e}, WithBehind(o, e), Title(o), <<e>>)
  BY <1>1, <1>2, <1>3, ConcatenatedIs
<1> QED BY <1>3, <1>4
LEMMA NamedAt ==
    ASSUME NEW o, Readable(o), ~o.bare, NEW e
    PROVE  \E S : Closed(S, WithBehind(o, e), Title(o), "=", ValueText(o), e, <<>>)
<1> DEFINE S == Characters \cup {"=", e}
<1>1. Title(o) \in Seq(S) /\ ValueText(o) \in Seq(S) /\ "=" \in S /\ e \in S
  BY ReadableParts, ValueIs, InWider
<1> HIDE DEF S
<1>2. WithBehind(o, e) = Title(o) \o <<"=">> \o ValueText(o) \o <<e>>
  BY DEF WithBehind, Rendered
<1>3. <<>> \in Seq(S) /\ \A w \in Seq(S) : w \o <<>> = w
  OBVIOUS
<1>4. Opened(S, Title(o) \o <<"=">> \o ValueText(o), Title(o), "=", ValueText(o))
  BY <1>1, OpenedIs
<1>5. Title(o) \o <<"=">> \o ValueText(o) \in Seq(S) /\ <<e>> \in Seq(S)
  BY <1>4, <1>1, OneIs DEF Opened
<1>6. Concatenated(S, WithBehind(o, e), Title(o) \o <<"=">> \o ValueText(o), <<e>>)
  BY <1>2, <1>5, ConcatenatedIs
<1>7. WithBehind(o, e) \in Seq(S)
  BY <1>6 DEF Concatenated
<1>8. WithBehind(o, e) = Title(o) \o <<"=">> \o ValueText(o) \o <<e>> \o <<>>
  BY <1>2, <1>3, <1>7
<1>9. Closed(S, Title(o) \o <<"=">> \o ValueText(o) \o <<e>> \o <<>>, Title(o), "=", ValueText(o), e, <<>>)
  BY <1>1, <1>3, ClosedIs
<1> QED BY <1>8, <1>9

LEMMA BareCharacters ==
    ASSUME NEW o, Readable(o), NEW e, o.bare
    PROVE  /\ Len(Title(o)) \in Nat /\ Len(WithBehind(o, e)) = Len(Title(o)) + 1
           /\ \A k \in 1..Len(Title(o)) : WithBehind(o, e)[k] = Title(o)[k]
           /\ WithBehind(o, e)[Len(Title(o)) + 1] = e
<1>1. PICK S : Concatenated(S, WithBehind(o, e), Title(o), <<e>>) /\ Len(<<e>>) = 1 /\ <<e>>[1] = e
  BY BareAt
<1> QED BY <1>1 DEF Concatenated
LEMMA NamedCharacters ==
    ASSUME NEW o, Readable(o), NEW e, ~o.bare
    PROVE  /\ Len(Title(o)) \in Nat /\ Len(ValueText(o)) \in Nat
           /\ Len(WithBehind(o, e)) = Len(Title(o)) + 2 + Len(ValueText(o))
           /\ \A k \in 1..Len(Title(o)) : WithBehind(o, e)[k] = Title(o)[k]
           /\ WithBehind(o, e)[Len(Title(o)) + 1] = "="
           /\ WithBehind(o, e)[Len(Title(o)) + Len(ValueText(o)) + 2] = e
           /\ \A k \in 1..Len(ValueText(o)) : WithBehind(o, e)[Len(Title(o)) + 1 + k] = ValueText(o)[k]
<1>1. PICK S : Closed(S, WithBehind(o, e), Title(o), "=", ValueText(o), e, <<>>)
  BY NamedAt
<1> QED BY <1>1 DEF Closed

(* Characters that are counted wherever they are. *)
Ordinary(c) == c \in Characters /\ c \notin Brackets \cup {"=", ","}
LEMMA OrdinaryIs == ASSUME NEW c, Ordinary(c) PROVE c \notin Brackets /\ c # "none" /\ c \notin {"=", ",", EndOfText}
  BY OptionsAssumption DEF Ordinary, OptionsAssumption
LEMMA PlainIs ==
    ASSUME NEW s \in Seq(Characters), Plain(s)
    PROVE  \A k \in 1..Len(s) : Ordinary(s[k])
<1> TAKE k \in 1..Len(s)
<1>1. k \in DOMAIN s /\ s[k] \in Characters
  OBVIOUS
<1> QED BY <1>1, Zenon DEF Plain, Ordinary
LEMMA TitlePlain == ASSUME NEW o, Readable(o) PROVE \A k \in 1..Len(Title(o)) : Ordinary(Title(o)[k])
<1>1. o.pad \in Seq(Characters) /\ o.key \in Seq(Characters)
  BY ReadableParts
<1>2. \A k \in 1..Len(o.pad) : Ordinary(o.pad[k])
  <2>1. \A k \in 1..Len(o.pad) : o.pad[k] = Blank
    BY <1>1 DEF Readable, NotSpaces
  <2>2. Ordinary(Blank)
    BY PairsAre, OptionsAssumption DEF OptionsAssumption, Ordinary
  <2> QED BY <2>1, <2>2
<1>3. \A k \in 1..Len(o.key) : Ordinary(o.key[k])
  BY <1>1, PlainIs DEF Readable
<1>4. Concatenated(Characters, o.pad \o o.key, o.pad, o.key)
  BY <1>1, ConcatenatedIs
<1>5. o.pad \o o.key \in Seq(Characters)
  BY <1>4 DEF Concatenated
<1>6. Concatenated(Characters, Title(o), o.pad \o o.key, o.pad)
  BY <1>1, <1>5, ConcatenatedIs DEF Title
<1>7. \A S, w, a, b : Concatenated(S, w, a, b) /\ (\A k \in 1..Len(a) : Ordinary(a[k])) /\ (\A k \in 1..Len(b) : Ordinary(b[k]))
          => \A k \in 1..Len(w) : Ordinary(w[k])
  <2> SUFFICES ASSUME NEW S, NEW w, NEW a, NEW b, Concatenated(S, w, a, b), \A k \in 1..Len(a) : Ordinary(a[k]),
                      \A k \in 1..Len(b) : Ordinary(b[k]), NEW k \in 1..Len(w)
               PROVE  Ordinary(w[k])
    OBVIOUS
  <2>1. CASE k \in 1..Len(a)
    BY <2>1 DEF Concatenated
  <2>2. CASE k \notin 1..Len(a)
    <3>1. k - Len(a) \in 1..Len(b) /\ k = Len(a) + (k - Len(a))
      BY <2>2 DEF Concatenated
    <3>2. w[Len(a) + (k - Len(a))] = b[k - Len(a)]
      BY <3>1 DEF Concatenated
    <3> QED BY <3>1, <3>2
  <2> QED BY <2>1, <2>2
<1>8. \A k \in 1..Len(o.pad \o o.key) : Ordinary((o.pad \o o.key)[k])
  BY <1>2, <1>3, <1>4, <1>7
<1> QED BY <1>2, <1>6, <1>7, <1>8

(* Where the loop is in an option, and what its locals are there. *)
InTitle(o, n, s) ==
    /\ n \in 0..Len(Title(o))
    /\ \E p, q \in Marks : s = Locals(0, p, q, <<>>, Read(Title(o), n), "title")
InBefore(o, n, s) ==
    /\ ~o.bare
    /\ \E m \in 0..Len(o.before), p, q \in Marks :
          /\ n = Len(Title(o)) + 1 + m
          /\ s = Locals(0, p, q, Title(o), Read(o.before, m), "value")
InBrackets(o, n, s) ==
    /\ ~o.bare /\ o.form \in {"enclosed", "unclosed"}
    /\ \E m \in 0..Len(o.inner) :
          /\ n = Len(Title(o)) + Len(o.before) + 2 + m
          /\ s = Locals(1 + Depth(o.inner, o.pair, m), o.pair[1], o.pair[2], Title(o),
                        o.before \o Read(o.inner, m), "value")
InAfter(o, n, s) ==
    /\ ~o.bare /\ o.form = "enclosed"
    /\ \E m \in 0..Len(o.after), p, q \in Marks :
          /\ n = Len(Title(o)) + Len(o.before) + Len(o.inner) + 3 + m
          /\ s = Locals(0, p, q, Title(o), o.before \o o.inner \o Read(o.after, m), "value")
AtPlace(o, n, s) == InTitle(o, n, s) \/ InBefore(o, n, s) \/ InBrackets(o, n, s) \/ InAfter(o, n, s)

(* A turn of the loop stays in the option, fails at one that cannot be read, or
   comes to its end. *)
Here(o, e, i, n) ==
    /\ Readable(o) /\ e \in {",", EndOfText} /\ (o.form = "unclosed" => e = EndOfText)
    /\ n \in Nat /\ Character = WithBehind(o, e)[n + 1]
    /\ n + 1 < Len(WithBehind(o, e)) => NextPlace = [option |-> i, read |-> n + 1]
GoesOn(o, i, n) ==
    /\ place' = [option |-> i, read |-> n + 1] /\ AtPlace(o, n + 1, scan')
    /\ UNCHANGED <<optionInputs, optionResult>>
AtItsEnd(o, e, n) ==
    /\ EndOption /\ Character = e /\ n + 1 = Len(WithBehind(o, e)) /\ ~Malformed(o)
    /\ \E p, q \in Marks :
          scan = IF o.bare THEN Locals(0, p, q, <<>>, Title(o), "title") ELSE Locals(0, p, q, Title(o), Value(o), "value")
Turn(o, e, i, n) == GoesOn(o, i, n) \/ (Yields(OptionFails) /\ Malformed(o)) \/ AtItsEnd(o, e, n)

LEMMA TitleNotEmpty == ASSUME NEW o, Readable(o), ~o.bare PROVE Title(o) # <<>>
<1>1. o.pad \in Seq(Characters) /\ o.key \in Seq(Characters) /\ o.key # <<>>
  BY ReadableParts DEF Readable
<1>2. Concatenated(Characters, o.pad \o o.key, o.pad, o.key)
  BY <1>1, ConcatenatedIs
<1>3. Concatenated(Characters, Title(o), o.pad \o o.key, o.pad)
  <2>1. o.pad \o o.key \in Seq(Characters)
    BY <1>2 DEF Concatenated
  <2> QED BY <1>1, <2>1, ConcatenatedIs DEF Title
<1>4. Len(o.key) \in Nat /\ Len(o.key) # 0
  BY <1>1
<1>5. \A S, w, a, b : Concatenated(S, w, a, b) /\ (Len(a) # 0 \/ Len(b) # 0) => Len(w) # 0
  BY DEF Concatenated
<1>6. Len(Title(o)) # 0
  BY <1>2, <1>3, <1>4, <1>5
<1>7. Len(<<>>) = 0
  OBVIOUS
<1> QED BY <1>6, <1>7, Zenon

LEMMA TurnInTitle ==
    ASSUME OptionsNext, NEW o, NEW e, NEW i, NEW n, Here(o, e, i, n), InTitle(o, n, scan)
    PROVE  Turn(o, e, i, n)
<1> DEFINE T == Title(o)
           W == WithBehind(o, e)
<1>1. PICK p \in Marks, q \in Marks : scan = Locals(0, p, q, <<>>, Read(T, n), "title")
  BY DEF InTitle
<1>2. Readable(o) /\ n \in 0..Len(T) /\ Character = W[n + 1] /\ T \in Seq(Characters)
  BY ReadableParts DEF Here, InTitle
<1>3. CASE n < Len(T)
  <2>1. n + 1 \in 1..Len(T) /\ n + 1 < Len(W) /\ Character = T[n + 1]
    BY <1>2, <1>3, BareCharacters, NamedCharacters
  <2>2. Ordinary(Character)
    BY <1>2, <2>1, TitlePlain
  <2>3. Goes(Locals(0, p, q, <<>>, Append(Read(T, n), Character), "title"))
    BY <1>1, <2>2, OrdinaryIs, Outside
  <2>4. Append(Read(T, n), Character) = Read(T, n + 1)
    BY <1>2, <1>3, <2>1, OneMoreRead
  <2>5. InTitle(o, n + 1, scan')
    BY <1>2, <2>1, <2>3, <2>4 DEF InTitle, Goes
  <2> QED BY <2>1, <2>3, <2>5 DEF Turn, GoesOn, AtPlace, Here, Goes
<1>4. CASE n = Len(T) /\ o.bare
  <2>1. Character = e /\ n + 1 = Len(W)
    BY <1>2, <1>4, BareCharacters
  <2>2. Read(T, n) = T
    BY <1>2, <1>4, ReadEnds
  <2>3. Character \notin Brackets /\ Character # "none" /\ Character \in {",", EndOfText}
    BY <2>1, PairsAre, OptionsAssumption DEF OptionsAssumption, Here
  <2>4. EndOption
    BY <1>1, <2>3, Outside
  <2>5. ~Malformed(o)
    BY <1>4 DEF Malformed
  <2> QED BY <1>1, <1>4, <2>1, <2>2, <2>4, <2>5 DEF Turn, AtItsEnd
<1>5. CASE n = Len(T) /\ ~o.bare
  <2>1. Character = "=" /\ n + 1 < Len(W)
    BY <1>2, <1>5, NamedCharacters
  <2>2. Read(T, n) = T /\ T # <<>>
    BY <1>2, <1>5, ReadEnds, TitleNotEmpty
  <2>3. Character \notin Brackets /\ Character # "none"
    BY <2>1, PairsAre
  <2>4. Goes(Locals(0, p, q, T, <<>>, "value"))
    BY <1>1, <2>1, <2>2, <2>3, Outside
  <2>5. o.before \in Seq(Characters)
    BY <1>2, ReadableParts
  <2>6. Read(o.before, 0) = <<>> /\ 0 \in 0..Len(o.before)
    BY <2>5, ReadEnds
  <2>7. n + 1 = Len(T) + 1 + 0
    BY <1>2, <1>5
  <2>8. InBefore(o, n + 1, scan')
    BY <1>5, <2>4, <2>6, <2>7 DEF InBefore, Goes
  <2> QED BY <2>1, <2>4, <2>8 DEF Turn, GoesOn, AtPlace, Here, Goes
<1>6. Len(T) \in Nat
  BY <1>2
<1> QED BY <1>2, <1>3, <1>4, <1>5, <1>6

LEMMA BeforeCharacters ==
    ASSUME NEW o, Readable(o)
    PROVE  /\ Len(o.before) \in Nat
           /\ \A k \in 1..Len(o.before) : k \in 1..Len(ValueText(o)) /\ ValueText(o)[k] = o.before[k]
<1>1. o.form \in {"plain", "enclosed", "unclosed", "broken"} /\ o.before \in Seq(Characters)
  BY ReadableParts DEF Readable
<1>2. CASE o.form = "plain"
  BY <1>1, <1>2, ValuePlain
<1>3. CASE o.form = "broken"
  BY <1>3, ValueBroken, ConcatenatedHas
<1>4. CASE o.form = "unclosed"
  BY <1>4, ValueUnclosed, OpenedHas
<1>5. CASE o.form = "enclosed"
  BY <1>5, ValueEnclosed, ClosedHas
<1> QED BY <1>1, <1>2, <1>3, <1>4, <1>5
LEMMA ConcatEmpty == ASSUME NEW S, NEW s \in Seq(S) PROVE s \o <<>> = s
  OBVIOUS

LEMMA TurnInBefore ==
    ASSUME OptionsNext, NEW o, NEW e, NEW i, NEW n, Here(o, e, i, n), InBefore(o, n, scan)
    PROVE  Turn(o, e, i, n)
<1> DEFINE T == Title(o)
           W == WithBehind(o, e)
           V == ValueText(o)
           B == o.before
<1>1. PICK m \in 0..Len(B), p \in Marks, q \in Marks :
          n = Len(T) + 1 + m /\ scan = Locals(0, p, q, T, Read(B, m), "value")
  BY DEF InBefore
<1>a. n = Len(T) + 1 + m
  BY <1>1
<1>2. Readable(o) /\ ~o.bare /\ Character = W[n + 1] /\ B \in Seq(Characters) /\ n \in Nat
  BY ReadableParts DEF Here, InBefore
<1>3. Len(T) \in Nat /\ Len(V) \in Nat /\ Len(W) = Len(T) + 2 + Len(V) /\ Len(B) \in Nat /\ m \in Nat
  BY <1>2, NamedCharacters
<1>4. \A k \in 1..Len(V) : W[Len(T) + 1 + k] = V[k]
  BY <1>2, NamedCharacters
<1>b. Plain(B) /\ \A k \in 1..Len(B) : k \in 1..Len(V) /\ V[k] = B[k]
  BY <1>2, BeforeCharacters DEF Readable
<1>c. W[Len(T) + Len(V) + 2] = e
  BY <1>2, NamedCharacters
<1> HIDE DEF T, W, V, B
<1>5. m + 1 \in 1..Len(V) => n + 1 < Len(W) /\ Character = V[m + 1]
  <2> SUFFICES ASSUME m + 1 \in 1..Len(V) PROVE n + 1 < Len(W) /\ Character = V[m + 1]
    OBVIOUS
  <2>1. n + 1 = Len(T) + 1 + (m + 1) /\ n + 1 < Len(W)
    BY <1>1, <1>3
  <2>2. W[Len(T) + 1 + (m + 1)] = V[m + 1]
    BY <1>4
  <2> QED BY <1>2, <2>1, <2>2
<1>6. CASE m < Len(B)
  <2>1. m + 1 \in 1..Len(B)
    BY <1>3, <1>6
  <2>2. m + 1 \in 1..Len(V) /\ V[m + 1] = B[m + 1]
    BY <1>b, <2>1
  <2>3. Ordinary(Character)
    BY <1>2, <1>5, <1>b, <2>1, <2>2, PlainIs
  <2>4. Goes(Locals(0, p, q, T, Append(Read(B, m), Character), "value"))
    BY <1>1, <2>3, OrdinaryIs, Outside
  <2>5. Append(Read(B, m), Character) = Read(B, m + 1)
    BY <1>2, <1>3, <1>5, <1>6, <2>2, OneMoreRead
  <2>6. m + 1 \in 0..Len(B) /\ n + 1 = Len(T) + 1 + (m + 1)
    BY <1>1, <1>3, <1>6
  <2>7. InBefore(o, n + 1, scan')
    BY <1>2, <2>4, <2>5, <2>6 DEF InBefore, Goes, T, B
  <2> QED BY <1>5, <2>2, <2>4, <2>7 DEF Turn, GoesOn, AtPlace, Here, Goes, W
<1>7. ASSUME m = Len(B)
      PROVE  Read(B, m) = B
  BY <1>2, <1>7, ReadEnds
<1>8. CASE m = Len(B) /\ o.form = "plain"
  <2>1. V = B
    BY <1>2, <1>8, ValuePlain DEF V, B
  <2>2. n + 1 = Len(T) + Len(V) + 2
    BY <1>a, <1>2, <1>3, <1>8, <2>1
  <2>3. Character = e /\ n + 1 = Len(W)
    BY <1>2, <1>3, <1>c, <2>2
  <2>4. Character \notin Brackets /\ Character # "none" /\ Character \in {",", EndOfText}
    BY <2>3, PairsAre, OptionsAssumption DEF OptionsAssumption, Here
  <2>5. EndOption
    BY <1>1, <2>4, Outside
  <2>6. ~Malformed(o)
    BY <1>8 DEF Malformed
  <2>7. Value(o) = B
    <3>1. o.inner = <<>> /\ o.after = <<>>
      BY <1>2, <1>8 DEF Readable
    <3> QED BY <1>2, <3>1, ConcatEmpty DEF Value, B
  <2> QED BY <1>1, <1>2, <1>7, <1>8, <2>3, <2>5, <2>6, <2>7 DEF Turn, AtItsEnd, T, W
<1>9. CASE m = Len(B) /\ o.form = "broken"
  <2>1. Concatenated(Characters, V, B, o.inner) /\ Len(o.inner) >= 1
    BY <1>2, <1>9, ValueBroken DEF V, B
  <2>2. m + 1 \in 1..Len(V) /\ V[m + 1] = o.inner[1]
    <3>1. \A b : Concatenated(Characters, V, B, b) /\ Len(b) >= 1 => m + 1 \in 1..Len(V) /\ V[m + 1] = b[1]
      BY <1>9, ConcatenatedHas
    <3> QED BY <2>1, <3>1
  <2>3. Character \in {"="} \cup {b[2] : b \in Pairs}
    BY <1>2, <1>5, <1>9, <2>2 DEF Readable
  <2>4. Yields(OptionFails)
    <3>1. CASE Character = "="
      <4>1. Character \notin Brackets /\ Character # "none"
        BY <3>1, PairsAre
      <4> QED BY <1>1, <3>1, <4>1, Outside
    <3>2. CASE Character # "="
      <4>1. PICK b \in Pairs : Character = b[2]
        BY <2>3, <3>2
      <4> QED BY <1>1, <4>1, AtBracket
    <3> QED BY <3>1, <3>2
  <2> QED BY <1>2, <1>9, <2>4 DEF Turn, Malformed
<1>10. CASE m = Len(B) /\ o.form \in {"unclosed", "enclosed"}
  <2>1. m + 1 \in 1..Len(V) /\ V[m + 1] = o.pair[1]
    <3>1. CASE o.form = "unclosed"
      <4>1. Opened(Characters, V, B, o.pair[1], o.inner)
        BY <1>2, <3>1, ValueUnclosed DEF V, B
      <4>2. \A x, b : Opened(Characters, V, B, x, b) => m + 1 \in 1..Len(V) /\ V[m + 1] = x
        BY <1>10, OpenedHas
      <4> QED BY <4>1, <4>2
    <3>2. CASE o.form = "enclosed"
      <4>1. Closed(Characters, V, B, o.pair[1], o.inner, o.pair[2], o.after)
        BY <1>2, <3>2, ValueEnclosed DEF V, B
      <4>2. \A x, b, y, f : Closed(Characters, V, B, x, b, y, f) => m + 1 \in 1..Len(V) /\ V[m + 1] = x
        BY <1>10, ClosedHas
      <4> QED BY <4>1, <4>2
    <3> QED BY <1>10, <3>1, <3>2
  <2>2. o.pair \in Pairs /\ o.inner \in Seq(Characters)
    BY <1>2, <1>10, ReadableParts
  <2>3. Goes(Locals(1, o.pair[1], o.pair[2], T, B, "value"))
    BY <1>1, <1>5, <1>7, <1>10, <2>1, <2>2, AtBracket
  <2>4. Read(o.inner, 0) = <<>> /\ 0 \in 0..Len(o.inner) /\ B \o <<>> = B
    BY <1>2, <2>2, ReadEnds, ConcatEmpty
  <2>5. 1 + Depth(o.inner, o.pair, 0) = 1
    BY DepthBegin
  <2>6. n + 1 = Len(T) + Len(B) + 2 + 0
    BY <1>a, <1>2, <1>3, <1>10
  <2>7. InBrackets(o, n + 1, scan')
    BY <1>2, <1>10, <2>3, <2>4, <2>5, <2>6 DEF InBrackets, Goes, T, B
  <2> QED BY <1>5, <2>1, <2>3, <2>7 DEF Turn, GoesOn, AtPlace, Here, Goes, W
<1>11. o.form \in {"plain", "enclosed", "unclosed", "broken"}
  BY <1>2 DEF Readable
<1> QED BY <1>3, <1>6, <1>8, <1>9, <1>10, <1>11

LEMMA TurnInBrackets ==
    ASSUME OptionsNext, NEW o, NEW e, NEW i, NEW n, Here(o, e, i, n), InBrackets(o, n, scan)
    PROVE  Turn(o, e, i, n)
<1> DEFINE T == Title(o)
           W == WithBehind(o, e)
           V == ValueText(o)
           B == o.before
           N == o.inner
           D(k) == Depth(N, o.pair, k)
<1>1. PICK m \in 0..Len(N) :
          /\ n = Len(T) + Len(B) + 2 + m
          /\ scan = Locals(1 + D(m), o.pair[1], o.pair[2], T, B \o Read(N, m), "value")
  BY DEF InBrackets
<1>a. n = Len(T) + Len(B) + 2 + m
  BY <1>1
<1>2. /\ Readable(o) /\ ~o.bare /\ o.form \in {"enclosed", "unclosed"} /\ Character = W[n + 1] /\ n \in Nat
      /\ B \in Seq(Characters) /\ N \in Seq(Characters) /\ o.pair \in Pairs
  BY ReadableParts DEF Here, InBrackets
<1>3. /\ Len(T) \in Nat /\ Len(V) \in Nat /\ Len(W) = Len(T) + 2 + Len(V) /\ Len(B) \in Nat /\ Len(N) \in Nat /\ m \in Nat
  BY <1>2, NamedCharacters
<1>4. /\ \A k \in 1..Len(V) : W[Len(T) + 1 + k] = V[k]
      /\ W[Len(T) + Len(V) + 2] = e
  BY <1>2, NamedCharacters
<1>b. \A k \in 0..Len(N) : D(k) >= 0
  BY <1>2 DEF Readable
<1> DEFINE A == o.after
           b1 == o.pair[1]
           b2 == o.pair[2]
<1>c. o.form = "unclosed" => Opened(Characters, V, B, b1, N)
  BY <1>2, ValueUnclosed
<1>d. o.form = "enclosed" => Closed(Characters, V, B, b1, N, b2, A) /\ D(Len(N)) = 0
  BY <1>2, ValueEnclosed DEF Readable
<1>e. A \in Seq(Characters) /\ b1 \in Marks /\ b2 \in Marks /\ b1 # b2
  BY <1>2, ReadableParts, PairsAre DEF Marks
<1>f. /\ \A k \in Nat : /\ D(k) \in Int
                        /\ D(k + 1) = IF N[k + 1] = b1 THEN D(k) + 1 ELSE IF N[k + 1] = b2 THEN D(k) - 1 ELSE D(k)
  BY <1>2, DepthNext
<1>g. \A l \in Nat : \A u, r, v : l # 0 /\ scan = Locals(l, b1, b2, u, r, v) =>
         /\ Character = b1 => Goes(Locals(l + 1, b1, b2, u, Append(r, Character), v))
         /\ Character = b2 /\ l > 1 => Goes(Locals(l - 1, b1, b2, u, Append(r, Character), v))
         /\ Character = b2 /\ l = 1 => Goes(Locals(0, b1, b2, u, r, v))
         /\ Character \notin {b1, b2, EndOfText} => Goes(Locals(l, b1, b2, u, Append(r, Character), v))
         /\ Character = EndOfText => Yields(OptionFails)
  BY <1>2, Inside
<1> HIDE DEF T, W, V, B, N, D, A, b1, b2
<1>5. Len(B) + 1 + m + 1 \in 1..Len(V) => n + 1 < Len(W) /\ Character = V[Len(B) + 1 + m + 1]
  <2> SUFFICES ASSUME Len(B) + 1 + m + 1 \in 1..Len(V) PROVE n + 1 < Len(W) /\ Character = V[Len(B) + 1 + m + 1]
    OBVIOUS
  <2>1. n + 1 = Len(T) + 1 + (Len(B) + 1 + m + 1) /\ n + 1 < Len(W)
    BY <1>a, <1>2, <1>3
  <2>2. W[Len(T) + 1 + (Len(B) + 1 + m + 1)] = V[Len(B) + 1 + m + 1]
    BY <1>4
  <2> QED BY <1>2, <2>1, <2>2
<1>6. Len(B) + 1 + Len(N) <= Len(V) /\ \A k \in 1..Len(N) : V[Len(B) + 1 + k] = N[k]
  <2>1. CASE o.form = "unclosed"
    BY <1>c, <2>1, OpenedHas
  <2>2. CASE o.form = "enclosed"
    BY <1>d, <2>2, ClosedHas
  <2> QED BY <1>2, <2>1, <2>2
<1>7. \A k \in 0..Len(N) : D(k) \in Nat
  BY <1>b, <1>f
<1>h. scan = Locals(1 + D(m), b1, b2, T, B \o Read(N, m), "value")
  BY <1>1 DEF D, T, B, N, b1, b2
<1>8. CASE m < Len(N)
  <2>1. m + 1 \in 1..Len(N) /\ Len(B) + 1 + m + 1 \in 1..Len(V) /\ Len(B) + 1 + m + 1 = Len(B) + 1 + (m + 1)
    BY <1>a, <1>2, <1>3, <1>6, <1>8
  <2>2. Character = N[m + 1] /\ n + 1 < Len(W)
    BY <1>5, <1>6, <2>1
  <2>3. D(m + 1) = IF N[m + 1] = b1 THEN D(m) + 1 ELSE IF N[m + 1] = b2 THEN D(m) - 1 ELSE D(m)
    BY <1>3, <1>f
  <2>4. D(m) \in Nat /\ D(m + 1) \in Nat
    BY <1>3, <1>7, <1>8
  <2>5. Character # EndOfText
    <3>1. N[m + 1] \in Characters
      BY <1>2, <2>1
    <3> QED BY <2>2, <3>1, OptionsAssumption DEF OptionsAssumption
  <2>6. Append(B \o Read(N, m), Character) = B \o Read(N, m + 1)
    <3>1. B \o Read(N, m + 1) = Append(B \o Read(N, m), N[m + 1])
      BY <1>2, <1>3, <1>8, ReadBehind
    <3> QED BY <2>2, <3>1
  <2>7. Goes(Locals(1 + D(m + 1), b1, b2, T, B \o Read(N, m + 1), "value"))
    <3>1. 1 + D(m) \in Nat /\ 1 + D(m) # 0
      BY <2>4
    <3>2. CASE Character = b1
      <4>1. Goes(Locals((1 + D(m)) + 1, b1, b2, T, B \o Read(N, m + 1), "value"))
        BY <1>h, <1>g, <2>6, <3>1, <3>2
      <4>2. (1 + D(m)) + 1 = 1 + D(m + 1)
        BY <2>2, <2>3, <2>4, <3>2
      <4> QED BY <4>1, <4>2
    <3>3. CASE Character = b2
      <4>2. (1 + D(m)) - 1 = 1 + D(m + 1) /\ 1 + D(m) > 1
        BY <2>2, <2>3, <2>4, <3>3, <1>e
      <4>3. Goes(Locals((1 + D(m)) - 1, b1, b2, T, B \o Read(N, m + 1), "value"))
        BY <1>h, <1>g, <2>6, <3>1, <3>3, <4>2
      <4> QED BY <4>2, <4>3
    <3>4. CASE Character \notin {b1, b2}
      <4>1. Goes(Locals(1 + D(m), b1, b2, T, B \o Read(N, m + 1), "value"))
        BY <1>h, <1>g, <2>5, <2>6, <3>1, <3>4
      <4>2. D(m) = D(m + 1)
        BY <2>2, <2>3, <3>4
      <4> QED BY <4>1, <4>2
    <3> QED BY <3>2, <3>3, <3>4
  <2>8. m + 1 \in 0..Len(N) /\ n + 1 = Len(T) + Len(B) + 2 + (m + 1)
    <3>1. m + 1 \in 0..Len(N)
      BY <2>1
    <3>2. n + 1 = Len(T) + Len(B) + 2 + (m + 1)
      BY <1>a, <1>3
    <3> QED BY <3>1, <3>2
  <2>9. InBrackets(o, n + 1, scan')
    BY <1>2, <2>7, <2>8 DEF InBrackets, Goes, D, T, B, N, b1, b2
  <2> QED BY <2>2, <2>7, <2>9 DEF Turn, GoesOn, AtPlace, Here, Goes, W
<1>9. CASE m = Len(N)
  <2>1. B \o Read(N, m) = B \o N
    BY <1>2, <1>9, ReadEnds
  <2>2. 1 + D(m) \in Nat /\ 1 + D(m) # 0
    BY <1>7
  <2>3. CASE o.form = "unclosed"
    <3>0. Len(V) = Len(B) + 1 + Len(N)
      BY <1>c, <2>3, OpenedHas
    <3>1. n + 1 = Len(T) + Len(V) + 2
      BY <1>a, <1>2, <1>3, <1>9, <3>0
    <3>2. Character = EndOfText
      BY <1>2, <1>4, <2>3, <3>1 DEF Here
    <3>3. Yields(OptionFails)
      BY <1>h, <1>g, <2>2, <3>2
    <3> QED BY <1>2, <2>3, <3>3 DEF Turn, Malformed
  <2>4. CASE o.form = "enclosed"
    <3>2. Len(B) + 1 + m + 1 \in 1..Len(V) /\ V[Len(B) + 1 + m + 1] = b2
      <4>1. Len(B) + 1 + m + 1 = Len(B) + Len(N) + 2
        BY <1>3, <1>9
      <4>2. Len(B) + Len(N) + 2 \in 1..Len(V) /\ V[Len(B) + Len(N) + 2] = b2
        BY <1>d, <2>4, ClosedHas
      <4> QED BY <4>1, <4>2
    <3>3. D(m) = 0
      BY <1>d, <1>9, <2>4
    <3>4. scan = Locals(1, b1, b2, T, B \o N, "value")
      BY <1>h, <2>1, <3>3
    <3>5. Goes(Locals(0, b1, b2, T, B \o N, "value"))
      <4>1. Character = b2
        BY <1>5, <3>2
      <4> QED BY <1>g, <3>4, <4>1
    <3>6. A \in Seq(Characters) /\ B \o N \in Seq(Characters)
      BY <1>2, <1>e
    <3>7. Read(A, 0) = <<>> /\ 0 \in 0..Len(A) /\ B \o N \o <<>> = B \o N
      BY <3>6, ReadEnds, ConcatEmpty
    <3>8. n + 1 = Len(T) + Len(B) + Len(N) + 3 + 0
      BY <1>a, <1>2, <1>3, <1>9
    <3>10. InAfter(o, n + 1, scan')
      BY <1>2, <2>4, <3>5, <3>7, <3>8, <1>e DEF InAfter, Goes, T, B, N, A
    <3> QED BY <1>5, <3>2, <3>5, <3>10 DEF Turn, GoesOn, AtPlace, Here, Goes, W
  <2> QED BY <1>2, <2>3, <2>4
<1> QED BY <1>3, <1>8, <1>9

LEMMA TurnInAfter ==
    ASSUME OptionsNext, NEW o, NEW e, NEW i, NEW n, Here(o, e, i, n), InAfter(o, n, scan)
    PROVE  Turn(o, e, i, n)
<1> DEFINE T == Title(o)
           W == WithBehind(o, e)
           V == ValueText(o)
           B == o.before
           N == o.inner
           A == o.after
<1>1. PICK m \in 0..Len(A), p \in Marks, q \in Marks :
          /\ n = Len(T) + Len(B) + Len(N) + 3 + m
          /\ scan = Locals(0, p, q, T, B \o N \o Read(A, m), "value")
  BY DEF InAfter
<1>a. n = Len(T) + Len(B) + Len(N) + 3 + m
  BY <1>1
<1>2. /\ Readable(o) /\ ~o.bare /\ o.form = "enclosed" /\ Character = W[n + 1] /\ n \in Nat
      /\ A \in Seq(Characters) /\ B \o N \in Seq(Characters)
  <2>1. Readable(o) /\ ~o.bare /\ o.form = "enclosed" /\ Character = W[n + 1] /\ n \in Nat
    BY DEF Here, InAfter
  <2>2. A \in Seq(Characters) /\ B \in Seq(Characters) /\ N \in Seq(Characters)
    BY <2>1, ReadableParts
  <2>3. B \o N \in Seq(Characters)
    BY <2>2
  <2> QED BY <2>1, <2>2, <2>3
<1>3. Closed(Characters, V, B, o.pair[1], N, o.pair[2], A)
  BY <1>2, ValueEnclosed
<1> DEFINE b1 == o.pair[1]
           b2 == o.pair[2]
<1>e. Len(T) \in Nat /\ Len(V) \in Nat /\ Len(W) = Len(T) + 2 + Len(V)
  BY <1>2, NamedCharacters
<1>f. Closed(Characters, V, B, b1, N, b2, A)
  BY <1>3
<1>4. /\ Len(T) \in Nat /\ Len(V) \in Nat /\ Len(W) = Len(T) + 2 + Len(V)
      /\ Len(B) \in Nat /\ Len(N) \in Nat /\ Len(A) \in Nat /\ m \in Nat
      /\ Len(V) = Len(B) + 2 + Len(N) + Len(A)
  <2> HIDE DEF T, W, V, B, N, A, b1, b2
  <2>1. Len(B) \in Nat /\ Len(N) \in Nat /\ Len(A) \in Nat /\ Len(V) = Len(B) + 2 + Len(N) + Len(A)
    BY <1>f, ClosedHas
  <2> QED BY <1>e, <2>1
<1>b. Plain(A)
  BY <1>2 DEF Readable
<1>c. W[Len(T) + Len(V) + 2] = e /\ \A k \in 1..Len(V) : W[Len(T) + 1 + k] = V[k]
  BY <1>2, NamedCharacters
<1> HIDE DEF T, W, V, B, N, A, b1, b2
<1>d. \A k \in 1..Len(A) : V[Len(B) + Len(N) + 2 + k] = A[k]
  BY <1>f, <1>e, ClosedHas
<1>5. CASE m < Len(A)
  <2>1. m + 1 \in 1..Len(A) /\ Len(B) + Len(N) + 2 + (m + 1) \in 1..Len(V)
    BY <1>a, <1>2, <1>4, <1>5
  <2>2. V[Len(B) + Len(N) + 2 + (m + 1)] = A[m + 1]
    BY <1>d, <2>1
  <2>3. W[Len(T) + 1 + (Len(B) + Len(N) + 2 + (m + 1))] = V[Len(B) + Len(N) + 2 + (m + 1)]
    BY <1>c, <2>1
  <2>4. n + 1 = Len(T) + 1 + (Len(B) + Len(N) + 2 + (m + 1)) /\ n + 1 < Len(W)
    BY <1>a, <1>2, <1>4, <1>5
  <2>5. Character = A[m + 1]
    BY <1>2, <2>2, <2>3, <2>4
  <2>6. Ordinary(Character)
    BY <1>2, <2>1, <2>5, <1>b, PlainIs
  <2>7. Goes(Locals(0, p, q, T, Append(B \o N \o Read(A, m), Character), "value"))
    BY <1>1, <2>6, OrdinaryIs, Outside
  <2>8. Append(B \o N \o Read(A, m), Character) = B \o N \o Read(A, m + 1)
    <3>1. B \o N \o Read(A, m + 1) = Append(B \o N \o Read(A, m), A[m + 1])
      BY <1>2, <1>4, <1>5, ReadBehind
    <3> QED BY <2>5, <3>1
  <2>9. m + 1 \in 0..Len(A) /\ n + 1 = Len(T) + Len(B) + Len(N) + 3 + (m + 1)
    BY <1>a, <1>2, <1>4, <1>5
  <2>10. InAfter(o, n + 1, scan')
    BY <1>2, <2>7, <2>8, <2>9 DEF InAfter, Goes, T, B, N, A
  <2> QED BY <2>4, <2>7, <2>10 DEF Turn, GoesOn, AtPlace, Here, Goes, W
<1>6. CASE m = Len(A)
  <2>1. n + 1 = Len(T) + Len(V) + 2
    BY <1>a, <1>2, <1>4, <1>6
  <2>2. Character = e /\ n + 1 = Len(W)
    BY <1>2, <1>4, <1>c, <2>1
  <2>3. Character \notin Brackets /\ Character # "none" /\ Character \in {",", EndOfText}
    BY <2>2, PairsAre, OptionsAssumption DEF OptionsAssumption, Here
  <2>4. EndOption
    BY <1>1, <2>3, Outside
  <2>5. ~Malformed(o)
    BY <1>2 DEF Malformed
  <2>6. Read(A, m) = A
    BY <1>2, <1>6, ReadEnds
  <2> QED BY <1>1, <1>2, <2>2, <2>4, <2>5, <2>6 DEF Turn, AtItsEnd, Value, T, W, B, N, A
<1> QED BY <1>4, <1>5, <1>6

LEMMA TurnInOption ==
    ASSUME OptionsNext, NEW o, NEW e, NEW i, NEW n, Here(o, e, i, n), AtPlace(o, n, scan)
    PROVE  Turn(o, e, i, n)
  BY TurnInTitle, TurnInBefore, TurnInBrackets, TurnInAfter DEF AtPlace

(* The name of an option is what is left when the spaces around it are taken away. *)
LEMMA Extremes ==
    ASSUME NEW N \in SUBSET Nat, NEW i \in N
    PROVE  /\ (\A j \in N : i <= j) => (CHOOSE k \in N : \A j \in N : k <= j) = i
           /\ (\A j \in N : j <= i) => (CHOOSE k \in N : \A j \in N : j <= k) = i
<1>1. ASSUME \A j \in N : i <= j
      PROVE  (CHOOSE k \in N : \A j \in N : k <= j) = i
  <2> DEFINE m == CHOOSE k \in N : \A j \in N : k <= j
  <2>1. m \in N /\ \A j \in N : m <= j
    BY <1>1
  <2> HIDE DEF m
  <2>2. m = i
    BY <1>1, <2>1
  <2> QED BY <2>2 DEF m
<1>2. ASSUME \A j \in N : j <= i
      PROVE  (CHOOSE k \in N : \A j \in N : j <= k) = i
  <2> DEFINE m == CHOOSE k \in N : \A j \in N : j <= k
  <2>1. m \in N /\ \A j \in N : j <= m
    BY <1>2
  <2> HIDE DEF m
  <2>2. m = i
    BY <1>2, <2>1
  <2> QED BY <2>2 DEF m
<1> QED BY <1>1, <1>2

LEMMA Padded ==
    ASSUME NEW S, NEW u \in Seq(S), NEW k \in Seq(S), NotSpaces(u) = {}, k # <<>>, {1, Len(k)} \subseteq NotSpaces(k)
    PROVE  Trim(u \o k \o u) = k
<1> DEFINE a == u \o k
           t == a \o u
           N == NotSpaces(t)
<1>1. Concatenated(S, a, u, k)
  BY ConcatenatedIs
<1>2. a \in Seq(S)
  BY <1>1 DEF Concatenated
<1>3. Concatenated(S, t, a, u)
  BY <1>2, ConcatenatedIs
<1>4. \A i \in 1..Len(u) : u[i] = Blank
  BY DEF NotSpaces
<1>5. Len(k) >= 1 /\ k[1] # Blank /\ k[Len(k)] # Blank /\ Len(k) \in Nat /\ Len(u) \in Nat
  BY DEF NotSpaces
<1> HIDE DEF a, t
<1>6. t \in Seq(S) /\ Len(t) = Len(u) + Len(k) + Len(u) /\ DOMAIN t = 1..Len(t)
  BY <1>1, <1>3 DEF Concatenated
<1>7. \A i \in 1..Len(u) : t[i] = Blank
  <2> TAKE i \in 1..Len(u)
  <2>1. a[i] = u[i] /\ i \in 1..Len(a)
    BY <1>1, ConcatenatedHas
  <2>2. t[i] = a[i]
    BY <1>3, <2>1, ConcatenatedHas
  <2> QED BY <1>4, <2>1, <2>2
<1>8. \A i \in 1..Len(k) : t[Len(u) + i] = k[i]
  <2> TAKE i \in 1..Len(k)
  <2>1. a[Len(u) + i] = k[i] /\ Len(u) + i \in 1..Len(a)
    BY <1>1, <1>5 DEF Concatenated
  <2>2. t[Len(u) + i] = a[Len(u) + i]
    BY <1>3, <2>1, ConcatenatedHas
  <2> QED BY <2>1, <2>2
<1>9. \A i \in 1..Len(u) : t[Len(u) + Len(k) + i] = Blank
  <2> TAKE i \in 1..Len(u)
  <2>1. Len(a) = Len(u) + Len(k)
    BY <1>1, ConcatenatedHas
  <2>2. t[Len(a) + i] = u[i]
    BY <1>3 DEF Concatenated
  <2> QED BY <1>4, <2>1, <2>2
<1>10. \A i \in N : i \in Nat /\ Len(u) + 1 <= i /\ i <= Len(u) + Len(k)
  <2> TAKE i \in N
  <2>1. i \in 1..Len(t) /\ t[i] # Blank
    BY <1>6 DEF NotSpaces
  <2>2. ~(i \in 1..Len(u))
    BY <1>7, <2>1
  <2>3. ~(i - (Len(u) + Len(k)) \in 1..Len(u))
    <3>1. SUFFICES ASSUME i - (Len(u) + Len(k)) \in 1..Len(u)
                   PROVE  FALSE
      OBVIOUS
    <3>2. t[Len(u) + Len(k) + (i - (Len(u) + Len(k)))] = Blank
      BY <1>9, <3>1
    <3>3. Len(u) + Len(k) + (i - (Len(u) + Len(k))) = i
      BY <1>5, <2>1
    <3> QED BY <2>1, <3>2, <3>3
  <2> QED BY <1>5, <1>6, <2>1, <2>2, <2>3
<1>11. Len(u) + 1 \in N
  <2>1. Len(u) + 1 \in 1..Len(t) /\ 1 \in 1..Len(k)
    BY <1>5, <1>6
  <2>2. t[Len(u) + 1] # Blank
    BY <1>5, <1>8, <2>1
  <2> QED BY <1>6, <2>1, <2>2 DEF NotSpaces
<1>12. Len(u) + Len(k) \in N
  <2>1. Len(u) + Len(k) \in 1..Len(t) /\ Len(k) \in 1..Len(k)
    BY <1>5, <1>6
  <2>2. t[Len(u) + Len(k)] # Blank
    BY <1>5, <1>8, <2>1
  <2> QED BY <1>6, <2>1, <2>2 DEF NotSpaces
<1> HIDE DEF N
<1>13. N \in SUBSET Nat
  BY <1>10
<1>14. (CHOOSE i \in N : \A j \in N : i <= j) = Len(u) + 1
  BY <1>10, <1>11, <1>13, Extremes
<1>15. (CHOOSE i \in N : \A j \in N : j <= i) = Len(u) + Len(k)
  BY <1>10, <1>12, <1>13, Extremes
<1>16. Trim(t) = SubSeq(t, Len(u) + 1, Len(u) + Len(k))
  BY <1>11, <1>14, <1>15 DEF Trim, N
<1>17. SubSeq(t, Len(u) + 1, Len(u) + Len(k)) = k
  <2> DEFINE s == SubSeq(t, Len(u) + 1, Len(u) + Len(k))
  <2>1. s \in Seq(S) /\ Len(s) = Len(k) /\ \A i \in 1..Len(k) : s[i] = t[Len(u) + 1 + i - 1]
    <3>1. \A b \in Seq(S), m, n \in Nat : 1 <= m /\ m <= n + 1 /\ n <= Len(b) =>
             /\ SubSeq(b, m, n) \in Seq(S) /\ Len(SubSeq(b, m, n)) = n - m + 1
             /\ \A i \in 1..n - m + 1 : SubSeq(b, m, n)[i] = b[m + i - 1]
      OBVIOUS
    <3>2. /\ Len(u) + 1 \in Nat /\ Len(u) + Len(k) \in Nat /\ 1 <= Len(u) + 1 /\ Len(u) + 1 <= Len(u) + Len(k) + 1
          /\ Len(u) + Len(k) <= Len(t) /\ Len(u) + Len(k) - (Len(u) + 1) + 1 = Len(k)
      BY <1>5, <1>6
    <3> QED BY <1>6, <3>1, <3>2
  <2> HIDE DEF s
  <2>2. \A i \in 1..Len(k) : s[i] = k[i]
    <3> TAKE i \in 1..Len(k)
    <3>1. Len(u) + 1 + i - 1 = Len(u) + i
      BY <1>5
    <3> QED BY <1>8, <2>1, <3>1
  <2>3. s = k
    BY <2>1, <2>2
  <2> QED BY <2>3 DEF s
<1> QED BY <1>16, <1>17 DEF t, a
LEMMA NameOf == ASSUME NEW o, Readable(o), ~o.bare PROVE Trim(Title(o)) = o.key
<1>1. /\ o.pad \in Seq(Characters) /\ o.key \in Seq(Characters) /\ NotSpaces(o.pad) = {}
      /\ o.key # <<>> /\ {1, Len(o.key)} \subseteq NotSpaces(o.key)
  BY DEF Readable
<1> QED BY <1>1, Padded DEF Title
LEMMA NoName == ASSUME NEW k, k \in Seq(Characters) \ {<<>>} PROVE ~SameName(Trim(<<>>), k)
<1>1. NotSpaces(<<>>) = {}
  BY DEF NotSpaces
<1>2. Trim(<<>>) = <<>>
  BY <1>1 DEF Trim
<1>3. Len(k) # 0 /\ Len(<<>>) = 0
  OBVIOUS
<1> QED BY <1>2, <1>3 DEF SameName

(* What a list means, from what is known of its options up to one of them. *)
Passed(o, k) == o.bare \/ (~SameName(o.key, k) /\ o.form \in {"plain", "enclosed"})
Named(list, k) == {i \in DOMAIN list : ~list[i].bare /\ SameName(list[i].key, k)}
First(N) == CHOOSE i \in N : \A j \in N : i <= j

LEMMA FirstIs ==
    ASSUME NEW N \in SUBSET Nat, N # {}
    PROVE  First(N) \in N /\ \A j \in N : First(N) <= j
<1>1. \E i \in N : \A j \in N : <<j, i>> \notin OpToRel(<, Nat)
  BY NatLessThanWellFounded, WFMin
<1>a. PICK i \in N : \A j \in N : ~(<<j, i>> \in OpToRel(<, Nat))
  BY <1>1
<1>b. \A j \in N : ~(j < i)
  BY <1>a DEF OpToRel
<1>2. \E m \in N : \A j \in N : m <= j
  BY <1>b
<1> QED BY <1>2 DEF First
LEMMA MeaningIs ==
    ASSUME NEW list, NEW k, NEW type, DOMAIN list \subseteq Nat
    PROVE  LET r == IF Named(list, k) = {} THEN DOMAIN list ELSE 1..First(Named(list, k)) IN
           /\ (\E i \in r : Malformed(list[i])) => Meaning(list, k, type) = OptionFails
           /\ ~(\E i \in r : Malformed(list[i])) /\ Named(list, k) = {} => Meaning(list, k, type) = OptionCleared
           /\ ~(\E i \in r : Malformed(list[i])) /\ Named(list, k) # {} =>
                Meaning(list, k, type) =
                    IF Value(list[First(Named(list, k))]) # <<>> THEN OptionText(Trim(Value(list[First(Named(list, k))])))
                    ELSE IF type = "BOOL" THEN OptionTrue ELSE OptionCleared
  BY DEF Meaning, Named, First
LEMMA MeaningFails ==
    ASSUME NEW list, NEW k, NEW type, Len(list) \in Nat, DOMAIN list = 1..Len(list), NEW i \in 1..Len(list),
           \A j \in 1..i - 1 : Passed(list[j], k), Malformed(list[i])
    PROVE  Meaning(list, k, type) = OptionFails
<1>1. \A j \in Named(list, k) : i <= j
  BY DEF Named, Passed
<1>2. Named(list, k) \in SUBSET Nat
  BY DEF Named
<1>3. Named(list, k) # {} => i \in 1..First(Named(list, k))
  BY <1>1, <1>2, FirstIs
<1> QED BY <1>3, MeaningIs
LEMMA MeaningFound ==
    ASSUME NEW list, NEW k, NEW type, Len(list) \in Nat, DOMAIN list = 1..Len(list), NEW i \in 1..Len(list),
           \A j \in 1..i - 1 : Passed(list[j], k), ~Malformed(list[i]), ~list[i].bare, SameName(list[i].key, k)
    PROVE  Meaning(list, k, type) =
              IF Value(list[i]) # <<>> THEN OptionText(Trim(Value(list[i])))
              ELSE IF type = "BOOL" THEN OptionTrue ELSE OptionCleared
<1>1. \A j \in Named(list, k) : i <= j
  BY DEF Named, Passed
<1>2. Named(list, k) \in SUBSET Nat /\ i \in Named(list, k)
  BY DEF Named
<1>3. First(Named(list, k)) = i
  BY <1>1, <1>2, Extremes DEF First
<1>4. \A j \in 1..i : ~Malformed(list[j])
  BY DEF Passed, Malformed
<1> QED BY <1>2, <1>3, <1>4, MeaningIs
LEMMA MeaningNone ==
    ASSUME NEW list, NEW k, NEW type, DOMAIN list \subseteq Nat, \A j \in DOMAIN list : Passed(list[j], k)
    PROVE  Meaning(list, k, type) = OptionCleared
<1>1. Named(list, k) = {}
  BY DEF Named, Passed
<1>2. \A j \in DOMAIN list : ~Malformed(list[j])
  BY DEF Passed, Malformed
<1> QED BY <1>1, <1>2, MeaningIs

(* What is known of the search: the options before the one the loop is in do not
   decide, and the locals are those of its place; afterwards, the result. *)
InOption(i, n) ==
    /\ place = [option |-> i, read |-> n]
    /\ \A j \in 1..i - 1 : Passed(optionList[j], sought)
    /\ AtPlace(optionList[i], n, scan)
SearchInv ==
    /\ optionList \in OptionLists /\ sought \in Keys
    /\ optionResult = Searching =>
        \/ Len(optionList) = 0 /\ place = [option |-> 1, read |-> 0] /\ scan = ScanBegin
        \/ \E i \in 1..Len(optionList), n \in Nat : InOption(i, n)
    /\ OptionFound

LEMMA ListIs ==
    ASSUME NEW list \in OptionLists
    PROVE  /\ Len(list) \in Nat /\ DOMAIN list = 1..Len(list)
           /\ \A i \in 1..Len(list) : Readable(list[i]) /\ (i < Len(list) => list[i].form # "unclosed")
  BY OptionsAssumption DEF OptionsAssumption
LEMMA AtBegin ==
    ASSUME NEW o, Readable(o), NEW p \in Marks, NEW q \in Marks
    PROVE  AtPlace(o, 0, Locals(0, p, q, <<>>, <<>>, "title"))
<1>1. Title(o) \in Seq(Characters)
  BY ReadableParts
<1>2. Read(Title(o), 0) = <<>> /\ 0 \in 0..Len(Title(o))
  BY <1>1, ReadEnds
<1> QED BY <1>2 DEF AtPlace, InTitle
LEMMA ScanBegins == ScanBegin = Locals(0, "none", "none", <<>>, <<>>, "title") /\ "none" \in Marks
  BY DEF ScanBegin, Locals, Marks
LEMMA NoSearching ==
    /\ OptionFails # Searching /\ OptionCleared # Searching /\ OptionTrue # Searching
    /\ \A s : OptionText(s) # Searching
<1>1. OptionFails.hr = "E_FAIL" /\ OptionCleared.hr = "S_OK" /\ OptionTrue.hr = "S_OK" /\ Searching.hr = "none"
  BY DEF OptionFails, OptionCleared, OptionTrue, Searching
<1>2. \A s : OptionText(s).hr = "S_OK"
  BY DEF OptionText
<1>3. "E_FAIL" # "none" /\ "S_OK" # "none"
  OBVIOUS
<1> QED BY <1>1, <1>2, <1>3

LEMMA SearchBegins == OptionsInit => SearchInv
<1> SUFFICES ASSUME OptionsInit PROVE SearchInv
  OBVIOUS
<1>1. /\ optionList \in OptionLists /\ sought \in Keys /\ optionResult = Searching
      /\ place = [option |-> 1, read |-> 0] /\ scan = ScanBegin
  BY DEF OptionsInit
<1>2. Len(optionList) \in Nat
  BY <1>1, ListIs
<1>3. CASE Len(optionList) = 0
  BY <1>1, <1>3 DEF SearchInv, OptionFound
<1>4. CASE Len(optionList) # 0
  <2>1. 1 \in 1..Len(optionList) /\ Readable(optionList[1]) /\ 1..1 - 1 = {}
    BY <1>1, <1>2, <1>4, ListIs
  <2>2. AtPlace(optionList[1], 0, scan)
    BY <1>1, <2>1, AtBegin, ScanBegins
  <2>3. InOption(1, 0)
    BY <1>1, <2>1, <2>2 DEF InOption
  <2> QED BY <1>1, <2>1, <2>3 DEF SearchInv, OptionFound
<1> QED BY <1>3, <1>4

(* The string and the character the loop looks at. *)
Mark(list, i) == IF i = Len(list) THEN EndOfText ELSE ","
LEMMA UpTo ==
    ASSUME NEW n \in Nat, NEW i \in 1..n
    PROVE  (i = n \/ i < n) /\ (i # n => i + 1 \in 1..n) /\ 1..(i + 1) - 1 = 1..i
  OBVIOUS
LEMMA ReadingIs ==
    ASSUME optionList \in OptionLists, NEW i \in 1..Len(optionList), NEW n \in Nat,
           place = [option |-> i, read |-> n]
    PROVE  /\ Here(optionList[i], Mark(optionList, i), i, n)
           /\ n + 1 = Len(WithBehind(optionList[i], Mark(optionList, i))) => NextPlace = [option |-> i + 1, read |-> 0]
<1> DEFINE o == optionList[i]
           e == Mark(optionList, i)
<1>1. Len(optionList) \in Nat /\ DOMAIN optionList = 1..Len(optionList) /\ Readable(o) /\ Len(optionList) # 0
  BY ListIs
<1>2. Written(optionList)[i] = WithBehind(o, e)
  BY <1>1 DEF Written, WithBehind, Behind, Mark
<1>3. place.option = i /\ place.read = n /\ [place EXCEPT !.read = @ + 1] = [option |-> i, read |-> n + 1]
  OBVIOUS
<1>4. Reading = WithBehind(o, e) /\ Character = WithBehind(o, e)[n + 1]
  BY <1>2, <1>3 DEF Reading, Character
<1>5. NextPlace = IF n + 1 < Len(WithBehind(o, e)) THEN [option |-> i, read |-> n + 1] ELSE [option |-> i + 1, read |-> 0]
  BY <1>3, <1>4 DEF NextPlace
<1>6. e \in {",", EndOfText} /\ (o.form = "unclosed" => e = EndOfText)
  <2>1. i < Len(optionList) => o.form # "unclosed"
    BY ListIs
  <2>2. i = Len(optionList) => e = EndOfText
    BY DEF Mark
  <2>3. i = Len(optionList) \/ i < Len(optionList)
    BY <1>1, UpTo
  <2>4. e \in {",", EndOfText}
    BY DEF Mark
  <2> QED BY <2>1, <2>2, <2>3, <2>4, Zenon
<1>7. Here(o, e, i, n)
  BY <1>1, <1>4, <1>5, <1>6 DEF Here
<1>8. n + 1 = Len(WithBehind(o, e)) => ~(n + 1 < Len(WithBehind(o, e)))
  OBVIOUS
<1> QED BY <1>5, <1>7, <1>8

(* A step that gives what the list means keeps what is known. *)
LEMMA Found ==
    ASSUME SearchInv, NEW r, r # Searching, Yields(r), r = Meaning(optionList, sought, wanted)
    PROVE  SearchInv'
<1>1. optionList' = optionList /\ sought' = sought /\ wanted' = wanted /\ optionResult' = r
  BY DEF Yields, optionInputs
<1> QED BY <1>1 DEF SearchInv, OptionFound

LEMMA ListEmpty ==
    ASSUME SearchInv, OptionsNext, Len(optionList) = 0, place = [option |-> 1, read |-> 0], scan = ScanBegin
    PROVE  SearchInv'
<1>1. optionList \in OptionLists /\ sought \in Keys
  BY DEF SearchInv
<1>2. Reading = <<EndOfText>>
  BY DEF Reading, Written
<1>3. Character = EndOfText
  BY <1>2 DEF Character
<1>4. EndOfText \notin Brackets /\ EndOfText # "none" /\ EndOfText # ","
  BY PairsAre, OptionsAssumption DEF OptionsAssumption
<1>5. EndOption
  BY <1>3, <1>4, ScanBegins, Outside
<1>6. ~Matched
  <2>1. scan.title = <<>>
    BY DEF ScanBegin
  <2>2. sought \in Seq(Characters) \ {<<>>}
    BY <1>1, OptionsAssumption DEF OptionsAssumption
  <2> QED BY <2>1, <2>2, NoName DEF Matched
<1>7. Yields(OptionCleared)
  BY <1>3, <1>4, <1>5, <1>6 DEF EndOption
<1>8. DOMAIN optionList = {}
  BY <1>1, ListIs
<1>9. Meaning(optionList, sought, wanted) = OptionCleared
  BY <1>8, MeaningNone
<1> QED BY <1>7, <1>9, NoSearching, Found

LEMMA OptionEnds ==
    ASSUME SearchInv, OptionsNext, NEW i \in 1..Len(optionList), NEW n \in Nat, InOption(i, n),
           AtItsEnd(optionList[i], Mark(optionList, i), n)
    PROVE  SearchInv'
<1> DEFINE o == optionList[i]
           e == Mark(optionList, i)
<1>1. /\ optionList \in OptionLists /\ sought \in Keys /\ Len(optionList) \in Nat
      /\ DOMAIN optionList = 1..Len(optionList) /\ Readable(o)
  BY ListIs DEF SearchInv
<1>2. EndOption /\ Character = e /\ n + 1 = Len(WithBehind(o, e)) /\ ~Malformed(o)
  BY DEF AtItsEnd
<1>3. PICK p \in Marks, q \in Marks :
          scan = IF o.bare THEN Locals(0, p, q, <<>>, Title(o), "title") ELSE Locals(0, p, q, Title(o), Value(o), "value")
  BY DEF AtItsEnd
<1>4. Here(o, e, i, n) /\ NextPlace = [option |-> i + 1, read |-> 0]
  BY <1>1, <1>2, ReadingIs DEF InOption
<1>5. sought \in Seq(Characters) \ {<<>>}
  BY <1>1, OptionsAssumption DEF OptionsAssumption
<1>6. \A j \in 1..i - 1 : Passed(optionList[j], sought)
  BY DEF InOption
<1>7. o.bare => ~Matched
  <2>1. o.bare => scan.title = <<>>
    BY <1>3, LocalsFields
  <2> QED BY <1>5, <2>1, NoName DEF Matched
<1>8. ~o.bare => (Matched <=> SameName(o.key, sought)) /\ scan.part = "value" /\ scan.run = Value(o)
  <2>1. ~o.bare => scan.title = Title(o) /\ scan.part = "value" /\ scan.run = Value(o)
    BY <1>3, LocalsFields
  <2> QED BY <1>1, <2>1, NameOf DEF Matched
<1>9. CASE ~o.bare /\ SameName(o.key, sought)
  <2>1. Yields(ResultOf(scan, wanted))
    BY <1>2, <1>8, <1>9 DEF EndOption
  <2>2. Meaning(optionList, sought, wanted) =
            IF Value(o) # <<>> THEN OptionText(Trim(Value(o)))
            ELSE IF wanted = "BOOL" THEN OptionTrue ELSE OptionCleared
    BY <1>1, <1>2, <1>6, <1>9, MeaningFound
  <2>3. ResultOf(scan, wanted) = Meaning(optionList, sought, wanted)
    BY <1>8, <1>9, <2>2 DEF ResultOf
  <2>4. ResultOf(scan, wanted) # Searching
    BY NoSearching DEF ResultOf
  <2> QED BY <2>1, <2>3, <2>4, Found
<1>10. CASE ~(~o.bare /\ SameName(o.key, sought))
  <2>1. ~Matched
    BY <1>7, <1>8, <1>10
  <2>2. Passed(o, sought)
    BY <1>1, <1>2, <1>10 DEF Passed, Malformed, Readable
  <2>3. \A j \in 1..i : Passed(optionList[j], sought)
    <3> TAKE j \in 1..i
    <3>1. j = i \/ j \in 1..i - 1
      BY <1>1
    <3> QED BY <1>6, <2>2, <3>1
  <2>4. "," # EndOfText
    BY OptionsAssumption DEF OptionsAssumption
  <2>5. CASE i = Len(optionList)
    <3>1. Character = EndOfText
      BY <1>2, <2>5 DEF Mark
    <3>2. Yields(OptionCleared)
      BY <1>2, <2>1, <2>4, <3>1 DEF EndOption
    <3>3. Meaning(optionList, sought, wanted) = OptionCleared
      BY <1>1, <2>3, <2>5, MeaningNone
    <3> QED BY <3>2, <3>3, NoSearching, Found
  <2>6. CASE i # Len(optionList)
    <3>1. Character = ","
      BY <1>2, <2>6 DEF Mark
    <3>2. Goes(NextOption(scan))
      BY <1>2, <2>1, <3>1 DEF EndOption
    <3>3. NextOption(scan) = Locals(0, p, q, <<>>, <<>>, "title")
      BY <1>3, LocalsNext
    <3>4. i + 1 \in 1..Len(optionList) /\ 1..(i + 1) - 1 = 1..i
      BY <1>1, <2>6, UpTo
    <3>5. AtPlace(optionList[i + 1], 0, NextOption(scan))
      BY <1>1, <3>3, <3>4, ListIs, AtBegin
    <3>6. /\ optionList' = optionList /\ sought' = sought /\ optionResult' = optionResult
          /\ scan' = NextOption(scan) /\ place' = [option |-> i + 1, read |-> 0]
      BY <1>4, <3>2 DEF Goes, optionInputs
    <3>7. InOption(i + 1, 0)'
      BY <2>3, <3>4, <3>5, <3>6 DEF InOption
    <3>8. optionResult = Searching
      BY DEF OptionsNext
    <3> QED BY <1>1, <3>4, <3>6, <3>7, <3>8 DEF SearchInv, OptionFound
  <2> QED BY <2>5, <2>6
<1> QED BY <1>9, <1>10

LEMMA SearchGoesOn == SearchInv /\ [OptionsNext]_optionVars => SearchInv'
<1>1. ASSUME SearchInv, UNCHANGED optionVars
      PROVE  SearchInv'
  BY <1>1 DEF SearchInv, OptionFound, InOption, optionVars, optionInputs
<1>2. ASSUME SearchInv, OptionsNext
      PROVE  SearchInv'
  <2>1. /\ optionList \in OptionLists /\ sought \in Keys /\ optionResult = Searching
        /\ \/ Len(optionList) = 0 /\ place = [option |-> 1, read |-> 0] /\ scan = ScanBegin
           \/ \E i \in 1..Len(optionList), n \in Nat : InOption(i, n)
    BY <1>2 DEF SearchInv, OptionsNext
  <2>2. CASE Len(optionList) = 0 /\ place = [option |-> 1, read |-> 0] /\ scan = ScanBegin
    BY <1>2, <2>2, ListEmpty
  <2>3. ASSUME NEW i \in 1..Len(optionList), NEW n \in Nat, InOption(i, n)
        PROVE  SearchInv'
    <3> DEFINE o == optionList[i]
               e == Mark(optionList, i)
    <3>1. Here(o, e, i, n) /\ AtPlace(o, n, scan) /\ \A j \in 1..i - 1 : Passed(optionList[j], sought)
      BY <2>1, <2>3, ReadingIs DEF InOption
    <3>2. Turn(o, e, i, n)
      BY <1>2, <3>1, TurnInOption
    <3>3. CASE GoesOn(o, i, n)
      <4>1. /\ optionList' = optionList /\ sought' = sought /\ optionResult' = optionResult
            /\ place' = [option |-> i, read |-> n + 1] /\ AtPlace(o, n + 1, scan') /\ n + 1 \in Nat
        BY <3>3 DEF GoesOn, optionInputs
      <4>2. InOption(i, n + 1)'
        BY <3>1, <4>1 DEF InOption
      <4> QED BY <2>1, <4>1, <4>2 DEF SearchInv, OptionFound
    <3>4. CASE Yields(OptionFails) /\ Malformed(o)
      <4>1. Len(optionList) \in Nat /\ DOMAIN optionList = 1..Len(optionList)
        BY <2>1, ListIs
      <4>2. Meaning(optionList, sought, wanted) = OptionFails
        BY <3>1, <3>4, <4>1, MeaningFails
      <4> QED BY <1>2, <3>4, <4>2, NoSearching, Found
    <3>5. CASE AtItsEnd(o, e, n)
      BY <1>2, <2>3, <3>5, OptionEnds
    <3> QED BY <3>2, <3>3, <3>4, <3>5 DEF Turn
  <2> QED BY <2>1, <2>2, <2>3
<1> QED BY <1>1, <1>2 DEF OptionsNext

(* The search in every string that applications write gives the value of the first
   option of the name that is looked up. *)
THEOREM OptionsAreFound == OptionsSpec => []OptionFound
<1>1. SearchInv => OptionFound
  BY DEF SearchInv
<1> QED BY <1>1, SearchBegins, SearchGoesOn, PTL DEF OptionsSpec

-----------------------------------------------------------------------------
(* Variants. *)

(* Slots and blocks, what is in them, and what VARIANTs are.  These operators stay
   folded in most proofs. *)
Mem == Slots \cup Blocks
VTs == {"EMPTY", "I4", "BSTR", "VARIANT"}
VariantType == [vt : VTs, form : {"scalar", "array", "data"}, p : {0} \cup Blocks]
BlockType == [kind : {"slot", "unused", "lost", "string", "array", "elements"}, vt : VTs, cells : Seq(VariantType)]
KindAt(m, y) == m[y].kind
VtOf(m, y) == m[y].vt
Dom(m, y) == DOMAIN m[y].cells
Cell(m, y, j) == m[y].cells[j]
Ptr(m, y, j) == Cell(m, y, j).p
Numeric(m, y) == KindAt(m, y) = "elements" /\ VtOf(m, y) \notin {"BSTR", "VARIANT"}
UsedIn(m) == {b \in Blocks : KindAt(m, b) \in {"string", "array", "elements"}}
RightIn(m, v) == v.p \in UsedIn(m) /\ KindAt(m, v.p) = KindOf(v) /\ VtOf(m, v.p) = v.vt

(* What may stand in a cell of a slot or block. *)
Fits(m, y, v) ==
    /\ KindAt(m, y) = "array" => v.form = "data" /\ v.vt = VtOf(m, y)
    /\ KindAt(m, y) # "array" => v.form # "data"
    /\ Numeric(m, y) => v.p = 0
Shaped(m) ==
    \A y \in Mem :
        /\ y \in Slots <=> KindAt(m, y) = "slot"
        /\ KindAt(m, y) \in {"slot", "array"} => Dom(m, y) = {1}
        /\ KindAt(m, y) = "string" => VtOf(m, y) = "BSTR"
        /\ KindAt(m, y) \in {"unused", "lost", "string"} => Dom(m, y) = {}
        /\ \A j \in Dom(m, y) : Fits(m, y, Cell(m, y, j))

(* Every pointer is right, every block has one owner, a cell or what is being
   cleared (D), and blocks do not own each other in a ring. *)
Pointing(m) == \A y \in Mem : \A j \in Dom(m, y) : Ptr(m, y, j) # 0 => RightIn(m, Cell(m, y, j))
OneOwner(m) ==
    \A y, z \in Mem : \A j \in Dom(m, y), k \in Dom(m, z) :
        Ptr(m, y, j) = Ptr(m, z, k) /\ Ptr(m, y, j) # 0 => y = z /\ j = k
ClearedRight(m, D) ==
    /\ D \subseteq VariantType
    /\ \A v \in D : RightIn(m, v) /\ \A y \in Mem : \A j \in Dom(m, y) : Ptr(m, y, j) # v.p
    /\ \A v, w \in D : v.p = w.p => v = w
Accounted(m, D) ==
    \A b \in UsedIn(m) : \/ \E y \in Mem : \E j \in Dom(m, y) : Ptr(m, y, j) = b
                         \/ \E v \in D : v.p = b
Unringed(m) ==
    \A B \in SUBSET UsedIn(m) :
        B # {} => \E b \in B : \A y \in B : \A j \in Dom(m, y) : Ptr(m, y, j) # b
Sound(m, D) ==
    /\ m \in [Mem -> BlockType] /\ Shaped(m)
    /\ Pointing(m) /\ OneOwner(m) /\ ClearedRight(m, D) /\ Accounted(m, D) /\ Unringed(m)

(* What is yet to be copied and changed. *)
Spot(m, l) == l \in Mem \X Nat /\ l[2] \in Dom(m, l[1]) /\ KindAt(m, l[1]) \in {"slot", "elements"}
CopyRight(m, c) ==
    /\ Spot(m, c.from) /\ Spot(m, c.to) /\ Ptr(m, c.to[1], c.to[2]) = 0
    /\ Numeric(m, c.to[1]) => Numeric(m, c.from[1])
CopiesRight(m, C) ==
    /\ \A c \in C : CopyRight(m, c) /\ c = [from |-> c.from, to |-> c.to]
    /\ \A c, d \in C : c.to = d.to => c = d
ChangeRight(m, c) ==
    /\ c.from \in Slots /\ c.to \in Slots /\ c.vt \in {"BSTR", "I4", "EMPTY"}
    /\ c.from # c.to => Ptr(m, c.to, 1) = 0
    /\ c.from = c.to /\ Cell(m, c.to, 1).form = "scalar" => Cell(m, c.to, 1).vt # c.vt
ChangesRight(m, C) == (\A c \in C : ChangeRight(m, c)) /\ (\A c, d \in C : c = d)
OwnersInv ==
    /\ Sound(memory, doomed) /\ CopiesRight(memory, copies) /\ ChangesRight(memory, change)
    /\ \A v \in doomed : v.form # "data"
    /\ doomed # {} => \A c \in copies : c.from[1] \in Slots /\ c.to[1] \in Slots
    /\ copies = {} \/ change = {}

SetCell(m, x, i, v) == [m EXCEPT ![x].cells[i] = v]
SetBlock(m, b, r) == [m EXCEPT ![b] = r]

LEMMA SetCellIs ==
    ASSUME NEW m \in [Mem -> BlockType], NEW x \in Mem, NEW i \in Dom(m, x), NEW v \in VariantType,
           NEW n, n = SetCell(m, x, i, v)
    PROVE  /\ n \in [Mem -> BlockType]
           /\ \A y \in Mem : KindAt(n, y) = KindAt(m, y) /\ VtOf(n, y) = VtOf(m, y) /\ Dom(n, y) = Dom(m, y)
           /\ Cell(n, x, i) = v
           /\ \A y \in Mem : \A j \in Dom(m, y) : (y # x \/ j # i) => Cell(n, y, j) = Cell(m, y, j)
<1> DEFINE s == [m[x].cells EXCEPT ![i] = v]
           r == [m[x] EXCEPT !.cells = s]
<1>1. m[x] \in BlockType /\ m[x].cells \in Seq(VariantType) /\ i \in DOMAIN m[x].cells
  BY DEF Dom, BlockType
<1>2. s \in Seq(VariantType) /\ DOMAIN s = DOMAIN m[x].cells /\ s[i] = v
      /\ \A j \in DOMAIN m[x].cells : j # i => s[j] = m[x].cells[j]
  BY <1>1
<1> HIDE DEF s
<1>3. r \in BlockType /\ r.kind = m[x].kind /\ r.vt = m[x].vt /\ r.cells = s
  BY <1>1, <1>2 DEF BlockType
<1>4. n = [m EXCEPT ![x] = r]
  BY DEF s, SetCell
<1> HIDE DEF r
<1>5. n \in [Mem -> BlockType] /\ n[x] = r /\ \A y \in Mem : y # x => n[y] = m[y]
  BY <1>3, <1>4
<1> QED BY <1>2, <1>3, <1>5 DEF KindAt, VtOf, Dom, Cell

BlockIs(n, b, r) ==
    /\ KindAt(n, b) = r.kind /\ VtOf(n, b) = r.vt /\ Dom(n, b) = DOMAIN r.cells
    /\ \A j \in DOMAIN r.cells : Cell(n, b, j) = r.cells[j]
OthersStay(m, n, b) ==
    /\ \A y \in Mem : y # b => KindAt(n, y) = KindAt(m, y) /\ VtOf(n, y) = VtOf(m, y) /\ Dom(n, y) = Dom(m, y)
    /\ \A y \in Mem : y # b => \A j \in Dom(m, y) : Cell(n, y, j) = Cell(m, y, j)
LEMMA SetBlockIs ==
    ASSUME NEW m \in [Mem -> BlockType], NEW b \in Mem, NEW r \in BlockType,
           NEW n, n = SetBlock(m, b, r)
    PROVE  n \in [Mem -> BlockType] /\ BlockIs(n, b, r) /\ OthersStay(m, n, b)
<1>1. n \in [Mem -> BlockType] /\ n[b] = r /\ \A y \in Mem : y # b => n[y] = m[y]
  BY DEF SetBlock
<1> QED BY <1>1 DEF KindAt, VtOf, Dom, Cell, BlockIs, OthersStay

(* A block that was unused is made, and a cell that was empty points to it. *)
LEMMA AttachKeepsSound ==
    ASSUME NEW m, NEW D, Sound(m, D),
           NEW x \in Mem, NEW i \in Dom(m, x), Ptr(m, x, i) = 0,
           NEW b \in Blocks, KindAt(m, b) = "unused",
           NEW r \in BlockType, r.kind \in {"string", "array", "elements"},
           r.kind = "array" => DOMAIN r.cells = {1} /\ r.cells[1].form = "data" /\ r.cells[1].vt = r.vt,
           r.kind = "string" => DOMAIN r.cells = {} /\ r.vt = "BSTR",
           \A j \in DOMAIN r.cells : r.cells[j].p = 0 /\ (r.kind = "elements" => r.cells[j].form # "data"),
           NEW v \in VariantType, v.p = b, KindOf(v) = r.kind, v.vt = r.vt, Fits(m, x, v),
           NEW n, n = SetBlock(SetCell(m, x, i, v), b, r)
    PROVE  Sound(n, D)
<1> DEFINE h == SetCell(m, x, i, v)
<1>1. /\ m \in [Mem -> BlockType] /\ Shaped(m) /\ Pointing(m) /\ OneOwner(m) /\ ClearedRight(m, D)
      /\ Accounted(m, D) /\ Unringed(m)
  BY DEF Sound
<1>2. b \in Mem /\ b \notin Slots /\ KindAt(m, b) = "unused" /\ Dom(m, b) = {} /\ x # b
  BY <1>1, VariantsAssumption DEF Mem, Shaped
<1>3. /\ h \in [Mem -> BlockType]
      /\ \A y \in Mem : KindAt(h, y) = KindAt(m, y) /\ VtOf(h, y) = VtOf(m, y) /\ Dom(h, y) = Dom(m, y)
      /\ Cell(h, x, i) = v
      /\ \A y \in Mem : \A j \in Dom(m, y) : (y # x \/ j # i) => Cell(h, y, j) = Cell(m, y, j)
  BY <1>1, SetCellIs
<1> HIDE DEF h
<1>4. /\ n \in [Mem -> BlockType]
      /\ KindAt(n, b) = r.kind /\ VtOf(n, b) = r.vt /\ Dom(n, b) = DOMAIN r.cells
      /\ \A j \in DOMAIN r.cells : Cell(n, b, j) = r.cells[j]
      /\ \A y \in Mem : y # b => KindAt(n, y) = KindAt(h, y) /\ VtOf(n, y) = VtOf(h, y) /\ Dom(n, y) = Dom(h, y)
      /\ \A y \in Mem : y # b => \A j \in Dom(h, y) : Cell(n, y, j) = Cell(h, y, j)
  <2>1. n = SetBlock(h, b, r)
    BY DEF h
  <2>2. n \in [Mem -> BlockType] /\ BlockIs(n, b, r) /\ OthersStay(h, n, b)
    BY <1>2, <1>3, <2>1, SetBlockIs
  <2> QED BY <2>2 DEF BlockIs, OthersStay
<1>5. /\ \A y \in Mem : y # b => KindAt(n, y) = KindAt(m, y) /\ VtOf(n, y) = VtOf(m, y) /\ Dom(n, y) = Dom(m, y)
      /\ Cell(n, x, i) = v
      /\ \A y \in Mem : y # b => \A j \in Dom(m, y) : (y # x \/ j # i) => Cell(n, y, j) = Cell(m, y, j)
  BY <1>2, <1>3, <1>4
<1>6. /\ Ptr(n, x, i) = b
      /\ \A y \in Mem : y # b => \A j \in Dom(m, y) : (y # x \/ j # i) => Ptr(n, y, j) = Ptr(m, y, j)
      /\ \A j \in Dom(n, b) : Ptr(n, b, j) = 0
  BY <1>4, <1>5 DEF Ptr
<1>7. UsedIn(n) = UsedIn(m) \cup {b} /\ b \notin UsedIn(m)
  <2>1. \A y \in Blocks : y \in Mem
    BY DEF Mem
  <2> QED BY <1>2, <1>4, <1>5, <2>1 DEF UsedIn
<1>8. \A w : RightIn(m, w) => RightIn(n, w) /\ w.p # b
  BY <1>2, <1>5, <1>7 DEF RightIn, UsedIn, Mem
<1>9. RightIn(n, v)
  BY <1>4, <1>7 DEF RightIn
<1>10. 0 # b
  BY DEF Blocks
<1>11. \A y \in Mem : \A j \in Dom(m, y) : Ptr(m, y, j) # b
  BY <1>1, <1>8, <1>10 DEF Pointing, Ptr
<1>12. Shaped(n)
  <2> SUFFICES ASSUME NEW y \in Mem
               PROVE  /\ y \in Slots <=> KindAt(n, y) = "slot"
                      /\ KindAt(n, y) \in {"slot", "array"} => Dom(n, y) = {1}
                      /\ KindAt(n, y) = "string" => VtOf(n, y) = "BSTR"
                      /\ KindAt(n, y) \in {"unused", "lost", "string"} => Dom(n, y) = {}
                      /\ \A j \in Dom(n, y) : Fits(n, y, Cell(n, y, j))
    BY DEF Shaped
  <2>1. CASE y = b
    <3>1. ASSUME NEW j \in Dom(n, b) PROVE Fits(n, b, Cell(n, b, j))
      BY <1>4, <3>1 DEF Fits, Numeric
    <3> QED BY <1>2, <1>4, <2>1, <3>1
  <2>2. CASE y # b
    <3>1. /\ y \in Slots <=> KindAt(m, y) = "slot"
          /\ KindAt(m, y) \in {"slot", "array"} => Dom(m, y) = {1}
          /\ KindAt(m, y) = "string" => VtOf(m, y) = "BSTR"
          /\ KindAt(m, y) \in {"unused", "lost", "string"} => Dom(m, y) = {}
          /\ \A j \in Dom(m, y) : Fits(m, y, Cell(m, y, j))
      BY <1>1 DEF Shaped
    <3>2. KindAt(n, y) = KindAt(m, y) /\ VtOf(n, y) = VtOf(m, y) /\ Dom(n, y) = Dom(m, y)
      BY <1>5, <2>2
    <3>3. \A w : Fits(m, y, w) => Fits(n, y, w)
      BY <3>2 DEF Fits, Numeric
    <3>4. ASSUME NEW j \in Dom(n, y) PROVE Fits(n, y, Cell(n, y, j))
      BY <1>5, <2>2, <3>1, <3>2, <3>3
    <3> QED BY <3>1, <3>2, <3>4
  <2> QED BY <2>1, <2>2
<1>13. Pointing(n)
  <2> SUFFICES ASSUME NEW y \in Mem, NEW j \in Dom(n, y), Ptr(n, y, j) # 0 PROVE RightIn(n, Cell(n, y, j))
    BY DEF Pointing
  <2>1. y # b
    BY <1>6
  <2>2. j \in Dom(m, y)
    BY <1>5, <2>1
  <2> QED BY <1>1, <1>5, <1>6, <1>8, <1>9, <2>1, <2>2 DEF Pointing
<1>14. OneOwner(n)
  <2> SUFFICES ASSUME NEW y \in Mem, NEW z \in Mem, NEW j \in Dom(n, y), NEW k \in Dom(n, z),
                      Ptr(n, y, j) = Ptr(n, z, k), Ptr(n, y, j) # 0
               PROVE  y = z /\ j = k
    BY DEF OneOwner
  <2>1. y # b /\ z # b
    BY <1>6
  <2>2. j \in Dom(m, y) /\ k \in Dom(m, z)
    BY <1>5, <2>1
  <2> QED BY <1>1, <1>6, <1>11, <2>1, <2>2 DEF OneOwner
<1>15. ClearedRight(n, D)
  <2>1. ASSUME NEW w \in D PROVE RightIn(n, w) /\ \A y \in Mem : \A j \in Dom(n, y) : Ptr(n, y, j) # w.p
    <3>1. RightIn(m, w) /\ \A y \in Mem : \A j \in Dom(m, y) : Ptr(m, y, j) # w.p
      BY <1>1 DEF ClearedRight
    <3>2. w.p \in Blocks
      BY <3>1 DEF RightIn, UsedIn
    <3>3. w.p # b /\ w.p # 0
      BY <1>8, <3>1, <3>2 DEF Blocks
    <3>4. ASSUME NEW y \in Mem, NEW j \in Dom(n, y) PROVE Ptr(n, y, j) # w.p
      <4>1. CASE y = b
        BY <1>6, <3>3, <4>1
      <4>2. CASE y # b
        BY <1>5, <1>6, <3>1, <3>3, <4>2
      <4> QED BY <4>1, <4>2
    <3> QED BY <1>8, <3>1, <3>4
  <2> QED BY <1>1, <2>1 DEF ClearedRight
<1>16. Accounted(n, D)
  <2> SUFFICES ASSUME NEW c \in UsedIn(n)
               PROVE  (\E y \in Mem : \E j \in Dom(n, y) : Ptr(n, y, j) = c) \/ \E w \in D : w.p = c
    BY DEF Accounted
  <2>1. CASE c = b
    BY <1>2, <1>5, <1>6, <2>1
  <2>2. CASE c # b
    <3>1. (\E y \in Mem : \E j \in Dom(m, y) : Ptr(m, y, j) = c) \/ \E w \in D : w.p = c
      BY <1>1, <1>7, <2>2 DEF Accounted
    <3>2. c # 0
      BY DEF UsedIn, Blocks
    <3>3. ASSUME NEW y \in Mem, NEW j \in Dom(m, y), Ptr(m, y, j) = c PROVE j \in Dom(n, y) /\ Ptr(n, y, j) = c
      BY <1>2, <1>5, <1>6, <3>2, <3>3
    <3> QED BY <3>1, <3>3
  <2> QED BY <2>1, <2>2
<1>17. Unringed(n)
  <2> SUFFICES ASSUME NEW B \in SUBSET UsedIn(n), B # {}
               PROVE  \E c \in B : \A y \in B : \A j \in Dom(n, y) : Ptr(n, y, j) # c
    BY DEF Unringed
  <2> DEFINE A == B \ {b}
  <2>1. A \in SUBSET UsedIn(m) /\ \A y \in B : y \in Mem
    BY <1>7 DEF UsedIn, Mem
  <2>2. CASE A = {}
    <3>1. B = {b}
      BY <2>2
    <3> QED BY <1>6, <1>10, <3>1
  <2>3. CASE A # {}
    <3>1. PICK c \in A : \A y \in A : \A j \in Dom(m, y) : Ptr(m, y, j) # c
      BY <1>1, <2>1, <2>3 DEF Unringed
    <3>2. c # 0 /\ c # b /\ c \in B
      BY <2>1 DEF UsedIn, Blocks
    <3>3. ASSUME NEW y \in B, NEW j \in Dom(n, y) PROVE Ptr(n, y, j) # c
      <4>1. CASE y = b
        BY <1>6, <3>2, <4>1
      <4>2. CASE y # b
        BY <1>5, <1>6, <2>1, <3>1, <3>2, <4>2
      <4> QED BY <4>1, <4>2
    <3> QED BY <3>2, <3>3
  <2> QED BY <2>2, <2>3
<1> QED BY <1>4, <1>12, <1>13, <1>14, <1>15, <1>16, <1>17 DEF Sound

(* A cell gives its VARIANT up to be cleared, or had none, and holds none then. *)
LEMMA TakeKeepsSound ==
    ASSUME NEW m, NEW D, Sound(m, D),
           NEW x \in Mem, NEW i \in Dom(m, x),
           NEW v \in VariantType, v.p = 0, Fits(m, x, v),
           NEW n, n = SetCell(m, x, i, v)
    PROVE  Sound(n, D \cup Pending({Cell(m, x, i)}))
<1> DEFINE w == Cell(m, x, i)
           E == D \cup Pending({w})
<1>1. /\ m \in [Mem -> BlockType] /\ Shaped(m) /\ Pointing(m) /\ OneOwner(m) /\ ClearedRight(m, D)
      /\ Accounted(m, D) /\ Unringed(m)
  BY DEF Sound
<1>2. /\ n \in [Mem -> BlockType]
      /\ \A y \in Mem : KindAt(n, y) = KindAt(m, y) /\ VtOf(n, y) = VtOf(m, y) /\ Dom(n, y) = Dom(m, y)
      /\ Cell(n, x, i) = v
      /\ \A y \in Mem : \A j \in Dom(m, y) : (y # x \/ j # i) => Cell(n, y, j) = Cell(m, y, j)
  BY <1>1, SetCellIs
<1>3. Ptr(n, x, i) = 0 /\ \A y \in Mem : \A j \in Dom(m, y) : (y # x \/ j # i) => Ptr(n, y, j) = Ptr(m, y, j)
  BY <1>2 DEF Ptr
<1>4. UsedIn(n) = UsedIn(m) /\ 0 \notin UsedIn(m) /\ UsedIn(m) \subseteq Mem
  BY <1>2 DEF UsedIn, Mem, Blocks
<1>5. \A u : RightIn(m, u) <=> RightIn(n, u)
  BY <1>2, <1>4 DEF RightIn
<1>6. w \in VariantType /\ w.p = Ptr(m, x, i) /\ (w.p # 0 => RightIn(m, w))
  <2>1. m[x] \in BlockType /\ i \in DOMAIN m[x].cells
    BY <1>1 DEF Dom
  <2>2. m[x].cells[i] \in VariantType
    BY <2>1 DEF BlockType
  <2> QED BY <1>1, <2>2 DEF Pointing, Ptr, Cell
<1>7. \A u \in E : u \in D \/ (u = w /\ w.p # 0)
  BY DEF Pending
<1> HIDE DEF w
<1>8. Shaped(n)
  <2> SUFFICES ASSUME NEW y \in Mem
               PROVE  /\ y \in Slots <=> KindAt(n, y) = "slot"
                      /\ KindAt(n, y) \in {"slot", "array"} => Dom(n, y) = {1}
                      /\ KindAt(n, y) = "string" => VtOf(n, y) = "BSTR"
                      /\ KindAt(n, y) \in {"unused", "lost", "string"} => Dom(n, y) = {}
                      /\ \A j \in Dom(n, y) : Fits(n, y, Cell(n, y, j))
    BY DEF Shaped
  <2>1. /\ y \in Slots <=> KindAt(m, y) = "slot"
        /\ KindAt(m, y) \in {"slot", "array"} => Dom(m, y) = {1}
        /\ KindAt(m, y) = "string" => VtOf(m, y) = "BSTR"
        /\ KindAt(m, y) \in {"unused", "lost", "string"} => Dom(m, y) = {}
        /\ \A j \in Dom(m, y) : Fits(m, y, Cell(m, y, j))
    BY <1>1 DEF Shaped
  <2>2. \A u : Fits(m, y, u) => Fits(n, y, u)
    BY <1>2 DEF Fits, Numeric
  <2>3. ASSUME NEW j \in Dom(n, y) PROVE Fits(n, y, Cell(n, y, j))
    BY <1>2, <2>1, <2>2
  <2> QED BY <1>2, <2>1, <2>3
<1>9. Pointing(n)
  BY <1>1, <1>2, <1>3, <1>5 DEF Pointing
<1>10. OneOwner(n)
  BY <1>1, <1>2, <1>3 DEF OneOwner
<1>11. ClearedRight(n, E)
  <2>1. E \subseteq VariantType
    BY <1>1, <1>6, <1>7 DEF ClearedRight
  <2>2. \A u \in E : RightIn(n, u) /\ u.p # 0
    BY <1>1, <1>4, <1>5, <1>6, <1>7 DEF ClearedRight, RightIn
  <2>3. ASSUME NEW u \in E, NEW y \in Mem, NEW j \in Dom(n, y) PROVE Ptr(n, y, j) # u.p
    <3>1. CASE y = x /\ j = i
      BY <1>3, <2>2, <3>1
    <3>2. CASE y # x \/ j # i
      <4>1. Ptr(n, y, j) = Ptr(m, y, j) /\ j \in Dom(m, y)
        BY <1>2, <1>3, <3>2
      <4>2. CASE u \in D
        BY <1>1, <4>1, <4>2 DEF ClearedRight
      <4>3. CASE u = w
        BY <1>1, <1>6, <2>2, <3>2, <4>1, <4>3 DEF OneOwner
      <4> QED BY <1>7, <4>2, <4>3
    <3> QED BY <3>1, <3>2
  <2>4. ASSUME NEW u \in E, NEW t \in E, u.p = t.p PROVE u = t
    BY <1>1, <1>6, <1>7, <2>4 DEF ClearedRight
  <2> QED BY <2>1, <2>2, <2>3, <2>4 DEF ClearedRight
<1>12. Accounted(n, E)
  <2> SUFFICES ASSUME NEW c \in UsedIn(n)
               PROVE  (\E y \in Mem : \E j \in Dom(n, y) : Ptr(n, y, j) = c) \/ \E u \in E : u.p = c
    BY DEF Accounted
  <2>1. CASE c = w.p
    <3>1. w \in E
      BY <1>4, <2>1 DEF Pending
    <3> QED BY <2>1, <3>1
  <2>2. CASE c # w.p
    <3>1. (\E y \in Mem : \E j \in Dom(m, y) : Ptr(m, y, j) = c) \/ \E u \in D : u.p = c
      BY <1>1, <1>4 DEF Accounted
    <3>2. ASSUME NEW y \in Mem, NEW j \in Dom(m, y), Ptr(m, y, j) = c PROVE j \in Dom(n, y) /\ Ptr(n, y, j) = c
      BY <1>2, <1>3, <1>6, <2>2, <3>2
    <3> QED BY <3>1, <3>2
  <2> QED BY <2>1, <2>2
<1>13. Unringed(n)
  <2> SUFFICES ASSUME NEW B \in SUBSET UsedIn(n), B # {}
               PROVE  \E c \in B : \A y \in B : \A j \in Dom(n, y) : Ptr(n, y, j) # c
    BY DEF Unringed
  <2>1. PICK c \in B : \A y \in B : \A j \in Dom(m, y) : Ptr(m, y, j) # c
    BY <1>1, <1>4 DEF Unringed
  <2>2. c # 0 /\ \A y \in B : y \in Mem
    BY <1>4
  <2> QED BY <1>2, <1>3, <2>1, <2>2
<1> QED BY <1>2, <1>8, <1>9, <1>10, <1>11, <1>12, <1>13 DEF Sound, w

(* A block whose VARIANT is being cleared is freed, or lost, and what its cells hold
   is to be cleared too. *)
CellsOf(m, y) == {Cell(m, y, j) : j \in Dom(m, y)}
LEMMA NothingIs ==
    ASSUME NEW r \in {Unused, LostBlock}
    PROVE  r \in BlockType /\ r.kind \in {"unused", "lost"} /\ DOMAIN r.cells = {}
<1>1. <<>> \in Seq(VariantType) /\ DOMAIN <<>> = {}
  OBVIOUS
<1>2. Unused \in BlockType /\ Unused.kind = "unused" /\ Unused.cells = <<>>
  BY <1>1 DEF Unused, MemoryBlock, BlockType, VTs
<1>3. LostBlock \in BlockType /\ LostBlock.kind = "lost" /\ LostBlock.cells = <<>>
  BY <1>1 DEF LostBlock, MemoryBlock, BlockType, VTs
<1>4. r = Unused \/ r = LostBlock
  OBVIOUS
<1> HIDE DEF Unused, LostBlock
<1> QED BY <1>1, <1>2, <1>3, <1>4
LEMMA FreeKeepsSound ==
    ASSUME NEW m, NEW D, Sound(m, D), NEW v \in D, NEW r \in {Unused, LostBlock},
           NEW n, n = SetBlock(m, v.p, r)
    PROVE  Sound(n, (D \ {v}) \cup Pending(CellsOf(m, v.p)))
<1> DEFINE b == v.p
           E == (D \ {v}) \cup Pending(CellsOf(m, b))
<1>1. /\ m \in [Mem -> BlockType] /\ Shaped(m) /\ Pointing(m) /\ OneOwner(m) /\ ClearedRight(m, D)
      /\ Accounted(m, D) /\ Unringed(m)
  BY DEF Sound
<1>2. /\ b \in UsedIn(m) /\ \A y \in Mem : \A j \in Dom(m, y) : Ptr(m, y, j) # b
      /\ \A u \in D : u.p = b => u = v
  BY <1>1 DEF ClearedRight, RightIn
<1> HIDE DEF b
<1>3. /\ UsedIn(m) \subseteq Mem /\ UsedIn(m) \subseteq Blocks /\ 0 \notin UsedIn(m)
      /\ UsedIn(m) \cap Slots = {}
  BY VariantsAssumption DEF UsedIn, Mem, Blocks
<1>4. r \in BlockType /\ r.kind \in {"unused", "lost"} /\ DOMAIN r.cells = {}
  BY NothingIs
<1>5. /\ n \in [Mem -> BlockType]
      /\ KindAt(n, b) = r.kind /\ VtOf(n, b) = r.vt /\ Dom(n, b) = DOMAIN r.cells
      /\ \A y \in Mem : y # b => KindAt(n, y) = KindAt(m, y) /\ VtOf(n, y) = VtOf(m, y) /\ Dom(n, y) = Dom(m, y)
      /\ \A y \in Mem : y # b => \A j \in Dom(m, y) : Cell(n, y, j) = Cell(m, y, j)
  <2>1. n = SetBlock(m, b, r) /\ b \in Mem
    BY <1>2, <1>3 DEF b
  <2>2. n \in [Mem -> BlockType] /\ BlockIs(n, b, r) /\ OthersStay(m, n, b)
    BY <1>1, <1>4, <2>1, SetBlockIs
  <2> QED BY <2>2 DEF BlockIs, OthersStay
<1>6. \A y \in Mem : \A j \in Dom(n, y) :
         /\ y # b /\ j \in Dom(m, y)
         /\ Cell(n, y, j) = Cell(m, y, j) /\ Ptr(n, y, j) = Ptr(m, y, j)
  BY <1>4, <1>5 DEF Ptr
<1>7. UsedIn(n) = UsedIn(m) \ {b}
  <2>1. \A y \in Blocks : y \in Mem
    BY DEF Mem
  <2> QED BY <1>4, <1>5, <2>1 DEF UsedIn
<1>8. \A u : RightIn(m, u) /\ u.p # b => RightIn(n, u)
  BY <1>3, <1>5, <1>7 DEF RightIn
<1>9. ASSUME NEW u \in E
      PROVE  \/ u \in D /\ u # v
             \/ u.p # 0 /\ \E j \in Dom(m, b) : u = Cell(m, b, j) /\ u.p = Ptr(m, b, j)
  BY <1>9 DEF Pending, CellsOf, Ptr
<1>10. \A u \in D : u # v => u \in E
  OBVIOUS
<1>11. \A j \in Dom(m, b) : Ptr(m, b, j) # 0 => Cell(m, b, j) \in E
  BY DEF Pending, CellsOf, Ptr
<1>12. \A u \in E : RightIn(m, u) /\ u.p # b
  <2> SUFFICES ASSUME NEW u \in E PROVE RightIn(m, u) /\ u.p # b
    OBVIOUS
  <2>1. CASE u \in D /\ u # v
    BY <1>1, <1>2, <2>1 DEF ClearedRight
  <2>2. CASE u.p # 0 /\ \E j \in Dom(m, b) : u = Cell(m, b, j) /\ u.p = Ptr(m, b, j)
    BY <1>1, <1>2, <1>3, <2>2 DEF Pointing
  <2> QED BY <1>9, <2>1, <2>2
<1>13. E \subseteq VariantType
  <2> SUFFICES ASSUME NEW u \in E PROVE u \in VariantType
    OBVIOUS
  <2>1. CASE u \in D
    BY <1>1, <2>1 DEF ClearedRight
  <2>2. CASE \E j \in Dom(m, b) : u = Cell(m, b, j)
    <3>1. PICK j \in Dom(m, b) : u = Cell(m, b, j)
      BY <2>2
    <3>2. m[b] \in BlockType /\ j \in DOMAIN m[b].cells /\ u = m[b].cells[j]
      BY <1>1, <1>2, <1>3, <3>1 DEF Dom, Cell
    <3> QED BY <3>2 DEF BlockType
  <2> QED BY <1>9, <2>1, <2>2
<1> HIDE DEF E
<1>14. Shaped(n)
  <2> SUFFICES ASSUME NEW y \in Mem
               PROVE  /\ y \in Slots <=> KindAt(n, y) = "slot"
                      /\ KindAt(n, y) \in {"slot", "array"} => Dom(n, y) = {1}
                      /\ KindAt(n, y) = "string" => VtOf(n, y) = "BSTR"
                      /\ KindAt(n, y) \in {"unused", "lost", "string"} => Dom(n, y) = {}
                      /\ \A j \in Dom(n, y) : Fits(n, y, Cell(n, y, j))
    BY DEF Shaped
  <2>1. CASE y = b
    BY <1>2, <1>3, <1>4, <1>5, <2>1
  <2>2. CASE y # b
    <3>1. /\ y \in Slots <=> KindAt(m, y) = "slot"
          /\ KindAt(m, y) \in {"slot", "array"} => Dom(m, y) = {1}
          /\ KindAt(m, y) = "string" => VtOf(m, y) = "BSTR"
          /\ KindAt(m, y) \in {"unused", "lost", "string"} => Dom(m, y) = {}
          /\ \A j \in Dom(m, y) : Fits(m, y, Cell(m, y, j))
      BY <1>1 DEF Shaped
    <3>2. KindAt(n, y) = KindAt(m, y) /\ VtOf(n, y) = VtOf(m, y) /\ Dom(n, y) = Dom(m, y)
      BY <1>5, <2>2
    <3>3. \A w : Fits(m, y, w) => Fits(n, y, w)
      BY <3>2 DEF Fits, Numeric
    <3>4. ASSUME NEW j \in Dom(n, y) PROVE Fits(n, y, Cell(n, y, j))
      BY <1>6, <3>1, <3>3
    <3> QED BY <3>1, <3>2, <3>4
  <2> QED BY <2>1, <2>2
<1>15. Pointing(n)
  BY <1>1, <1>2, <1>6, <1>8 DEF Pointing, Ptr
<1>16. OneOwner(n)
  BY <1>1, <1>6 DEF OneOwner
<1>17. ClearedRight(n, E)
  <2>1. ASSUME NEW u \in E, NEW y \in Mem, NEW j \in Dom(n, y) PROVE Ptr(n, y, j) # u.p
    <3>1. y # b /\ j \in Dom(m, y) /\ Ptr(n, y, j) = Ptr(m, y, j)
      BY <1>6
    <3>2. CASE u \in D
      BY <1>1, <3>1, <3>2 DEF ClearedRight
    <3>3. CASE u.p # 0 /\ \E k \in Dom(m, b) : u = Cell(m, b, k) /\ u.p = Ptr(m, b, k)
      BY <1>1, <1>2, <1>3, <3>1, <3>3 DEF OneOwner
    <3> QED BY <1>9, <3>2, <3>3
  <2>2. ASSUME NEW u \in E, NEW t \in E, u.p = t.p PROVE u = t
    <3>1. CASE u \in D /\ t \in D
      BY <1>1, <2>2, <3>1 DEF ClearedRight
    <3>2. ASSUME NEW k \in Dom(m, b), NEW w \in D PROVE Ptr(m, b, k) # w.p
      BY <1>1, <1>2, <1>3 DEF ClearedRight
    <3>3. ASSUME NEW j \in Dom(m, b), NEW k \in Dom(m, b), Ptr(m, b, j) = Ptr(m, b, k), Ptr(m, b, j) # 0 PROVE j = k
      BY <1>1, <1>2, <1>3, <3>3 DEF OneOwner
    <3> QED BY <1>9, <2>2, <3>1, <3>2, <3>3
  <2> QED BY <1>8, <1>12, <1>13, <2>1, <2>2 DEF ClearedRight
<1>18. Accounted(n, E)
  <2> SUFFICES ASSUME NEW c \in UsedIn(n)
               PROVE  (\E y \in Mem : \E j \in Dom(n, y) : Ptr(n, y, j) = c) \/ \E u \in E : u.p = c
    BY DEF Accounted
  <2>1. c \in UsedIn(m) /\ c # b /\ c # 0
    BY <1>3, <1>7
  <2>2. (\E y \in Mem : \E j \in Dom(m, y) : Ptr(m, y, j) = c) \/ \E w \in D : w.p = c
    BY <1>1, <2>1 DEF Accounted
  <2>3. ASSUME NEW y \in Mem, NEW j \in Dom(m, y), Ptr(m, y, j) = c, y # b
        PROVE  j \in Dom(n, y) /\ Ptr(n, y, j) = c
    BY <1>5, <2>3 DEF Ptr
  <2>4. ASSUME NEW j \in Dom(m, b), Ptr(m, b, j) = c PROVE \E u \in E : u.p = c
    BY <1>11, <2>1, <2>4 DEF Ptr
  <2>5. ASSUME NEW w \in D, w.p = c PROVE w \in E
    BY <1>10, <2>1, <2>5 DEF b
  <2> QED BY <2>2, <2>3, <2>4, <2>5
<1>19. Unringed(n)
  <2> SUFFICES ASSUME NEW B \in SUBSET UsedIn(n), B # {}
               PROVE  \E c \in B : \A y \in B : \A j \in Dom(n, y) : Ptr(n, y, j) # c
    BY DEF Unringed
  <2>1. B \in SUBSET UsedIn(m) /\ \A y \in B : y \in Mem
    BY <1>3, <1>7
  <2>2. PICK c \in B : \A y \in B : \A j \in Dom(m, y) : Ptr(m, y, j) # c
    BY <1>1, <2>1 DEF Unringed
  <2> QED BY <1>6, <2>1, <2>2
<1> QED BY <1>5, <1>14, <1>15, <1>16, <1>17, <1>18, <1>19 DEF Sound, E, b

(* Places, and what a step leaves of them that writes to one of them only. *)
Kept(m, n, l) ==
    \A y \in Mem : KindAt(m, y) \in {"slot", "elements"} =>
        /\ KindAt(n, y) = KindAt(m, y) /\ VtOf(n, y) = VtOf(m, y) /\ Dom(n, y) = Dom(m, y)
        /\ \A j \in Dom(m, y) : <<y, j>> # l => Cell(n, y, j) = Cell(m, y, j)
LEMMA KeptIs ==
    ASSUME NEW m, NEW n, NEW l, Kept(m, n, l), NEW c, CopyRight(m, c), c.to # l
    PROVE  CopyRight(n, c)
<1> DEFINE x == c.from[1]
           i == c.from[2]
           y == c.to[1]
           j == c.to[2]
<1>1. /\ x \in Mem /\ y \in Mem /\ i \in Dom(m, x) /\ j \in Dom(m, y) /\ c.from \in Mem \X Nat /\ c.to \in Mem \X Nat
      /\ KindAt(m, x) \in {"slot", "elements"} /\ KindAt(m, y) \in {"slot", "elements"} /\ Ptr(m, y, j) = 0
      /\ (Numeric(m, y) => Numeric(m, x))
  BY DEF CopyRight, Spot
<1>2. c.to = <<y, j>>
  BY <1>1
<1>3. /\ KindAt(n, x) = KindAt(m, x) /\ VtOf(n, x) = VtOf(m, x) /\ Dom(n, x) = Dom(m, x)
      /\ KindAt(n, y) = KindAt(m, y) /\ VtOf(n, y) = VtOf(m, y) /\ Dom(n, y) = Dom(m, y)
      /\ Cell(n, y, j) = Cell(m, y, j)
  BY <1>1, <1>2 DEF Kept
<1> QED BY <1>1, <1>3 DEF CopyRight, Spot, Ptr, Numeric

(* Places are cells, and writing to one is SetCell. *)
LEMMA PlaceIs ==
    ASSUME NEW x, NEW i, NEW v
    PROVE  Place(<<x, i>>, v) = SetCell(memory, x, i, v) /\ At(<<x, i>>) = Cell(memory, x, i)
  BY DEF Place, SetCell, At, Cell

LEMMA MallocIs ==
    ASSUME FreeBlocks # {}, memory \in [Mem -> BlockType]
    PROVE  /\ Malloc \in Blocks /\ KindAt(memory, Malloc) = "unused"
           /\ FreeBlocks \ {Malloc} # {} =>
                MallocNext \in Blocks /\ KindAt(memory, MallocNext) = "unused" /\ MallocNext # Malloc
<1>1. Malloc \in FreeBlocks
  BY DEF Malloc
<1>2. FreeBlocks \ {Malloc} # {} => MallocNext \in FreeBlocks \ {Malloc}
  BY DEF MallocNext
<1>3. \A b \in FreeBlocks : b \in Blocks /\ KindAt(memory, b) = "unused"
  BY DEF FreeBlocks, KindAt, Unused, MemoryBlock
<1> QED BY <1>1, <1>2, <1>3

(* A place that was written to, in a memory where one block more is in use. *)
LEMMA AttachKeeps ==
    ASSUME NEW m \in [Mem -> BlockType], NEW x \in Mem, NEW i \in Dom(m, x), NEW v \in VariantType,
           NEW b \in Blocks, KindAt(m, b) = "unused", NEW r \in BlockType,
           NEW n, n = SetBlock(SetCell(m, x, i, v), b, r)
    PROVE  Kept(m, n, <<x, i>>) /\ BlockIs(n, b, r)
<1> DEFINE h == SetCell(m, x, i, v)
<1>1. /\ h \in [Mem -> BlockType]
      /\ \A y \in Mem : KindAt(h, y) = KindAt(m, y) /\ VtOf(h, y) = VtOf(m, y) /\ Dom(h, y) = Dom(m, y)
      /\ \A y \in Mem : \A j \in Dom(m, y) : (y # x \/ j # i) => Cell(h, y, j) = Cell(m, y, j)
  BY SetCellIs
<1>2. n = SetBlock(h, b, r) /\ b \in Mem
  BY DEF h, Mem
<1> HIDE DEF h
<1>3. BlockIs(n, b, r) /\ OthersStay(h, n, b)
  BY <1>1, <1>2, SetBlockIs
<1>4. ASSUME NEW y \in Mem, KindAt(m, y) \in {"slot", "elements"}
      PROVE  /\ KindAt(n, y) = KindAt(m, y) /\ VtOf(n, y) = VtOf(m, y) /\ Dom(n, y) = Dom(m, y)
             /\ \A j \in Dom(m, y) : <<y, j>> # <<x, i>> => Cell(n, y, j) = Cell(m, y, j)
  <2>1. y # b
    BY <1>4
  <2>2. /\ KindAt(n, y) = KindAt(h, y) /\ VtOf(n, y) = VtOf(h, y) /\ Dom(n, y) = Dom(h, y)
        /\ \A j \in Dom(h, y) : Cell(n, y, j) = Cell(h, y, j)
    BY <1>3, <2>1 DEF OthersStay
  <2> QED BY <1>1, <2>2
<1> QED BY <1>3, <1>4 DEF Kept

LEMMA SetCellKeeps ==
    ASSUME NEW m \in [Mem -> BlockType], NEW x \in Mem, NEW i \in Dom(m, x), NEW v \in VariantType
    PROVE  Kept(m, SetCell(m, x, i, v), <<x, i>>)
<1> DEFINE h == SetCell(m, x, i, v)
<1>1. /\ \A y \in Mem : KindAt(h, y) = KindAt(m, y) /\ VtOf(h, y) = VtOf(m, y) /\ Dom(h, y) = Dom(m, y)
      /\ \A y \in Mem : \A j \in Dom(m, y) : (y # x \/ j # i) => Cell(h, y, j) = Cell(m, y, j)
  BY SetCellIs
<1> HIDE DEF h
<1>2. \A y, j : <<y, j>> # <<x, i>> => y # x \/ j # i
  OBVIOUS
<1> QED BY <1>1, <1>2 DEF Kept, h

LEMMA StringIsMade ==
    ASSUME NEW D, Sound(memory, D), NEW x \in Mem, NEW i \in Dom(memory, x), Ptr(memory, x, i) = 0,
           KindAt(memory, x) \in {"slot", "elements"}, ~Numeric(memory, x), PlaceString(<<x, i>>)
    PROVE  Sound(memory', D) /\ Kept(memory, memory', <<x, i>>)
<1>1. memory \in [Mem -> BlockType] /\ FreeBlocks # {}
  BY DEF Sound, PlaceString
<1>2. Malloc \in Blocks /\ KindAt(memory, Malloc) = "unused"
  BY <1>1, MallocIs
<1>3. memory' = SetBlock(SetCell(memory, x, i, Text(Malloc)), Malloc, String)
  BY PlaceIs DEF PlaceString, SetBlock
<1> DEFINE b == Malloc
<1> HIDE DEF b
<1>4. Text(b) \in VariantType /\ Text(b).p = b /\ KindOf(Text(b)) = "string" /\ Text(b).vt = "BSTR"
      /\ Text(b).form = "scalar"
  BY <1>2 DEF Text, VariantType, VTs, KindOf, b
<1>5. String \in BlockType /\ String.kind = "string" /\ String.vt = "BSTR" /\ DOMAIN String.cells = {}
  <2>1. <<>> \in Seq(VariantType) /\ DOMAIN <<>> = {}
    OBVIOUS
  <2> QED BY <2>1 DEF String, MemoryBlock, BlockType, VTs
<1>6. Fits(memory, x, Text(b))
  BY <1>4 DEF Fits
<1> HIDE DEF String
<1>7. b \in Blocks /\ KindAt(memory, b) = "unused" /\ memory' = SetBlock(SetCell(memory, x, i, Text(b)), b, String)
  BY <1>2, <1>3 DEF b
<1>8. Sound(memory', D)
  <2>1. String.kind \in {"string", "array", "elements"} /\ String.kind # "array"
    BY <1>5
  <2>2. \A j \in DOMAIN String.cells : String.cells[j].p = 0 /\ (String.kind = "elements" => String.cells[j].form # "data")
    BY <1>5
  <2> QED BY <1>4, <1>5, <1>6, <1>7, <2>1, <2>2, AttachKeepsSound
<1>9. Kept(memory, memory', <<x, i>>)
  BY <1>1, <1>4, <1>5, <1>7, AttachKeeps
<1> QED BY <1>8, <1>9

LEMMA KeptTwice ==
    ASSUME NEW m, NEW h, NEW n, NEW l, NEW k, Kept(m, h, l), Kept(h, n, k),
           \A y, j : k = <<y, j>> => KindAt(m, y) \notin {"slot", "elements"}
    PROVE  Kept(m, n, l)
  BY DEF Kept

(* SafeArrayCreateVector: the array, and when it has any, its elements. *)
LEMMA SafeArrayIs ==
    ASSUME NEW vt \in VTs, NEW b \in Blocks \cup {0}
    PROVE  /\ SafeArray(vt, b) \in BlockType /\ SafeArray(vt, b).kind = "array" /\ SafeArray(vt, b).vt = vt
           /\ SafeArray(vt, b).cells = <<Data(vt, b)>> /\ DOMAIN SafeArray(vt, b).cells = {1}
           /\ SafeArray(vt, b).cells[1] = Data(vt, b)
           /\ Data(vt, b) \in VariantType /\ Data(vt, b).form = "data" /\ Data(vt, b).vt = vt /\ Data(vt, b).p = b
           /\ KindOf(Data(vt, b)) = "elements"
<1>1. Data(vt, b) \in VariantType /\ Data(vt, b).form = "data" /\ Data(vt, b).vt = vt /\ Data(vt, b).p = b
  BY DEF Data, VariantType
<1> HIDE DEF Data
<1>2. <<Data(vt, b)>> \in Seq(VariantType) /\ DOMAIN <<Data(vt, b)>> = {1}
  BY <1>1
<1>3. KindOf(Data(vt, b)) = "elements"
  BY <1>1 DEF KindOf
<1> QED BY <1>1, <1>2, <1>3 DEF SafeArray, MemoryBlock, BlockType

LEMMA ElementsAre ==
    ASSUME NEW vt \in VTs, NEW n \in Nat
    PROVE  /\ Elements(vt, n) \in BlockType /\ Elements(vt, n).kind = "elements" /\ Elements(vt, n).vt = vt
           /\ DOMAIN Elements(vt, n).cells = 1..n
           /\ \A j \in 1..n : Elements(vt, n).cells[j].p = 0 /\ Elements(vt, n).cells[j].form = "scalar"
<1> DEFINE c == IF vt = "VARIANT" THEN Empty ELSE [vt |-> vt, form |-> "scalar", p |-> 0]
           s == [i \in 1..n |-> c]
<1>1. c \in VariantType /\ c.p = 0 /\ c.form = "scalar"
  BY DEF Empty, VariantType, VTs
<1>2. Elements(vt, n) = MemoryBlock("elements", vt, s)
  BY DEF Elements
<1> HIDE DEF c
<1>3. s \in Seq(VariantType) /\ DOMAIN s = 1..n /\ \A j \in 1..n : s[j] = c
  BY <1>1
<1> HIDE DEF s
<1> QED BY <1>1, <1>2, <1>3 DEF MemoryBlock, BlockType

LEMMA ArrayIsMade ==
    ASSUME NEW D, Sound(memory, D), NEW x \in Mem, NEW i \in Dom(memory, x), Ptr(memory, x, i) = 0,
           KindAt(memory, x) \in {"slot", "elements"}, ~Numeric(memory, x),
           NEW vt \in VTs, NEW n \in Nat, PlaceArray(<<x, i>>, vt, n)
    PROVE  /\ Sound(memory', D) /\ Kept(memory, memory', <<x, i>>)
           /\ n # 0 => /\ MallocNext \in Blocks /\ KindAt(memory, MallocNext) = "unused"
                       /\ BlockIs(memory', MallocNext, Elements(vt, n))
<1>1. memory \in [Mem -> BlockType] /\ FreeBlocks # {}
  BY DEF Sound, PlaceArray
<1> DEFINE a == Malloc
           h == SetBlock(SetCell(memory, x, i, Array(vt, a)), a, SafeArray(vt, 0))
<1>2. a \in Blocks /\ KindAt(memory, a) = "unused"
  BY <1>1, MallocIs
<1> HIDE DEF a
<1>3. /\ Array(vt, a) \in VariantType /\ Array(vt, a).p = a /\ KindOf(Array(vt, a)) = "array"
      /\ Array(vt, a).vt = vt /\ Array(vt, a).form = "array"
  BY <1>2 DEF Array, VariantType, KindOf
<1>4. /\ SafeArray(vt, 0) \in BlockType /\ SafeArray(vt, 0).kind = "array" /\ SafeArray(vt, 0).vt = vt
      /\ DOMAIN SafeArray(vt, 0).cells = {1} /\ SafeArray(vt, 0).cells[1] = Data(vt, 0)
      /\ Data(vt, 0).form = "data" /\ Data(vt, 0).vt = vt /\ Data(vt, 0).p = 0
  BY SafeArrayIs
<1>5. Fits(memory, x, Array(vt, a))
  BY <1>3 DEF Fits
<1> HIDE DEF h
<1>6. h = SetBlock(SetCell(memory, x, i, Array(vt, a)), a, SafeArray(vt, 0))
  BY DEF h
<1>7. Sound(h, D)
  <2> DEFINE r == SafeArray(vt, 0)
  <2> HIDE DEF r
  <2>1. /\ r \in BlockType /\ r.kind = "array" /\ r.vt = vt /\ DOMAIN r.cells = {1}
        /\ r.cells[1].form = "data" /\ r.cells[1].vt = vt /\ r.cells[1].p = 0
        /\ h = SetBlock(SetCell(memory, x, i, Array(vt, a)), a, r)
    BY <1>4, <1>6 DEF r
  <2>2. \A j \in DOMAIN r.cells : r.cells[j].p = 0 /\ (r.kind = "elements" => r.cells[j].form # "data")
    BY <2>1
  <2>3. r.kind \in {"string", "array", "elements"}
        /\ (r.kind = "array" => DOMAIN r.cells = {1} /\ r.cells[1].form = "data" /\ r.cells[1].vt = r.vt)
        /\ (r.kind = "string" => DOMAIN r.cells = {} /\ r.vt = "BSTR")
        /\ KindOf(Array(vt, a)) = r.kind /\ Array(vt, a).vt = r.vt
    BY <1>3, <2>1
  <2> QED BY <1>2, <1>3, <1>5, <2>1, <2>2, <2>3, AttachKeepsSound
<1>8. Kept(memory, h, <<x, i>>) /\ BlockIs(h, a, SafeArray(vt, 0))
  BY <1>1, <1>2, <1>3, <1>4, <1>6, AttachKeeps
<1>9. CASE n = 0
  <2>1. memory' = h
    BY <1>6, <1>9, PlaceIs DEF PlaceArray, SetBlock, a
  <2> QED BY <1>7, <1>8, <1>9, <2>1
<1>10. CASE n # 0
  <2> DEFINE e == MallocNext
  <2>1. e \in Blocks /\ KindAt(memory, e) = "unused" /\ e # a
    BY <1>1, <1>10, MallocIs DEF PlaceArray, a
  <2>2. memory' = [[SetCell(memory, x, i, Array(vt, a)) EXCEPT ![a] = SafeArray(vt, e)] EXCEPT ![e] = Elements(vt, n)]
    BY <1>10, PlaceIs DEF PlaceArray, a
  <2> HIDE DEF e
  <2>3. memory' = SetBlock(SetCell(h, a, 1, Data(vt, e)), e, Elements(vt, n))
    <3> DEFINE g == SetCell(memory, x, i, Array(vt, a))
    <3>1. g \in [Mem -> BlockType] /\ a \in Mem
      BY <1>1, <1>2, <1>3, SetCellIs DEF Mem
    <3> HIDE DEF g
    <3>2. h = [g EXCEPT ![a] = SafeArray(vt, 0)]
      BY <1>6 DEF SetBlock, g
    <3>3. SetCell(h, a, 1, Data(vt, e)) = [h EXCEPT ![a] = [SafeArray(vt, 0) EXCEPT !.cells[1] = Data(vt, e)]]
      BY <3>1, <3>2 DEF SetCell
    <3>4. [SafeArray(vt, 0) EXCEPT !.cells[1] = Data(vt, e)] = SafeArray(vt, e)
      <4> DEFINE d == Data(vt, 0)
                 f == Data(vt, e)
      <4> HIDE DEF d, f
      <4>1. [MemoryBlock("array", vt, <<d>>) EXCEPT !.cells[1] = f] = MemoryBlock("array", vt, <<f>>)
        BY DEF MemoryBlock
      <4> QED BY <4>1 DEF SafeArray, d, f
    <3>5. SetCell(h, a, 1, Data(vt, e)) = [g EXCEPT ![a] = SafeArray(vt, e)]
      BY <3>1, <3>2, <3>3, <3>4
    <3> QED BY <2>2, <3>5 DEF SetBlock, g
  <2>4. /\ Data(vt, e) \in VariantType /\ Data(vt, e).form = "data" /\ Data(vt, e).vt = vt /\ Data(vt, e).p = e
        /\ KindOf(Data(vt, e)) = "elements"
    BY <2>1, SafeArrayIs
  <2> DEFINE r == Elements(vt, n)
  <2> HIDE DEF r
  <2>5. /\ r \in BlockType /\ r.kind = "elements" /\ r.vt = vt /\ DOMAIN r.cells = 1..n
        /\ \A j \in 1..n : r.cells[j].p = 0 /\ r.cells[j].form = "scalar"
    BY ElementsAre DEF r
  <2>6. /\ h \in [Mem -> BlockType] /\ a \in Mem /\ 1 \in Dom(h, a) /\ KindAt(h, a) = "array" /\ VtOf(h, a) = vt
        /\ Ptr(h, a, 1) = 0
    BY <1>2, <1>4, <1>7, <1>8 DEF Sound, BlockIs, Ptr, Mem
  <2>7. KindAt(h, e) = "unused"
    <3>1. e \in Mem /\ a \in Mem
      BY <1>2, <2>1 DEF Mem
    <3> DEFINE g == SetCell(memory, x, i, Array(vt, a))
    <3>2. g \in [Mem -> BlockType] /\ \A y \in Mem : KindAt(g, y) = KindAt(memory, y)
      BY <1>1, <1>3, SetCellIs
    <3>3. h = SetBlock(g, a, SafeArray(vt, 0))
      BY <1>6
    <3> HIDE DEF g
    <3>4. OthersStay(g, h, a)
      BY <1>4, <3>1, <3>2, <3>3, SetBlockIs
    <3> QED BY <2>1, <3>1, <3>2, <3>4 DEF OthersStay
  <2>8. Fits(h, a, Data(vt, e))
    BY <2>4, <2>6 DEF Fits, Numeric
  <2>9. memory' = SetBlock(SetCell(h, a, 1, Data(vt, e)), e, r)
    BY <2>3 DEF r
  <2>10. Sound(memory', D)
    <3>1. /\ r.kind \in {"string", "array", "elements"} /\ r.kind # "array" /\ r.kind # "string"
          /\ \A j \in DOMAIN r.cells : r.cells[j].p = 0 /\ (r.kind = "elements" => r.cells[j].form # "data")
          /\ KindOf(Data(vt, e)) = r.kind /\ Data(vt, e).vt = r.vt
      BY <2>4, <2>5
    <3> QED BY <1>7, <2>1, <2>4, <2>5, <2>6, <2>7, <2>8, <2>9, <3>1, AttachKeepsSound
  <2>11. Kept(h, memory', <<a, 1>>) /\ BlockIs(memory', e, r)
    BY <2>1, <2>4, <2>5, <2>6, <2>7, <2>9, AttachKeeps
  <2>12. Kept(memory, memory', <<x, i>>)
    BY <1>2, <1>8, <2>11, KeptTwice
  <2> QED BY <2>1, <2>10, <2>11, <2>12 DEF r, e
<1> QED BY <1>9, <1>10

(* What is yet to be copied, when one place is written to. *)
LEMMA CopiesStay ==
    ASSUME NEW m, NEW n, NEW l, Kept(m, n, l), NEW C, CopiesRight(m, C), NEW A, A \subseteq C,
           \A c \in A : c.to # l
    PROVE  CopiesRight(n, A)
<1>1. ASSUME NEW c \in A PROVE CopyRight(n, c) /\ c = [from |-> c.from, to |-> c.to]
  <2>1. CopyRight(m, c) /\ c = [from |-> c.from, to |-> c.to] /\ c.to # l
    BY DEF CopiesRight
  <2> QED BY <2>1, KeptIs
<1> QED BY <1>1 DEF CopiesRight

(* What a VARIANT that is right points to. *)
LEMMA VariantIs ==
    ASSUME NEW m, NEW D, Sound(m, D), NEW y \in Mem, NEW j \in Dom(m, y)
    PROVE  /\ Cell(m, y, j) \in VariantType /\ Cell(m, y, j).p \in {0} \cup Blocks
           /\ Cell(m, y, j).vt \in VTs /\ Fits(m, y, Cell(m, y, j))
           /\ Cell(m, y, j).p # 0 => RightIn(m, Cell(m, y, j))
<1> DEFINE v == Cell(m, y, j)
<1>1. m[y] \in BlockType /\ j \in DOMAIN m[y].cells /\ v = m[y].cells[j]
  BY DEF Sound, Dom, Cell
<1>2. v \in VariantType
  BY <1>1 DEF BlockType
<1>3. Fits(m, y, v) /\ (v.p # 0 => RightIn(m, v))
  BY DEF Sound, Shaped, Pointing, Ptr
<1> HIDE DEF v
<1>4. v.p \in {0} \cup Blocks /\ v.vt \in VTs
  BY <1>2 DEF VariantType
<1> QED BY <1>2, <1>3, <1>4 DEF v

LEMMA SlotIs ==
    ASSUME NEW m, NEW D, Sound(m, D), NEW s \in Slots
    PROVE  s \in Mem /\ KindAt(m, s) = "slot" /\ Dom(m, s) = {1} /\ ~Numeric(m, s) /\ Spot(m, Slot(s))
<1>1. s \in Mem /\ KindAt(m, s) = "slot" /\ Dom(m, s) = {1}
  BY DEF Mem, Sound, Shaped
<1> QED BY <1>1 DEF Numeric, Spot, Slot

LEMMA ArrayIs ==
    ASSUME NEW m, NEW D, Sound(m, D), NEW v, RightIn(m, v), v.form = "array"
    PROVE  /\ v.p \in Mem /\ v.p \in Blocks /\ KindAt(m, v.p) = "array" /\ Dom(m, v.p) = {1} /\ VtOf(m, v.p) = v.vt
           /\ Cell(m, v.p, 1).form = "data" /\ Cell(m, v.p, 1).vt = v.vt
           /\ Cell(m, v.p, 1).p # 0 =>
                LET e == Cell(m, v.p, 1).p IN
                e \in Blocks /\ e \in Mem /\ KindAt(m, e) = "elements" /\ VtOf(m, e) = v.vt /\ e # v.p
                /\ RightIn(m, Cell(m, v.p, 1))
<1> DEFINE a == v.p
           d == Cell(m, a, 1)
<1>1. a \in Mem /\ a \in Blocks /\ KindAt(m, a) = "array" /\ VtOf(m, a) = v.vt
  BY DEF RightIn, UsedIn, KindOf, Mem
<1> HIDE DEF a
<1>2. Dom(m, a) = {1}
  BY <1>1 DEF Sound, Shaped
<1>3. Fits(m, a, d) /\ (d.p # 0 => RightIn(m, d))
  BY <1>1, <1>2, VariantIs
<1> HIDE DEF d
<1>4. d.form = "data" /\ d.vt = v.vt
  BY <1>1, <1>3 DEF Fits
<1>5. d.p # 0 => d.p \in Blocks /\ d.p \in Mem /\ KindAt(m, d.p) = "elements" /\ VtOf(m, d.p) = v.vt /\ d.p # a
  BY <1>1, <1>3, <1>4 DEF RightIn, UsedIn, KindOf, Mem
<1> QED BY <1>1, <1>2, <1>3, <1>4, <1>5 DEF a, d

LEMMA EmptyFits ==
    ASSUME NEW m, NEW x, KindAt(m, x) # "array", NEW v \in {Empty, Number}
    PROVE  v \in VariantType /\ v.p = 0 /\ v.form = "scalar" /\ Fits(m, x, v)
<1>1. \A u \in {Empty, Number} : u \in VariantType /\ u.p = 0 /\ u.form = "scalar"
  BY DEF Empty, Number, VariantType, VTs
<1> HIDE DEF Empty, Number
<1>2. v \in VariantType /\ v.p = 0 /\ v.form = "scalar"
  BY <1>1
<1> QED BY <1>2 DEF Fits

LEMMA InitIsSound == VariantsInit => OwnersInv
<1> SUFFICES ASSUME VariantsInit PROVE OwnersInv
  OBVIOUS
<1>1. doomed = {} /\ copies = {} /\ change = {}
  BY DEF VariantsInit
<1> DEFINE slot == MemoryBlock("slot", "EMPTY", <<Empty>>)
<1>2. /\ slot \in BlockType /\ slot.kind = "slot" /\ slot.vt = "EMPTY" /\ DOMAIN slot.cells = {1} /\ slot.cells[1] = Empty
      /\ Empty.p = 0 /\ Empty.form = "scalar"
  <2>1. Empty \in VariantType /\ Empty.p = 0 /\ Empty.form = "scalar"
    BY DEF Empty, VariantType, VTs
  <2> HIDE DEF Empty
  <2>2. <<Empty>> \in Seq(VariantType) /\ DOMAIN <<Empty>> = {1} /\ <<Empty>>[1] = Empty
    BY <2>1
  <2> QED BY <2>1, <2>2 DEF MemoryBlock, BlockType, VTs
<1>3. Unused \in BlockType /\ Unused.kind = "unused" /\ DOMAIN Unused.cells = {}
  <2>1. <<>> \in Seq(VariantType) /\ DOMAIN <<>> = {}
    OBVIOUS
  <2> QED BY <2>1 DEF Unused, MemoryBlock, BlockType, VTs
<1>4. memory = [y \in Mem |-> IF y \in Slots THEN slot ELSE Unused]
  BY DEF VariantsInit, Mem
<1> HIDE DEF slot, Unused
<1>5. /\ memory \in [Mem -> BlockType]
      /\ \A y \in Mem : (y \in Slots /\ memory[y] = slot) \/ (y \notin Slots /\ memory[y] = Unused)
  BY <1>2, <1>3, <1>4
<1>6. \A y \in Mem :
         \/ y \in Slots /\ KindAt(memory, y) = "slot" /\ Dom(memory, y) = {1} /\ Cell(memory, y, 1) = Empty
         \/ y \notin Slots /\ KindAt(memory, y) = "unused" /\ Dom(memory, y) = {}
  BY <1>2, <1>3, <1>5 DEF KindAt, Dom, Cell
<1>7. UsedIn(memory) = {}
  <2>1. \A y \in Blocks : y \in Mem /\ y \notin Slots
    BY VariantsAssumption DEF Mem
  <2> QED BY <1>6, <2>1 DEF UsedIn
<1>8. \A y \in Mem : \A j \in Dom(memory, y) : j = 1 /\ Cell(memory, y, j) = Empty /\ Ptr(memory, y, j) = 0 /\ KindAt(memory, y) = "slot"
  BY <1>2, <1>6 DEF Ptr
<1>9. Shaped(memory)
  <2>1. ASSUME NEW y \in Mem, NEW j \in Dom(memory, y) PROVE Fits(memory, y, Cell(memory, y, j))
    BY <1>2, <1>8 DEF Fits
  <2> QED BY <1>6, <2>1 DEF Shaped
<1>10. /\ Pointing(memory) /\ OneOwner(memory) /\ ClearedRight(memory, {}) /\ Accounted(memory, {})
       /\ Unringed(memory)
  BY <1>7, <1>8 DEF Pointing, OneOwner, ClearedRight, Accounted, Unringed
<1> QED BY <1>1, <1>5, <1>9, <1>10 DEF OwnersInv, Sound, CopiesRight, ChangesRight

-----------------------------------------------------------------------------
(* Steps of a call. *)

LEMMA FreeKeepsOwners ==
    ASSUME OwnersInv, ClearOne
    PROVE  OwnersInv'
<1>1. PICK v \in doomed : FreeString(v) \/ DestroyElements(v) \/ FreeArray(v)
  BY DEF ClearOne
<1>2. UNCHANGED <<copies, change>>
  BY DEF ClearOne
<1>3. /\ Sound(memory, doomed) /\ CopiesRight(memory, copies) /\ ChangesRight(memory, change)
      /\ \A u \in doomed : u.form # "data"
      /\ \A c \in copies : c.from[1] \in Slots /\ c.to[1] \in Slots
      /\ copies = {} \/ change = {}
  BY DEF OwnersInv
<1>4. /\ memory \in [Mem -> BlockType] /\ v \in VariantType /\ RightIn(memory, v)
      /\ v.p \in UsedIn(memory)
  BY <1>3 DEF Sound, ClearedRight, RightIn
<1>5. UsedIn(memory) \subseteq Mem /\ UsedIn(memory) \cap Slots = {} /\ 0 \notin UsedIn(memory)
  BY VariantsAssumption DEF UsedIn, Mem, Blocks
<1>6. \A u \in {Unused, LostBlock} : u \in BlockType
  BY NothingIs
(* No step touches a slot. *)
<1>7. ASSUME \A s \in Slots : KindAt(memory', s) = KindAt(memory, s) /\ VtOf(memory', s) = VtOf(memory, s)
                               /\ Dom(memory', s) = Dom(memory, s)
                               /\ \A j \in Dom(memory, s) : Cell(memory', s, j) = Cell(memory, s, j),
             Sound(memory', doomed'), \A u \in doomed' : u.form # "data"
      PROVE  OwnersInv'
  <2>1. ASSUME NEW c \in copies PROVE CopyRight(memory', c) /\ c = [from |-> c.from, to |-> c.to]
    <3>1. CopyRight(memory, c) /\ c.from[1] \in Slots /\ c.to[1] \in Slots /\ c = [from |-> c.from, to |-> c.to]
      BY <1>3 DEF CopiesRight
    <3> QED BY <1>7, <3>1 DEF CopyRight, Spot, Ptr, Numeric
  <2>2. CopiesRight(memory', copies)
    BY <1>3, <2>1 DEF CopiesRight
  <2>3. \A s \in Slots : 1 \in Dom(memory, s)
    BY <1>3, SlotIs
  <2>4. ChangesRight(memory', change)
    BY <1>3, <1>7, <2>3 DEF ChangesRight, ChangeRight, Ptr
  <2> QED BY <1>2, <1>3, <1>7, <2>2, <2>4 DEF OwnersInv
<1>8. ASSUME NEW r \in {Unused, LostBlock}, memory' = SetBlock(memory, v.p, r),
             doomed' = doomed \ {v}, \A j \in Dom(memory, v.p) : Ptr(memory, v.p, j) = 0
      PROVE  OwnersInv'
  <2>1. Pending(CellsOf(memory, v.p)) = {}
    BY <1>8 DEF Pending, CellsOf, Ptr
  <2>2. Sound(memory', doomed')
    <3>1. Sound(memory', (doomed \ {v}) \cup Pending(CellsOf(memory, v.p)))
      BY <1>3, <1>8, FreeKeepsSound
    <3> QED BY <1>8, <2>1, <3>1
  <2>3. OthersStay(memory, memory', v.p)
    BY <1>4, <1>5, <1>6, <1>8, SetBlockIs
  <2>4. \A s \in Slots : s \in Mem /\ s # v.p
    BY <1>4, <1>5 DEF Mem
  <2> QED BY <1>3, <1>7, <1>8, <2>2, <2>3, <2>4 DEF OthersStay
<1>9. CASE FreeString(v)
  <2>1. v.form = "scalar" /\ memory' = SetBlock(memory, v.p, Unused) /\ doomed' = doomed \ {v}
    BY <1>9 DEF FreeString, SetBlock
  <2>2. KindAt(memory, v.p) = "string" /\ v.p \in Mem
    BY <1>4, <1>5, <2>1 DEF RightIn, KindOf
  <2>3. Dom(memory, v.p) = {}
    BY <1>3, <2>2 DEF Sound, Shaped
  <2> QED BY <1>8, <2>1, <2>3
<1>10. CASE FreeArray(v)
  <2>1. v.form = "array" /\ memory' = SetBlock(memory, v.p, Unused) /\ doomed' = doomed \ {v}
        /\ Ptr(memory, v.p, 1) = 0
    BY <1>10, PlaceIs DEF FreeArray, SetBlock, Ptr
  <2>2. Dom(memory, v.p) = {1}
    BY <1>3, <1>4, <2>1, ArrayIs
  <2> QED BY <1>8, <2>1, <2>2
<1>11. CASE DestroyElements(v)
  <2> DEFINE a == v.p
             d == Cell(memory, a, 1)
             e == d.p
             vt == VtOf(memory, a)
             each == vt \in {"BSTR", "VARIANT"}
             r == IF each THEN LostBlock ELSE Unused
             h == SetCell(memory, a, 1, Data(vt, 0))
  <2>1. v.form = "array" /\ e # 0
    BY <1>11, PlaceIs DEF DestroyElements
  <2>2. /\ a \in Mem /\ KindAt(memory, a) = "array" /\ Dom(memory, a) = {1} /\ vt = v.vt /\ d.form = "data" /\ d.vt = vt
        /\ e \in Blocks /\ e \in Mem /\ KindAt(memory, e) = "elements" /\ VtOf(memory, e) = vt /\ e # a /\ RightIn(memory, d)
    BY <1>3, <1>4, <2>1, ArrayIs
  <2>3. memory' = SetBlock(h, e, r)
    BY <1>11, PlaceIs DEF DestroyElements, SetBlock, VtOf, KindAt
  <2>4. doomed' = IF each THEN doomed \cup Pending(CellsOf(memory, e)) ELSE doomed
    <3>1. At(<<a, 1>>).p = e /\ \A i : At(<<e, i>>) = Cell(memory, e, i)
      BY PlaceIs
    <3>2. {At(<<e, i>>) : i \in DOMAIN memory[e].cells} = CellsOf(memory, e)
      BY <3>1 DEF CellsOf, Dom
    <3> QED BY <1>11, <3>1, <3>2 DEF DestroyElements, VtOf
  <2>5. r \in {Unused, LostBlock} /\ vt \in VTs
    <3>1. memory[a] \in BlockType
      BY <1>4, <2>2
    <3> QED BY <3>1 DEF VtOf, BlockType
  <2> HIDE DEF r
  <2>6. d \in VariantType
    BY <1>3, <2>2, VariantIs
  <2>7. Data(vt, 0) \in VariantType /\ Data(vt, 0).p = 0 /\ Data(vt, 0).form = "data" /\ Data(vt, 0).vt = vt
    BY <2>5, SafeArrayIs
  <2> HIDE DEF d
  <2>8. Fits(memory, a, Data(vt, 0))
    BY <2>2, <2>7 DEF Fits, Numeric
  <2> HIDE DEF h
  <2>9. Sound(h, doomed \cup {d})
    <3>1. Sound(h, doomed \cup Pending({Cell(memory, a, 1)}))
      BY <1>3, <2>2, <2>7, <2>8, TakeKeepsSound DEF h
    <3>2. Pending({d}) = {d}
      BY <2>1 DEF Pending
    <3> QED BY <3>1, <3>2 DEF d
  <2>10. /\ h \in [Mem -> BlockType]
         /\ \A y \in Mem : KindAt(h, y) = KindAt(memory, y) /\ VtOf(h, y) = VtOf(memory, y) /\ Dom(h, y) = Dom(memory, y)
         /\ \A y \in Mem : \A j \in Dom(memory, y) : (y # a \/ j # 1) => Cell(h, y, j) = Cell(memory, y, j)
    <3> DEFINE w == Data(vt, 0)
    <3> HIDE DEF w
    <3>1. /\ h = SetCell(memory, a, 1, w) /\ 1 \in Dom(memory, a) /\ w \in VariantType
          /\ memory \in [Mem -> BlockType] /\ a \in Mem
      BY <1>4, <2>2, <2>7 DEF h, w
    <3> HIDE DEF a
    <3> QED BY <3>1, SetCellIs
  <2>11. CellsOf(h, e) = CellsOf(memory, e)
    BY <2>2, <2>10 DEF CellsOf
  <2>12. d \notin doomed
    BY <1>3, <2>2
  <2>13. Sound(memory', doomed \cup Pending(CellsOf(memory, e)))
    <3>1. Sound(memory', ((doomed \cup {d}) \ {d}) \cup Pending(CellsOf(h, e)))
      BY <2>3, <2>5, <2>9, FreeKeepsSound
    <3>2. (doomed \cup {d}) \ {d} = doomed
      BY <2>12
    <3> QED BY <2>11, <3>1, <3>2
  <2>14. doomed' = doomed \cup Pending(CellsOf(memory, e))
    <3>1. CASE each
      BY <2>4, <3>1
    <3>2. CASE ~each
      <4>1. Numeric(memory, e)
        BY <2>2, <3>2 DEF Numeric
      <4>2. \A j \in Dom(memory, e) : Cell(memory, e, j).p = 0
        BY <1>3, <2>2, <4>1, VariantIs DEF Fits
      <4>3. Pending(CellsOf(memory, e)) = {}
        BY <4>2 DEF Pending, CellsOf
      <4> QED BY <2>4, <3>2, <4>3
    <3> QED BY <3>1, <3>2
  <2>15. \A u \in doomed' : u.form # "data"
    <3>1. ASSUME NEW u \in Pending(CellsOf(memory, e)) PROVE u.form # "data"
      <4>1. PICK j \in Dom(memory, e) : u = Cell(memory, e, j)
        BY DEF Pending, CellsOf
      <4>2. Fits(memory, e, u)
        BY <1>3, <2>2, <4>1, VariantIs
      <4> QED BY <2>2, <4>2 DEF Fits
    <3> QED BY <1>3, <2>14, <3>1
  <2>16. OthersStay(h, memory', e)
    BY <1>6, <2>2, <2>3, <2>5, <2>10, SetBlockIs
  <2>17. \A s \in Slots : s \in Mem /\ s # e /\ s # a
    BY <1>4, <1>5, <2>2, VariantsAssumption DEF Mem
  <2> QED BY <1>7, <2>10, <2>13, <2>14, <2>15, <2>16, <2>17 DEF OthersStay
<1> QED BY <1>1, <1>9, <1>10, <1>11

LEMMA CopyKeepsOwners ==
    ASSUME OwnersInv, Copy
    PROVE  OwnersInv'
<1>1. doomed = {} /\ UNCHANGED <<doomed, change>>
  BY DEF Copy
<1>2. PICK c \in copies : CopyOne(c)
  BY DEF Copy
<1>3. /\ Sound(memory, {}) /\ CopiesRight(memory, copies) /\ change = {}
      /\ memory \in [Mem -> BlockType]
  BY <1>1, <1>2 DEF OwnersInv, Sound
<1> DEFINE x == c.from[1]
           i == c.from[2]
           y == c.to[1]
           j == c.to[2]
           v == Cell(memory, x, i)
           e == Cell(memory, v.p, 1).p
           more == IF v.p # 0 /\ v.form = "array" /\ e # 0 THEN Dom(memory, e) ELSE {}
           new == {[from |-> <<e, k>>, to |-> <<MallocNext, k>>] : k \in more}
<1>4. /\ c.from = <<x, i>> /\ c.to = <<y, j>>
      /\ x \in Mem /\ y \in Mem /\ i \in Dom(memory, x) /\ j \in Dom(memory, y)
      /\ KindAt(memory, x) \in {"slot", "elements"} /\ KindAt(memory, y) \in {"slot", "elements"} /\ Ptr(memory, y, j) = 0
      /\ (Numeric(memory, y) => Numeric(memory, x))
  BY <1>3 DEF CopiesRight, CopyRight, Spot
<1>5. /\ At(c.from) = v /\ At(<<v.p, 1>>).p = e
      /\ \A w : Place(c.to, w) = SetCell(memory, y, j, w)
  BY <1>4, PlaceIs
<1> HIDE DEF x, i, y, j
<1>6. /\ v \in VariantType /\ v.vt \in VTs /\ Fits(memory, x, v)
      /\ (v.p # 0 => RightIn(memory, v))
  BY <1>3, <1>4, VariantIs
<1>7. v.form # "data" /\ Fits(memory, y, v) /\ (Numeric(memory, y) => v.p = 0)
  BY <1>4, <1>6 DEF Fits
<1>8. copies' = (copies \ {c}) \cup new
  BY <1>2, <1>5 DEF CopyOne, Dom
<1>9. \/ v.p = 0 /\ memory' = SetCell(memory, y, j, v)
      \/ v.p # 0 /\ v.form = "scalar" /\ PlaceString(c.to)
      \/ v.p # 0 /\ v.form = "array" /\ PlaceArray(c.to, v.vt, IF e = 0 THEN 0 ELSE Len(memory[e].cells))
  BY <1>2, <1>5 DEF CopyOne, CopyString
<1>10. ASSUME Kept(memory, memory', <<y, j>>) PROVE CopiesRight(memory', copies \ {c})
  <2>1. \A d \in copies \ {c} : d.to # <<y, j>>
    BY <1>3, <1>4 DEF CopiesRight
  <2> QED BY <1>3, <1>10, <2>1, CopiesStay
<1>11. ASSUME Sound(memory', {}), CopiesRight(memory', copies') PROVE OwnersInv'
  BY <1>1, <1>3, <1>11 DEF OwnersInv, ChangesRight
<1>12. ASSUME v.p = 0 \/ v.form = "scalar" \/ e = 0 PROVE new = {}
  BY <1>12
<1>13. CASE v.p = 0 /\ memory' = SetCell(memory, y, j, v)
  <2>1. Kept(memory, memory', <<y, j>>)
    BY <1>3, <1>4, <1>6, <1>13, SetCellKeeps
  <2>2. Sound(memory', {} \cup Pending({Cell(memory, y, j)}))
    BY <1>3, <1>4, <1>6, <1>7, <1>13, TakeKeepsSound
  <2>3. Pending({Cell(memory, y, j)}) = {}
    BY <1>4 DEF Pending, Ptr
  <2> QED BY <1>8, <1>10, <1>11, <1>12, <1>13, <2>1, <2>2, <2>3
<1>14. CASE v.p # 0 /\ v.form = "scalar" /\ PlaceString(c.to)
  <2>1. Sound(memory', {}) /\ Kept(memory, memory', <<y, j>>)
    BY <1>3, <1>4, <1>7, <1>14, StringIsMade
  <2> QED BY <1>8, <1>10, <1>11, <1>12, <1>14, <2>1
<1>15. CASE v.p # 0 /\ v.form = "array" /\ PlaceArray(c.to, v.vt, IF e = 0 THEN 0 ELSE Len(memory[e].cells))
  <2> DEFINE n == IF e = 0 THEN 0 ELSE Len(memory[e].cells)
  <2>1. e # 0 => /\ e \in Mem /\ KindAt(memory, e) = "elements" /\ VtOf(memory, e) = v.vt
                 /\ RightIn(memory, Cell(memory, v.p, 1))
    BY <1>3, <1>6, <1>15, ArrayIs
  <2>2. n \in Nat /\ (e # 0 => Dom(memory, e) = 1..n)
    <3>1. CASE e = 0
      BY <3>1
    <3>2. CASE e # 0
      <4>1. memory[e] \in BlockType
        BY <1>3, <2>1, <3>2
      <4>2. memory[e].cells \in Seq(VariantType)
        BY <4>1 DEF BlockType
      <4> QED BY <3>2, <4>2 DEF Dom
    <3> QED BY <3>1, <3>2
  <2> HIDE DEF n
  <2>3. /\ Sound(memory', {}) /\ Kept(memory, memory', <<y, j>>)
        /\ n # 0 => /\ MallocNext \in Blocks /\ KindAt(memory, MallocNext) = "unused"
                    /\ BlockIs(memory', MallocNext, Elements(v.vt, n))
    <3>1. PlaceArray(<<y, j>>, v.vt, n)
      BY <1>4, <1>15 DEF n
    <3> QED BY <1>3, <1>4, <1>6, <1>7, <1>15, <2>2, <3>1, ArrayIsMade
  <2>4. CASE n = 0
    <3>1. more = {}
      <4>1. e # 0 => Dom(memory, e) = {}
        BY <2>2, <2>4
      <4> QED BY <4>1
    <3>2. new = {}
      BY <3>1
    <3> QED BY <1>8, <1>10, <1>11, <2>3, <3>2
  <2>5. CASE n # 0
    <3> DEFINE b == MallocNext
    <3>1. e # 0 /\ more = 1..n
      BY <1>15, <2>2, <2>5 DEF n
    <3>2. /\ b \in Blocks /\ b \in Mem /\ KindAt(memory, b) = "unused" /\ KindAt(memory', b) = "elements"
          /\ VtOf(memory', b) = v.vt /\ Dom(memory', b) = 1..n /\ \A k \in 1..n : Ptr(memory', b, k) = 0
      BY <1>6, <2>2, <2>3, <2>5, ElementsAre DEF BlockIs, Ptr, Mem
    <3> HIDE DEF b, e
    <3>3. /\ e \in Mem /\ KindAt(memory', e) = "elements" /\ VtOf(memory', e) = v.vt /\ Dom(memory', e) = 1..n
      BY <2>1, <2>2, <2>3, <3>1 DEF Kept
    <3>4. ASSUME NEW k \in 1..n PROVE CopyRight(memory', [from |-> <<e, k>>, to |-> <<b, k>>])
      <4> DEFINE d == [from |-> <<e, k>>, to |-> <<b, k>>]
      <4>1. /\ d.from = <<e, k>> /\ d.to = <<b, k>> /\ d.from[1] = e /\ d.from[2] = k /\ d.to[1] = b /\ d.to[2] = k
            /\ d.from \in Mem \X Nat /\ d.to \in Mem \X Nat
        BY <3>2, <3>3
      <4> HIDE DEF d
      <4>2. CopyRight(memory', d)
        BY <3>2, <3>3, <4>1 DEF CopyRight, Spot, Numeric
      <4> QED BY <4>2 DEF d
    <3>5. new = {[from |-> <<e, k>>, to |-> <<b, k>>] : k \in 1..n}
      BY <3>1 DEF b
    <3> HIDE DEF more, new
    <3>6. \A d \in new : CopyRight(memory', d) /\ d = [from |-> d.from, to |-> d.to] /\ d.to[1] = b
      BY <3>4, <3>5
    <3>7. \A d, f \in new : d.to = f.to => d = f
      BY <3>5
    <3>8. CopiesRight(memory', copies \ {c})
      BY <1>10, <2>3
    <3>9. \A d \in copies : d.to[1] # b
      BY <1>3, <3>2 DEF CopiesRight, CopyRight, Spot
    <3>10. CopiesRight(memory', (copies \ {c}) \cup new)
      BY <3>6, <3>7, <3>8, <3>9 DEF CopiesRight
    <3> QED BY <1>8, <1>11, <2>3, <3>10
  <2> QED BY <2>4, <2>5
<1> QED BY <1>9, <1>13, <1>14, <1>15

LEMMA ChangeKeepsOwners ==
    ASSUME OwnersInv, Change
    PROVE  OwnersInv'
<1>1. doomed = {} /\ UNCHANGED <<doomed, copies>>
  BY DEF Change
<1>2. PICK c \in change : Convert(c) /\ change' = change \ {c}
  BY DEF Change
<1>3. /\ Sound(memory, {}) /\ copies = {} /\ ChangesRight(memory, change)
      /\ memory \in [Mem -> BlockType]
  BY <1>1, <1>2 DEF OwnersInv, Sound
<1>4. change' = {}
  BY <1>2, <1>3 DEF ChangesRight
<1>5. ASSUME Sound(memory', {}) PROVE OwnersInv'
  BY <1>1, <1>3, <1>4, <1>5 DEF OwnersInv, CopiesRight, ChangesRight
<1> DEFINE x == c.to
           v == Cell(memory, c.from, 1)
           result == IF c.vt = "I4" THEN Number ELSE Empty
<1>6. /\ x \in Slots /\ c.from \in Slots /\ (c.from # x => Ptr(memory, x, 1) = 0)
      /\ (c.from = x /\ v.form = "scalar" => v.vt # c.vt)
  BY <1>3 DEF ChangesRight, ChangeRight
<1>7. /\ x \in Mem /\ KindAt(memory, x) = "slot" /\ Dom(memory, x) = {1} /\ ~Numeric(memory, x)
      /\ c.from \in Mem /\ Dom(memory, c.from) = {1} /\ KindAt(memory, c.from) = "slot"
  BY <1>3, <1>6, SlotIs
<1>8. v \in VariantType /\ v.form # "data" /\ (v.p # 0 => RightIn(memory, v))
  BY <1>3, <1>7, VariantIs DEF Fits
<1>9. At(Slot(c.from)) = v /\ \A w : Place(Slot(x), w) = SetCell(memory, x, 1, w)
  BY PlaceIs DEF Slot
<1>10. result \in {Empty, Number}
  OBVIOUS
<1> HIDE DEF x, v, result
<1>11. result \in VariantType /\ result.p = 0 /\ Fits(memory, x, result)
  BY <1>7, <1>10, EmptyFits
<1>12. v.form \in {"scalar", "array"}
  BY <1>8 DEF VariantType
<1>13. v.form = "scalar" /\ v.p # 0 => v.vt = "BSTR" /\ KindAt(memory, v.p) = "string" /\ v.p \in Mem
  BY <1>3, <1>8 DEF RightIn, KindOf, UsedIn, Mem, Sound, Shaped
<1>14. \/ memory' = memory
       \/ v.form = "scalar" /\ c.vt = "BSTR" /\ PlaceString(<<x, 1>>)
       \/ /\ v.form = "scalar" /\ c.from = x /\ v.p # 0
          /\ memory' = SetBlock(SetCell(memory, x, 1, result), v.p, Unused)
       \/ v.form = "scalar" /\ ~(c.from = x /\ v.p # 0) /\ memory' = SetCell(memory, x, 1, result)
  BY <1>2, <1>9, <1>12 DEF Convert, FreesInPlace, SetBlock, Slot, x, result
<1>15. CASE memory' = memory
  BY <1>3, <1>5, <1>15
<1>16. CASE v.form = "scalar" /\ c.vt = "BSTR" /\ PlaceString(<<x, 1>>)
  <2>1. Ptr(memory, x, 1) = 0
    BY <1>6, <1>13, <1>16 DEF Ptr, v
  <2>2. Sound(memory', {})
    BY <1>3, <1>7, <1>16, <2>1, StringIsMade
  <2> QED BY <1>5, <2>2
<1>17. CASE /\ v.form = "scalar" /\ c.from = x /\ v.p # 0
            /\ memory' = SetBlock(SetCell(memory, x, 1, result), v.p, Unused)
  <2> DEFINE h == SetCell(memory, x, 1, result)
  <2>1. Sound(h, {} \cup Pending({Cell(memory, x, 1)}))
    BY <1>3, <1>7, <1>11, TakeKeepsSound
  <2>2. {} \cup Pending({Cell(memory, x, 1)}) = {v}
    BY <1>17 DEF Pending, v
  <2>3. Dom(h, v.p) = {}
    <3>1. Dom(h, v.p) = Dom(memory, v.p)
      BY <1>3, <1>7, <1>11, <1>13, <1>17, SetCellIs
    <3>2. Dom(memory, v.p) = {}
      BY <1>3, <1>13, <1>17 DEF Sound, Shaped
    <3> QED BY <3>1, <3>2
  <2> HIDE DEF h
  <2>4. Pending(CellsOf(h, v.p)) = {}
    BY <2>3 DEF Pending, CellsOf
  <2>5. memory' = SetBlock(h, v.p, Unused)
    BY <1>17 DEF h
  <2>6. Sound(memory', ({v} \ {v}) \cup Pending(CellsOf(h, v.p)))
    BY <2>1, <2>2, <2>5, FreeKeepsSound
  <2>7. ({v} \ {v}) \cup Pending(CellsOf(h, v.p)) = {}
    BY <2>4
  <2> QED BY <1>5, <2>6, <2>7
<1>18. CASE v.form = "scalar" /\ ~(c.from = x /\ v.p # 0) /\ memory' = SetCell(memory, x, 1, result)
  <2>1. Ptr(memory, x, 1) = 0
    BY <1>6, <1>18 DEF Ptr, v
  <2>2. Sound(memory', {} \cup Pending({Cell(memory, x, 1)}))
    BY <1>3, <1>7, <1>11, <1>18, TakeKeepsSound
  <2>3. {} \cup Pending({Cell(memory, x, 1)}) = {}
    BY <2>1 DEF Pending, Ptr
  <2> QED BY <1>5, <2>2, <2>3
<1> QED BY <1>14, <1>15, <1>16, <1>17, <1>18

(* A slot that is cleared first. *)
LEMMA ClearFirstIs ==
    ASSUME Sound(memory, {}), NEW s \in Slots, ClearFirst(s)
    PROVE  /\ Sound(memory', doomed') /\ Ptr(memory', s, 1) = 0
           /\ \A v \in doomed' : v.form # "data"
<1> DEFINE v == Cell(memory, s, 1)
<1>1. s \in Mem /\ KindAt(memory, s) = "slot" /\ Dom(memory, s) = {1} /\ memory \in [Mem -> BlockType]
  BY SlotIs DEF Sound
<1>2. memory' = SetCell(memory, s, 1, Empty) /\ doomed' = Pending({v})
  BY PlaceIs DEF ClearFirst, Slot
<1>3. v.form # "data"
  BY <1>1, VariantIs DEF Fits
<1> HIDE DEF v
<1>4. Empty \in VariantType /\ Empty.p = 0 /\ Fits(memory, s, Empty)
  BY <1>1, EmptyFits
<1>5. Sound(memory', {} \cup Pending({v}))
  BY <1>1, <1>2, <1>4, TakeKeepsSound DEF v
<1>6. Cell(memory', s, 1) = Empty
  BY <1>1, <1>2, <1>4, SetCellIs
<1> QED BY <1>2, <1>3, <1>4, <1>5, <1>6 DEF Pending, Ptr

LEMMA PutKeepsOwners ==
    ASSUME Sound(memory, {}), NEW s \in Slots, Put(s)
    PROVE  Sound(memory', {})
<1>1. s \in Mem /\ KindAt(memory, s) = "slot" /\ Dom(memory, s) = {1} /\ ~Numeric(memory, s)
  BY SlotIs
<1>2. Cell(memory, s, 1) = Empty /\ Slot(s) = <<s, 1>>
  BY PlaceIs DEF Put, Slot
<1>3. Ptr(memory, s, 1) = 0
  BY <1>1, <1>2, EmptyFits DEF Ptr
<1>4. CASE memory' = Place(Slot(s), Number)
  <2>1. memory' = SetCell(memory, s, 1, Number)
    BY <1>2, <1>4, PlaceIs
  <2>2. Number \in VariantType /\ Number.p = 0 /\ Fits(memory, s, Number)
    BY <1>1, EmptyFits
  <2>3. Sound(memory', {} \cup Pending({Cell(memory, s, 1)}))
    BY <1>1, <2>1, <2>2, TakeKeepsSound
  <2>4. {} \cup Pending({Cell(memory, s, 1)}) = {}
    BY <1>3 DEF Pending, Ptr
  <2> QED BY <2>3, <2>4
<1>5. CASE PlaceString(Slot(s))
  BY <1>1, <1>2, <1>3, <1>5, StringIsMade
<1>6. ASSUME NEW vt \in ElementTypes, NEW n \in 0..LengthMax, PlaceArray(Slot(s), vt, n) PROVE Sound(memory', {})
  <2>1. vt \in VTs /\ n \in Nat
    BY VariantsAssumption DEF ElementTypes, VTs
  <2> QED BY <1>1, <1>2, <1>3, <1>6, <2>1, ArrayIsMade
<1> QED BY <1>4, <1>5, <1>6 DEF Put

LEMMA PutElementKeepsOwners ==
    ASSUME OwnersInv, NoCall, NEW s \in Slots, NEW e \in Blocks, PutElement(s, e)
    PROVE  OwnersInv'
<1>1. /\ Sound(memory, {}) /\ memory \in [Mem -> BlockType]
      /\ doomed = {} /\ copies = {} /\ change = {} /\ UNCHANGED <<doomed, change>>
  BY DEF OwnersInv, NoCall, PutElement, Sound
<1>2. ASSUME Sound(memory', {}), CopiesRight(memory', copies') PROVE OwnersInv'
  BY <1>1, <1>2 DEF OwnersInv, ChangesRight
<1>3. PICK i \in DOMAIN memory[e].cells :
         /\ At(<<e, i>>).p = 0
         /\ \/ memory[e].vt = "BSTR" /\ PlaceString(<<e, i>>) /\ UNCHANGED copies
            \/ /\ memory[e].vt = "VARIANT"
               /\ \E t \in Slots \ {s} :
                   /\ At(Slot(t)) # Empty
                   /\ copies' = {[from |-> Slot(t), to |-> <<e, i>>]}
               /\ UNCHANGED memory
  BY DEF PutElement
<1>4. /\ e \in Mem /\ i \in Dom(memory, e) /\ Ptr(memory, e, i) = 0 /\ VtOf(memory, e) = memory[e].vt
  BY <1>3, PlaceIs DEF Dom, Ptr, VtOf, Mem
<1>5. KindAt(memory, e) = "elements" /\ i \in Nat
  <2> DEFINE v == Cell(memory, s, 1)
  <2>1. v.form = "array" /\ v.p # 0 /\ Cell(memory, v.p, 1).p = e /\ e # 0
    BY PlaceIs DEF PutElement, Slot, Blocks
  <2>2. s \in Mem /\ 1 \in Dom(memory, s)
    BY <1>1, SlotIs
  <2>3. v.p # 0 => RightIn(memory, v)
    BY <1>1, <2>2, VariantIs
  <2> HIDE DEF v
  <2>5. KindAt(memory, e) = "elements"
    BY <1>1, <2>1, <2>3, ArrayIs
  <2>6. memory[e].cells \in Seq(VariantType)
    BY <1>1, <1>4 DEF BlockType
  <2> QED BY <2>5, <2>6, <1>3
<1>6. CASE memory[e].vt = "BSTR" /\ PlaceString(<<e, i>>) /\ UNCHANGED copies
  <2>1. ~Numeric(memory, e)
    BY <1>4, <1>6 DEF Numeric
  <2>2. Sound(memory', {})
    BY <1>1, <1>4, <1>5, <1>6, <2>1, StringIsMade
  <2> QED BY <1>1, <1>2, <1>6, <2>2 DEF CopiesRight
<1>7. ASSUME memory[e].vt = "VARIANT", UNCHANGED memory,
             NEW t \in Slots, copies' = {[from |-> Slot(t), to |-> <<e, i>>]}
      PROVE  OwnersInv'
  <2> DEFINE c == [from |-> Slot(t), to |-> <<e, i>>]
  <2>1. c.from = Slot(t) /\ c.to = <<e, i>> /\ c.to[1] = e /\ c.to[2] = i
    OBVIOUS
  <2> HIDE DEF c
  <2>2. Spot(memory, Slot(t))
    BY <1>1, SlotIs
  <2>3. Spot(memory, <<e, i>>) /\ ~Numeric(memory, e)
    BY <1>4, <1>5, <1>7 DEF Spot, Numeric
  <2>4. CopyRight(memory, c)
    BY <1>4, <2>1, <2>2, <2>3 DEF CopyRight
  <2>5. c = [from |-> c.from, to |-> c.to]
    BY <2>1 DEF c
  <2>6. CopiesRight(memory, {c})
    BY <2>4, <2>5 DEF CopiesRight
  <2> QED BY <1>1, <1>2, <1>7, <2>6 DEF c
<1> QED BY <1>3, <1>6, <1>7

LEMMA VariantCopyKeepsOwners ==
    ASSUME OwnersInv, NoCall, NEW d \in Slots, NEW s \in Slots, VariantCopy(d, s)
    PROVE  OwnersInv'
<1>1. /\ Sound(memory, {}) /\ change' = {} /\ ClearFirst(d)
      /\ copies' = {[from |-> Slot(s), to |-> Slot(d)]}
  BY DEF OwnersInv, NoCall, VariantCopy
<1>2. Sound(memory', doomed') /\ Ptr(memory', d, 1) = 0 /\ \A v \in doomed' : v.form # "data"
  BY <1>1, ClearFirstIs
<1> DEFINE c == [from |-> Slot(s), to |-> Slot(d)]
<1>3. c.from = Slot(s) /\ c.to = Slot(d) /\ c.from[1] = s /\ c.to[1] = d /\ c.to[2] = 1
  BY DEF Slot
<1> HIDE DEF c
<1>4. Spot(memory', Slot(s)) /\ Spot(memory', Slot(d)) /\ ~Numeric(memory', d)
  BY <1>2, SlotIs
<1>5. CopyRight(memory', c)
  BY <1>2, <1>3, <1>4 DEF CopyRight
<1>6. c = [from |-> c.from, to |-> c.to]
  BY <1>3 DEF c
<1>7. CopiesRight(memory', copies') /\ \A b \in copies' : b.from[1] \in Slots /\ b.to[1] \in Slots
  BY <1>1, <1>3, <1>5, <1>6 DEF CopiesRight, c
<1> QED BY <1>1, <1>2, <1>7 DEF OwnersInv, ChangesRight

LEMMA ChangeTypeKeepsOwners ==
    ASSUME OwnersInv, NoCall, NEW d \in Slots, NEW s \in Slots, NEW vt \in {"BSTR", "I4", "EMPTY"},
           VariantChangeType(d, s, vt)
    PROVE  OwnersInv'
<1> DEFINE v == Cell(memory, s, 1)
<1>1. Sound(memory, {}) /\ doomed = {} /\ copies = {} /\ At(Slot(s)) = v
  BY PlaceIs DEF OwnersInv, NoCall, Slot
<1>2. CASE v.form # "array" /\ v.vt = vt
  BY <1>1, <1>2, VariantCopyKeepsOwners DEF VariantChangeType
<1>3. CASE ~(v.form # "array" /\ v.vt = vt)
  <2>1. /\ change' = {[from |-> s, to |-> d, vt |-> vt]} /\ copies' = {}
        /\ IF d = s THEN UNCHANGED <<memory, doomed>> ELSE ClearFirst(d)
    BY <1>1, <1>3 DEF VariantChangeType
  <2>2. /\ Sound(memory', doomed') /\ \A u \in doomed' : u.form # "data"
        /\ d # s => Ptr(memory', d, 1) = 0
        /\ d = s => Cell(memory', d, 1) = v
    BY <1>1, <2>1, ClearFirstIs
  <2> HIDE DEF v
  <2> DEFINE c == [from |-> s, to |-> d, vt |-> vt]
  <2>3. c.from = s /\ c.to = d /\ c.vt = vt
    OBVIOUS
  <2> HIDE DEF c
  <2>4. ChangeRight(memory', c)
    BY <1>3, <2>2, <2>3 DEF ChangeRight
  <2>5. ChangesRight(memory', change')
    BY <2>1, <2>4 DEF ChangesRight, c
  <2> QED BY <2>1, <2>2, <2>5 DEF OwnersInv, CopiesRight
<1> QED BY <1>2, <1>3

LEMMA CallKeepsOwners ==
    ASSUME OwnersInv, Call
    PROVE  OwnersInv'
<1>1. NoCall /\ Sound(memory, {}) /\ doomed = {} /\ copies = {} /\ change = {}
  BY DEF Call, NoCall, OwnersInv
<1>2. ASSUME NEW s \in Slots, VariantClear(s) PROVE OwnersInv'
  <2>1. Sound(memory', doomed') /\ \A v \in doomed' : v.form # "data"
    BY <1>1, <1>2, ClearFirstIs DEF VariantClear
  <2> QED BY <1>1, <1>2, <2>1 DEF VariantClear, OwnersInv, CopiesRight, ChangesRight
<1>3. ASSUME NEW s \in Slots, Put(s) PROVE OwnersInv'
  <2>1. Sound(memory', {})
    BY <1>1, <1>3, PutKeepsOwners
  <2> QED BY <1>1, <1>3, <2>1 DEF Put, OwnersInv, CopiesRight, ChangesRight
<1>4. ASSUME NEW s \in Slots, NEW e \in Blocks, PutElement(s, e) PROVE OwnersInv'
  BY <1>1, <1>4, PutElementKeepsOwners
<1>5. ASSUME NEW d \in Slots, NEW s \in Slots, VariantCopy(d, s) PROVE OwnersInv'
  BY <1>1, <1>5, VariantCopyKeepsOwners
<1>6. ASSUME NEW d \in Slots, NEW s \in Slots, NEW vt \in {"BSTR", "I4", "EMPTY"}, VariantChangeType(d, s, vt)
      PROVE  OwnersInv'
  BY <1>1, <1>6, ChangeTypeKeepsOwners
<1> QED BY <1>2, <1>3, <1>4, <1>5, <1>6 DEF Call

(* The invariant in terms of the places that OwnedOnce speaks of. *)
LEMMA OwnersInvImplies == OwnersInv => OwnedOnce
<1> SUFFICES ASSUME OwnersInv PROVE OwnedOnce
  OBVIOUS
<1>1. /\ memory \in [Mem -> BlockType] /\ Pointing(memory) /\ OneOwner(memory) /\ ClearedRight(memory, doomed)
      /\ Accounted(memory, doomed) /\ Unringed(memory)
  BY DEF OwnersInv, Sound
<1>2. \A l : l \in Places <=> \E y \in Mem : \E j \in Dom(memory, y) : l = <<y, j>>
  BY <1>1 DEF Places, Dom
<1>3. \A y, j : At(<<y, j>>) = Cell(memory, y, j) /\ At(<<y, j>>).p = Ptr(memory, y, j)
  BY PlaceIs DEF Ptr
<1>4. Used = UsedIn(memory) /\ \A v : Right(v) <=> RightIn(memory, v)
  BY DEF Used, UsedIn, Right, RightIn, KindAt, VtOf
<1>5. ASSUME NEW l \in Places, At(l).p # 0 PROVE Right(At(l))
  <2>1. PICK y, j : y \in Mem /\ j \in Dom(memory, y) /\ l = <<y, j>>
    BY <1>2
  <2> QED BY <1>1, <1>3, <1>4, <1>5, <2>1 DEF Pointing
<1>6. ASSUME NEW k \in Places, NEW l \in Places, At(k).p = At(l).p, At(k).p # 0 PROVE k = l
  <2>1. PICK y, i : y \in Mem /\ i \in Dom(memory, y) /\ k = <<y, i>>
    BY <1>2
  <2>2. PICK z, j : z \in Mem /\ j \in Dom(memory, z) /\ l = <<z, j>>
    BY <1>2
  <2>3. Ptr(memory, y, i) = Ptr(memory, z, j) /\ Ptr(memory, y, i) # 0
    BY <1>3, <1>6, <2>1, <2>2
  <2>4. y = z /\ i = j
    BY <1>1, <2>1, <2>2, <2>3 DEF OneOwner
  <2> QED BY <2>1, <2>2, <2>4
<1>7. ASSUME NEW v \in doomed PROVE Right(v) /\ \A l \in Places : At(l).p # v.p
  <2>1. RightIn(memory, v) /\ \A y \in Mem : \A j \in Dom(memory, y) : Ptr(memory, y, j) # v.p
    BY <1>1 DEF ClearedRight
  <2> QED BY <1>2, <1>3, <1>4, <2>1
<1>8. ASSUME NEW b \in Used PROVE (\E l \in Places : At(l).p = b) \/ \E v \in doomed : v.p = b
  <2>1. (\E y \in Mem : \E j \in Dom(memory, y) : Ptr(memory, y, j) = b) \/ \E v \in doomed : v.p = b
    BY <1>1, <1>4 DEF Accounted
  <2> QED BY <1>2, <1>3, <2>1
<1>9. ASSUME NEW B \in SUBSET Used, B # {} PROVE \E b \in B : \A l \in Places : At(l).p = b => l[1] \notin B
  <2>1. PICK b \in B : \A y \in B : \A j \in Dom(memory, y) : Ptr(memory, y, j) # b
    BY <1>1, <1>4, <1>9 DEF Unringed
  <2>2. ASSUME NEW l \in Places, At(l).p = b PROVE l[1] \notin B
    <3>1. PICK y, j : y \in Mem /\ j \in Dom(memory, y) /\ l = <<y, j>>
      BY <1>2
    <3> QED BY <1>3, <2>1, <2>2, <3>1
  <2> QED BY <2>2
<1> QED BY <1>5, <1>6, <1>7, <1>8, <1>9 DEF OwnedOnce

(* VariantClear, VariantCopy, VariantChangeType and SafeArrayCreateVector never leave
   a block with two owners or with none, nor use one after it was freed, whatever
   their VARIANTs and the arrays in them hold: for any number of VARIANTs, blocks,
   elements and calls. *)
THEOREM MemoryIsOwnedOnce == VariantsSpec => []OwnedOnce
<1>1. VariantsInit => OwnersInv
  BY InitIsSound
<1>2. OwnersInv /\ [VariantsNext]_variantVars => OwnersInv'
  <2>1. OwnersInv /\ UNCHANGED variantVars => OwnersInv'
    BY DEF OwnersInv, variantVars
  <2>2. OwnersInv /\ VariantsNext => OwnersInv'
    BY CallKeepsOwners, FreeKeepsOwners, CopyKeepsOwners, ChangeKeepsOwners DEF VariantsNext
  <2> QED BY <2>1, <2>2
<1>3. OwnersInv => OwnedOnce
  BY OwnersInvImplies
<1> QED BY <1>1, <1>2, <1>3, PTL DEF VariantsSpec

-----------------------------------------------------------------------------
(* WireDates. *)

(* Of a division, the quotient is known by what it leaves. *)
LEMMA Quotient ==
    ASSUME NEW a \in Nat, NEW b \in Nat \ {0}
    PROVE  /\ a \div b \in Nat
           /\ b * (a \div b) <= a /\ a < b * (a \div b) + b
  OBVIOUS

(* A common factor is cancelled. *)
LEMMA Bigger ==
    ASSUME NEW s \in Nat \ {0}, NEW m \in Int, NEW n \in Int, s * m < s * n
    PROVE  m < n
  OBVIOUS

(* A date arrives as it was sent or one second earlier, and never later:
   bcap_vntdate2bytary rounds by half a step of the double at most, and
   bcap_bytary2vntdate cuts off to whole seconds. *)
THEOREM DatesArrive ==
    ASSUME NEW t \in Nat
    PROVE  Bytary2VntDate(VntDate2Bytary(t)) \in {t - 1, t}
<1>1. /\ Day \in Nat \ {0} /\ Epoch \in Nat \ {0} /\ Steps \in Nat \ {0}
      /\ Day < 2 * Steps
  BY DateAssumption
<1>2. CASE t = 0
  BY <1>2 DEF VntDate2Bytary, Bytary2VntDate
<1>3. CASE t > 0
  <2>1. PICK a : a = t * Steps /\ a \in Nat
    BY <1>1
  <2>2. 2 * t * Steps = 2 * a
    BY <1>1, <2>1
  <2>3. PICK q : q = (2 * a + Day) \div (2 * Day)
    OBVIOUS
  <2>4. q \in Nat /\ (2 * Day) * q <= 2 * a + Day /\ 2 * a + Day < (2 * Day) * q + 2 * Day
    <3>1. 2 * a + Day \in Nat /\ 2 * Day \in Nat \ {0}
      BY <1>1, <2>1
    <3>2. \A n \in Nat, m \in Nat \ {0} :
             /\ n \div m \in Nat
             /\ m * (n \div m) <= n /\ n < m * (n \div m) + m
      BY Quotient
    <3> QED BY <2>3, <3>1, <3>2, Zenon
  <2>5. PICK b : b = q * Day /\ b \in Nat
    BY <1>1, <2>4
  <2>6. (2 * Day) * q = 2 * b
    BY <1>1, <2>4, <2>5
  <2>7. PICK r : r = b \div Steps
    OBVIOUS
  <2>8. r \in Nat /\ Steps * r <= b /\ b < Steps * r + Steps
    BY <1>1, <2>5, <2>7, Quotient
  <2>9. b < a + Steps /\ a < b + Steps
    BY <1>1, <2>1, <2>4, <2>5, <2>6
  <2>10. Steps * r < Steps * (t + 1) /\ Steps * t < Steps * (r + 2)
    <3>1. Steps * (t + 1) = a + Steps /\ Steps * t = a /\ Steps * (r + 2) = Steps * r + 2 * Steps
      BY <1>1, <2>1, <2>8
    <3>2. Steps * r \in Int
      BY <1>1, <2>8
    <3> QED BY <1>1, <2>1, <2>5, <2>8, <2>9, <3>1, <3>2
  <2>11. r < t + 1 /\ t < r + 2
    BY <1>1, <2>8, <2>10, Bigger
  <2>12. r \in {t - 1, t}
    BY <2>8, <2>11
  <2>13. Bytary2VntDate(VntDate2Bytary(t)) = r
    <3>1. PICK e : e = Epoch * Steps /\ e \in Nat /\ e > 0
      BY <1>1
    <3>2. VntDate2Bytary(t) = e + q
      BY <1>3, <2>2, <2>3, <3>1 DEF VntDate2Bytary
    <3>3. e + q > 0 /\ (e + q) - e = q
      BY <2>4, <3>1
    <3>4. Bytary2VntDate(e + q) = (((e + q) - e) * Day) \div Steps
      <4> DEFINE d == e + q
      <4>1. d > 0
        BY <3>3
      <4> HIDE DEF d
      <4>2. Bytary2VntDate(d) = ((d - e) * Day) \div Steps
        BY <3>1, <4>1, Zenon DEF Bytary2VntDate
      <4> QED BY <4>2, Zenon DEF d
    <3>5. Bytary2VntDate(e + q) = b \div Steps
      BY <2>5, <3>3, <3>4, Zenon
    <3> QED BY <2>7, <3>2, <3>5
  <2> QED BY <2>12, <2>13
<1> QED BY <1>2, <1>3
=============================================================================
