----------------------------- MODULE ClientTable -----------------------------
(***************************************************************************)
(* The table of connections of a b-CAP client, m_conn_param of             *)
(* bcap_client.c, and what a connection takes from the system: opening one *)
(* parses the connection string (dn_device.c), initialises a mutex, opens  *)
(* the device (dn_tcp.c, dn_udp.c, dn_com.c, dn_socket.c) and sets its     *)
(* timeout and its retries; every step may fail and must then give back    *)
(* what the steps before it took.                                          *)
(*                                                                         *)
(* A field of a connection string is "good", "bad" or "big" (beyond its    *)
(* range).  Strings are [scheme, fields].  On Linux initialize_mutex,      *)
(* close and the keeping of the connection timeout do not fail.            *)
(***************************************************************************)
EXTENDS Integers, Sequences, FiniteSets

CONSTANTS
    Threads,        \* threads of the application
    BCAP_CONN_MAX,
    Connects,       \* connection strings
    Retries,        \* retries that are asked for
    RETRY_MIN, RETRY_MAX,
    Serialised,     \* the application opens and closes one at a time
    StateFails      \* com_set_state of a port that was opened may fail

ASSUME ClientTableAssumption ==
    /\ BCAP_CONN_MAX \in Nat \ {0}
    /\ RETRY_MIN = 1 /\ RETRY_MAX \in Nat \ {0} /\ Retries \subseteq Int
    /\ Serialised \in BOOLEAN /\ StateFails \in BOOLEAN

VARIABLES
    table,      \* m_conn_param: index -> [sock, type, arg, mutex, retry]
    opened,     \* descriptors that are open
    counter,    \* socket_counter
    blocks,      \* address blocks that are allocated
    at,         \* thread -> [pc, index, to, retry]
    connected   \* handles that bCap_Open_Client returned

clientVars == <<table, opened, counter, blocks, at, connected>>

Indexes == 1..BCAP_CONN_MAX
Reset == [sock |-> 0, type |-> "none", arg |-> 0, mutex |-> FALSE, retry |-> 0]
Nowhere == [pc |-> "idle", index |-> 0, to |-> [scheme |-> "none", fields |-> <<>>], retry |-> 0]
TCP == "tcp"
UDP == "udp"
COM == "com"

(* A descriptor or a block: the lowest one that is free. *)
Lowest(used, base) ==
    CHOOSE n \in base..(base + Cardinality(used)) :
        n \notin used /\ \A m \in base..(n - 1) : m \in used
NewSock == Lowest(opened, 3)
NewArg == Lowest(blocks, 1)

find_open_address == {i \in Indexes : table[i].sock = 0 /\ \A j \in 1..(i - 1) : table[j].sock # 0}

(* parse_conn_param_ether and parse_conn_param_serial: the fields are read from
   the last to the first, the ports and numbers may be too big. *)
Verdict(fields, ranged) ==
    LET wrong == {n \in DOMAIN fields : fields[n] # "good"} IN
    IF wrong = {} THEN "S_OK"
    ELSE LET last == CHOOSE n \in wrong : \A k \in wrong : k <= n
         IN IF fields[last] = "big" /\ last \in ranged THEN "DISP_E_OVERFLOW" ELSE "E_INVALIDARG"
parse_conn_param_ether(fields) == IF Len(fields) > 4 THEN "E_INVALIDARG" ELSE Verdict(fields, {2, 4})
parse_conn_param_serial(fields) ==
    IF Len(fields) > 6 \/ Len(fields) \in {3, 4} THEN "E_INVALIDARG" ELSE Verdict(fields, {1, 4, 6})
parse(c) ==
    CASE c.scheme \in {TCP, UDP} -> parse_conn_param_ether(c.fields)
      [] c.scheme = COM -> parse_conn_param_serial(c.fields)
      [] OTHER -> "E_INVALIDARG"

-----------------------------------------------------------------------------
Go(t, pc) == at' = [at EXCEPT ![t].pc = pc]
Leave(t) == at' = [at EXCEPT ![t] = Nowhere]
Mine(t, pc) == at[t].pc = pc
Entry(t) == table[at[t].index]
Set(t, e) == table' = [table EXCEPT ![at[t].index] = e]
MayEnter == Serialised => \A t \in Threads : at[t].pc = "idle"

OpenFind(t) ==
    /\ Mine(t, "idle") /\ MayEnter
    /\ \E i \in find_open_address, c \in Connects, r \in Retries :
        at' = [at EXCEPT ![t] = [pc |-> "parse", index |-> i, to |-> c, retry |-> r]]
    /\ UNCHANGED <<table, opened, counter, blocks, connected>>

(* What the failing steps do: the address is freed, the entry cleared. *)
FreeArgNot(t) == UNCHANGED blocks        \* mutant: the address stays
FreeArg(t) == blocks' = blocks \ {Entry(t).arg}
AbandonOpen(t) == FreeArg(t) /\ Set(t, Reset) /\ Leave(t)

(* The type is entered and the string parsed; a UDP connection takes a block for
   its address, whether the string was good or not. *)
OpenParse(t) ==
    LET c == at[t].to
        typed == [Entry(t) EXCEPT !.type = c.scheme]
    IN /\ Mine(t, "parse")
       /\ \/ c.scheme = UDP /\ blocks' = blocks \cup {NewArg} /\ Set(t, [typed EXCEPT !.arg = NewArg])
             /\ Go(t, IF parse(c) = "S_OK" THEN "mutex" ELSE "refused")
          \/ c.scheme = UDP /\ Set(t, typed) /\ Go(t, "refused") /\ UNCHANGED blocks     \* E_OUTOFMEMORY
          \/ c.scheme # UDP /\ Set(t, typed)
             /\ Go(t, IF parse(c) = "S_OK" THEN "mutex" ELSE "refused") /\ UNCHANGED blocks
    /\ UNCHANGED <<opened, counter, connected>>
OpenRefused(t) == Mine(t, "refused") /\ AbandonOpen(t) /\ UNCHANGED <<opened, counter, connected>>

OpenMutex(t) ==
    /\ Mine(t, "mutex") /\ Set(t, [Entry(t) EXCEPT !.mutex = TRUE]) /\ Go(t, "device")
    /\ UNCHANGED <<opened, counter, blocks, connected>>

(* dn_open: a socket that was created and cannot be connected or bound is closed
   again, and so *sock is 0; a serial port whose state cannot be set is not. *)
Network(t) == Entry(t).type \in {TCP, UDP}
DeviceOpens(t) ==
    /\ opened' = opened \cup {NewSock} /\ counter' = IF Network(t) THEN counter + 1 ELSE counter
    /\ Set(t, [Entry(t) EXCEPT !.sock = NewSock]) /\ Go(t, "timeout")
    /\ UNCHANGED blocks
LeftOpen(t) == IF StateFails /\ Entry(t).type = COM THEN BOOLEAN ELSE {FALSE}
DeviceFails(t) ==
    /\ \E left \in LeftOpen(t) : opened' = IF left THEN opened \cup {NewSock} ELSE opened
    /\ UNCHANGED counter /\ AbandonOpen(t)
OpenDevice(t) ==
    /\ Mine(t, "device") /\ UNCHANGED connected
    /\ DeviceOpens(t) \/ DeviceFails(t)

(* bCap_SetTimeout, bCap_SetRetry. *)
OpenTimeout(t) ==
    /\ Mine(t, "timeout") /\ \E ok \in BOOLEAN : Go(t, IF ok THEN "retry" ELSE "close")
    /\ UNCHANGED <<table, opened, counter, blocks, connected>>
Clamped(r) == IF r < RETRY_MIN THEN RETRY_MIN ELSE IF RETRY_MAX < r THEN RETRY_MAX ELSE r
RetryOf(type, r) == IF type = TCP THEN 1 ELSE Clamped(r)
OpenRetry(t) ==
    /\ Mine(t, "retry")
    /\ Set(t, [Entry(t) EXCEPT !.retry = RetryOf(Entry(t).type, at[t].retry)])
    /\ connected' = connected \cup {at[t].index} /\ Leave(t)
    /\ UNCHANGED <<opened, counter, blocks>>
SetRetry(t) ==
    /\ Mine(t, "idle") /\ MayEnter
    /\ \E i \in connected, r \in Retries : table' = [table EXCEPT ![i].retry = RetryOf(table[i].type, r)]
    /\ UNCHANGED <<opened, counter, blocks, at, connected>>

(* bCap_Close_Client, which closes what it was given by bCap_Open_Client or what
   that function could not finish: the mutex, the device, the address, the entry. *)
CloseFind(t) ==
    /\ Mine(t, "idle") /\ MayEnter
    /\ \E i \in connected : connected' = connected \ {i} /\ at' = [at EXCEPT ![t].pc = "close", ![t].index = i]
    /\ UNCHANGED <<table, opened, counter, blocks>>
CloseMutex(t) ==
    /\ Mine(t, "close") /\ Set(t, [Entry(t) EXCEPT !.mutex = FALSE]) /\ Go(t, "hang up")
    /\ UNCHANGED <<opened, counter, blocks, connected>>
CloseDevice(t) ==
    /\ Mine(t, "hang up") /\ opened' = opened \ {Entry(t).sock}
    /\ counter' = IF Network(t) THEN counter - 1 ELSE counter
    /\ Set(t, [Entry(t) EXCEPT !.sock = 0]) /\ Go(t, "free")
    /\ UNCHANGED <<blocks, connected>>
CloseFree(t) ==
    /\ Mine(t, "free") /\ FreeArg(t) /\ Set(t, [Entry(t) EXCEPT !.arg = 0]) /\ Go(t, "reset")
    /\ UNCHANGED <<opened, counter, connected>>
CloseReset(t) ==
    /\ Mine(t, "reset") /\ Set(t, Reset) /\ Leave(t)
    /\ UNCHANGED <<opened, counter, blocks, connected>>

ClientInit ==
    /\ table = [i \in Indexes |-> Reset] /\ opened = {} /\ counter = 0 /\ blocks = {}
    /\ at = [t \in Threads |-> Nowhere] /\ connected = {}
Opening(t) == OpenFind(t) \/ OpenParse(t) \/ OpenRefused(t) \/ OpenMutex(t) \/ OpenDevice(t)
              \/ OpenTimeout(t) \/ OpenRetry(t)
Closing(t) == CloseFind(t) \/ CloseMutex(t) \/ CloseDevice(t) \/ CloseFree(t) \/ CloseReset(t)
ClientNext == \E t \in Threads : Opening(t) \/ Closing(t) \/ SetRetry(t)
ClientSpec == ClientInit /\ [][ClientNext]_clientVars

-----------------------------------------------------------------------------
(* Properties. *)

(* A handle that was returned and not closed stands for a whole connection of its
   own, whatever other openings failed and other connections were closed. *)
HandlesWhole ==
    \A i \in connected :
        /\ table[i].sock \in opened /\ table[i].mutex
        /\ table[i].type = UDP <=> table[i].arg # 0
        /\ table[i].retry \in RETRY_MIN..RETRY_MAX
        /\ \A j \in connected \ {i} : table[j].sock # table[i].sock

(* When nobody is opening or closing, the handles in use account for every
   descriptor, address, mutex and entry: no step of bCap_Open_Client that fails
   and no bCap_Close_Client leaves anything behind. *)
ResourcesAccounted ==
    /\ HandlesWhole
    /\ (\A t \in Threads : at[t].pc = "idle") =>
        /\ opened = {table[i].sock : i \in connected}
        /\ blocks = {table[i].arg : i \in connected} \ {0}
        /\ counter = Cardinality({i \in connected : table[i].type # COM})
        /\ \A i \in Indexes \ connected : table[i] = Reset

=============================================================================
