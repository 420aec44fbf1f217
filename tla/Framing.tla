------------------------------- MODULE Framing -------------------------------
(***************************************************************************)
(* How packets are found in a stream of bytes: bcap_recv over TCP and over *)
(* a serial line (bcap_common.c), and rtk_recv over a serial line          *)
(* (dn_robotalk.c).  One call of dn_recv gives as many bytes as have come, *)
(* at least one.  A serial line may spoil what is sent on it.              *)
(*                                                                         *)
(* A byte is a number; a field that the code reads as a whole is one byte: *)
(* header, length, one byte or more of contents, check sum, terminator.    *)
(* The check sum is a plain sum, which is what rtk_calc_crc computes and   *)
(* which stands for the CRC of b-CAP.                                      *)
(***************************************************************************)
EXTENDS Integers, Sequences, SequencesExt

CONSTANTS
    Lines,          \* protocols: "tcp", "com" for b-CAP, "rtk" for ROBOTalk
    Contents,       \* what the packets carry, in the order they are sent
    Noise,          \* bytes that may precede a packet on a serial line
    SpoilMax,       \* bound: how often the line spoils a packet
    BufferMax,      \* UDP_MAX_PACKET, 503: bytes read at once
    PacketMax,      \* longest packet of a serial line
    NakMax          \* retry_nak: check sum errors answered by a NAK

Header == 1
Terminator == 4
Garbled == 9

ASSUME FramingAssumption ==
    /\ Lines \subseteq {"tcp", "com", "rtk"}
    /\ Contents \in Seq(Seq(Nat)) /\ Noise \subseteq Seq(Nat)
    /\ {SpoilMax, BufferMax, PacketMax, NakMax} \subseteq Nat /\ BufferMax >= 2

VARIABLES
    line,       \* the connection's protocol
    sent,       \* packets the sender has begun with
    wire,       \* bytes that are sent and not yet read
    spoils,     \* how often the line has spoilt a packet
    pc,         \* "scan" for a header, in the "body" of a packet, or "ended"
    buf,        \* buf_tmp
    body,       \* what buf_recv or packet_recv holds of the packet
    need,       \* len_recv
    naks,       \* retry_cnt of rtk_recv
    hollow,     \* history: rtk_recv has returned S_OK without a packet
    received    \* history: the packets that were accepted

frameVars == <<line, sent, wire, spoils, pc, buf, body, need, naks, hollow, received>>

-----------------------------------------------------------------------------
(* Packets. *)

SumOf(s) == FoldLeft(LAMBDA a, b : a + b, 0, s)

(* bcap_packet2bytary, with the check sum that bcap_send adds for a serial line;
   rtk_param2packet and rtk_send, where the length is that of the contents. *)
Frame(l, contents) ==
    LET n == Len(contents) IN
    CASE l = "tcp" -> <<Header, n + 3>> \o contents \o <<Terminator>>
      [] l = "com" -> <<Header, n + 4>> \o contents \o <<SumOf(contents) + n + 4, Terminator>>
      [] l = "rtk" -> <<Header, n>> \o contents \o <<SumOf(contents) + n + Header>>

(* The length that a header announces, and which are refused. *)
Announced(b) == IF line = "rtk" THEN b[2] + 3 ELSE b[2]
Plausible(n) == CASE line = "tcp" -> n >= 3
                  [] line = "com" -> n \in 4..PacketMax
                  [] line = "rtk" -> n <= PacketMax

(* bcap_bytary2packet refuses what does not end with the terminator. *)
EndsWell(b) == line = "rtk" \/ b[Len(b)] = Terminator
SumsAlways(b) == TRUE                    \* mutant: the check sum is not looked at
SumsUp(b) ==
    CASE line = "tcp" -> TRUE
      [] line = "com" -> b[Len(b) - 1] = SumOf(SubSeq(b, 2, Len(b) - 2))
      [] line = "rtk" -> b[Len(b)] = SumOf(Front(b))
ContentsOf(b) == IF line = "com" THEN SubSeq(b, 3, Len(b) - 2) ELSE SubSeq(b, 3, Len(b) - 1)

-----------------------------------------------------------------------------
(* The sender.  Over TCP it may send one packet after the other; on a serial line
   it sends the next when the last one was received, or the same again when the
   receiver has given up, and sometimes too early; that a packet which has come may
   be sent again is the matter of BcapExchange. *)

Lost(f) == {RemoveAt(f, i) : i \in DOMAIN f} \cup {[f EXCEPT ![i] = Garbled] : i \in DOMAIN f}
          \cup {n \o f : n \in Noise}
Whole == pc = "body" /\ Len(body) = need
Idle == pc = "scan" /\ buf = <<>> /\ naks = 0

SendTcp ==
    /\ line = "tcp" /\ sent < Len(Contents)
    /\ sent' = sent + 1
    /\ wire' = wire \o Frame(line, Contents[sent + 1])
    /\ UNCHANGED spoils
SendSerial ==
    /\ line # "tcp" /\ wire = <<>> /\ Len(received) < Len(Contents)
    /\ sent' = Len(received) + 1
    /\ LET f == Frame(line, Contents[Len(received) + 1]) IN
        \/ Idle /\ wire' = f /\ UNCHANGED spoils
        \/ spoils < SpoilMax /\ ~Whole /\ wire' \in Lost(f) \cup {f} /\ spoils' = spoils + 1
SendPacket ==
    /\ SendTcp \/ SendSerial
    /\ UNCHANGED <<line, pc, buf, body, need, naks, hollow, received>>

-----------------------------------------------------------------------------
(* The receiver. *)

(* Bytes before the length is looked at: header and length, or the shortest packet
   of ROBOTalk. *)
Enough == IF line = "rtk" THEN 3 ELSE 2
(* memchr: what a buffer holds from its first header on. *)
FromHeader(b) ==
    LET at == {i \in DOMAIN b : b[i] = Header} IN
    IF at = {} THEN <<>> ELSE SubSeq(b, CHOOSE i \in at : \A j \in at : i <= j, Len(b))
Rest(n) == SubSeq(wire, n + 1, Len(wire))
AtMost(m, n) == 1..(IF m < n THEN m ELSE n)

(* TCP: what comes is looked at and read only up to the header, then the announced
   length exactly; when that cannot be right, the header alone. *)
PeekReadAll(seen, n) == Len(seen)       \* mutant: as on a serial line, the rest is read too
PeekRead(seen, n) == IF n < Len(seen) THEN n ELSE Len(seen)
ScanTcp(k) ==
    LET seen == FromHeader(SubSeq(wire, 1, k))
        junk == k - Len(seen)
    IN IF Len(seen) < Enough
       THEN /\ wire' = Rest(junk)
            /\ UNCHANGED <<pc, body, need>>
       ELSE IF ~Plausible(Announced(seen))
       THEN /\ wire' = Rest(junk + 1)
            /\ UNCHANGED <<pc, body, need>>
       ELSE LET n == Announced(seen) IN
            /\ body' = SubSeq(seen, 1, IF n < Len(seen) THEN n ELSE Len(seen))
            /\ wire' = Rest(junk + PeekRead(seen, n))
            /\ need' = n
            /\ pc' = "body"

(* A serial line: what comes is read into buf_tmp; an announced length that cannot
   be right, or a packet that is complete, drops all else that was read.  When the
   last try of rtk_recv meets such a length it returns S_OK without a packet. *)
GiveUp == naks = NakMax
ScanSerial(k) ==
    LET b == FromHeader(buf \o SubSeq(wire, 1, k))
        n == Announced(b)
    IN /\ wire' = Rest(k)
       /\ IF Len(b) < Enough
          THEN buf' = b /\ UNCHANGED <<pc, body, need, naks, hollow>>
          ELSE IF Plausible(n)
          THEN /\ body' = SubSeq(b, 1, IF n < Len(b) THEN n ELSE Len(b))
               /\ need' = n /\ pc' = "body" /\ buf' = <<>>
               /\ UNCHANGED <<naks, hollow>>
          ELSE /\ buf' = <<>>
               /\ UNCHANGED <<pc, body, need>>
               /\ naks' = IF line = "rtk" /\ ~GiveUp THEN naks + 1 ELSE 0
               /\ hollow' = (hollow \/ (line = "rtk" /\ GiveUp))

Scan ==
    /\ pc = "scan"
    /\ \E k \in AtMost(BufferMax - Len(buf), Len(wire)) :
        IF line = "tcp" THEN ScanTcp(k) /\ UNCHANGED <<buf, naks, hollow>> ELSE ScanSerial(k)
    /\ UNCHANGED <<line, sent, spoils, received>>

(* The rest of the packet, by exact reads. *)
ReadBody ==
    /\ pc = "body" /\ Len(body) < need
    /\ \E k \in AtMost(need - Len(body), Len(wire)) :
        /\ body' = body \o SubSeq(wire, 1, k)
        /\ wire' = Rest(k)
    /\ UNCHANGED <<line, sent, spoils, pc, buf, need, naks, hollow, received>>

(* The packet is complete.  What cannot be decoded is an error of bcap_recv, on
   which a client tries again; a wrong check sum makes bcap_recv wait for the next
   packet, rtk_recv send a NAK and do so a number of times. *)
Complete ==
    /\ Whole
    /\ pc' = "scan"
    /\ IF EndsWell(body) /\ SumsUp(body)
       THEN received' = Append(received, ContentsOf(body)) /\ naks' = 0
       ELSE /\ UNCHANGED received
            /\ naks' = IF line = "rtk" /\ ~GiveUp THEN naks + 1 ELSE 0
    /\ UNCHANGED <<line, sent, wire, spoils, buf, body, need, hollow>>

(* Nothing comes in time: what was read is forgotten.  Over TCP a timeout in the
   middle of a packet is left out: the sender's bytes come in time. *)
Timeout ==
    /\ wire = <<>> /\ ~Whole /\ ~Idle
    /\ line # "tcp"
    /\ pc' = "scan" /\ buf' = <<>> /\ naks' = 0
    /\ UNCHANGED <<line, sent, wire, spoils, body, need, hollow, received>>

FramingInit ==
    /\ line \in Lines
    /\ sent = 0 /\ wire = <<>> /\ spoils = 0
    /\ pc = "scan" /\ buf = <<>> /\ body = <<>> /\ need = 0 /\ naks = 0
    /\ hollow = FALSE /\ received = <<>>

ReceiverMoves == Scan \/ ReadBody \/ Complete \/ Timeout
FramingNext == SendPacket \/ ReceiverMoves
FramingSpec == FramingInit /\ [][FramingNext]_frameVars
(* The receiver runs; the sender sends until everything was received. *)
FramingFairSpec == FramingSpec /\ WF_frameVars(ReceiverMoves) /\ WF_frameVars(SendPacket)

-----------------------------------------------------------------------------
(* Properties. *)

(* However the bytes are cut, whatever precedes a packet, and whatever is lost of
   it: what is accepted are the packets that were sent, each once, in their
   order. *)
PacketsGenuine == IsPrefix(received, SubSeq(Contents, 1, sent))

(* And all of them are, in the end, when the line spoils only so many. *)
PacketsArrive == <>(received = Contents)

=============================================================================
