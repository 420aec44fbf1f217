-------------------------------- MODULE Wire --------------------------------
(***************************************************************************)
(* How bcap_common.c turns a packet into bytes and back.  The size of the  *)
(* buffer, the bytes put into it and the bytes taken out of it come from   *)
(* three passes over the arguments, each with its own table of widths; dates *)
(* are converted as WireDates says.                                        *)
(*                                                                         *)
(* A field of w bytes is its value and w - 1 fillers, so that a field that *)
(* is read at the wrong place or with the wrong width is noticed.  A       *)
(* VARIANT is [vt, arr, data]: its type, whether it is an array, and its   *)
(* elements; a scalar has one element, VT_EMPTY and VT_NULL too.  A string *)
(* is a sequence of characters.                                            *)
(***************************************************************************)
EXTENDS Integers, Sequences, FiniteSets, SequencesExt, WireDates

CONSTANTS
    Arguments,      \* lists of arguments of the packets that are sent
    Filler, BCAP_HEADER, BCAP_TERMINATOR, Garbage,      \* bytes that no value has
    NotYet, Refused                                     \* no packet, or an error

VARIABLES
    args,       \* the arguments of the packet
    packet,     \* the bytes of the packet, or what became of them
    taken       \* the arguments as they were taken out of it

wireVars == <<args, packet, taken>>

Field(w, x) == <<x>> \o [i \in 1..w - 1 |-> Filler]
Cells(fields) == FoldLeft(LAMBDA a, b : a \o b, <<>>, fields)
SumUp(sizes) == FoldLeft(LAMBDA a, b : a + b, 0, sizes)

-----------------------------------------------------------------------------
(* bcap_calc_size_variant and bcap_calc_size_packet *)

CalcWidth(v) ==
    CASE v.vt = "UI1" -> 1
      [] v.vt \in {"I2", "UI2", "BOOL"} -> 2
      [] v.vt \in {"I4", "UI4", "R4"} \/ (v.vt = "ERROR" /\ ~v.arr) -> 4
      [] v.vt \in {"I8", "UI8", "R8", "CY", "DATE"} -> 8
      [] OTHER -> 0
RECURSIVE CalcSizeVariant(_)
CalcSizeVariant(v) ==
    LET Size(e) == IF v.vt = "BSTR" THEN 4 + 2 * Len(e)
                   ELSE IF v.vt = "VARIANT" /\ v.arr THEN 6 + CalcSizeVariant(e)
                   ELSE CalcWidth(v)
    IN SumUp([i \in DOMAIN v.data |-> Size(v.data[i])])
CalcSizePacket(list) == 16 + SumUp([i \in DOMAIN list |-> 10 + CalcSizeVariant(list[i])])

-----------------------------------------------------------------------------
(* bcap_vnt2bytary, bcap_vntary2bytary and bcap_packet2bytary *)

OutWidth(v) ==
    CASE v.vt = "UI1" -> 1
      [] v.vt \in {"I2", "UI2", "BOOL"} -> 2
      [] v.vt \in {"I4", "UI4", "R4"} \/ (v.vt = "ERROR" /\ ~v.arr) -> 4
      [] v.vt \in {"I8", "UI8", "R8", "CY"} -> 8
      [] OTHER -> 0
RECURSIVE Vnt2Bytary(_)
LengthInCharacters(e) == Len(e)     \* mutant: the length is written in characters
LengthField(e) == 2 * Len(e)
OutElement(v, e) ==
    CASE v.vt = "DATE" -> Field(8, VntDate2Bytary(e))
      [] v.vt = "BSTR" -> Field(4, LengthField(e)) \o Cells([i \in DOMAIN e |-> Field(2, e[i])])
      [] v.vt = "VARIANT" /\ v.arr -> Vnt2Bytary(e)
      [] OutWidth(v) > 0 -> Field(OutWidth(v), e)
      [] OTHER -> <<>>
(* Type and number, which precede the elements. *)
Vnt2Bytary(v) ==
    Field(2, [vt |-> v.vt, arr |-> v.arr]) \o Field(4, Len(v.data))
    \o Cells([i \in DOMAIN v.data |-> OutElement(v, v.data[i])])
(* An argument of the packet has the length of its data before it. *)
Argument(v) == Field(4, Len(Vnt2Bytary(v))) \o Vnt2Bytary(v)

(* A buffer of the calculated size is filled up to the terminator; what does not
   fit is refused, and what is not filled is zero. *)
Zeros(n) == [i \in 1..n |-> 0]
Packet2Bytary(list) ==
    LET size == CalcSizePacket(list)
        out == Field(1, BCAP_HEADER) \o Field(4, size) \o Field(2, Garbage) \o Field(2, Garbage)
               \o Field(4, Garbage) \o Field(2, Len(list))
               \o Cells([i \in DOMAIN list |-> Argument(list[i])])
    IN IF Len(out) > size - 1 THEN Refused
       ELSE out \o Zeros(size - 1 - Len(out)) \o <<BCAP_TERMINATOR>>

-----------------------------------------------------------------------------
(* bcap_bytary2vnt, bcap_bytary2vntary and bcap_bytary2packet: a cursor is
   [ok, at, out], where it stands in the bytes b and what it has read. *)

Cursor(at) == [ok |-> TRUE, at |-> at, out |-> <<>>]
Fail(c) == [c EXCEPT !.ok = FALSE]
(* memcpy_le of w bytes, when they are there; the terminator does not count.
   Bytes that are no field of this width are garbage, at which the model stops. *)
TakeField(b, c, w) ==
    IF ~c.ok \/ c.at + w > Len(b) - 1 \/ SubSeq(b, c.at + 1, c.at + w) # Field(w, b[c.at + 1])
    THEN Fail(c)
    ELSE [c EXCEPT !.at = @ + w, !.out = Append(@, b[c.at + 1])]
TakeFields(b, c, w, n) == FoldLeft(LAMBDA a, i : TakeField(b, a, w), c, [i \in 1..n |-> i])
LastTaken(c) == c.out[Len(c.out)]
TakeDate(b, c) ==
    LET d == TakeField(b, c, 8)
    IN IF d.ok THEN [d EXCEPT !.out[Len(d.out)] = Bytary2VntDate(@)] ELSE d
(* What inner has read becomes one element of outer. *)
Nest(outer, inner, x) ==
    [ok |-> outer.ok /\ inner.ok, at |-> inner.at, out |-> Append(outer.out, x)]

InWidth(vt, arr) ==
    CASE vt = "UI1" -> 1
      [] vt \in {"I2", "UI2", "BOOL"} -> 2
      [] vt \in {"I4", "UI4", "R4"} \/ (vt = "ERROR" /\ ~arr) -> 4
      [] vt \in {"I8", "UI8", "R8", "CY"} -> 8
      [] OTHER -> 0
RECURSIVE InVariant(_, _)
InElement(b, c, vt, arr) ==
    CASE vt = "DATE" -> TakeDate(b, c)
      [] vt = "BSTR" ->
            LET len == TakeField(b, Cursor(c.at), 4) IN
            IF ~len.ok THEN Fail(c)
            ELSE LET chars == TakeFields(b, Cursor(len.at), 2, LastTaken(len) \div 2) IN
                 Nest(c, chars, chars.out)
      [] vt = "VARIANT" /\ arr -> InVariant(b, c)
      [] InWidth(vt, arr) > 0 -> TakeField(b, c, InWidth(vt, arr))
      [] OTHER -> [c EXCEPT !.out = Append(@, 0)]
InVariant(b, c) ==
    LET type == TakeField(b, Cursor(c.at), 2)
        num == TakeField(b, type, 4)
    IN IF ~num.ok THEN Fail(c)
       ELSE LET vt == num.out[1].vt
                arr == num.out[1].arr
                all == FoldLeft(LAMBDA a, i : IF a.ok THEN InElement(b, a, vt, arr) ELSE a,
                                Cursor(num.at), [i \in 1..num.out[2] |-> i])
            IN Nest(c, all, [vt |-> vt, arr |-> arr, data |-> all.out])
SkipLength == 4
Bytary2Packet(b) ==
    IF Len(b) < 16 \/ b[2] # Len(b) \/ b[1] # BCAP_HEADER \/ b[Len(b)] # BCAP_TERMINATOR
    THEN Refused
    ELSE LET c == FoldLeft(LAMBDA a, i : IF a.ok THEN InVariant(b, [a EXCEPT !.at = @ + SkipLength]) ELSE a,
                           Cursor(15), [i \in 1..b[14] |-> i])
         IN IF c.ok THEN c.out ELSE Refused

-----------------------------------------------------------------------------
(* bcap_send and bcap_recv of one packet. *)
WireInit == args \in Arguments /\ packet = NotYet /\ taken = NotYet
Encode == packet = NotYet /\ packet' = Packet2Bytary(args) /\ UNCHANGED <<args, taken>>
Decode == /\ packet \notin {NotYet, Refused} /\ taken = NotYet
          /\ taken' = Bytary2Packet(packet)
          /\ UNCHANGED <<args, packet>>
WireNext == Encode \/ Decode

-----------------------------------------------------------------------------
(* Properties. *)

(* What arrives is what was sent, but that a date may have lost a second. *)
RECURSIVE Arrived(_, _)
Arrived(v, w) ==
    /\ w.vt = v.vt /\ w.arr = v.arr /\ Len(w.data) = Len(v.data)
    /\ \A i \in DOMAIN v.data :
        CASE v.vt = "DATE" -> w.data[i] \in {v.data[i] - 1, v.data[i]}
          [] v.vt = "VARIANT" -> Arrived(v.data[i], w.data[i])
          [] OTHER -> w.data[i] = v.data[i]

(* The three passes agree: a packet fills its buffer exactly, and every argument,
   of every type, in arrays and arrays of variants, arrives as it was sent. *)
ArgumentsArrive ==
    /\ packet # Refused /\ taken # Refused
    /\ taken # NotYet =>
        /\ Len(packet) = 16 + SumUp([i \in DOMAIN args |-> Len(Argument(args[i]))])
        /\ Len(taken) = Len(args)
        /\ \A i \in DOMAIN args : Arrived(args[i], taken[i])

=============================================================================
