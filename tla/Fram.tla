--------------------------------- MODULE Fram ---------------------------------
(***************************************************************************)
(* The FRAM of the driver: the memory behind BAR0, the copy of it that the *)
(* driver reads once and answers from, the two ioctls on its user area and *)
(* the sysfs attributes that reach all of it.  The ioctls are unlocked; a  *)
(* write goes to the device first and to the copy next, word by word.      *)
(*                                                                         *)
(* An address counts words of FRAM_ACCESS_SIZE bytes.                      *)
(***************************************************************************)
EXTENDS Integers, Sequences

CONSTANTS
    FramWriters,    \* processes that write
    Reserved,       \* words ahead of the user area, FRAM_RESERV
    UserLength,     \* words of the user area, FRAM_USER_LENGTH
    Words           \* contents of a word

ASSUME FramAssumption == Reserved \in Nat /\ UserLength \in Nat /\ Words # {}

VARIABLES
    fram,           \* the memory, from fram_sys on
    buffer,         \* fram_buffer
    writes,         \* what each writer is doing, and its locals
    overlap,        \* history: two writes were under way together
    shifted         \* history: a write began behind the start of the user area

framVars == <<fram, buffer, writes, overlap, shifted>>

Address == 0 .. Reserved + UserLength - 1
Rest == [pc |-> "idle", addr |-> 0, index |-> 0, data |-> << >>]
NoWrite == \A w \in FramWriters : writes[w] = Rest
BeginWrite(w, state) ==
    /\ writes[w] = Rest /\ writes' = [writes EXCEPT ![w] = state]
    /\ overlap' = (overlap \/ ~NoWrite)

(* check_ioctl_argument, but for the alignment: an address is aligned. *)
InRange(offset, length) == offset <= UserLength /\ offset + length <= UserLength

(* The loop of both ioctls runs while addr < length, with addr from the offset
   on and an index that starts at 0: the length is taken for the end. *)
Start(offset) == offset
Rounds(offset, length) == IF offset < length THEN length - offset ELSE 0

(* do_ioctl_read_fram: what it puts into the caller's buffer. *)
ReadFram(offset, length) ==
    [i \in 1..Rounds(offset, length) |-> buffer[Reserved + i - 1]]

(* do_ioctl_write_fram; the rest of data is not looked at. *)
WriteFram(w, offset, data) ==
    /\ InRange(offset, Len(data))
    /\ BeginWrite(w, IF Rounds(offset, Len(data)) = 0 THEN Rest
                ELSE [pc |-> "device", addr |-> Reserved + Start(offset), index |-> Reserved,
                      data |-> SubSeq(data, 1, Rounds(offset, Len(data)))])
    /\ shifted' = (shifted \/ offset # 0)
    /\ UNCHANGED <<fram, buffer>>
(* fram_write_local_sys, by the sysfs attributes: any word of the FRAM. *)
WriteSys(w, ofs, word) ==
    /\ BeginWrite(w, [pc |-> "device", addr |-> ofs, index |-> ofs, data |-> <<word>>])
    /\ UNCHANGED <<fram, buffer, shifted>>

(* bar0_write32 *)
WriteDevice(w) ==
    /\ writes[w].pc = "device"
    /\ fram' = [fram EXCEPT ![writes[w].addr] = Head(writes[w].data)]
    /\ writes' = [writes EXCEPT ![w].pc = "copy"]
    /\ UNCHANGED <<buffer, overlap, shifted>>
(* The copy is written, and the loop goes on. *)
NextRoundForgets(round) ==              \* mutant: the index is not advanced
    [pc |-> "device", addr |-> round.addr + 1, index |-> round.index, data |-> Tail(round.data)]
NextRound(round) ==
    [pc |-> "device", addr |-> round.addr + 1, index |-> round.index + 1, data |-> Tail(round.data)]
WriteCopy(w) ==
    /\ writes[w].pc = "copy"
    /\ buffer' = [buffer EXCEPT ![writes[w].index] = Head(writes[w].data)]
    /\ writes' = [writes EXCEPT ![w] = IF Len(@.data) = 1 THEN Rest ELSE NextRound(@)]
    /\ UNCHANGED <<fram, overlap, shifted>>
(* get_user fails: the loop ends where it is. *)
WriteBroken(w) ==
    /\ writes[w].pc = "device" /\ writes' = [writes EXCEPT ![w] = Rest]
    /\ UNCHANGED <<fram, buffer, overlap, shifted>>

(* initialize_fram has read all of it. *)
FramInit ==
    /\ fram \in [Address -> Words] /\ buffer = fram
    /\ writes = [w \in FramWriters |-> Rest]
    /\ overlap = FALSE /\ shifted = FALSE
Buffers == UNION {[1..n -> Words] : n \in 0..UserLength}
FramNext ==
    \E w \in FramWriters :
       \/ \E offset \in 0..UserLength, data \in Buffers : WriteFram(w, offset, data)
       \/ \E ofs \in Address, word \in Words : WriteSys(w, ofs, word)
       \/ WriteDevice(w) \/ WriteCopy(w) \/ WriteBroken(w)
FramSpec == FramInit /\ [][FramNext]_framVars

-----------------------------------------------------------------------------
FramTypeOK ==
    /\ fram \in [Address -> Words] /\ buffer \in [Address -> Words]
    /\ \A w \in FramWriters :
          /\ writes[w].pc \in {"idle", "device", "copy"}
          /\ writes[w].pc # "idle" => writes[w].addr \in Address /\ writes[w].index \in Address
    /\ {overlap, shifted} \subseteq BOOLEAN

(* The copy the driver answers from holds what the device holds, word by word
   and through failed writes, as long as no two writes overlap and each begins
   at the start of the user area: the word under way is the only difference
   (ipc8_fram.c:124-147). *)
FramCached ==
    (~overlap /\ ~shifted)
        => \A a \in Address :
              \/ buffer[a] = fram[a]
              \/ \E w \in FramWriters :
                    writes[w].pc = "copy" /\ writes[w].addr = a /\ writes[w].index = a

(* "Address of FRAM to read or write", "Length of the buffer to read or write"
   (ipc8_ioctl.h:107-109): the buffer gets the words at that address. *)
ReadsAsAsked ==
    NoWrite =>
        \A offset, length \in 0..UserLength :
            InRange(offset, length)
                => ReadFram(offset, length)
                     = [i \in 1..length |-> fram[Reserved + offset + i - 1]]
=============================================================================
