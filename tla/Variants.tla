------------------------------ MODULE Variants ------------------------------
(***************************************************************************)
(* Who owns the memory of a VARIANT (dn_common.c): strings, arrays and     *)
(* their elements, as VariantClear, VariantCopy, VariantChangeType and     *)
(* SafeArrayCreateVector allocate, share out and free it.                  *)
(*                                                                         *)
(* A VARIANT is [vt, form, p]; p is the block of its string or of its      *)
(* SAFEARRAY, and 0 is NULL.  A block of a SAFEARRAY has one cell, the     *)
(* pointer to its elements, whose block has a cell for each of them.       *)
(* Numbers are left out.  A step frees, makes or converts one VARIANT; in  *)
(* which order those of an array are met is left open.  malloc does not    *)
(* fail: where memory is used up a behaviour of the model ends.            *)
(***************************************************************************)
EXTENDS Integers, Sequences

CONSTANTS
    Slots,          \* the VARIANTs of an application
    BlockMax,       \* bound: blocks of memory
    LengthMax,      \* bound: elements of an array
    OperationMax    \* bound: calls of the application

Blocks == 1..BlockMax

ASSUME VariantsAssumption ==
    {BlockMax, LengthMax, OperationMax} \subseteq Nat /\ Slots \cap Blocks = {}

VARIABLES
    memory,     \* slot or block -> what it holds
    doomed,     \* VARIANTs that are being cleared
    copies,     \* which places are yet to be copied from and to
    change,     \* the type that a VARIANT is yet to be changed to
    operations  \* bound: how many calls there have been

variantVars == <<memory, doomed, copies, change, operations>>

ElementTypes == {"I4", "BSTR", "VARIANT"}
Empty == [vt |-> "EMPTY", form |-> "scalar", p |-> 0]
Number == [vt |-> "I4", form |-> "scalar", p |-> 0]
Text(b) == [vt |-> "BSTR", form |-> "scalar", p |-> b]
Array(vt, b) == [vt |-> vt, form |-> "array", p |-> b]
Data(vt, b) == [vt |-> vt, form |-> "data", p |-> b]        \* pvData

MemoryBlock(kind, vt, cells) == [kind |-> kind, vt |-> vt, cells |-> cells]
Unused == MemoryBlock("unused", "EMPTY", <<>>)
LostBlock == MemoryBlock("lost", "EMPTY", <<>>)
String == MemoryBlock("string", "BSTR", <<>>)
SafeArray(vt, b) == MemoryBlock("array", vt, <<Data(vt, b)>>)
Elements(vt, n) ==
    MemoryBlock("elements", vt, [i \in 1..n |-> IF vt = "VARIANT" THEN Empty ELSE [vt |-> vt, form |-> "scalar", p |-> 0]])

(* A place is a cell of a slot or of a block. *)
At(l) == memory[l[1]].cells[l[2]]
Place(l, v) == [memory EXCEPT ![l[1]].cells[l[2]] = v]
Slot(s) == <<s, 1>>
Pending(variants) == {v \in variants : v.p # 0}

(* malloc: a block that is unused, and another one. *)
FreeBlocks == {b \in Blocks : memory[b] = Unused}
Malloc == CHOOSE b \in FreeBlocks : TRUE
MallocNext == CHOOSE b \in FreeBlocks \ {Malloc} : TRUE

-----------------------------------------------------------------------------
(* SysAllocString and SafeArrayCreateVector, for a place. *)
PlaceString(l) ==
    /\ FreeBlocks # {}
    /\ memory' = [Place(l, Text(Malloc)) EXCEPT ![Malloc] = String]
PlaceArray(l, vt, n) ==
    IF n = 0
    THEN /\ FreeBlocks # {}
         /\ memory' = [Place(l, Array(vt, Malloc)) EXCEPT ![Malloc] = SafeArray(vt, 0)]
    ELSE /\ FreeBlocks # {} /\ FreeBlocks \ {Malloc} # {}
         /\ memory' = [Place(l, Array(vt, Malloc)) EXCEPT ![Malloc] = SafeArray(vt, MallocNext),
                                                          ![MallocNext] = Elements(vt, n)]

(* VariantClear with SysFreeString and SafeArrayDestroy: strings and variants among
   the elements are freed one by one, and then the block of the elements is not. *)
FreeString(v) ==
    /\ v.form = "scalar"
    /\ memory' = [memory EXCEPT ![v.p] = Unused]
    /\ doomed' = doomed \ {v}
DestroyElements(v) ==
    /\ v.form = "array" /\ At(<<v.p, 1>>).p # 0
    /\ LET vt == memory[v.p].vt
           e == At(<<v.p, 1>>).p
           each == vt \in {"BSTR", "VARIANT"}
       IN /\ memory' = [Place(<<v.p, 1>>, Data(vt, 0)) EXCEPT ![e] = IF each THEN LostBlock ELSE Unused]
          /\ doomed' = IF each THEN doomed \cup Pending({At(<<e, i>>) : i \in DOMAIN memory[e].cells}) ELSE doomed
FreeArray(v) ==
    /\ v.form = "array" /\ At(<<v.p, 1>>).p = 0
    /\ memory' = [memory EXCEPT ![v.p] = Unused]
    /\ doomed' = doomed \ {v}
ClearOne == \E v \in doomed :
    /\ FreeString(v) \/ DestroyElements(v) \/ FreeArray(v)
    /\ UNCHANGED <<copies, change, operations>>

(* VariantCopy into a VARIANT that is clear: a copy of the string, or of the array
   and then of what its elements hold. *)
CopyAsIs(c, v) == memory' = Place(c.to, v)      \* mutant: strings are copied as bytes
CopyString(c, v) == PlaceString(c.to)
CopyOne(c) ==
    LET v == At(c.from)
        from == At(<<v.p, 1>>).p
        more == IF v.p # 0 /\ v.form = "array" /\ from # 0 THEN DOMAIN memory[from].cells ELSE {}
    IN /\ \/ v.p = 0 /\ memory' = Place(c.to, v)
          \/ v.p # 0 /\ v.form = "scalar" /\ CopyString(c, v)
          \/ v.p # 0 /\ v.form = "array" /\ PlaceArray(c.to, v.vt, IF from = 0 THEN 0 ELSE Len(memory[from].cells))
       /\ copies' = (copies \ {c}) \cup {[from |-> <<from, i>>, to |-> <<MallocNext, i>>] : i \in more}
Copy ==
    /\ doomed = {}
    /\ \E c \in copies : CopyOne(c)
    /\ UNCHANGED <<doomed, change, operations>>

(* VariantChangeType to VT_BSTR, VT_I4 or VT_EMPTY, with Bstr2Variant: what a string
   holds decides whether it is a number, and one that is changed in place is freed;
   arrays are not changed. *)
FreesInPlace(c, v) == c.to = c.from /\ v.p # 0
Convert(c) ==
    LET v == At(Slot(c.from))
        to == Slot(c.to)
        result == IF c.vt = "I4" THEN Number ELSE Empty
    IN \/ v.form = "array" /\ UNCHANGED memory
       \/ v.form # "array" /\ c.vt = "BSTR" /\ PlaceString(to)
       \/ v.form # "array" /\ c.vt # "BSTR"
          /\ memory' = IF FreesInPlace(c, v) THEN [Place(to, result) EXCEPT ![v.p] = Unused] ELSE Place(to, result)
       \/ v.vt = "BSTR" /\ UNCHANGED memory
Change ==
    /\ doomed = {}
    /\ \E c \in change : Convert(c) /\ change' = change \ {c}
    /\ UNCHANGED <<doomed, copies, operations>>

-----------------------------------------------------------------------------
(* The calls of an application, one at a time. *)

NoCall == doomed = {} /\ copies = {} /\ change = {}
ClearFirst(s) == memory' = Place(Slot(s), Empty) /\ doomed' = Pending({At(Slot(s))})

VariantClear(s) == At(Slot(s)) # Empty /\ ClearFirst(s) /\ UNCHANGED <<copies, change>>
Put(s) ==
    /\ At(Slot(s)) = Empty
    /\ \/ memory' = Place(Slot(s), Number)
       \/ PlaceString(Slot(s))
       \/ \E vt \in ElementTypes, n \in 0..LengthMax : PlaceArray(Slot(s), vt, n)
    /\ UNCHANGED <<doomed, copies, change>>

(* An element that is still empty is filled: a string, or a copy of a VARIANT. *)
PutElement(s, e) ==
    /\ At(Slot(s)).form = "array" /\ At(Slot(s)).p # 0 /\ At(<<At(Slot(s)).p, 1>>).p = e
    /\ \E i \in DOMAIN memory[e].cells :
        /\ At(<<e, i>>).p = 0
        /\ \/ memory[e].vt = "BSTR" /\ PlaceString(<<e, i>>) /\ UNCHANGED copies
           \/ /\ memory[e].vt = "VARIANT"
              /\ \E t \in Slots \ {s} :
                  /\ At(Slot(t)) # Empty
                  /\ copies' = {[from |-> Slot(t), to |-> <<e, i>>]}
              /\ UNCHANGED memory
    /\ UNCHANGED <<doomed, change>>

VariantCopy(d, s) ==
    /\ d # s
    /\ ClearFirst(d) /\ copies' = {[from |-> Slot(s), to |-> Slot(d)]}
    /\ UNCHANGED change
VariantChangeType(d, s, vt) ==
    IF At(Slot(s)).form # "array" /\ At(Slot(s)).vt = vt
    THEN VariantCopy(d, s)
    ELSE /\ change' = {[from |-> s, to |-> d, vt |-> vt]}
         /\ IF d = s THEN UNCHANGED <<memory, doomed>> ELSE ClearFirst(d)
         /\ UNCHANGED copies
Call ==
    /\ NoCall
    /\ operations < OperationMax /\ operations' = operations + 1
    /\ \/ \E s \in Slots : VariantClear(s) \/ Put(s) \/ \E e \in Blocks : PutElement(s, e)
       \/ \E d, s \in Slots : VariantCopy(d, s) \/ \E vt \in {"BSTR", "I4", "EMPTY"} : VariantChangeType(d, s, vt)

VariantsInit ==
    /\ memory = [m \in Slots \cup Blocks |-> IF m \in Slots THEN MemoryBlock("slot", "EMPTY", <<Empty>>) ELSE Unused]
    /\ doomed = {} /\ copies = {} /\ change = {} /\ operations = 0
VariantsNext == Call \/ ClearOne \/ Copy \/ Change
VariantsSpec == VariantsInit /\ [][VariantsNext]_variantVars

-----------------------------------------------------------------------------
(* Properties. *)

Places == UNION {{<<m, i>> : i \in DOMAIN memory[m].cells} : m \in DOMAIN memory}
Used == {b \in Blocks : memory[b].kind \in {"string", "array", "elements"}}
(* The kind of block that a VARIANT or pvData takes p to be. *)
KindOf(v) == CASE v.form = "array" -> "array" [] v.form = "data" -> "elements" [] v.form = "scalar" -> "string"
Right(v) == v.p \in Used /\ memory[v.p].kind = KindOf(v) /\ memory[v.p].vt = v.vt

(* No block has two owners, none is used after it was freed or as something else than
   it is, and none is lost, on its own or in a ring of blocks that own each other, but
   the elements of an array of strings or variants that was destroyed: whatever was
   copied, changed in place and cleared before, and in the middle of each call. *)
OwnedOnce ==
    /\ \A l \in Places : At(l).p # 0 => Right(At(l))
    /\ \A k, l \in Places : At(k).p = At(l).p /\ At(k).p # 0 => k = l
    /\ \A v \in doomed : Right(v) /\ \A l \in Places : At(l).p # v.p
    /\ \A b \in Used : (\E l \in Places : At(l).p = b) \/ (\E v \in doomed : v.p = b)
    /\ \A B \in SUBSET Used : B = {} \/ \E b \in B : \A l \in Places : At(l).p = b => l[1] \notin B

=============================================================================
