---------------------------- MODULE FunctionTable ----------------------------
(***************************************************************************)
(* The 137 functions of b-CAP as both ends know them: the client's         *)
(* wrappers, which say what is sent and what is expected in return         *)
(* (bcap_client.c), and m_map_id, from which the server takes whether to   *)
(* answer with a result and which function releases what was created       *)
(* (bcap_mapid.h).  The two tables are written down independently of each  *)
(* other; a session of one client creates and releases objects through     *)
(* them.  How a call travels is the matter of BcapExchange; here it is one *)
(* step.  The provider behind the server is external.                      *)
(***************************************************************************)
EXTENDS Integers, Sequences, FiniteSets, SequencesExt

CONSTANTS
    Called,         \* IDs of the functions the client calls
    Handles,        \* handles the provider gives, the same for every class
    ObjectMax       \* BCAP_OBJECT_MAX, 1000

ASSUME TableAssumption ==
    Called \subseteq 1..137 /\ Handles \subseteq Nat \ {0} /\ ObjectMax \in Nat

VARIABLES
    held,       \* <<class, handle>>: the provider's objects
    vector,     \* the server's vector of VEC_OBJECT, the latest first
    known,      \* <<class, handle>>: what the client can name
    lost        \* history: functions whose result was asked for and did not come

tableVars == <<held, vector, known, lost>>

-----------------------------------------------------------------------------
(* The client's table.  A wrapper sends arguments of these variant types, VT_I4,
   VT_R4, VT_BSTR and VT_VARIANT, and expects a result of one of them, or none;
   "makes" is the class of the object whose handle is the result. *)
I4 == 3
R4 == 4
Str == 8
Vnt == 12
None == 0
Func(op, in, out) == [op |-> op, in |-> in, out |-> out, makes |-> "none"]
Maker(class, in)  == [op |-> "Get", in |-> in, out |-> I4, makes |-> class]

(* What every class but the service has: GetAttribute, GetHelp, GetName, GetTag,
   PutTag, GetID and PutID; and what several have. *)
Properties ==
    << Func("GetAttribute", <<I4>>, I4), Func("GetHelp", <<I4>>, Str), Func("GetName", <<I4>>, Str),
       Func("GetTag", <<I4>>, Vnt), Func("PutTag", <<I4, Vnt>>, None),
       Func("GetID", <<I4>>, Vnt), Func("PutID", <<I4, Vnt>>, None) >>
Release     == << Func("Release", <<I4>>, None) >>
Get(class)  == Maker(class, <<I4, Str, Str>>)
Names       == Func("GetNames", <<I4, Str>>, Vnt)
Execute     == Func("Execute", <<I4, Str, Vnt>>, Vnt)
Variables   == << Get("Variable"), Names, Execute >>
Do(op, more) == Func(op, <<I4>> \o more, None)
Ask(op, out) == Func(op, <<I4>>, out)

Service == << Func("Start", <<Str>>, None), Func("Release", <<>>, None) >>

Kinds == << "Extension", "File", "Robot", "Task", "Variable", "Command" >>
Controller ==
    << Maker("Controller", <<Str, Str, Str, Str>>), Func("Release", <<I4>>, None) >>
    \o [i \in 1..6 |-> Get(Kinds[i])] \o [i \in 1..6 |-> Names]
    \o << Execute, Maker("Message", <<I4>>) >> \o Properties

Extension == Variables \o Properties \o Release

File ==
    << Get("File"), Get("Variable"), Names, Names, Execute,
       Do("Copy", <<Str, Str>>), Do("Delete", <<Str>>), Do("Move", <<Str, Str>>),
       Func("Run", <<I4, Str>>, Str),
       Ask("GetDateCreated", Vnt), Ask("GetDateLastAccessed", Vnt), Ask("GetDateLastModified", Vnt),
       Ask("GetPath", Str), Ask("GetSize", I4), Ask("GetType", Str), Ask("GetValue", Vnt),
       Do("PutValue", <<Vnt>>) >>
    \o Properties \o Release

Robot ==
    Variables
    \o << Do("Accelerate", <<I4, R4, R4>>), Do("Change", <<Str>>), Do("Chuck", <<Str>>),
          Do("Drive", <<I4, R4, Str>>), Do("GoHome", <<>>), Do("Halt", <<Str>>), Do("Hold", <<Str>>),
          Do("Move", <<I4, Vnt, Str>>), Do("Rotate", <<Vnt, R4, Vnt, Str>>), Do("Speed", <<I4, R4>>),
          Do("Unchuck", <<Str>>), Do("Unhold", <<Str>>) >>
    \o Properties \o Release

Task ==
    Variables
    \o << Do("Start", <<I4, Str>>), Do("Stop", <<I4, Str>>), Do("Delete", <<Str>>),
          Ask("GetFileName", Str) >>
    \o Properties \o Release

Variable ==
    << Ask("GetDateTime", Vnt), Ask("GetValue", Vnt), Do("PutValue", <<Vnt>>) >>
    \o Properties \o << Ask("GetMicrosecond", I4) >> \o Release

Command ==
    << Func("Execute", <<I4, I4>>, Vnt), Do("Cancel", <<>>), Ask("GetTimeout", I4),
       Do("PutTimeout", <<I4>>), Ask("GetState", I4), Ask("GetParameters", Vnt),
       Do("PutParameters", <<Vnt>>), Ask("GetResult", Vnt) >>
    \o Properties \o Release

Message ==
    << Do("Reply", <<Vnt>>), Do("Clear", <<>>), Ask("GetDateTime", Vnt), Ask("GetDescription", Str),
       Ask("GetDestination", Str), Ask("GetNumber", I4), Ask("GetSerialNumber", I4),
       Ask("GetSource", Str), Ask("GetValue", Vnt) >>
    \o Release

(* The functions in the order of their IDs, and the class each belongs to. *)
Of(class, funcs) == [i \in DOMAIN funcs |-> [class |-> class, func |-> funcs[i]]]
Table ==
    Of("Service", Service) \o Of("Controller", Controller) \o Of("Extension", Extension)
    \o Of("File", File) \o Of("Robot", Robot) \o Of("Task", Task) \o Of("Variable", Variable)
    \o Of("Command", Command) \o Of("Message", Message)
IDs == DOMAIN Table
Fn(id) == Table[id].func
ClassOf(id) == Table[id].class
Start == 1
Creates(id) == id = Start \/ Fn(id).makes # "none"
Made(id) == IF id = Start THEN "Service" ELSE Fn(id).makes
Releases(id) == Fn(id).op = "Release"
NeedsHandle(id) == ClassOf(id) # "Service" /\ Fn(id).makes # "Controller"

-----------------------------------------------------------------------------
(* The server's table, by ID. *)

(* relation_id: 0, -1 for a release function, else the function that releases what
   this one creates. *)
Relation(id) ==
    IF id = 1 THEN 2 ELSE IF id = 3 THEN 4
    ELSE IF id \in 5..10 THEN <<36, 61, 84, 99, 111, 127>>[id - 4]
    ELSE IF id = 18 THEN 137 ELSE IF id = 37 THEN 61 ELSE IF id \in {26, 38, 62, 85} THEN 111
    ELSE IF id \in {2, 4, 36, 61, 84, 99, 111, 127, 137} THEN -1 ELSE 0

(* return_flag: the functions that answer without a result. *)
Silent ==
    {1, 2, 4, 23, 25, 33, 35, 36} \cup 42..44 \cup {53, 58, 60, 61} \cup 65..76
    \cup {81, 83, 84, 88, 89, 90, 96, 98, 99, 102, 107, 109, 111, 112, 113, 115, 118, 126, 127}
    \cup {128, 129, 137}
ReturnFlag(id) == id \notin Silent

-----------------------------------------------------------------------------
(* One call. *)

(* A wrapper refuses a NULL pointer for a handle it returns or releases, before
   anything is sent. *)
SendsNullToo(id, ret) == TRUE           \* mutant: no test of the pointer
Sends(id, ret) == (Fn(id).makes # "none" \/ (Releases(id) /\ NeedsHandle(id))) => ret

(* receive_execute refuses to create beyond the limit; bcap_callfunc calls the
   provider. *)
RoomFor(id) == Relation(id) > 0 => Len(vector) < ObjectMax

(* push_vector; search_vector and pop_vector: the latest of that function and
   handle. *)
Push(id, h) == <<[id |-> Relation(id), hObj |-> IF id = Start THEN 0 ELSE h]>> \o vector
Pop(id, h) ==
    LET hits == {k \in DOMAIN vector : vector[k] = [id |-> id, hObj |-> h]} IN
    IF hits = {} THEN vector ELSE RemoveAt(vector, CHOOSE k \in hits : \A j \in hits : k <= j)
VectorAfter(id, arg, new) ==
    IF Relation(id) > 0 THEN Push(id, new)
    ELSE IF Relation(id) < 0 THEN Pop(id, arg) ELSE vector

(* invoke_function fills the result in when a place for it was given and the
   answer has one. *)
Delivered(id, ret) == ret /\ ReturnFlag(id) /\ Fn(id).out # None

(* The call succeeds: S_OK.  "arg" is the handle it is for, "new" the handle of
   what it creates; the provider starts its service once. *)
CallFn(id, arg, new, ret) ==
    /\ Sends(id, ret) /\ RoomFor(id)
    /\ NeedsHandle(id) => <<ClassOf(id), arg>> \in known
    /\ ~NeedsHandle(id) => arg = 0
    /\ IF Creates(id) THEN <<Made(id), new>> \notin held /\ (id = Start <=> new = 0) ELSE new = 0
    /\ vector' = VectorAfter(id, arg, new)
    /\ held' = (IF Releases(id) THEN held \ {<<ClassOf(id), arg>>} ELSE held)
               \cup (IF Creates(id) THEN {<<Made(id), new>>} ELSE {})
    /\ known' = (IF Releases(id) THEN known \ {<<ClassOf(id), arg>>} ELSE known)
                \cup (IF Creates(id) /\ (id = Start \/ Delivered(id, ret)) THEN {<<Made(id), new>>} ELSE {})
    /\ lost' = IF ret /\ Fn(id).out # None /\ ~Delivered(id, ret) THEN lost \cup {id} ELSE lost

(* Any call may also fail, E_NOTIMPL included: nothing changes but the exchange.
   The connection ends: every element of the vector is released by the function
   it names, the latest first, and the client knows nothing any more. *)
Disconnect ==
    /\ held' = held \ {<<ClassOf(vector[k].id), vector[k].hObj>> : k \in DOMAIN vector}
    /\ vector' = <<>> /\ known' = {}
    /\ UNCHANGED lost

TableInit == held = {} /\ vector = <<>> /\ known = {} /\ lost = {}
TableNext ==
    \/ \E id \in Called, arg, new \in Handles \cup {0}, ret \in BOOLEAN : CallFn(id, arg, new, ret)
    \/ Disconnect
TableSpec == TableInit /\ [][TableNext]_tableVars

-----------------------------------------------------------------------------
(* Properties. *)

(* The vector holds the release function and the handle of exactly the objects the
   provider holds, so that the end of the connection releases all of them, and
   the client can name each of them.  Classes share handles: two functions'
   rows of m_map_id that disagree with the wrappers release the wrong one. *)
ReleaseOf(class) == CHOOSE id \in IDs : ClassOf(id) = class /\ Releases(id)
ObjectsAccounted ==
    /\ ToSet(vector) = {[id |-> ReleaseOf(o[1]), hObj |-> o[2]] : o \in held}
    /\ Len(vector) = Cardinality(held)
    /\ held = known

(* Every result that a wrapper promises to its caller ("@param[out] pVal Result
   value.") comes with the answer. *)
ResultsDelivered == lost = {}

(* The client and the server agree on every function of the table: what the one
   packs the other unpacks, and the objects it makes are entered and taken out
   (m_map_id, invoke_function, bcap_callfunc). *)
TablesAgree == ObjectsAccounted /\ ResultsDelivered

(* What the rows of m_map_id and the wrappers of the functions that are called have
   to say for that: the releasing function that is entered is the one of what is
   made, no other function enters or takes out anything, and what the wrapper
   expects the server sends.  ID_COMMAND_EXECUTE fails the last. *)
RowsAgree ==
    \A id \in Called :
        /\ IF Creates(id) THEN Relation(id) = ReleaseOf(Made(id)) /\ Relation(id) > 0
           ELSE Relation(id) = IF Releases(id) THEN -1 ELSE 0
        /\ Creates(id) => ClassOf(ReleaseOf(Made(id))) = Made(id) /\ ~Releases(id)
        /\ Releases(id) => ReleaseOf(ClassOf(id)) = id
        /\ (Fn(id).makes # "none") <=> Creates(id) /\ id # Start
        /\ Creates(id) /\ id # Start => Fn(id).out # None
        /\ Fn(id).out # None => ReturnFlag(id)

=============================================================================
