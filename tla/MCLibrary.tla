------------------------------ MODULE MCLibrary ------------------------------
(* The modules of the library that are small enough to share one instance: the
   server and its children, the two threads of a connection over their events,
   the table of functions, the search for packets in a
   stream, the coding of arguments, the connections of a client, the options in a
   string and the memory of VARIANTs.  They share no variable: a behaviour runs
   one of them, which "part" names, and leaves the others in one initial state. *)
EXTENDS BcapRelations, ExecEvents, FunctionTable, Framing, Wire,
        ClientTable, Options, Variants

CONSTANTS n1, n2, n3, s1, s2
ThreeNodes == {n1, n2, n3}
TwoSlots == {s1, s2}

(* Every function but ID_COMMAND_EXECUTE, whose row delivers no result. *)
MostFunctions == IDs \ {112}

(* The rows of those functions agree, as the proof of TablesAgree asks. *)
ASSUME FunctionRows == RowsAgree

(* Two packets, of which the second carries bytes that look like a header and a
   terminator; what precedes a packet looks like the beginning of one. *)
TwoPackets == << <<7>>, <<Header, Terminator>> >>
Stray == { <<Header>>, <<7, Header>>, <<Header, 20>>, <<Header, 6>> }

(* Every type as a scalar, as an empty array and as an array of two, strings of no
   and of two characters, arrays of variants in arrays of variants; packets of
   none, one and two arguments. *)
Scalar(vt, x) == [vt |-> vt, arr |-> FALSE, data |-> <<x>>]
Vector(vt, s) == [vt |-> vt, arr |-> TRUE, data |-> s]
Simple == {"UI1", "I2", "UI2", "BOOL", "I4", "UI4", "R4", "I8", "UI8", "R8", "CY"}
Scalars == {Scalar(vt, 7) : vt \in Simple \cup {"ERROR"}} \cup {Scalar(vt, 0) : vt \in {"EMPTY", "NULL"}}
           \cup {Scalar("DATE", t) : t \in {1, 2, 5}}
           \cup {Scalar("BSTR", s) : s \in {<<>>, <<"a", "b">>}}
Vectors == {Vector(vt, s) : vt \in Simple, s \in {<<>>, <<7, 8>>}} \cup {Vector("DATE", <<1, 2>>)}
           \cup {Vector("BSTR", <<<<"a">>, <<>>>>)}
Nested == {Vector("VARIANT", <<>>),
           Vector("VARIANT", <<Scalar("I4", 3), Vector("VARIANT", <<Scalar("BSTR", <<"c">>)>>)>>)}
          \cup {Vector("VARIANT", <<v, Scalar("UI1", 1)>>) : v \in Scalars \cup Vectors}
ArgumentLists == {<<>>} \cup {<<v>> : v \in Scalars \cup Vectors \cup Nested}
                 \cup {<<v, w>> : v \in Scalars, w \in Vectors}

(* Connection strings: every scheme with good, bad and too many parameters. *)
Connection(scheme, fields) == [scheme |-> scheme, fields |-> fields]
SomeConnects ==
    {Connection(s, f) : s \in {"tcp", "udp", "com"}, f \in {<<>>, <<"good", "big">>, <<"bad", "good">>}}
    \cup {Connection("com", <<"good", "good", "good">>), Connection("none", <<>>)}

(* Options of one name in two spellings and of another, with and without a value:
   plain, padded, in brackets and with brackets, commas and equal signs within
   them, and three that cannot be read.  Lists of up to two of them. *)
Letters == Brackets \cup {"k", "K", "j", "x", " ", "=", ","}
PlainValue(s) == [form |-> "plain", pair |-> <<>>, before |-> s, inner |-> <<>>, after |-> <<>>]
Enclosed(s, p, t, u) == [form |-> "enclosed", pair |-> p, before |-> s, inner |-> t, after |-> u]
Values == { PlainValue(<<>>), PlainValue(<<" ">>), PlainValue(<<" ", "x", " ">>),
            Enclosed(<<>>, <<"(", ")">>, <<>>, <<>>),
            Enclosed(<<>>, <<"<", ">">>, <<"x", ",", "k", "=", "x">>, <<>>),
            Enclosed(<<>>, <<"[", "]">>, <<"(", ",">>, <<>>),
            Enclosed(<<>>, <<"(", ")">>, <<"(", ",", ")", "=">>, <<>>),
            Enclosed(<<"x">>, <<"[", "]">>, <<"k">>, <<"x">>),
            [PlainValue(<<"x">>) EXCEPT !.form = "broken", !.inner = <<"=", "x">>],
            [PlainValue(<<"x">>) EXCEPT !.form = "broken", !.inner = <<")">>] }
Unclosed == [Enclosed(<<"x">>, <<"{", "}">>, <<"k">>, <<>>) EXCEPT !.form = "unclosed"]
Option(k, p, b, v) == [key |-> k, pad |-> p, bare |-> b, form |-> v.form, pair |-> v.pair,
                       before |-> v.before, inner |-> v.inner, after |-> v.after]
SomeOptions == {Option(k, p, FALSE, v) : k \in {<<"k">>, <<"K">>, <<"j">>}, p \in {<<>>, <<" ">>}, v \in Values}
               \cup {Option(k, <<>>, TRUE, PlainValue(<<>>)) : k \in {<<"k">>, <<"j">>}}
LastOptions == {Option(<<"k">>, <<" ">>, FALSE, v) : v \in Values \cup {Unclosed}}
               \cup {Option(<<"k">>, <<>>, TRUE, PlainValue(<<>>))}
ShortLists == {<<>>} \cup {<<o>> : o \in SomeOptions} \cup {<<o, q>> : o \in SomeOptions, q \in LastOptions}
SoughtKeys == {<<"k">>}

VARIABLE part
partVars == <<vars, eventVars, tableVars, frameVars, wireVars, clientVars, optionVars, variantVars>>

(* What a part that does not run is fixed to. *)
Fixed ==
    /\ part # "events" => timed = (TRUE \in Timed)
    /\ part # "framing" => line = CHOOSE l \in Lines : TRUE
    /\ part # "wire" => args = <<>>
    /\ part # "options" => optionList = <<>> /\ wanted = "BOOL" /\ sought = CHOOSE k \in Keys : TRUE

LibraryInit ==
    /\ part \in {"relations", "events", "table", "framing", "wire", "clients", "options", "variants"}
    /\ Fixed
    /\ Init /\ EventsInit /\ TableInit /\ FramingInit /\ WireInit
    /\ ClientInit /\ OptionsInit /\ VariantsInit
LibraryNext ==
    /\ \/ part = "relations" /\ Next
          /\ UNCHANGED <<eventVars, tableVars, frameVars, wireVars, clientVars, optionVars, variantVars>>
       \/ part = "events" /\ EventsNext
          /\ UNCHANGED <<vars, tableVars, frameVars, wireVars, clientVars, optionVars, variantVars>>
       \/ part = "table" /\ TableNext
          /\ UNCHANGED <<vars, eventVars, frameVars, wireVars, clientVars, optionVars, variantVars>>
       \/ part = "framing" /\ FramingNext
          /\ UNCHANGED <<vars, eventVars, tableVars, wireVars, clientVars, optionVars, variantVars>>
       \/ part = "wire" /\ WireNext
          /\ UNCHANGED <<vars, eventVars, tableVars, frameVars, clientVars, optionVars, variantVars>>
       \/ part = "clients" /\ ClientNext
          /\ UNCHANGED <<vars, eventVars, tableVars, frameVars, wireVars, optionVars, variantVars>>
       \/ part = "options" /\ OptionsNext
          /\ UNCHANGED <<vars, eventVars, tableVars, frameVars, wireVars, clientVars, variantVars>>
       \/ part = "variants" /\ VariantsNext
          /\ UNCHANGED <<vars, eventVars, tableVars, frameVars, wireVars, clientVars, optionVars>>
    /\ UNCHANGED part

(* The fairness of each part's own specification. *)
LibrarySpec ==
    /\ LibraryInit /\ [][LibraryNext]_<<partVars, part>>
    /\ WF_vars(part = "relations" /\ AcceptThread) /\ WF_vars(part = "relations" /\ CloseEnds)
    /\ \A n \in Nodes : WF_vars(part = "relations" /\ Child(n))
    /\ WF_eventVars(part = "events" /\ ExecStep) /\ WF_eventVars(part = "events" /\ ReceiverStep)
    /\ \A e \in Multi : WF_eventVars(part = "events" /\ SubStep(e))
    /\ \A e \in Multi : SF_eventVars(part = "events" /\ SubSucceeds(e))
    /\ WF_frameVars(part = "framing" /\ ReceiverMoves) /\ WF_frameVars(part = "framing" /\ SendPacket)

-----------------------------------------------------------------------------
(* Properties of the parts, for this specification. *)

(* Every packet arrives in the end, when the part runs at all. *)
StreamArrives == part = "framing" ~> received = Contents
(* Closing a server returns, and so do the two threads of a connection that end
   with it (bCap_Close_Server, exit_thread in recv_thread). *)
ServerShutsDown == CloseReturns /\ Ends

=============================================================================
