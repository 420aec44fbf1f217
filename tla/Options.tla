------------------------------- MODULE Options -------------------------------
(***************************************************************************)
(* The search for an option in a string such as "WDT=400, Key = (a,b=c)",  *)
(* GetOptionValue of dn_common.c, against what a list of options means.    *)
(*                                                                         *)
(* A step is one turn of the loop, which looks at one character.  The      *)
(* brackets around a part of a value are taken out of the string; within   *)
(* them commas and equal signs are part of the value.  The memory before a *)
(* string, which the trimming of an empty one looks at, holds no space,    *)
(* and memcpy moves the rest of the string to the left by one character    *)
(* although the two overlap.  malloc does not fail.                        *)
(***************************************************************************)
EXTENDS Integers, Sequences, FiniteSets

CONSTANTS
    OptionLists,    \* lists of options as applications write them
    Keys,           \* the keys that are looked up
    Characters,     \* what strings are made of
    EndOfText       \* model value: the end of a string

VARIABLES
    optionList,     \* the options in the string
    sought,         \* the key that is looked up
    wanted,         \* the type its value is wanted in
    place,          \* in which option, and after how many of its characters, the loop is
    scan,           \* the locals of GetOptionValue
    optionResult    \* its result and what it has put into the destination

optionInputs == <<optionList, sought, wanted>>
optionVars == <<optionInputs, place, scan, optionResult>>

Blank == " "
Pairs == {<<"(", ")">>, <<"[", "]">>, <<"{", "}">>, <<"<", ">">>}
PairOf(c) == CHOOSE p \in Pairs : c \in {p[1], p[2]}
Brackets == UNION {{p[1], p[2]} : p \in Pairs}
Lower(c) == IF c = "K" THEN "k" ELSE c
SameName(s, t) == Len(s) = Len(t) /\ \A i \in DOMAIN s : Lower(s[i]) = Lower(t[i])   \* _wcsicmp

(* Leading and trailing spaces are taken away. *)
NotSpaces(s) == {i \in DOMAIN s : s[i] # Blank}
Trim(s) ==
    IF NotSpaces(s) = {} THEN <<>>
    ELSE SubSeq(s, CHOOSE i \in NotSpaces(s) : \A j \in NotSpaces(s) : i <= j,
                   CHOOSE i \in NotSpaces(s) : \A j \in NotSpaces(s) : j <= i)

OptionFails == [hr |-> "E_FAIL", is |-> "untouched", text |-> <<>>]
OptionCleared == [hr |-> "S_OK", is |-> "EMPTY", text |-> <<>>]
OptionTrue == [hr |-> "S_OK", is |-> "TRUE", text |-> <<>>]
OptionText(s) == [hr |-> "S_OK", is |-> "value", text |-> s]
Searching == [hr |-> "none", is |-> "none", text |-> <<>>]

-----------------------------------------------------------------------------
(* The options in a string.  A value is plain text, "enclosed": with one part of it
   in brackets, or cannot be read: its bracket is "unclosed", or it is "broken" by
   a second equal sign or a bracket that was not opened. *)

ValueText(o) ==
    CASE o.form = "plain" -> o.before
      [] o.form = "enclosed" -> o.before \o <<o.pair[1]>> \o o.inner \o <<o.pair[2]>> \o o.after
      [] o.form = "unclosed" -> o.before \o <<o.pair[1]>> \o o.inner
      [] o.form = "broken" -> o.before \o o.inner
Title(o) == o.pad \o o.key \o o.pad
Rendered(o) == IF o.bare THEN Title(o) ELSE Title(o) \o <<"=">> \o ValueText(o)

(* The string, option by option, each with the comma or the end behind it. *)
Behind(list, i) == <<IF i = Len(list) THEN EndOfText ELSE ",">>
Written(list) ==
    IF Len(list) = 0 THEN << <<EndOfText>> >>
    ELSE [i \in DOMAIN list |-> Rendered(list[i]) \o Behind(list, i)]

-----------------------------------------------------------------------------
(* The loop of GetOptionValue.  "run" is what was counted since the option or its
   value began. *)
ScanBegin == [level |-> 0, open |-> "none", close |-> "none", title |-> <<>>, run |-> <<>>, part |-> "title"]

Reading == Written(optionList)[place.option]
Character == Reading[place.read + 1]
NextPlace ==
    IF place.read + 1 < Len(Reading) THEN [place EXCEPT !.read = @ + 1]
    ELSE [option |-> place.option + 1, read |-> 0]

(* Outside brackets a bracket chooses the kind that counts from then on. *)
Kind ==
    IF scan.level = 0 /\ Character \in Brackets
    THEN [scan EXCEPT !.open = PairOf(Character)[1], !.close = PairOf(Character)[2]]
    ELSE scan
Goes(s) == scan' = s /\ place' = NextPlace /\ UNCHANGED <<optionInputs, optionResult>>
Yields(r) == optionResult' = r /\ UNCHANGED <<optionInputs, place, scan>>
Count(s) == [s EXCEPT !.run = Append(@, Character)]
Deeper(s) == [s EXCEPT !.level = @ + 1]
Shallower(s) == [s EXCEPT !.level = @ - 1]
ValueBegins(s) == [s EXCEPT !.title = IF s.run = <<>> THEN @ ELSE s.run, !.run = <<>>, !.part = "value"]

(* The outermost brackets are not counted. *)
OpenBracket ==
    /\ Character = Kind.open
    /\ Goes(Deeper(IF Kind.level = 0 THEN Kind ELSE Count(Kind)))
CloseBracket ==
    /\ Character = Kind.close
    /\ IF Kind.level = 0 THEN Yields(OptionFails)
       ELSE Goes(Shallower(IF Kind.level = 1 THEN Kind ELSE Count(Kind)))

(* "=" ends the name of an option, once. *)
EqualSign ==
    /\ scan.level = 0 /\ Character = "="
    /\ IF scan.part = "value" THEN Yields(OptionFails) ELSE Goes(ValueBegins(scan))

(* "," and the end of the string end the option: its name is compared. *)
Matched == SameName(Trim(scan.title), sought)
ResultOf(s, type) ==
    IF s.part = "value" /\ s.run # <<>> THEN OptionText(Trim(s.run)) ELSE IF type = "BOOL" THEN OptionTrue ELSE OptionCleared
NextOptionInValue(s) == [s EXCEPT !.title = <<>>, !.run = <<>>]   \* mutant: the flag of "=" is not reset
NextOption(s) == [s EXCEPT !.title = <<>>, !.run = <<>>, !.part = "title"]
EndOption ==
    /\ scan.level = 0 /\ Character \in {",", EndOfText}
    /\ IF Matched THEN Yields(ResultOf(scan, wanted))
       ELSE IF Character = "," THEN Goes(NextOption(scan))
       ELSE Yields(OptionCleared)

(* Everything else is counted; a string that ends within brackets fails. *)
CountCharacter ==
    /\ Character \notin {Kind.open, Kind.close}
    /\ scan.level = 0 => Character \notin {"=", ",", EndOfText}
    /\ IF Character = EndOfText THEN Yields(OptionFails) ELSE Goes(Count(Kind))

OptionsInit ==
    /\ optionList \in OptionLists /\ sought \in Keys /\ wanted \in {"BOOL", "BSTR"}
    /\ place = [option |-> 1, read |-> 0] /\ scan = ScanBegin /\ optionResult = Searching
OptionsNext ==
    /\ optionResult = Searching
    /\ OpenBracket \/ CloseBracket \/ EqualSign \/ EndOption \/ CountCharacter
OptionsSpec == OptionsInit /\ [][OptionsNext]_optionVars

-----------------------------------------------------------------------------
(* What an application may write.  In the brackets of a part there may be more of
   them, in pairs; a string that is not closed is the last. *)

Plain(s) == \A i \in DOMAIN s : s[i] \notin Brackets \cup {"=", ","}
Times(s, c, n) == Cardinality({i \in 1..n : s[i] = c})
Depth(s, p, n) == Times(s, p[1], n) - Times(s, p[2], n)
Readable(o) ==
    /\ {o.pad, o.key, o.before, o.inner, o.after} \subseteq Seq(Characters)
    /\ o.bare \in BOOLEAN /\ o.form \in {"plain", "enclosed", "unclosed", "broken"}
    /\ NotSpaces(o.pad) = {} /\ Plain(o.key) /\ Plain(o.before) /\ Plain(o.after)
    /\ ~o.bare => o.key # <<>> /\ {1, Len(o.key)} \subseteq NotSpaces(o.key)
    /\ CASE o.form = "plain" -> o.inner = <<>> /\ o.after = <<>>
         [] o.form \in {"enclosed", "unclosed"} ->
                /\ o.pair \in Pairs /\ \A n \in 0..Len(o.inner) : Depth(o.inner, o.pair, n) >= 0
                /\ o.form = "enclosed" => Depth(o.inner, o.pair, Len(o.inner)) = 0
         [] o.form = "broken" -> o.inner # <<>> /\ o.inner[1] \in {"="} \cup {p[2] : p \in Pairs}

ASSUME OptionsAssumption ==
    /\ Brackets \cup {Blank, "=", ","} \subseteq Characters /\ {EndOfText, "none"} \cap Characters = {}
    /\ EndOfText # "none"
    /\ Keys \subseteq Seq(Characters) \ {<<>>}
    /\ \A list \in OptionLists :
        /\ Len(list) \in Nat /\ DOMAIN list = 1..Len(list)
        /\ \A i \in DOMAIN list : Readable(list[i]) /\ (i < Len(list) => list[i].form # "unclosed")

(* The first option of that name decides; one without "=" has no name, and one
   before or at it that cannot be read fails. *)
Value(o) == o.before \o o.inner \o o.after
Malformed(o) == ~o.bare /\ o.form \in {"unclosed", "broken"}
Meaning(list, k, type) ==
    LET named == {i \in DOMAIN list : ~list[i].bare /\ SameName(list[i].key, k)}
        first == CHOOSE i \in named : \A j \in named : i <= j
        read == IF named = {} THEN DOMAIN list ELSE 1..first
    IN IF \E i \in read : Malformed(list[i]) THEN OptionFails
       ELSE IF named = {} THEN OptionCleared
       ELSE IF Value(list[first]) # <<>> THEN OptionText(Trim(Value(list[first])))
       ELSE IF type = "BOOL" THEN OptionTrue ELSE OptionCleared

-----------------------------------------------------------------------------
(* What is looked up in a list of options is the value of the first option of that
   name, whatever the options before it hold: brackets of several kinds, commas and
   equal signs within them, padding and names in other letters (GetOptionValue). *)
OptionFound == optionResult # Searching => optionResult = Meaning(optionList, sought, wanted)

=============================================================================
