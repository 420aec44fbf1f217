----------------------------- MODULE RemoteCall -----------------------------
(***************************************************************************)
(* What a b-CAP client is promised by bCap_* : a call that returns an      *)
(* outcome of the provider's function returns one that the function really *)
(* produced for this very call; every other return is an error of the      *)
(* transport or of the server, from the errors admissible for the request. *)
(*                                                                         *)
(* Nothing here says how often the function runs: the library retries over *)
(* lossy links, so a call may be executed more than once (BcapExchange's   *)
(* AtMostOnce is a separate question).                                     *)
(***************************************************************************)

CONSTANTS Clients,      \* the callers
          Requests,     \* the requests a caller may make
          Outcomes,     \* what the provider's functions may produce
          Errors(_)     \* the errors admissible as the return of a request

VARIABLES pending,      \* client -> a call is in progress
          request,      \* client -> the request of its latest call
          produced,     \* client -> outcomes its latest call has produced
          returned      \* client -> what its latest finished call returned

callVars == <<pending, request, produced, returned>>

Init ==
    /\ pending = [c \in Clients |-> FALSE]
    /\ request \in [Clients -> Requests]
    /\ produced = [c \in Clients |-> {}]
    /\ returned \in [Clients -> Outcomes \cup UNION {Errors(r) : r \in Requests}]

(* A call begins: nothing has been produced for it yet. *)
Begin(c) ==
    /\ ~pending[c]
    /\ pending' = [pending EXCEPT ![c] = TRUE]
    /\ \E r \in Requests : request' = [request EXCEPT ![c] = r]
    /\ produced' = [produced EXCEPT ![c] = {}]
    /\ UNCHANGED returned

(* The provider's function ends with an outcome for the latest call of c,
   which may have been given up by its caller in the meantime. *)
Produce(c) ==
    /\ \E o \in Outcomes : produced' = [produced EXCEPT ![c] = @ \cup {o}]
    /\ UNCHANGED <<pending, request, returned>>

Return(c) ==
    /\ pending[c]
    /\ pending' = [pending EXCEPT ![c] = FALSE]
    /\ \E o \in produced[c] \cup Errors(request[c]) :
          returned' = [returned EXCEPT ![c] = o]
    /\ UNCHANGED <<request, produced>>

(* A call whose first send fails begins and returns in the same step. *)
BeginAndFail(c) ==
    /\ ~pending[c]
    /\ \E r \in Requests :
          /\ request' = [request EXCEPT ![c] = r]
          /\ \E o \in Errors(r) : returned' = [returned EXCEPT ![c] = o]
    /\ produced' = [produced EXCEPT ![c] = {}]
    /\ UNCHANGED pending

Next == \E c \in Clients : Begin(c) \/ Produce(c) \/ Return(c) \/ BeginAndFail(c)

Spec == Init /\ [][Next]_callVars

=============================================================================
