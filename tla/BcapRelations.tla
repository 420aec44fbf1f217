---------------------------- MODULE BcapRelations ----------------------------
(***************************************************************************)
(* A TCP b-CAP server and its children: accept_thread, the end of every    *)
(* child's recv_thread, bCap_Open_Server and bCap_Close_Server, and        *)
(* change_relation, by which they build and take apart the two lists of    *)
(* nodes under relation_mutex.                                             *)
(*                                                                         *)
(* Nodes are blocks of memory that malloc may return, Root is the server's *)
(* own node in m_conn_param.  In Root, node1 is the head of the children   *)
(* list and node2 the head of the delete list; in a child they are the     *)
(* younger and the elder brother.  What free has given back keeps its      *)
(* contents until malloc returns it again.                                 *)
(***************************************************************************)
EXTENDS Integers, Sequences, FiniteSets, SequencesExt

CONSTANTS
    Nodes,          \* memory for children
    Root,           \* the server's own node
    Null,           \* no node
    ClientMax,      \* BCAP_CLIENT_MAX, 20
    AddFails        \* dn_set_timeout or create_event of a new child may fail

ASSUME RelationsAssumption ==
    /\ Root \notin Nodes /\ Null \notin Nodes \cup {Root, "accept_thread"}
    /\ ClientMax \in Nat \ {0}
    /\ AddFails \in BOOLEAN

VARIABLES
    server,     \* what the application did last: "closed", "open", "closing"
    node1, node2, numChild,
    allocated,  \* nodes returned by malloc and not yet freed
    term,       \* nodes whose term_main_evt is set
    child,      \* node -> where its recv_thread is
    mutex,      \* accept_thread, or Null: holder of relation_mutex between steps
    accept,     \* where accept_thread is
    cur         \* accept_thread's child and change_relation's node

vars == <<server, node1, node2, numChild, allocated, term, child, mutex, accept, cur>>

Server == Nodes \cup {Root}
accepting == <<accept, cur>>
lists == <<node1, node2, numChild>>

-----------------------------------------------------------------------------
(* The application. *)

(* bCap_Open_Server, when it succeeds: after a failure m_conn_param is zero
   again. *)
Open ==
    /\ server = "closed"
    /\ server' = "open"
    /\ accept' = "wait"
    /\ UNCHANGED <<node1, node2, numChild, allocated, term, child, mutex, cur>>

(* bCap_Close_Server sets the event, joins accept_thread and clears the node. *)
Close ==
    /\ server = "open"
    /\ server' = "closing"
    /\ term' = term \cup {Root}
    /\ UNCHANGED <<lists, allocated, child, mutex, accepting>>

CloseEnds ==
    /\ server = "closing" /\ accept = "ended"
    /\ server' = "closed"
    /\ term' = term \ {Root}
    /\ node1' = [node1 EXCEPT ![Root] = Null]
    /\ node2' = [node2 EXCEPT ![Root] = Null]
    /\ numChild' = 0
    /\ accept' = "none"
    /\ UNCHANGED <<allocated, child, mutex, cur>>

-----------------------------------------------------------------------------
(* accept_thread *)

(* wait_event(term_main_evt, 300) *)
Wait ==
    /\ accept = "wait"
    /\ accept' = IF Root \in term THEN "exit" ELSE "accept"
    /\ UNCHANGED <<server, lists, allocated, term, child, mutex, cur>>

(* tcp_accept finds nobody, or the table is full. *)
AcceptNone ==
    /\ accept = "accept"
    /\ accept' = "delete"
    /\ UNCHANGED <<server, lists, allocated, term, child, mutex, cur>>

(* ADD_CHILD: n becomes the youngest brother. *)
LinkUnback(n) ==    \* mutant: the elder brother does not learn of the younger
    /\ node1' = [node1 EXCEPT ![n] = Null, ![Root] = n]
    /\ node2' = [node2 EXCEPT ![n] = node1[Root]]
Link(n) ==
    LET new == [node1 EXCEPT ![n] = Null, ![Root] = n] IN
    /\ node1' = IF node1[Root] = Null THEN new ELSE [new EXCEPT ![node1[Root]] = n]
    /\ node2' = [node2 EXCEPT ![n] = node1[Root]]

Room == numChild < ClientMax

AddChild(n) ==
    /\ accept = "accept" /\ Room
    /\ mutex = Null /\ n \notin allocated
    /\ Link(n)
    /\ numChild' = numChild + 1
    /\ accept' = "delete"
    /\ \/ /\ allocated' = allocated \cup {n}
          /\ term' = term \ {n}
          /\ child' = [child EXCEPT ![n] = "run"]
       \/ /\ AddFails               \* close and free: n stays linked and counted
          /\ UNCHANGED <<allocated, term, child>>
    /\ UNCHANGED <<server, mutex, cur>>

(* DELETE_CHILD takes the mutex and keeps it while it joins, closes and frees
   the nodes of the delete list. *)
DeleteHead == node2[Root]
DeleteBegins ==
    /\ accept \in {"delete", "lastDelete"} /\ mutex = Null
    /\ mutex' = "accept_thread"
    /\ cur' = DeleteHead
    /\ accept' = IF accept = "delete" THEN "deleting" ELSE "lastDeleting"
    /\ UNCHANGED <<server, lists, allocated, term, child>>

(* set_event and exit_thread, which has nothing to wait for when the thread
   has been joined before. *)
DeleteSignal ==
    /\ accept \in {"deleting", "lastDeleting"}
    /\ cur # Null /\ cur \notin term
    /\ term' = term \cup {cur}
    /\ UNCHANGED <<server, lists, allocated, child, mutex, accepting>>
DeleteNode ==
    /\ accept \in {"deleting", "lastDeleting"}
    /\ cur # Null /\ cur \in term /\ child[cur] \in {"ended", "joined"}
    /\ allocated' = allocated \ {cur}
    /\ term' = term \ {cur}
    /\ child' = [child EXCEPT ![cur] = "none"]
    /\ numChild' = numChild - 1
    /\ cur' = node2[cur]
    /\ UNCHANGED <<server, node1, node2, mutex, accept>>

DeleteEnds ==
    /\ accept \in {"deleting", "lastDeleting"} /\ cur = Null
    /\ node2' = [node2 EXCEPT ![Root] = Null]
    /\ mutex' = Null
    /\ accept' = IF accept = "deleting" THEN "wait" ELSE "ended"
    /\ UNCHANGED <<server, node1, numChild, allocated, term, child, cur>>

(* exit_proc: without the mutex, the head of the children list is signalled
   and joined until there is none. *)
NextToJoinBrother == IF cur = Null THEN node1[Root] ELSE node2[cur]   \* mutant: the elder brother
NextToJoin == node1[Root]
ExitNext ==
    /\ accept = "exit"
    /\ cur' = NextToJoin
    /\ accept' = IF NextToJoin = Null THEN "lastDelete" ELSE "signal"
    /\ UNCHANGED <<server, lists, allocated, term, child, mutex>>
SignalledNobody(n) == term      \* mutant: set_event is forgotten
Signalled(n) == term \cup {n}
ExitSignal ==
    /\ accept = "signal"
    /\ term' = Signalled(cur)
    /\ accept' = "join"
    /\ UNCHANGED <<server, lists, allocated, child, mutex, cur>>
ExitJoin ==
    /\ accept = "join" /\ child[cur] = "ended"
    /\ child' = [child EXCEPT ![cur] = "joined"]
    /\ accept' = "exit"
    /\ UNCHANGED <<server, lists, allocated, term, mutex, cur>>

AcceptThread ==
    \/ Wait \/ AcceptNone \/ (\E n \in Nodes : AddChild(n))
    \/ DeleteBegins \/ DeleteSignal \/ DeleteNode \/ DeleteEnds
    \/ ExitNext \/ ExitSignal \/ ExitJoin

-----------------------------------------------------------------------------
(* A child's recv_thread. *)

(* The loop of recv_thread ends: the connection is lost, or the event is seen. *)
HangUp(n) ==
    /\ child[n] = "run"
    /\ child' = [child EXCEPT ![n] = "leave"]
    /\ UNCHANGED <<server, lists, allocated, term, mutex, accepting>>
SeeTerm(n) == n \in term /\ HangUp(n)

(* DESTROY_SELF: n is taken out of the children list and put before the delete
   list.  What node1 says in there nobody reads. *)
Unlink(n) ==
    /\ node1' = [m \in Server |-> CASE m = Root /\ node1[n] = Null -> node2[n]
                                    [] m = node2[n] -> node1[n]
                                    [] m = node2[Root] -> n
                                    [] OTHER -> node1[m]]
    /\ node2' = [m \in Server |-> CASE m = n -> node2[Root]
                                    [] m = Root -> n
                                    [] m = node1[n] -> node2[n]
                                    [] OTHER -> node2[m]]
DestroySelf(n) ==
    /\ child[n] = "leave" /\ mutex = Null
    /\ Unlink(n)
    /\ child' = [child EXCEPT ![n] = "left"]
    /\ UNCHANGED <<server, numChild, allocated, term, mutex, accepting>>

(* The thread returns. *)
ThreadEnds(n) ==
    /\ child[n] = "left"
    /\ child' = [child EXCEPT ![n] = "ended"]
    /\ UNCHANGED <<server, lists, allocated, term, mutex, accepting>>

Child(n) == SeeTerm(n) \/ DestroySelf(n) \/ ThreadEnds(n)

Init ==
    /\ server = "closed"
    /\ node1 = [n \in Server |-> Null] /\ node2 = [n \in Server |-> Null]
    /\ numChild = 0 /\ allocated = {} /\ term = {}
    /\ child = [n \in Nodes |-> "none"]
    /\ mutex = Null /\ accept = "none" /\ cur = Null

Next ==
    \/ Open \/ Close \/ CloseEnds
    \/ AcceptThread
    \/ \E n \in Nodes : Child(n) \/ HangUp(n)

Spec == Init /\ [][Next]_vars

(* Threads are scheduled, recv_thread sees its event within the timeout of its
   receive; connections and the application are free. *)
FairSpec ==
    /\ Spec
    /\ WF_vars(AcceptThread) /\ WF_vars(CloseEnds)
    /\ \A n \in Nodes : WF_vars(Child(n))

-----------------------------------------------------------------------------
(* The nodes from n on along node2; none at all when they do not come to an end
   within the limit of the children. *)
Along(s, n) ==
    /\ n = IF s = <<>> THEN Null ELSE s[1]
    /\ \A i \in DOMAIN s : node2[s[i]] = IF i = Len(s) THEN Null ELSE s[i + 1]
Walks(n) == {s \in BoundedSeq(Nodes, ClientMax) : Along(s, n)}
Walk(n) == IF Walks(n) = {} THEN <<>> ELSE CHOOSE s \in Walks(n) : TRUE

Children == Walk(node1[Root])
Deleted == Walk(node2[Root])

TypeOK ==
    /\ server \in {"closed", "open", "closing"}
    /\ node1 \in [Server -> Nodes \cup {Null}] /\ node2 \in [Server -> Nodes \cup {Null}]
    /\ numChild \in 0..ClientMax
    /\ allocated \subseteq Nodes /\ term \subseteq Server
    /\ child \in [Nodes -> {"none", "run", "leave", "left", "ended", "joined"}]
    /\ mutex \in {Null, "accept_thread"}
    /\ accept \in {"none", "wait", "accept", "delete", "deleting", "exit", "signal",
                   "join", "lastDelete", "lastDeleting", "ended"}
    /\ cur \in Nodes \cup {Null}

(* Whenever the mutex is free, the two lists hold exactly the nodes that
   exist, each once: the children list those whose thread serves, with the way
   back from every elder brother, the delete list those whose thread has left;
   and num_child counts both. *)
ListsExact ==
    mutex = Null =>
        /\ ToSet(Children) \cup ToSet(Deleted) = allocated
        /\ numChild = Cardinality(allocated)
        /\ Len(Children) + Len(Deleted) = Cardinality(allocated)
        /\ \A n \in ToSet(Children) : child[n] \in {"run", "leave"}
        /\ \A n \in ToSet(Deleted) : child[n] \in {"left", "ended", "joined"}
        /\ \A i \in DOMAIN Children :
              node1[Children[i]] = IF i = 1 THEN Null ELSE Children[i - 1]

(* Joining under the mutex never waits for a thread that still needs it. *)
JoinSafe ==
    mutex = "accept_thread" /\ cur # Null => child[cur] \in {"left", "ended", "joined"}

(* The unlocked loop at the end of accept_thread signals and joins a child
   whose memory is still its own. *)
ExitReadsValid == accept \in {"signal", "join"} => cur \in allocated

(* When accept_thread has ended, there is no child and no child's thread. *)
ClosedClean ==
    accept \in {"ended", "none"} =>
        allocated = {} /\ numChild = 0 /\ \A n \in Nodes : child[n] = "none"

(* The lists of a server that is being taken apart by several children: what a
   child joins is still there, what it reads is allocated, and a server that is
   closed has no child, list or memory left (change_relation, exit of
   recv_thread, bCap_Close_Server). *)
ListsSafe == JoinSafe /\ ExitReadsValid /\ ClosedClean

(* The pointers implement the sequences of ServerChildren. *)
Promise == INSTANCE ServerChildren WITH serving <- Children, leaving <- Deleted
ListsFaithful == Promise!Spec

(* bCap_Close_Server returns. *)
CloseReturns == server = "closing" ~> server = "closed"

=============================================================================
