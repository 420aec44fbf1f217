---------------------------- MODULE Server_proofs ----------------------------
(***************************************************************************)
(* Proofs about the b-CAP server of the library.                           *)
(*                                                                         *)
(* ExecEvents: no signal of the events of dn_thread.c is slept over, and   *)
(* the two threads of a connection take every step that HandOver allows    *)
(* and no other, as long as pthread_cond_wait does not return by itself.   *)
(*                                                                         *)
(* BcapRelations: the lists of objects and their parents stay well formed  *)
(* and implement the sets of children of ServerChildren, as long as        *)
(* add_relation never fails.                                               *)
(***************************************************************************)
EXTENDS BcapRelations, ExecEvents, TLAPS, FiniteSetTheorems, WellFoundedInduction

-----------------------------------------------------------------------------
(* ExecEvents: the inductive invariants. *)

(* A thread that is blocked has not been signalled, one that was woken has. *)
Slept == \A t \in Waiters : waiter[t] = "blocked" => ~signal[BlockedOn(t)]
Woken == \A t \in Waiters : waiter[t] = "woken" => signal[BlockedOn(t)]
Joins == \A e \in Multi : (sub[e] # "none") <=> (exec = "join")

(* The request is in one hand at most. *)
TakenUp == sub["exec"] \in {"won", "signalled"}
Hands ==
    /\ signal["comp"] => receiver # "handing" /\ ~signal["exec"] /\ ~TakenUp /\ exec # "call"
    /\ receiver = "handing" => ~signal["exec"] /\ ~TakenUp /\ exec # "call"
    /\ signal["exec"] => ~TakenUp /\ exec # "call"
    /\ receiver = "respond" => signal["comp"]

EventsTyped == EventsTypeOK /\ Joins /\ Slept
EventsInv == EventsTyped /\ Woken /\ Hands

-----------------------------------------------------------------------------
(* What the calls of dn_thread.c do to the two flags. *)

(* set_event leaves nobody blocked on the event, and wakes by its flag. *)
LEMMA SetEventKeeps ==
    ASSUME EventsTypeOK, Slept, NEW e \in Events, SetEvent(e)
    PROVE  /\ signal' \in [Events -> BOOLEAN] /\ signal'[e]
           /\ \A f \in Events \ {e} : signal'[f] = signal[f]
           /\ waiter' \in [Waiters -> {"awake", "blocked", "woken"}]
           /\ \A t \in Waiters : (waiter'[t] = "awake") <=> (waiter[t] = "awake")
           /\ Slept' /\ (Woken => Woken')
<1>1. /\ signal' = [signal EXCEPT ![e] = TRUE]
      /\ waiter' = [t \in Waiters |-> IF waiter[t] = "blocked" /\ BlockedOn(t) = e
                                      THEN "woken" ELSE waiter[t]]
  BY DEF SetEvent, Broadcast
<1>2. signal' \in [Events -> BOOLEAN] /\ signal'[e] /\ \A f \in Events \ {e} : signal'[f] = signal[f]
  BY <1>1 DEF EventsTypeOK
<1>3. \A t \in Waiters : BlockedOn(t) \in Events
  BY DEF BlockedOn, Waiters, Multi, Events
<1>4. Slept'
  BY <1>1, <1>2, <1>3 DEF Slept
<1>5. Woken => Woken'
  BY <1>1, <1>2, <1>3 DEF Woken
<1>6. waiter' \in [Waiters -> {"awake", "blocked", "woken"}]
  BY <1>1 DEF EventsTypeOK
<1>7. \A t \in Waiters : (waiter'[t] = "awake") <=> (waiter[t] = "awake")
  BY <1>1
<1> QED BY <1>2, <1>4, <1>5, <1>6, <1>7

(* wait_event that succeeds: the flag was set unless the wait returned by itself,
   and is clear behind an auto-reset. *)
LEMMA WaitKeeps ==
    ASSUME EventsTypeOK, Slept, NEW t \in Waiters, WaitSucceeds(t)
    PROVE  /\ signal' \in [Events -> BOOLEAN] /\ waiter' = [waiter EXCEPT ![t] = "awake"]
           /\ signal' = IF BlockedOn(t) = "exec" THEN [signal EXCEPT !["exec"] = FALSE] ELSE signal
           /\ Slept'
           /\ ~Spurious /\ Woken => signal[BlockedOn(t)] /\ Woken'
<1>1. BlockedOn(t) \in Events
  BY DEF BlockedOn, Waiters, Multi, Events
<1>2. waiter' = [waiter EXCEPT ![t] = "awake"]
  BY DEF WaitSucceeds
<1>3. signal' = IF BlockedOn(t) = "exec" THEN [signal EXCEPT !["exec"] = FALSE] ELSE signal
  BY <1>1 DEF WaitSucceeds, Consumed, KeepsSignal, Manual, Events
<1>4. signal' \in [Events -> BOOLEAN] /\ \A e \in Events : signal'[e] => signal[e]
  BY <1>3 DEF EventsTypeOK, Events
<1>5. Slept'
  <2>1. \A u \in Waiters : waiter'[u] = "blocked" => waiter[u] = "blocked" /\ BlockedOn(u) \in Events
    BY <1>2 DEF EventsTypeOK, BlockedOn, Waiters, Multi, Events
  <2> QED BY <1>4, <2>1 DEF Slept
<1>6. ASSUME ~Spurious, Woken PROVE signal[BlockedOn(t)] /\ Woken'
  <2>1. signal[BlockedOn(t)]
    BY <1>6 DEF WaitSucceeds, Returns, Woken
  <2>2. \A u \in Waiters : waiter'[u] = "woken" => u # t /\ waiter[u] = "woken"
    BY <1>2 DEF EventsTypeOK
  <2>3. \A u \in Waiters \ {t} : BlockedOn(u) # BlockedOn(t)
    BY DEF BlockedOn, Waiters, Multi
  <2>4. \A u \in Waiters \ {t} : signal'[BlockedOn(u)] = signal[BlockedOn(u)]
    <3>1. CASE BlockedOn(t) = "exec"
      <4>1. signal' = [signal EXCEPT !["exec"] = FALSE]
        BY <1>3, <3>1
      <4>2. \A u \in Waiters \ {t} : BlockedOn(u) # "exec"
        BY <2>3, <3>1
      <4> QED BY <4>1, <4>2 DEF EventsTypeOK, BlockedOn, Waiters, Multi, Events
    <3>2. CASE BlockedOn(t) # "exec"
      BY <1>3, <3>2
    <3> QED BY <3>1, <3>2
  <2> QED BY <1>6, <2>1, <2>2, <2>4 DEF Woken
<1> QED BY <1>2, <1>3, <1>4, <1>5, <1>6

(* A thread blocks only on an event that is clear; a limit passes. *)
LEMMA BlockKeeps ==
    ASSUME EventsTypeOK, Slept, NEW t \in Waiters, Block(t) \/ WaitExpires(t)
    PROVE  /\ waiter' \in [Waiters -> {"awake", "blocked", "woken"}]
           /\ \A u \in Waiters \ {t} : waiter'[u] = waiter[u]
           /\ WaitExpires(t) => waiter'[t] = "awake"
           /\ UNCHANGED signal /\ Slept' /\ (Woken => Woken')
<1>1. /\ waiter' \in {[waiter EXCEPT ![t] = "blocked"], [waiter EXCEPT ![t] = "awake"]}
      /\ UNCHANGED signal
      /\ waiter' = [waiter EXCEPT ![t] = "blocked"] => ~signal[BlockedOn(t)] \/ waiter[t] = "blocked"
  BY DEF Block, WaitExpires, EventsTypeOK
<1>2. waiter' \in [Waiters -> {"awake", "blocked", "woken"}]
      /\ \A u \in Waiters \ {t} : waiter'[u] = waiter[u]
  BY <1>1 DEF EventsTypeOK
<1>3. waiter'[t] \in {"blocked", "awake"}
      /\ (waiter'[t] = "blocked" => ~signal[BlockedOn(t)])
  BY <1>1 DEF EventsTypeOK, Slept, Block, WaitExpires
<1>4. Slept' /\ (Woken => Woken')
  BY <1>1, <1>2, <1>3 DEF Slept, Woken
<1>5. WaitExpires(t) => waiter'[t] = "awake"
  BY DEF WaitExpires, EventsTypeOK
<1> QED BY <1>1, <1>2, <1>4, <1>5

-----------------------------------------------------------------------------
(* The steps. *)

(* wait_event_multi. *)
LEMMA SubInv ==
    ASSUME EventsTyped, NEW e \in Multi, SubStep(e)
    PROVE  EventsTyped' /\ (~Spurious /\ Woken /\ Hands => Woken' /\ Hands')
<1> USE DEF EventsTyped
<1>1. e \in Waiters /\ e \in {"exec", "term"} /\ BlockedOn(e) = e
  BY DEF Waiters, Multi, BlockedOn
<1>2. UNCHANGED <<receiver, timed, exec>>
  BY DEF SubStep, SubLoop, SubBlock, SubSucceeds, SubExpires, SubEnds
<1>3. CASE SubLoop(e) \/ SubEnds(e)
  <2>1. /\ UNCHANGED <<signal, waiter>> /\ flagAll' \in {flagAll, FALSE}
        /\ sub[e] \in {"loop", "won", "last"}
        /\ \E s \in {"wait", "last", "signalled", "timeout"} :
              /\ sub' = [sub EXCEPT ![e] = s]
              /\ (s = "signalled") <=> (sub[e] = "won")
    BY <1>3 DEF SubLoop, SubEnds, StopOthers, EventsTypeOK
  <2>2. flagAll' \in BOOLEAN
    BY <2>1 DEF EventsTypeOK
  <2>3. EventsTypeOK' /\ Joins'
    BY <1>2, <2>1, <2>2 DEF EventsTypeOK, Joins
  <2>4. Hands => Hands'
    BY <1>2, <2>1 DEF Hands, TakenUp, EventsTypeOK, Multi
  <2> QED BY <2>1, <2>3, <2>4 DEF Slept, Woken
<1>4. CASE SubBlock(e) \/ SubExpires(e)
  <2>1. /\ Block(e) \/ WaitExpires(e)
        /\ sub[e] = "wait" /\ flagAll' = flagAll
        /\ sub' \in {sub, [sub EXCEPT ![e] = "loop"]}
        /\ ~WaitExpires(e) => sub' = sub
    BY <1>4 DEF SubBlock, SubExpires
  <2>2. /\ waiter' \in [Waiters -> {"awake", "blocked", "woken"}]
        /\ \A u \in Waiters \ {e} : waiter'[u] = waiter[u]
        /\ WaitExpires(e) => waiter'[e] = "awake"
        /\ UNCHANGED signal /\ Slept' /\ (Woken => Woken')
    BY <1>1, <2>1, BlockKeeps
  <2>3. exec = "join"
    BY <2>1 DEF Joins
  <2>4. EventsTypeOK' /\ Joins'
    BY <1>1, <1>2, <2>1, <2>2, <2>3 DEF EventsTypeOK, Joins, Waiters, Multi
  <2>5. Hands => Hands'
    BY <1>2, <2>1, <2>2 DEF Hands, TakenUp, EventsTypeOK, Multi
  <2> QED BY <2>2, <2>4, <2>5
<1>5. CASE SubSucceeds(e)
  <2>1. WaitSucceeds(e) /\ sub[e] = "wait" /\ sub' = [sub EXCEPT ![e] = "won"] /\ flagAll' = flagAll
    BY <1>5 DEF SubSucceeds
  <2>2. /\ signal' \in [Events -> BOOLEAN] /\ waiter' = [waiter EXCEPT ![e] = "awake"]
        /\ signal' = IF e = "exec" THEN [signal EXCEPT !["exec"] = FALSE] ELSE signal
        /\ Slept'
        /\ ~Spurious /\ Woken => signal[e] /\ Woken'
    BY <1>1, <2>1, WaitKeeps
  <2>3. exec = "join"
    BY <2>1 DEF Joins
  <2>4. EventsTypeOK' /\ Joins'
    BY <1>1, <1>2, <2>1, <2>2, <2>3 DEF EventsTypeOK, Joins, Waiters, Multi
  <2>5. ASSUME ~Spurious, Woken, Hands PROVE Hands'
    <3>1. CASE e = "exec"
      BY <1>2, <2>1, <2>2, <2>3, <2>5, <3>1 DEF Hands, TakenUp, EventsTypeOK, Multi, Events
    <3>2. CASE e = "term"
      BY <1>2, <2>1, <2>2, <2>5, <3>2 DEF Hands, TakenUp, EventsTypeOK, Multi
    <3> QED BY <1>1, <3>1, <3>2
  <2> QED BY <2>2, <2>4, <2>5
<1> QED BY <1>3, <1>4, <1>5 DEF SubStep

(* exec_thread. *)
LEMMA ExecInv ==
    ASSUME EventsTyped, ExecStep
    PROVE  EventsTyped' /\ (Woken /\ Hands => Woken' /\ Hands')
<1> USE DEF EventsTyped
<1>1. UNCHANGED <<receiver, timed>>
  BY DEF ExecStep, BeginMulti, EndMulti, CallFunc
<1>2. CASE BeginMulti
  BY <1>1, <1>2 DEF BeginMulti, EventsTypeOK, Joins, Slept, Woken, Hands, TakenUp, Multi
<1>3. CASE EndMulti
  <2>1. /\ exec = "join" /\ exec' \in {"call", "ended"}
        /\ exec' = "call" => sub["exec"] = "signalled"
        /\ sub' = [e \in Multi |-> "none"]
        /\ UNCHANGED <<signal, waiter, flagAll>>
        /\ \A e \in Multi : sub[e] \in {"signalled", "timeout"}
    BY <1>3 DEF EndMulti, Winners
  <2>2. EventsTypeOK' /\ Joins'
    BY <1>1, <2>1 DEF EventsTypeOK, Joins
  <2>3. Hands => Hands'
    BY <1>1, <2>1 DEF Hands, TakenUp, Multi
  <2> QED BY <2>1, <2>2, <2>3 DEF Slept, Woken
<1>4. CASE CallFunc
  <2>1. SetEvent("comp") /\ exec = "call" /\ exec' = "wait" /\ UNCHANGED <<sub, flagAll>>
    BY <1>4 DEF CallFunc
  <2>2. "comp" \in Events
    BY DEF Events
  <2>3. /\ signal' \in [Events -> BOOLEAN] /\ signal'["comp"]
        /\ \A f \in Events \ {"comp"} : signal'[f] = signal[f]
        /\ waiter' \in [Waiters -> {"awake", "blocked", "woken"}]
        /\ \A t \in Waiters : (waiter'[t] = "awake") <=> (waiter[t] = "awake")
        /\ Slept' /\ (Woken => Woken')
    BY <2>1, <2>2, SetEventKeeps
  <2>4. EventsTypeOK' /\ Joins'
    BY <1>1, <2>1, <2>3 DEF EventsTypeOK, Joins, Waiters, Multi
  <2>5. Hands => Hands'
    <3>1. sub["exec"] = "none"
      BY <2>1 DEF Joins, Multi
    <3>2. signal'["exec"] = signal["exec"]
      BY <2>3 DEF Events
    <3> QED BY <1>1, <2>1, <2>3, <3>1, <3>2 DEF Hands, TakenUp
  <2> QED BY <2>3, <2>4, <2>5
<1> QED BY <1>2, <1>3, <1>4 DEF ExecStep

(* recv_thread. *)
LEMMA ReceiverInv ==
    ASSUME EventsTyped, ReceiverStep \/ Take \/ RecvExpires \/ Terminate
    PROVE  EventsTyped' /\ (~Spurious /\ Woken /\ Hands => Woken' /\ Hands')
<1> USE DEF EventsTyped
<1>1. UNCHANGED <<exec, sub, flagAll>>
  BY DEF ReceiverStep, Take, RecvExpires, Terminate, Hand, RecvBlock, RecvSucceeds, Respond, Joined
<1>2. "recv" \in Waiters /\ BlockedOn("recv") = "comp" /\ {"comp", "exec", "term"} = Events
      /\ \A t \in Waiters \ {"recv"} : BlockedOn(t) \in {"exec", "term"} /\ t \in Multi
  BY DEF Waiters, BlockedOn, Events, Multi
<1>3. CASE Take
  <2>1. /\ receiver = "idle" /\ signal["comp"] /\ receiver' = "handing" /\ timed' \in BOOLEAN
        /\ signal' = [signal EXCEPT !["comp"] = FALSE] /\ UNCHANGED waiter
    BY <1>3, EventsAssumption DEF Take, ResetEvent
  <2>2. waiter["recv"] = "awake"
    BY <2>1 DEF EventsTypeOK
  <2>3. /\ signal' \in [Events -> BOOLEAN] /\ ~signal'["comp"]
        /\ signal'["exec"] = signal["exec"] /\ signal'["term"] = signal["term"]
    BY <1>2, <2>1 DEF EventsTypeOK
  <2>4. EventsTypeOK' /\ Joins'
    BY <1>1, <2>1, <2>2, <2>3 DEF EventsTypeOK, Joins
  <2>5. Slept' /\ (Woken => Woken')
    BY <1>2, <2>1, <2>2, <2>3 DEF Slept, Woken
  <2>6. Hands => Hands'
    BY <1>1, <2>1, <2>3 DEF Hands, TakenUp
  <2> QED BY <2>4, <2>5, <2>6
<1>4. CASE Hand \/ Terminate
  <2>1. PICK e \in {"exec", "term"} :
           /\ SetEvent(e) /\ timed' = timed
           /\ e = "exec" => receiver = "handing" /\ receiver' = "wait"
           /\ e = "term" => receiver = "idle" /\ receiver' = "join"
    BY <1>4 DEF Hand, Terminate
  <2>2. e \in Events
    BY <1>2
  <2>3. /\ signal' \in [Events -> BOOLEAN] /\ signal'[e]
        /\ \A f \in Events \ {e} : signal'[f] = signal[f]
        /\ waiter' \in [Waiters -> {"awake", "blocked", "woken"}]
        /\ \A t \in Waiters : (waiter'[t] = "awake") <=> (waiter[t] = "awake")
        /\ Slept' /\ (Woken => Woken')
    BY <2>1, <2>2, SetEventKeeps
  <2>4. EventsTypeOK' /\ Joins'
    BY <1>1, <1>2, <2>1, <2>3 DEF EventsTypeOK, Joins, Waiters
  <2>5. Hands => Hands'
    BY <1>1, <1>2, <2>1, <2>3 DEF Hands, TakenUp
  <2> QED BY <2>3, <2>4, <2>5
<1>5. CASE RecvBlock \/ RecvExpires
  <2>1. /\ Block("recv") \/ WaitExpires("recv")
        /\ receiver = "wait" /\ receiver' \in {"wait", "idle"} /\ timed' = timed
        /\ ~WaitExpires("recv") => receiver' = "wait"
    BY <1>5 DEF RecvBlock, RecvExpires
  <2>2. /\ waiter' \in [Waiters -> {"awake", "blocked", "woken"}]
        /\ \A u \in Waiters \ {"recv"} : waiter'[u] = waiter[u]
        /\ WaitExpires("recv") => waiter'["recv"] = "awake"
        /\ UNCHANGED signal /\ Slept' /\ (Woken => Woken')
    BY <1>2, <2>1, BlockKeeps
  <2>3. EventsTypeOK' /\ Joins'
    BY <1>1, <1>2, <2>1, <2>2 DEF EventsTypeOK, Joins, Waiters, Multi
  <2>4. Hands => Hands'
    BY <1>1, <2>1, <2>2 DEF Hands, TakenUp
  <2> QED BY <2>2, <2>3, <2>4
<1>6. CASE RecvSucceeds
  <2>1. WaitSucceeds("recv") /\ receiver = "wait" /\ receiver' = "respond" /\ timed' = timed
    BY <1>6 DEF RecvSucceeds
  <2>2. /\ signal' \in [Events -> BOOLEAN] /\ waiter' = [waiter EXCEPT !["recv"] = "awake"]
        /\ signal' = signal /\ Slept'
        /\ ~Spurious /\ Woken => signal["comp"] /\ Woken'
    BY <1>2, <2>1, WaitKeeps
  <2>3. EventsTypeOK' /\ Joins'
    BY <1>1, <1>2, <2>1, <2>2 DEF EventsTypeOK, Joins, Waiters
  <2>4. ~Spurious /\ Woken /\ Hands => Hands'
    BY <1>1, <2>1, <2>2 DEF Hands, TakenUp
  <2> QED BY <2>2, <2>3, <2>4
<1>7. CASE Respond \/ Joined
  <2>1. /\ receiver \in {"respond", "join"} /\ receiver' \in {"idle", "ended"}
        /\ UNCHANGED <<signal, waiter, timed>>
    BY <1>7 DEF Respond, Joined
  <2> QED BY <1>1, <2>1 DEF EventsTypeOK, Joins, Slept, Woken, Hands, TakenUp
<1> QED BY <1>3, <1>4, <1>5, <1>6, <1>7 DEF ReceiverStep

-----------------------------------------------------------------------------
(* create_event and the start of the threads. *)
LEMMA InitInv == EventsInit => EventsInv
<1> SUFFICES ASSUME EventsInit PROVE EventsInv
  OBVIOUS
<1>1. EventsTypeOK
  <2>1. timed \in BOOLEAN
    BY EventsAssumption DEF EventsInit
  <2>2. signal \in [Events -> BOOLEAN]
    BY DEF EventsInit, InitSignal
  <2> QED BY <2>1, <2>2 DEF EventsInit, EventsTypeOK, Waiters, Multi
<1>2. Joins /\ Slept /\ Woken /\ Hands
  BY DEF EventsInit, InitSignal, Joins, Slept, Woken, Hands, TakenUp, Multi, Events
<1> QED BY <1>1, <1>2 DEF EventsInv, EventsTyped

(* Every step keeps the types and loses no signal. *)
LEMMA NextTyped == EventsTyped /\ [EventsNext]_eventVars => EventsTyped'
<1> SUFFICES ASSUME EventsTyped, [EventsNext]_eventVars PROVE EventsTyped'
  OBVIOUS
<1>1. CASE EventsNext
  BY <1>1, SubInv, ExecInv, ReceiverInv DEF EventsNext
<1>2. CASE UNCHANGED eventVars
  BY <1>2 DEF eventVars, EventsTyped, EventsTypeOK, Joins, Slept
<1> QED BY <1>1, <1>2

(* And, when no wait returns by itself, the request stays in one hand. *)
LEMMA NextInv == ~Spurious /\ EventsInv /\ [EventsNext]_eventVars => EventsInv'
<1> SUFFICES ASSUME ~Spurious, EventsInv, [EventsNext]_eventVars PROVE EventsInv'
  OBVIOUS
<1>1. CASE EventsNext
  BY <1>1, SubInv, ExecInv, ReceiverInv DEF EventsNext, EventsInv
<1>2. CASE UNCHANGED eventVars
  BY <1>2 DEF eventVars, EventsInv, EventsTyped, EventsTypeOK, Joins, Slept, Woken, Hands, TakenUp
<1> QED BY <1>1, <1>2

(* No thread sleeps over a signal, whether or not waits return by themselves
   (dn_thread.c:381). *)
THEOREM SignalsAreNotLost == EventsSpec => []NoLostSignal
<1>1. EventsInv => EventsTyped
  BY DEF EventsInv
<1>2. EventsTyped => NoLostSignal
  BY DEF EventsTyped, Slept, NoLostSignal
<1> QED BY <1>1, <1>2, InitInv, NextTyped, PTL DEF EventsSpec

(* recv_thread sends last_send only when exec_thread has finished with it. *)
THEOREM ResponsesAreFinished == ~Spurious => (EventsSpec => []RespondsFinished)
<1> SUFFICES ASSUME ~Spurious PROVE EventsSpec => []RespondsFinished
  OBVIOUS
<1>1. EventsInv => RespondsFinished
  BY DEF EventsInv, Hands, RespondsFinished
<1>2. EventsInv /\ [EventsNext]_eventVars => EventsInv'
  BY NextInv
<1> QED BY <1>1, <1>2, InitInv, PTL DEF EventsSpec

-----------------------------------------------------------------------------
(* Only taking up comp_evt, the end of a wait for both events and the end of a
   function move the request; every other step is none of HandOver. *)
LEMMA PromiseStep ==
    ~Spurious /\ EventsInv /\ [EventsNext]_eventVars => [HandPromise!Next]_(HandPromise!vars)
<1> SUFFICES ASSUME ~Spurious, EventsInv, [EventsNext]_eventVars PROVE [HandPromise!Next]_(HandPromise!vars)
  OBVIOUS
<1> USE DEF EventsInv, EventsTyped
<1> USE DEF HandPromise!Next, HandPromise!vars
<1>1. CASE Take
  <2>1. /\ signal["comp"] /\ ~signal'["comp"] /\ exec # "call" /\ UNCHANGED exec
    BY <1>1 DEF Take, ResetEvent, Hands, EventsTypeOK, Events
  <2> QED BY <2>1 DEF HandPromise!HandTo
<1>2. CASE EndMulti
  <2>1. /\ exec = "join" /\ exec' \in {"call", "ended"} /\ UNCHANGED signal
        /\ exec' = "call" => TakenUp
    BY <1>2 DEF EndMulti, Winners, TakenUp
  <2>2. exec' = "call" => ~signal["comp"]
    BY <2>1 DEF Hands
  <2> QED BY <2>1, <2>2 DEF HandPromise!Start, HandPromise!End
<1>3. CASE CallFunc
  <2>1. exec = "call" /\ exec' = "wait" /\ signal'["comp"]
    BY <1>3 DEF CallFunc, SetEvent, EventsTypeOK, Events
  <2> QED BY <2>1 DEF HandPromise!Finish
<1>4. ASSUME (exec' = "call") <=> (exec = "call"), (exec' = "ended") <=> (exec = "ended"),
             signal'["comp"] = signal["comp"]
      PROVE  [HandPromise!Next]_(HandPromise!vars)
  BY <1>4
<1>5. CASE BeginMulti \/ UNCHANGED eventVars
  BY <1>4, <1>5 DEF BeginMulti, eventVars
<1>6. CASE \E e \in Multi : SubStep(e)
  <2>1. PICK e \in Multi : SubStep(e)
    BY <1>6
  <2>2. e \in Waiters /\ BlockedOn(e) = e /\ e # "comp"
    BY DEF Waiters, Multi, BlockedOn
  <2>3. signal'["comp"] = signal["comp"]
    BY <2>1, <2>2 DEF SubStep, SubLoop, SubBlock, SubSucceeds, SubExpires, SubEnds, Block, WaitExpires,
                      WaitSucceeds, Consumed, EventsTypeOK, Events
  <2>4. UNCHANGED exec
    BY <2>1 DEF SubStep, SubLoop, SubBlock, SubSucceeds, SubExpires, SubEnds
  <2> QED BY <1>4, <2>3, <2>4
<1>7. CASE ReceiverStep \/ RecvExpires \/ Terminate
  <2>1. signal'["comp"] = signal["comp"]
    BY <1>7 DEF ReceiverStep, RecvExpires, Terminate, Hand, RecvBlock, RecvSucceeds, Respond, Joined,
                SetEvent, Block, WaitExpires, WaitSucceeds, Consumed, BlockedOn, KeepsSignal, Manual,
                EventsTypeOK, Events
  <2>2. UNCHANGED exec
    BY <1>7 DEF ReceiverStep, RecvExpires, Terminate, Hand, RecvBlock, RecvSucceeds, Respond, Joined
  <2> QED BY <1>4, <2>1, <2>2
<1> QED BY <1>1, <1>2, <1>3, <1>5, <1>6, <1>7 DEF EventsNext, ExecStep

(* What HandedOver says of safety: the two threads with their three events begin
   as HandOver begins and take only its steps, so that a request is executed once,
   never unasked, and the next is taken only when it is finished. *)
THEOREM HandsOverSafely ==
    ~Spurious => (EventsSpec => HandPromise!Safety)
<1> SUFFICES ASSUME ~Spurious
             PROVE  EventsSpec => HandPromise!Safety
  OBVIOUS
<1>1. EventsInit => HandPromise!Init
  BY DEF EventsInit, InitSignal, Events, HandPromise!Init
<1>2. EventsInv /\ [EventsNext]_eventVars => EventsInv' /\ [HandPromise!Next]_(HandPromise!vars)
  BY NextInv, PromiseStep
<1> QED BY <1>1, <1>2, InitInv, PTL DEF EventsSpec, HandPromise!Safety

-----------------------------------------------------------------------------
(* Sequences. *)

(* RemoveAt, by its elements. *)
LEMMA RemoveAtIs ==
    ASSUME NEW S, NEW s \in Seq(S), NEW i \in DOMAIN s
    PROVE  /\ RemoveAt(s, i) \in Seq(S) /\ DOMAIN RemoveAt(s, i) = 1..Len(s) - 1
           /\ Len(RemoveAt(s, i)) = Len(s) - 1
           /\ \A k \in 1..Len(s) - 1 :
                  RemoveAt(s, i)[k] = IF k < i THEN s[k] ELSE s[k + 1]
<1> DEFINE a == SubSeq(s, 1, i - 1)
           b == SubSeq(s, i + 1, Len(s))
<1>1. i \in 1..Len(s) /\ Len(s) \in Nat
  OBVIOUS
<1>2. a \in Seq(S) /\ Len(a) = i - 1 /\ \A k \in 1..i - 1 : a[k] = s[k]
  BY <1>1
<1>3. b \in Seq(S) /\ Len(b) = Len(s) - i /\ \A k \in 1..Len(s) - i : b[k] = s[i + k]
  BY <1>1
<1>4. RemoveAt(s, i) = a \o b
  BY DEF RemoveAt
<1> HIDE DEF a, b
<1>5. a \o b \in Seq(S) /\ Len(a \o b) = Len(s) - 1
  BY <1>1, <1>2, <1>3
<1>7. DOMAIN (a \o b) = 1..Len(s) - 1
  BY <1>5
<1>6. ASSUME NEW k \in 1..Len(s) - 1
      PROVE  (a \o b)[k] = IF k < i THEN s[k] ELSE s[k + 1]
  <2>1. CASE k < i
    BY <1>1, <1>2, <1>3, <2>1
  <2>2. CASE ~(k < i)
    <3>1. (a \o b)[k] = b[k - (i - 1)]
      <4>1. k \in Int /\ Len(a) < k /\ k <= Len(a) + Len(b)
        BY <1>1, <1>2, <1>3, <2>2
      <4>2. a \in Seq(S) /\ b \in Seq(S)
        BY <1>2, <1>3
      <4>3. (a \o b)[k] = b[k - Len(a)]
        BY <4>1, <4>2
      <4> QED BY <1>2, <4>3
    <3>2. k - (i - 1) \in 1..Len(s) - i /\ i + (k - (i - 1)) = k + 1
      BY <1>1, <2>2
    <3> QED BY <1>3, <2>2, <3>1, <3>2
  <2> QED BY <2>1, <2>2
<1> HIDE DEF a, b
<1> QED BY <1>4, <1>5, <1>6, <1>7

(* No elements. *)
LEMMA EmptyIs ==
    ASSUME NEW S
    PROVE  \E s \in Seq(S) : s = <<>> /\ 1 \in 1..Len(s) + 1
<1>1. <<>> \in Seq(S) /\ 1 \in 1..Len(<<>>) + 1
  OBVIOUS
<1> QED BY <1>1

(* A new head. *)
LEMMA PrependIs ==
    ASSUME NEW S, NEW s \in Seq(S), NEW n \in S
    PROVE  /\ <<n>> \o s \in Seq(S) /\ Len(<<n>> \o s) = Len(s) + 1 /\ Len(s) \in Nat
           /\ (<<n>> \o s)[1] = n
           /\ \A k \in 1..Len(s) : (<<n>> \o s)[k + 1] = s[k]
  OBVIOUS

-----------------------------------------------------------------------------
(* BcapRelations. *)

(* Where the thread of a child is decides the list that it is in. *)
Serving == {n \in Nodes : child[n] \in {"run", "leave"}}
Leaving == {n \in Nodes : child[n] \in {"left", "ended", "joined"}}

(* The children list is s, each once and each with the way back to its younger
   brother; the delete list is d, of which accept_thread has taken apart what is
   before the k-th. *)
OnceEach(s) == \A i, j \in DOMAIN s : s[i] = s[j] => i = j
ChildrenList(s) ==
    /\ Along(s, node1[Root]) /\ OnceEach(s)
    /\ \A i \in DOMAIN s : node1[s[i]] = IF i = 1 THEN Null ELSE s[i - 1]
    /\ Serving = {s[i] : i \in DOMAIN s}
DeleteList(d, k) ==
    /\ Along(d, node2[Root]) /\ OnceEach(d)
    /\ Leaving = {d[i] : i \in k..Len(d)}
    /\ IF mutex = Null THEN k = 1 ELSE cur = IF k <= Len(d) THEN d[k] ELSE Null
Counted(s, d, k) == Len(s) + Len(d) <= ClientMax /\ numChild = Len(s) + Len(d) - (k - 1)
Shape(s, d, k) == ChildrenList(s) /\ DeleteList(d, k) /\ Counted(s, d, k)
ShapeInv == \E s, d \in Seq(Nodes) : \E k \in 1..Len(d) + 1 : Shape(s, d, k)

(* The steps of accept_thread, by what exists at each. *)
Control ==
    /\ allocated = Serving \cup Leaving
    /\ mutex # Null <=> accept \in {"deleting", "lastDeleting"}
    /\ accept \in {"signal", "join"} => cur \in allocated
    /\ accept \in {"lastDelete", "lastDeleting", "ended", "none"} => Serving = {}
    /\ accept \in {"ended", "none"} => Leaving = {}
    /\ server = "closed" => accept = "none"

Types ==
    /\ server \in {"closed", "open", "closing"}
    /\ node1 \in [Server -> Nodes \cup {Null}] /\ node2 \in [Server -> Nodes \cup {Null}]
    /\ allocated \subseteq Nodes /\ term \subseteq Server
    /\ child \in [Nodes -> {"none", "run", "leave", "left", "ended", "joined"}]
    /\ mutex \in {Null, "accept_thread"}
    /\ accept \in {"none", "wait", "accept", "delete", "deleting", "exit", "signal",
                   "join", "lastDelete", "lastDeleting", "ended"}
    /\ cur \in Nodes \cup {Null}

ListsInv == Types /\ ShapeInv /\ Control

LEMMA ListsInit == Init => ListsInv
<1> SUFFICES ASSUME Init PROVE ListsInv
  OBVIOUS
<1>1. Types
  BY RelationsAssumption DEF Init, Types
<1>2. Serving = {} /\ Leaving = {}
  BY DEF Init, Serving, Leaving
<1>3. Control
  BY <1>2 DEF Init, Control
<1>4. Shape(<<>>, <<>>, 1)
  BY <1>2, RelationsAssumption
     DEF Init, Shape, ChildrenList, DeleteList, Counted, Along, OnceEach, Server, RelationsAssumption
<1>5. <<>> \in Seq(Nodes) /\ 1 \in 1..Len(<<>>) + 1
  OBVIOUS
<1>6. ShapeInv
  BY <1>4, <1>5 DEF ShapeInv
<1> QED BY <1>1, <1>3, <1>6 DEF ListsInv

(* A step that links nothing and changes no list. *)
LEMMA ShapeKept ==
    ASSUME ShapeInv, UNCHANGED <<lists, mutex>>, Serving' = Serving, Leaving' = Leaving,
           mutex # Null => cur' = cur
    PROVE  ShapeInv'
<1>1. PICK s \in Seq(Nodes), d \in Seq(Nodes) : \E k \in 1..Len(d) + 1 : Shape(s, d, k)
  BY DEF ShapeInv
<1>2. PICK k \in 1..Len(d) + 1 : Shape(s, d, k)
  BY <1>1
<1>3. Shape(s, d, k)'
  <2>1. ChildrenList(s)'
    BY <1>2 DEF Shape, ChildrenList, Along, lists
  <2>2. DeleteList(d, k)'
    BY <1>2 DEF Shape, DeleteList, Along, lists
  <2>3. Counted(s, d, k)'
    BY <1>2 DEF Shape, Counted, lists
  <2> QED BY <2>1, <2>2, <2>3 DEF Shape
<1> QED BY <1>3 DEF ShapeInv

(* The application, and the steps of accept_thread that touch no list. *)
LEMMA WaitKeepsLists ==
    ASSUME ListsInv, Open \/ Close \/ Wait \/ AcceptNone \/ ExitSignal \/ DeleteSignal
    PROVE  ListsInv'
<1>1. UNCHANGED <<lists, mutex, child, cur, allocated>>
  BY DEF Open, Close, Wait, AcceptNone, ExitSignal, DeleteSignal, lists, accepting
<1>2. Serving' = Serving /\ Leaving' = Leaving
  BY <1>1 DEF Serving, Leaving
<1>3. ShapeInv'
  BY <1>1, <1>2, ShapeKept DEF ListsInv
<1>4. Types'
  <2>1. /\ server' \in {"closed", "open", "closing"}
        /\ accept' \in {"none", "wait", "accept", "delete", "deleting", "exit", "signal",
                        "join", "lastDelete", "lastDeleting", "ended"}
    BY <1>1 DEF ListsInv, Types, Open, Close, Wait, AcceptNone, ExitSignal, DeleteSignal, accepting
  <2>2. (ExitSignal => cur \in Nodes) /\ (DeleteSignal => cur \in Nodes)
    BY DEF ListsInv, Types, Control, ExitSignal, DeleteSignal
  <2>3. term' \subseteq Server
    BY <2>2 DEF ListsInv, Types, Open, Close, Wait, AcceptNone, ExitSignal, DeleteSignal, Signalled, Server
  <2> QED BY <1>1, <2>1, <2>3 DEF ListsInv, Types, lists
<1>5. Control'
  BY <1>1, <1>2 DEF ListsInv, Types, Control, Open, Close, Wait, AcceptNone, ExitSignal,
              DeleteSignal, lists, accepting
<1> QED BY <1>3, <1>4, <1>5 DEF ListsInv

(* ExitNext takes the youngest brother, if there is one. *)
LEMMA ExitKeepsLists ==
    ASSUME ListsInv, ExitNext \/ ExitJoin
    PROVE  ListsInv'
<1>1. UNCHANGED <<server, lists, mutex, allocated, term>> /\ mutex = Null
  BY DEF ListsInv, Control, ExitNext, ExitJoin
<1>2. Serving' = Serving /\ Leaving' = Leaving
  BY DEF ListsInv, Types, ExitNext, ExitJoin, Serving, Leaving
<1>3. ShapeInv'
  BY <1>1, <1>2, ShapeKept DEF ListsInv
<1>4. Types'
  <2>1. cur' \in Nodes \cup {Null}
    BY DEF ListsInv, Types, ExitNext, ExitJoin, NextToJoin, Server
  <2>2. accept' \in {"lastDelete", "signal", "exit"}
    BY DEF ExitNext, ExitJoin
  <2>3. child' \in [Nodes -> {"none", "run", "leave", "left", "ended", "joined"}]
    BY DEF ListsInv, Types, ExitNext, ExitJoin
  <2> QED BY <1>1, <2>1, <2>2, <2>3 DEF ListsInv, Types, lists
<1>5. CASE ExitNext
  <2>1. PICK s \in Seq(Nodes), d \in Seq(Nodes), k \in Int : Shape(s, d, k)
    BY DEF ListsInv, ShapeInv
  <2>2. node1[Root] = IF s = <<>> THEN Null ELSE s[1]
    BY <2>1 DEF Shape, ChildrenList, Along
  <2>3. CASE s = <<>>
    <3>1. Serving = {}
      BY <2>1, <2>3 DEF Shape, ChildrenList
    <3>2. accept' = "lastDelete"
      BY <1>5, <2>2, <2>3 DEF ExitNext, NextToJoin
    <3>3. Control'
      BY <1>1, <1>2, <1>5, <3>1, <3>2 DEF ListsInv, Control, ExitNext
    <3> QED BY <1>3, <1>4, <3>3 DEF ListsInv
  <2>4. CASE s # <<>>
    <3>1. 1 \in DOMAIN s /\ s[1] \in Nodes
      BY <2>4
    <3>2. s[1] \in Serving /\ s[1] # Null
      BY <2>1, <3>1, RelationsAssumption DEF Shape, ChildrenList, RelationsAssumption
    <3>3. accept' = "signal" /\ cur' \in Serving
      BY <1>5, <2>2, <2>4, <3>2 DEF ExitNext, NextToJoin
    <3>4. Control'
      BY <1>1, <1>2, <1>5, <3>3 DEF ListsInv, Control, ExitNext
    <3> QED BY <1>3, <1>4, <3>4 DEF ListsInv
  <2> QED BY <2>3, <2>4
<1>6. CASE ExitJoin
  <2>1. Control'
    BY <1>1, <1>2, <1>6 DEF ListsInv, Control, ExitJoin
  <2> QED BY <1>3, <1>4, <2>1 DEF ListsInv
<1> QED BY <1>5, <1>6

(* A child's thread leaves the loop, and ends. *)
LEMMA ThreadKeepsLists ==
    ASSUME ListsInv, NEW n \in Nodes, HangUp(n) \/ ThreadEnds(n)
    PROVE  ListsInv'
<1>1. UNCHANGED <<server, lists, mutex, allocated, term, accept, cur>>
  BY DEF HangUp, ThreadEnds, accepting
<1>2. Serving' = Serving /\ Leaving' = Leaving
  BY DEF ListsInv, Types, HangUp, ThreadEnds, Serving, Leaving
<1>3. ShapeInv'
  BY <1>1, <1>2, ShapeKept DEF ListsInv
<1>4. child' \in [Nodes -> {"none", "run", "leave", "left", "ended", "joined"}]
  BY DEF ListsInv, Types, HangUp, ThreadEnds
<1>5. Types'
  BY <1>1, <1>4 DEF ListsInv, Types, lists
<1>6. Control'
  BY <1>1, <1>2 DEF ListsInv, Control
<1> QED BY <1>3, <1>5, <1>6 DEF ListsInv

(* The list of a closed server is empty. *)
LEMMA CloseEndsKeepsLists ==
    ASSUME ListsInv, CloseEnds
    PROVE  ListsInv' /\ \A r \in Seq(Nodes) : r = <<>> => Shape(r, r, 1)'
<1>1. Serving = {} /\ Leaving = {} /\ mutex = Null /\ UNCHANGED <<allocated, child, mutex, cur>>
  BY DEF ListsInv, Control, CloseEnds
<1>2. Serving' = {} /\ Leaving' = {}
  BY <1>1 DEF Serving, Leaving
<1>3. Types'
  BY <1>1, RelationsAssumption DEF ListsInv, Types, CloseEnds, Server, RelationsAssumption
<1>4. Control'
  BY <1>1, <1>2 DEF ListsInv, Control, CloseEnds
<1>5. node1'[Root] = Null /\ node2'[Root] = Null /\ numChild' = 0
  BY DEF ListsInv, Types, CloseEnds, Server
<1>6. ASSUME NEW r \in Seq(Nodes), r = <<>> PROVE Shape(r, r, 1)'
  BY <1>1, <1>2, <1>5, <1>6, RelationsAssumption
     DEF Shape, ChildrenList, DeleteList, Counted, Along, OnceEach, RelationsAssumption
<1>7. \E r \in Seq(Nodes) : r = <<>> /\ 1 \in 1..Len(r) + 1
  BY EmptyIs
<1>8. ShapeInv'
  BY <1>6, <1>7 DEF ShapeInv
<1> QED BY <1>3, <1>4, <1>6, <1>8 DEF ListsInv

(* ADD_CHILD, of a child that gets its events. *)
LEMMA AddKeepsLists ==
    ASSUME ListsInv, ~AddFails, NEW n \in Nodes, AddChild(n)
    PROVE  /\ ListsInv'
           /\ \A s, d \in Seq(Nodes) : \A r : r = <<n>> \o s /\ Shape(s, d, 1) => Shape(r, d, 1)'
<1>1. /\ mutex = Null /\ n \notin allocated /\ accept = "accept" /\ accept' = "delete"
      /\ numChild < ClientMax /\ numChild' = numChild + 1
      /\ allocated' = allocated \cup {n} /\ term' = term \ {n}
      /\ child' = [child EXCEPT ![n] = "run"]
      /\ UNCHANGED <<server, mutex, cur>>
  BY DEF AddChild, Room
<1>2. n \notin Serving /\ n \notin Leaving
  BY <1>1 DEF ListsInv, Control
<1>3. Serving' = Serving \cup {n} /\ Leaving' = Leaving
  BY <1>1, <1>2 DEF ListsInv, Types, Serving, Leaving
<1>4. node1' \in [Server -> Nodes \cup {Null}] /\ node2' \in [Server -> Nodes \cup {Null}]
  BY DEF ListsInv, Types, AddChild, Link, Server
<1>5. Types'
  BY <1>1, <1>4 DEF ListsInv, Types
<1>6. Control'
  BY <1>1, <1>3 DEF ListsInv, Control
<1>7. n \in Server /\ Root \in Server /\ n # Root /\ Null \notin Server
  BY RelationsAssumption DEF Server, RelationsAssumption
<1>8. /\ node2' = [node2 EXCEPT ![n] = node1[Root]]
      /\ node1'[Root] = n
      /\ \A m \in Server \ {Root} :
            node1'[m] = IF m = node1[Root] THEN n ELSE IF m = n THEN Null ELSE node1[m]
  BY <1>7 DEF ListsInv, Types, AddChild, Link
<1>9. ASSUME NEW s \in Seq(Nodes), NEW d \in Seq(Nodes), NEW r,
             r = <<n>> \o s, Shape(s, d, 1)
      PROVE  Shape(r, d, 1)'
  <2>1. /\ r \in Seq(Nodes) /\ Len(r) = Len(s) + 1 /\ Len(s) \in Nat /\ r[1] = n
        /\ \A k \in 1..Len(s) : r[k + 1] = s[k]
    BY <1>9, PrependIs
  <2>2. \A i \in DOMAIN s : s[i] \in Nodes /\ s[i] # n /\ s[i] # Root
    BY <1>2, <1>7, <1>9, RelationsAssumption DEF Shape, ChildrenList, RelationsAssumption
  <2>3. \A i \in DOMAIN d : d[i] \in Nodes /\ d[i] # n /\ d[i] # Root
    BY <1>2, <1>7, <1>9, RelationsAssumption DEF Shape, DeleteList, RelationsAssumption
  <2>4. \A i \in DOMAIN r : (i = 1 /\ r[i] = n) \/ (i # 1 /\ i - 1 \in DOMAIN s /\ r[i] = s[i - 1])
    <3> SUFFICES ASSUME NEW i \in DOMAIN r, i # 1 PROVE i - 1 \in DOMAIN s /\ r[i] = s[i - 1]
      BY <2>1
    <3>1. i \in Int /\ i - 1 \in 1..Len(s) /\ (i - 1) + 1 = i
      BY <2>1
    <3>2. r[(i - 1) + 1] = s[i - 1]
      BY <2>1, <3>1
    <3> QED BY <3>1, <3>2
  <2>5. OnceEach(r)
    BY <1>9, <2>1, <2>2, <2>4 DEF Shape, ChildrenList, OnceEach
  <2>6. node1[Root] = IF s = <<>> THEN Null ELSE s[1]
    BY <1>9 DEF Shape, ChildrenList, Along
  <2>7. Along(r, node1[Root])'
    <3>1. ASSUME NEW i \in DOMAIN r PROVE node2'[r[i]] = IF i = Len(r) THEN Null ELSE r[i + 1]
      <4>1. CASE i = 1
        <5>1. node2'[n] = node1[Root]
          BY <1>7, <1>8 DEF ListsInv, Types
        <5>2. s # <<>> => r[1 + 1] = s[1]
          BY <2>1
        <5> QED BY <2>1, <2>6, <4>1, <5>1, <5>2
      <4>2. CASE i # 1
        <5>1. i - 1 \in DOMAIN s /\ r[i] = s[i - 1]
          BY <2>4, <4>2
        <5>2. node2'[r[i]] = node2[s[i - 1]]
          BY <1>8, <2>2, <5>1 DEF ListsInv, Types, Server
        <5>3. node2[s[i - 1]] = IF i - 1 = Len(s) THEN Null ELSE s[i]
          <6>1. \A j \in DOMAIN s : node2[s[j]] = IF j = Len(s) THEN Null ELSE s[j + 1]
            BY <1>9 DEF Shape, ChildrenList, Along
          <6>2. (i - 1) + 1 = i
            BY <2>1
          <6> QED BY <5>1, <6>1, <6>2
        <5>4. i # Len(r) => i \in 1..Len(s) /\ r[i + 1] = s[i]
          BY <2>1
        <5> QED BY <2>1, <5>1, <5>2, <5>3, <5>4
      <4> QED BY <4>1, <4>2
    <3>2. r # <<>>
      BY <2>1
    <3> QED BY <1>8, <2>1, <3>1, <3>2 DEF Along
  <2>8. ASSUME NEW i \in DOMAIN r
        PROVE  node1'[r[i]] = IF i = 1 THEN Null ELSE r[i - 1]
    <3>1. CASE i = 1
      BY <1>2, <1>7, <1>8, <2>1, <2>2, <2>6, <3>1
    <3>2. CASE i # 1
      <4>1. i - 1 \in DOMAIN s /\ r[i] = s[i - 1] /\ r[i] \in Server \ {Root} /\ r[i] # n
        BY <2>2, <2>4, <3>2 DEF Server
      <4>2. node1[s[i - 1]] = IF i - 1 = 1 THEN Null ELSE s[i - 2]
        <5>1. \A j \in DOMAIN s : node1[s[j]] = IF j = 1 THEN Null ELSE s[j - 1]
          BY <1>9 DEF Shape, ChildrenList
        <5>2. (i - 1) - 1 = i - 2
          OBVIOUS
        <5> QED BY <4>1, <5>1, <5>2
      <4>3. CASE i = 2
        BY <1>8, <2>1, <2>6, <4>1, <4>3
      <4>4. CASE i # 2
        <5>1. s[i - 1] # s[1] /\ s # <<>> /\ i - 2 \in 1..Len(s) /\ r[i - 1] = s[i - 2]
          BY <1>9, <2>1, <3>2, <4>1, <4>4 DEF Shape, ChildrenList, OnceEach
        <5> QED BY <1>8, <2>6, <3>2, <4>1, <4>2, <4>4, <5>1
      <4> QED BY <4>3, <4>4
    <3> QED BY <3>1, <3>2
  <2>9. Serving' = {r[i] : i \in DOMAIN r}
    <3>1. \A i \in DOMAIN s : i + 1 \in DOMAIN r /\ r[i + 1] = s[i]
      BY <2>1
    <3>2. 1 \in DOMAIN r
      BY <2>1
    <3>3. Serving = {s[i] : i \in DOMAIN s}
      BY <1>9 DEF Shape, ChildrenList
    <3>4. \A m \in Serving \cup {n} : \E i \in DOMAIN r : r[i] = m
      BY <2>1, <3>1, <3>2, <3>3
    <3>5. \A i \in DOMAIN r : r[i] \in Serving \cup {n}
      BY <2>4, <3>3
    <3> QED BY <1>3, <3>4, <3>5
  <2>10. ChildrenList(r)'
    BY <2>5, <2>7, <2>8, <2>9 DEF ChildrenList, OnceEach
  <2>11. \A i \in DOMAIN d : node2'[d[i]] = node2[d[i]]
    BY <1>8, <2>3 DEF ListsInv, Types, Server
  <2>12. node2'[Root] = node2[Root]
    BY <1>7, <1>8 DEF ListsInv, Types
  <2>13. DeleteList(d, 1)'
    BY <1>1, <1>3, <1>9, <2>11, <2>12 DEF Shape, DeleteList, Along
  <2>14. Counted(r, d, 1)'
    BY <1>1, <1>9, <2>1, RelationsAssumption DEF Shape, Counted, RelationsAssumption
  <2> QED BY <2>10, <2>13, <2>14 DEF Shape
<1>10. PICK s \in Seq(Nodes), d \in Seq(Nodes) : \E k \in 1..Len(d) + 1 : Shape(s, d, k)
  BY DEF ListsInv, ShapeInv
<1>11. Shape(s, d, 1)
  BY <1>1, <1>10 DEF Shape, DeleteList
<1>12. \E r \in Seq(Nodes) : Shape(r, d, 1)' /\ 1 \in 1..Len(d) + 1
  <2>1. PICK r \in Seq(Nodes) : r = <<n>> \o s
    BY PrependIs
  <2>2. Shape(r, d, 1)'
    BY <1>9, <1>11, <2>1, Zenon
  <2>3. 1 \in 1..Len(d) + 1
    OBVIOUS
  <2> QED BY <2>2, <2>3
<1>13. ShapeInv'
  BY <1>12 DEF ShapeInv
<1> QED BY <1>5, <1>6, <1>9, <1>13 DEF ListsInv

(* DELETE_CHILD takes the mutex. *)
LEMMA BeginKeepsLists ==
    ASSUME ListsInv, DeleteBegins
    PROVE  ListsInv'
<1>1. /\ mutex = Null /\ mutex' = "accept_thread" /\ cur' = node2[Root]
      /\ accept \in {"delete", "lastDelete"}
      /\ accept' = IF accept = "delete" THEN "deleting" ELSE "lastDeleting"
      /\ UNCHANGED <<server, node1, node2, numChild, allocated, term, child>>
  BY DEF DeleteBegins, DeleteHead, lists
<1>2. Serving' = Serving /\ Leaving' = Leaving
  BY <1>1 DEF Serving, Leaving
<1>3. Types'
  BY <1>1 DEF ListsInv, Types, Server
<1>4. Control'
  BY <1>1, <1>2, RelationsAssumption DEF ListsInv, Control, RelationsAssumption
<1>5. PICK s \in Seq(Nodes), d \in Seq(Nodes) : \E k \in 1..Len(d) + 1 : Shape(s, d, k)
  BY DEF ListsInv, ShapeInv
<1>6. Shape(s, d, 1)
  BY <1>1, <1>5 DEF Shape, DeleteList
<1>7. node2[Root] = IF 1 <= Len(d) THEN d[1] ELSE Null
  BY <1>6 DEF Shape, DeleteList, Along
<1>8. ChildrenList(s)' /\ Counted(s, d, 1)'
  BY <1>1, <1>2, <1>6 DEF Shape, ChildrenList, Counted, Along
<1>9. DeleteList(d, 1)'
  BY <1>1, <1>2, <1>6, <1>7 DEF Shape, DeleteList, Along
<1>10. Shape(s, d, 1)' /\ 1 \in 1..Len(d) + 1
  BY <1>8, <1>9 DEF Shape
<1> QED BY <1>3, <1>4, <1>10 DEF ListsInv, ShapeInv

(* What accept_thread works on is the k-th of the delete list, if there is one. *)
LEMMA DeletingAt ==
    ASSUME ListsInv, mutex # Null, NEW s \in Seq(Nodes), NEW d \in Seq(Nodes),
           NEW k \in 1..Len(d) + 1, Shape(s, d, k)
    PROVE  /\ cur # Null => k \in DOMAIN d /\ cur = d[k] /\ cur \in Leaving
           /\ cur = Null => k = Len(d) + 1 /\ Leaving = {}
<1>1. cur = IF k <= Len(d) THEN d[k] ELSE Null
  BY DEF Shape, DeleteList
<1>2. Leaving = {d[i] : i \in k..Len(d)}
  BY DEF Shape, DeleteList
<1>3. \A i \in DOMAIN d : d[i] # Null
  BY RelationsAssumption DEF RelationsAssumption
<1>4. CASE k <= Len(d)
  <2>1. k \in DOMAIN d /\ k \in k..Len(d)
    BY <1>4
  <2> QED BY <1>1, <1>2, <1>3, <1>4, <2>1
<1>5. CASE ~(k <= Len(d))
  <2>1. k = Len(d) + 1 /\ k..Len(d) = {}
    BY <1>5
  <2> QED BY <1>1, <1>2, <1>5, <2>1
<1> QED BY <1>4, <1>5

(* A node of the delete list is closed and freed, whatever it still says. *)
LEMMA NodeKeepsLists ==
    ASSUME ListsInv, DeleteNode
    PROVE  ListsInv'
<1>1. /\ mutex # Null /\ cur # Null
      /\ accept \in {"deleting", "lastDeleting"}
      /\ allocated' = allocated \ {cur} /\ term' = term \ {cur}
      /\ child' = [child EXCEPT ![cur] = "none"]
      /\ numChild' = numChild - 1 /\ cur' = node2[cur]
      /\ UNCHANGED <<server, node1, node2, mutex, accept>>
  BY DEF DeleteNode, ListsInv, Control
<1>2. PICK s \in Seq(Nodes), d \in Seq(Nodes) : \E k \in 1..Len(d) + 1 : Shape(s, d, k)
  BY DEF ListsInv, ShapeInv
<1>3. PICK k \in 1..Len(d) + 1 : Shape(s, d, k)
  BY <1>2
<1>4. k \in DOMAIN d /\ cur = d[k] /\ cur \in Leaving /\ cur \in Nodes
  BY <1>1, <1>3, DeletingAt
<1>5. cur \notin Serving
  BY <1>4 DEF Serving, Leaving
<1>6. Serving' = Serving /\ Leaving' = Leaving \ {cur}
  BY <1>1, <1>4, <1>5 DEF ListsInv, Types, Serving, Leaving
<1>7. Types'
  <2>1. cur' \in Nodes \cup {Null}
    BY <1>1, <1>4 DEF ListsInv, Types, Server
  <2>2. child' \in [Nodes -> {"none", "run", "leave", "left", "ended", "joined"}]
    BY <1>1 DEF ListsInv, Types
  <2> QED BY <1>1, <2>1, <2>2 DEF ListsInv, Types
<1>8. Control'
  BY <1>1, <1>5, <1>6 DEF ListsInv, Control
<1>9. ChildrenList(s)'
  BY <1>1, <1>3, <1>6 DEF Shape, ChildrenList, Along
<1>10. k + 1 \in 1..Len(d) + 1 /\ Len(d) \in Nat
  BY <1>4
<1>11. DeleteList(d, k + 1)'
  <2>1. Along(d, node2[Root])' /\ OnceEach(d)'
    BY <1>1, <1>3 DEF Shape, DeleteList, Along, OnceEach
  <2>2. cur' = IF k + 1 <= Len(d) THEN d[k + 1] ELSE Null
    <3>1. node2[d[k]] = IF k = Len(d) THEN Null ELSE d[k + 1]
      BY <1>3, <1>4 DEF Shape, DeleteList, Along
    <3> QED BY <1>1, <1>4, <1>10, <3>1
  <2>3. Leaving' = {d[i] : i \in k + 1..Len(d)}
    <3>1. Leaving = {d[i] : i \in k..Len(d)} /\ OnceEach(d)
      BY <1>3 DEF Shape, DeleteList
    <3>2. \A i \in k..Len(d) : i = k \/ i \in k + 1..Len(d)
      BY <1>10
    <3>3. \A i \in k + 1..Len(d) : i \in k..Len(d) /\ i # k /\ i \in DOMAIN d /\ k \in DOMAIN d
      BY <1>4, <1>10
    <3>4. \A i \in k + 1..Len(d) : d[i] # cur
      BY <1>4, <3>1, <3>3 DEF OnceEach
    <3> QED BY <1>4, <1>6, <3>1, <3>2, <3>3, <3>4
  <2> QED BY <1>1, <2>1, <2>2, <2>3 DEF DeleteList
<1>12. Counted(s, d, k + 1)'
  BY <1>1, <1>3, <1>10, RelationsAssumption DEF Shape, Counted, RelationsAssumption
<1>13. Shape(s, d, k + 1)'
  BY <1>9, <1>11, <1>12 DEF Shape
<1> QED BY <1>7, <1>8, <1>10, <1>13 DEF ListsInv, ShapeInv

(* The delete list is emptied. *)
LEMMA DeletedKeepsLists ==
    ASSUME ListsInv, DeleteEnds
    PROVE  /\ ListsInv'
           /\ \A s, d, r \in Seq(Nodes) : \A k \in 1..Len(d) + 1 :
                 r = <<>> /\ Shape(s, d, k) => Shape(s, r, 1)'
<1>1. /\ mutex # Null /\ mutex' = Null /\ cur = Null
      /\ accept \in {"deleting", "lastDeleting"}
      /\ accept' = IF accept = "deleting" THEN "wait" ELSE "ended"
      /\ node2' = [node2 EXCEPT ![Root] = Null]
      /\ UNCHANGED <<server, node1, numChild, allocated, term, child, cur>>
  BY DEF DeleteEnds, ListsInv, Control
<1>2. PICK s \in Seq(Nodes), d \in Seq(Nodes) : \E k \in 1..Len(d) + 1 : Shape(s, d, k)
  BY DEF ListsInv, ShapeInv
<1>3. PICK k \in 1..Len(d) + 1 : Shape(s, d, k)
  BY <1>2
<1>4. k = Len(d) + 1 /\ Leaving = {}
  BY <1>1, <1>3, DeletingAt
<1>5. Serving' = Serving /\ Leaving' = {}
  BY <1>1, <1>4 DEF Serving, Leaving
<1>6. Types'
  BY <1>1 DEF ListsInv, Types, Server
<1>7. Control'
  BY <1>1, <1>4, <1>5 DEF ListsInv, Control
<1>8. ASSUME NEW q \in Seq(Nodes), ChildrenList(q) PROVE ChildrenList(q)'
  <2>1. \A i \in DOMAIN q : q[i] \in Server /\ q[i] # Root
    BY RelationsAssumption DEF Server, RelationsAssumption
  <2>2. \A i \in DOMAIN q : node2'[q[i]] = node2[q[i]]
    BY <1>1, <2>1 DEF ListsInv, Types
  <2>3. Along(q, node1[Root])'
    BY <1>1, <1>8, <2>2 DEF ChildrenList, Along
  <2> QED BY <1>1, <1>5, <1>8, <2>3 DEF ChildrenList, OnceEach
<1>9. ASSUME NEW r \in Seq(Nodes), r = <<>> PROVE DeleteList(r, 1)'
  BY <1>1, <1>5, <1>9, RelationsAssumption
     DEF ListsInv, Types, DeleteList, Along, OnceEach, Server, RelationsAssumption
<1>10. ASSUME NEW q \in Seq(Nodes), NEW e \in Seq(Nodes), NEW r \in Seq(Nodes), r = <<>>,
              NEW j \in 1..Len(e) + 1, Shape(q, e, j)
       PROVE  Shape(q, r, 1)'
  <2>1. j = Len(e) + 1
    BY <1>1, <1>10, DeletingAt
  <2>2. ChildrenList(q)'
    BY <1>8, <1>10 DEF Shape
  <2>3. Counted(q, r, 1)'
    BY <1>1, <1>10, <2>1, RelationsAssumption DEF Shape, Counted, RelationsAssumption
  <2> QED BY <1>9, <1>10, <2>2, <2>3 DEF Shape
<1>11. \E r \in Seq(Nodes) : Shape(s, r, 1)' /\ 1 \in 1..Len(r) + 1
  <2>1. \E r \in Seq(Nodes) : r = <<>> /\ 1 \in 1..Len(r) + 1
    BY EmptyIs
  <2> QED BY <1>3, <1>10, <2>1
<1>12. ShapeInv'
  BY <1>11 DEF ShapeInv
<1> QED BY <1>6, <1>7, <1>10, <1>12 DEF ListsInv

(* DESTROY_SELF: the i-th child is taken out of the one list, its brothers are
   joined, and it is put before the other. *)
LEMMA DestroyMoves ==
    ASSUME ListsInv, NEW n \in Nodes, DestroySelf(n),
           NEW s \in Seq(Nodes), NEW d \in Seq(Nodes), Shape(s, d, 1),
           NEW i \in DOMAIN s, s[i] = n
    PROVE  \A r, e : r = RemoveAt(s, i) /\ e = <<n>> \o d => Shape(r, e, 1)'
<1>0. SUFFICES ASSUME NEW r, NEW e, r = RemoveAt(s, i), e = <<n>> \o d
               PROVE  Shape(r, e, 1)'
  OBVIOUS
<1> DEFINE younger == IF i = 1 THEN Null ELSE s[i - 1]
           elder == IF i = Len(s) THEN Null ELSE s[i + 1]
           first == IF d = <<>> THEN Null ELSE d[1]
<1>1. /\ r \in Seq(Nodes) /\ DOMAIN r = 1..Len(s) - 1 /\ Len(r) = Len(s) - 1
      /\ \A k \in 1..Len(s) - 1 : r[k] = IF k < i THEN s[k] ELSE s[k + 1]
  BY <1>0, RemoveAtIs
<1>2. /\ e \in Seq(Nodes) /\ Len(e) = Len(d) + 1 /\ Len(d) \in Nat /\ e[1] = n
      /\ \A k \in 1..Len(d) : e[k + 1] = d[k]
  BY <1>0, PrependIs
<1>3. i \in 1..Len(s) /\ Len(s) \in Nat
  OBVIOUS
<1>4. /\ node1[n] = younger /\ node2[n] = elder /\ node2[Root] = first
      /\ node1[Root] = s[1]
  BY <1>3 DEF Shape, ChildrenList, DeleteList, Along
<1>5. /\ OnceEach(s) /\ OnceEach(d)
      /\ \A k \in DOMAIN s : /\ node1[s[k]] = IF k = 1 THEN Null ELSE s[k - 1]
                             /\ node2[s[k]] = IF k = Len(s) THEN Null ELSE s[k + 1]
      /\ \A k \in DOMAIN d : node2[d[k]] = IF k = Len(d) THEN Null ELSE d[k + 1]
      /\ Serving = {s[k] : k \in DOMAIN s} /\ Leaving = {d[k] : k \in DOMAIN d}
  BY DEF Shape, ChildrenList, DeleteList, Along
<1>6. Root \in Server /\ Nodes \subseteq Server /\ Root \notin Nodes /\ Null \notin Server
  BY RelationsAssumption DEF Server, RelationsAssumption
<1>7. /\ mutex = Null /\ mutex' = Null
      /\ child[n] = "leave" /\ child' = [child EXCEPT ![n] = "left"]
      /\ UNCHANGED <<server, numChild, allocated, term, cur, accept>>
  BY DEF DestroySelf, accepting
<1>8. Serving' = Serving \ {n} /\ Leaving' = Leaving \cup {n}
  BY <1>7 DEF ListsInv, Types, Serving, Leaving
<1>9. \A k \in DOMAIN s, j \in DOMAIN d : s[k] # d[j]
  <2>1. \A k \in DOMAIN s : s[k] \in Serving
    BY <1>5
  <2>2. \A j \in DOMAIN d : d[j] \in Leaving
    BY <1>5
  <2>3. \A m \in Serving : m \notin Leaving
    BY DEF Serving, Leaving
  <2> QED BY <2>1, <2>2, <2>3
<1>10. /\ \A k \in DOMAIN s : s[k] \in Nodes /\ s[k] # first
       /\ \A k \in DOMAIN d : d[k] \in Nodes /\ d[k] # n /\ d[k] # younger /\ d[k] # elder
       /\ first \in Nodes \cup {Null}
  <2>1. d # <<>> => 1 \in DOMAIN d
    OBVIOUS
  <2>2. (i # 1 => i - 1 \in DOMAIN s) /\ (i # Len(s) => i + 1 \in DOMAIN s)
    BY <1>3
  <2>3. \A k \in DOMAIN s : s[k] \in Nodes
    OBVIOUS
  <2>4. \A k \in DOMAIN d : d[k] \in Nodes
    OBVIOUS
  <2> QED BY <1>6, <1>9, <2>1, <2>2, <2>3, <2>4
<1>11. \A j, k \in DOMAIN s : s[j] = s[k] => j = k
  BY <1>5 DEF OnceEach
<1>12. /\ younger \in Nodes \cup {Null} /\ elder \in Nodes \cup {Null}
       /\ younger # n /\ \A k \in DOMAIN s : (s[k] = younger <=> k = i - 1) /\ (s[k] = elder <=> k = i + 1)
  <2>1. CASE i = 1 /\ i = Len(s)
    BY <1>3, <1>6, <1>10, <2>1
  <2>2. (i # 1 => i - 1 \in DOMAIN s) /\ (i # Len(s) => i + 1 \in DOMAIN s)
    BY <1>3
  <2>3. \A k \in DOMAIN s : s[k] = younger <=> k = i - 1
    <3>1. CASE i = 1
      BY <1>3, <1>6, <1>10, <3>1
    <3>2. CASE i # 1
      BY <1>3, <1>11, <2>2, <3>2
    <3> QED BY <3>1, <3>2
  <2>4. \A k \in DOMAIN s : s[k] = elder <=> k = i + 1
    <3>1. CASE i = Len(s)
      BY <1>3, <1>6, <1>10, <3>1
    <3>2. CASE i # Len(s)
      BY <1>3, <1>11, <2>2, <3>2
    <3> QED BY <3>1, <3>2
  <2>5. younger \in Nodes \cup {Null} /\ elder \in Nodes \cup {Null}
    BY <1>10, <2>2
  <2> QED BY <1>3, <2>3, <2>4, <2>5
<1> HIDE DEF younger, elder, first
<1>13. /\ node2'[n] = first /\ node2'[Root] = n
       /\ \A m \in Nodes \ {n} : node2'[m] = IF m = younger THEN elder ELSE node2[m]
  <2>1. \A m \in Server : node2'[m] = CASE m = n -> node2[Root]
                                       [] m = Root -> n
                                       [] m = node1[n] -> node2[n]
                                       [] OTHER -> node2[m]
    BY DEF DestroySelf, Unlink
  <2>2. node2'[n] = first /\ node2'[Root] = n
    BY <1>4, <1>6, <1>12, <2>1
  <2>3. ASSUME NEW m \in Nodes \ {n} PROVE node2'[m] = IF m = younger THEN elder ELSE node2[m]
    BY <1>4, <1>6, <2>1
  <2> QED BY <2>2, <2>3
<1>14. /\ node1'[Root] = IF i = 1 THEN elder ELSE s[1]
       /\ \A k \in DOMAIN s : node1'[s[k]] = IF s[k] = elder THEN younger ELSE node1[s[k]]
  <2>1. \A m \in Server : node1'[m] = CASE m = Root /\ node1[n] = Null -> node2[n]
                                       [] m = node2[n] -> node1[n]
                                       [] m = node2[Root] -> n
                                       [] OTHER -> node1[m]
    BY DEF DestroySelf, Unlink
  <2>2. (younger = Null) <=> (i = 1)
    <3>1. i # 1 => i - 1 \in DOMAIN s
      BY <1>3
    <3> QED BY <1>6, <1>10, <3>1 DEF younger
  <2>3. Root # elder /\ Root # first
    BY <1>6, <1>10, <1>12
  <2>4. node1'[Root] = IF i = 1 THEN elder ELSE s[1]
    BY <1>4, <1>6, <2>1, <2>2, <2>3
  <2>5. ASSUME NEW k \in DOMAIN s PROVE node1'[s[k]] = IF s[k] = elder THEN younger ELSE node1[s[k]]
    <3>1. s[k] \in Server /\ s[k] # Root /\ s[k] # first
      BY <1>6, <1>10
    <3> QED BY <1>4, <2>1, <3>1
  <2> QED BY <2>4, <2>5
<1>15. ASSUME NEW k \in 1..Len(s) - 1
       PROVE  \/ k < i /\ k \in DOMAIN s /\ r[k] = s[k] /\ k # i
              \/ i <= k /\ k + 1 \in DOMAIN s /\ r[k] = s[k + 1] /\ k + 1 # i
  <2>1. r[k] = IF k < i THEN s[k] ELSE s[k + 1]
    BY <1>1
  <2>2. k \in DOMAIN s /\ k + 1 \in DOMAIN s
    BY <1>3
  <2> QED BY <1>3, <2>1, <2>2
<1>16. \A k \in 1..Len(s) - 1 : r[k] \in Nodes \ {n}
  BY <1>10, <1>11, <1>15
<1>17. Along(r, node1[Root])'
  <2>1. node1'[Root] = IF r = <<>> THEN Null ELSE r[1]
    <3>1. CASE Len(s) = 1
      BY <1>1, <1>3, <1>14, <3>1 DEF elder
    <3>2. CASE Len(s) # 1
      <4>1. 1 \in 1..Len(s) - 1 /\ r # <<>>
        BY <1>1, <1>3, <3>2
      <4>2. r[1] = IF 1 < i THEN s[1] ELSE s[2]
        BY <1>1, <4>1
      <4> QED BY <1>3, <1>14, <3>2, <4>1, <4>2 DEF elder
    <3> QED BY <3>1, <3>2
  <2>2. ASSUME NEW k \in 1..Len(s) - 1
        PROVE  node2'[r[k]] = IF k = Len(s) - 1 THEN Null ELSE r[k + 1]
    <3>1. node2'[r[k]] = IF r[k] = younger THEN elder ELSE node2[r[k]]
      BY <1>13, <1>16
    <3>2. k # Len(s) - 1 => r[k + 1] = IF k + 1 < i THEN s[k + 1] ELSE s[k + 2]
      BY <1>1, <1>3
    <3>3. CASE k < i
      <4>1. k \in DOMAIN s /\ r[k] = s[k]
        BY <1>3, <1>15, <3>3
      <4>2. CASE k = i - 1
        <5>1. r[k] = younger
          BY <1>12, <4>1, <4>2
        <5> QED BY <1>3, <3>1, <3>2, <4>2, <5>1 DEF elder
      <4>3. CASE k # i - 1
        <5>1. r[k] # younger /\ node2[s[k]] = IF k = Len(s) THEN Null ELSE s[k + 1]
          BY <1>5, <1>12, <4>1, <4>3
        <5>2. k # Len(s) /\ k # Len(s) - 1 /\ k + 1 < i
          BY <1>3, <3>3, <4>3
        <5> QED BY <3>1, <3>2, <4>1, <5>1, <5>2
      <4> QED BY <4>2, <4>3
    <3>4. CASE i <= k
      <4>1. k + 1 \in DOMAIN s /\ r[k] = s[k + 1]
        BY <1>3, <1>15, <3>4
      <4>2. r[k] # younger /\ node2[s[k + 1]] = IF k + 1 = Len(s) THEN Null ELSE s[k + 1 + 1]
        BY <1>3, <1>5, <1>12, <3>4, <4>1
      <4>3. (k + 1 = Len(s) <=> k = Len(s) - 1) /\ ~(k + 1 < i) /\ k + 1 + 1 = k + 2
        BY <1>3, <3>4
      <4> QED BY <3>1, <3>2, <4>1, <4>2, <4>3
    <3> QED BY <1>3, <3>3, <3>4
  <2> QED BY <1>1, <2>1, <2>2 DEF Along
<1>18. ASSUME NEW k \in 1..Len(s) - 1
       PROVE  node1'[r[k]] = IF k = 1 THEN Null ELSE r[k - 1]
  <2>1. k # 1 => r[k - 1] = IF k - 1 < i THEN s[k - 1] ELSE s[k]
    <3> SUFFICES ASSUME k # 1 PROVE r[k - 1] = IF k - 1 < i THEN s[k - 1] ELSE s[k]
      OBVIOUS
    <3>1. k - 1 \in 1..Len(s) - 1 /\ (k - 1) + 1 = k
      BY <1>3
    <3> QED BY <1>1, <3>1
  <2>2. CASE k < i
    <3>1. k \in DOMAIN s /\ r[k] = s[k]
      BY <1>3, <1>15, <2>2
    <3>2. s[k] # elder /\ node1[s[k]] = IF k = 1 THEN Null ELSE s[k - 1]
      BY <1>3, <1>5, <1>12, <2>2, <3>1
    <3>3. k - 1 < i
      BY <1>3, <2>2
    <3> QED BY <1>14, <2>1, <3>1, <3>2, <3>3
  <2>3. CASE k = i
    <3>1. k + 1 \in DOMAIN s /\ r[k] = s[k + 1]
      BY <1>3, <1>15, <2>3
    <3>2. r[k] = elder
      BY <1>12, <2>3, <3>1
    <3>3. node1'[r[k]] = younger
      BY <1>14, <3>1, <3>2
    <3>4. k - 1 < i /\ (k = 1 <=> i = 1) /\ k - 1 = i - 1
      BY <1>3, <2>3
    <3> QED BY <2>1, <3>3, <3>4 DEF younger
  <2>4. CASE i < k
    <3>1. k + 1 \in DOMAIN s /\ r[k] = s[k + 1]
      BY <1>3, <1>15, <2>4
    <3>2. s[k + 1] # elder /\ node1[s[k + 1]] = IF k + 1 = 1 THEN Null ELSE s[k + 1 - 1]
      BY <1>3, <1>5, <1>12, <2>4, <3>1
    <3>3. ~(k - 1 < i) /\ k # 1 /\ k + 1 # 1 /\ k + 1 - 1 = k
      BY <1>3, <2>4
    <3> QED BY <1>14, <2>1, <3>1, <3>2, <3>3
  <2> QED BY <1>3, <2>2, <2>3, <2>4
<1>19. OnceEach(r)'
  <2>1. ASSUME NEW j \in 1..Len(s) - 1, NEW k \in 1..Len(s) - 1, r[j] = r[k] PROVE j = k
    BY <1>3, <1>11, <1>15, <2>1
  <2> QED BY <1>1, <2>1 DEF OnceEach
<1>20. Serving' = {r[k] : k \in DOMAIN r}
  <2>1. ASSUME NEW j \in DOMAIN s, s[j] # n PROVE \E k \in DOMAIN r : r[k] = s[j]
    <3>1. CASE j < i
      <4>1. j \in 1..Len(s) - 1 /\ r[j] = s[j]
        BY <1>1, <1>3, <3>1
      <4> QED BY <1>1, <4>1
    <3>2. CASE i < j
      <4>1. j - 1 \in 1..Len(s) - 1 /\ ~(j - 1 < i) /\ (j - 1) + 1 = j
        BY <1>3, <3>2
      <4>2. r[j - 1] = s[j]
        BY <1>1, <4>1
      <4> QED BY <1>1, <4>1, <4>2
    <3> QED BY <1>3, <2>1, <3>1, <3>2
  <2>2. \A k \in DOMAIN r : r[k] # n /\ \E j \in DOMAIN s : r[k] = s[j]
    BY <1>1, <1>15, <1>16
  <2> QED BY <1>5, <1>8, <2>1, <2>2
<1>21. ChildrenList(r)'
  BY <1>1, <1>17, <1>18, <1>19, <1>20 DEF ChildrenList
<1>22. ASSUME NEW k \in DOMAIN e
       PROVE  (k = 1 /\ e[k] = n) \/ (k # 1 /\ k - 1 \in DOMAIN d /\ e[k] = d[k - 1])
  <2> SUFFICES ASSUME k # 1 PROVE k - 1 \in DOMAIN d /\ e[k] = d[k - 1]
    BY <1>2
  <2>1. k - 1 \in 1..Len(d) /\ (k - 1) + 1 = k
    BY <1>2
  <2>2. e[(k - 1) + 1] = d[k - 1]
    BY <1>2, <2>1
  <2> QED BY <2>1, <2>2
<1>23. Along(e, node2[Root])'
  <2>1. ASSUME NEW k \in DOMAIN e PROVE node2'[e[k]] = IF k = Len(e) THEN Null ELSE e[k + 1]
    <3>1. CASE k = 1
      <4>1. node2'[e[k]] = first
        BY <1>2, <1>13, <3>1
      <4>2. d # <<>> => e[1 + 1] = d[1]
        BY <1>2
      <4> QED BY <1>2, <3>1, <4>1, <4>2 DEF first
    <3>2. CASE k # 1
      <4>1. k - 1 \in DOMAIN d /\ e[k] = d[k - 1]
        BY <1>22, <3>2
      <4>2. node2'[e[k]] = node2[d[k - 1]]
        BY <1>10, <1>13, <4>1
      <4>3. node2[d[k - 1]] = IF k - 1 = Len(d) THEN Null ELSE d[(k - 1) + 1]
        BY <1>5, <4>1
      <4>4. (k - 1) + 1 = k /\ (k - 1 = Len(d) <=> k = Len(e))
        BY <1>2
      <4>5. k # Len(e) => k \in 1..Len(d) /\ e[k + 1] = d[k]
        BY <1>2
      <4> QED BY <4>2, <4>3, <4>4, <4>5
    <3> QED BY <3>1, <3>2
  <2>2. e # <<>>
    BY <1>2
  <2> QED BY <1>2, <1>13, <2>1, <2>2 DEF Along
<1>24. OnceEach(e)'
  <2>1. ASSUME NEW j \in DOMAIN e, NEW k \in DOMAIN e, e[j] = e[k] PROVE j = k
    <3>1. j \in Int /\ k \in Int
      BY <1>2
    <3>2. CASE j = 1 \/ k = 1
      BY <1>10, <1>22, <2>1, <3>1, <3>2
    <3>3. CASE j # 1 /\ k # 1
      <4>1. j - 1 \in DOMAIN d /\ k - 1 \in DOMAIN d /\ d[j - 1] = d[k - 1]
        BY <1>22, <2>1, <3>3
      <4>2. j - 1 = k - 1
        BY <1>5, <4>1 DEF OnceEach
      <4> QED BY <3>1, <4>2
    <3> QED BY <3>2, <3>3
  <2> QED BY <2>1 DEF OnceEach
<1>25. Leaving' = {e[k] : k \in 1..Len(e)}
  <2>0. /\ d \in Seq(Nodes) /\ e \in Seq(Nodes) /\ Len(e) = Len(d) + 1 /\ Len(d) \in Nat
        /\ e[1] = n /\ \A k \in 1..Len(d) : e[k + 1] = d[k]
    BY <1>2
  <2>1. \A k \in DOMAIN d : k + 1 \in 1..Len(e) /\ e[k + 1] = d[k]
    <3>1. DOMAIN d = 1..Len(d)
      OBVIOUS
    <3>2. \A k \in 1..Len(d) : k + 1 \in 1..Len(e)
      BY <2>0
    <3> QED BY <2>0, <3>1, <3>2, Zenon
  <2>2. 1 \in 1..Len(e) /\ DOMAIN e = 1..Len(e)
    BY <2>0
  <2>3. \A k \in 1..Len(e) : e[k] = n \/ e[k] \in Leaving
    BY <1>5, <1>22, <2>2
  <2>4. \A m \in Leaving : \E k \in 1..Len(e) : e[k] = m
    BY <1>5, <2>1
  <2>5. Leaving' = Leaving \cup {n}
    BY <1>8
  <2>6. e[1] = n
    BY <2>0
  <2>7. \A k \in 1..Len(e) : e[k] \in Leaving'
    BY <2>3, <2>5
  <2>8. \A m \in Leaving' : \E k \in 1..Len(e) : e[k] = m
    BY <2>2, <2>4, <2>5, <2>6
  <2> QED BY <2>7, <2>8
<1>26. DeleteList(e, 1)'
  BY <1>7, <1>23, <1>24, <1>25 DEF DeleteList
<1>27. Counted(r, e, 1)'
  BY <1>1, <1>2, <1>3, <1>7, RelationsAssumption DEF Shape, Counted, RelationsAssumption
<1> QED BY <1>21, <1>26, <1>27 DEF Shape

LEMMA DestroyKeepsLists ==
    ASSUME ListsInv, NEW n \in Nodes, DestroySelf(n)
    PROVE  ListsInv'
<1>1. /\ mutex = Null /\ child[n] = "leave" /\ child' = [child EXCEPT ![n] = "left"]
      /\ UNCHANGED <<server, numChild, allocated, term, mutex, accept, cur>>
  BY DEF DestroySelf, accepting
<1>2. Serving' = Serving \ {n} /\ Leaving' = Leaving \cup {n} /\ n \in Serving
  BY <1>1 DEF ListsInv, Types, Serving, Leaving
<1>3. Control'
  BY <1>1, <1>2 DEF ListsInv, Control
<1>4. Types'
  <2>1. node1 \in [Server -> Nodes \cup {Null}] /\ node2 \in [Server -> Nodes \cup {Null}]
    BY DEF ListsInv, Types
  <2>2. n \in Server /\ Root \in Server
    BY DEF Server
  <2>3. node1' \in [Server -> Nodes \cup {Null}]
    BY <2>1, <2>2 DEF DestroySelf, Unlink
  <2>4. node2' \in [Server -> Nodes \cup {Null}]
    BY <2>1, <2>2 DEF DestroySelf, Unlink
  <2>5. child' \in [Nodes -> {"none", "run", "leave", "left", "ended", "joined"}]
    BY <1>1 DEF ListsInv, Types
  <2> QED BY <1>1, <2>3, <2>4, <2>5 DEF ListsInv, Types
<1>5. PICK s \in Seq(Nodes), d \in Seq(Nodes) : \E k \in 1..Len(d) + 1 : Shape(s, d, k)
  BY DEF ListsInv, ShapeInv
<1>6. Shape(s, d, 1)
  BY <1>1, <1>5 DEF Shape, DeleteList
<1>7. PICK i \in DOMAIN s : s[i] = n
  BY <1>2, <1>6 DEF Shape, ChildrenList
<1>8. PICK r \in Seq(Nodes), e \in Seq(Nodes) : r = RemoveAt(s, i) /\ e = <<n>> \o d
  BY RemoveAtIs, PrependIs
<1>9. Shape(r, e, 1)' /\ 1 \in 1..Len(e) + 1
  <2>1. Shape(r, e, 1)'
    BY <1>6, <1>7, <1>8, DestroyMoves
  <2> QED BY <2>1
<1> QED BY <1>3, <1>4, <1>9 DEF ListsInv, ShapeInv

LEMMA ListsStep == ~AddFails /\ ListsInv /\ [Next]_vars => ListsInv'
<1> SUFFICES ASSUME ~AddFails, ListsInv, [Next]_vars PROVE ListsInv'
  OBVIOUS
<1>1. CASE Open \/ Close \/ Wait \/ AcceptNone \/ ExitSignal \/ DeleteSignal
  BY <1>1, WaitKeepsLists
<1>2. CASE CloseEnds
  BY <1>2, CloseEndsKeepsLists
<1>3. CASE \E n \in Nodes : AddChild(n)
  BY <1>3, AddKeepsLists
<1>4. CASE DeleteBegins \/ DeleteNode \/ DeleteEnds
  BY <1>4, BeginKeepsLists, NodeKeepsLists, DeletedKeepsLists
<1>5. CASE ExitNext \/ ExitJoin
  BY <1>5, ExitKeepsLists
<1>6. CASE \E n \in Nodes : HangUp(n) \/ ThreadEnds(n)
  BY <1>6, ThreadKeepsLists
<1>7. CASE \E n \in Nodes : DestroySelf(n)
  BY <1>7, DestroyKeepsLists
<1>8. CASE UNCHANGED vars
  <2>1. UNCHANGED <<server, lists, allocated, term, child, mutex, accept, cur>>
    BY <1>8 DEF vars, lists
  <2>2. Serving' = Serving /\ Leaving' = Leaving
    BY <2>1 DEF Serving, Leaving
  <2>3. ShapeInv'
    BY <2>1, <2>2, ShapeKept DEF ListsInv
  <2> QED BY <2>1, <2>2, <2>3 DEF ListsInv, Types, Control, lists
<1> QED BY <1>1, <1>2, <1>3, <1>4, <1>5, <1>6, <1>7, <1>8 DEF Next, AcceptThread, Child, SeeTerm

LEMMA ListsHold == ~AddFails => (Spec => []ListsInv)
<1> SUFFICES ASSUME ~AddFails PROVE Spec => []ListsInv
  OBVIOUS
<1>1. ListsInv /\ [Next]_vars => ListsInv'
  BY ListsStep
<1> QED BY <1>1, ListsInit, PTL DEF Spec

(* There are never more nodes than BCAP_CLIENT_MAX, in lists that hold nodes
   (bcap_server.c, accept_thread), for every number of children and connections,
   as long as a child that is accepted gets its events. *)
THEOREM RelationsTypeCorrect == ~AddFails => (Spec => []TypeOK)
<1>1. ListsInv => TypeOK
  <2> SUFFICES ASSUME ListsInv PROVE TypeOK
    OBVIOUS
  <2>1. PICK s \in Seq(Nodes), d \in Seq(Nodes) : \E k \in 1..Len(d) + 1 : Shape(s, d, k)
    BY DEF ListsInv, ShapeInv
  <2>2. PICK k \in 1..Len(d) + 1 : Shape(s, d, k)
    BY <2>1
  <2>3. numChild \in 0..ClientMax
    BY <2>2, RelationsAssumption DEF Shape, Counted, RelationsAssumption
  <2> QED BY <2>3 DEF ListsInv, Types, TypeOK
<1> QED BY <1>1, ListsHold, PTL

(* DELETE_CHILD joins, under relation_mutex, only threads that no longer need it;
   the unlocked loop of accept_thread signals and joins a child whose memory is
   still its own; and when accept_thread has ended no child is left. *)
THEOREM ListsStaySafe == ~AddFails => (Spec => []ListsSafe)
<1>1. ListsInv => ListsSafe
  <2> SUFFICES ASSUME ListsInv PROVE ListsSafe
    OBVIOUS
  <2>1. PICK s \in Seq(Nodes), d \in Seq(Nodes) : \E k \in 1..Len(d) + 1 : Shape(s, d, k)
    BY DEF ListsInv, ShapeInv
  <2>2. PICK k \in 1..Len(d) + 1 : Shape(s, d, k)
    BY <2>1
  <2>3. JoinSafe
    BY <2>2, DeletingAt, RelationsAssumption DEF JoinSafe, Leaving, RelationsAssumption
  <2>4. ExitReadsValid
    BY DEF ListsInv, Control, ExitReadsValid
  <2>5. ASSUME accept \in {"ended", "none"}
        PROVE  allocated = {} /\ numChild = 0 /\ \A n \in Nodes : child[n] = "none"
    <3>1. Serving = {} /\ Leaving = {} /\ mutex = Null
      BY <2>5 DEF ListsInv, Control
    <3>2. k = 1
      BY <2>2, <3>1 DEF Shape, DeleteList
    <3>3. s = <<>> /\ d = <<>>
      <4>1. \A i \in DOMAIN s : s[i] \in Serving
        BY <2>2 DEF Shape, ChildrenList
      <4>2. \A i \in DOMAIN d : d[i] \in Leaving
        BY <2>2, <3>2 DEF Shape, DeleteList
      <4>3. (s # <<>> => 1 \in DOMAIN s) /\ (d # <<>> => 1 \in DOMAIN d)
        OBVIOUS
      <4> QED BY <3>1, <4>1, <4>2, <4>3
    <3>4. numChild = 0
      BY <2>2, <3>2, <3>3 DEF Shape, Counted
    <3> QED BY <3>1, <3>4 DEF ListsInv, Types, Control, Serving, Leaving
  <2>6. ClosedClean
    BY <2>5 DEF ClosedClean
  <2> QED BY <2>3, <2>4, <2>6 DEF ListsSafe
<1> QED BY <1>1, ListsHold, PTL

-----------------------------------------------------------------------------
(* The sequences that the pointers stand for. *)

(* There is at most one way along node2 from a node to the end. *)
LEMMA AlongOne ==
    ASSUME NEW n, NEW s \in Seq(Nodes), NEW t \in Seq(Nodes), Along(s, n), Along(t, n)
    PROVE  s = t
<1>1. Len(s) \in Nat /\ Len(t) \in Nat
  OBVIOUS
<1>2. /\ s # <<>> => s[1] = n /\ n \in Nodes
      /\ t # <<>> => t[1] = n /\ n \in Nodes
      /\ s = <<>> => n = Null
      /\ t = <<>> => n = Null
      /\ Null \notin Nodes
  BY RelationsAssumption DEF Along, RelationsAssumption
<1>3. /\ \A i \in DOMAIN s : node2[s[i]] = IF i = Len(s) THEN Null ELSE s[i + 1]
      /\ \A i \in DOMAIN t : node2[t[i]] = IF i = Len(t) THEN Null ELSE t[i + 1]
  BY DEF Along
<1> DEFINE Differ == {i \in Nat : i \in DOMAIN s /\ i \in DOMAIN t /\ s[i] # t[i]}
<1>4. Differ = {}
  <2> SUFFICES ASSUME Differ # {} PROVE FALSE
    OBVIOUS
  <2>1. PICK i \in Differ : \A k \in Differ : ~(<<k, i>> \in OpToRel(<, Nat))
    BY NatLessThanWellFounded, WFMin, Differ \subseteq Nat
  <2>2. i \in DOMAIN s /\ i \in DOMAIN t /\ s[i] # t[i] /\ i \in Nat
    BY <2>1
  <2>3. i # 1
    BY <1>2, <2>2
  <2>4. i - 1 \in Nat /\ i - 1 \in DOMAIN s /\ i - 1 \in DOMAIN t /\ i - 1 < i
        /\ i - 1 # Len(s) /\ i - 1 # Len(t) /\ (i - 1) + 1 = i
    BY <1>1, <2>2, <2>3
  <2>5. i - 1 \notin Differ
    BY <2>1, <2>2, <2>4 DEF OpToRel
  <2>6. s[i - 1] = t[i - 1]
    BY <2>4, <2>5
  <2>7. s[i] = t[i]
    BY <1>3, <2>4, <2>6
  <2> QED BY <2>2, <2>7
<1>5. ASSUME NEW a \in Seq(Nodes), NEW b \in Seq(Nodes), Len(a) < Len(b),
             \A i \in Nat : i \in DOMAIN a /\ i \in DOMAIN b => a[i] = b[i],
             b # <<>> => n \in Nodes, a = <<>> => n = Null,
             \A i \in DOMAIN a : node2[a[i]] = IF i = Len(a) THEN Null ELSE a[i + 1],
             \A i \in DOMAIN b : node2[b[i]] = IF i = Len(b) THEN Null ELSE b[i + 1]
      PROVE  FALSE
  <2>1. a # <<>>
    BY <1>2, <1>5
  <2>2. Len(a) \in Nat /\ Len(a) \in DOMAIN a /\ Len(a) \in DOMAIN b /\ Len(a) + 1 \in DOMAIN b
        /\ Len(a) # Len(b)
    BY <1>5, <2>1
  <2>3. a[Len(a)] = b[Len(a)]
    BY <1>5, <2>2
  <2>4. b[Len(a) + 1] = Null
    BY <1>5, <2>2, <2>3
  <2>5. b[Len(a) + 1] \in Nodes
    BY <2>2
  <2> QED BY <1>2, <2>4, <2>5
<1>6. \A i \in Nat : i \in DOMAIN s /\ i \in DOMAIN t => s[i] = t[i]
  BY <1>4
<1>7. ~(Len(s) < Len(t))
  BY <1>2, <1>3, <1>5, <1>6
<1>8. ~(Len(t) < Len(s))
  BY <1>2, <1>3, <1>5, <1>6
<1>9. Len(s) = Len(t)
  BY <1>1, <1>7, <1>8
<1> QED BY <1>1, <1>6, <1>9

(* The lists that ServerChildren speaks of are those of the invariant. *)
ListsRead ==
    \A s, d \in Seq(Nodes), k \in Int : Shape(s, d, k) => Children = s /\ Deleted = d

LEMMA WalkIs ==
    ASSUME NEW n, NEW s \in Seq(Nodes), Len(s) <= ClientMax, Along(s, n)
    PROVE  Walk(n) = s
<1>1. ClientMax \in Nat
  BY RelationsAssumption DEF RelationsAssumption
<1>2. s \in BoundedSeq(Nodes, ClientMax)
  <2>1. Len(s) \in 0..ClientMax /\ s \in [1..Len(s) -> Nodes]
    BY <1>1
  <2> QED BY <2>1 DEF BoundedSeq, SeqOf
<1>3. \A t \in BoundedSeq(Nodes, ClientMax) : t \in Seq(Nodes)
  <2> SUFFICES ASSUME NEW m \in 0..ClientMax, NEW t \in [1..m -> Nodes] PROVE t \in Seq(Nodes)
    BY DEF BoundedSeq, SeqOf
  <2> QED BY <1>1
<1>4. Walks(n) = {s}
  BY <1>2, <1>3, AlongOne DEF Walks
<1> QED BY <1>4 DEF Walk

LEMMA ListsAreRead == ListsRead
<1> SUFFICES ASSUME NEW s \in Seq(Nodes), NEW d \in Seq(Nodes), NEW k \in Int, Shape(s, d, k)
             PROVE  Children = s /\ Deleted = d
  BY DEF ListsRead
<1>1. Along(s, node1[Root]) /\ Along(d, node2[Root])
  BY DEF Shape, ChildrenList, DeleteList
<1>2. Len(s) <= ClientMax /\ Len(d) <= ClientMax
  BY RelationsAssumption DEF Shape, Counted, RelationsAssumption
<1> QED BY <1>1, <1>2, WalkIs DEF Children, Deleted

LEMMA ListsAreReadNext == ListsRead'
  BY ListsAreRead, PTL

(* Which shape a state has decides both lists. *)
LEMMA ReadNow ==
    ASSUME NEW s \in Seq(Nodes), NEW d \in Seq(Nodes), NEW k \in Int, Shape(s, d, k)
    PROVE  Children = s /\ Deleted = d
  BY ListsAreRead DEF ListsRead

LEMMA ReadNext ==
    \A s, d \in Seq(Nodes) : Shape(s, d, 1)' => Children' = s /\ Deleted' = d
  BY ListsAreReadNext DEF ListsRead

LEMMA PointersKept ==
    ASSUME UNCHANGED <<node1, node2>>
    PROVE  UNCHANGED <<Children, Deleted>>
  BY DEF Children, Deleted, Walk, Walks, Along

(* Every step is one of ServerChildren, or leaves its sequences. *)
LEMMA ListsPromiseStep ==
    ASSUME ~AddFails, ListsInv, [Next]_vars
    PROVE  [Promise!Next]_<<Children, Deleted>>
<1>1. PICK s \in Seq(Nodes), d \in Seq(Nodes) : \E k \in 1..Len(d) + 1 : Shape(s, d, k)
  BY DEF ListsInv, ShapeInv
<1>2. PICK k \in 1..Len(d) + 1 : Shape(s, d, k)
  BY <1>1
<1>3. Children = s /\ Deleted = d
  BY <1>2, ReadNow
<1>4. mutex = Null => k = 1
  BY <1>2 DEF Shape, DeleteList
<1>5. CASE \E n \in Nodes : AddChild(n)
  <2>1. PICK n \in Nodes : AddChild(n)
    BY <1>5
  <2>2. mutex = Null /\ n \notin allocated /\ numChild < ClientMax
    BY <2>1 DEF AddChild, Room
  <2>3. Shape(s, d, 1)
    BY <1>2, <1>4, <2>2
  <2>4. PICK r \in Seq(Nodes) : r = <<n>> \o s
    BY PrependIs
  <2>5. Children' = <<n>> \o s /\ Deleted' = d
    <3>1. Shape(r, d, 1)'
      BY <2>1, <2>3, <2>4, AddKeepsLists
    <3> QED BY <2>4, <3>1, ReadNext
  <2>6. n \notin ToSet(s) /\ n \notin ToSet(d)
    BY <2>2, <2>3 DEF Shape, ChildrenList, DeleteList, ListsInv, Control, ToSet
  <2>7. Len(s) + Len(d) < ClientMax
    BY <2>2, <2>3 DEF Shape, Counted
  <2>8. Promise!Add(n)
    BY <1>3, <2>5, <2>6, <2>7 DEF Promise!Add, Promise!ToSet, ToSet
  <2> QED BY <2>8 DEF Promise!Next
<1>6. CASE \E n \in Nodes : DestroySelf(n)
  <2>1. PICK n \in Nodes : DestroySelf(n)
    BY <1>6
  <2>2. mutex = Null /\ n \in Serving
    BY <2>1 DEF DestroySelf, Serving
  <2>3. Shape(s, d, 1)
    BY <1>2, <1>4, <2>2
  <2>4. PICK i \in DOMAIN s : s[i] = n
    BY <2>2, <2>3 DEF Shape, ChildrenList
  <2>5. PICK r \in Seq(Nodes), e \in Seq(Nodes) : r = RemoveAt(s, i) /\ e = <<n>> \o d
    BY RemoveAtIs, PrependIs
  <2>6. Children' = RemoveAt(s, i) /\ Deleted' = <<n>> \o d
    <3>1. Shape(r, e, 1)'
      BY <2>1, <2>3, <2>4, <2>5, DestroyMoves
    <3> QED BY <2>5, <3>1, ReadNext
  <2>7. Promise!Leave(n)
    BY <1>3, <2>4, <2>6 DEF Promise!Leave, Promise!RemoveAt, RemoveAt
  <2> QED BY <2>7 DEF Promise!Next
<1>7. CASE DeleteEnds
  <2>1. PICK r \in Seq(Nodes) : r = <<>>
    BY EmptyIs
  <2>2. Shape(s, r, 1)'
    BY <1>2, <1>7, <2>1, DeletedKeepsLists
  <2>3. Children' = s /\ Deleted' = <<>>
    BY <2>1, <2>2, ReadNext
  <2>4. Promise!Delete
    BY <1>3, <2>3 DEF Promise!Delete
  <2> QED BY <2>4 DEF Promise!Next
<1>8. CASE CloseEnds
  <2>1. Serving = {} /\ Leaving = {} /\ mutex = Null
    BY <1>8 DEF ListsInv, Control, CloseEnds
  <2>2. s = <<>> /\ d = <<>>
    <3>1. \A i \in DOMAIN s : s[i] \in Serving
      BY <1>2 DEF Shape, ChildrenList
    <3>2. \A i \in DOMAIN d : d[i] \in Leaving
      BY <1>2, <1>4, <2>1 DEF Shape, DeleteList
    <3>3. (s # <<>> => 1 \in DOMAIN s) /\ (d # <<>> => 1 \in DOMAIN d)
      OBVIOUS
    <3> QED BY <2>1, <3>1, <3>2, <3>3
  <2>3. PICK r \in Seq(Nodes) : r = <<>>
    BY EmptyIs
  <2>4. Shape(r, r, 1)'
    BY <1>8, <2>3, CloseEndsKeepsLists
  <2>5. Children' = <<>> /\ Deleted' = <<>>
    BY <2>3, <2>4, ReadNext
  <2> QED BY <1>3, <2>2, <2>5
<1>9. CASE Open \/ Close \/ Wait \/ AcceptNone \/ ExitSignal \/ DeleteSignal
  BY <1>9, PointersKept DEF Open, Close, Wait, AcceptNone, ExitSignal, DeleteSignal, lists
<1>10. CASE DeleteBegins \/ DeleteNode \/ ExitNext \/ ExitJoin
  BY <1>10, PointersKept DEF DeleteBegins, DeleteNode, ExitNext, ExitJoin, lists
<1>11. CASE \E n \in Nodes : HangUp(n) \/ ThreadEnds(n)
  BY <1>11, PointersKept DEF HangUp, ThreadEnds, lists
<1>12. CASE UNCHANGED vars
  BY <1>12, PointersKept DEF vars
<1> QED BY <1>5, <1>6, <1>7, <1>8, <1>9, <1>10, <1>11, <1>12 DEF Next, AcceptThread, Child, SeeTerm

(* The pointers of change_relation are two sequences: a child that is accepted
   comes first in the one, one that leaves is taken out of it wherever it stands
   and comes first in the other, and DELETE_CHILD empties that one. *)
THEOREM ListsStayFaithful == ~AddFails => (Spec => ListsFaithful)
<1> SUFFICES ASSUME ~AddFails PROVE Spec => ListsFaithful
  OBVIOUS
<1>1. Init => Promise!Init
  <2> SUFFICES ASSUME Init PROVE Promise!Init
    OBVIOUS
  <2>1. PICK s \in Seq(Nodes), d \in Seq(Nodes) : \E k \in 1..Len(d) + 1 : Shape(s, d, k)
    BY ListsInit DEF ListsInv, ShapeInv
  <2>2. Shape(s, d, 1)
    BY <2>1 DEF Init, Shape, DeleteList
  <2>3. Children = s /\ Deleted = d
    BY <2>2, ReadNow
  <2>4. s = <<>> /\ d = <<>>
    <3>1. (s # <<>> => 1 \in DOMAIN s /\ s[1] # Null) /\ (d # <<>> => 1 \in DOMAIN d /\ d[1] # Null)
      BY RelationsAssumption DEF RelationsAssumption
    <3>2. node1[Root] = Null /\ node2[Root] = Null
      BY DEF Init, Server
    <3> QED BY <2>2, <3>1, <3>2 DEF Shape, ChildrenList, DeleteList, Along
  <2> QED BY <2>3, <2>4 DEF Promise!Init
<1>2. ListsInv /\ [Next]_vars => [Promise!Next]_<<Children, Deleted>>
  BY ListsPromiseStep
<1> QED BY <1>1, <1>2, ListsHold, PTL DEF Spec, ListsFaithful, Promise!Spec

(* num_child counts the nodes that malloc gave and free has not taken back. *)
CountInv == IsFiniteSet(allocated) /\ numChild = Cardinality(allocated)

LEMMA CountStep ==
    ASSUME ~AddFails, ListsInv, CountInv, [Next]_vars
    PROVE  CountInv'
<1>1. CASE \E n \in Nodes : AddChild(n)
  <2>1. PICK n \in Nodes : n \notin allocated /\ allocated' = allocated \cup {n} /\ numChild' = numChild + 1
    BY <1>1 DEF AddChild
  <2> QED BY <2>1, FS_AddElement DEF CountInv
<1>2. CASE DeleteNode
  <2>1. allocated' = allocated \ {cur} /\ numChild' = numChild - 1 /\ cur \in Nodes
        /\ child[cur] \in {"ended", "joined"}
    BY <1>2 DEF DeleteNode, ListsInv, Types
  <2>2. cur \in allocated
    BY <2>1 DEF ListsInv, Control, Leaving
  <2> QED BY <2>1, <2>2, FS_RemoveElement DEF CountInv
<1>3. CASE CloseEnds
  <2>1. allocated' = {} /\ numChild' = 0
    BY <1>3 DEF CloseEnds, ListsInv, Control
  <2> QED BY <2>1, FS_EmptySet DEF CountInv
<1>4. CASE Open \/ Close \/ Wait \/ AcceptNone \/ ExitSignal \/ DeleteSignal
  BY <1>4 DEF Open, Close, Wait, AcceptNone, ExitSignal, DeleteSignal, lists, CountInv
<1>5. CASE DeleteBegins \/ DeleteEnds \/ ExitNext \/ ExitJoin
  BY <1>5 DEF DeleteBegins, DeleteEnds, ExitNext, ExitJoin, lists, CountInv
<1>6. CASE \E n \in Nodes : HangUp(n) \/ ThreadEnds(n) \/ DestroySelf(n)
  BY <1>6 DEF HangUp, ThreadEnds, DestroySelf, lists, CountInv
<1>7. CASE UNCHANGED vars
  BY <1>7 DEF vars, CountInv
<1> QED BY <1>1, <1>2, <1>3, <1>4, <1>5, <1>6, <1>7 DEF Next, AcceptThread, Child, SeeTerm

(* As long as a child that is accepted gets its events, the two lists hold exactly
   the nodes that exist whenever relation_mutex is free, each once and on the list
   of where its thread is, with the way back along the children list, and num_child
   counts them: the converse of what the run in which they fail shows. *)
THEOREM ListsStayExact == ~AddFails => (Spec => []ListsExact)
<1> SUFFICES ASSUME ~AddFails PROVE Spec => []ListsExact
  OBVIOUS
<1>1. Init => CountInv
  BY FS_EmptySet DEF Init, CountInv
<1>2. ListsInv /\ CountInv /\ [Next]_vars => CountInv'
  BY CountStep
<1>3. ListsInv /\ CountInv => ListsExact
  <2> SUFFICES ASSUME ListsInv, CountInv, mutex = Null PROVE ListsExact
    BY DEF ListsExact
  <2>1. PICK s \in Seq(Nodes), d \in Seq(Nodes) : \E k \in 1..Len(d) + 1 : Shape(s, d, k)
    BY DEF ListsInv, ShapeInv
  <2>2. Shape(s, d, 1)
    BY <2>1 DEF Shape, DeleteList
  <2>3. Children = s /\ Deleted = d
    BY <2>2, ReadNow
  <2>4. ToSet(s) = Serving /\ ToSet(d) = Leaving
    BY <2>2 DEF Shape, ChildrenList, DeleteList, ToSet
  <2>5. Len(s) + Len(d) = numChild
    BY <2>2 DEF Shape, Counted
  <2>6. \A i \in DOMAIN s : node1[s[i]] = IF i = 1 THEN Null ELSE s[i - 1]
    BY <2>2 DEF Shape, ChildrenList
  <2> QED BY <2>3, <2>4, <2>5, <2>6 DEF ListsExact, ListsInv, Control, CountInv, Serving, Leaving
<1> QED BY <1>1, <1>2, <1>3, ListsHold, PTL DEF Spec

=============================================================================
