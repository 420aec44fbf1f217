----------------------------- MODULE ExecEvents -----------------------------
(***************************************************************************)
(* The events of dn_thread.c as they are made of a pthread mutex, a        *)
(* condition and a flag, and the two threads of a b-CAP server that meet   *)
(* over three of them: recv_thread hands a request over with exec_evt,     *)
(* waits for comp_evt and ends the other with term_sub_evt; exec_thread    *)
(* waits for exec_evt and term_sub_evt at once, by wait_event_multi, which *)
(* begins one thread for each of the two.                                  *)
(*                                                                         *)
(* A step is what a thread does under the mutex of one event.              *)
(***************************************************************************)
EXTENDS Integers, FiniteSets

CONSTANTS
    Timed,          \* recv_thread waits for comp_evt with a limit (a WDT) or without
    Spurious        \* pthread_cond_wait may return without a broadcast

ASSUME EventsAssumption == Timed \subseteq BOOLEAN /\ Spurious \in BOOLEAN

VARIABLES
    signal,     \* event -> EVENT.signal
    waiter,     \* thread -> "awake", "blocked" in pthread_cond_wait, or "woken" by a broadcast
    receiver,       \* where recv_thread is
    timed,      \* its wait for comp_evt has a limit
    exec,       \* where exec_thread is
    sub,        \* event -> where the thread is that waits for it
    flagAll     \* flag_all of wait_event_multi

eventVars == <<signal, waiter, receiver, timed, exec, sub, flagAll>>

Events == {"exec", "comp", "term"}
Multi == {"exec", "term"}           \* what exec_thread waits for
Waiters == {"recv"} \cup Multi      \* a thread of wait_event_multi has its event's name

-----------------------------------------------------------------------------
(* create_event: exec_evt is reset by the wait it ends, the others by hand;
   comp_evt is signalled from the start. *)
Manual == {"comp", "term"}
ManualAll == Events                     \* mutant: exec_evt is a manual-reset event
KeepsSignal == Manual
InitSignal == [e \in Events |-> e = "comp"]

(* The event that a thread blocks on. *)
BlockedOn(t) == IF t = "recv" THEN "comp" ELSE t

(* set_event: broadcast, then the flag, under the mutex. *)
WakeNone(e) == waiter                   \* mutant: no broadcast
Broadcast(e) ==
    [t \in Waiters |-> IF waiter[t] = "blocked" /\ BlockedOn(t) = e THEN "woken" ELSE waiter[t]]
SetEvent(e) == signal' = [signal EXCEPT ![e] = TRUE] /\ waiter' = Broadcast(e)
ResetEvent(e) == signal' = [signal EXCEPT ![e] = FALSE] /\ UNCHANGED waiter

(* wait_event: what remains of the flag when the wait succeeds. *)
Consumed(e) == IF e \in KeepsSignal THEN signal ELSE [signal EXCEPT ![e] = FALSE]
Block(t) == waiter[t] = "awake" /\ ~signal[BlockedOn(t)]
            /\ waiter' = [waiter EXCEPT ![t] = "blocked"] /\ UNCHANGED signal
(* pthread_cond_wait is not in a loop: a return of it counts as the signal. *)
Returns(t) == waiter[t] = "woken" \/ (Spurious /\ waiter[t] = "blocked")
WaitSucceeds(t) ==
    /\ (waiter[t] = "awake" /\ signal[BlockedOn(t)]) \/ Returns(t)
    /\ signal' = Consumed(BlockedOn(t))
    /\ waiter' = [waiter EXCEPT ![t] = "awake"]
WaitExpires(t) ==
    /\ waiter[t] = "blocked"
    /\ waiter' = [waiter EXCEPT ![t] = "awake"] /\ UNCHANGED signal

-----------------------------------------------------------------------------
(* exec_thread in wait_event_multi. *)

(* flag_all and one thread for each event. *)
BeginMulti ==
    /\ exec = "wait"
    /\ flagAll' = TRUE
    /\ sub' = [e \in Multi |-> "loop"]
    /\ exec' = "join"
    /\ UNCHANGED <<signal, waiter, receiver, timed>>

(* _wait_event_multi: waits of 1 ms, until one succeeds or flag_all is clear. *)
SubLoop(e) ==
    /\ sub[e] = "loop"
    /\ sub' = [sub EXCEPT ![e] = IF flagAll THEN "wait" ELSE "last"]
    /\ UNCHANGED <<signal, waiter, receiver, timed, exec, flagAll>>
SubBlock(e) ==
    /\ sub[e] = "wait" /\ Block(e)
    /\ UNCHANGED <<receiver, timed, exec, sub, flagAll>>
SubSucceeds(e) ==
    /\ sub[e] = "wait" /\ WaitSucceeds(e)
    /\ sub' = [sub EXCEPT ![e] = "won"]
    /\ UNCHANGED <<receiver, timed, exec, flagAll>>
SubExpires(e) ==
    /\ sub[e] = "wait" /\ WaitExpires(e)
    /\ sub' = [sub EXCEPT ![e] = "loop"]
    /\ UNCHANGED <<receiver, timed, exec, flagAll>>
StopOthers(e) == flagAll' = FALSE
SubEnds(e) ==
    /\ sub[e] \in {"won", "last"}
    /\ StopOthers(e)
    /\ sub' = [sub EXCEPT ![e] = IF @ = "won" THEN "signalled" ELSE "timeout"]
    /\ UNCHANGED <<signal, waiter, receiver, timed, exec>>

(* Both are joined.  Of two that succeeded either may have the smaller stamp. *)
Winners == {e \in Multi : sub[e] = "signalled"}
EndMulti ==
    /\ exec = "join" /\ \A e \in Multi : sub[e] \in {"signalled", "timeout"}
    /\ \E w \in Winners : exec' = IF w = "exec" THEN "call" ELSE "ended"
    /\ sub' = [e \in Multi |-> "none"]
    /\ UNCHANGED <<signal, waiter, receiver, timed, flagAll>>

(* bcap_callfunc, then comp_evt. *)
CallFunc ==
    /\ exec = "call"
    /\ SetEvent("comp")
    /\ exec' = "wait"
    /\ UNCHANGED <<receiver, timed, sub, flagAll>>

-----------------------------------------------------------------------------
(* recv_thread: wait_event(comp_evt, 0), reset it, set exec_evt, wait. *)
Take ==
    /\ receiver = "idle" /\ signal["comp"]
    /\ ResetEvent("comp")
    /\ \E w \in Timed : timed' = w
    /\ receiver' = "handing"
    /\ UNCHANGED <<exec, sub, flagAll>>
Hand ==
    /\ receiver = "handing"
    /\ SetEvent("exec")
    /\ receiver' = "wait"
    /\ UNCHANGED <<timed, exec, sub, flagAll>>
RecvBlock ==
    /\ receiver = "wait" /\ Block("recv")
    /\ UNCHANGED <<receiver, timed, exec, sub, flagAll>>
RecvSucceeds ==
    /\ receiver = "wait" /\ WaitSucceeds("recv")
    /\ receiver' = "respond"
    /\ UNCHANGED <<timed, exec, sub, flagAll>>
(* The execution timed out: S_EXECUTING, and the next request meets E_BUSY_PROC
   until comp_evt is set. *)
RecvExpires ==
    /\ receiver = "wait" /\ timed /\ WaitExpires("recv")
    /\ receiver' = "idle"
    /\ UNCHANGED <<timed, exec, sub, flagAll>>
Respond ==
    /\ receiver = "respond"
    /\ receiver' = "idle"
    /\ UNCHANGED <<signal, waiter, timed, exec, sub, flagAll>>
(* term_main_evt was seen: term_sub_evt, then exec_thread is joined. *)
Terminate ==
    /\ receiver = "idle"
    /\ SetEvent("term")
    /\ receiver' = "join"
    /\ UNCHANGED <<timed, exec, sub, flagAll>>
Joined ==
    /\ receiver = "join" /\ exec = "ended"
    /\ receiver' = "ended"
    /\ UNCHANGED <<signal, waiter, timed, exec, sub, flagAll>>

-----------------------------------------------------------------------------
EventsInit ==
    /\ signal = InitSignal
    /\ waiter = [t \in Waiters |-> "awake"]
    /\ receiver = "idle" /\ timed \in Timed
    /\ exec = "wait"
    /\ sub = [e \in Multi |-> "none"]
    /\ flagAll = FALSE

SubStep(e) == SubLoop(e) \/ SubBlock(e) \/ SubSucceeds(e) \/ SubExpires(e) \/ SubEnds(e)
ExecStep == BeginMulti \/ EndMulti \/ CallFunc
ReceiverStep == Hand \/ RecvBlock \/ RecvSucceeds \/ Respond \/ Joined

EventsNext ==
    \/ \E e \in Multi : SubStep(e)
    \/ ExecStep
    \/ ReceiverStep \/ Take \/ RecvExpires \/ Terminate

EventsSpec == EventsInit /\ [][EventsNext]_eventVars

(* Waiters run on; a wait of 1 ms whose event stays set meets it in the end; the
   limit of recv_thread need not pass, and no request need come. *)
EventsFairSpec ==
    /\ EventsSpec
    /\ WF_eventVars(ExecStep) /\ WF_eventVars(ReceiverStep)
    /\ \A e \in Multi : WF_eventVars(SubStep(e)) /\ SF_eventVars(SubSucceeds(e))

-----------------------------------------------------------------------------
(* Properties. *)

(* Every variable keeps its type, and a thread is in pthread_cond_wait only while
   it waits for its event. *)
EventsTypeOK ==
    /\ signal \in [Events -> BOOLEAN]
    /\ waiter \in [Waiters -> {"awake", "blocked", "woken"}]
    /\ receiver \in {"idle", "handing", "wait", "respond", "join", "ended"}
    /\ timed \in BOOLEAN /\ flagAll \in BOOLEAN
    /\ exec \in {"wait", "join", "call", "ended"}
    /\ sub \in [Multi -> {"none", "loop", "wait", "won", "last", "signalled", "timeout"}]
    /\ waiter["recv"] # "awake" => receiver = "wait"
    /\ \A e \in Multi : waiter[e] # "awake" => sub[e] = "wait" /\ exec = "join"

(* No thread sleeps over a signal: one that is blocked and not woken waits for an
   event whose flag is clear. *)
NoLostSignal == \A t \in Waiters : waiter[t] = "blocked" => ~signal[BlockedOn(t)]

(* recv_thread sends last_send only when exec_thread has finished with it. *)
RespondsFinished == receiver = "respond" => signal["comp"] /\ exec # "call"

(* The two threads keep the promise of HandOver: no request is executed twice,
   none is lost unless the thread ends, none is executed unasked. *)
HandPromise == INSTANCE HandOver WITH
    phase <- IF exec = "call" THEN "executing" ELSE IF signal["comp"] THEN "free" ELSE "handed",
    ended <- exec = "ended"
HandedOver == HandPromise!Spec

(* After term_sub_evt exec_thread ends and recv_thread joins it, whatever
   wait_event_multi was doing. *)
Ends == (receiver = "join") ~> (receiver = "ended")

=============================================================================
