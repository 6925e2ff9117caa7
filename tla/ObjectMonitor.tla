---------------------------- MODULE ObjectMonitor ----------------------------
(***************************************************************************)
(* ext/jvm/jvm_objectmonitor.h: HotSpot's object monitor.  A thread that   *)
(* fails to take the owner field spins, then pushes itself on cxq and      *)
(* parks on its event; the owner that leaves moves cxq to EntryList and    *)
(* unparks the first waiter, unless a successor is already awake.          *)
(*                                                                         *)
(* _SpinDuration only decides whether and how long a thread spins, and is  *)
(* itself updated without protection: here a thread may stop spinning      *)
(* after any failed probe.  _count is a statistic.  pthread mutexes and    *)
(* condition variables are external; spurious wake-ups are allowed.        *)
(***************************************************************************)
EXTENDS Integers

CONSTANTS
    Thread,     \* the threads
    NO_THREAD   \* no thread, no node

ASSUME MonitorAssumption == NO_THREAD \notin Thread

VARIABLES
    mon,     \* struct ObjectMonitor; a node is named by its thread
    node,    \* node[t]: the ObjectWaiter of t, NoNode when it is dead
    ev,      \* ev[t]: the ParkEvent of t; held and signalled are its mutex and cond
    pc,      \* where each thread is
    call,    \* call[t]: which of its three call sites TrySpin returns to
    timed,   \* timed[t]: t is in parkTimed
    wakee,   \* wakee[t]: local variable w of Exit, then Trigger of ExitEpilog
    reinit   \* history: an event was initialised while its mutex was held

vars == <<mon, node, ev, pc, call, timed, wakee, reinit>>

NoNode == [next |-> NO_THREAD, prev |-> NO_THREAD, TState |-> "TS_UNDEF"]
NewEvent == [Event |-> 0, nParked |-> 0, held |-> FALSE, signalled |-> FALSE]

\* jvm_init_locks, before the threads start.
Init ==
    /\ mon = [owner |-> NO_THREAD, EntryList |-> NO_THREAD, cxq |-> NO_THREAD,
              succ |-> NO_THREAD, Responsible |-> NO_THREAD]
    /\ node = [t \in Thread |-> NoNode]
    /\ ev = [t \in Thread |-> NewEvent]
    /\ pc = [t \in Thread |-> "idle"]
    /\ call = [t \in Thread |-> "early"]
    /\ timed = [t \in Thread |-> FALSE]
    /\ wakee = [t \in Thread |-> NO_THREAD]
    /\ reinit = FALSE

Goto(t, l) == pc' = [pc EXCEPT ![t] = l]

\* Only the monitor, or only t's event, changes besides the control state.
MonitorStep == UNCHANGED <<node, ev, call, timed, wakee, reinit>>
EventStep == UNCHANGED <<mon, node, call, timed, wakee, reinit>>

-----------------------------------------------------------------------------
\* jvmObjectMonitorTryLock: take a free monitor and go to won, or go to lost.
TryLock(t, won, lost) ==
    IF mon.owner = NO_THREAD
    THEN mon' = [mon EXCEPT !.owner = t] /\ Goto(t, won)
    ELSE UNCHANGED mon /\ Goto(t, lost)

\* Where a thread that became owner goes: a queued one has to unlink itself.
Won(t) == IF call[t] = "futile" THEN "unlink" ELSE "locked"

\* jvmObjectMonitorEnter: one attempt, then TrySpin for the first time.
Enter(t) ==
    /\ pc[t] = "idle"
    /\ TryLock(t, "locked", "prespin")
    /\ MonitorStep

\* TrySpin returns 0: EnterI is entered, the node is queued, or the loop of
\* EnterI goes on.
SpinFailed(t) ==
    /\ call' = [call EXCEPT ![t] = IF @ = "early" THEN "enterI" ELSE @]
    /\ \/ call[t] = "early" /\ Goto(t, "prespin")
       \/ call[t] = "enterI" /\ Goto(t, "init")
       \/ call[t] = "futile" /\ Goto(t, "unsucc")

\* The attempts before the spin loop of TrySpin, with the one its caller made.
PreSpin(t) ==
    /\ pc[t] = "prespin"
    /\ TryLock(t, Won(t), "admit")
    /\ MonitorStep

\* Admission control, and the read of _succ before the loop.
SpinAdmit(t) ==
    /\ pc[t] = "admit"
    /\ \/ SpinFailed(t)
       \/ /\ Goto(t, IF mon.succ = NO_THREAD THEN "set_succ" ELSE "spin")
          /\ UNCHANGED call
    /\ UNCHANGED <<mon, node, ev, timed, wakee, reinit>>

\* The store that follows the read of an empty _succ, however late it comes.
\* After one in the loop the counter may run out before the next probe.
SpinSetSucc(t) ==
    /\ pc[t] \in {"set_succ", "reset_succ"}
    /\ mon' = [mon EXCEPT !.succ = t]
    /\ Goto(t, "spin") \/ (pc[t] = "reset_succ" /\ Goto(t, "abort"))
    /\ MonitorStep

\* A probe that finds the monitor free takes it; _succ is then read.
\* Mutant: the new owner does not look whether it was the successor.
SpinTakeKeepsSucc(t) ==
    /\ pc[t] = "spin"
    /\ mon.owner = NO_THREAD
    /\ mon' = [mon EXCEPT !.owner = t]
    /\ Goto(t, Won(t))
    /\ MonitorStep

SpinTake(t) ==
    /\ pc[t] = "spin"
    /\ mon.owner = NO_THREAD
    /\ mon' = [mon EXCEPT !.owner = t]
    /\ Goto(t, IF mon.succ = t THEN "spun" ELSE Won(t))
    /\ MonitorStep

\* Any other probe: abort because the owner changed, or go on and read _succ.
SpinProbe(t) ==
    /\ pc[t] = "spin"
    /\ mon.owner # NO_THREAD
    /\ Goto(t, "abort") \/ Goto(t, "probed")
    /\ UNCHANGED mon
    /\ MonitorStep

\* An empty _succ is claimed again, although the owner may have left by now;
\* otherwise the loop probes again or its counter has run out.
SpinProbed(t) ==
    /\ pc[t] = "probed"
    /\ IF mon.succ = NO_THREAD THEN Goto(t, "reset_succ")
       ELSE Goto(t, "spin") \/ Goto(t, "abort")
    /\ UNCHANGED mon
    /\ MonitorStep

SpinAbort(t) ==
    /\ pc[t] = "abort"
    /\ IF mon.succ = t
       THEN Goto(t, "aborted") /\ UNCHANGED call
       ELSE SpinFailed(t)
    /\ UNCHANGED <<mon, node, ev, timed, wakee, reinit>>

\* The stores of NO_THREAD to _succ that follow a read of t, and what comes next:
\* after a successful spin, after an aborted one, after a futile wake-up, and
\* after unlinking.
ClearSucc(t) ==
    /\ \/ pc[t] = "spun" /\ Goto(t, Won(t))
       \/ pc[t] = "aborted" /\ Goto(t, "retry")
       \/ pc[t] = "unsucc_store" /\ Goto(t, "loop")
       \/ pc[t] = "unlinked" /\ Goto(t, "egress")
    /\ mon' = [mon EXCEPT !.succ = NO_THREAD]
    /\ MonitorStep

\* The attempt after an aborted spin gave up being the successor.
SpinRetry(t) ==
    /\ pc[t] = "retry"
    /\ IF mon.owner = NO_THREAD
       THEN TryLock(t, Won(t), "retry") /\ UNCHANGED call
       ELSE SpinFailed(t) /\ UNCHANGED mon
    /\ UNCHANGED <<node, ev, timed, wakee, reinit>>

-----------------------------------------------------------------------------
\* EnterI: a new node, and the thread's event initialised once more.  This puts
\* the mutex of the event back to unlocked even if an unparker holds it.
InitNode(t) ==
    /\ pc[t] = "init"
    /\ node' = [node EXCEPT ![t] = [NoNode EXCEPT !.TState = "TS_CXQ"]]
    /\ ev' = [ev EXCEPT ![t] = NewEvent]
    /\ reinit' = (reinit \/ ev[t].held)
    /\ call' = [call EXCEPT ![t] = "futile"]
    /\ Goto(t, "push")
    /\ UNCHANGED <<mon, timed, wakee>>

\* node->_next = nxt = _cxq
PushRead(t) ==
    /\ pc[t] = "push"
    /\ node' = [node EXCEPT ![t].next = mon.cxq]
    /\ Goto(t, "push_cas")
    /\ UNCHANGED <<mon, ev, call, timed, wakee, reinit>>

PushCas(t) ==
    /\ pc[t] = "push_cas"
    /\ IF mon.cxq = node[t].next
       THEN /\ mon' = [mon EXCEPT !.cxq = t]
            /\ Goto(t, IF node[t].next = NO_THREAD THEN "check_entry" ELSE "loop")
       ELSE UNCHANGED mon /\ Goto(t, "push_retry")
    /\ MonitorStep

\* The attempt between two pushes: an owner that is not queued has no node.
PushRetry(t) ==
    /\ pc[t] = "push_retry"
    /\ TryLock(t, "locked", "push")
    /\ node' = [node EXCEPT ![t] = IF mon.owner = NO_THREAD THEN NoNode ELSE @]
    /\ UNCHANGED <<ev, call, timed, wakee, reinit>>

\* The first waiter becomes responsible for waking up by itself.
CheckEntryList(t) ==
    /\ pc[t] = "check_entry"
    /\ Goto(t, IF mon.EntryList = NO_THREAD THEN "responsible" ELSE "loop")
    /\ UNCHANGED mon
    /\ MonitorStep

BecomeResponsible(t) ==
    /\ pc[t] = "responsible"
    /\ mon' = [mon EXCEPT !.Responsible = IF @ = NO_THREAD THEN t ELSE @]
    /\ Goto(t, "loop")
    /\ MonitorStep

\* The loop of EnterI: an attempt, then the choice of the kind of wait.
WaitLoop(t) ==
    /\ pc[t] = "loop"
    /\ TryLock(t, "unlink", "choose")
    /\ MonitorStep

ChoosePark(t) ==
    /\ pc[t] = "choose"
    /\ timed' = [timed EXCEPT ![t] = (mon.Responsible = t)]
    /\ Goto(t, "park")
    /\ UNCHANGED <<mon, node, ev, call, wakee, reinit>>

\* After a futile wake-up: stop being the successor.
\* Mutant: the thread goes back to sleep as the successor.
FutileWakeupKeepsSucc(t) ==
    /\ pc[t] = "unsucc"
    /\ Goto(t, "loop")
    /\ UNCHANGED mon
    /\ MonitorStep

FutileWakeup(t) ==
    /\ pc[t] = "unsucc"
    /\ Goto(t, IF mon.succ = t THEN "unsucc_store" ELSE "loop")
    /\ UNCHANGED mon
    /\ MonitorStep

-----------------------------------------------------------------------------
\* S has the node n and, with each of its nodes, the next one.
ClosedList(nodes, n, S) ==
    /\ n \in S \cup {NO_THREAD}
    /\ \A q \in S : nodes[q].next \in S \cup {NO_THREAD}

\* The nodes of the list that starts at n: those of every such set.
OnList(nodes, n) ==
    {m \in Thread : \A S \in SUBSET Thread : ClosedList(nodes, n, S) => m \in S}

\* UnlinkAfterAcquire, then the read of _succ.  Only the owner unlinks, and a
\* concurrent push only changes the head of cxq, by a CAS.
\* Mutant: a node in the middle of cxq is not taken out.
UnlinkHeadOnly(t) ==
    /\ pc[t] = "unlink"
    /\ mon' = [mon EXCEPT !.EntryList = IF @ = t THEN node[t].next ELSE @,
                          !.cxq = IF @ = t THEN node[t].next ELSE @]
    /\ node' = [node EXCEPT ![t] = NoNode]
    /\ Goto(t, IF mon.succ = t THEN "unlinked" ELSE "egress")
    /\ UNCHANGED <<ev, call, timed, wakee, reinit>>

UnlinkAfterAcquire(t) ==
    LET enter == node[t].TState = "TS_ENTER"
        before == IF enter THEN {node[t].prev}
                  ELSE {q \in OnList(node, mon.cxq) : node[q].next = t}
    IN  /\ pc[t] = "unlink"
        /\ node' = [n \in Thread |->
              IF n = t THEN NoNode
              ELSE [node[n] EXCEPT
                      !.next = IF n \in before THEN node[t].next ELSE @,
                      !.prev = IF enter /\ n = node[t].next THEN node[t].prev ELSE @]]
        /\ mon' = [mon EXCEPT !.EntryList = IF @ = t THEN node[t].next ELSE @,
                              !.cxq = IF @ = t THEN node[t].next ELSE @]
        /\ Goto(t, IF mon.succ = t THEN "unlinked" ELSE "egress")
        /\ UNCHANGED <<ev, call, timed, wakee, reinit>>

\* The end of EnterI.
Egress(t) ==
    /\ pc[t] = "egress"
    /\ mon' = [mon EXCEPT !.Responsible = IF @ = t THEN NO_THREAD ELSE @]
    /\ Goto(t, "locked")
    /\ MonitorStep

-----------------------------------------------------------------------------
\* park and parkTimed: take one permit of the event, or announce a waiter.
ParkTakePermit(t) ==
    /\ pc[t] = "park"
    /\ ev' = [ev EXCEPT ![t].Event = @ - 1]
    /\ timed' = [timed EXCEPT ![t] = @ /\ ev[t].Event = 0]
    /\ Goto(t, IF ev[t].Event = 0 THEN "park_lock" ELSE "prespin")
    /\ UNCHANGED <<mon, node, call, wakee, reinit>>

ParkLock(t) ==
    /\ pc[t] = "park_lock"
    /\ ~ev[t].held
    /\ ev' = [ev EXCEPT ![t].held = TRUE, ![t].nParked = @ + 1]
    /\ Goto(t, "park_test")
    /\ EventStep

\* while (_Event < 0)
ParkTest(t) ==
    /\ pc[t] = "park_test"
    /\ Goto(t, IF ev[t].Event < 0 THEN "cond_wait" ELSE "park_done")
    /\ UNCHANGED ev
    /\ EventStep

\* pthread_cond_wait releases the mutex and starts to wait, atomically.
CondWait(t) ==
    /\ pc[t] = "cond_wait"
    /\ ev' = [ev EXCEPT ![t].held = FALSE]
    /\ Goto(t, "asleep")
    /\ EventStep

\* The wait ends by a signal, or spuriously, or by its timeout.
CondWake(t) ==
    /\ pc[t] = "asleep"
    /\ ev' = [ev EXCEPT ![t].signalled = FALSE]
    /\ Goto(t, "relock") \/ (timed[t] /\ Goto(t, "relock_timeout"))
    /\ EventStep

CondRelock(t) ==
    /\ pc[t] \in {"relock", "relock_timeout"}
    /\ ~ev[t].held
    /\ ev' = [ev EXCEPT ![t].held = TRUE]
    /\ Goto(t, IF pc[t] = "relock" THEN "park_test" ELSE "park_done")
    /\ EventStep

\* The end of park: back in EnterI, which tries again and then spins.
\* Mutant: the event is not made neutral again.
ParkDoneNoReset(t) ==
    /\ pc[t] = "park_done"
    /\ ev' = [ev EXCEPT ![t].nParked = @ - 1, ![t].held = FALSE]
    /\ timed' = [timed EXCEPT ![t] = FALSE]
    /\ Goto(t, "prespin")
    /\ UNCHANGED <<mon, node, call, wakee, reinit>>

ParkDone(t) ==
    /\ pc[t] = "park_done"
    /\ ev' = [ev EXCEPT ![t].nParked = @ - 1, ![t].Event = 0, ![t].held = FALSE]
    /\ timed' = [timed EXCEPT ![t] = FALSE]
    /\ Goto(t, "prespin")
    /\ UNCHANGED <<mon, node, call, wakee, reinit>>

-----------------------------------------------------------------------------
\* jvmObjectMonitorExit: nobody is responsible any more, then drop the monitor.
Exit(t) ==
    /\ pc[t] = "locked"
    /\ mon' = [mon EXCEPT !.Responsible = NO_THREAD]
    /\ call' = [call EXCEPT ![t] = "early"]
    /\ Goto(t, "drop")
    /\ UNCHANGED <<node, ev, timed, wakee, reinit>>

ExitDrop(t) ==
    /\ pc[t] = "drop"
    /\ mon' = [mon EXCEPT !.owner = NO_THREAD]
    /\ Goto(t, "see_entry")
    /\ MonitorStep

\* Does anybody have to be woken?  Three reads, at three moments, in the order in
\* which the condition is written.
\* Mutant: only the EntryList is looked at.
ExitSeesEntryListOnly(t) ==
    /\ \/ pc[t] = "see_entry" /\ Goto(t, IF mon.EntryList = NO_THREAD THEN "idle" ELSE "see_succ")
       \/ pc[t] = "see_succ" /\ Goto(t, IF mon.succ = NO_THREAD THEN "retake" ELSE "idle")
    /\ UNCHANGED mon
    /\ MonitorStep

ExitSees(t) ==
    /\ \/ pc[t] = "see_entry" /\ Goto(t, IF mon.EntryList = NO_THREAD THEN "see_cxq" ELSE "see_succ")
       \/ pc[t] = "see_cxq" /\ Goto(t, IF mon.cxq = NO_THREAD THEN "idle" ELSE "see_succ")
       \/ pc[t] = "see_succ" /\ Goto(t, IF mon.succ = NO_THREAD THEN "retake" ELSE "idle")
    /\ UNCHANGED mon
    /\ MonitorStep

\* Become owner again to work on the lists; a new owner would do it instead.
\* Mutant: the lists are worked on without the monitor.
ExitRetakeAlways(t) ==
    /\ pc[t] = "retake"
    /\ Goto(t, "pick")
    /\ mon' = [mon EXCEPT !.owner = t]
    /\ MonitorStep

ExitRetake(t) ==
    /\ pc[t] = "retake"
    /\ TryLock(t, "pick", "idle")
    /\ MonitorStep

\* The first of EntryList is woken; an empty EntryList takes over cxq.
ExitPick(t) ==
    /\ pc[t] = "pick"
    /\ IF mon.EntryList = NO_THREAD /\ mon.cxq # NO_THREAD
       THEN /\ wakee' = [wakee EXCEPT ![t] = mon.cxq]
            /\ mon' = [mon EXCEPT !.cxq = NO_THREAD]
            /\ Goto(t, "transfer")
       ELSE /\ Goto(t, IF mon.EntryList # NO_THREAD THEN "epilog" ELSE "drop")
            /\ UNCHANGED <<mon, wakee>>
    /\ UNCHANGED <<node, ev, call, timed, reinit>>

\* EntryList = w, with the states and the back links of its nodes.
ExitTransfer(t) ==
    LET moved == OnList(node, wakee[t])
    IN  /\ pc[t] = "transfer"
        /\ mon' = [mon EXCEPT !.EntryList = wakee[t]]
        /\ node' = [n \in Thread |->
              IF n \notin moved THEN node[n]
              ELSE [node[n] EXCEPT
                      !.TState = "TS_ENTER",
                      !.prev = IF n = wakee[t] THEN NO_THREAD
                               ELSE CHOOSE q \in moved : node[q].next = n]]
        /\ wakee' = [wakee EXCEPT ![t] = NO_THREAD]
        /\ Goto(t, "see_succ2")
        /\ UNCHANGED <<ev, call, timed, reinit>>

ExitSeesSucc(t) ==
    /\ pc[t] = "see_succ2"
    /\ Goto(t, IF mon.succ = NO_THREAD THEN "epilog" ELSE "drop")
    /\ UNCHANGED mon
    /\ MonitorStep

\* jvmObjectMonitorExitEpilog: name the successor, drop the monitor, unpark.
ExitEpilog(t) ==
    /\ pc[t] = "epilog"
    /\ mon' = [mon EXCEPT !.succ = mon.EntryList]
    /\ wakee' = [wakee EXCEPT ![t] = mon.EntryList]
    /\ Goto(t, "epilog_drop")
    /\ UNCHANGED <<node, ev, call, timed, reinit>>

EpilogDrop(t) ==
    /\ pc[t] = "epilog_drop"
    /\ mon' = [mon EXCEPT !.owner = NO_THREAD]
    /\ Goto(t, "unpark")
    /\ MonitorStep

\* The exiting thread is done with the event of its wakee.
UnparkReturns(t) ==
    /\ wakee' = [wakee EXCEPT ![t] = NO_THREAD]
    /\ Goto(t, "idle")

\* unpark: give a permit; an announced waiter has to be signalled too.
Unpark(t) ==
    LET e == ev[wakee[t]]
    IN  /\ pc[t] = "unpark"
        /\ ev' = [ev EXCEPT ![wakee[t]].Event = 1]
        /\ IF e.Event >= 0 THEN UnparkReturns(t)
           ELSE Goto(t, "unpark_lock") /\ UNCHANGED wakee
        /\ UNCHANGED <<mon, node, call, timed, reinit>>

UnparkLock(t) ==
    /\ pc[t] = "unpark_lock"
    /\ ~ev[wakee[t]].held
    /\ ev' = [ev EXCEPT ![wakee[t]].held = TRUE]
    /\ Goto(t, "unpark_read")
    /\ EventStep

\* AnyWaiters = _nParked, and the unlock.
UnparkRead(t) ==
    /\ pc[t] = "unpark_read"
    /\ ev' = [ev EXCEPT ![wakee[t]].held = FALSE]
    /\ IF ev[wakee[t]].nParked = 0 THEN UnparkReturns(t)
       ELSE Goto(t, "signal") /\ UNCHANGED wakee
    /\ UNCHANGED <<mon, node, call, timed, reinit>>

\* pthread_cond_signal: it is lost on a thread that does not wait.
UnparkSignal(t) ==
    /\ pc[t] = "signal"
    /\ ev' = [ev EXCEPT ![wakee[t]].signalled = pc[wakee[t]] = "asleep"]
    /\ UnparkReturns(t)
    /\ UNCHANGED <<mon, node, call, timed, reinit>>

-----------------------------------------------------------------------------
Step(t) ==
    \/ Enter(t) \/ PreSpin(t) \/ SpinAdmit(t) \/ SpinSetSucc(t) \/ SpinTake(t)
    \/ SpinProbe(t) \/ SpinProbed(t) \/ SpinAbort(t) \/ ClearSucc(t) \/ SpinRetry(t)
    \/ InitNode(t) \/ PushRead(t) \/ PushCas(t) \/ PushRetry(t)
    \/ CheckEntryList(t) \/ BecomeResponsible(t) \/ WaitLoop(t) \/ ChoosePark(t)
    \/ FutileWakeup(t) \/ UnlinkAfterAcquire(t) \/ Egress(t)
    \/ ParkTakePermit(t) \/ ParkLock(t) \/ ParkTest(t) \/ CondWait(t)
    \/ CondWake(t) \/ CondRelock(t) \/ ParkDone(t)
    \/ Exit(t) \/ ExitDrop(t) \/ ExitSees(t) \/ ExitRetake(t) \/ ExitPick(t)
    \/ ExitTransfer(t) \/ ExitSeesSucc(t) \/ ExitEpilog(t) \/ EpilogDrop(t)
    \/ Unpark(t) \/ UnparkLock(t) \/ UnparkRead(t) \/ UnparkSignal(t)

Next == \E t \in Thread : Step(t)

Spec == Init /\ [][Next]_vars

-----------------------------------------------------------------------------
Labels == {"idle", "prespin", "admit", "set_succ", "spin", "probed", "reset_succ", "spun", "abort",
           "aborted", "retry", "init", "push", "push_cas", "push_retry", "check_entry", "responsible",
           "loop", "choose", "unsucc", "unsucc_store", "unlink", "unlinked", "egress",
           "park", "park_lock", "park_test", "cond_wait", "asleep", "relock",
           "relock_timeout", "park_done", "locked", "drop", "see_entry", "see_cxq",
           "see_succ", "retake", "pick", "transfer", "see_succ2", "epilog",
           "epilog_drop", "unpark", "unpark_lock", "unpark_read", "signal"}

\* The fields have the values the code gives them; in particular park's
\* guarantees on _Event and _nParked hold: a thread that announces itself was not
\* announced, and an event has one parker.
TypeOK ==
    LET Ref == Thread \cup {NO_THREAD}
    IN  /\ mon \in [owner : Ref, EntryList : Ref, cxq : Ref, succ : Ref, Responsible : Ref]
        /\ node \in [Thread -> [next : Ref, prev : Ref, TState : {"TS_UNDEF", "TS_CXQ", "TS_ENTER"}]]
        /\ ev \in [Thread -> [Event : -1..1, nParked : 0..1, held : BOOLEAN, signalled : BOOLEAN]]
        /\ pc \in [Thread -> Labels]
        /\ call \in [Thread -> {"early", "enterI", "futile"}]
        /\ timed \in [Thread -> BOOLEAN]
        /\ wakee \in [Thread -> Ref]
        /\ reinit \in BOOLEAN

\* The owner field names the thread that is between a successful attempt and the
\* store that drops the monitor, the owner that works on the lists included.
MutualExclusion ==
    \A t \in Thread :
        mon.owner = t <=> pc[t] \in {"locked", "drop", "spun", "unlink", "unlinked", "egress",
                                     "pick", "transfer", "see_succ2", "epilog", "epilog_drop"}

\* The threads that have pushed a node and not unlinked it.
Queued == {t \in Thread : /\ node[t].TState # "TS_UNDEF"
                          /\ pc[t] \notin {"push", "push_cas", "push_retry"}}

\* Every queued waiter is on exactly one of the two lists (or on the list the
\* owner is moving from one to the other), in the state UnlinkAfterAcquire
\* relies on, and EntryList is doubly linked.
WaitersOnOneList ==
    LET moving == {OnList(node, wakee[t]) : t \in {u \in Thread : pc[u] = "transfer"}}
        onCxq == OnList(node, mon.cxq) \cup UNION moving
        onEntryList == OnList(node, mon.EntryList)
    IN  /\ onCxq \cup onEntryList = Queued
        /\ \A n \in onCxq : node[n].TState = "TS_CXQ"
        /\ \A n \in onEntryList :
              /\ node[n].TState = "TS_ENTER"
              /\ node[n].prev = NO_THREAD <=> n = mon.EntryList
              /\ \A m \in onEntryList : node[n].next = m <=> node[m].prev = n

\* A sleeper that only a spurious wake-up could still wake: no timeout, no
\* signal, and no thread on its way through unpark to it.
Stranded(t) ==
    /\ pc[t] \in {"cond_wait", "asleep"}
    /\ ~timed[t]
    /\ ~ev[t].signalled
    /\ ~\E u \in Thread : /\ wakee[u] = t
                          /\ pc[u] \in {"epilog_drop", "unpark", "unpark_lock", "unpark_read", "signal"}

\* An exiting thread wakes nobody while there is a successor, so the successor
\* must be a thread that is still trying: it is spinning or queued, it will look
\* at the owner field again before it sleeps, or it is being woken.  This holds as
\* long as no event was initialised while its mutex was held (reinit); after that
\* an unlock can free the mutex under a parker, which then misses its signal.
SuccessorIsTrying ==
    mon.succ # NO_THREAD /\ ~reinit =>
        /\ ~Stranded(mon.succ)
        /\ \/ mon.succ \in Queued
           \/ pc[mon.succ] \in {"spin", "probed", "spun", "abort", "aborted", "unlinked"}

\* The assertions of EnterI on _succ, _owner and _Responsible hold, although the
\* first and the last are written by threads that do not own the monitor and by
\* late stores: a thread about to queue itself is neither successor, owner nor
\* responsible, and one that has the monitor is neither successor nor, once it
\* is out of EnterI, responsible.
EnterIAssertions ==
    \A t \in Thread :
        /\ pc[t] \in {"init", "egress", "locked"} => mon.succ # t
        /\ pc[t] = "init" => mon.owner # t
        /\ pc[t] \in {"init", "locked"} => mon.Responsible # t

\* A free monitor with waiters is never left alone: some thread is neither outside
\* nor asleep for good.  The header promises it: the thread that leaves wakes the
\* next one up, and unpark signals a thread that has announced its wait.
NoWaiterForgotten ==
    mon.owner = NO_THREAD /\ Queued # {} =>
        \E t \in Thread : pc[t] # "idle" /\ ~Stranded(t)

\* The same as long as no event was initialised while its mutex was held.
NoWaiterForgottenUnlessReinit == ~reinit => NoWaiterForgotten
=============================================================================
