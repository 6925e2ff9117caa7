------------------------ MODULE ObjectMonitor_proofs ------------------------
(***************************************************************************)
(* The object monitor for any set of threads: who owns it, what the two    *)
(* lists hold, and why no waiter is forgotten.                             *)
(*                                                                         *)
(* The lists need no numbering: a list is the least set closed under next, *)
(* so a set that is shown closed contains it, and what is taken out of a   *)
(* list leaves a closed set.  Only the owner takes nodes out of a list or  *)
(* moves one, and a push adds a node whose next is the old head.           *)
(*                                                                         *)
(* A waiter is not forgotten because every thread that drops the monitor   *)
(* looks at the lists afterwards, and a thread that stops looking leaves   *)
(* either a successor or a permit behind; the successor clears the field   *)
(* itself and tries again before it may sleep.                             *)
(***************************************************************************)
EXTENDS ObjectMonitor, TLAPS

Ref == Thread \cup {NO_THREAD}

\* In TrySpin; between the push and the spinning or the wait; in park with the
\* event's waiter announced; and the part of it that holds the event's mutex.
Spinning == {"prespin", "admit", "set_succ", "spin", "probed", "reset_succ", "spun", "abort",
             "aborted", "retry"}
Pushing == {"push", "push_cas", "push_retry"}
Parked == {"park_test", "cond_wait", "asleep", "relock", "relock_timeout", "park_done"}
Waiting == {"check_entry", "responsible", "loop", "choose", "unsucc", "unsucc_store",
            "unlink", "park", "park_lock"} \cup Parked
HoldsMutex == {"park_test", "cond_wait", "park_done"}

\* Owner; in Exit after the drop was decided; on the way to the event of a wakee.
Owning == {"locked", "drop", "spun", "unlink", "unlinked", "egress",
           "pick", "transfer", "see_succ2", "epilog", "epilog_drop"}
Waking == {"epilog_drop", "unpark", "unpark_lock", "unpark_read", "signal"}
Leaving == {"drop", "see_entry", "see_cxq", "see_succ", "retake", "pick", "transfer",
            "see_succ2", "epilog"} \cup Waking

\* What is known of a thread from where it is.
Local(t) ==
    /\ pc[t] \in {"idle"} \cup Leaving => call[t] = "early"
    /\ pc[t] = "init" => call[t] = "enterI"
    /\ pc[t] \in Pushing \cup Waiting \cup {"unlinked", "egress"} => call[t] = "futile"
    /\ node[t].TState # "TS_UNDEF" <=>
          pc[t] \in Pushing \cup Waiting \/ (pc[t] \in Spinning /\ call[t] = "futile")
    /\ pc[t] \in Pushing => node[t].TState = "TS_CXQ"
    /\ ev[t].Event < 0 => pc[t] \in {"park_lock"} \cup Parked
    /\ ev[t].nParked = IF pc[t] \in Parked THEN 1 ELSE 0
    /\ ev[t].signalled => pc[t] = "asleep"
    /\ wakee[t] # NO_THREAD <=> pc[t] \in Waking \cup {"transfer"}
    /\ pc[t] \in {"see_succ2", "epilog"} => mon.EntryList # NO_THREAD
    /\ pc[t] = "transfer" => mon.EntryList = NO_THREAD
    /\ pc[t] = "epilog_drop" => wakee[t] = mon.EntryList

Threads == \A t \in Thread : Local(t)

\* The list an owner is moving from cxq to EntryList.
Moving ==
    IF mon.owner # NO_THREAD /\ pc[mon.owner] = "transfer" THEN wakee[mon.owner] ELSE NO_THREAD

\* No node of a list is before its head, and no two are before the same node.
Simple(nodes, h) ==
    /\ \A m \in OnList(nodes, h) : nodes[m].next # h
    /\ \A m, q \in OnList(nodes, h) :
          nodes[m].next = nodes[q].next /\ nodes[m].next # NO_THREAD => m = q

OnCxq(nodes, n) == nodes[n].TState = "TS_CXQ"

DoublyLinked(nodes, h) ==
    \A n \in OnList(nodes, h) :
        /\ nodes[n].TState = "TS_ENTER"
        /\ nodes[n].prev = NO_THREAD <=> n = h
        /\ \A m \in OnList(nodes, h) : nodes[n].next = m <=> nodes[m].prev = n

Lists ==
    /\ OnList(node, mon.cxq) \cup OnList(node, Moving) \cup OnList(node, mon.EntryList) = Queued
    /\ OnList(node, mon.cxq) \cap OnList(node, Moving) = {}
    /\ \A n \in OnList(node, mon.cxq) : OnCxq(node, n)
    /\ \A n \in OnList(node, Moving) : OnCxq(node, n)
    /\ Simple(node, mon.cxq)
    /\ Simple(node, Moving)
    /\ DoublyLinked(node, mon.EntryList)

\* The mutex of an event has one holder, the parker or one unparker.
Mutexes ==
    ~reinit => \A s \in Thread :
        /\ pc[s] \in HoldsMutex => ev[s].held
        /\ \A u \in Thread : pc[u] = "unpark_read" /\ wakee[u] = s =>
              /\ ev[s].held
              /\ pc[s] \notin HoldsMutex
              /\ \A v \in Thread : pc[v] = "unpark_read" /\ wakee[v] = s => u = v

\* A sleeper that has a permit is told so: somebody has signalled it or will.
Told(s) ==
    \/ timed[s]
    \/ ev[s].signalled
    \/ \E u \in Thread : /\ wakee[u] = s
                         /\ \/ pc[u] = "unpark_lock"
                            \/ pc[u] \in {"unpark_read", "signal"} /\ pc[s] = "asleep"

Permits ==
    ~reinit => \A s \in Thread :
        pc[s] \in {"cond_wait", "asleep"} /\ ev[s].Event >= 0 => Told(s)

\* The successor is queued or spinning, and has not gone to sleep without a permit.
Awake(s) ==
    \/ pc[s] \in Spinning \cup {"unsucc", "unsucc_store", "unlink", "unlinked",
                                "relock_timeout", "park_done"}
    \/ ev[s].Event = 1
    \/ timed[s] /\ pc[s] \in {"park_lock", "park_test", "cond_wait", "asleep", "relock"}
    \/ \E u \in Thread : wakee[u] = s /\ pc[u] \in {"epilog_drop", "unpark"}

Successor ==
    \A s \in Thread : mon.succ = s =>
        /\ s \in Queued \/ pc[s] \in {"spin", "probed", "spun", "abort", "aborted", "unlinked"}
        /\ Awake(s)

\* A thread that keeps a free monitor from being left alone: it will try to take it
\* before it sleeps; it will find the waiters; it has a permit; it is the successor;
\* or it is on its way to unpark a waiter.
Tries(t) == pc[t] \in (Spinning \ {"spun"}) \cup Pushing \cup
                {"init", "check_entry", "responsible", "loop", "unsucc", "unsucc_store",
                 "relock_timeout", "park_done"}
Looks(t) ==
    \/ pc[t] \in {"see_entry", "see_succ", "retake"}
    \/ pc[t] = "see_cxq" /\ mon.cxq # NO_THREAD
Rests(t) ==
    /\ pc[t] \in {"choose", "park", "park_lock", "park_test", "cond_wait", "asleep", "relock"}
    /\ ev[t].Event = 1
Cares(t) ==
    \/ Tries(t) \/ Looks(t) \/ Rests(t)
    \/ mon.succ = t
    \/ pc[t] = "unpark" /\ wakee[t] \in Queued

Attended ==
    mon.owner = NO_THREAD /\ Queued # {} => \E t \in Thread : Cares(t)

Base == TypeOK /\ MutualExclusion /\ Threads
MonInv == Base /\ Lists /\ Mutexes /\ Permits /\ Successor /\ Attended

-----------------------------------------------------------------------------
\* A list is closed, and contained in every closed set.
LEMMA ListIsClosed ==
    ASSUME NEW nodes, NEW h \in Ref, \A n \in Thread : nodes[n].next \in Ref
    PROVE  ClosedList(nodes, h, OnList(nodes, h))
BY DEF ClosedList, OnList, Ref

LEMMA ListIsLeast ==
    ASSUME NEW nodes, NEW h, NEW S \in SUBSET Thread, ClosedList(nodes, h, S)
    PROVE  OnList(nodes, h) \subseteq S
BY DEF OnList

LEMMA EmptyList ==
    ASSUME NEW nodes
    PROVE  OnList(nodes, NO_THREAD) = {}
<1>1. ClosedList(nodes, NO_THREAD, {})
  BY DEF ClosedList
<1> QED BY <1>1, ListIsLeast

\* The head of a list is on it.
LEMMA HeadOnList ==
    ASSUME NEW nodes, NEW h \in Thread
    PROVE  h \in OnList(nodes, h)
BY MonitorAssumption DEF OnList, ClosedList

\* A list does not depend on the nodes that are not on it.
LEMMA ListKept ==
    ASSUME NEW nodes, NEW after, NEW h \in Ref, \A n \in Thread : nodes[n].next \in Ref,
           \A n \in OnList(nodes, h) : after[n].next = nodes[n].next
    PROVE  OnList(after, h) = OnList(nodes, h)
<1> DEFINE L == OnList(nodes, h)
<1>1. L \in SUBSET Thread
  BY DEF OnList
<1>2. ClosedList(nodes, h, L)
  BY ListIsClosed
<1>3. ClosedList(after, h, L)
  BY <1>2 DEF ClosedList
<1>4. OnList(after, h) \subseteq L
  BY <1>1, <1>3, ListIsLeast
<1>5. ASSUME NEW S \in SUBSET Thread, ClosedList(after, h, S) PROVE L \subseteq S
  <2>1. ClosedList(nodes, h, S \cap L)
    BY <1>2, <1>5 DEF ClosedList
  <2> QED BY <2>1, ListIsLeast
<1>6. L \subseteq OnList(after, h)
  BY <1>1, <1>5 DEF OnList
<1> QED BY <1>4, <1>6

\* A node in front of the head is the new head.
LEMMA ListPushed ==
    ASSUME NEW nodes, NEW t \in Thread, \A n \in Thread : nodes[n].next \in Ref
    PROVE  OnList(nodes, t) = OnList(nodes, nodes[t].next) \cup {t}
<1> DEFINE h == nodes[t].next
           L == OnList(nodes, h)
<1>1. h \in Ref /\ L \in SUBSET Thread
  BY DEF OnList
<1>2. ClosedList(nodes, h, L)
  BY <1>1, ListIsClosed
<1>3. ClosedList(nodes, t, L \cup {t})
  BY <1>2 DEF ClosedList
<1>4. OnList(nodes, t) \subseteq L \cup {t}
  BY <1>1, <1>3, ListIsLeast
<1>5. ASSUME NEW S \in SUBSET Thread, ClosedList(nodes, t, S) PROVE L \cup {t} \subseteq S
  <2>1. t \in S /\ ClosedList(nodes, h, S)
    BY <1>5, MonitorAssumption DEF ClosedList
  <2> QED BY <2>1, ListIsLeast
<1>6. L \cup {t} \subseteq OnList(nodes, t)
  BY <1>1, <1>5 DEF OnList
<1> QED BY <1>4, <1>6

\* Every node of a list but its head has a node of the list before it.
LEMMA HasPredecessor ==
    ASSUME NEW nodes, NEW h \in Ref, \A n \in Thread : nodes[n].next \in Ref,
           NEW t \in OnList(nodes, h), t # h
    PROVE  \E q \in OnList(nodes, h) : q # t /\ nodes[q].next = t
<1> DEFINE L == OnList(nodes, h)
<1>1. L \in SUBSET Thread
  BY DEF OnList
<1>2. ClosedList(nodes, h, L)
  BY ListIsClosed
<1>3. SUFFICES ASSUME \A q \in L : q # t => nodes[q].next # t PROVE FALSE
  OBVIOUS
<1>4. ClosedList(nodes, h, L \ {t})
  BY <1>2, <1>3 DEF ClosedList
<1>5. L \ {t} \in SUBSET Thread
  BY <1>1
<1>6. L \subseteq L \ {t}
  BY <1>4, <1>5, ListIsLeast
<1> QED BY <1>6

\* A node whose predecessors are made to skip it is off the list, and nothing else.
LEMMA ListUnlinked ==
    ASSUME NEW nodes, NEW after, NEW h \in Ref, NEW t \in OnList(nodes, h), NEW k \in Ref,
           \A n \in Thread : nodes[n].next \in Ref, Simple(nodes, h),
           k = IF h = t THEN nodes[t].next ELSE h,
           \A n \in OnList(nodes, h) \ {t} :
              after[n].next = IF nodes[n].next = t THEN nodes[t].next ELSE nodes[n].next
    PROVE  OnList(after, k) = OnList(nodes, h) \ {t}
<1> DEFINE L == OnList(nodes, h)
<1>1. L \in SUBSET Thread /\ t \in Thread /\ t # NO_THREAD
  BY MonitorAssumption DEF OnList
<1>2. ClosedList(nodes, h, L)
  BY ListIsClosed
<1>3. nodes[t].next # t
  <2>1. CASE h = t
    BY <2>1 DEF Simple
  <2>2. CASE h # t
    <3>1. PICK q \in L : q # t /\ nodes[q].next = t
      BY <2>2, HasPredecessor
    <3> QED BY <1>1, <3>1 DEF Simple
  <2> QED BY <2>1, <2>2
<1>4. ClosedList(after, k, L \ {t})
  BY <1>1, <1>2, <1>3 DEF ClosedList
<1>5. OnList(after, k) \subseteq L \ {t}
  <2>1. L \ {t} \in SUBSET Thread
    BY <1>1
  <2> QED BY <2>1, <1>4, ListIsLeast
<1>6. ASSUME NEW S \in SUBSET Thread, ClosedList(after, k, S) PROVE L \ {t} \subseteq S
  <2>1. CASE h = t
    <3>1. ClosedList(nodes, h, (S \cap L) \cup {t})
      BY <1>1, <1>2, <1>6, <2>1 DEF ClosedList
    <3>2. (S \cap L) \cup {t} \in SUBSET Thread
      BY <1>1
    <3> QED BY <3>1, <3>2, ListIsLeast
  <2>2. CASE h # t
    <3>1. PICK q \in L : q # t /\ nodes[q].next = t
      BY <2>2, HasPredecessor
    <3>2. q \in S
      <4>1. SUFFICES ASSUME q \notin S PROVE FALSE
        OBVIOUS
      <4>2. \A n \in L : nodes[n].next = t => n = q
        BY <1>1, <3>1 DEF Simple
      <4>3. ClosedList(nodes, h, (S \cap L) \ {t})
        BY <1>1, <1>2, <1>6, <2>2, <4>1, <4>2 DEF ClosedList
      <4>4. (S \cap L) \ {t} \in SUBSET Thread
        BY <1>1
      <4> QED BY <4>3, <4>4, ListIsLeast
    <3>3. nodes[t].next \in S \cup {NO_THREAD}
      BY <1>6, <3>1, <3>2 DEF ClosedList
    <3>4. ClosedList(nodes, h, (S \cap L) \cup {t})
      BY <1>1, <1>2, <1>6, <2>2, <3>3 DEF ClosedList
    <3>5. (S \cap L) \cup {t} \in SUBSET Thread
      BY <1>1
    <3> QED BY <3>4, <3>5, ListIsLeast
  <2> QED BY <2>1, <2>2
<1>7. L \ {t} \subseteq OnList(after, k)
  BY <1>1, <1>6 DEF OnList
<1> QED BY <1>5, <1>7

-----------------------------------------------------------------------------
MonType == [owner : Ref, EntryList : Ref, cxq : Ref, succ : Ref, Responsible : Ref]
NodeType == [next : Ref, prev : Ref, TState : {"TS_UNDEF", "TS_CXQ", "TS_ENTER"}]
EventType == [Event : -1..1, nParked : 0..1, held : BOOLEAN, signalled : BOOLEAN]

LEMMA TypesOf ==
    TypeOK => /\ mon \in MonType
              /\ node \in [Thread -> NodeType]
              /\ ev \in [Thread -> EventType]
              /\ pc \in [Thread -> Labels]
              /\ call \in [Thread -> {"early", "enterI", "futile"}]
              /\ timed \in [Thread -> BOOLEAN]
              /\ wakee \in [Thread -> Ref]
              /\ reinit \in BOOLEAN
BY DEF TypeOK, MonType, NodeType, EventType, Ref

\* What the two handlers that rewrite several nodes do to each of them.
BeforeIt(t) ==
    IF node[t].TState = "TS_ENTER" THEN {node[t].prev}
    ELSE {q \in OnList(node, mon.cxq) : node[q].next = t}

LEMMA UnlinkEffect ==
    ASSUME TypeOK, NEW t \in Thread, UnlinkAfterAcquire(t), NEW n \in Thread
    PROVE  /\ node'[n].TState = IF n = t THEN "TS_UNDEF" ELSE node[n].TState
           /\ n # t => node'[n].next = IF n \in BeforeIt(t) THEN node[t].next ELSE node[n].next
           /\ n # t => node'[n].prev = IF node[t].TState = "TS_ENTER" /\ n = node[t].next
                                       THEN node[t].prev ELSE node[n].prev
<1> DEFINE enter == node[t].TState = "TS_ENTER"
<1>1. node' = [m \in Thread |->
                 IF m = t THEN NoNode
                 ELSE [node[m] EXCEPT
                         !.next = IF m \in BeforeIt(t) THEN node[t].next ELSE @,
                         !.prev = IF enter /\ m = node[t].next THEN node[t].prev ELSE @]]
  BY DEF UnlinkAfterAcquire, BeforeIt
<1> HIDE DEF enter
<1>2. CASE n = t
  <2>1. node'[n] = NoNode
    BY <1>1, <1>2
  <2> QED BY <1>2, <2>1 DEF NoNode
<1>3. CASE n # t
  <2>1. node'[n] = [node[n] EXCEPT !.next = IF n \in BeforeIt(t) THEN node[t].next ELSE @,
                                   !.prev = IF enter /\ n = node[t].next THEN node[t].prev ELSE @]
    BY <1>1, <1>3
  <2>2. node[n] \in NodeType
    BY TypesOf
  <2> QED BY <1>3, <2>1, <2>2 DEF NodeType, enter
<1> QED BY <1>2, <1>3

\* The node before n on the list that t moves.
BeforeOn(t, n) ==
    IF n = wakee[t] THEN NO_THREAD ELSE CHOOSE q \in OnList(node, wakee[t]) : node[q].next = n

LEMMA TransferEffect ==
    ASSUME TypeOK, NEW t \in Thread, ExitTransfer(t), NEW n \in Thread
    PROVE  /\ node'[n].next = node[n].next
           /\ n \notin OnList(node, wakee[t]) => node'[n] = node[n]
           /\ n \in OnList(node, wakee[t]) =>
                node'[n].TState = "TS_ENTER" /\ node'[n].prev = BeforeOn(t, n)
<1>1. node' = [m \in Thread |->
                 IF m \notin OnList(node, wakee[t]) THEN node[m]
                 ELSE [node[m] EXCEPT !.TState = "TS_ENTER", !.prev = BeforeOn(t, m)]]
  BY DEF ExitTransfer, BeforeOn
<1>2. node[n] \in NodeType
  BY TypesOf
<1>3. CASE n \notin OnList(node, wakee[t])
  BY <1>1, <1>3
<1>4. CASE n \in OnList(node, wakee[t])
  <2>1. node'[n] = [node[n] EXCEPT !.TState = "TS_ENTER", !.prev = BeforeOn(t, n)]
    BY <1>1, <1>4
  <2> QED BY <1>2, <1>4, <2>1 DEF NodeType
<1> QED BY <1>3, <1>4

LEMMA TypeStep ==
    ASSUME TypeOK, Threads, NEW t \in Thread, Step(t)
    PROVE  TypeOK'
<1> USE TypesOf
<1>1. CASE Enter(t)
  <2>1. mon' \in MonType
    BY <1>1 DEF Enter, TryLock, MonType, Ref
  <2>2. pc' \in [Thread -> Labels]
    BY <1>1 DEF Enter, TryLock, Goto, Labels
  <2> QED BY <1>1, <2>1, <2>2 DEF TypeOK, MonType, NodeType, EventType, Ref, Enter, MonitorStep
<1>2. CASE PreSpin(t)
  <2>1. mon' \in MonType
    BY <1>2 DEF PreSpin, TryLock, Won, MonType, Ref
  <2>2. pc' \in [Thread -> Labels]
    BY <1>2 DEF PreSpin, TryLock, Goto, Won, Labels
  <2> QED BY <1>2, <2>1, <2>2 DEF TypeOK, MonType, NodeType, EventType, Ref, PreSpin, MonitorStep
<1>3. CASE SpinAdmit(t)
  <2>1. call' \in [Thread -> {"early", "enterI", "futile"}]
    BY <1>3 DEF SpinAdmit, SpinFailed
  <2>2. pc' \in [Thread -> Labels]
    BY <1>3 DEF SpinAdmit, SpinFailed, Goto, Labels
  <2> QED BY <1>3, <2>1, <2>2 DEF TypeOK, MonType, NodeType, EventType, Ref, SpinAdmit
<1>4. CASE SpinSetSucc(t)
  <2>1. mon' \in MonType
    BY <1>4 DEF SpinSetSucc, MonType, Ref
  <2>2. pc' \in [Thread -> Labels]
    BY <1>4 DEF SpinSetSucc, Goto, Labels
  <2> QED BY <1>4, <2>1, <2>2 DEF TypeOK, MonType, NodeType, EventType, Ref, SpinSetSucc, MonitorStep
<1>5. CASE SpinTake(t)
  <2>1. mon' \in MonType
    BY <1>5 DEF SpinTake, Won, MonType, Ref
  <2>2. pc' \in [Thread -> Labels]
    BY <1>5 DEF SpinTake, Goto, Won, Labels
  <2> QED BY <1>5, <2>1, <2>2 DEF TypeOK, MonType, NodeType, EventType, Ref, SpinTake, MonitorStep
<1>6. CASE SpinProbe(t)
  <2>1. pc' \in [Thread -> Labels]
    BY <1>6 DEF SpinProbe, Goto, Labels
  <2> QED BY <1>6, <2>1 DEF TypeOK, MonType, NodeType, EventType, Ref, SpinProbe, MonitorStep
<1>7. CASE SpinProbed(t)
  <2>1. pc' \in [Thread -> Labels]
    BY <1>7 DEF SpinProbed, Goto, Labels
  <2> QED BY <1>7, <2>1 DEF TypeOK, MonType, NodeType, EventType, Ref, SpinProbed, MonitorStep
<1>8. CASE SpinAbort(t)
  <2>1. call' \in [Thread -> {"early", "enterI", "futile"}]
    BY <1>8 DEF SpinAbort, SpinFailed
  <2>2. pc' \in [Thread -> Labels]
    BY <1>8 DEF SpinAbort, SpinFailed, Goto, Labels
  <2> QED BY <1>8, <2>1, <2>2 DEF TypeOK, MonType, NodeType, EventType, Ref, SpinAbort
<1>9. CASE ClearSucc(t)
  <2>1. mon' \in MonType
    BY <1>9 DEF ClearSucc, Won, MonType, Ref
  <2>2. pc' \in [Thread -> Labels]
    BY <1>9 DEF ClearSucc, Goto, Won, Labels
  <2> QED BY <1>9, <2>1, <2>2 DEF TypeOK, MonType, NodeType, EventType, Ref, ClearSucc, MonitorStep
<1>10. CASE SpinRetry(t)
  <2>1. mon' \in MonType
    BY <1>10 DEF SpinRetry, TryLock, SpinFailed, Won, MonType, Ref
  <2>2. call' \in [Thread -> {"early", "enterI", "futile"}]
    BY <1>10 DEF SpinRetry, TryLock, SpinFailed, Won
  <2>3. pc' \in [Thread -> Labels]
    BY <1>10 DEF SpinRetry, TryLock, SpinFailed, Goto, Won, Labels
  <2> QED BY <1>10, <2>1, <2>2, <2>3 DEF TypeOK, MonType, NodeType, EventType, Ref, SpinRetry
<1>11. CASE InitNode(t)
  <2>1. node' \in [Thread -> NodeType]
    BY <1>11 DEF InitNode, NoNode, NewEvent, NodeType, Ref
  <2>2. ev' \in [Thread -> EventType]
    BY <1>11 DEF InitNode, NoNode, NewEvent, EventType
  <2>3. reinit' \in BOOLEAN
    BY <1>11 DEF InitNode, NoNode, NewEvent
  <2>4. call' \in [Thread -> {"early", "enterI", "futile"}]
    BY <1>11 DEF InitNode, NoNode, NewEvent
  <2>5. pc' \in [Thread -> Labels]
    BY <1>11 DEF InitNode, Goto, NoNode, NewEvent, Labels
  <2> QED BY <1>11, <2>1, <2>2, <2>3, <2>4, <2>5 DEF TypeOK, MonType, NodeType, EventType, Ref, InitNode
<1>12. CASE PushRead(t)
  <2>1. node' \in [Thread -> NodeType]
    BY <1>12 DEF PushRead, NodeType, Ref, MonType
  <2>2. pc' \in [Thread -> Labels]
    BY <1>12 DEF PushRead, Goto, Labels
  <2> QED BY <1>12, <2>1, <2>2 DEF TypeOK, MonType, NodeType, EventType, Ref, PushRead
<1>13. CASE PushCas(t)
  <2>1. mon' \in MonType
    BY <1>13 DEF PushCas, MonType, Ref
  <2>2. pc' \in [Thread -> Labels]
    BY <1>13 DEF PushCas, Goto, Labels
  <2> QED BY <1>13, <2>1, <2>2 DEF TypeOK, MonType, NodeType, EventType, Ref, PushCas, MonitorStep
<1>14. CASE PushRetry(t)
  <2>1. mon' \in MonType
    BY <1>14 DEF PushRetry, TryLock, NoNode, MonType, Ref
  <2>2. node' \in [Thread -> NodeType]
    BY <1>14 DEF PushRetry, TryLock, NoNode, NodeType, Ref
  <2>3. pc' \in [Thread -> Labels]
    BY <1>14 DEF PushRetry, TryLock, Goto, NoNode, Labels
  <2> QED BY <1>14, <2>1, <2>2, <2>3 DEF TypeOK, MonType, NodeType, EventType, Ref, PushRetry
<1>15. CASE CheckEntryList(t)
  <2>1. pc' \in [Thread -> Labels]
    BY <1>15 DEF CheckEntryList, Goto, Labels
  <2> QED BY <1>15, <2>1 DEF TypeOK, MonType, NodeType, EventType, Ref, CheckEntryList, MonitorStep
<1>16. CASE BecomeResponsible(t)
  <2>1. mon' \in MonType
    BY <1>16 DEF BecomeResponsible, MonType, Ref
  <2>2. pc' \in [Thread -> Labels]
    BY <1>16 DEF BecomeResponsible, Goto, Labels
  <2> QED BY <1>16, <2>1, <2>2 DEF TypeOK, MonType, NodeType, EventType, Ref, BecomeResponsible, MonitorStep
<1>17. CASE WaitLoop(t)
  <2>1. mon' \in MonType
    BY <1>17 DEF WaitLoop, TryLock, MonType, Ref
  <2>2. pc' \in [Thread -> Labels]
    BY <1>17 DEF WaitLoop, TryLock, Goto, Labels
  <2> QED BY <1>17, <2>1, <2>2 DEF TypeOK, MonType, NodeType, EventType, Ref, WaitLoop, MonitorStep
<1>18. CASE ChoosePark(t)
  <2>1. timed' \in [Thread -> BOOLEAN]
    BY <1>18 DEF ChoosePark
  <2>2. pc' \in [Thread -> Labels]
    BY <1>18 DEF ChoosePark, Goto, Labels
  <2> QED BY <1>18, <2>1, <2>2 DEF TypeOK, MonType, NodeType, EventType, Ref, ChoosePark
<1>19. CASE FutileWakeup(t)
  <2>1. pc' \in [Thread -> Labels]
    BY <1>19 DEF FutileWakeup, Goto, Labels
  <2> QED BY <1>19, <2>1 DEF TypeOK, MonType, NodeType, EventType, Ref, FutileWakeup, MonitorStep
<1>20. CASE UnlinkAfterAcquire(t)
  <2>1. mon' \in MonType
    BY <1>20 DEF UnlinkAfterAcquire, NoNode, MonType, Ref, NodeType
  <2>2. node' \in [Thread -> NodeType]
    <3> DEFINE enter == node[t].TState = "TS_ENTER"
               new(m) == [node[m] EXCEPT
                            !.next = IF m \in BeforeIt(t) THEN node[t].next ELSE @,
                            !.prev = IF enter /\ m = node[t].next THEN node[t].prev ELSE @]
    <3>1. node' = [m \in Thread |-> IF m = t THEN NoNode ELSE new(m)]
      BY <1>20 DEF UnlinkAfterAcquire, BeforeIt
    <3>2. NoNode \in NodeType
      BY DEF NoNode, NodeType, Ref
    <3> HIDE DEF enter
    <3>3. ASSUME NEW m \in Thread PROVE new(m) \in NodeType
      <4>1. node[m] \in NodeType /\ node[t].next \in Ref /\ node[t].prev \in Ref
        BY TypesOf DEF NodeType
      <4> QED BY <4>1 DEF NodeType
    <3> HIDE DEF new
    <3> QED BY <3>1, <3>2, <3>3
  <2>3. pc' \in [Thread -> Labels]
    BY <1>20 DEF UnlinkAfterAcquire, Goto, NoNode, Labels
  <2> QED BY <1>20, <2>1, <2>2, <2>3 DEF TypeOK, MonType, NodeType, EventType, Ref, UnlinkAfterAcquire
<1>21. CASE Egress(t)
  <2>1. mon' \in MonType
    BY <1>21 DEF Egress, MonType, Ref
  <2>2. pc' \in [Thread -> Labels]
    BY <1>21 DEF Egress, Goto, Labels
  <2> QED BY <1>21, <2>1, <2>2 DEF TypeOK, MonType, NodeType, EventType, Ref, Egress, MonitorStep
<1>22. CASE ParkTakePermit(t)
  <2>1. ev[t].Event >= 0
    BY <1>22 DEF ParkTakePermit, Threads, Local, Parked, EventType
  <2>2. ev' \in [Thread -> EventType]
    BY <1>22, <2>1 DEF ParkTakePermit, EventType
  <2>3. timed' \in [Thread -> BOOLEAN]
    BY <1>22, <2>1 DEF ParkTakePermit
  <2>4. pc' \in [Thread -> Labels]
    BY <1>22, <2>1 DEF ParkTakePermit, Goto, Labels
  <2> QED BY <1>22, <2>1, <2>2, <2>3, <2>4 DEF TypeOK, MonType, NodeType, EventType, Ref, ParkTakePermit
<1>23. CASE ParkLock(t)
  <2>1. ev[t].nParked = 0
    BY <1>23 DEF ParkLock, Threads, Local, Parked
  <2>2. ev' \in [Thread -> EventType]
    <3>1. ev' = [ev EXCEPT ![t].held = TRUE, ![t].nParked = 1]
      BY <1>23, <2>1 DEF ParkLock
    <3>2. 1 \in 0..1
      OBVIOUS
    <3> QED BY <3>1, <3>2 DEF EventType
  <2>3. pc' \in [Thread -> Labels]
    BY <1>23, <2>1 DEF ParkLock, Goto, Labels
  <2> QED BY <1>23, <2>1, <2>2, <2>3 DEF TypeOK, MonType, NodeType, EventType, Ref, ParkLock, EventStep
<1>24. CASE ParkTest(t)
  <2>1. pc' \in [Thread -> Labels]
    BY <1>24 DEF ParkTest, Goto, Labels
  <2> QED BY <1>24, <2>1 DEF TypeOK, MonType, NodeType, EventType, Ref, ParkTest, EventStep
<1>25. CASE CondWait(t)
  <2>1. ev' \in [Thread -> EventType]
    BY <1>25 DEF CondWait, EventType
  <2>2. pc' \in [Thread -> Labels]
    BY <1>25 DEF CondWait, Goto, Labels
  <2> QED BY <1>25, <2>1, <2>2 DEF TypeOK, MonType, NodeType, EventType, Ref, CondWait, EventStep
<1>26. CASE CondWake(t)
  <2>1. ev' \in [Thread -> EventType]
    BY <1>26 DEF CondWake, EventType
  <2>2. pc' \in [Thread -> Labels]
    BY <1>26 DEF CondWake, Goto, Labels
  <2> QED BY <1>26, <2>1, <2>2 DEF TypeOK, MonType, NodeType, EventType, Ref, CondWake, EventStep
<1>27. CASE CondRelock(t)
  <2>1. ev' \in [Thread -> EventType]
    BY <1>27 DEF CondRelock, EventType
  <2>2. pc' \in [Thread -> Labels]
    BY <1>27 DEF CondRelock, Goto, Labels
  <2> QED BY <1>27, <2>1, <2>2 DEF TypeOK, MonType, NodeType, EventType, Ref, CondRelock, EventStep
<1>28. CASE ParkDone(t)
  <2>1. ev[t].nParked = 1
    BY <1>28 DEF ParkDone, Threads, Local, Parked
  <2>2. ev' \in [Thread -> EventType]
    <3> DEFINE e == ev'[t]
    <3>1. ev[t].signalled \in BOOLEAN
      BY DEF EventType
    <3>2. e.Event = 0 /\ e.nParked = 0
      BY <1>28, <2>1 DEF ParkDone, EventType
    <3>3. e.held = FALSE /\ e.signalled = ev[t].signalled
      BY <1>28 DEF ParkDone, EventType
    <3>4. e = [Event |-> e.Event, nParked |-> e.nParked, held |-> e.held,
               signalled |-> e.signalled]
      BY <1>28 DEF ParkDone, EventType
    <3>5. ev' = [ev EXCEPT ![t] = e]
      BY <1>28 DEF ParkDone
    <3> HIDE DEF e
    <3>6. e.Event \in -1..1 /\ e.nParked \in 0..1
      BY <3>2
    <3>7. e.held \in BOOLEAN /\ e.signalled \in BOOLEAN
      BY <3>1, <3>3
    <3>8. e \in EventType
      BY <3>4, <3>6, <3>7 DEF EventType
    <3> QED BY <3>5, <3>8
  <2>3. timed' \in [Thread -> BOOLEAN]
    BY <1>28, <2>1 DEF ParkDone
  <2>4. pc' \in [Thread -> Labels]
    BY <1>28, <2>1 DEF ParkDone, Goto, Labels
  <2> QED BY <1>28, <2>1, <2>2, <2>3, <2>4 DEF TypeOK, MonType, NodeType, EventType, Ref, ParkDone
<1>29. CASE Exit(t)
  <2>1. mon' \in MonType
    BY <1>29 DEF Exit, MonType, Ref
  <2>2. call' \in [Thread -> {"early", "enterI", "futile"}]
    BY <1>29 DEF Exit
  <2>3. pc' \in [Thread -> Labels]
    BY <1>29 DEF Exit, Goto, Labels
  <2> QED BY <1>29, <2>1, <2>2, <2>3 DEF TypeOK, MonType, NodeType, EventType, Ref, Exit
<1>30. CASE ExitDrop(t)
  <2>1. mon' \in MonType
    BY <1>30 DEF ExitDrop, MonType, Ref
  <2>2. pc' \in [Thread -> Labels]
    BY <1>30 DEF ExitDrop, Goto, Labels
  <2> QED BY <1>30, <2>1, <2>2 DEF TypeOK, MonType, NodeType, EventType, Ref, ExitDrop, MonitorStep
<1>31. CASE ExitSees(t)
  <2>1. pc' \in [Thread -> Labels]
    BY <1>31 DEF ExitSees, Goto, Labels
  <2> QED BY <1>31, <2>1 DEF TypeOK, MonType, NodeType, EventType, Ref, ExitSees, MonitorStep
<1>32. CASE ExitRetake(t)
  <2>1. mon' \in MonType
    BY <1>32 DEF ExitRetake, TryLock, MonType, Ref
  <2>2. pc' \in [Thread -> Labels]
    BY <1>32 DEF ExitRetake, TryLock, Goto, Labels
  <2> QED BY <1>32, <2>1, <2>2 DEF TypeOK, MonType, NodeType, EventType, Ref, ExitRetake, MonitorStep
<1>33. CASE ExitPick(t)
  <2>1. mon' \in MonType
    BY <1>33 DEF ExitPick, MonType, Ref
  <2>2. wakee' \in [Thread -> Ref]
    BY <1>33 DEF ExitPick, Ref, MonType
  <2>3. pc' \in [Thread -> Labels]
    BY <1>33 DEF ExitPick, Goto, Labels
  <2> QED BY <1>33, <2>1, <2>2, <2>3 DEF TypeOK, MonType, NodeType, EventType, Ref, ExitPick
<1>34. CASE ExitTransfer(t)
  <2>1. wakee[t] \in Thread
    BY <1>34 DEF ExitTransfer, Threads, Local, Waking, Ref
  <2>2. mon' \in MonType
    BY <1>34, <2>1 DEF ExitTransfer, MonType, Ref
  <2>3. node' \in [Thread -> NodeType]
    <3>1. ASSUME NEW n \in OnList(node, wakee[t]) PROVE BeforeOn(t, n) \in Ref
      <4>1. CASE n = wakee[t]
        BY <4>1 DEF BeforeOn, Ref
      <4>2. CASE n # wakee[t]
        <5>1. \A q \in Thread : node[q].next \in Ref
          BY DEF NodeType
        <5>2. \E q \in OnList(node, wakee[t]) : node[q].next = n
          BY <4>2, <5>1, HasPredecessor
        <5>3. BeforeOn(t, n) \in OnList(node, wakee[t])
          BY <4>2, <5>2 DEF BeforeOn
        <5> QED BY <5>3 DEF OnList, Ref
      <4> QED BY <4>1, <4>2
    <3>2. node' = [n \in Thread |->
                     IF n \notin OnList(node, wakee[t]) THEN node[n]
                     ELSE [node[n] EXCEPT !.TState = "TS_ENTER", !.prev = BeforeOn(t, n)]]
      BY <1>34 DEF ExitTransfer, BeforeOn
    <3> QED BY <3>1, <3>2 DEF NodeType
  <2>4. wakee' \in [Thread -> Ref]
    BY <1>34, <2>1 DEF ExitTransfer, Ref
  <2>5. pc' \in [Thread -> Labels]
    BY <1>34, <2>1 DEF ExitTransfer, Goto, Labels
  <2> QED BY <1>34, <2>1, <2>2, <2>3, <2>4, <2>5 DEF TypeOK, MonType, NodeType, EventType, Ref, ExitTransfer
<1>35. CASE ExitSeesSucc(t)
  <2>1. pc' \in [Thread -> Labels]
    BY <1>35 DEF ExitSeesSucc, Goto, Labels
  <2> QED BY <1>35, <2>1 DEF TypeOK, MonType, NodeType, EventType, Ref, ExitSeesSucc, MonitorStep
<1>36. CASE ExitEpilog(t)
  <2>1. mon' \in MonType
    BY <1>36 DEF ExitEpilog, MonType, Ref
  <2>2. wakee' \in [Thread -> Ref]
    BY <1>36 DEF ExitEpilog, Ref, MonType
  <2>3. pc' \in [Thread -> Labels]
    BY <1>36 DEF ExitEpilog, Goto, Labels
  <2> QED BY <1>36, <2>1, <2>2, <2>3 DEF TypeOK, MonType, NodeType, EventType, Ref, ExitEpilog
<1>37. CASE EpilogDrop(t)
  <2>1. mon' \in MonType
    BY <1>37 DEF EpilogDrop, MonType, Ref
  <2>2. pc' \in [Thread -> Labels]
    BY <1>37 DEF EpilogDrop, Goto, Labels
  <2> QED BY <1>37, <2>1, <2>2 DEF TypeOK, MonType, NodeType, EventType, Ref, EpilogDrop, MonitorStep
<1>38. CASE Unpark(t)
  <2>1. wakee[t] \in Thread
    BY <1>38 DEF Unpark, Threads, Local, Waking, Ref
  <2>2. ev' \in [Thread -> EventType]
    BY <1>38, <2>1 DEF Unpark, EventType
  <2>3. wakee' \in [Thread -> Ref]
    BY <1>38, <2>1 DEF Unpark, UnparkReturns, Ref
  <2>4. pc' \in [Thread -> Labels]
    BY <1>38, <2>1 DEF Unpark, UnparkReturns, Goto, Labels
  <2> QED BY <1>38, <2>1, <2>2, <2>3, <2>4 DEF TypeOK, MonType, NodeType, EventType, Ref, Unpark
<1>39. CASE UnparkLock(t)
  <2>1. wakee[t] \in Thread
    BY <1>39 DEF UnparkLock, Threads, Local, Waking, Ref
  <2>2. ev' \in [Thread -> EventType]
    BY <1>39, <2>1 DEF UnparkLock, EventType
  <2>3. pc' \in [Thread -> Labels]
    BY <1>39, <2>1 DEF UnparkLock, Goto, Labels
  <2> QED BY <1>39, <2>1, <2>2, <2>3 DEF TypeOK, MonType, NodeType, EventType, Ref, UnparkLock, EventStep
<1>40. CASE UnparkRead(t)
  <2>1. wakee[t] \in Thread
    BY <1>40 DEF UnparkRead, Threads, Local, Waking, Ref
  <2>2. ev' \in [Thread -> EventType]
    BY <1>40, <2>1 DEF UnparkRead, EventType
  <2>3. wakee' \in [Thread -> Ref]
    BY <1>40, <2>1 DEF UnparkRead, UnparkReturns, Ref
  <2>4. pc' \in [Thread -> Labels]
    BY <1>40, <2>1 DEF UnparkRead, UnparkReturns, Goto, Labels
  <2> QED BY <1>40, <2>1, <2>2, <2>3, <2>4 DEF TypeOK, MonType, NodeType, EventType, Ref, UnparkRead
<1>41. CASE UnparkSignal(t)
  <2>1. wakee[t] \in Thread
    BY <1>41 DEF UnparkSignal, Threads, Local, Waking, Ref
  <2>2. ev' \in [Thread -> EventType]
    <3>1. PICK b \in BOOLEAN : b = (pc[wakee[t]] = "asleep")
      OBVIOUS
    <3>2. ev' = [ev EXCEPT ![wakee[t]].signalled = b]
      BY <1>41, <3>1 DEF UnparkSignal
    <3> QED BY <2>1, <3>2 DEF EventType
  <2>3. wakee' \in [Thread -> Ref]
    BY <1>41, <2>1 DEF UnparkSignal, UnparkReturns, Ref
  <2>4. pc' \in [Thread -> Labels]
    BY <1>41, <2>1 DEF UnparkSignal, UnparkReturns, Goto, Labels
  <2> QED BY <1>41, <2>1, <2>2, <2>3, <2>4 DEF TypeOK, MonType, NodeType, EventType, Ref, UnparkSignal
<1> QED BY <1>1, <1>2, <1>3, <1>4, <1>5, <1>6, <1>7, <1>8, <1>9, <1>10, <1>11, <1>12, <1>13, <1>14, <1>15, <1>16, <1>17, <1>18, <1>19, <1>20, <1>21, <1>22, <1>23, <1>24, <1>25, <1>26, <1>27, <1>28, <1>29, <1>30, <1>31, <1>32, <1>33, <1>34, <1>35, <1>36, <1>37, <1>38, <1>39, <1>40, <1>41 DEF Step

LEMMA MutexStep ==
    ASSUME TypeOK, MutualExclusion, NEW t \in Thread, Step(t)
    PROVE  MutualExclusion'
<1> USE TypesOf, MonitorAssumption DEF MutualExclusion, MonType, Ref
<1>1. CASE Enter(t)
  BY <1>1 DEF Enter, TryLock, Goto
<1>2. CASE PreSpin(t)
  BY <1>2 DEF PreSpin, TryLock, Goto, Won
<1>3. CASE SpinAdmit(t)
  BY <1>3 DEF SpinAdmit, SpinFailed, Goto
<1>4. CASE SpinSetSucc(t)
  BY <1>4 DEF SpinSetSucc, Goto
<1>5. CASE SpinTake(t)
  BY <1>5 DEF SpinTake, Goto, Won
<1>6. CASE SpinProbe(t)
  BY <1>6 DEF SpinProbe, Goto
<1>7. CASE SpinProbed(t)
  BY <1>7 DEF SpinProbed, Goto
<1>8. CASE SpinAbort(t)
  BY <1>8 DEF SpinAbort, SpinFailed, Goto
<1>9. CASE ClearSucc(t)
  BY <1>9 DEF ClearSucc, Goto, Won
<1>10. CASE SpinRetry(t)
  BY <1>10 DEF SpinRetry, TryLock, SpinFailed, Goto, Won
<1>11. CASE InitNode(t)
  BY <1>11 DEF InitNode, Goto, NoNode, NewEvent
<1>12. CASE PushRead(t)
  BY <1>12 DEF PushRead, Goto
<1>13. CASE PushCas(t)
  BY <1>13 DEF PushCas, Goto
<1>14. CASE PushRetry(t)
  BY <1>14 DEF PushRetry, TryLock, Goto, NoNode
<1>15. CASE CheckEntryList(t)
  BY <1>15 DEF CheckEntryList, Goto
<1>16. CASE BecomeResponsible(t)
  BY <1>16 DEF BecomeResponsible, Goto
<1>17. CASE WaitLoop(t)
  BY <1>17 DEF WaitLoop, TryLock, Goto
<1>18. CASE ChoosePark(t)
  BY <1>18 DEF ChoosePark, Goto
<1>19. CASE FutileWakeup(t)
  BY <1>19 DEF FutileWakeup, Goto
<1>20. CASE UnlinkAfterAcquire(t)
  <2>1. pc[t] = "unlink" /\ mon'.owner = mon.owner
    BY <1>20 DEF UnlinkAfterAcquire
  <2>2. pc' = [pc EXCEPT ![t] = "unlinked"] \/ pc' = [pc EXCEPT ![t] = "egress"]
    BY <1>20 DEF UnlinkAfterAcquire, Goto
  <2> QED BY <2>1, <2>2
<1>21. CASE Egress(t)
  BY <1>21 DEF Egress, Goto
<1>22. CASE ParkTakePermit(t)
  BY <1>22 DEF ParkTakePermit, Goto
<1>23. CASE ParkLock(t)
  BY <1>23 DEF ParkLock, Goto, EventStep
<1>24. CASE ParkTest(t)
  BY <1>24 DEF ParkTest, Goto, EventStep
<1>25. CASE CondWait(t)
  BY <1>25 DEF CondWait, Goto, EventStep
<1>26. CASE CondWake(t)
  BY <1>26 DEF CondWake, Goto, EventStep
<1>27. CASE CondRelock(t)
  BY <1>27 DEF CondRelock, Goto, EventStep
<1>28. CASE ParkDone(t)
  BY <1>28 DEF ParkDone, Goto
<1>29. CASE Exit(t)
  BY <1>29 DEF Exit, Goto
<1>30. CASE ExitDrop(t)
  BY <1>30 DEF ExitDrop, Goto
<1>31. CASE ExitSees(t)
  BY <1>31 DEF ExitSees, Goto
<1>32. CASE ExitRetake(t)
  BY <1>32 DEF ExitRetake, TryLock, Goto
<1>33. CASE ExitPick(t)
  BY <1>33 DEF ExitPick, Goto
<1>34. CASE ExitTransfer(t)
  <2>1. pc[t] = "transfer" /\ pc' = [pc EXCEPT ![t] = "see_succ2"]
    BY <1>34 DEF ExitTransfer, Goto
  <2>2. mon'.owner = mon.owner
    BY <1>34 DEF ExitTransfer
  <2> QED BY <2>1, <2>2
<1>35. CASE ExitSeesSucc(t)
  BY <1>35 DEF ExitSeesSucc, Goto
<1>36. CASE ExitEpilog(t)
  BY <1>36 DEF ExitEpilog, Goto
<1>37. CASE EpilogDrop(t)
  BY <1>37 DEF EpilogDrop, Goto
<1>38. CASE Unpark(t)
  BY <1>38 DEF Unpark, UnparkReturns, Goto
<1>39. CASE UnparkLock(t)
  BY <1>39 DEF UnparkLock, Goto, EventStep
<1>40. CASE UnparkRead(t)
  BY <1>40 DEF UnparkRead, UnparkReturns, Goto
<1>41. CASE UnparkSignal(t)
  BY <1>41 DEF UnparkSignal, UnparkReturns, Goto
<1> QED BY <1>1, <1>2, <1>3, <1>4, <1>5, <1>6, <1>7, <1>8, <1>9, <1>10, <1>11, <1>12, <1>13, <1>14, <1>15, <1>16, <1>17, <1>18, <1>19, <1>20, <1>21, <1>22, <1>23, <1>24, <1>25, <1>26, <1>27, <1>28, <1>29, <1>30, <1>31, <1>32, <1>33, <1>34, <1>35, <1>36, <1>37, <1>38, <1>39, <1>40, <1>41 DEF Step

LEMMA LocalStep ==
    ASSUME TypeOK, MutualExclusion, Threads, Lists, NEW t \in Thread, Step(t), NEW u \in Thread
    PROVE  Local(u)'
<1> USE TypesOf, MonitorAssumption DEF Threads, Local, MonType, NodeType, EventType, Ref, Leaving, Waking, Pushing, Waiting, Parked, Spinning
<1>1. CASE Enter(t)
  BY <1>1 DEF Enter, TryLock, Goto, MonitorStep
<1>2. CASE PreSpin(t)
  BY <1>2 DEF PreSpin, TryLock, Goto, Won, MonitorStep
<1>3. CASE SpinAdmit(t)
  <2>1. pc[t] = "admit" /\ UNCHANGED <<mon, node, ev, wakee>>
    BY <1>3 DEF SpinAdmit
  <2>2. CASE SpinFailed(t)
    BY <2>1, <2>2 DEF SpinFailed, Goto
  <2>3. CASE UNCHANGED call /\ (Goto(t, "set_succ") \/ Goto(t, "spin"))
    BY <2>1, <2>3 DEF Goto
  <2> QED BY <1>3, <2>2, <2>3 DEF SpinAdmit
<1>4. CASE SpinSetSucc(t)
  <2>1. /\ pc[t] \in {"set_succ", "reset_succ"} /\ mon'.EntryList = mon.EntryList
        /\ UNCHANGED <<node, ev, call, wakee>>
    BY <1>4 DEF SpinSetSucc, MonitorStep
  <2>2. PICK l \in {"spin", "abort"} : Goto(t, l)
    BY <1>4 DEF SpinSetSucc
  <2> QED BY <2>1, <2>2 DEF Goto
<1>5. CASE SpinTake(t)
  BY <1>5 DEF SpinTake, Goto, Won, MonitorStep
<1>6. CASE SpinProbe(t)
  BY <1>6 DEF SpinProbe, Goto, MonitorStep
<1>7. CASE SpinProbed(t)
  <2>1. pc[t] = "probed" /\ UNCHANGED <<mon, node, ev, call, wakee>>
    BY <1>7 DEF SpinProbed, MonitorStep
  <2>2. PICK l \in {"reset_succ", "spin", "abort"} : Goto(t, l)
    BY <1>7 DEF SpinProbed
  <2> QED BY <2>1, <2>2 DEF Goto
<1>8. CASE SpinAbort(t)
  <2>1. pc[t] = "abort" /\ UNCHANGED <<mon, node, ev, wakee>>
    BY <1>8 DEF SpinAbort
  <2>2. CASE SpinFailed(t)
    BY <2>1, <2>2 DEF SpinFailed, Goto
  <2>3. CASE UNCHANGED call /\ Goto(t, "aborted")
    BY <2>1, <2>3 DEF Goto
  <2> QED BY <1>8, <2>2, <2>3 DEF SpinAbort
<1>9. CASE ClearSucc(t)
  BY <1>9 DEF ClearSucc, Goto, Won, MonitorStep
<1>10. CASE SpinRetry(t)
  <2>1. pc[t] = "retry" /\ mon'.EntryList = mon.EntryList /\ UNCHANGED <<node, ev, wakee>>
    BY <1>10 DEF SpinRetry, TryLock
  <2>2. CASE SpinFailed(t)
    BY <2>1, <2>2 DEF SpinFailed, Goto
  <2>3. CASE UNCHANGED call /\ Goto(t, Won(t))
    BY <2>1, <2>3 DEF Goto, Won
  <2> QED BY <1>10, <2>2, <2>3 DEF SpinRetry, TryLock
<1>11. CASE InitNode(t)
  BY <1>11 DEF InitNode, Goto, NoNode, NewEvent
<1>12. CASE PushRead(t)
  BY <1>12 DEF PushRead, Goto
<1>13. CASE PushCas(t)
  BY <1>13 DEF PushCas, Goto, MonitorStep
<1>14. CASE PushRetry(t)
  BY <1>14 DEF PushRetry, TryLock, Goto, NoNode
<1>15. CASE CheckEntryList(t)
  BY <1>15 DEF CheckEntryList, Goto, MonitorStep
<1>16. CASE BecomeResponsible(t)
  BY <1>16 DEF BecomeResponsible, Goto, MonitorStep
<1>17. CASE WaitLoop(t)
  BY <1>17 DEF WaitLoop, TryLock, Goto, MonitorStep
<1>18. CASE ChoosePark(t)
  BY <1>18 DEF ChoosePark, Goto
<1>19. CASE FutileWakeup(t)
  BY <1>19 DEF FutileWakeup, Goto, MonitorStep
<1>20. CASE UnlinkAfterAcquire(t)
  <2>1. pc[t] = "unlink" /\ UNCHANGED <<ev, call, wakee>>
    BY <1>20 DEF UnlinkAfterAcquire
  <2>2. node'[u].TState = IF u = t THEN "TS_UNDEF" ELSE node[u].TState
    BY <1>20, UnlinkEffect
  <2>3. pc' = [pc EXCEPT ![t] = "unlinked"] \/ pc' = [pc EXCEPT ![t] = "egress"]
    BY <1>20 DEF UnlinkAfterAcquire, Goto
  <2>4. CASE u = t
    BY <2>1, <2>2, <2>3, <2>4
  <2>5. CASE u # t
    <3>1. pc[u] \notin {"see_succ2", "epilog", "transfer", "epilog_drop"}
      BY <2>1, <2>5 DEF MutualExclusion
    <3> QED BY <2>1, <2>2, <2>3, <2>5, <3>1
  <2> QED BY <2>4, <2>5
<1>21. CASE Egress(t)
  BY <1>21 DEF Egress, Goto, MonitorStep
<1>22. CASE ParkTakePermit(t)
  BY <1>22 DEF ParkTakePermit, Goto
<1>23. CASE ParkLock(t)
  BY <1>23 DEF ParkLock, Goto, EventStep
<1>24. CASE ParkTest(t)
  BY <1>24 DEF ParkTest, Goto, EventStep
<1>25. CASE CondWait(t)
  BY <1>25 DEF CondWait, Goto, EventStep
<1>26. CASE CondWake(t)
  BY <1>26 DEF CondWake, Goto, EventStep
<1>27. CASE CondRelock(t)
  BY <1>27 DEF CondRelock, Goto, EventStep
<1>28. CASE ParkDone(t)
  BY <1>28 DEF ParkDone, Goto
<1>29. CASE Exit(t)
  BY <1>29 DEF Exit, Goto
<1>30. CASE ExitDrop(t)
  BY <1>30 DEF ExitDrop, Goto, MonitorStep
<1>31. CASE ExitSees(t)
  <2>1. pc[t] \in {"see_entry", "see_cxq", "see_succ"} /\ UNCHANGED <<mon, node, ev, call, wakee>>
    BY <1>31 DEF ExitSees, MonitorStep
  <2>2. PICK l \in {"see_cxq", "see_succ", "retake", "idle"} : pc' = [pc EXCEPT ![t] = l]
    BY <1>31 DEF ExitSees, Goto
  <2> QED BY <2>1, <2>2
<1>32. CASE ExitRetake(t)
  <2>1. pc[t] = "retake" /\ UNCHANGED <<node, ev, call, wakee>>
    BY <1>32 DEF ExitRetake, MonitorStep
  <2>2. mon'.EntryList = mon.EntryList
    BY <1>32 DEF ExitRetake, TryLock
  <2>3. PICK l \in {"pick", "idle"} : pc' = [pc EXCEPT ![t] = l]
    BY <1>32 DEF ExitRetake, TryLock, Goto
  <2> QED BY <2>1, <2>2, <2>3
<1>33. CASE ExitPick(t)
  BY <1>33 DEF ExitPick, Goto, MutualExclusion
<1>34. CASE ExitTransfer(t)
  <2> DEFINE moved == OnList(node, wakee[t])
  <2>1. pc[t] = "transfer" /\ mon.owner = t /\ UNCHANGED <<ev, call>>
    BY <1>34 DEF ExitTransfer, MutualExclusion
  <2>2. node'[u].TState = IF u \in moved THEN "TS_ENTER" ELSE node[u].TState
    BY <1>34, TransferEffect
  <2>3. u \in moved => node[u].TState = "TS_CXQ"
    BY <2>1 DEF Lists, Moving, OnCxq
  <2>4. node'[u].TState # "TS_UNDEF" <=> node[u].TState # "TS_UNDEF"
    BY <2>2, <2>3
  <2>5. /\ pc' = [pc EXCEPT ![t] = "see_succ2"]
        /\ wakee' = [wakee EXCEPT ![t] = NO_THREAD]
        /\ mon'.EntryList = wakee[t]
    BY <1>34 DEF ExitTransfer, Goto
  <2>6. u # t => pc[u] \notin {"see_succ2", "epilog", "transfer", "epilog_drop"}
    BY <2>1 DEF MutualExclusion
  <2>7. u \in moved => pc[u] \notin Pushing
    BY <2>1 DEF Lists, Moving, Queued, Pushing
  <2>8. pc[u] \in Pushing => node'[u].TState = "TS_CXQ"
    BY <2>2, <2>7
  <2> QED BY <2>1, <2>4, <2>5, <2>6, <2>8
<1>35. CASE ExitSeesSucc(t)
  BY <1>35 DEF ExitSeesSucc, Goto, MonitorStep
<1>36. CASE ExitEpilog(t)
  BY <1>36 DEF ExitEpilog, Goto, MutualExclusion
<1>37. CASE EpilogDrop(t)
  BY <1>37 DEF EpilogDrop, Goto, MonitorStep
<1>38. CASE Unpark(t)
  BY <1>38 DEF Unpark, UnparkReturns, Goto
<1>39. CASE UnparkLock(t)
  BY <1>39 DEF UnparkLock, Goto, EventStep
<1>40. CASE UnparkRead(t)
  BY <1>40 DEF UnparkRead, UnparkReturns, Goto
<1>41. CASE UnparkSignal(t)
  BY <1>41 DEF UnparkSignal, UnparkReturns, Goto
<1> QED BY <1>1, <1>2, <1>3, <1>4, <1>5, <1>6, <1>7, <1>8, <1>9, <1>10, <1>11, <1>12, <1>13, <1>14, <1>15, <1>16, <1>17, <1>18, <1>19, <1>20, <1>21, <1>22, <1>23, <1>24, <1>25, <1>26, <1>27, <1>28, <1>29, <1>30, <1>31, <1>32, <1>33, <1>34, <1>35, <1>36, <1>37, <1>38, <1>39, <1>40, <1>41 DEF Step

-----------------------------------------------------------------------------
\* The three lists only depend on their heads and on the queued nodes.
LEMMA ListFacts ==
    ASSUME TypeOK
    PROVE  /\ mon.cxq \in Ref /\ mon.EntryList \in Ref /\ mon.owner \in Ref /\ Moving \in Ref
           /\ \A n \in Thread : node[n].next \in Ref /\ node[n].prev \in Ref
BY TypesOf DEF MonType, NodeType, Moving, Ref

LEMMA MovingKept ==
    ASSUME Base, Base',
           \A u \in Thread : pc'[u] = "transfer" <=> pc[u] = "transfer",
           \A u \in Thread : pc[u] = "transfer" => wakee'[u] = wakee[u]
    PROVE  Moving' = Moving
<1> USE DEF Base, MutualExclusion
<1>0. mon.owner \in Ref /\ mon'.owner \in Ref
  BY ListFacts, TypesOf DEF TypeOK, Ref
<1>1. CASE \E u \in Thread : pc[u] = "transfer"
  <2>1. PICK u \in Thread : pc[u] = "transfer"
    BY <1>1
  <2>2. mon.owner = u /\ mon'.owner = u
    BY <2>1
  <2> QED BY <2>1, <2>2, MonitorAssumption DEF Moving
<1>2. CASE \A u \in Thread : pc[u] # "transfer"
  BY <1>0, <1>2 DEF Moving, Ref
<1> QED BY <1>1, <1>2

LEMMA ListsKept ==
    ASSUME Base, Base', Lists, Queued' = Queued, Moving' = Moving,
           \A n \in Queued : node'[n] = node[n],
           mon'.cxq = mon.cxq, mon'.EntryList = mon.EntryList
    PROVE  Lists'
<1> DEFINE Kept(h) == OnList(node', h) = OnList(node, h)
<1>1. ASSUME NEW h \in Ref, OnList(node, h) \subseteq Queued PROVE Kept(h)
  BY <1>1, ListFacts, ListKept DEF Base
<1>2. /\ OnList(node, mon.cxq) \subseteq Queued
      /\ OnList(node, Moving) \subseteq Queued
      /\ OnList(node, mon.EntryList) \subseteq Queued
  BY DEF Lists
<1>3. Kept(mon.cxq)
  BY <1>1, <1>2, ListFacts DEF Base
<1>4. Kept(Moving)
  BY <1>1, <1>2, ListFacts DEF Base
<1>5. Kept(mon.EntryList)
  BY <1>1, <1>2, ListFacts DEF Base
<1>6. Simple(node', mon.cxq)
  BY <1>2, <1>3 DEF Simple, Lists
<1>7. Simple(node', Moving)
  BY <1>2, <1>4 DEF Simple, Lists
<1>8. DoublyLinked(node', mon.EntryList)
  BY <1>2, <1>5 DEF DoublyLinked, Lists
<1>9. /\ \A n \in OnList(node', mon.cxq) : OnCxq(node', n)
      /\ \A n \in OnList(node', Moving) : OnCxq(node', n)
  BY <1>2, <1>3, <1>4 DEF OnCxq, Lists
<1>10. /\ OnList(node', mon.cxq) \cup OnList(node', Moving) \cup OnList(node', mon.EntryList) = Queued
       /\ OnList(node', mon.cxq) \cap OnList(node', Moving) = {}
  BY <1>3, <1>4, <1>5 DEF Lists
<1> QED BY <1>6, <1>7, <1>8, <1>9, <1>10 DEF Lists

\* A step that leaves the nodes alone and pushes or moves nothing.
Quiet(t) ==
    /\ UNCHANGED node
    /\ mon'.cxq = mon.cxq /\ mon'.EntryList = mon.EntryList
    /\ \A u \in Thread \ {t} : pc'[u] = pc[u] /\ wakee'[u] = wakee[u]
    /\ pc[t] \notin Pushing \cup {"transfer"}
    /\ pc'[t] \notin Pushing \cup {"transfer"}

LEMMA QuietLists ==
    ASSUME Base, Base', Lists, NEW t \in Thread, Quiet(t)
    PROVE  Lists'
<1>1. Moving' = Moving
  BY MovingKept DEF Quiet
<1>2. Queued' = Queued
  BY DEF Quiet, Queued, Pushing
<1> QED BY <1>1, <1>2, ListsKept DEF Quiet
LEMMA QuietSteps ==
    ASSUME TypeOK, NEW t \in Thread,
           \/ Enter(t) \/ PreSpin(t) \/ SpinAdmit(t) \/ SpinSetSucc(t) \/ SpinTake(t)
           \/ SpinProbe(t) \/ SpinProbed(t) \/ SpinAbort(t) \/ ClearSucc(t) \/ SpinRetry(t)
           \/ CheckEntryList(t) \/ BecomeResponsible(t) \/ WaitLoop(t) \/ ChoosePark(t) \/ FutileWakeup(t)
           \/ Egress(t) \/ ParkTakePermit(t) \/ ParkLock(t) \/ ParkTest(t) \/ CondWait(t)
           \/ CondWake(t) \/ CondRelock(t) \/ ParkDone(t) \/ Exit(t) \/ ExitDrop(t)
           \/ ExitSees(t) \/ ExitRetake(t) \/ ExitSeesSucc(t) \/ ExitEpilog(t) \/ EpilogDrop(t)
           \/ Unpark(t) \/ UnparkLock(t) \/ UnparkRead(t) \/ UnparkSignal(t)
    PROVE  Quiet(t)
<1> USE TypesOf DEF Quiet, Pushing, MonType
<1>1. CASE Enter(t)
  BY <1>1 DEF Enter, TryLock, Goto, MonitorStep
<1>2. CASE PreSpin(t)
  BY <1>2 DEF PreSpin, TryLock, Goto, Won, MonitorStep
<1>3. CASE SpinAdmit(t)
  BY <1>3 DEF SpinAdmit, SpinFailed, Goto
<1>4. CASE SpinSetSucc(t)
  BY <1>4 DEF SpinSetSucc, Goto, MonitorStep
<1>5. CASE SpinTake(t)
  BY <1>5 DEF SpinTake, Goto, Won, MonitorStep
<1>6. CASE SpinProbe(t)
  BY <1>6 DEF SpinProbe, Goto, MonitorStep
<1>7. CASE SpinProbed(t)
  BY <1>7 DEF SpinProbed, Goto, MonitorStep
<1>8. CASE SpinAbort(t)
  BY <1>8 DEF SpinAbort, SpinFailed, Goto
<1>9. CASE ClearSucc(t)
  BY <1>9 DEF ClearSucc, Goto, Won, MonitorStep
<1>10. CASE SpinRetry(t)
  BY <1>10 DEF SpinRetry, TryLock, SpinFailed, Goto, Won
<1>11. CASE CheckEntryList(t)
  BY <1>11 DEF CheckEntryList, Goto, MonitorStep
<1>12. CASE BecomeResponsible(t)
  BY <1>12 DEF BecomeResponsible, Goto, MonitorStep
<1>13. CASE WaitLoop(t)
  BY <1>13 DEF WaitLoop, TryLock, Goto, MonitorStep
<1>14. CASE ChoosePark(t)
  BY <1>14 DEF ChoosePark, Goto
<1>15. CASE FutileWakeup(t)
  BY <1>15 DEF FutileWakeup, Goto, MonitorStep
<1>16. CASE Egress(t)
  BY <1>16 DEF Egress, Goto, MonitorStep
<1>17. CASE ParkTakePermit(t)
  BY <1>17 DEF ParkTakePermit, Goto
<1>18. CASE ParkLock(t)
  BY <1>18 DEF ParkLock, Goto, EventStep
<1>19. CASE ParkTest(t)
  BY <1>19 DEF ParkTest, Goto, EventStep
<1>20. CASE CondWait(t)
  BY <1>20 DEF CondWait, Goto, EventStep
<1>21. CASE CondWake(t)
  BY <1>21 DEF CondWake, Goto, EventStep
<1>22. CASE CondRelock(t)
  BY <1>22 DEF CondRelock, Goto, EventStep
<1>23. CASE ParkDone(t)
  BY <1>23 DEF ParkDone, Goto
<1>24. CASE Exit(t)
  BY <1>24 DEF Exit, Goto
<1>25. CASE ExitDrop(t)
  BY <1>25 DEF ExitDrop, Goto, MonitorStep
<1>26. CASE ExitSees(t)
  BY <1>26 DEF ExitSees, Goto, MonitorStep
<1>27. CASE ExitRetake(t)
  BY <1>27 DEF ExitRetake, TryLock, Goto, MonitorStep
<1>28. CASE ExitSeesSucc(t)
  BY <1>28 DEF ExitSeesSucc, Goto, MonitorStep
<1>29. CASE ExitEpilog(t)
  BY <1>29 DEF ExitEpilog, Goto
<1>30. CASE EpilogDrop(t)
  BY <1>30 DEF EpilogDrop, Goto, MonitorStep
<1>31. CASE Unpark(t)
  BY <1>31 DEF Unpark, UnparkReturns, Goto
<1>32. CASE UnparkLock(t)
  BY <1>32 DEF UnparkLock, Goto, EventStep
<1>33. CASE UnparkRead(t)
  BY <1>33 DEF UnparkRead, UnparkReturns, Goto
<1>34. CASE UnparkSignal(t)
  BY <1>34 DEF UnparkSignal, UnparkReturns, Goto
<1> QED BY <1>1, <1>2, <1>3, <1>4, <1>5, <1>6, <1>7, <1>8, <1>9, <1>10, <1>11, <1>12, <1>13, <1>14, <1>15, <1>16, <1>17, <1>18, <1>19, <1>20, <1>21, <1>22, <1>23, <1>24, <1>25, <1>26, <1>27, <1>28, <1>29, <1>30, <1>31, <1>32, <1>33, <1>34

\* The steps on a node that is not queued: it is built, and pushed in vain.
LEMMA UnqueuedLists ==
    ASSUME Base, Base', Lists, NEW t \in Thread,
           \/ InitNode(t) \/ PushRead(t) \/ PushRetry(t)
           \/ PushCas(t) /\ mon.cxq # node[t].next
    PROVE  Lists'
<1> USE TypesOf DEF Base
<1>1. /\ \A u \in Thread \ {t} : pc'[u] = pc[u] /\ node'[u] = node[u]
      /\ UNCHANGED wakee /\ mon'.cxq = mon.cxq /\ mon'.EntryList = mon.EntryList
      /\ pc[t] \in Pushing \cup {"init"}
      /\ pc'[t] \in Pushing \cup {"locked"}
  <2>1. CASE InitNode(t)
    BY <2>1 DEF InitNode, Goto, Pushing
  <2>2. CASE PushRead(t)
    BY <2>2 DEF PushRead, Goto, Pushing
  <2>3. CASE PushRetry(t)
    BY <2>3 DEF PushRetry, TryLock, Goto, Pushing, MonType
  <2>4. CASE PushCas(t) /\ mon.cxq # node[t].next
    BY <2>4 DEF PushCas, MonitorStep, Goto, Pushing
  <2> QED BY <2>1, <2>2, <2>3, <2>4
<1>2. t \notin Queued
  BY <1>1 DEF Queued, Threads, Local, Pushing, Waiting, Spinning, Parked
<1>3. t \notin Queued'
  BY <1>1 DEF Queued, Threads, Local, Pushing, Waiting, Spinning, Parked
<1>4. Queued' = Queued
  <2>1. \A u \in Thread : u \in Queued' <=> u \in Queued
    BY <1>1, <1>2, <1>3 DEF Queued
  <2> QED BY <2>1 DEF Queued
<1>5. Moving' = Moving
  BY <1>1, MovingKept DEF Pushing
<1>6. \A n \in Queued : node'[n] = node[n]
  BY <1>1, <1>2 DEF Queued
<1> QED BY <1>1, <1>4, <1>5, <1>6, ListsKept

\* A successful push puts t in front of cxq.
LEMMA PushLists ==
    ASSUME Base, Base', Lists, NEW t \in Thread, PushCas(t), mon.cxq = node[t].next
    PROVE  Lists'
<1> USE DEF Base
<1>1. /\ UNCHANGED <<node, wakee>> /\ mon'.cxq = t /\ mon'.EntryList = mon.EntryList
      /\ pc[t] = "push_cas" /\ pc'[t] \in {"check_entry", "loop"}
      /\ \A u \in Thread \ {t} : pc'[u] = pc[u]
  BY TypesOf DEF PushCas, MonitorStep, Goto, MonType
<1>2. t \notin Queued /\ node[t].TState # "TS_UNDEF"
  BY <1>1 DEF Queued, Threads, Local, Pushing
<1>3. Queued' = Queued \cup {t}
  <2>1. \A u \in Thread : u \in Queued' <=> u \in Queued \/ u = t
    BY <1>1, <1>2 DEF Queued
  <2> QED BY <2>1 DEF Queued
<1>4. Moving' = Moving
  BY <1>1, MovingKept
<1>5. OnList(node, t) = OnList(node, mon.cxq) \cup {t}
  BY ListFacts, ListPushed
<1>6. /\ t \notin OnList(node, mon.cxq) /\ t \notin OnList(node, Moving)
      /\ t \notin OnList(node, mon.EntryList)
  BY <1>2 DEF Lists
<1>7. node[t].TState = "TS_CXQ"
  BY <1>1 DEF Threads, Local, Pushing
<1>8. Simple(node, t)
  <2>1. ClosedList(node, mon.cxq, OnList(node, mon.cxq))
    BY ListFacts, ListIsClosed
  <2>2. mon.cxq # t
    BY <1>6, HeadOnList
  <2>3. \A m \in OnList(node, mon.cxq) : node[m].next # t
    BY <1>6, <2>1, MonitorAssumption DEF ClosedList
  <2> QED BY <1>5, <2>2, <2>3 DEF Simple, Lists
<1>9. \A n \in OnList(node, t) : OnCxq(node, n)
  BY <1>5, <1>7 DEF Lists, OnCxq
<1>10. OnList(node, t) \cap OnList(node, Moving) = {}
  BY <1>5, <1>6 DEF Lists
<1>11. OnList(node, t) \cup OnList(node, Moving) \cup OnList(node, mon.EntryList) = Queued'
  BY <1>3, <1>5 DEF Lists
<1> QED BY <1>1, <1>4, <1>8, <1>9, <1>10, <1>11 DEF Lists

\* What is left of a list after unlinking is again simple.
LEMMA UnlinkedSimple ==
    ASSUME NEW nodes, NEW after, NEW h \in Ref, NEW t \in OnList(nodes, h), NEW k \in Ref,
           \A n \in Thread : nodes[n].next \in Ref, Simple(nodes, h),
           k = IF h = t THEN nodes[t].next ELSE h,
           \A n \in OnList(nodes, h) \ {t} :
              after[n].next = IF nodes[n].next = t THEN nodes[t].next ELSE nodes[n].next
    PROVE  Simple(after, k)
<1>1. OnList(after, k) = OnList(nodes, h) \ {t}
  BY ListUnlinked
<1>2. k = NO_THREAD => OnList(after, k) = {}
  BY EmptyList
<1>3. t # NO_THREAD
  BY MonitorAssumption DEF OnList
<1>4. \A m \in OnList(after, k) : after[m].next # k
  BY <1>1, <1>2, <1>3 DEF Simple
<1>5. \A m, q \in OnList(after, k) : after[m].next = after[q].next /\ after[m].next # NO_THREAD => m = q
  BY <1>1, <1>3 DEF Simple
<1> QED BY <1>4, <1>5 DEF Simple

\* On a doubly linked list the back links say what comes before a node.
LEMMA DoublyLinkedSimple ==
    ASSUME NEW nodes, NEW h \in Ref, DoublyLinked(nodes, h), \A n \in Thread : nodes[n].next \in Ref
    PROVE  /\ Simple(nodes, h)
           /\ \A n \in OnList(nodes, h) : nodes[n].prev \in OnList(nodes, h) \cup {NO_THREAD}
<1>1. OnList(nodes, h) \subseteq Thread
  BY DEF OnList
<1>2. ClosedList(nodes, h, OnList(nodes, h))
  BY ListIsClosed
<1>3. \A m \in OnList(nodes, h) : nodes[m].next # h
  <2>1. SUFFICES ASSUME NEW m \in OnList(nodes, h), nodes[m].next = h PROVE FALSE
    OBVIOUS
  <2>2. h \in Thread
    BY <1>1, <2>1, EmptyList DEF Ref
  <2>3. h \in OnList(nodes, h)
    BY <2>2, HeadOnList
  <2> QED BY <1>1, <2>1, <2>3, MonitorAssumption DEF DoublyLinked
<1>4. ASSUME NEW m \in OnList(nodes, h), NEW q \in OnList(nodes, h),
             nodes[m].next = nodes[q].next, nodes[m].next # NO_THREAD
      PROVE  m = q
  <2>1. nodes[m].next \in OnList(nodes, h)
    BY <1>2, <1>4 DEF ClosedList
  <2> QED BY <1>4, <2>1 DEF DoublyLinked
<1>5. ASSUME NEW n \in OnList(nodes, h) PROVE nodes[n].prev \in OnList(nodes, h) \cup {NO_THREAD}
  <2>1. CASE n = h
    BY <2>1 DEF DoublyLinked
  <2>2. CASE n # h
    <3>1. PICK q \in OnList(nodes, h) : nodes[q].next = n
      BY <2>2, HasPredecessor
    <3> QED BY <3>1 DEF DoublyLinked
  <2> QED BY <2>1, <2>2
<1> QED BY <1>3, <1>4, <1>5 DEF Simple
\* The owner takes its node off the list it is on.
LEMMA UnlinkLists ==
    ASSUME Base, Base', Lists, NEW t \in Thread, UnlinkAfterAcquire(t)
    PROVE  Lists'
<1> USE DEF Base
<1> DEFINE C == OnList(node, mon.cxq)
           E == OnList(node, mon.EntryList)
<1>1. /\ pc[t] = "unlink" /\ pc'[t] \in {"unlinked", "egress"} /\ UNCHANGED wakee
      /\ \A u \in Thread \ {t} : pc'[u] = pc[u]
  BY TypesOf DEF UnlinkAfterAcquire, Goto
<1>2. /\ mon'.EntryList = IF mon.EntryList = t THEN node[t].next ELSE mon.EntryList
      /\ mon'.cxq = IF mon.cxq = t THEN node[t].next ELSE mon.cxq
  BY TypesOf DEF UnlinkAfterAcquire, MonType
<1>3. \A n \in Thread :
        /\ node'[n].TState = IF n = t THEN "TS_UNDEF" ELSE node[n].TState
        /\ n # t => node'[n].next = IF n \in BeforeIt(t) THEN node[t].next ELSE node[n].next
        /\ n # t => node'[n].prev = IF node[t].TState = "TS_ENTER" /\ n = node[t].next
                                    THEN node[t].prev ELSE node[n].prev
  BY UnlinkEffect
<1>4. Moving = NO_THREAD /\ Moving' = NO_THREAD
  <2>1. mon.owner = t
    BY <1>1 DEF MutualExclusion
  <2>2. Moving = NO_THREAD
    BY <1>1, <2>1 DEF Moving
  <2> QED BY <1>1, <2>2, MovingKept
<1>5. OnList(node, Moving) = {} /\ OnList(node', Moving') = {}
  BY <1>4, EmptyList
<1>6. t \in Queued /\ Queued' = Queued \ {t}
  <2>1. t \in Queued
    BY <1>1 DEF Queued, Threads, Local, Waiting
  <2>2. \A u \in Thread : u \in Queued' <=> u \in Queued /\ u # t
    BY <1>1, <1>3 DEF Queued
  <2> QED BY <2>1, <2>2 DEF Queued
<1>7. C \cup E = Queued /\ C \subseteq Thread /\ E \subseteq Thread
  BY <1>5 DEF Lists, OnList
<1>8. C \cap E = {}
  BY DEF Lists, OnCxq, DoublyLinked
<1>9. ClosedList(node, mon.cxq, C) /\ ClosedList(node, mon.EntryList, E)
  BY ListFacts, ListIsClosed
<1>10. Simple(node, mon.EntryList) /\ \A n \in E : node[n].prev \in E \cup {NO_THREAD}
  BY ListFacts, DoublyLinkedSimple DEF Lists
<1>11. mon'.EntryList \in Ref /\ mon'.cxq \in Ref /\ \A n \in Thread : node'[n].next \in Ref
  BY DEF TypeOK, Ref
<1>12. CASE t \in E
  <2>1. node[t].TState = "TS_ENTER" /\ t \notin C
    BY <1>8, <1>12 DEF Lists, DoublyLinked
  <2>2. mon'.cxq = mon.cxq
    BY <1>2, <2>1, HeadOnList
  <2>3. \A n \in C : n # t /\ n \notin BeforeIt(t) /\ n # node[t].next
    BY <1>7, <1>8, <1>9, <1>10, <1>12, <2>1, MonitorAssumption DEF BeforeIt, ClosedList
  <2>4. \A n \in C : node'[n].next = node[n].next /\ node'[n].TState = node[n].TState
    BY <1>3, <1>7, <2>3
  <2>5. OnList(node', mon.cxq) = C
    BY <2>4, ListFacts, ListKept
  <2>6. Simple(node', mon.cxq) /\ \A n \in C : OnCxq(node', n)
    BY <2>4, <2>5 DEF Simple, Lists, OnCxq
  <2>7. \A n \in E \ {t} :
           /\ n \in BeforeIt(t) <=> node[n].next = t
           /\ node'[n].next = IF node[n].next = t THEN node[t].next ELSE node[n].next
           /\ node'[n].prev = IF n = node[t].next THEN node[t].prev ELSE node[n].prev
           /\ node'[n].TState = "TS_ENTER"
    <3> SUFFICES ASSUME NEW n \in E \ {t}
                 PROVE  /\ n \in BeforeIt(t) <=> node[n].next = t
                        /\ node'[n].next = IF node[n].next = t THEN node[t].next ELSE node[n].next
                        /\ node'[n].prev = IF n = node[t].next THEN node[t].prev ELSE node[n].prev
                        /\ node'[n].TState = "TS_ENTER"
      OBVIOUS
    <3>1. n \in BeforeIt(t) <=> node[n].next = t
      BY <1>12, <2>1 DEF BeforeIt, Lists, DoublyLinked
    <3>2. n \in Thread /\ n # t /\ node[n].TState = "TS_ENTER"
      BY <1>7 DEF Lists, DoublyLinked
    <3> QED BY <1>3, <2>1, <3>1, <3>2
  <2>8. OnList(node', mon'.EntryList) = E \ {t}
    BY <1>2, <1>10, <1>11, <1>12, <2>7, ListFacts, ListUnlinked
  <2>9. DoublyLinked(node', mon'.EntryList)
    <3>1. \A n \in E \ {t} : node'[n].prev = NO_THREAD <=> n = mon'.EntryList
      <4> SUFFICES ASSUME NEW n \in E \ {t}
                   PROVE  node'[n].prev = NO_THREAD <=> n = mon'.EntryList
        OBVIOUS
      <4>1. /\ node[n].prev = NO_THREAD <=> n = mon.EntryList
            /\ node[t].prev = NO_THREAD <=> t = mon.EntryList
        BY <1>12 DEF Lists, DoublyLinked
      <4>2. node[t].next # mon.EntryList
        BY <1>10, <1>12 DEF Simple
      <4>3. node'[n].prev = IF n = node[t].next THEN node[t].prev ELSE node[n].prev
        BY <2>7
      <4>4. mon'.EntryList = IF mon.EntryList = t THEN node[t].next ELSE mon.EntryList
        BY <1>2
      <4> QED BY <4>1, <4>2, <4>3, <4>4
    <3>2. \A n, m \in E \ {t} : node'[n].next = m <=> node'[m].prev = n
      <4> SUFFICES ASSUME NEW n \in E \ {t}, NEW m \in E \ {t}
                   PROVE  node'[n].next = m <=> node'[m].prev = n
        OBVIOUS
      <4>1. /\ node[n].next = m <=> node[m].prev = n
            /\ node[n].next = t <=> node[t].prev = n
            /\ node[t].next = m <=> node[m].prev = t
        BY <1>12 DEF Lists, DoublyLinked
      <4>2. /\ node'[n].next = IF node[n].next = t THEN node[t].next ELSE node[n].next
            /\ node'[m].prev = IF m = node[t].next THEN node[t].prev ELSE node[m].prev
        BY <2>7
      <4>3. n # t /\ m # t
        OBVIOUS
      <4> QED BY <4>1, <4>2, <4>3
    <3> QED BY <2>7, <2>8, <3>1, <3>2 DEF DoublyLinked
  <2>10. C \cup (E \ {t}) = Queued'
    BY <1>6, <1>7, <2>1
  <2>11. Simple(node', Moving')
    BY <1>5 DEF Simple
  <2> QED BY <1>5, <2>2, <2>5, <2>6, <2>8, <2>9, <2>10, <2>11 DEF Lists
<1>13. CASE t \in C
  <2>1. node[t].TState = "TS_CXQ" /\ t \notin E
    BY <1>8, <1>13 DEF Lists, OnCxq
  <2>2. mon'.EntryList = mon.EntryList
    BY <1>2, <2>1, HeadOnList
  <2>3. \A n \in E : node'[n].next = node[n].next /\ node'[n].TState = node[n].TState
                     /\ node'[n].prev = node[n].prev
    BY <1>3, <1>7, <1>8, <2>1 DEF BeforeIt
  <2>4. OnList(node', mon.EntryList) = E
    BY <2>3, ListFacts, ListKept
  <2>5. DoublyLinked(node', mon.EntryList)
    BY <2>3, <2>4 DEF DoublyLinked, Lists
  <2>6. \A n \in C \ {t} :
           node'[n].next = IF node[n].next = t THEN node[t].next ELSE node[n].next
    BY <1>3, <1>7, <2>1 DEF BeforeIt
  <2>7. Simple(node, mon.cxq)
    BY DEF Lists
  <2>8. OnList(node', mon'.cxq) = C \ {t}
    <3>1. mon.cxq \in Ref /\ \A n \in Thread : node[n].next \in Ref
      BY ListFacts
    <3>2. mon'.cxq = IF mon.cxq = t THEN node[t].next ELSE mon.cxq
      BY <1>2
    <3> QED BY <1>11, <1>13, <2>6, <2>7, <3>1, <3>2, ListUnlinked
  <2>9. Simple(node', mon'.cxq)
    BY <1>2, <1>11, <1>13, <2>6, <2>7, ListFacts, UnlinkedSimple
  <2>10. \A n \in C \ {t} : OnCxq(node', n)
    BY <1>3, <1>7 DEF Lists, OnCxq
  <2>11. (C \ {t}) \cup E = Queued'
    BY <1>6, <1>7, <2>1
  <2>12. Simple(node', Moving')
    BY <1>5 DEF Simple
  <2> QED BY <1>5, <2>2, <2>4, <2>5, <2>8, <2>9, <2>10, <2>11, <2>12 DEF Lists
<1> QED BY <1>6, <1>7, <1>12, <1>13

\* The owner takes the whole of cxq, and then makes it the EntryList.
LEMMA PickLists ==
    ASSUME Base, Base', Lists, NEW t \in Thread, ExitPick(t)
    PROVE  Lists'
<1> USE DEF Base
<1>0. pc[t] = "pick" /\ UNCHANGED node /\ \A u \in Thread \ {t} : pc'[u] = pc[u] /\ wakee'[u] = wakee[u]
  BY TypesOf DEF ExitPick, Goto
<1>1. mon.owner = t /\ t # NO_THREAD
  BY <1>0, MonitorAssumption DEF MutualExclusion
<1>2. CASE mon.EntryList = NO_THREAD /\ mon.cxq # NO_THREAD
  <2>1. /\ pc'[t] = "transfer" /\ wakee'[t] = mon.cxq
        /\ mon'.owner = t /\ mon'.cxq = NO_THREAD /\ mon'.EntryList = mon.EntryList
    BY <1>1, <1>2, TypesOf DEF ExitPick, Goto, MonType
  <2>2. Moving = NO_THREAD /\ Moving' = mon.cxq
    BY <1>0, <1>1, <2>1 DEF Moving
  <2>3. Queued' = Queued
    BY <1>0, <2>1 DEF Queued
  <2>4. OnList(node, NO_THREAD) = {}
    BY EmptyList
  <2>5. Simple(node, NO_THREAD)
    BY <2>4 DEF Simple
  <2> QED BY <1>0, <2>1, <2>2, <2>3, <2>4, <2>5 DEF Lists
<1>3. CASE ~(mon.EntryList = NO_THREAD /\ mon.cxq # NO_THREAD)
  <2>1. UNCHANGED <<mon, wakee>> /\ pc'[t] \in {"epilog", "drop"}
    BY <1>3, TypesOf DEF ExitPick, Goto
  <2>2. Quiet(t)
    BY <1>0, <2>1 DEF Quiet, Pushing
  <2> QED BY <2>2, QuietLists
<1> QED BY <1>2, <1>3

LEMMA TransferLists ==
    ASSUME Base, Base', Lists, NEW t \in Thread, ExitTransfer(t)
    PROVE  Lists'
<1> USE DEF Base
<1> DEFINE w == wakee[t]
           M == OnList(node, w)
<1>1. /\ pc[t] = "transfer" /\ pc'[t] = "see_succ2"
      /\ \A u \in Thread \ {t} : pc'[u] = pc[u]
      /\ mon'.EntryList = w /\ mon'.cxq = mon.cxq /\ mon'.owner = mon.owner
  BY TypesOf DEF ExitTransfer, Goto, MonType
<1>2. mon.owner = t /\ t # NO_THREAD
  BY <1>1, MonitorAssumption DEF MutualExclusion
<1>3. Moving = w /\ Moving' = NO_THREAD
  BY <1>1, <1>2 DEF Moving
<1>4. w \in Thread /\ mon.EntryList = NO_THREAD
  BY <1>1, TypesOf DEF Threads, Local, Ref
<1>5. \A n \in Thread :
         /\ node'[n].next = node[n].next
         /\ n \notin M => node'[n] = node[n]
         /\ n \in M => node'[n].TState = "TS_ENTER" /\ node'[n].prev = BeforeOn(t, n)
  BY TransferEffect
<1>6. M \subseteq Thread /\ OnList(node, mon.cxq) \subseteq Thread /\ OnList(node, NO_THREAD) = {}
  BY EmptyList DEF OnList
<1>7. OnList(node', w) = M
  <2>1. \A n \in M : node'[n].next = node[n].next
    BY <1>5, <1>6
  <2> QED BY <1>4, <2>1, ListFacts, ListKept DEF Ref
<1>8. OnList(node', mon.cxq) = OnList(node, mon.cxq)
  <2>1. \A n \in OnList(node, mon.cxq) : node'[n].next = node[n].next
    BY <1>5, <1>6
  <2> QED BY <2>1, ListFacts, ListKept
<1>9. OnList(node', NO_THREAD) = {}
  BY EmptyList
<1>10. \A n \in OnList(node, mon.cxq) : node'[n] = node[n]
  BY <1>3, <1>5, <1>6 DEF Lists
<1>11. Simple(node', mon.cxq) /\ \A n \in OnList(node, mon.cxq) : OnCxq(node', n)
  BY <1>8, <1>10 DEF Simple, Lists, OnCxq
<1>12. Queued' = Queued
  <2>1. \A u \in Thread : node'[u].TState # "TS_UNDEF" <=> node[u].TState # "TS_UNDEF"
    BY <1>3, <1>5 DEF Lists, OnCxq
  <2>2. \A u \in Thread : u \in Queued' <=> u \in Queued
    BY <1>1, <2>1 DEF Queued
  <2> QED BY <2>2 DEF Queued
<1>13. DoublyLinked(node', w)
  <2>1. Simple(node, w)
    BY <1>3 DEF Lists
  <2>2. ASSUME NEW n \in M, n # w PROVE BeforeOn(t, n) \in M /\ node[BeforeOn(t, n)].next = n
    <3>1. \E q \in M : node[q].next = n
      BY <1>4, <2>2, ListFacts, HasPredecessor DEF Ref
    <3> QED BY <2>2, <3>1 DEF BeforeOn
  <2>3. BeforeOn(t, w) = NO_THREAD
    BY DEF BeforeOn
  <2>4. \A n \in M : node'[n].prev = NO_THREAD <=> n = w
    BY <1>5, <1>6, <2>2, <2>3, MonitorAssumption
  <2>5. ASSUME NEW n \in M, NEW m \in M PROVE node'[n].next = m <=> node'[m].prev = n
    <3>1. CASE m = w
      BY <1>5, <1>6, <2>1, <2>3, <3>1, MonitorAssumption DEF Simple
    <3>2. CASE m # w
      <4>1. BeforeOn(t, m) \in M /\ node[BeforeOn(t, m)].next = m
        BY <2>2, <3>2
      <4>2. m # NO_THREAD
        BY <1>6, MonitorAssumption
      <4>3. node[n].next = m <=> BeforeOn(t, m) = n
        BY <2>1, <4>1, <4>2 DEF Simple
      <4> QED BY <1>5, <1>6, <4>3
    <3> QED BY <3>1, <3>2
  <2> QED BY <1>5, <1>6, <1>7, <2>4, <2>5 DEF DoublyLinked
<1>14. OnList(node, mon.cxq) \cup M = Queued
  BY <1>3, <1>4, <1>6 DEF Lists
<1>15. Simple(node', NO_THREAD)
  BY <1>9 DEF Simple
<1> QED BY <1>1, <1>3, <1>7, <1>8, <1>9, <1>11, <1>12, <1>13, <1>14, <1>15 DEF Lists

LEMMA ListsStep ==
    ASSUME Base, Base', Lists, NEW t \in Thread, Step(t)
    PROVE  Lists'
<1>1. CASE InitNode(t) \/ PushRead(t) \/ PushRetry(t)
  BY <1>1, UnqueuedLists
<1>2. CASE PushCas(t)
  BY <1>2, UnqueuedLists, PushLists
<1>3. CASE UnlinkAfterAcquire(t)
  BY <1>3, UnlinkLists
<1>4. CASE ExitPick(t)
  BY <1>4, PickLists
<1>5. CASE ExitTransfer(t)
  BY <1>5, TransferLists
<1>6. CASE Quiet(t)
  BY <1>6, QuietLists
<1> QED BY <1>1, <1>2, <1>3, <1>4, <1>5, <1>6, QuietSteps DEF Step, Base
-----------------------------------------------------------------------------
\* A step of t leaves the other threads where they are, and their events too except
\* for that of the thread it wakes, which only gets a permit.
Frame(t) ==
    \A u \in Thread \ {t} :
        /\ pc'[u] = pc[u] /\ call'[u] = call[u] /\ timed'[u] = timed[u] /\ wakee'[u] = wakee[u]
        /\ ev'[u].Event \in {ev[u].Event, 1}

LEMMA FrameStep ==
    ASSUME Base, NEW t \in Thread, Step(t)
    PROVE  Frame(t)
<1> USE TypesOf DEF Frame, Base, EventType
<1>1. CASE Enter(t)
  BY <1>1 DEF Enter, TryLock, Goto, MonitorStep
<1>2. CASE PreSpin(t)
  BY <1>2 DEF PreSpin, TryLock, Goto, Won, MonitorStep
<1>3. CASE SpinAdmit(t)
  BY <1>3 DEF SpinAdmit, SpinFailed, Goto
<1>4. CASE SpinSetSucc(t)
  BY <1>4 DEF SpinSetSucc, Goto, MonitorStep
<1>5. CASE SpinTake(t)
  BY <1>5 DEF SpinTake, Goto, Won, MonitorStep
<1>6. CASE SpinProbe(t)
  BY <1>6 DEF SpinProbe, Goto, MonitorStep
<1>7. CASE SpinProbed(t)
  BY <1>7 DEF SpinProbed, Goto, MonitorStep
<1>8. CASE SpinAbort(t)
  BY <1>8 DEF SpinAbort, SpinFailed, Goto
<1>9. CASE ClearSucc(t)
  BY <1>9 DEF ClearSucc, Goto, Won, MonitorStep
<1>10. CASE SpinRetry(t)
  BY <1>10 DEF SpinRetry, TryLock, SpinFailed, Goto, Won
<1>11. CASE InitNode(t)
  BY <1>11 DEF InitNode, Goto, NoNode, NewEvent
<1>12. CASE PushRead(t)
  BY <1>12 DEF PushRead, Goto
<1>13. CASE PushCas(t)
  BY <1>13 DEF PushCas, Goto, MonitorStep
<1>14. CASE PushRetry(t)
  BY <1>14 DEF PushRetry, TryLock, Goto, NoNode
<1>15. CASE CheckEntryList(t)
  BY <1>15 DEF CheckEntryList, Goto, MonitorStep
<1>16. CASE BecomeResponsible(t)
  BY <1>16 DEF BecomeResponsible, Goto, MonitorStep
<1>17. CASE WaitLoop(t)
  BY <1>17 DEF WaitLoop, TryLock, Goto, MonitorStep
<1>18. CASE ChoosePark(t)
  BY <1>18 DEF ChoosePark, Goto
<1>19. CASE FutileWakeup(t)
  BY <1>19 DEF FutileWakeup, Goto, MonitorStep
<1>20. CASE UnlinkAfterAcquire(t)
  BY <1>20 DEF UnlinkAfterAcquire, Goto, NoNode
<1>21. CASE Egress(t)
  BY <1>21 DEF Egress, Goto, MonitorStep
<1>22. CASE ParkTakePermit(t)
  BY <1>22 DEF ParkTakePermit, Goto
<1>23. CASE ParkLock(t)
  BY <1>23 DEF ParkLock, Goto, EventStep
<1>24. CASE ParkTest(t)
  BY <1>24 DEF ParkTest, Goto, EventStep
<1>25. CASE CondWait(t)
  BY <1>25 DEF CondWait, Goto, EventStep
<1>26. CASE CondWake(t)
  BY <1>26 DEF CondWake, Goto, EventStep
<1>27. CASE CondRelock(t)
  BY <1>27 DEF CondRelock, Goto, EventStep
<1>28. CASE ParkDone(t)
  BY <1>28 DEF ParkDone, Goto
<1>29. CASE Exit(t)
  BY <1>29 DEF Exit, Goto
<1>30. CASE ExitDrop(t)
  BY <1>30 DEF ExitDrop, Goto, MonitorStep
<1>31. CASE ExitSees(t)
  BY <1>31 DEF ExitSees, Goto, MonitorStep
<1>32. CASE ExitRetake(t)
  BY <1>32 DEF ExitRetake, TryLock, Goto, MonitorStep
<1>33. CASE ExitPick(t)
  BY <1>33 DEF ExitPick, Goto
<1>34. CASE ExitTransfer(t)
  BY <1>34 DEF ExitTransfer, Goto
<1>35. CASE ExitSeesSucc(t)
  BY <1>35 DEF ExitSeesSucc, Goto, MonitorStep
<1>36. CASE ExitEpilog(t)
  BY <1>36 DEF ExitEpilog, Goto
<1>37. CASE EpilogDrop(t)
  BY <1>37 DEF EpilogDrop, Goto, MonitorStep
<1>38. CASE Unpark(t)
  BY <1>38 DEF Unpark, UnparkReturns, Goto
<1>39. CASE UnparkLock(t)
  BY <1>39 DEF UnparkLock, Goto, EventStep
<1>40. CASE UnparkRead(t)
  BY <1>40 DEF UnparkRead, UnparkReturns, Goto
<1>41. CASE UnparkSignal(t)
  BY <1>41 DEF UnparkSignal, UnparkReturns, Goto
<1> QED BY <1>1, <1>2, <1>3, <1>4, <1>5, <1>6, <1>7, <1>8, <1>9, <1>10, <1>11, <1>12, <1>13, <1>14, <1>15, <1>16, <1>17, <1>18, <1>19, <1>20, <1>21, <1>22, <1>23, <1>24, <1>25, <1>26, <1>27, <1>28, <1>29, <1>30, <1>31, <1>32, <1>33, <1>34, <1>35, <1>36, <1>37, <1>38, <1>39, <1>40, <1>41 DEF Step

\* A step outside park and unpark.
OffEvents(t) ==
    /\ UNCHANGED <<ev, reinit>>
    /\ pc[t] \notin Parked \cup {"unpark_lock", "unpark_read", "signal"}
    /\ pc'[t] \notin Parked \cup {"unpark_lock", "unpark_read", "signal"}

LEMMA OffEventsSteps ==
    ASSUME TypeOK, NEW t \in Thread,
           \/ Enter(t) \/ PreSpin(t) \/ SpinAdmit(t) \/ SpinSetSucc(t) \/ SpinTake(t)
           \/ SpinProbe(t) \/ SpinProbed(t) \/ SpinAbort(t) \/ ClearSucc(t) \/ SpinRetry(t)
           \/ PushRead(t) \/ PushCas(t) \/ PushRetry(t) \/ CheckEntryList(t) \/ BecomeResponsible(t)
           \/ WaitLoop(t) \/ FutileWakeup(t) \/ UnlinkAfterAcquire(t) \/ Egress(t) \/ Exit(t)
           \/ ExitDrop(t) \/ ExitSees(t) \/ ExitRetake(t) \/ ExitPick(t) \/ ExitTransfer(t)
           \/ ExitSeesSucc(t) \/ ExitEpilog(t) \/ EpilogDrop(t)
    PROVE  OffEvents(t)
<1> USE TypesOf DEF OffEvents, Parked, MonType
<1>1. CASE Enter(t)
  BY <1>1 DEF Enter, TryLock, Goto, MonitorStep
<1>2. CASE PreSpin(t)
  BY <1>2 DEF PreSpin, TryLock, Goto, Won, MonitorStep
<1>3. CASE SpinAdmit(t)
  BY <1>3 DEF SpinAdmit, SpinFailed, Goto
<1>4. CASE SpinSetSucc(t)
  BY <1>4 DEF SpinSetSucc, Goto, MonitorStep
<1>5. CASE SpinTake(t)
  BY <1>5 DEF SpinTake, Goto, Won, MonitorStep
<1>6. CASE SpinProbe(t)
  BY <1>6 DEF SpinProbe, Goto, MonitorStep
<1>7. CASE SpinProbed(t)
  BY <1>7 DEF SpinProbed, Goto, MonitorStep
<1>8. CASE SpinAbort(t)
  BY <1>8 DEF SpinAbort, SpinFailed, Goto
<1>9. CASE ClearSucc(t)
  BY <1>9 DEF ClearSucc, Goto, Won, MonitorStep
<1>10. CASE SpinRetry(t)
  BY <1>10 DEF SpinRetry, TryLock, SpinFailed, Goto, Won
<1>11. CASE PushRead(t)
  BY <1>11 DEF PushRead, Goto
<1>12. CASE PushCas(t)
  BY <1>12 DEF PushCas, Goto, MonitorStep
<1>13. CASE PushRetry(t)
  BY <1>13 DEF PushRetry, TryLock, Goto, NoNode
<1>14. CASE CheckEntryList(t)
  BY <1>14 DEF CheckEntryList, Goto, MonitorStep
<1>15. CASE BecomeResponsible(t)
  BY <1>15 DEF BecomeResponsible, Goto, MonitorStep
<1>16. CASE WaitLoop(t)
  BY <1>16 DEF WaitLoop, TryLock, Goto, MonitorStep
<1>17. CASE FutileWakeup(t)
  BY <1>17 DEF FutileWakeup, Goto, MonitorStep
<1>18. CASE UnlinkAfterAcquire(t)
  BY <1>18 DEF UnlinkAfterAcquire, Goto, NoNode
<1>19. CASE Egress(t)
  BY <1>19 DEF Egress, Goto, MonitorStep
<1>20. CASE Exit(t)
  BY <1>20 DEF Exit, Goto
<1>21. CASE ExitDrop(t)
  BY <1>21 DEF ExitDrop, Goto, MonitorStep
<1>22. CASE ExitSees(t)
  BY <1>22 DEF ExitSees, Goto, MonitorStep
<1>23. CASE ExitRetake(t)
  BY <1>23 DEF ExitRetake, TryLock, Goto, MonitorStep
<1>24. CASE ExitPick(t)
  BY <1>24 DEF ExitPick, Goto
<1>25. CASE ExitTransfer(t)
  BY <1>25 DEF ExitTransfer, Goto
<1>26. CASE ExitSeesSucc(t)
  BY <1>26 DEF ExitSeesSucc, Goto, MonitorStep
<1>27. CASE ExitEpilog(t)
  BY <1>27 DEF ExitEpilog, Goto
<1>28. CASE EpilogDrop(t)
  BY <1>28 DEF EpilogDrop, Goto, MonitorStep
<1> QED BY <1>1, <1>2, <1>3, <1>4, <1>5, <1>6, <1>7, <1>8, <1>9, <1>10, <1>11, <1>12, <1>13, <1>14, <1>15, <1>16, <1>17, <1>18, <1>19, <1>20, <1>21, <1>22, <1>23, <1>24, <1>25, <1>26, <1>27, <1>28
LEMMA OffEventsKeeps ==
    ASSUME Base, Mutexes, Permits, NEW t \in Thread, Frame(t), OffEvents(t)
    PROVE  Mutexes' /\ Permits'
<1>1. Mutexes'
  BY DEF Mutexes, HoldsMutex, Parked, Frame, OffEvents
<1>2. ASSUME ~reinit', NEW s \in Thread, pc'[s] \in {"cond_wait", "asleep"}, ev'[s].Event >= 0
      PROVE  Told(s)'
  <2>1. s # t /\ ~reinit /\ pc'[s] = pc[s] /\ timed'[s] = timed[s] /\ ev'[s] = ev[s]
    BY <1>2 DEF Frame, OffEvents, Parked
  <2>2. Told(s)
    BY <1>2, <2>1 DEF Permits
  <2>3. ASSUME NEW u \in Thread, pc[u] \in {"unpark_lock", "unpark_read", "signal"}
        PROVE  pc'[u] = pc[u] /\ wakee'[u] = wakee[u]
    BY <2>3 DEF Frame, OffEvents
  <2> QED BY <2>1, <2>2, <2>3 DEF Told
<1> QED BY <1>1, <1>2 DEF Permits

\* The event of s keeps its one holder in a step that leaves the mutex as it is and
\* takes no thread to a place that holds it.
LEMMA MutexKept ==
    ASSUME Mutexes, ~reinit, NEW s \in Thread, ev'[s].held = ev[s].held,
           pc'[s] \in HoldsMutex => pc[s] \in HoldsMutex,
           \A u \in Thread : pc'[u] = "unpark_read" => pc[u] = "unpark_read" /\ wakee'[u] = wakee[u]
    PROVE  /\ pc'[s] \in HoldsMutex => ev'[s].held
           /\ \A u \in Thread : pc'[u] = "unpark_read" /\ wakee'[u] = s =>
                 /\ ev'[s].held
                 /\ pc'[s] \notin HoldsMutex
                 /\ \A v \in Thread : pc'[v] = "unpark_read" /\ wakee'[v] = s => u = v
BY DEF Mutexes

LEMMA MutexesStep ==
    ASSUME Base, Base', Mutexes, Permits, NEW t \in Thread, Step(t)
    PROVE  Mutexes'
<1> USE TypesOf, FrameStep DEF Base, Frame, HoldsMutex, EventType
<1>0. SUFFICES ASSUME ~reinit', NEW s \in Thread
               PROVE  /\ pc'[s] \in HoldsMutex => ev'[s].held
                      /\ \A u \in Thread : pc'[u] = "unpark_read" /\ wakee'[u] = s =>
                            /\ ev'[s].held
                            /\ pc'[s] \notin HoldsMutex
                            /\ \A v \in Thread : pc'[v] = "unpark_read" /\ wakee'[v] = s => u = v
  BY DEF Mutexes
<1>1. CASE OffEvents(t)
  BY <1>0, <1>1, OffEventsKeeps DEF Mutexes
<1>2. CASE InitNode(t)
  BY <1>0, <1>2 DEF InitNode, Goto, Mutexes, NewEvent
<1>3. CASE ChoosePark(t)
  <2>1. UNCHANGED <<ev, wakee, reinit>> /\ pc[t] = "choose"
    BY <1>3 DEF ChoosePark
  <2>2. pc' = [pc EXCEPT ![t] = "park"]
    BY <1>3 DEF ChoosePark, Goto
  <2>3. ~reinit /\ ev'[s].held = ev[s].held
    BY <1>0, <2>1
  <2>4. pc'[s] \in HoldsMutex => pc[s] \in HoldsMutex
    BY <2>2
  <2>5. \A u \in Thread : pc'[u] = "unpark_read" => pc[u] = "unpark_read" /\ wakee'[u] = wakee[u]
    BY <2>1, <2>2
  <2> HIDE DEF HoldsMutex
  <2> QED BY <2>3, <2>4, <2>5, MutexKept
<1>4. CASE ParkTakePermit(t)
  BY <1>0, <1>4 DEF ParkTakePermit, Goto, Mutexes
<1>5. CASE ParkLock(t)
  BY <1>0, <1>5 DEF ParkLock, EventStep, Goto, Mutexes
<1>6. CASE ParkTest(t)
  BY <1>0, <1>6 DEF ParkTest, EventStep, Goto, Mutexes
<1>7. CASE CondWait(t)
  BY <1>0, <1>7 DEF CondWait, EventStep, Goto, Mutexes
<1>8. CASE CondWake(t)
  BY <1>0, <1>8 DEF CondWake, EventStep, Goto, Mutexes
<1>9. CASE CondRelock(t)
  BY <1>0, <1>9 DEF CondRelock, EventStep, Goto, Mutexes
<1>10. CASE ParkDone(t)
  BY <1>0, <1>10 DEF ParkDone, Goto, Mutexes
<1>11. CASE Unpark(t)
  <2>1. pc[t] = "unpark" /\ pc'[t] \in {"idle", "unpark_lock"} /\ ~reinit
    BY <1>0, <1>11 DEF Unpark, UnparkReturns, Goto
  <2>2. ev'[s].held = ev[s].held
    BY <1>11 DEF Unpark
  <2>3. \A u \in Thread : pc'[u] \in HoldsMutex \cup {"unpark_read"} =>
           pc'[u] = pc[u] /\ wakee'[u] = wakee[u]
    BY <2>1
  <2> HIDE DEF HoldsMutex
  <2>4. pc'[s] \in HoldsMutex => pc[s] \in HoldsMutex
    BY <2>3
  <2>5. \A u \in Thread : pc'[u] = "unpark_read" => pc[u] = "unpark_read" /\ wakee'[u] = wakee[u]
    BY <2>3
  <2> QED BY <2>1, <2>2, <2>4, <2>5, MutexKept
<1>12. CASE UnparkLock(t)
  BY <1>0, <1>12 DEF UnparkLock, EventStep, Goto, Mutexes
<1>13. CASE UnparkRead(t)
  <2>1. pc[t] = "unpark_read" /\ pc'[t] \in {"idle", "signal"} /\ ~reinit
    BY <1>0, <1>13 DEF UnparkRead, UnparkReturns, Goto
  <2>2. s # wakee[t] => ev'[s].held = ev[s].held
    BY <1>13 DEF UnparkRead
  <2>3. CASE s = wakee[t]
    <3>1. pc[s] \notin HoldsMutex /\ \A v \in Thread : pc[v] = "unpark_read" /\ wakee[v] = s => v = t
      BY <2>1, <2>3 DEF Mutexes
    <3> QED BY <2>1, <3>1
  <2>4. CASE s # wakee[t]
    <3>1. \A u \in Thread : pc'[u] = "unpark_read" => u # t /\ pc'[u] = pc[u] /\ wakee'[u] = wakee[u]
      BY <2>1
    <3>2. pc'[s] \in HoldsMutex <=> pc[s] \in HoldsMutex
      BY <2>1
    <3> HIDE DEF HoldsMutex
    <3> QED BY <2>1, <2>2, <2>4, <3>1, <3>2, MutexKept
  <2> QED BY <2>3, <2>4
<1>14. CASE UnparkSignal(t)
  BY <1>0, <1>14 DEF UnparkSignal, UnparkReturns, Goto, Mutexes
<1> QED BY <1>1, <1>2, <1>3, <1>4, <1>5, <1>6, <1>7, <1>8, <1>9, <1>10, <1>11, <1>12, <1>13,
           <1>14, OffEventsSteps DEF Step

\* What the sleeper s still has coming is not lost by the step.
LEMMA PermitsStep ==
    ASSUME Base, Base', Mutexes, Permits, NEW t \in Thread, Step(t)
    PROVE  Permits'
<1> USE TypesOf, FrameStep DEF Base, EventType
<1>0. SUFFICES ASSUME ~reinit', NEW s \in Thread, pc'[s] \in {"cond_wait", "asleep"}, ev'[s].Event >= 0
               PROVE  Told(s)'
  BY DEF Permits
<1>1. CASE OffEvents(t)
  BY <1>0, <1>1, OffEventsKeeps DEF Permits
<1>2. CASE InitNode(t)
  BY <1>0, <1>2 DEF InitNode, Goto, Permits, Told, Frame
<1>3. CASE ChoosePark(t)
  BY <1>0, <1>3 DEF ChoosePark, Goto, Permits, Told, Frame
<1>4. CASE ParkTakePermit(t)
  BY <1>0, <1>4 DEF ParkTakePermit, Goto, Permits, Told, Frame
<1>5. CASE ParkLock(t)
  BY <1>0, <1>5 DEF ParkLock, EventStep, Goto, Permits, Told, Frame
<1>6. CASE ParkTest(t)
  BY <1>0, <1>6 DEF ParkTest, EventStep, Goto, Permits, Told, Frame
<1>7. CASE CondWait(t)
  BY <1>0, <1>7 DEF CondWait, EventStep, Goto, Permits, Told, Frame
<1>8. CASE CondWake(t)
  BY <1>0, <1>8 DEF CondWake, EventStep, Goto, Permits, Told, Frame
<1>9. CASE CondRelock(t)
  BY <1>0, <1>9 DEF CondRelock, EventStep, Goto, Permits, Told, Frame
<1>10. CASE ParkDone(t)
  BY <1>0, <1>10 DEF ParkDone, Goto, Permits, Told, Frame
<1>11. CASE Unpark(t)
  BY <1>0, <1>11 DEF Unpark, UnparkReturns, Goto, Permits, Told, Frame
<1>12. CASE UnparkLock(t)
  <2>1. /\ pc[t] = "unpark_lock" /\ pc'[t] = "unpark_read" /\ ~ev[wakee[t]].held
        /\ UNCHANGED <<timed, wakee, reinit>>
    BY <1>12 DEF UnparkLock, EventStep, Goto
  <2>2. ev'[s].Event = ev[s].Event /\ ev'[s].signalled = ev[s].signalled
    BY <1>12 DEF UnparkLock
  <2>3. s # t /\ pc'[s] = pc[s]
    BY <1>0, <2>1 DEF Frame
  <2>4. Told(s)
    BY <1>0, <2>1, <2>2, <2>3 DEF Permits
  <2>5. wakee[t] = s => pc[s] = "asleep"
    BY <1>0, <2>1, <2>3 DEF Mutexes, HoldsMutex
  <2>6. \A u \in Thread \ {t} : pc'[u] = pc[u]
    BY DEF Frame
  <2> QED BY <2>1, <2>2, <2>3, <2>4, <2>5, <2>6 DEF Told
<1>13. CASE UnparkRead(t)
  <2>1. /\ pc[t] = "unpark_read" /\ UNCHANGED <<timed, reinit>>
        /\ ev[wakee[t]].nParked # 0 => pc'[t] = "signal" /\ UNCHANGED wakee
    BY <1>13 DEF UnparkRead, Goto
  <2>2. ev'[s].Event = ev[s].Event /\ ev'[s].signalled = ev[s].signalled
    BY <1>13 DEF UnparkRead
  <2>3. s # t /\ pc'[s] = pc[s]
    <3>1. pc'[t] \in {"idle", "signal"}
      BY <1>13 DEF UnparkRead, UnparkReturns, Goto
    <3> QED BY <1>0, <3>1 DEF Frame
  <2>4. Told(s)
    BY <1>0, <2>1, <2>2, <2>3 DEF Permits
  <2>5. ev[s].nParked = 1
    BY <1>0, <2>3 DEF Threads, Local, Parked
  <2>6. \A u \in Thread \ {t} : pc'[u] = pc[u] /\ wakee'[u] = wakee[u]
    BY DEF Frame
  <2>7. CASE timed[s] \/ ev[s].signalled
    BY <2>1, <2>2, <2>7 DEF Told
  <2>8. ASSUME NEW u \in Thread, wakee[u] = s,
               pc[u] = "unpark_lock" \/ (pc[u] \in {"unpark_read", "signal"} /\ pc[s] = "asleep")
        PROVE  Told(s)'
    <3>1. wakee'[u] = s
      BY <2>1, <2>5, <2>6, <2>8
    <3>2. pc'[u] = "unpark_lock" \/ (pc'[u] \in {"unpark_read", "signal"} /\ pc'[s] = "asleep")
      BY <2>1, <2>3, <2>5, <2>6, <2>8
    <3> QED BY <3>1, <3>2 DEF Told
  <2> QED BY <2>4, <2>7, <2>8 DEF Told
<1>14. CASE UnparkSignal(t)
  <2>1. pc[t] = "signal" /\ pc'[t] = "idle" /\ UNCHANGED <<timed, reinit>>
    BY <1>14 DEF UnparkSignal, UnparkReturns, Goto
  <2>2. ev'[s].Event = ev[s].Event
    BY <1>14 DEF UnparkSignal
  <2>3. s # t /\ pc'[s] = pc[s]
    BY <1>0, <2>1 DEF Frame
  <2>4. Told(s)
    BY <1>0, <2>1, <2>2, <2>3 DEF Permits
  <2>5. \A u \in Thread \ {t} : pc'[u] = pc[u] /\ wakee'[u] = wakee[u]
    BY DEF Frame
  <2>6. CASE pc[s] = "asleep"
    <3>1. wakee[t] = s => ev'[s].signalled
      BY <1>14, <2>6 DEF UnparkSignal
    <3>2. ev[s].signalled => ev'[s].signalled
      BY <1>14, <2>6 DEF UnparkSignal
    <3> QED BY <2>1, <2>3, <2>4, <2>5, <3>1, <3>2 DEF Told
  <2>7. CASE pc[s] = "cond_wait"
    <3>1. ~ev[s].signalled
      BY <2>7 DEF Threads, Local
    <3> QED BY <2>1, <2>3, <2>4, <2>5, <2>7, <3>1 DEF Told
  <2> QED BY <1>0, <2>3, <2>6, <2>7
<1> QED BY <1>1, <1>2, <1>3, <1>4, <1>5, <1>6, <1>7, <1>8, <1>9, <1>10, <1>11, <1>12, <1>13,
           <1>14, OffEventsSteps DEF Step
-----------------------------------------------------------------------------
\* Who is queued, by where it is.
InLists(t) == pc[t] \in Waiting \/ (pc[t] \in Spinning /\ call[t] = "futile")

LEMMA QueuedByPlace ==
    ASSUME Base, NEW t \in Thread
    PROVE  t \in Queued <=> InLists(t)
BY DEF Base, Threads, Local, Queued, InLists, Waiting, Pushing, Spinning, Parked

QueuedArePlaced == \A t \in Thread : t \in Queued <=> InLists(t)

LEMMA QueuedPlaced == Base => QueuedArePlaced
BY QueuedByPlace DEF QueuedArePlaced

\* The two parts of Successor for a thread, the second in what it knows itself and
\* in what others are about to do.
Trying(t) == InLists(t) \/ pc[t] \in {"spin", "probed", "spun", "abort", "aborted", "unlinked"}
Alert(t) ==
    \/ pc[t] \in Spinning \cup {"unsucc", "unsucc_store", "unlink", "unlinked",
                                "relock_timeout", "park_done"}
    \/ ev[t].Event = 1
    \/ timed[t] /\ pc[t] \in {"park_lock", "park_test", "cond_wait", "asleep", "relock"}
Coming(t) == \E u \in Thread : wakee[u] = t /\ pc[u] \in {"epilog_drop", "unpark"}

SuccessorTries == \A s \in Thread : mon.succ = s => Trying(s) /\ (Alert(s) \/ Coming(s))

LEMMA SuccessorByPlace == Base => (Successor <=> SuccessorTries)
BY QueuedByPlace DEF Successor, SuccessorTries, Awake, Trying, Alert, Coming

LEMMA SpinsAgain ==
    ASSUME NEW t \in Thread, pc'[t] = "prespin", call'[t] = "futile"
    PROVE  Trying(t)' /\ Alert(t)'
BY DEF Trying, Alert, InLists, Spinning

LEMMA AtPark ==
    ASSUME NEW t \in Thread, pc[t] = "park", ev[t].Event = 0
    PROVE  ~Alert(t)
BY DEF Alert, Spinning

\* The step of the successor itself: it stops trying or goes to sleep only after it
\* has given up being the successor.
LEMMA OwnSuccessor ==
    ASSUME Base, Base', NEW t \in Thread, Step(t), mon.succ = t, mon'.succ = t,
           Trying(t), Alert(t) \/ Coming(t)
    PROVE  Trying(t)' /\ (Alert(t)' \/ Coming(t))
<1> USE TypesOf, MonitorAssumption DEF Base, MonType, EventType, Trying, Alert, InLists, Waiting, Spinning, Parked
<1>1. CASE Enter(t)
  BY <1>1 DEF Enter, TryLock, Goto, MonitorStep
<1>2. CASE PreSpin(t)
  BY <1>2 DEF PreSpin, TryLock, Goto, Won, MonitorStep
<1>3. CASE SpinAdmit(t)
  BY <1>3 DEF SpinAdmit, SpinFailed, Goto
<1>4. CASE SpinSetSucc(t)
  BY <1>4 DEF SpinSetSucc, Goto, MonitorStep
<1>5. CASE SpinTake(t)
  BY <1>5 DEF SpinTake, Goto, Won, MonitorStep
<1>6. CASE SpinProbe(t)
  BY <1>6 DEF SpinProbe, Goto, MonitorStep
<1>7. CASE SpinProbed(t)
  BY <1>7 DEF SpinProbed, Goto, MonitorStep
<1>8. CASE SpinAbort(t)
  BY <1>8 DEF SpinAbort, SpinFailed, Goto
<1>9. CASE ClearSucc(t)
  BY <1>9 DEF ClearSucc, Goto, Won, MonitorStep
<1>10. CASE SpinRetry(t)
  BY <1>10 DEF SpinRetry, TryLock, SpinFailed, Goto, Won
<1>11. CASE InitNode(t)
  BY <1>11 DEF InitNode, Goto, NoNode, NewEvent
<1>12. CASE PushRead(t)
  BY <1>12 DEF PushRead, Goto
<1>13. CASE PushCas(t)
  BY <1>13 DEF PushCas, Goto, MonitorStep
<1>14. CASE PushRetry(t)
  BY <1>14 DEF PushRetry, TryLock, Goto, NoNode
<1>15. CASE CheckEntryList(t)
  BY <1>15 DEF CheckEntryList, Goto, MonitorStep
<1>16. CASE BecomeResponsible(t)
  BY <1>16 DEF BecomeResponsible, Goto, MonitorStep
<1>17. CASE WaitLoop(t)
  BY <1>17 DEF WaitLoop, TryLock, Goto, MonitorStep
<1>18. CASE ChoosePark(t)
  BY <1>18 DEF ChoosePark, Goto
<1>19. CASE FutileWakeup(t)
  BY <1>19 DEF FutileWakeup, Goto, MonitorStep
<1>20. CASE UnlinkAfterAcquire(t)
  BY <1>20 DEF UnlinkAfterAcquire, Goto, NoNode
<1>21. CASE Egress(t)
  BY <1>21 DEF Egress, Goto, MonitorStep
<1>22. CASE ParkTakePermit(t)
  <2>1. call[t] = "futile" /\ UNCHANGED call
    BY <1>22 DEF ParkTakePermit, Threads, Local
  <2>2. pc'[t] = "prespin" \/ (pc[t] = "park" /\ pc'[t] = "park_lock" /\ ev[t].Event = 0)
    BY <1>22 DEF ParkTakePermit, Goto
  <2>3. CASE pc'[t] = "prespin"
    BY <2>1, <2>3, SpinsAgain
  <2>4. CASE pc[t] = "park" /\ pc'[t] = "park_lock" /\ ev[t].Event = 0
    <3>1. ~Alert(t)
      BY <2>4, AtPark
    <3>2. Trying(t)'
      BY <2>4
    <3> QED BY <3>1, <3>2
  <2> QED BY <2>2, <2>3, <2>4
<1>23. CASE ParkLock(t)
  BY <1>23 DEF ParkLock, Goto, EventStep
<1>24. CASE ParkTest(t)
  BY <1>24 DEF ParkTest, Goto, EventStep
<1>25. CASE CondWait(t)
  BY <1>25 DEF CondWait, Goto, EventStep
<1>26. CASE CondWake(t)
  BY <1>26 DEF CondWake, Goto, EventStep
<1>27. CASE CondRelock(t)
  BY <1>27 DEF CondRelock, Goto, EventStep
<1>28. CASE ParkDone(t)
  <2>1. call[t] = "futile" /\ UNCHANGED call
    BY <1>28 DEF ParkDone, Threads, Local
  <2>2. pc'[t] = "prespin"
    BY <1>28 DEF ParkDone, Goto
  <2> QED BY <2>1, <2>2, SpinsAgain
<1>29. CASE Exit(t)
  BY <1>29 DEF Exit, Goto
<1>30. CASE ExitDrop(t)
  BY <1>30 DEF ExitDrop, Goto, MonitorStep
<1>31. CASE ExitSees(t)
  BY <1>31 DEF ExitSees, Goto, MonitorStep
<1>32. CASE ExitRetake(t)
  BY <1>32 DEF ExitRetake, TryLock, Goto, MonitorStep
<1>33. CASE ExitPick(t)
  BY <1>33 DEF ExitPick, Goto
<1>34. CASE ExitTransfer(t)
  BY <1>34 DEF ExitTransfer, Goto
<1>35. CASE ExitSeesSucc(t)
  BY <1>35 DEF ExitSeesSucc, Goto, MonitorStep
<1>36. CASE ExitEpilog(t)
  BY <1>36 DEF ExitEpilog, Goto
<1>37. CASE EpilogDrop(t)
  BY <1>37 DEF EpilogDrop, Goto, MonitorStep
<1>38. CASE Unpark(t)
  BY <1>38 DEF Unpark, UnparkReturns, Goto
<1>39. CASE UnparkLock(t)
  BY <1>39 DEF UnparkLock, Goto, EventStep
<1>40. CASE UnparkRead(t)
  BY <1>40 DEF UnparkRead, UnparkReturns, Goto
<1>41. CASE UnparkSignal(t)
  BY <1>41 DEF UnparkSignal, UnparkReturns, Goto
<1> QED BY <1>1, <1>2, <1>3, <1>4, <1>5, <1>6, <1>7, <1>8, <1>9, <1>10, <1>11, <1>12, <1>13, <1>14, <1>15, <1>16, <1>17, <1>18, <1>19, <1>20, <1>21, <1>22, <1>23, <1>24, <1>25, <1>26, <1>27, <1>28, <1>29, <1>30, <1>31, <1>32, <1>33, <1>34, <1>35, <1>36, <1>37, <1>38, <1>39, <1>40, <1>41 DEF Step
-----------------------------------------------------------------------------
\* Which steps write _succ, take something off cxq, free the monitor, or queue and
\* unqueue the thread.
Writes(t) ==
    /\ mon'.succ = mon.succ \/ SpinSetSucc(t) \/ ClearSucc(t) \/ ExitEpilog(t)
    /\ mon'.cxq = mon.cxq \/ mon'.cxq = t \/ pc[t] \in {"unlink", "pick"}
    /\ mon'.owner = NO_THREAD => mon.owner = NO_THREAD \/ ExitDrop(t) \/ EpilogDrop(t)
    /\ InLists(t) => InLists(t)' \/ pc[t] = "unlink"
    /\ InLists(t)' => InLists(t) \/ PushCas(t)

LEMMA WritesStep ==
    ASSUME Base, NEW t \in Thread, Step(t)
    PROVE  Writes(t)
<1> USE TypesOf, MonitorAssumption DEF Base, Writes, MonType, InLists, Waiting, Spinning, Parked
<1>1. CASE Enter(t)
  <2>1. call[t] = "early"
    BY <1>1 DEF Enter, Threads, Local
  <2> QED BY <1>1, <2>1 DEF Enter, TryLock, Goto, MonitorStep
<1>2. CASE PreSpin(t)
  BY <1>2 DEF PreSpin, TryLock, Goto, Won, MonitorStep
<1>3. CASE SpinAdmit(t)
  BY <1>3 DEF SpinAdmit, SpinFailed, Goto
<1>4. CASE SpinSetSucc(t)
  BY <1>4 DEF SpinSetSucc, Goto, MonitorStep
<1>5. CASE SpinTake(t)
  BY <1>5 DEF SpinTake, Goto, Won, MonitorStep
<1>6. CASE SpinProbe(t)
  BY <1>6 DEF SpinProbe, Goto, MonitorStep
<1>7. CASE SpinProbed(t)
  BY <1>7 DEF SpinProbed, Goto, MonitorStep
<1>8. CASE SpinAbort(t)
  BY <1>8 DEF SpinAbort, SpinFailed, Goto
<1>9. CASE ClearSucc(t)
  BY <1>9 DEF ClearSucc, Goto, Won, MonitorStep
<1>10. CASE SpinRetry(t)
  BY <1>10 DEF SpinRetry, TryLock, SpinFailed, Goto, Won
<1>11. CASE InitNode(t)
  BY <1>11 DEF InitNode, Goto, NoNode, NewEvent
<1>12. CASE PushRead(t)
  BY <1>12 DEF PushRead, Goto
<1>13. CASE PushCas(t)
  BY <1>13 DEF PushCas, Goto, MonitorStep
<1>14. CASE PushRetry(t)
  BY <1>14 DEF PushRetry, TryLock, Goto, NoNode
<1>15. CASE CheckEntryList(t)
  BY <1>15 DEF CheckEntryList, Goto, MonitorStep
<1>16. CASE BecomeResponsible(t)
  BY <1>16 DEF BecomeResponsible, Goto, MonitorStep
<1>17. CASE WaitLoop(t)
  BY <1>17 DEF WaitLoop, TryLock, Goto, MonitorStep
<1>18. CASE ChoosePark(t)
  BY <1>18 DEF ChoosePark, Goto
<1>19. CASE FutileWakeup(t)
  BY <1>19 DEF FutileWakeup, Goto, MonitorStep
<1>20. CASE UnlinkAfterAcquire(t)
  BY <1>20 DEF UnlinkAfterAcquire, Goto, NoNode
<1>21. CASE Egress(t)
  BY <1>21 DEF Egress, Goto, MonitorStep
<1>22. CASE ParkTakePermit(t)
  <2>1. call[t] = "futile"
    BY <1>22 DEF ParkTakePermit, Threads, Local
  <2> QED BY <1>22, <2>1 DEF ParkTakePermit, Goto
<1>23. CASE ParkLock(t)
  BY <1>23 DEF ParkLock, Goto, EventStep
<1>24. CASE ParkTest(t)
  BY <1>24 DEF ParkTest, Goto, EventStep
<1>25. CASE CondWait(t)
  BY <1>25 DEF CondWait, Goto, EventStep
<1>26. CASE CondWake(t)
  BY <1>26 DEF CondWake, Goto, EventStep
<1>27. CASE CondRelock(t)
  BY <1>27 DEF CondRelock, Goto, EventStep
<1>28. CASE ParkDone(t)
  <2>1. call[t] = "futile"
    BY <1>28 DEF ParkDone, Threads, Local
  <2> QED BY <1>28, <2>1 DEF ParkDone, Goto
<1>29. CASE Exit(t)
  BY <1>29 DEF Exit, Goto
<1>30. CASE ExitDrop(t)
  BY <1>30 DEF ExitDrop, Goto, MonitorStep
<1>31. CASE ExitSees(t)
  BY <1>31 DEF ExitSees, Goto, MonitorStep
<1>32. CASE ExitRetake(t)
  BY <1>32 DEF ExitRetake, TryLock, Goto, MonitorStep
<1>33. CASE ExitPick(t)
  BY <1>33 DEF ExitPick, Goto
<1>34. CASE ExitTransfer(t)
  BY <1>34 DEF ExitTransfer, Goto
<1>35. CASE ExitSeesSucc(t)
  BY <1>35 DEF ExitSeesSucc, Goto, MonitorStep
<1>36. CASE ExitEpilog(t)
  BY <1>36 DEF ExitEpilog, Goto
<1>37. CASE EpilogDrop(t)
  BY <1>37 DEF EpilogDrop, Goto, MonitorStep
<1>38. CASE Unpark(t)
  BY <1>38 DEF Unpark, UnparkReturns, Goto
<1>39. CASE UnparkLock(t)
  BY <1>39 DEF UnparkLock, Goto, EventStep
<1>40. CASE UnparkRead(t)
  BY <1>40 DEF UnparkRead, UnparkReturns, Goto
<1>41. CASE UnparkSignal(t)
  BY <1>41 DEF UnparkSignal, UnparkReturns, Goto
<1> QED BY <1>1, <1>2, <1>3, <1>4, <1>5, <1>6, <1>7, <1>8, <1>9, <1>10, <1>11, <1>12, <1>13, <1>14, <1>15, <1>16, <1>17, <1>18, <1>19, <1>20, <1>21, <1>22, <1>23, <1>24, <1>25, <1>26, <1>27, <1>28, <1>29, <1>30, <1>31, <1>32, <1>33, <1>34, <1>35, <1>36, <1>37, <1>38, <1>39, <1>40, <1>41 DEF Step

\* The steps of a thread that has dropped the monitor.
LEMMA StepAt ==
    ASSUME NEW t \in Thread, Step(t)
    PROVE  /\ pc[t] \in {"see_entry", "see_cxq", "see_succ"} => ExitSees(t)
           /\ pc[t] = "retake" => ExitRetake(t)
           /\ pc[t] = "epilog_drop" => EpilogDrop(t)
           /\ pc[t] = "unpark" => Unpark(t)
BY DEF Step, Enter, PreSpin, SpinAdmit, SpinSetSucc, SpinTake, SpinProbe, SpinProbed, SpinAbort,
       ClearSucc, SpinRetry, InitNode, PushRead, PushCas, PushRetry, CheckEntryList,
       BecomeResponsible, WaitLoop, ChoosePark, FutileWakeup, UnlinkAfterAcquire, Egress,
       ParkTakePermit, ParkLock, ParkTest, CondWait, CondWake, CondRelock, ParkDone, Exit, ExitDrop,
       ExitSees, ExitRetake, ExitPick, ExitTransfer, ExitSeesSucc, ExitEpilog, EpilogDrop, Unpark,
       UnparkLock, UnparkRead, UnparkSignal

LEMMA SuccessorStep ==
    ASSUME Base, Base', Lists, Successor, NEW t \in Thread, Step(t)
    PROVE  Successor'
<1> USE DEF Base
<1>0. Frame(t) /\ Writes(t)
  BY FrameStep, WritesStep
<1>1. SUFFICES ASSUME NEW s \in Thread, mon'.succ = s
               PROVE  Trying(s)' /\ (Alert(s)' \/ Coming(s)')
  <2>1. Base' => (Successor' <=> SuccessorTries')
    BY SuccessorByPlace, PTL
  <2> QED BY <2>1 DEF SuccessorTries
<1>2. mon.succ = s => Trying(s) /\ (Alert(s) \/ Coming(s))
  BY SuccessorByPlace DEF SuccessorTries
<1>3. s # t => /\ pc'[s] = pc[s] /\ call'[s] = call[s] /\ timed'[s] = timed[s]
               /\ ev'[s].Event \in {ev[s].Event, 1}
  BY <1>0 DEF Frame
\* Who is coming still comes, or has just given the permit.
<1>4. Coming(s) => Coming(s)' \/ ev'[s].Event = 1 \/ ~Trying(s)
  <2>1. SUFFICES ASSUME NEW u \in Thread, wakee[u] = s, pc[u] \in {"epilog_drop", "unpark"}
                 PROVE  Coming(s)' \/ ev'[s].Event = 1 \/ ~Trying(s)
    BY DEF Coming
  <2>2. CASE u # t
    BY <1>0, <2>1, <2>2 DEF Frame, Coming
  <2>3. CASE u = t
    <3>1. Unpark(t) \/ EpilogDrop(t)
      BY <2>1, <2>3, StepAt
    <3>2. CASE Unpark(t)
      BY <2>1, <2>3, <3>2, TypesOf DEF Unpark, EventType
    <3>3. CASE EpilogDrop(t)
      BY <2>1, <2>3, <3>3, TypesOf DEF EpilogDrop, MonitorStep, Goto, Coming
    <3> QED BY <3>1, <3>2, <3>3
  <2> QED BY <2>2, <2>3
<1>5. CASE s # t /\ mon.succ = s
  <2>1. Trying(s)' <=> Trying(s)
    BY <1>3, <1>5 DEF Trying, InLists
  <2>2. Alert(s) => Alert(s)'
    BY <1>3, <1>5 DEF Alert
  <2>3. ev'[s].Event = 1 => Alert(s)'
    BY DEF Alert
  <2> QED BY <1>2, <1>4, <1>5, <2>1, <2>2, <2>3
<1>6. CASE s = t /\ mon.succ = s
  <2>1. Trying(t)' /\ (Alert(t)' \/ Coming(t))
    BY <1>1, <1>2, <1>6, OwnSuccessor
  <2>2. ev'[s].Event = 1 => Alert(s)'
    BY DEF Alert
  <2> QED BY <1>2, <1>4, <1>6, <2>1, <2>2
<1>7. CASE mon.succ # s
  <2>1. SpinSetSucc(t) \/ ClearSucc(t) \/ ExitEpilog(t)
    BY <1>0, <1>1, <1>7 DEF Writes
  <2>2. CASE SpinSetSucc(t)
    <3>1. mon'.succ = t /\ pc'[t] \in {"spin", "abort"}
      BY <2>2, TypesOf DEF SpinSetSucc, Goto, MonType
    <3> QED BY <1>1, <3>1 DEF Trying, Alert, Spinning
  <2>3. CASE ClearSucc(t)
    BY <1>1, <2>3, TypesOf, MonitorAssumption DEF ClearSucc, MonType
  <2>4. CASE ExitEpilog(t)
    <3>1. /\ mon'.succ = mon.EntryList /\ wakee'[t] = mon.EntryList
          /\ pc[t] = "epilog" /\ pc'[t] = "epilog_drop"
      BY <2>4, TypesOf DEF ExitEpilog, Goto, MonType
    <3>2. s \in Queued
      BY <1>1, <3>1, HeadOnList DEF Lists
    <3>3. InLists(s)
      BY <3>2, QueuedByPlace
    <3>4. s # t
      BY <3>1, <3>3 DEF InLists, Waiting, Spinning, Parked
    <3>5. Trying(s)'
      BY <1>3, <3>3, <3>4 DEF Trying, InLists
    <3>6. Coming(s)'
      BY <1>1, <3>1 DEF Coming
    <3> QED BY <3>5, <3>6
  <2> QED BY <2>1, <2>2, <2>3, <2>4
<1> QED BY <1>5, <1>6, <1>7
-----------------------------------------------------------------------------
\* A thread that will try, or has a permit, goes on so while the monitor is free.
LEMMA OwnTries ==
    ASSUME Base, NEW t \in Thread, Step(t), mon.owner = NO_THREAD, mon'.owner = NO_THREAD,
           Tries(t) \/ Rests(t)
    PROVE  Tries(t)' \/ Rests(t)'
<1> USE TypesOf, MonitorAssumption DEF Base, MonType, EventType, Tries, Rests, Pushing, Spinning
<1>1. CASE Enter(t)
  BY <1>1 DEF Enter, TryLock, Goto, MonitorStep
<1>2. CASE PreSpin(t)
  BY <1>2 DEF PreSpin, TryLock, Goto, Won, MonitorStep
<1>3. CASE SpinAdmit(t)
  BY <1>3 DEF SpinAdmit, SpinFailed, Goto
<1>4. CASE SpinSetSucc(t)
  BY <1>4 DEF SpinSetSucc, Goto, MonitorStep
<1>5. CASE SpinTake(t)
  BY <1>5 DEF SpinTake, Goto, Won, MonitorStep
<1>6. CASE SpinProbe(t)
  BY <1>6 DEF SpinProbe, Goto, MonitorStep
<1>7. CASE SpinProbed(t)
  BY <1>7 DEF SpinProbed, Goto, MonitorStep
<1>8. CASE SpinAbort(t)
  BY <1>8 DEF SpinAbort, SpinFailed, Goto
<1>9. CASE ClearSucc(t)
  BY <1>9 DEF ClearSucc, Goto, Won, MonitorStep
<1>10. CASE SpinRetry(t)
  BY <1>10 DEF SpinRetry, TryLock, SpinFailed, Goto, Won
<1>11. CASE InitNode(t)
  BY <1>11 DEF InitNode, Goto, NoNode, NewEvent
<1>12. CASE PushRead(t)
  BY <1>12 DEF PushRead, Goto
<1>13. CASE PushCas(t)
  BY <1>13 DEF PushCas, Goto, MonitorStep
<1>14. CASE PushRetry(t)
  BY <1>14 DEF PushRetry, TryLock, Goto, NoNode
<1>15. CASE CheckEntryList(t)
  BY <1>15 DEF CheckEntryList, Goto, MonitorStep
<1>16. CASE BecomeResponsible(t)
  BY <1>16 DEF BecomeResponsible, Goto, MonitorStep
<1>17. CASE WaitLoop(t)
  BY <1>17 DEF WaitLoop, TryLock, Goto, MonitorStep
<1>18. CASE ChoosePark(t)
  BY <1>18 DEF ChoosePark, Goto
<1>19. CASE FutileWakeup(t)
  BY <1>19 DEF FutileWakeup, Goto, MonitorStep
<1>20. CASE UnlinkAfterAcquire(t)
  BY <1>20 DEF UnlinkAfterAcquire, Goto, NoNode
<1>21. CASE Egress(t)
  BY <1>21 DEF Egress, Goto, MonitorStep
<1>22. CASE ParkTakePermit(t)
  BY <1>22 DEF ParkTakePermit, Goto
<1>23. CASE ParkLock(t)
  BY <1>23 DEF ParkLock, Goto, EventStep
<1>24. CASE ParkTest(t)
  BY <1>24 DEF ParkTest, Goto, EventStep
<1>25. CASE CondWait(t)
  BY <1>25 DEF CondWait, Goto, EventStep
<1>26. CASE CondWake(t)
  BY <1>26 DEF CondWake, Goto, EventStep
<1>27. CASE CondRelock(t)
  BY <1>27 DEF CondRelock, Goto, EventStep
<1>28. CASE ParkDone(t)
  BY <1>28 DEF ParkDone, Goto
<1>29. CASE Exit(t)
  BY <1>29 DEF Exit, Goto
<1>30. CASE ExitDrop(t)
  BY <1>30 DEF ExitDrop, Goto, MonitorStep
<1>31. CASE ExitSees(t)
  BY <1>31 DEF ExitSees, Goto, MonitorStep
<1>32. CASE ExitRetake(t)
  BY <1>32 DEF ExitRetake, TryLock, Goto, MonitorStep
<1>33. CASE ExitPick(t)
  BY <1>33 DEF ExitPick, Goto
<1>34. CASE ExitTransfer(t)
  BY <1>34 DEF ExitTransfer, Goto
<1>35. CASE ExitSeesSucc(t)
  BY <1>35 DEF ExitSeesSucc, Goto, MonitorStep
<1>36. CASE ExitEpilog(t)
  BY <1>36 DEF ExitEpilog, Goto
<1>37. CASE EpilogDrop(t)
  BY <1>37 DEF EpilogDrop, Goto, MonitorStep
<1>38. CASE Unpark(t)
  BY <1>38 DEF Unpark, UnparkReturns, Goto
<1>39. CASE UnparkLock(t)
  BY <1>39 DEF UnparkLock, Goto, EventStep
<1>40. CASE UnparkRead(t)
  BY <1>40 DEF UnparkRead, UnparkReturns, Goto
<1>41. CASE UnparkSignal(t)
  BY <1>41 DEF UnparkSignal, UnparkReturns, Goto
<1> QED BY <1>1, <1>2, <1>3, <1>4, <1>5, <1>6, <1>7, <1>8, <1>9, <1>10, <1>11, <1>12, <1>13, <1>14, <1>15, <1>16, <1>17, <1>18, <1>19, <1>20, <1>21, <1>22, <1>23, <1>24, <1>25, <1>26, <1>27, <1>28, <1>29, <1>30, <1>31, <1>32, <1>33, <1>34, <1>35, <1>36, <1>37, <1>38, <1>39, <1>40, <1>41 DEF Step

LEMMA AttendedStep ==
    ASSUME Base, Base', Lists, Lists', Successor, Attended, NEW t \in Thread, Step(t)
    PROVE  Attended'
<1> USE DEF Base
<1>0. Frame(t) /\ Writes(t)
  BY FrameStep, WritesStep
<1>1. SUFFICES ASSUME mon'.owner = NO_THREAD, Queued' # {}
               PROVE  \E w \in Thread : Cares(w)'
  BY DEF Attended
<1>2. \A u \in Thread : (u \in Queued <=> InLists(u)) /\ (u \in Queued' <=> InLists(u)')
  <2>1. Base' => (QueuedArePlaced)'
    BY QueuedPlaced, PTL
  <2> QED BY <2>1, QueuedByPlace DEF QueuedArePlaced
<1>3. \A u \in Thread \ {t} : InLists(u)' <=> InLists(u)
  BY <1>0 DEF Frame, InLists
<1>4. CASE ExitDrop(t)
  <2>1. pc'[t] = "see_entry"
    BY <1>4, TypesOf DEF ExitDrop, Goto
  <2> QED BY <2>1 DEF Cares, Looks
<1>5. CASE EpilogDrop(t)
  <2>1. pc[t] = "epilog_drop" /\ pc'[t] = "unpark" /\ wakee'[t] = wakee[t]
    BY <1>5, TypesOf DEF EpilogDrop, MonitorStep, Goto
  <2>2. wakee[t] = mon.EntryList /\ wakee[t] \in Thread
    BY <2>1, TypesOf DEF Threads, Local, Waking, Ref
  <2>3. wakee[t] \in Queued
    BY <2>2, HeadOnList DEF Lists
  <2>4. wakee[t] # t
    BY <1>2, <2>1, <2>2, <2>3 DEF InLists, Waiting, Spinning, Parked
  <2>5. wakee[t] \in Queued'
    BY <1>2, <1>3, <2>2, <2>3, <2>4
  <2> QED BY <2>1, <2>5 DEF Cares
<1>6. CASE mon.owner = NO_THREAD
  <2>1. pc[t] \notin Owning
    BY <1>6, MonitorAssumption DEF MutualExclusion, Owning
  <2>2. CASE Queued = {}
    <3>1. PICK q \in Queued' : TRUE
      BY <1>1
    <3>2. q = t /\ PushCas(t)
      BY <1>0, <1>2, <1>3, <2>2, <3>1 DEF Writes, Queued
    <3>3. InLists(t)'
      BY <1>2, <3>1, <3>2 DEF Queued
    <3>4. pc'[t] \in {"check_entry", "loop", "push_retry"}
      BY <3>2, TypesOf DEF PushCas, Goto
    <3> QED BY <3>4 DEF Cares, Tries, Pushing
  <2>3. CASE mon.succ \in Thread
    <3>1. CASE mon'.succ = mon.succ
      BY <2>3, <3>1 DEF Cares
    <3>2. CASE SpinSetSucc(t)
      <4>1. pc'[t] \in {"spin", "abort"}
        BY <3>2, TypesOf DEF SpinSetSucc, Goto
      <4> QED BY <4>1 DEF Cares, Tries, Spinning
    <3>3. CASE ClearSucc(t)
      <4>1. pc'[t] \in {"retry", "loop"}
        BY <2>1, <3>3, TypesOf DEF ClearSucc, Goto, Owning
      <4> QED BY <4>1 DEF Cares, Tries, Spinning
    <3>4. CASE ExitEpilog(t)
      BY <2>1, <3>4 DEF ExitEpilog, Owning
    <3> QED BY <1>0, <3>1, <3>2, <3>3, <3>4 DEF Writes
  <2>4. CASE Queued # {} /\ mon.succ \notin Thread
    <3>1. PICK w \in Thread : Cares(w)
      BY <1>6, <2>4 DEF Attended
    <3>2. CASE w = t /\ (Tries(w) \/ Rests(w))
      BY <1>1, <1>6, <3>2, OwnTries DEF Cares
    <3>3. CASE w # t /\ (Tries(w) \/ Rests(w))
      <4>1. pc'[w] = pc[w] /\ ev'[w].Event \in {ev[w].Event, 1}
        BY <1>0, <3>3 DEF Frame
      <4> QED BY <3>3, <4>1 DEF Cares, Tries, Rests
    <3>4. CASE w # t /\ Looks(w)
      <4>1. pc'[w] = pc[w] /\ (mon'.cxq = mon.cxq \/ mon'.cxq = t)
        BY <1>0, <2>1, <3>4 DEF Frame, Writes, Owning
      <4> QED BY <3>4, <4>1, MonitorAssumption DEF Cares, Looks
    <3>5. CASE w = t /\ Looks(w)
      <4>1. CASE ExitRetake(t)
        BY <1>1, <1>6, <4>1, TypesOf, MonitorAssumption DEF ExitRetake, TryLock, MonType
      <4>2. CASE ExitSees(t)
        <5>1. mon.succ = NO_THREAD /\ mon' = mon
          BY <2>4, <4>2, TypesOf DEF ExitSees, MonType, Ref
        <5>2. mon.EntryList = NO_THREAD => mon.cxq # NO_THREAD
          BY <1>6, <2>4, EmptyList DEF Lists, Moving
        <5>3. pc'[t] \in {"see_succ", "retake"} \/ (pc'[t] = "see_cxq" /\ mon.cxq # NO_THREAD)
          BY <3>5, <4>2, <5>1, <5>2, TypesOf DEF ExitSees, Goto, Looks
        <5> QED BY <5>1, <5>3 DEF Cares, Looks
      <4> QED BY <3>5, <4>1, <4>2, StepAt DEF Looks
    <3>6. CASE w # t /\ pc[w] = "unpark" /\ wakee[w] \in Queued
      <4>1. pc'[w] = pc[w] /\ wakee'[w] = wakee[w]
        BY <1>0, <3>6 DEF Frame
      <4>2. wakee[w] \in Queued'
        BY <1>0, <1>2, <1>3, <2>1, <3>6 DEF Writes, Owning, Queued
      <4> QED BY <3>6, <4>1, <4>2 DEF Cares
    <3>7. CASE w = t /\ pc[w] = "unpark" /\ wakee[w] \in Queued
      <4>1. PICK q \in Thread : q = wakee[t] /\ InLists(q) /\ Unpark(t)
        BY <1>2, <3>7, StepAt DEF Queued
      <4>2. q # t
        BY <3>7, <4>1 DEF InLists, Waiting, Spinning, Parked
      <4>3. ev'[q].Event = 1 /\ pc'[q] = pc[q]
        BY <1>0, <4>1, <4>2, TypesOf DEF Unpark, EventType, Frame
      <4>4. pc[q] \notin Owning
        BY <1>6, <4>1, MonitorAssumption DEF MutualExclusion, Owning
      <4>5. Tries(q)' \/ Rests(q)'
        BY <4>1, <4>3, <4>4 DEF InLists, Waiting, Spinning, Parked, Owning, Tries, Rests
      <4> QED BY <4>1, <4>5 DEF Cares
    <3> QED BY <2>4, <3>1, <3>2, <3>3, <3>4, <3>5, <3>6, <3>7 DEF Cares
  <2> QED BY <2>2, <2>3, <2>4
<1> QED BY <1>0, <1>1, <1>4, <1>5, <1>6 DEF Writes
-----------------------------------------------------------------------------
\* The invariant holds after jvm_init_locks, with no thread in the monitor.
LEMMA MonInit == Init => MonInv
<1> SUFFICES ASSUME Init PROVE MonInv
  OBVIOUS
<1>1. TypeOK
  <2>1. mon \in MonType /\ node \in [Thread -> NodeType]
    BY DEF Init, MonType, NodeType, NoNode, Ref
  <2>2. NewEvent \in EventType
    <3>1. 0 \in -1..1 /\ 0 \in 0..1
      OBVIOUS
    <3> QED BY <3>1 DEF NewEvent, EventType
  <2>3. ev \in [Thread -> EventType]
    BY <2>2 DEF Init
  <2>4. pc \in [Thread -> Labels]
    BY DEF Init, Labels
  <2>5. /\ call \in [Thread -> {"early", "enterI", "futile"}]
        /\ timed \in [Thread -> BOOLEAN] /\ wakee \in [Thread -> Ref] /\ reinit \in BOOLEAN
    BY DEF Init, Ref
  <2> QED BY <2>1, <2>3, <2>4, <2>5 DEF TypeOK, MonType, NodeType, EventType, Ref
<1>2. MutualExclusion
  BY MonitorAssumption DEF Init, MutualExclusion
<1>3. Threads
  <2>1. ASSUME NEW t \in Thread PROVE Local(t)
    <3>1. /\ pc[t] = "idle" /\ call[t] = "early" /\ wakee[t] = NO_THREAD
          /\ node[t].TState = "TS_UNDEF"
      BY DEF Init, NoNode
    <3>2. ev[t].Event = 0 /\ ev[t].nParked = 0 /\ ~ev[t].signalled
      BY DEF Init, NewEvent
    <3>3. pc[t] \notin Leaving \cup Waking \cup Pushing \cup Waiting \cup Parked \cup Spinning
      BY <3>1 DEF Leaving, Waking, Pushing, Waiting, Parked, Spinning
    <3>4. ev[t].nParked = IF pc[t] \in Parked THEN 1 ELSE 0
      BY <3>2, <3>3
    <3>5. ~(ev[t].Event < 0)
      BY <3>2
    <3> QED BY <3>1, <3>2, <3>3, <3>4, <3>5 DEF Local
  <2> QED BY <2>1 DEF Threads
<1>4. Queued = {}
  BY DEF Init, Queued, NoNode
<1>5. Moving = NO_THREAD
  BY DEF Init, Moving
<1>6. OnList(node, NO_THREAD) = {}
  BY EmptyList
<1>7. Lists
  BY <1>4, <1>5, <1>6 DEF Init, Lists, Simple, DoublyLinked
<1>8. Mutexes /\ Permits
  BY DEF Init, Mutexes, Permits, HoldsMutex
<1>9. Successor
  BY MonitorAssumption DEF Init, Successor
<1>10. Attended
  BY <1>4 DEF Attended
<1> QED BY <1>1, <1>2, <1>3, <1>7, <1>8, <1>9, <1>10 DEF MonInv, Base

\* Every step of a thread keeps the invariant, one lemma per conjunct.
LEMMA MonStep == MonInv /\ [Next]_vars => MonInv'
<1> SUFFICES ASSUME MonInv, [Next]_vars PROVE MonInv'
  OBVIOUS
<1>1. ASSUME NEW t \in Thread, Step(t) PROVE MonInv'
  <2>1. TypeOK' /\ MutualExclusion'
    BY <1>1, TypeStep, MutexStep DEF MonInv, Base
  <2>2. Threads'
    BY <1>1, LocalStep DEF MonInv, Base, Threads
  <2>3. Base'
    BY <2>1, <2>2 DEF Base
  <2>4. Lists'
    BY <1>1, <2>3, ListsStep DEF MonInv
  <2>5. Mutexes' /\ Permits'
    BY <1>1, <2>3, MutexesStep, PermitsStep DEF MonInv
  <2>6. Successor'
    BY <1>1, <2>3, SuccessorStep DEF MonInv
  <2>7. Attended'
    BY <1>1, <2>3, <2>4, AttendedStep DEF MonInv
  <2> QED BY <2>3, <2>4, <2>5, <2>6, <2>7 DEF MonInv
<1>2. CASE UNCHANGED vars
  <2> USE <1>2 DEF vars
  <2>1. Base'
    BY DEF MonInv, Base, TypeOK, MutualExclusion, Threads, Local
  <2>2. Queued' = Queued /\ Moving' = Moving
    BY DEF Queued, Moving
  <2>3. Lists'
    BY <2>2 DEF MonInv, Lists
  <2>4. Mutexes' /\ Permits'
    BY DEF MonInv, Mutexes, Permits, Told
  <2>5. Successor' /\ Attended'
    BY <2>2 DEF MonInv, Successor, Awake, Attended, Cares, Tries, Looks, Rests
  <2> QED BY <2>1, <2>3, <2>4, <2>5 DEF MonInv
<1> QED BY <1>1, <1>2 DEF Next

\* The invariant of this module holds in every state.
THEOREM MonitorInvariant == Spec => []MonInv
BY MonInit, MonStep, PTL DEF Spec

\* The fields keep their ranges: in particular _Event stays within -1..1 and
\* _nParked within 0..1, the guarantees that park asserts.
THEOREM MonitorTypeCorrect == Spec => []TypeOK
<1>1. MonInv => TypeOK
  BY DEF MonInv, Base
<1> QED BY <1>1, MonitorInvariant, PTL

\* One owner: _owner names exactly the thread between a successful attempt and the
\* store that drops the monitor.
THEOREM MonitorOneOwner == Spec => []MutualExclusion
<1>1. MonInv => MutualExclusion
  BY DEF MonInv, Base
<1> QED BY <1>1, MonitorInvariant, PTL

\* Every waiter is on exactly one of cxq and EntryList, with the TState that says
\* which, and EntryList is doubly linked, for any number of threads pushing at once.
THEOREM MonitorWaitersOnOneList == Spec => []WaitersOnOneList
<1>1. ASSUME MonInv PROVE WaitersOnOneList
  <2> USE <1>1 DEF MonInv, Base
  <2> DEFINE moving == {OnList(node, wakee[t]) : t \in {u \in Thread : pc[u] = "transfer"}}
  <2>1. UNION moving = OnList(node, Moving)
    <3>1. CASE \E u \in Thread : pc[u] = "transfer"
      <4>1. PICK u \in Thread : pc[u] = "transfer"
        BY <3>1
      <4>2. mon.owner = u /\ \A v \in Thread : pc[v] = "transfer" => v = u
        BY <4>1 DEF MutualExclusion
      <4>3. Moving = wakee[u]
        BY <4>1, <4>2, MonitorAssumption DEF Moving
      <4>4. moving = {OnList(node, wakee[u])}
        BY <4>1, <4>2
      <4> QED BY <4>3, <4>4
    <3>2. CASE \A u \in Thread : pc[u] # "transfer"
      <4>1. moving = {}
        BY <3>2
      <4>2. Moving = NO_THREAD
        BY <3>2, ListFacts DEF Moving, Ref
      <4> QED BY <4>1, <4>2, EmptyList
    <3> QED BY <3>1, <3>2
  <2> HIDE DEF moving
  <2>2. /\ OnList(node, mon.cxq) \cup (UNION moving) \cup OnList(node, mon.EntryList) = Queued
        /\ \A n \in OnList(node, mon.cxq) \cup (UNION moving) : node[n].TState = "TS_CXQ"
    BY <2>1 DEF Lists, OnCxq
  <2>3. DoublyLinked(node, mon.EntryList)
    BY DEF Lists
  <2> QED BY <2>2, <2>3 DEF WaitersOnOneList, DoublyLinked, moving
<1> QED BY <1>1, MonitorInvariant, PTL

\* What UnlinkAfterAcquire asserts holds when it is called: the caller owns the
\* monitor; a node in state TS_ENTER has neighbours in that state; any other node is
\* in state TS_CXQ and is found on cxq, behind exactly one node unless it is the head.
\* (The node's _thread, which is never changed, is not in the model.)
UnlinkAsserts ==
    \A t \in Thread : pc[t] = "unlink" =>
        /\ mon.owner = t
        /\ node[t].TState = "TS_ENTER" =>
              \A n \in {node[t].next, node[t].prev} \ {NO_THREAD} : node[n].TState = "TS_ENTER"
        /\ node[t].TState # "TS_ENTER" =>
              /\ node[t].TState = "TS_CXQ"
              /\ t \in OnList(node, mon.cxq)
              /\ t # mon.cxq => \E q \in OnList(node, mon.cxq) :
                    \A p \in OnList(node, mon.cxq) : node[p].next = t <=> p = q

\* The assertions of UnlinkAfterAcquire never fail.
THEOREM MonitorUnlinkAsserts == Spec => []UnlinkAsserts
<1>1. ASSUME MonInv PROVE UnlinkAsserts
  <2> USE <1>1 DEF MonInv, Base
  <2> DEFINE C == OnList(node, mon.cxq)
             E == OnList(node, mon.EntryList)
  <2>1. SUFFICES ASSUME NEW t \in Thread, pc[t] = "unlink"
                 PROVE  /\ mon.owner = t
                        /\ node[t].TState = "TS_ENTER" =>
                              \A n \in {node[t].next, node[t].prev} \ {NO_THREAD} :
                                 node[n].TState = "TS_ENTER"
                        /\ node[t].TState # "TS_ENTER" =>
                              /\ node[t].TState = "TS_CXQ"
                              /\ t \in C
                              /\ t # mon.cxq => \E q \in C : \A p \in C : node[p].next = t <=> p = q
    BY DEF UnlinkAsserts
  <2>2. mon.owner = t
    BY <2>1 DEF MutualExclusion
  <2>3. Moving = NO_THREAD
    BY <2>1, <2>2 DEF Moving
  <2>4. t \in Queued
    BY <2>1 DEF Queued, Threads, Local, Waiting
  <2>5. t \in C \cup E
    BY <2>3, <2>4, EmptyList DEF Lists
  <2>6. \A n \in Thread : node[n].next \in Ref
    BY ListFacts
  <2>7. mon.cxq \in Ref /\ mon.EntryList \in Ref
    BY ListFacts
  <2>8. ASSUME t \in E, NEW n \in {node[t].next, node[t].prev} \ {NO_THREAD}
        PROVE  node[n].TState = "TS_ENTER"
    <3>1. ClosedList(node, mon.EntryList, E)
      BY <2>6, <2>7, ListIsClosed
    <3>2. node[t].prev \in E \cup {NO_THREAD}
      BY <2>6, <2>7, <2>8, DoublyLinkedSimple DEF Lists
    <3>3. n \in E
      BY <2>8, <3>1, <3>2 DEF ClosedList
    <3> QED BY <3>3 DEF Lists, DoublyLinked
  <2>9. ASSUME t \in C, t # mon.cxq
        PROVE  \E q \in C : \A p \in C : node[p].next = t <=> p = q
    <3>1. PICK q \in C : node[q].next = t
      BY <2>6, <2>7, <2>9, HasPredecessor
    <3>2. t # NO_THREAD
      BY MonitorAssumption
    <3>3. \A p \in C : node[p].next = t <=> p = q
      BY <3>1, <3>2 DEF Lists, Simple
    <3> QED BY <3>3
  <2>10. (t \in C => node[t].TState = "TS_CXQ") /\ (t \in E => node[t].TState = "TS_ENTER")
    BY DEF Lists, OnCxq, DoublyLinked
  <2> QED BY <2>2, <2>5, <2>8, <2>9, <2>10
<1> QED BY <1>1, MonitorInvariant, PTL

\* A sleeper with a permit is not stranded, and neither is one that an unparker is
\* still coming to.
LEMMA NotStranded ==
    ASSUME MonInv, ~reinit, NEW s \in Thread, ev[s].Event = 1 \/ Coming(s) \/ timed[s]
    PROVE  ~Stranded(s)
<1>1. CASE ev[s].Event = 1
  <2>1. pc[s] \in {"cond_wait", "asleep"} => Told(s)
    BY <1>1 DEF MonInv, Permits
  <2> QED BY <2>1 DEF Stranded, Told
<1>2. CASE Coming(s)
  BY <1>2 DEF Stranded, Coming
<1>3. CASE timed[s]
  BY <1>3 DEF Stranded
<1> QED BY <1>1, <1>2, <1>3

\* The invariant's Successor, in the terms of SuccessorIsTrying.
LEMMA SuccessorFacts ==
    ASSUME MonInv, ~reinit, NEW s \in Thread, mon.succ = s
    PROVE  /\ ~Stranded(s)
           /\ s \in Queued \/ pc[s] \in {"spin", "probed", "spun", "abort", "aborted", "unlinked"}
<1>1. Trying(s) /\ (Alert(s) \/ Coming(s))
  BY SuccessorByPlace DEF MonInv, SuccessorTries
<1>2. s \in Queued \/ pc[s] \in {"spin", "probed", "spun", "abort", "aborted", "unlinked"}
  BY DEF MonInv, Successor
<1>3. CASE ev[s].Event = 1 \/ Coming(s) \/ timed[s]
  BY <1>2, <1>3, NotStranded
<1>4. CASE pc[s] \in Spinning \cup {"unsucc", "unsucc_store", "unlink", "unlinked",
                                    "relock_timeout", "park_done"}
  BY <1>2, <1>4 DEF Stranded, Spinning
<1> QED BY <1>1, <1>3, <1>4 DEF Alert

\* As long as no event was initialised with its mutex held, _succ names a thread that
\* is queued or spinning and does not sleep for good: the exiting thread that sees a
\* successor may leave without waking anybody.
THEOREM MonitorSuccessorIsTrying == Spec => []SuccessorIsTrying
<1>1. ASSUME MonInv PROVE SuccessorIsTrying
  <2>1. mon.succ \in Ref
    BY <1>1, TypesOf DEF MonInv, Base, MonType
  <2> QED BY <1>1, <2>1, SuccessorFacts DEF SuccessorIsTrying, Ref
<1> QED BY <1>1, MonitorInvariant, PTL

\* As long as no event was initialised with its mutex held, a free monitor with
\* waiters is never left with everybody outside or asleep for good: no wake-up is
\* lost between the three reads of Exit, the late stores to _succ and the parking.
THEOREM MonitorNoWaiterForgotten == Spec => []NoWaiterForgottenUnlessReinit
<1>1. ASSUME MonInv PROVE NoWaiterForgottenUnlessReinit
  <2>1. SUFFICES ASSUME ~reinit, mon.owner = NO_THREAD, Queued # {}
                 PROVE  \E t \in Thread : pc[t] # "idle" /\ ~Stranded(t)
    BY DEF NoWaiterForgottenUnlessReinit, NoWaiterForgotten
  <2>2. PICK t \in Thread : Cares(t)
    BY <1>1, <2>1 DEF MonInv, Attended
  <2>3. CASE Tries(t)
    BY <2>3 DEF Tries, Spinning, Pushing, Stranded
  <2>4. CASE Looks(t) \/ pc[t] = "unpark"
    BY <2>4 DEF Looks, Stranded
  <2>5. CASE Rests(t)
    <3>1. ~Stranded(t)
      BY <1>1, <2>1, <2>5, NotStranded DEF Rests
    <3> QED BY <2>5, <3>1 DEF Rests
  <2>6. CASE mon.succ = t
    <3>1. ~Stranded(t) /\ pc[t] # "idle"
      BY <1>1, <2>1, <2>6, SuccessorFacts, QueuedByPlace DEF MonInv, InLists, Waiting, Spinning, Parked
    <3> QED BY <3>1
  <2> QED BY <2>2, <2>3, <2>4, <2>5, <2>6 DEF Cares
<1> QED BY <1>1, MonitorInvariant, PTL

-----------------------------------------------------------------------------
\* The thread that is responsible is in the part of EnterI that ends by clearing
\* the field: it is queued, or has the monitor and is about to return.
InEnterI(t) == pc[t] \in Waiting \cup Spinning \cup {"unlinked", "egress"} /\ call[t] = "futile"

Responsibility == \A t \in Thread : mon.Responsible = t => InEnterI(t)

\* A step makes at most its own thread responsible.
LEMMA OwnResponsibility ==
    ASSUME Base, NEW t \in Thread, Step(t), mon.Responsible = t => InEnterI(t)
    PROVE  /\ mon'.Responsible \in {mon.Responsible, NO_THREAD, t}
           /\ mon'.Responsible = t => InEnterI(t)'
<1> USE TypesOf, MonitorAssumption DEF Base, MonType, InEnterI, Waiting, Spinning, Parked
<1>1. CASE Enter(t)
  BY <1>1 DEF Enter, TryLock, Goto, MonitorStep
<1>2. CASE PreSpin(t)
  BY <1>2 DEF PreSpin, TryLock, Goto, Won, MonitorStep
<1>3. CASE SpinAdmit(t)
  BY <1>3 DEF SpinAdmit, SpinFailed, Goto
<1>4. CASE SpinSetSucc(t)
  BY <1>4 DEF SpinSetSucc, Goto, MonitorStep
<1>5. CASE SpinTake(t)
  BY <1>5 DEF SpinTake, Goto, Won, MonitorStep
<1>6. CASE SpinProbe(t)
  BY <1>6 DEF SpinProbe, Goto, MonitorStep
<1>7. CASE SpinProbed(t)
  BY <1>7 DEF SpinProbed, Goto, MonitorStep
<1>8. CASE SpinAbort(t)
  BY <1>8 DEF SpinAbort, SpinFailed, Goto
<1>9. CASE ClearSucc(t)
  BY <1>9 DEF ClearSucc, Goto, Won, MonitorStep
<1>10. CASE SpinRetry(t)
  BY <1>10 DEF SpinRetry, TryLock, SpinFailed, Goto, Won
<1>11. CASE InitNode(t)
  BY <1>11 DEF InitNode, Goto, NoNode, NewEvent
<1>12. CASE PushRead(t)
  BY <1>12 DEF PushRead, Goto
<1>13. CASE PushCas(t)
  BY <1>13 DEF PushCas, Goto, MonitorStep
<1>14. CASE PushRetry(t)
  BY <1>14 DEF PushRetry, TryLock, Goto, NoNode
<1>15. CASE CheckEntryList(t)
  BY <1>15 DEF CheckEntryList, Goto, MonitorStep
<1>16. CASE BecomeResponsible(t)
  <2>1. call[t] = "futile"
    BY <1>16 DEF BecomeResponsible, Threads, Local
  <2> QED BY <1>16, <2>1 DEF BecomeResponsible, Goto, MonitorStep
<1>17. CASE WaitLoop(t)
  BY <1>17 DEF WaitLoop, TryLock, Goto, MonitorStep
<1>18. CASE ChoosePark(t)
  BY <1>18 DEF ChoosePark, Goto
<1>19. CASE FutileWakeup(t)
  BY <1>19 DEF FutileWakeup, Goto, MonitorStep
<1>20. CASE UnlinkAfterAcquire(t)
  BY <1>20 DEF UnlinkAfterAcquire, Goto, NoNode
<1>21. CASE Egress(t)
  BY <1>21 DEF Egress, Goto, MonitorStep
<1>22. CASE ParkTakePermit(t)
  BY <1>22 DEF ParkTakePermit, Goto
<1>23. CASE ParkLock(t)
  BY <1>23 DEF ParkLock, Goto, EventStep
<1>24. CASE ParkTest(t)
  BY <1>24 DEF ParkTest, Goto, EventStep
<1>25. CASE CondWait(t)
  BY <1>25 DEF CondWait, Goto, EventStep
<1>26. CASE CondWake(t)
  BY <1>26 DEF CondWake, Goto, EventStep
<1>27. CASE CondRelock(t)
  BY <1>27 DEF CondRelock, Goto, EventStep
<1>28. CASE ParkDone(t)
  BY <1>28 DEF ParkDone, Goto
<1>29. CASE Exit(t)
  BY <1>29 DEF Exit, Goto
<1>30. CASE ExitDrop(t)
  BY <1>30 DEF ExitDrop, Goto, MonitorStep
<1>31. CASE ExitSees(t)
  BY <1>31 DEF ExitSees, Goto, MonitorStep
<1>32. CASE ExitRetake(t)
  BY <1>32 DEF ExitRetake, TryLock, Goto, MonitorStep
<1>33. CASE ExitPick(t)
  BY <1>33 DEF ExitPick, Goto
<1>34. CASE ExitTransfer(t)
  BY <1>34 DEF ExitTransfer, Goto
<1>35. CASE ExitSeesSucc(t)
  BY <1>35 DEF ExitSeesSucc, Goto, MonitorStep
<1>36. CASE ExitEpilog(t)
  BY <1>36 DEF ExitEpilog, Goto
<1>37. CASE EpilogDrop(t)
  BY <1>37 DEF EpilogDrop, Goto, MonitorStep
<1>38. CASE Unpark(t)
  BY <1>38 DEF Unpark, UnparkReturns, Goto
<1>39. CASE UnparkLock(t)
  BY <1>39 DEF UnparkLock, Goto, EventStep
<1>40. CASE UnparkRead(t)
  BY <1>40 DEF UnparkRead, UnparkReturns, Goto
<1>41. CASE UnparkSignal(t)
  BY <1>41 DEF UnparkSignal, UnparkReturns, Goto
<1> QED BY <1>1, <1>2, <1>3, <1>4, <1>5, <1>6, <1>7, <1>8, <1>9, <1>10, <1>11, <1>12, <1>13, <1>14, <1>15, <1>16, <1>17, <1>18, <1>19, <1>20, <1>21, <1>22, <1>23, <1>24, <1>25, <1>26, <1>27, <1>28, <1>29, <1>30, <1>31, <1>32, <1>33, <1>34, <1>35, <1>36, <1>37, <1>38, <1>39, <1>40, <1>41 DEF Step

LEMMA ResponsibilityStep ==
    ASSUME Base, Responsibility, NEW t \in Thread, Step(t)
    PROVE  Responsibility'
<1>1. /\ mon'.Responsible \in {mon.Responsible, NO_THREAD, t}
      /\ mon'.Responsible = t => InEnterI(t)'
  BY OwnResponsibility DEF Responsibility
<1>2. Frame(t)
  BY FrameStep
<1>3. SUFFICES ASSUME NEW s \in Thread, mon'.Responsible = s, s # t
               PROVE  InEnterI(s)'
  BY <1>1 DEF Responsibility
<1>4. mon.Responsible = s
  BY <1>1, <1>3, MonitorAssumption
<1>5. pc'[s] = pc[s] /\ call'[s] = call[s]
  BY <1>2, <1>3 DEF Frame
<1> QED BY <1>4, <1>5 DEF Responsibility, InEnterI

\* The assertions of EnterI on _succ, _owner and _Responsible never fail: the late
\* stores to _succ by spinning threads and by the exiting owner name only threads
\* that clear the field again before they stop trying, and whoever becomes
\* responsible stays in EnterI until the field is cleared.
THEOREM MonitorEnterIAssertions == Spec => []EnterIAssertions
<1>1. Init => Responsibility
  BY MonitorAssumption DEF Init, Responsibility
<1>2. ASSUME MonInv, Responsibility, [Next]_vars PROVE Responsibility'
  <2>1. CASE UNCHANGED vars
    BY <1>2, <2>1 DEF vars, Responsibility, InEnterI
  <2>2. ASSUME NEW t \in Thread, Step(t) PROVE Responsibility'
    BY <1>2, <2>2, ResponsibilityStep DEF MonInv
  <2> QED BY <1>2, <2>1, <2>2 DEF Next
<1>3. ASSUME MonInv, Responsibility PROVE EnterIAssertions
  <2>1. SUFFICES ASSUME NEW t \in Thread
                 PROVE  /\ pc[t] \in {"init", "egress", "locked"} => mon.succ # t
                        /\ pc[t] = "init" => mon.owner # t
                        /\ pc[t] \in {"init", "locked"} => mon.Responsible # t
    BY DEF EnterIAssertions
  <2>2. mon.succ = t => Trying(t)
    BY <1>3, SuccessorByPlace DEF MonInv, SuccessorTries
  <2>3. pc[t] \in {"init", "egress", "locked"} => ~Trying(t)
    BY DEF Trying, InLists, Waiting, Spinning, Parked
  <2>4. pc[t] = "init" => mon.owner # t
    BY <1>3 DEF MonInv, Base, MutualExclusion
  <2>5. pc[t] \in {"init", "locked"} => mon.Responsible # t
    BY <1>3 DEF Responsibility, InEnterI, Waiting, Spinning, Parked
  <2> QED BY <2>2, <2>3, <2>4, <2>5
<1> QED BY <1>1, <1>2, <1>3, MonitorInvariant, PTL DEF Spec
=============================================================================
