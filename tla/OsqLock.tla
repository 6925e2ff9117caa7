------------------------------ MODULE OsqLock ------------------------------
(***************************************************************************)
(* ext/linux/osq_lock.h.  An MCS queue whose waiters may give up: a thread *)
(* that has polled its node too often takes it out of the queue again,     *)
(* while its neighbours may be unlocking, queueing or giving up as well.   *)
(* Nodes are static, one per thread, and are named by their thread.        *)
(***************************************************************************)
EXTENDS Integers, FiniteSets

CONSTANTS
    N,            \* number of threads
    MAX_UNQUEUES  \* how often a thread gives up during one acquisition

Threads == 0..(N - 1)
NULL == -1

ASSUME OsqAssumption == N \in Nat \ {0} /\ MAX_UNQUEUES \in Nat

VARIABLES
    tail,     \* global_osq.tail: an encoded CPU
    next,     \* next[t]: node t's next field
    prev,     \* prev[t]: node t's prev field
    locked,   \* locked[t]: node t's locked field
    cpu,      \* cpu[t]: node t's cpu field
    pc,       \* where each thread is
    myprev,   \* myprev[t]: local variable prev, NULL once it is of no use
    mynext,   \* mynext[t]: local variable next, NULL once it is of no use
    unqueues  \* unqueues[t]: times the current acquisition has given up

vars == <<tail, next, prev, locked, cpu, pc, myprev, mynext, unqueues>>

OSQ_UNLOCKED_VAL == 0
encode_cpu(t) == t + 1

\* Mutant: the offset of the encoding is not taken back.
cpu_to_nodeNoOffset(c) == c

cpu_to_node(c) == c - 1

\* osq_lock_init clears the tail and the node pool.
Init ==
    /\ tail = OSQ_UNLOCKED_VAL
    /\ next = [t \in Threads |-> NULL]
    /\ prev = [t \in Threads |-> NULL]
    /\ locked = [t \in Threads |-> 0]
    /\ cpu = [t \in Threads |-> 0]
    /\ pc = [t \in Threads |-> "idle"]
    /\ myprev = [t \in Threads |-> NULL]
    /\ mynext = [t \in Threads |-> NULL]
    /\ unqueues = [t \in Threads |-> 0]

Goto(t, l) == pc' = [pc EXCEPT ![t] = l]

-----------------------------------------------------------------------------
\* osq_lock: initialise the node.  Of the three stores only the one to next can
\* be seen by others, so they are one step.
InitNode(t) ==
    /\ locked' = [locked EXCEPT ![t] = 0]
    /\ next' = [next EXCEPT ![t] = NULL]
    /\ cpu' = [cpu EXCEPT ![t] = encode_cpu(t)]
    /\ Goto(t, "xchg")
    /\ UNCHANGED <<tail, prev, myprev, mynext>>

\* osq_lock_acquire: the first attempt, and another one after the back-off.
LockStart(t) ==
    /\ pc[t] = "idle"
    /\ unqueues' = [unqueues EXCEPT ![t] = 0]
    /\ InitNode(t)

LockRetry(t) ==
    /\ pc[t] = "backoff"
    /\ UNCHANGED unqueues
    /\ InitNode(t)

\* Put our CPU into the tail.  Nobody reads node->prev before the node is
\* linked, so its store is part of the step.
XchgTail(t) ==
    /\ pc[t] = "xchg"
    /\ tail' = encode_cpu(t)
    /\ IF tail = OSQ_UNLOCKED_VAL
       THEN Goto(t, "locked") /\ UNCHANGED <<prev, myprev>>
       ELSE /\ Goto(t, "link")
            /\ myprev' = [myprev EXCEPT ![t] = cpu_to_node(tail)]
            /\ prev' = [prev EXCEPT ![t] = cpu_to_node(tail)]
    /\ UNCHANGED <<next, locked, cpu, mynext, unqueues>>

\* WRITE_ONCE(prev->next, node)
Link(t) ==
    /\ pc[t] = "link"
    /\ next' = [next EXCEPT ![myprev[t]] = t]
    /\ Goto(t, "spin")
    /\ UNCHANGED <<tail, prev, locked, cpu, myprev, mynext, unqueues>>

HaveLock(t) ==
    /\ Goto(t, "locked")
    /\ myprev' = [myprev EXCEPT ![t] = NULL]

\* The loop on node->locked ...
Spin(t) ==
    /\ pc[t] = "spin"
    /\ locked[t] = 1
    /\ HaveLock(t)
    /\ UNCHANGED <<tail, next, prev, locked, cpu, mynext, unqueues>>

\* ... and its end when back_off exceeds unqueue_retry.
GiveUp(t) ==
    /\ pc[t] = "spin"
    /\ locked[t] = 0
    /\ unqueues[t] < MAX_UNQUEUES
    /\ unqueues' = [unqueues EXCEPT ![t] = @ + 1]
    /\ Goto(t, "A_next")
    /\ UNCHANGED <<tail, next, prev, locked, cpu, myprev, mynext>>

\* Step A: undo our prev->next.  The load before the cmpxchg fails only where
\* the cmpxchg would.
StepA(t) ==
    /\ pc[t] = "A_next"
    /\ IF next[myprev[t]] = t
       THEN next' = [next EXCEPT ![myprev[t]] = NULL] /\ Goto(t, "B_tail")
       ELSE UNCHANGED next /\ Goto(t, "A_locked")
    /\ UNCHANGED <<tail, prev, locked, cpu, myprev, mynext, unqueues>>

\* The cmpxchg lost against an unlock ...
\* Mutant: the locked field is not looked at again.
StepALockedDropped(t) ==
    /\ pc[t] = "A_locked"
    /\ Goto(t, "A_prev")
    /\ UNCHANGED <<tail, next, prev, locked, cpu, myprev, mynext, unqueues>>

StepALocked(t) ==
    /\ pc[t] = "A_locked"
    /\ IF locked[t] = 1 THEN HaveLock(t) ELSE Goto(t, "A_prev") /\ UNCHANGED myprev
    /\ UNCHANGED <<tail, next, prev, locked, cpu, mynext, unqueues>>

\* ... or against another thread giving up, whose step C gives us a new prev.
StepAPrev(t) ==
    /\ pc[t] = "A_prev"
    /\ myprev' = [myprev EXCEPT ![t] = prev[t]]
    /\ Goto(t, "A_next")
    /\ UNCHANGED <<tail, next, prev, locked, cpu, mynext, unqueues>>

\* osq_wait_next, first half: if we are the tail, move it back to old.
WaitNextTail(t, here, old, done, other) ==
    /\ pc[t] = here
    /\ IF tail = encode_cpu(t)
       THEN /\ tail' = old
            /\ Goto(t, done)
            /\ myprev' = [myprev EXCEPT ![t] = NULL]
       ELSE Goto(t, other) /\ UNCHANGED <<tail, myprev>>
    /\ UNCHANGED <<next, prev, locked, cpu, mynext, unqueues>>

\* osq_wait_next, second half: take a next out of our node if there is one.
\* Mutant: it is read and left in, so that our successor still finds itself there.
WaitNextXchgKeeps(t, here, done, other) ==
    /\ pc[t] = here
    /\ IF next[t] # NULL
       THEN /\ mynext' = [mynext EXCEPT ![t] = next[t]]
            /\ Goto(t, done)
       ELSE Goto(t, other) /\ UNCHANGED mynext
    /\ UNCHANGED <<tail, next, prev, locked, cpu, myprev, unqueues>>

WaitNextXchg(t, here, done, other) ==
    /\ pc[t] = here
    /\ IF next[t] # NULL
       THEN /\ mynext' = [mynext EXCEPT ![t] = next[t]]
            /\ next' = [next EXCEPT ![t] = NULL]
            /\ Goto(t, done)
       ELSE Goto(t, other) /\ UNCHANGED <<next, mynext>>
    /\ UNCHANGED <<tail, prev, locked, cpu, myprev, unqueues>>

\* Step B: the tail goes back to prev->cpu, or we get a next for step C.
\* Mutant: the tail is cleared as osq_unlock would.
StepBTailCleared(t) == WaitNextTail(t, "B_tail", OSQ_UNLOCKED_VAL, "backoff", "B_next")

StepBTail(t) == WaitNextTail(t, "B_tail", cpu[myprev[t]], "backoff", "B_next")

StepBNext(t) == WaitNextXchg(t, "B_next", "C_prev", "B_tail")

\* Step C: unlink ourselves, first next->prev, then prev->next.
StepCPrev(t) ==
    /\ pc[t] = "C_prev"
    /\ prev' = [prev EXCEPT ![mynext[t]] = myprev[t]]
    /\ Goto(t, "C_next")
    /\ UNCHANGED <<tail, next, locked, cpu, myprev, mynext, unqueues>>

StepCNext(t) ==
    /\ pc[t] = "C_next"
    /\ next' = [next EXCEPT ![myprev[t]] = mynext[t]]
    /\ myprev' = [myprev EXCEPT ![t] = NULL]
    /\ mynext' = [mynext EXCEPT ![t] = NULL]
    /\ Goto(t, "backoff")
    /\ UNCHANGED <<tail, prev, locked, cpu, unqueues>>

-----------------------------------------------------------------------------
\* osq_unlock: nobody behind us.
Unlock(t) == WaitNextTail(t, "locked", OSQ_UNLOCKED_VAL, "idle", "U_next")

\* osq_unlock: take our next, or wait until there is one or we are the tail.
UnlockNext(t) == WaitNextXchg(t, "U_next", "U_grant", "W_tail")
UnlockWaitTail(t) == WaitNextTail(t, "W_tail", OSQ_UNLOCKED_VAL, "idle", "W_next")
UnlockWaitNext(t) == WaitNextXchg(t, "W_next", "U_grant", "W_tail")

\* WRITE_ONCE(next->locked, 1)
UnlockGrant(t) ==
    /\ pc[t] = "U_grant"
    /\ locked' = [locked EXCEPT ![mynext[t]] = 1]
    /\ mynext' = [mynext EXCEPT ![t] = NULL]
    /\ Goto(t, "idle")
    /\ UNCHANGED <<tail, next, prev, cpu, myprev, unqueues>>

InsideStep(t) ==
    \/ LockRetry(t)
    \/ XchgTail(t)
    \/ Link(t)
    \/ Spin(t)
    \/ StepA(t)
    \/ StepALocked(t)
    \/ StepAPrev(t)
    \/ StepBTail(t)
    \/ StepBNext(t)
    \/ StepCPrev(t)
    \/ StepCNext(t)
    \/ Unlock(t)
    \/ UnlockNext(t)
    \/ UnlockWaitTail(t)
    \/ UnlockWaitNext(t)
    \/ UnlockGrant(t)

Next == \E t \in Threads : LockStart(t) \/ GiveUp(t) \/ InsideStep(t)

Spec == Init /\ [][Next]_vars

\* Threads have CPUs of their own and keep running inside the lock; giving up
\* is a matter of time and is not forced.
FairSpec == Spec /\ \A t \in Threads : WF_vars(InsideStep(t))

-----------------------------------------------------------------------------
Spinning == {"spin", "A_next", "A_locked", "A_prev"}
Releasing == {"U_next", "W_tail", "W_next", "U_grant"}

\* Threads the lock has been given to and that have not given it on.
Owners == {t \in Threads :
              \/ pc[t] = "locked"
              \/ pc[t] \in Releasing
              \/ pc[t] \in Spinning /\ locked[t] = 1}

Queued == {t \in Threads : pc[t] \notin {"idle", "xchg", "backoff"}}

\* The variables are in their ranges.
TypeOK ==
    /\ tail \in 0..N
    /\ next \in [Threads -> Threads \cup {NULL}]
    /\ prev \in [Threads -> Threads \cup {NULL}]
    /\ locked \in [Threads -> {0, 1}]
    /\ \A t \in Threads : cpu[t] \in {0, encode_cpu(t)}
    /\ myprev \in [Threads -> Threads \cup {NULL}]
    /\ mynext \in [Threads -> Threads \cup {NULL}]
    /\ unqueues \in [Threads -> 0..MAX_UNQUEUES]

\* The lock has one owner at a time, and never none while threads are queued,
\* whatever waiters give up during the hand-over: it is not given to a thread that
\* has left, nor given twice, nor lost.
OneOwner ==
    /\ Cardinality(Owners) <= 1
    /\ Queued # {} => Owners # {}

\* The list stays whole while neighbours leave it.  Its two directions agree: a
\* node that is somebody's next is waiting, has not been granted the lock, and has
\* that thread as its prev.  The tail is a queued thread with nobody behind it, and
\* there is none when the queue is empty.
QueueIntact ==
    /\ \A t, u \in Threads :
          next[t] = u => t \in Queued /\ pc[u] \in Spinning /\ locked[u] = 0 /\ prev[u] = t
    /\ IF tail = OSQ_UNLOCKED_VAL
       THEN Queued = {}
       ELSE cpu_to_node(tail) \in Queued /\ next[cpu_to_node(tail)] = NULL

\* An acquisition that gives up a bounded number of times gets the lock.
NoStarvation == \A t \in Threads : pc[t] = "xchg" ~> pc[t] = "locked"

=============================================================================
