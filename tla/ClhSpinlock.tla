---------------------------- MODULE ClhSpinlock ----------------------------
(***************************************************************************)
(* ext/sms/clh_spinlock.h.  Threads queue by swapping their node into tail *)
(* and spin on the wait flag of the node they got back.  A releasing       *)
(* thread gives its node to its successor and takes its predecessor's, so  *)
(* a fixed pool of nodes circulates among the threads.  A pool node is     *)
(* named by the thread it is first assigned to; LOCK_NODE is the node      *)
(* inside global_clh_lock.                                                 *)
(***************************************************************************)
EXTENDS FiniteSets, SequencesExt

CONSTANTS
    Threads,    \* thread numbers
    LOCK_NODE,  \* global_clh_lock.node
    NULL        \* a pointer calloc has cleared

ASSUME ClhAssumption ==
    /\ IsFiniteSet(Threads)
    /\ LOCK_NODE \notin Threads
    /\ NULL \notin Threads \cup {LOCK_NODE}

VARIABLES
    tail,   \* lock->tail
    prev,   \* prev[n]: node n's prev field
    wait,   \* wait[n]: node n's wait field
    ptr,    \* ptr[t]: clh_nodeptr[t].ptr
    saved,  \* saved[t]: thread t's local variable prev
    pc      \* where each thread is

vars == <<tail, prev, wait, ptr, saved, pc>>

Nodes == Threads \cup {LOCK_NODE}

\* clh_lock_init: the calloc'ed pool is all zeroes and the lock's own node is free.
Init ==
    /\ tail = LOCK_NODE
    /\ prev = [n \in Nodes |-> NULL]
    /\ wait = [n \in Nodes |-> 0]
    /\ ptr = [t \in Threads |-> NULL]
    /\ saved = [t \in Threads |-> NULL]
    /\ pc = [t \in Threads |-> "start"]

-----------------------------------------------------------------------------
\* clh_thread_local_init
ThreadLocalInit(t) ==
    /\ pc[t] = "start"
    /\ wait' = [wait EXCEPT ![t] = 1]
    /\ ptr' = [ptr EXCEPT ![t] = t]
    /\ pc' = [pc EXCEPT ![t] = "idle"]
    /\ UNCHANGED <<tail, prev, saved>>

\* clh_lock, first store: a node that is reused may still carry the 0 of its
\* last release.
\* Mutant: the store is left out.
SetWaitDropped(t) ==
    /\ pc[t] = "idle"
    /\ pc' = [pc EXCEPT ![t] = "swap"]
    /\ UNCHANGED <<tail, prev, wait, ptr, saved>>

SetWait(t) ==
    /\ pc[t] = "idle"
    /\ wait' = [wait EXCEPT ![ptr[t]] = 1]
    /\ pc' = [pc EXCEPT ![t] = "swap"]
    /\ UNCHANGED <<tail, prev, ptr, saved>>

\* clh_lock, the exchange.  node->prev is read by the node's owner only, so its
\* store needs no step of its own.
SwapTail(t) ==
    /\ pc[t] = "swap"
    /\ prev' = [prev EXCEPT ![ptr[t]] = tail]
    /\ saved' = [saved EXCEPT ![t] = tail]
    /\ tail' = ptr[t]
    /\ pc' = [pc EXCEPT ![t] = "spin"]
    /\ UNCHANGED <<wait, ptr>>

\* clh_lock, the loop on prev->wait; with or without WFE it leaves on a zero.
Spin(t) ==
    /\ pc[t] = "spin"
    /\ wait[saved[t]] = 0
    /\ pc' = [pc EXCEPT ![t] = "locked"]
    /\ UNCHANGED <<tail, prev, wait, ptr, saved>>

\* lock_release saves node->prev before the node is given away ...
SavePrev(t) ==
    /\ pc[t] = "locked"
    /\ saved' = [saved EXCEPT ![t] = prev[ptr[t]]]
    /\ pc' = [pc EXCEPT ![t] = "unlock"]
    /\ UNCHANGED <<tail, prev, wait, ptr>>

\* ... clh_unlock lets the successor go ...
\* Mutant: resets the wait flag of the wrong node, the one about to be reused.
UnlockPrev(t) ==
    /\ pc[t] = "unlock"
    /\ wait' = [wait EXCEPT ![saved[t]] = 0]
    /\ pc' = [pc EXCEPT ![t] = "reuse"]
    /\ UNCHANGED <<tail, prev, ptr, saved>>

Unlock(t) ==
    /\ pc[t] = "unlock"
    /\ wait' = [wait EXCEPT ![ptr[t]] = 0]
    /\ pc' = [pc EXCEPT ![t] = "reuse"]
    /\ UNCHANGED <<tail, prev, ptr, saved>>

\* ... and the predecessor's node becomes this thread's.
\* Mutant: node->prev is read only now, after the node was given away.
ReuseLate(t) ==
    /\ pc[t] = "reuse"
    /\ ptr' = [ptr EXCEPT ![t] = prev[ptr[t]]]
    /\ pc' = [pc EXCEPT ![t] = "idle"]
    /\ UNCHANGED <<tail, prev, wait, saved>>

Reuse(t) ==
    /\ pc[t] = "reuse"
    /\ ptr' = [ptr EXCEPT ![t] = saved[t]]
    /\ pc' = [pc EXCEPT ![t] = "idle"]
    /\ UNCHANGED <<tail, prev, wait, saved>>

Next ==
    \E t \in Threads :
        \/ ThreadLocalInit(t)
        \/ SetWait(t)
        \/ SwapTail(t)
        \/ Spin(t)
        \/ SavePrev(t)
        \/ Unlock(t)
        \/ Reuse(t)

Spec == Init /\ [][Next]_vars

\* Each thread runs on a CPU of its own and its critical section is bounded;
\* only calling lock_acquire again is left to its choice.
Fairness ==
    \A t \in Threads :
        WF_vars(SwapTail(t) \/ Spin(t) \/ SavePrev(t) \/ Unlock(t) \/ Reuse(t))

FairSpec == Spec /\ Fairness

-----------------------------------------------------------------------------
Queued == {t \in Threads : pc[t] \in {"spin", "locked", "unlock"}}
Holders == {t \in Threads : pc[t] \in {"locked", "unlock"}}

\* The node a thread will use for its next acquisition, or is using for this one.
Node(t) == IF pc[t] = "reuse" THEN saved[t] ELSE ptr[t]

\* One thread at a time is between lock_acquire and the release of its node.
MutualExclusion == \A t, u \in Holders : t = u

\* Nodes change hands but are never shared nor lost: every thread that has run
\* clh_thread_local_init owns a node, no two threads own the same one, and a thread outside the queue never owns the node the queue ends in.  The
\* comment in lock_release names the failure this excludes.
NodesNotShared ==
    \A t, u \in {x \in Threads : pc[x] # "start"} :
        /\ Node(t) \in Nodes
        /\ t # u => Node(t) # Node(u)
        /\ Node(t) = tail => t \in Queued

\* Threads get the lock in the order of their exchanges on tail: the queue is the
\* chain of prev pointers that ends in tail.
IsChain(q) ==
    \A i \in 1..Len(q) :
        /\ i > 1 => prev[ptr[q[i]]] = ptr[q[i - 1]]
        /\ i = 1 => prev[ptr[q[i]]] \notin {ptr[t] : t \in Queued}

Queue == CHOOSE q \in SetToSeqs(Queued) : IsChain(q)

Fifo == INSTANCE FifoLock WITH queue <- Queue, granted <- (Holders # {})
ServedInOrder == Fifo!Spec

\* A thread that starts to queue is eventually given the lock.
NoStarvation == \A t \in Threads : pc[t] = "swap" ~> pc[t] = "locked"

=============================================================================
