--------------------------- MODULE QueuedSpinlock ---------------------------
(***************************************************************************)
(* ext/linux/queued_spinlock.h, with _Q_PENDING_BITS = 8.  The lock word   *)
(* is (tail, pending, locked): a locked byte, a pending byte for the first *)
(* waiter, and the encoded tail of an MCS queue for the others.  Each part *)
(* is also written on its own, concurrently with the others.               *)
(***************************************************************************)
EXTENDS Integers, FiniteSets, SequencesExt

CONSTANTS
    N,              \* number of threads
    MAX_NODES,      \* MCS nodes of a thread, 2^_Q_TAIL_IDX_BITS
    PENDING_LOOPS   \* _Q_PENDING_LOOPS

Threads == 0..(N - 1)

ASSUME QueuedAssumption ==
    /\ N \in Nat \ {0}
    /\ MAX_NODES \in Nat \ {0}
    /\ PENDING_LOOPS \in Nat

VARIABLES
    lock,    \* the word: [locked, pending, tail]
    next,    \* next[n]: the MCS node after node n, or NONE
    granted, \* granted[n]: node n's locked field
    count,   \* mcs_pool[t].count
    pc,      \* where each thread is
    cnt,     \* cnt[t]: reads left in the bounded wait for a hand-over
    prev,    \* prev[t]: node queued before t's, NONE once it is of no use
    succ     \* succ[t]: local variable next, NONE once it is of no use

vars == <<lock, next, granted, count, pc, cnt, prev, succ>>

\* An MCS node is a thread and a nesting index; -1 is the thread of no node.
Node == Threads \X (0..MAX_NODES - 1)
NONE == <<-1, 0>>

\* The tail code is the CPU plus one above the index, so that no tail is 0.
\* Mutant: the CPU is not offset by one and thread 0's tail is no tail.
encode_tailNoOffset(cpu, idx) == cpu * MAX_NODES + idx

encode_tail(cpu, idx) == (cpu + 1) * MAX_NODES + idx

decode_tail(tail) == <<tail \div MAX_NODES - 1, tail % MAX_NODES>>

Word(t, p, l) == [tail |-> t, pending |-> p, locked |-> l]
Unlocked == Word(0, 0, 0)
LOCKED_VAL == Word(0, 0, 1)
PENDING_VAL == Word(0, 1, 0)

\* Anything but the locked byte is set.
Contended(w) == w.pending = 1 \/ w.tail # 0

\* The node and tail code of a thread that is queueing.
MyNode(t) == <<t, count[t] - 1>>
MyTail(t) == encode_tail(t, count[t] - 1)

Init ==
    /\ lock = Unlocked
    /\ next = [n \in Node |-> NONE]
    /\ granted = [n \in Node |-> 0]
    /\ count = [t \in Threads |-> 0]
    /\ pc = [t \in Threads |-> "idle"]
    /\ cnt = [t \in Threads |-> 0]
    /\ prev = [t \in Threads |-> NONE]
    /\ succ = [t \in Threads |-> NONE]

Goto(t, l) == pc' = [pc EXCEPT ![t] = l]

-----------------------------------------------------------------------------
\* atomic_try_cmpxchg_*32 on the word: the word after it, and whether it succeeded.
atomic_try_cmpxchg32(exp, new) == IF lock = exp THEN new ELSE lock
Succeeds(exp) == lock = exp

\* Where the slow path goes with a value of the word: wait for a hand-over in
\* progress, queue on contention, or try to become pending.
SlowPath(w) == IF Contended(w) THEN "queue" ELSE "fetch_or"

\* lock_acquire: the fast path.
LockFast(t) ==
    /\ pc[t] = "idle"
    /\ lock' = atomic_try_cmpxchg32(Unlocked, LOCKED_VAL)
    /\ cnt' = [cnt EXCEPT ![t] = IF lock = PENDING_VAL THEN PENDING_LOOPS ELSE 0]
    /\ Goto(t, CASE Succeeds(Unlocked) -> "locked"
                 [] lock = PENDING_VAL -> "handover"
                 [] OTHER -> SlowPath(lock))
    /\ UNCHANGED <<next, granted, count, prev, succ>>

\* atomic_cond_read_relaxed with a bounded number of reads: 0,1,0 -> 0,0,1.
WaitHandover(t) ==
    /\ pc[t] = "handover"
    /\ IF lock = PENDING_VAL /\ cnt[t] > 0
       THEN /\ cnt' = [cnt EXCEPT ![t] = @ - 1]
            /\ UNCHANGED pc
       ELSE /\ Goto(t, SlowPath(lock))
            /\ cnt' = [cnt EXCEPT ![t] = 0]
    /\ UNCHANGED <<lock, next, granted, count, prev, succ>>

\* queued_fetch_set_pending_acquire, and what its result means.
\* Mutant: contention is taken to be the pending byte only.
FetchSetPendingIgnoresTail(t) ==
    /\ pc[t] = "fetch_or"
    /\ lock' = [lock EXCEPT !.pending = 1]
    /\ Goto(t, CASE lock.pending = 1 -> "queue"
                 [] OTHER -> "wait_owner")
    /\ UNCHANGED <<next, granted, count, cnt, prev, succ>>

FetchSetPending(t) ==
    /\ pc[t] = "fetch_or"
    /\ lock' = [lock EXCEPT !.pending = 1]
    /\ Goto(t, CASE lock.pending = 1 -> "queue"
                 [] lock.pending = 0 /\ lock.tail # 0 -> "undo"
                 [] lock.pending = 0 /\ lock.tail = 0 /\ lock.locked = 1 -> "wait_owner"
                 [] OTHER -> "take_pending")
    /\ UNCHANGED <<next, granted, count, cnt, prev, succ>>

\* clear_pending: undo the pending byte this thread set.
\* Mutant: the thread goes to queue without undoing it.
ClearPendingDropped(t) ==
    /\ pc[t] = "undo"
    /\ Goto(t, "queue")
    /\ UNCHANGED <<lock, next, granted, count, cnt, prev, succ>>

ClearPending(t) ==
    /\ pc[t] = "undo"
    /\ lock' = [lock EXCEPT !.pending = 0]
    /\ Goto(t, "queue")
    /\ UNCHANGED <<next, granted, count, cnt, prev, succ>>

\* The pending thread waits for the owner: 0,1,1 -> *,1,0.
WaitOwner(t) ==
    /\ pc[t] = "wait_owner"
    /\ lock.locked = 0
    /\ Goto(t, "take_pending")
    /\ UNCHANGED <<lock, next, granted, count, cnt, prev, succ>>

\* One half-word store: *,1,0 -> *,0,1.
ClearPendingSetLocked(t) ==
    /\ pc[t] = "take_pending"
    /\ lock' = [lock EXCEPT !.pending = 0, !.locked = 1]
    /\ Goto(t, "locked")
    /\ UNCHANGED <<next, granted, count, cnt, prev, succ>>

-----------------------------------------------------------------------------
\* Take an MCS node and initialise it; nobody else can reach it yet.
TakeNode(t) ==
    /\ pc[t] = "queue"
    /\ count[t] < MAX_NODES
    /\ count' = [count EXCEPT ![t] = @ + 1]
    /\ granted' = [granted EXCEPT ![<<t, count[t]>>] = 0]
    /\ next' = [next EXCEPT ![<<t, count[t]>>] = NONE]
    /\ Goto(t, "trylock")
    /\ UNCHANGED <<lock, cnt, prev, succ>>

\* The release label: give the node back.
ReleaseNode(t) == count' = [count EXCEPT ![t] = @ - 1]

\* queued_spin_trylock.  Its load and its compare-and-exchange fail or succeed
\* as the compare-and-exchange alone would at the moment of one of them.
\* Mutant: returns with the lock without giving the node back.
TryLockKeepsNode(t) ==
    /\ pc[t] = "trylock"
    /\ lock' = atomic_try_cmpxchg32(Unlocked, LOCKED_VAL)
    /\ Goto(t, IF Succeeds(Unlocked) THEN "locked" ELSE "xchg_tail")
    /\ UNCHANGED <<next, granted, count, cnt, prev, succ>>

TryLock(t) ==
    /\ pc[t] = "trylock"
    /\ lock' = atomic_try_cmpxchg32(Unlocked, LOCKED_VAL)
    /\ IF Succeeds(Unlocked)
       THEN ReleaseNode(t) /\ Goto(t, "locked")
       ELSE UNCHANGED count /\ Goto(t, "xchg_tail")
    /\ UNCHANGED <<next, granted, cnt, prev, succ>>

\* xchg_tail: p,*,* -> n,*,*.
XchgTail(t) ==
    /\ pc[t] = "xchg_tail"
    /\ lock' = [lock EXCEPT !.tail = MyTail(t)]
    /\ succ' = [succ EXCEPT ![t] = NONE]
    /\ prev' = [prev EXCEPT ![t] = IF lock.tail = 0 THEN NONE ELSE decode_tail(lock.tail)]
    /\ Goto(t, IF lock.tail = 0 THEN "head" ELSE "link")
    /\ UNCHANGED <<next, granted, count, cnt>>

\* WRITE_ONCE(prev->next, node)
Link(t) ==
    /\ pc[t] = "link"
    /\ next' = [next EXCEPT ![prev[t]] = MyNode(t)]
    /\ Goto(t, "mcs_wait")
    /\ UNCHANGED <<lock, granted, count, cnt, prev, succ>>

\* arch_mcs_spin_lock_contended, then the optimistic load of node->next: a later
\* load can only find more of a field that is set once.
McsWait(t) ==
    /\ pc[t] = "mcs_wait"
    /\ granted[MyNode(t)] = 1
    /\ succ' = [succ EXCEPT ![t] = next[MyNode(t)]]
    /\ prev' = [prev EXCEPT ![t] = NONE]
    /\ Goto(t, "head")
    /\ UNCHANGED <<lock, next, granted, count, cnt>>

\* The head of the queue waits for owner and pending to go away.
\* Mutant: waits for the owner only.
HeadWaitOwnerOnly(t) ==
    /\ pc[t] = "head"
    /\ lock.locked = 0
    /\ Goto(t, IF lock.tail = MyTail(t) THEN "cmpxchg" ELSE "set_locked")
    /\ UNCHANGED <<lock, next, granted, count, cnt, prev, succ>>

HeadWait(t) ==
    /\ pc[t] = "head"
    /\ lock.locked = 0 /\ lock.pending = 0
    /\ Goto(t, IF lock.tail = MyTail(t) THEN "cmpxchg" ELSE "set_locked")
    /\ UNCHANGED <<lock, next, granted, count, cnt, prev, succ>>

\* n,0,0 -> 0,0,1 when nobody is behind and nobody has set pending.  The value
\* compared with is the one HeadWait loaded.
HeadCmpxchg(t) ==
    /\ pc[t] = "cmpxchg"
    /\ lock' = atomic_try_cmpxchg32(Word(MyTail(t), 0, 0), LOCKED_VAL)
    /\ IF Succeeds(Word(MyTail(t), 0, 0))
       THEN ReleaseNode(t) /\ Goto(t, "locked")
       ELSE UNCHANGED count /\ Goto(t, "set_locked")
    /\ UNCHANGED <<next, granted, cnt, prev, succ>>

\* set_locked, a byte store: *,*,0 -> *,*,1.
SetLocked(t) ==
    /\ pc[t] = "set_locked"
    /\ lock' = [lock EXCEPT !.locked = 1]
    /\ Goto(t, IF succ[t] = NONE THEN "wait_next" ELSE "pass")
    /\ UNCHANGED <<next, granted, count, cnt, prev, succ>>

\* smp_cond_load_relaxed(&node->next, (VAL))
WaitNext(t) ==
    /\ pc[t] = "wait_next"
    /\ next[MyNode(t)] # NONE
    /\ succ' = [succ EXCEPT ![t] = next[MyNode(t)]]
    /\ Goto(t, "pass")
    /\ UNCHANGED <<lock, next, granted, count, cnt, prev>>

\* arch_mcs_spin_unlock_contended: the next in line becomes the head.
Pass(t) ==
    /\ pc[t] = "pass"
    /\ granted' = [granted EXCEPT ![succ[t]] = 1]
    /\ succ' = [succ EXCEPT ![t] = NONE]
    /\ ReleaseNode(t)
    /\ Goto(t, "locked")
    /\ UNCHANGED <<lock, next, cnt, prev>>

\* lock_release: a store of the locked byte.
lock_release(t) ==
    /\ pc[t] = "locked"
    /\ lock' = [lock EXCEPT !.locked = 0]
    /\ Goto(t, "idle")
    /\ UNCHANGED <<next, granted, count, cnt, prev, succ>>

InsideStep(t) ==
    \/ WaitHandover(t)
    \/ FetchSetPending(t)
    \/ ClearPending(t)
    \/ WaitOwner(t)
    \/ ClearPendingSetLocked(t)
    \/ TakeNode(t)
    \/ TryLock(t)
    \/ XchgTail(t)
    \/ Link(t)
    \/ McsWait(t)
    \/ HeadWait(t)
    \/ HeadCmpxchg(t)
    \/ SetLocked(t)
    \/ WaitNext(t)
    \/ Pass(t)
    \/ lock_release(t)

Next == \E t \in Threads : LockFast(t) \/ InsideStep(t)

Spec == Init /\ [][Next]_vars

\* Every thread has a CPU of its own: once in lock_acquire it keeps running, and
\* it releases what it got.
FairSpec == Spec /\ \A t \in Threads : WF_vars(InsideStep(t))

-----------------------------------------------------------------------------
Owners == {t \in Threads : pc[t] \in {"locked", "wait_next", "pass"}}
Pending == {t \in Threads : pc[t] \in {"wait_owner", "take_pending"}}
InQueue == {t \in Threads :
              pc[t] \in {"link", "mcs_wait", "head", "cmpxchg", "set_locked", "wait_next", "pass"}}

\* The variables are in their ranges, and every path gives its MCS node back, so a
\* thread always uses its first node and the fallback for more than MAX_NODES
\* nested acquisitions is never needed.
TypeOK ==
    /\ lock \in [tail : 0..((N + 1) * MAX_NODES - 1), pending : {0, 1}, locked : {0, 1}]
    /\ next \in [Node -> Node \cup {NONE}]
    /\ granted \in [Node -> {0, 1}]
    /\ \A t \in Threads :
        count[t] = IF t \in InQueue \/ pc[t] \in {"trylock", "xchg_tail"} THEN 1 ELSE 0
    /\ cnt \in [Threads -> 0..PENDING_LOOPS]
    /\ prev \in [Threads -> Node \cup {NONE}]
    /\ succ \in [Threads -> Node \cup {NONE}]

\* At most one thread owns the lock, and the locked byte says exactly whether one
\* does, although it is stored without a compare by three different paths.
MutualExclusion ==
    /\ \A t, u \in Owners : t = u
    /\ lock.locked = 1 <=> Owners # {}

\* The pending byte and the tail are never lost or left behind: a pending byte has
\* one thread that will clear it, an empty queue has no tail, and the tail is the
\* node of a queued thread whose next field nobody but its successor will set.
WordMatchesThreads ==
    /\ lock.pending = Cardinality({t \in Threads : pc[t] = "undo"} \cup Pending)
    /\ (lock.tail = 0) <=> (InQueue = {})
    /\ lock.tail # 0 => \E t \in InQueue : lock.tail = MyTail(t) /\ next[MyNode(t)] = NONE

\* The lock is served in the order in which threads entered its word, the pending
\* thread before the queue and the queue in the order of its tail exchanges.
McsChain(q) ==
    \A i \in 1..Len(q) :
        IF i = 1 THEN prev[q[i]] = NONE \/ granted[MyNode(q[i])] = 1
                 ELSE prev[q[i]] = MyNode(q[i - 1]) /\ granted[MyNode(q[i])] = 0

Arrivals ==
    SetToSeq({t \in Threads : pc[t] = "locked"})
        \o SetToSeq(Pending)
        \o CHOOSE q \in SetToSeqs(InQueue) : McsChain(q)

Fifo == INSTANCE FifoLock WITH queue <- Arrivals, granted <- Owners # {}
ServedInOrder == Fifo!Spec

\* A thread that enters the slow path is eventually given the lock, however the
\* others come and go.
NoStarvation ==
    \A t \in Threads : pc[t] \in {"handover", "fetch_or", "queue"} ~> pc[t] = "locked"

=============================================================================
