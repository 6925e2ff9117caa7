--------------------------- MODULE HybridSpinlock ---------------------------
(***************************************************************************)
(* ext/linux/hybrid_spinlock.h and hybrid_spinlock_fastdequeue.h, the      *)
(* aarch64 code: a ticket lock whose waiters go to an MCS queue when there *)
(* are many of them.  The 32-bit word is (next ticket, serving, tail): a   *)
(* byte, a byte and two bytes.  In the first lock the head of the queue    *)
(* takes a ticket at once and stays in the queue until it is served; in    *)
(* the second it takes a ticket when few are out, hands the queue on and   *)
(* then waits to be served.  threshold and dequeue say which lock it is.   *)
(* An LL/SC loop is one step: a failed store conditional starts it again.  *)
(***************************************************************************)
EXTENDS Integers, FiniteSets, Sequences

CONSTANTS
    Threads,    \* the numbers of the threads that use the lock
    BYTE,       \* values of a byte, 256
    NODES,      \* MCS nodes of a thread, 2^_Q_TAIL_IDX_BITS
    Builds      \* pairs <<_Q_THRESHOLD, _Q_DEQUEUE_THRESHOLD or 0>>

ASSUME HybridAssumption ==
    /\ Threads \subseteq Nat
    /\ BYTE \in Nat /\ NODES \in Nat \ {0}
    /\ \A t \in Threads : (t + 2) * NODES <= BYTE * BYTE
    /\ \A b \in Builds : b[1] \in Nat \ {0} /\ b[2] \in Nat /\ 2 * (b[1] + 1) <= BYTE
    \* As 6 and 2 are: tickets given to the queue never fill the window.
    /\ \A b \in Builds : b[2] > 0 => b[2] + 2 <= b[1]

VARIABLES
    threshold,  \* _Q_THRESHOLD, never changes
    dequeue,    \* _Q_DEQUEUE_THRESHOLD, 0 for hybrid_spinlock.h; never changes
    lock,       \* the word: [ticket, serving, tail]
    next,       \* next[n]: mcs_pool[n].next, NONE when null
    locked,     \* locked[n]: mcs_pool[n].locked
    count,      \* count[t]: mcs_pool[NODES * t].count
    pc,         \* where each thread is
    ticket,     \* ticket[t]: the ticket t holds, NONE when it has none
    prev,       \* prev[t]: node t must link itself behind, NONE when there is none
    waiting     \* history: queued threads without a ticket, in tail order

build == <<threshold, dequeue>>
vars == <<threshold, dequeue, lock, next, locked, count, pc, ticket, prev, waiting>>

NONE == -1
Node == {NODES * t + i : t \in Threads, i \in 0..NODES - 1}

encode_tail(cpu, idx) == (cpu + 1) * NODES + idx

decode_tail(tail) == NODES * ((tail \div NODES) - 1) + (tail % NODES)

\* The node and tail code of a thread that is queueing.
MyNode(t) == NODES * t + count[t] - 1
MyTail(t) == encode_tail(t, count[t] - 1)

\* mcs_init_locks clears the pool; the word is that of an unused lock.
Init ==
    /\ \E b \in Builds : threshold = b[1] /\ dequeue = b[2]
    /\ lock = [ticket |-> 0, serving |-> 0, tail |-> 0]
    /\ next = [n \in Node |-> NONE]
    /\ locked = [n \in Node |-> 0]
    /\ count = [t \in Threads |-> 0]
    /\ pc = [t \in Threads |-> "idle"]
    /\ ticket = [t \in Threads |-> NONE]
    /\ prev = [t \in Threads |-> NONE]
    /\ waiting = <<>>

Goto(t, l) == pc' = [pc EXCEPT ![t] = l]

-----------------------------------------------------------------------------
ticket_depth(w) == (w.ticket - w.serving) % BYTE

\* rev16 swaps the bytes of each half-word: nothing changes when the ticket byte
\* less d is the serving byte and the two bytes of the tail are equal.
RoundTail(tail) == tail \div BYTE = tail % BYTE
Rev16Same(w, d) == (w.ticket - d) % BYTE = w.serving /\ RoundTail(w.tail)

\* When lock_acquire goes to the queue.
\* Mutant: a queue that is already there is not noticed.
EnqueueAtThresholdOnly(w) == Rev16Same(w, threshold)

Enqueue(w) == Rev16Same(w, threshold) \/ w.tail # 0

\* Add one to the ticket byte and keep its old value.
DrawTicket(t) ==
    /\ lock' = [lock EXCEPT !.ticket = (@ + 1) % BYTE]
    /\ ticket' = [ticket EXCEPT ![t] = lock.ticket]
    /\ waiting' = SelectSeq(waiting, LAMBDA u : u # t)

\* hybrid_spinlock_slowpath: take and clear a node; nobody else can reach it yet.
TakeNode(t) ==
    /\ count' = [count EXCEPT ![t] = @ + 1]
    /\ locked' = [locked EXCEPT ![NODES * t + count[t]] = 0]
    /\ next' = [next EXCEPT ![NODES * t + count[t]] = NONE]
    /\ Goto(t, "xchg_tail")
    /\ UNCHANGED <<lock, ticket, waiting>>

\* lock_acquire: take a ticket if it is served at once; otherwise the value just
\* loaded may already send the thread to the queue.
LockFast(t) ==
    /\ pc[t] = "idle"
    /\ CASE Rev16Same(lock, 0) ->
              DrawTicket(t) /\ Goto(t, "locked") /\ UNCHANGED <<next, locked, count>>
         [] ~Rev16Same(lock, 0) /\ Enqueue(lock) -> TakeNode(t)
         [] OTHER ->
              Goto(t, "judge") /\ UNCHANGED <<lock, ticket, waiting, next, locked, count>>
    /\ UNCHANGED <<build, prev>>

\* Load the word again and queue or take a ticket.
Judge(t) ==
    /\ pc[t] = "judge"
    /\ IF Enqueue(lock)
       THEN TakeNode(t)
       ELSE DrawTicket(t) /\ Goto(t, "spin") /\ UNCHANGED <<next, locked, count>>
    /\ UNCHANGED <<build, prev>>

\* The wait of a ticket holder for the serving byte, of one that is not queued.
Spin(t) ==
    /\ pc[t] = "spin"
    /\ lock.serving = ticket[t]
    /\ Goto(t, "locked")
    /\ UNCHANGED <<build, lock, next, locked, count, ticket, prev, waiting>>

-----------------------------------------------------------------------------
\* xchg_tail, an exchange of the tail half-word.
XchgTail(t) ==
    /\ pc[t] = "xchg_tail"
    /\ lock' = [lock EXCEPT !.tail = MyTail(t)]
    /\ prev' = [prev EXCEPT ![t] = IF lock.tail = 0 THEN NONE ELSE decode_tail(lock.tail)]
    /\ waiting' = Append(waiting, t)
    /\ Goto(t, IF lock.tail = 0 THEN "draw" ELSE "link")
    /\ UNCHANGED <<build, next, locked, count, ticket>>

\* WRITE_ONCE(prev->next, node)
Link(t) ==
    /\ pc[t] = "link"
    /\ next' = [next EXCEPT ![prev[t]] = MyNode(t)]
    /\ prev' = [prev EXCEPT ![t] = NONE]
    /\ Goto(t, "mcs_wait")
    /\ UNCHANGED <<build, lock, locked, count, ticket, waiting>>

\* arch_mcs_spin_lock_contended.  The optimistic load of node->next after it is
\* left to Pass: the field is set once.
McsWait(t) ==
    /\ pc[t] = "mcs_wait"
    /\ locked[MyNode(t)] = 1
    /\ Goto(t, "draw")
    /\ UNCHANGED <<build, lock, next, locked, count, ticket, prev, waiting>>

\* The head of the queue of hybrid_spinlock.h takes a ticket.
Draw(t) ==
    /\ pc[t] = "draw" /\ dequeue = 0
    /\ DrawTicket(t)
    /\ Goto(t, "head_spin")
    /\ UNCHANGED <<build, next, locked, count, prev>>

\* The ticket byte of word - (word << 8): the depth, or one less when the lower
\* bytes borrow from it.
ShiftedDepth(w) ==
    LET borrow == IF w.serving * BYTE * BYTE + w.tail < w.tail * BYTE THEN 1 ELSE 0
    IN  (w.ticket - w.serving - borrow) % BYTE

\* bgt: greater than the threshold as signed numbers.
\* Mutant: compared with the threshold for joining the queue.
DepthAboveJoin(d) == d < BYTE \div 2 /\ d > threshold

DepthAbove(d) == d < BYTE \div 2 /\ d > dequeue

\* The head of the queue of hybrid_spinlock_fastdequeue.h waits until few tickets
\* are out and takes one.
DrawWhenShallow(t) ==
    /\ pc[t] = "draw" /\ dequeue > 0
    /\ ~DepthAbove(ShiftedDepth(lock))
    /\ DrawTicket(t)
    /\ Goto(t, "destroy")
    /\ UNCHANGED <<build, next, locked, count, prev>>

\* The head of the queue of hybrid_spinlock.h is served before it leaves the queue.
HeadSpin(t) ==
    /\ pc[t] = "head_spin"
    /\ lock.serving = ticket[t]
    /\ Goto(t, "destroy")
    /\ UNCHANGED <<build, lock, next, locked, count, ticket, prev, waiting>>

\* What is left to do after the queue was handed on.
AfterQueue(t) == Goto(t, IF dequeue = 0 THEN "locked" ELSE "spin")

\* The release label: give the node back.  What it holds is of no use until
\* TakeNode clears it, and Pass and DestroyQueue clear it already.
ReleaseNode(t) == count' = [count EXCEPT ![t] = @ - 1]

\* The last of the queue clears the tail with a compare-and-exchange of the word,
\* repeated while only the other bytes of the word change.
\* Mutant: the tail is cleared whoever is last.
DestroyQueueAlways(t) ==
    /\ pc[t] = "destroy"
    /\ lock' = [lock EXCEPT !.tail = 0]
    /\ ReleaseNode(t) /\ AfterQueue(t)
    /\ UNCHANGED <<build, next, locked, ticket, prev, waiting>>

\* Mutant: the node is not given back.
DestroyQueueKeepsNode(t) ==
    /\ pc[t] = "destroy"
    /\ IF lock.tail = MyTail(t)
       THEN lock' = [lock EXCEPT !.tail = 0] /\ AfterQueue(t)
       ELSE Goto(t, "pass") /\ UNCHANGED lock
    /\ UNCHANGED <<build, next, locked, count, ticket, prev, waiting>>

DestroyQueue(t) ==
    /\ pc[t] = "destroy"
    /\ IF lock.tail = MyTail(t)
       THEN /\ lock' = [lock EXCEPT !.tail = 0]
            /\ locked' = [locked EXCEPT ![MyNode(t)] = 0]
            /\ ReleaseNode(t) /\ AfterQueue(t)
       ELSE Goto(t, "pass") /\ UNCHANGED <<lock, locked, count>>
    /\ UNCHANGED <<build, next, ticket, prev, waiting>>

\* Wait for the successor to link itself, a field that is set once, and make it
\* the head of the queue with arch_mcs_spin_unlock_contended.
Pass(t) ==
    /\ pc[t] = "pass"
    /\ next[MyNode(t)] # NONE
    /\ locked' = [locked EXCEPT ![next[MyNode(t)]] = 1, ![MyNode(t)] = 0]
    /\ next' = [next EXCEPT ![MyNode(t)] = NONE]
    /\ ReleaseNode(t) /\ AfterQueue(t)
    /\ UNCHANGED <<build, lock, ticket, prev, waiting>>

\* lock_release: only the owner writes the serving byte, so its load and its store
\* are one step.
lock_release(t) ==
    /\ pc[t] = "locked"
    /\ lock' = [lock EXCEPT !.serving = (@ + 1) % BYTE]
    /\ ticket' = [ticket EXCEPT ![t] = NONE]
    /\ Goto(t, "idle")
    /\ UNCHANGED <<build, next, locked, count, prev, waiting>>

InsideStep(t) ==
    \/ Judge(t)
    \/ Spin(t)
    \/ XchgTail(t)
    \/ Link(t)
    \/ McsWait(t)
    \/ Draw(t)
    \/ DrawWhenShallow(t)
    \/ HeadSpin(t)
    \/ DestroyQueue(t)
    \/ Pass(t)
    \/ lock_release(t)

Next == \E t \in Threads : LockFast(t) \/ InsideStep(t)

Spec == Init /\ [][Next]_vars

\* Every thread has a CPU of its own: once in lock_acquire it keeps running, and
\* it releases what it got.
FairSpec == Spec /\ \A t \in Threads : WF_vars(InsideStep(t))

-----------------------------------------------------------------------------
Ticketed == {t \in Threads : ticket[t] # NONE}
InQueue == {t \in Threads : pc[t] \in {"link", "mcs_wait", "draw", "head_spin",
                                       "destroy", "pass"}}

\* The variables are in their ranges, a thread has its MCS node exactly while it
\* is in the slow path and never needs a second one, and the tail is 0 exactly
\* when nobody is queued.
TypeOK ==
    /\ build \in Builds
    /\ lock \in [ticket : 0..BYTE - 1, serving : 0..BYTE - 1, tail : 0..BYTE * BYTE - 1]
    /\ next \in [Node -> Node \cup {NONE}]
    /\ locked \in [Node -> {0, 1}]
    /\ ticket \in [Threads -> 0..BYTE - 1 \cup {NONE}]
    /\ prev \in [Threads -> Node \cup {NONE}]
    /\ \A t \in Threads : count[t] = IF t \in InQueue \/ pc[t] = "xchg_tail" THEN 1 ELSE 0
    /\ lock.tail = 0 <=> InQueue = {}

\* One byte of tickets is enough for any number of threads: those that hold a
\* ticket hold the consecutive ones from the serving byte on, one each, never more
\* than the threshold (one more while the head of the queue of hybrid_spinlock.h
\* holds one), and only the one that is served is past its wait.
TicketWindow ==
    /\ ticket_depth(lock) = Cardinality(Ticketed)
    /\ \A t \in Ticketed : (ticket[t] - lock.serving) % BYTE < ticket_depth(lock)
    /\ \A t, u \in Ticketed : ticket[t] = ticket[u] => t = u
    /\ ticket_depth(lock) <= IF dequeue = 0 THEN threshold + 1 ELSE threshold
    /\ \A t \in Threads : pc[t] = "locked" => ticket[t] = lock.serving

\* Tickets are taken in the order of arrival at the word: only the thread that has
\* been in the queue for longest takes one, and a thread that is not queued takes
\* one only when nobody waits in the queue.  The exception is in the rev16 test,
\* which takes a tail of two equal bytes, thread 256's 0x0404, for no tail.
TicketsInOrder ==
    [][\A t \in Threads :
          ticket[t] = NONE /\ ticket'[t] # NONE
              => \/ waiting = <<>> \/ t = Head(waiting)
                 \/ lock.tail # 0 /\ RoundTail(lock.tail)]_vars

\* A thread that does not get the lock at once gets it eventually, through the
\* tickets or through the queue, whichever lock it is and also when others pass
\* the queue by the exception of TicketsInOrder.
NoStarvation ==
    \A t \in Threads : pc[t] \in {"judge", "xchg_tail"} ~> pc[t] = "locked"

=============================================================================
