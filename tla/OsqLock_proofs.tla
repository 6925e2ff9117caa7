--------------------------- MODULE OsqLock_proofs ---------------------------
(***************************************************************************)
(* The optimistic spin queue has one owner and a whole list for any number *)
(* of threads, whichever of them give up and when.  The queued threads can *)
(* be numbered in the order of the queue, the owner first.  Each of the    *)
(* others is tied to the one before it in one of four ways: it is about to *)
(* link itself; it has undone the link, to leave (steps B and C); it is    *)
(* linked; or the one before it, which releases the lock or leaves, has    *)
(* taken the link.  A thread whose link was undone keeps the one before it *)
(* where it is, since osq_wait_next waits for a next or for the tail; and  *)
(* a thread whose link was taken does not find itself in step A.  So       *)
(* neighbours never leave at the same time.                                *)
(***************************************************************************)
EXTENDS OsqLock, FiniteSetTheorems, TLAPS

Outside == {"idle", "xchg", "backoff"}
Leaving == {"B_tail", "B_next", "C_prev", "C_next"}
HasNext == {"C_prev", "C_next", "U_grant"}
Labels == Outside \cup Spinning \cup Leaving \cup Releasing \cup {"link", "locked"}

Waiting == Queued \ Owners

Types ==
    /\ TypeOK
    /\ pc \in [Threads -> Labels]
    /\ cpu \in [Threads -> Nat]

\* What a thread's node and its local variables are worth where it is.
Locals ==
    \A t \in Threads :
        /\ pc[t] \in Outside => next[t] = NULL
        /\ pc[t] \in {"xchg", "link"} => locked[t] = 0
        /\ pc[t] \notin {"idle", "backoff"} => cpu[t] = encode_cpu(t)
        /\ mynext[t] # NULL <=> pc[t] \in HasNext
        /\ mynext[t] # NULL => next[t] = NULL
        /\ pc[t] \in Spinning \cup Leaving \cup {"link"} => myprev[t] # NULL /\ prev[t] # NULL

\* How a waiting thread u is tied to p, the one before it.
Linked(p, u) ==
    \/ pc[u] = "link" /\ myprev[u] = p /\ prev[u] = p /\ next[p] = NULL
    \/ pc[u] \in Leaving /\ myprev[u] = p /\ next[p] = NULL
    \/ pc[u] \in Spinning /\ next[p] = u /\ prev[u] = p
    \/ /\ pc[u] \in Spinning /\ mynext[p] = u
       /\ prev[u] = IF pc[p] = "C_next" THEN myprev[p] ELSE p

\* The thread that p knows to be behind it.
Succ(p) == IF next[p] # NULL THEN next[p] ELSE mynext[p]

\* The order of the queue is that of the numbers.
Adjacent(num, p, u) ==
    /\ num[p] < num[u]
    /\ \A v \in Queued : num[v] <= num[p] \/ num[u] <= num[v]

Ordered(num) ==
    /\ \A t, u \in Queued : num[t] = num[u] => t = u
    /\ \A t \in Owners, u \in Queued : num[t] <= num[u]

Chain(num) == \A u \in Waiting : \E p \in Queued : Adjacent(num, p, u) /\ Linked(p, u)

Known(num) ==
    \A p \in Queued : Succ(p) # NULL =>
        /\ Succ(p) \in Waiting /\ pc[Succ(p)] \in Spinning
        /\ Adjacent(num, p, Succ(p))

Last(num, t) == tail = encode_cpu(t) /\ \A u \in Queued : num[u] <= num[t]

Ends(num) ==
    IF Queued = {} THEN tail = OSQ_UNLOCKED_VAL
    ELSE Owners # {} /\ \E t \in Queued : Last(num, t)

Numbered(num) == Ordered(num) /\ Chain(num) /\ Known(num) /\ Ends(num)

Queue == \E num \in [Threads -> Int] : Numbered(num)

IInv == Types /\ Locals /\ Queue

-----------------------------------------------------------------------------
(* Names of threads and the places they are in. *)

LEMMA Names ==
    /\ NULL \notin Threads
    /\ \A t \in Threads : encode_cpu(t) \in 1..N /\ cpu_to_node(encode_cpu(t)) = t
    /\ \A t \in Threads : encode_cpu(t) \in Nat /\ encode_cpu(t) # OSQ_UNLOCKED_VAL
    /\ \A t, u \in Threads : encode_cpu(t) = encode_cpu(u) => t = u
    /\ OSQ_UNLOCKED_VAL \in 0..N
BY OsqAssumption DEF Threads, NULL, encode_cpu, cpu_to_node, OSQ_UNLOCKED_VAL

LEMMA Places ==
    ASSUME Types, NEW t \in Threads
    PROVE  /\ t \in Queued <=> pc[t] \notin Outside
           /\ t \in Owners <=> \/ pc[t] \in Releasing \cup {"locked"}
                               \/ pc[t] \in Spinning /\ locked[t] = 1
           /\ t \in Waiting <=> \/ pc[t] \in Leaving \cup {"link"}
                                \/ pc[t] \in Spinning /\ locked[t] = 0
           /\ locked[t] \in {0, 1}
BY DEF Types, TypeOK, Labels, Outside, Leaving, Spinning, Releasing, Queued, Owners, Waiting

LEMMA QueuedThreads == Queued \subseteq Threads /\ Owners \subseteq Threads /\ Waiting \subseteq Queued
BY DEF Queued, Owners, Waiting

LEMMA OwnersQueued == Owners \subseteq Queued
BY DEF Queued, Owners, Spinning, Releasing

-----------------------------------------------------------------------------
(* Neighbours. *)

LEMMA OneBefore ==
    ASSUME NEW num \in [Threads -> Int], Ordered(num),
           NEW p \in Queued, NEW q \in Queued, NEW u \in Queued,
           Adjacent(num, p, u), Adjacent(num, q, u)
    PROVE  p = q
BY QueuedThreads DEF Ordered, Adjacent

LEMMA OneBehind ==
    ASSUME NEW num \in [Threads -> Int], Ordered(num),
           NEW p \in Queued, NEW u \in Queued, NEW v \in Queued,
           Adjacent(num, p, u), Adjacent(num, p, v)
    PROVE  u = v
BY QueuedThreads DEF Ordered, Adjacent

\* The place in front of a thread that is about to link itself or is leaving.
LEMMA InFront ==
    ASSUME Types, Locals, NEW num \in [Threads -> Int], Numbered(num),
           NEW t \in Threads, pc[t] \in Leaving \cup {"link"}
    PROVE  /\ t \in Waiting /\ myprev[t] \in Queued /\ myprev[t] # t
           /\ Adjacent(num, myprev[t], t)
           /\ next[myprev[t]] = NULL /\ mynext[myprev[t]] = NULL
           /\ pc[t] = "link" => prev[t] = myprev[t]
<1>1. t \in Waiting /\ t \in Queued /\ pc[t] \notin Spinning
  BY Places DEF Leaving, Spinning, Outside
<1>2. PICK p \in Queued : Adjacent(num, p, t) /\ Linked(p, t)
  BY <1>1 DEF Numbered, Chain
<1>3. /\ myprev[t] = p /\ next[p] = NULL
      /\ pc[t] = "link" => prev[t] = p
  BY <1>1, <1>2 DEF Linked, Leaving
<1>4. mynext[p] = NULL
  <2>. SUFFICES ASSUME mynext[p] # NULL PROVE FALSE
    OBVIOUS
  <2>1. Succ(p) = mynext[p]
    BY <1>3 DEF Succ
  <2>2. mynext[p] \in Waiting /\ pc[mynext[p]] \in Spinning /\ Adjacent(num, p, mynext[p])
    BY <2>1 DEF Numbered, Known
  <2>3. mynext[p] = t
    BY <1>1, <1>2, <2>2, OneBehind, QueuedThreads DEF Numbered
  <2>. QED
    BY <1>1, <2>2, <2>3
<1>5. p # t
  BY <1>2, QueuedThreads DEF Adjacent
<1>. QED
  BY <1>1, <1>2, <1>3, <1>4, <1>5

\* The place behind a thread with a next.
LEMMA Behind ==
    ASSUME Types, Locals, NEW num \in [Threads -> Int], Numbered(num),
           NEW t \in Threads, next[t] # NULL
    PROVE  /\ t \in Queued /\ next[t] \in Waiting /\ next[t] # t
           /\ pc[next[t]] \in Spinning /\ locked[next[t]] = 0
           /\ Adjacent(num, t, next[t])
           /\ prev[next[t]] = t /\ mynext[t] = NULL
<1>. DEFINE n == next[t]
<1>1. t \in Queued /\ mynext[t] = NULL
  BY Places DEF Locals
<1>2. n \in Waiting /\ pc[n] \in Spinning /\ Adjacent(num, t, n)
  BY <1>1 DEF Numbered, Known, Succ
<1>3. n \in Queued /\ n \in Threads /\ n # t
  BY <1>2, QueuedThreads DEF Adjacent
<1>4. PICK p \in Queued : Adjacent(num, p, n) /\ Linked(p, n)
  BY <1>2 DEF Numbered, Chain
<1>5. p = t
  BY <1>1, <1>2, <1>3, <1>4, OneBefore DEF Numbered
<1>6. prev[n] = t
  BY <1>1, <1>2, <1>3, <1>4, <1>5, Names DEF Linked, Leaving, Spinning
<1>7. locked[n] = 0
  BY <1>2, <1>3, Places DEF Waiting, Leaving, Spinning
<1>. QED
  BY <1>1, <1>2, <1>3, <1>6, <1>7

\* The place behind a thread that has taken its next.
LEMMA BehindTaken ==
    ASSUME Types, Locals, NEW num \in [Threads -> Int], Numbered(num),
           NEW t \in Threads, pc[t] \in HasNext
    PROVE  /\ t \in Queued /\ mynext[t] \in Waiting /\ mynext[t] # t
           /\ pc[mynext[t]] \in Spinning /\ locked[mynext[t]] = 0
           /\ Adjacent(num, t, mynext[t]) /\ next[t] = NULL
           /\ prev[mynext[t]] = IF pc[t] = "C_next" THEN myprev[t] ELSE t
<1>. DEFINE n == mynext[t]
<1>1. t \in Queued /\ n # NULL /\ next[t] = NULL
  BY Places DEF Locals, HasNext, Outside
<1>2. n \in Waiting /\ pc[n] \in Spinning /\ Adjacent(num, t, n)
  BY <1>1 DEF Numbered, Known, Succ
<1>3. n \in Queued /\ n \in Threads /\ n # t
  BY <1>2, QueuedThreads DEF Adjacent
<1>4. PICK p \in Queued : Adjacent(num, p, n) /\ Linked(p, n)
  BY <1>2 DEF Numbered, Chain
<1>5. p = t
  BY <1>1, <1>2, <1>3, <1>4, OneBefore DEF Numbered
<1>6. prev[n] = IF pc[t] = "C_next" THEN myprev[t] ELSE t
  BY <1>1, <1>2, <1>3, <1>4, <1>5, Names DEF Linked, Leaving, Spinning
<1>7. locked[n] = 0
  BY <1>2, <1>3, Places DEF Waiting, Leaving, Spinning
<1>. QED
  BY <1>1, <1>2, <1>3, <1>6, <1>7

\* The tail has nobody behind it.
LEMMA BehindLast ==
    ASSUME Types, Locals, NEW num \in [Threads -> Int], Numbered(num),
           NEW t \in Queued, tail = encode_cpu(t)
    PROVE  /\ \A u \in Queued : num[u] <= num[t]
           /\ next[t] = NULL /\ mynext[t] = NULL
<1>1. t \in Threads
  BY QueuedThreads
<1>2. PICK l \in Queued : Last(num, l)
  BY DEF Numbered, Ends
<1>3. l = t
  BY <1>1, <1>2, QueuedThreads, Names DEF Last
<1>4. \A u \in Queued : num[u] <= num[t]
  BY <1>2, <1>3 DEF Last
<1>5. Succ(t) = NULL
  <2>. SUFFICES ASSUME Succ(t) # NULL PROVE FALSE
    OBVIOUS
  <2>1. Succ(t) \in Queued /\ num[t] < num[Succ(t)]
    BY QueuedThreads DEF Numbered, Known, Adjacent
  <2>2. num[Succ(t)] <= num[t]
    BY <1>4, <2>1
  <2>. QED
    BY <1>1, <2>1, <2>2, QueuedThreads
<1>. QED
  BY <1>1, <1>4, <1>5 DEF Succ, Locals

-----------------------------------------------------------------------------
(* The queue of threads is the same, or has lost one that was not the owner. *)

LEMMA SameQueue ==
    ASSUME NEW num, Queued' = Queued, Owners' = Owners, tail' = tail
    PROVE  /\ Waiting' = Waiting
           /\ Ordered(num)' <=> Ordered(num)
           /\ Ends(num)' <=> Ends(num)
           /\ \A p, u : Adjacent(num, p, u)' <=> Adjacent(num, p, u)
<1>1. \A t : Last(num, t)' <=> Last(num, t)
  BY DEF Last, encode_cpu
<1>. QED
  BY <1>1 DEF Waiting, Ordered, Ends, Adjacent

LEMMA OneLess ==
    ASSUME NEW num, NEW t \in Waiting, Queued' = Queued \ {t}, Owners' = Owners
    PROVE  /\ Waiting' = Waiting \ {t}
           /\ Ordered(num) => Ordered(num)'
           /\ \A p, u : Adjacent(num, p, u) => Adjacent(num, p, u)'
BY DEF Waiting, Ordered, Adjacent

LEMMA LinkedKept ==
    ASSUME NEW p, NEW u, Linked(p, u),
           pc'[u] = pc[u], myprev'[u] = myprev[u], prev'[u] = prev[u],
           next'[p] = next[p], mynext'[p] = mynext[p],
           pc'[p] = "C_next" <=> pc[p] = "C_next",
           pc[p] = "C_next" => myprev'[p] = myprev[p]
    PROVE  Linked(p, u)'
BY DEF Linked

LEMMA KnownNext ==
    ASSUME NEW num,
           \A p, m : p \in Queued' /\ Succ(p)' = m /\ m # NULL =>
               m \in Waiting' /\ pc'[m] \in Spinning /\ Adjacent(num, p, m)'
    PROVE  Known(num)'
BY DEF Known, Adjacent

-----------------------------------------------------------------------------
(* The steps. *)

\* Initialising a node outside the queue.
LEMMA InitNodeInv ==
    ASSUME IInv, NEW t \in Threads, pc[t] \in {"idle", "backoff"}, InitNode(t),
           unqueues' \in [Threads -> 0..MAX_UNQUEUES]
    PROVE  IInv'
<1>. USE DEF IInv, InitNode, Goto
<1>0. PICK num \in [Threads -> Int] : Numbered(num)
  BY DEF Queue
<1>1. Types'
  BY Names DEF Types, TypeOK, Labels, Outside
<1>2. /\ pc'[t] = "xchg" /\ next'[t] = NULL /\ locked'[t] = 0 /\ cpu'[t] = encode_cpu(t)
      /\ mynext[t] = NULL /\ t \notin Queued
      /\ \A u \in Threads \ {t} :
            /\ pc'[u] = pc[u] /\ next'[u] = next[u] /\ locked'[u] = locked[u]
            /\ cpu'[u] = cpu[u]
  BY Places DEF Types, TypeOK, Locals, HasNext, Outside
<1>3. Locals'
  BY <1>2 DEF Locals, encode_cpu, HasNext, Outside, Spinning, Leaving
<1>4. Queued' = Queued /\ Owners' = Owners
  BY <1>2 DEF Queued, Owners, Spinning, Releasing
<1>5. Ordered(num)' /\ Ends(num)' /\ Waiting' = Waiting
  BY <1>0, <1>4, SameQueue DEF Numbered
<1>6. Chain(num)'
  <2>. SUFFICES ASSUME NEW u \in Waiting
                PROVE  \E p \in Queued : Adjacent(num, p, u)' /\ Linked(p, u)'
    BY <1>4, <1>5 DEF Chain
  <2>1. PICK p \in Queued : Adjacent(num, p, u) /\ Linked(p, u)
    BY <1>0 DEF Numbered, Chain
  <2>2. u \in Threads \ {t} /\ p \in Threads \ {t}
    BY <1>2, QueuedThreads
  <2>3. Linked(p, u)'
    BY <1>2, <2>1, <2>2, LinkedKept
  <2>. QED
    BY <1>4, <2>1, <2>3, SameQueue
<1>7. Known(num)'
  <2>. SUFFICES ASSUME NEW p \in Queued, NEW m, Succ(p)' = m, m # NULL
                PROVE  m \in Waiting' /\ pc'[m] \in Spinning /\ Adjacent(num, p, m)'
    BY <1>4, KnownNext
  <2>1. Succ(p) = m
    BY <1>2, QueuedThreads DEF Succ
  <2>2. m \in Waiting /\ pc[m] \in Spinning /\ Adjacent(num, p, m)
    BY <1>0, <2>1 DEF Numbered, Known
  <2>3. pc'[m] = pc[m]
    BY <1>2, <2>2, QueuedThreads
  <2>. QED
    BY <1>4, <1>5, <2>2, <2>3, SameQueue
<1>. QED
  BY <1>1, <1>3, <1>5, <1>6, <1>7 DEF Queue, Numbered

\* Moves that change neither the queue nor a link.
QuietMove(t, l) ==
    \/ pc[t] \in Spinning /\ l \in Spinning /\ myprev'[t] # NULL
    \/ pc[t] \in Spinning /\ l = "locked" /\ locked[t] = 1
    \/ pc[t] \in {"B_tail", "B_next"} /\ l \in {"B_tail", "B_next"} /\ myprev'[t] = myprev[t]
    \/ pc[t] \in {"locked", "U_next", "W_tail", "W_next"} /\ l \in {"U_next", "W_tail", "W_next"}

LEMMA QuietMoveInv ==
    ASSUME IInv, NEW t \in Threads, NEW l, Goto(t, l), QuietMove(t, l),
           UNCHANGED <<tail, next, prev, locked, cpu, mynext>>,
           myprev' \in [Threads -> Threads \cup {NULL}],
           \A u \in Threads \ {t} : myprev'[u] = myprev[u],
           unqueues' \in [Threads -> 0..MAX_UNQUEUES]
    PROVE  IInv'
<1>. USE DEF IInv
<1>0. PICK num \in [Threads -> Int] : Numbered(num)
  BY DEF Queue
<1>1. /\ pc'[t] = l /\ l \in Labels
      /\ \A u \in Threads \ {t} : pc'[u] = pc[u]
  BY DEF Types, Goto, QuietMove, Labels, Spinning, Leaving, Releasing
<1>2. Types'
  BY <1>1 DEF Types, TypeOK, Goto
<1>3. /\ l \notin HasNext /\ pc[t] \notin HasNext /\ l \notin Outside /\ pc[t] \notin Outside
      /\ l \notin {"xchg", "link", "idle", "backoff"}
      /\ pc[t] \notin {"idle", "backoff"}
      /\ l \in Spinning \cup Leaving => pc[t] \in Spinning \cup Leaving /\ myprev'[t] # NULL
  BY DEF QuietMove, HasNext, Outside, Spinning, Leaving, Releasing, Locals
<1>4. Locals'
  BY <1>1, <1>3 DEF Locals, encode_cpu
<1>5. Queued' = Queued /\ Owners' = Owners
  <2>1. t \in Queued /\ t \in Queued'
    BY <1>1, <1>3 DEF Queued, Outside
  <2>2. t \in Owners <=> t \in Owners'
    BY <1>1 DEF QuietMove, Owners, Spinning, Releasing
  <2>3. \A u \in Threads \ {t} : (u \in Queued <=> u \in Queued') /\ (u \in Owners <=> u \in Owners')
    BY <1>1 DEF Queued, Owners
  <2>. QED
    BY <2>1, <2>2, <2>3 DEF Queued, Owners
<1>6. Ordered(num)' /\ Ends(num)' /\ Waiting' = Waiting
  BY <1>0, <1>5, SameQueue DEF Numbered
<1>7. \A p \in Queued : Succ(p)' = Succ(p)
  BY DEF Succ
<1>8. Chain(num)'
  <2>. SUFFICES ASSUME NEW u \in Waiting
                PROVE  \E p \in Queued : Adjacent(num, p, u)' /\ Linked(p, u)'
    BY <1>5, <1>6 DEF Chain
  <2>1. PICK p \in Queued : Adjacent(num, p, u) /\ Linked(p, u)
    BY <1>0 DEF Numbered, Chain
  <2>2. u \in Threads /\ p \in Threads
    BY QueuedThreads
  <2>3. /\ pc'[p] = "C_next" <=> pc[p] = "C_next"
        /\ pc[p] = "C_next" => myprev'[p] = myprev[p]
    BY <1>1, <1>3, <2>2 DEF HasNext
  <2>4. CASE u # t
    BY <1>1, <1>5, <2>1, <2>2, <2>3, <2>4, LinkedKept, SameQueue
  <2>5. CASE u = t
    <3>1. \/ pc[t] \in Spinning /\ l \in Spinning
          \/ pc[t] \in Leaving /\ l \in Leaving /\ myprev'[t] = myprev[t]
      BY <2>2, <2>5, Places DEF QuietMove, Spinning, Leaving
    <3>2. Linked(p, t)'
      BY <1>1, <2>1, <2>3, <2>5, <3>1 DEF Linked, Spinning, Leaving
    <3>. QED
      BY <1>5, <2>1, <2>5, <3>2, SameQueue
  <2>. QED
    BY <2>4, <2>5
<1>9. Known(num)'
  <2>. SUFFICES ASSUME NEW p \in Queued, NEW m, Succ(p)' = m, m # NULL
                PROVE  m \in Waiting' /\ pc'[m] \in Spinning /\ Adjacent(num, p, m)'
    BY <1>5, KnownNext
  <2>1. m \in Waiting /\ pc[m] \in Spinning /\ Adjacent(num, p, m)
    BY <1>0, <1>7 DEF Numbered, Known
  <2>2. m \in Threads /\ locked[m] = 0
    BY <2>1, QueuedThreads, Places DEF Spinning, Leaving
  <2>3. pc'[m] \in Spinning
    BY <1>1, <2>1, <2>2 DEF QuietMove, Spinning
  <2>. QED
    BY <1>5, <1>6, <2>1, <2>3, SameQueue
<1>. QED
  BY <1>2, <1>4, <1>6, <1>8, <1>9 DEF Queue, Numbered

\* WRITE_ONCE(prev->next, node): the place in front is still there, without a next.
LEMMA LinkInv ==
    ASSUME IInv, NEW t \in Threads, Link(t)
    PROVE  IInv'
<1>. USE DEF IInv
<1>0. PICK num \in [Threads -> Int] : Numbered(num)
  BY DEF Queue
<1>q. PICK q : q = myprev[t]
  OBVIOUS
<1>1. /\ t \in Waiting /\ q \in Queued /\ q # t /\ Adjacent(num, q, t)
      /\ next[q] = NULL /\ mynext[q] = NULL /\ prev[t] = q
      /\ pc[t] = "link"
  BY <1>0, <1>q, InFront DEF Link
<1>2. q \in Threads /\ t \in Queued
  BY <1>1, QueuedThreads
<1>3. /\ pc'[t] = "spin" /\ next'[q] = t /\ locked[t] = 0
      /\ \A u \in Threads \ {t} : pc'[u] = pc[u]
      /\ \A u \in Threads \ {q} : next'[u] = next[u]
      /\ UNCHANGED <<tail, prev, locked, cpu, myprev, mynext, unqueues>>
  BY <1>1, <1>2, <1>q DEF Link, Goto, Types, TypeOK, Locals
<1>4. Types'
  BY <1>1, <1>2, <1>q DEF Link, Goto, Types, TypeOK, Labels, Spinning
<1>5. Locals'
  BY <1>1, <1>2, <1>3, Places
     DEF Locals, encode_cpu, HasNext, Outside, Spinning, Leaving
<1>6. Queued' = Queued /\ Owners' = Owners
  BY <1>1, <1>3 DEF Queued, Owners, Spinning, Releasing
<1>7. Ordered(num)' /\ Ends(num)' /\ Waiting' = Waiting
  BY <1>0, <1>3, <1>6, SameQueue DEF Numbered
<1>8. Chain(num)'
  <2>. SUFFICES ASSUME NEW u \in Waiting
                PROVE  \E p \in Queued : Adjacent(num, p, u)' /\ Linked(p, u)'
    BY <1>6, <1>7 DEF Chain
  <2>1. CASE u = t
    <3>1. Linked(q, t)'
      BY <1>1, <1>3 DEF Linked, Spinning
    <3>. QED
      BY <1>1, <1>3, <1>6, <2>1, <3>1, SameQueue
  <2>2. CASE u # t
    <3>1. PICK p \in Queued : Adjacent(num, p, u) /\ Linked(p, u)
      BY <1>0 DEF Numbered, Chain
    <3>2. p # q /\ p \in Threads /\ u \in Threads
      BY <1>0, <1>1, <1>2, <2>2, <3>1, OneBehind, QueuedThreads DEF Numbered
    <3>3. Linked(p, u)'
      BY <1>1, <1>3, <2>2, <3>1, <3>2, LinkedKept
    <3>. QED
      BY <1>3, <1>6, <3>1, <3>3, SameQueue
  <2>. QED
    BY <2>1, <2>2
<1>9. Known(num)'
  <2>. SUFFICES ASSUME NEW p \in Queued, NEW m, Succ(p)' = m, m # NULL
                PROVE  m \in Waiting' /\ pc'[m] \in Spinning /\ Adjacent(num, p, m)'
    BY <1>6, KnownNext
  <2>1. CASE p = q
    <3>1. m = t
      BY <1>3, <2>1, Names DEF Succ
    <3>. QED
      BY <1>1, <1>3, <1>6, <1>7, <2>1, <3>1, SameQueue DEF Spinning
  <2>2. CASE p # q
    <3>1. Succ(p) = m
      BY <1>3, <2>2, QueuedThreads DEF Succ
    <3>2. m \in Waiting /\ pc[m] \in Spinning /\ Adjacent(num, p, m)
      BY <1>0, <3>1 DEF Numbered, Known
    <3>3. pc'[m] \in Spinning
      BY <1>3, <3>2, QueuedThreads DEF Spinning
    <3>. QED
      BY <1>3, <1>6, <1>7, <3>2, <3>3, SameQueue
  <2>. QED
    BY <2>1, <2>2
<1>. QED
  BY <1>4, <1>5, <1>7, <1>8, <1>9 DEF Queue, Numbered

\* Step A undoes a link that is there: its two ends are neighbours.
LEMMA UndoInv ==
    ASSUME IInv, NEW t \in Threads, StepA(t), next[myprev[t]] = t
    PROVE  IInv'
<1>. USE DEF IInv
<1>0. PICK num \in [Threads -> Int] : Numbered(num)
  BY DEF Queue
<1>q. PICK q : q = myprev[t]
  OBVIOUS
<1>1. q \in Threads /\ pc[t] = "A_next" /\ q # NULL /\ prev[t] # NULL
  BY <1>q DEF StepA, Types, TypeOK, Locals, Spinning
<1>2. /\ t \in Waiting /\ q \in Queued /\ q # t /\ Adjacent(num, q, t)
      /\ mynext[q] = NULL /\ locked[t] = 0
  BY <1>0, <1>1, <1>q, Behind, Names
<1>3. /\ pc'[t] = "B_tail" /\ next'[q] = NULL
      /\ \A u \in Threads \ {t} : pc'[u] = pc[u]
      /\ \A u \in Threads \ {q} : next'[u] = next[u]
      /\ UNCHANGED <<tail, prev, locked, cpu, myprev, mynext, unqueues>>
  BY <1>1, <1>q DEF StepA, Goto, Types, TypeOK
<1>4. Types'
  BY <1>1, <1>q DEF StepA, Goto, Types, TypeOK, Labels, Leaving
<1>5. Locals'
  BY <1>1, <1>2, <1>3 DEF Locals, encode_cpu, HasNext, Outside, Spinning, Leaving
<1>6. Queued' = Queued /\ Owners' = Owners
  BY <1>1, <1>2, <1>3 DEF Queued, Owners, Spinning, Releasing
<1>7. Ordered(num)' /\ Ends(num)' /\ Waiting' = Waiting
  BY <1>0, <1>3, <1>6, SameQueue DEF Numbered
<1>8. t \in Queued /\ myprev'[t] = q
  BY <1>2, <1>3, <1>q, QueuedThreads
<1>9. Chain(num)'
  <2>. SUFFICES ASSUME NEW u \in Waiting
                PROVE  \E p \in Queued : Adjacent(num, p, u)' /\ Linked(p, u)'
    BY <1>6, <1>7 DEF Chain
  <2>1. CASE u = t
    <3>1. Linked(q, t)'
      BY <1>3, <1>8 DEF Linked, Leaving
    <3>. QED
      BY <1>2, <1>3, <1>6, <2>1, <3>1, SameQueue
  <2>2. CASE u # t
    <3>1. PICK p \in Queued : Adjacent(num, p, u) /\ Linked(p, u)
      BY <1>0 DEF Numbered, Chain
    <3>2. p # q /\ p \in Threads /\ u \in Threads
      BY <1>0, <1>2, <1>8, <2>2, <3>1, OneBehind, QueuedThreads DEF Numbered
    <3>3. Linked(p, u)'
      BY <1>1, <1>3, <2>2, <3>1, <3>2, LinkedKept
    <3>. QED
      BY <1>3, <1>6, <3>1, <3>3, SameQueue
  <2>. QED
    BY <2>1, <2>2
<1>10. Known(num)'
  <2>. SUFFICES ASSUME NEW p \in Queued, NEW m, Succ(p)' = m, m # NULL
                PROVE  m \in Waiting' /\ pc'[m] \in Spinning /\ Adjacent(num, p, m)'
    BY <1>6, KnownNext
  <2>1. p # q
    BY <1>2, <1>3 DEF Succ
  <2>2. Succ(p) = m
    BY <1>3, <2>1, QueuedThreads DEF Succ
  <2>3. m \in Waiting /\ pc[m] \in Spinning /\ Adjacent(num, p, m)
    BY <1>0, <2>2 DEF Numbered, Known
  <2>4. m # t /\ m \in Threads
    BY <1>0, <1>2, <1>8, <2>1, <2>3, OneBefore, QueuedThreads DEF Numbered
  <2>. QED
    BY <1>3, <1>6, <1>7, <2>3, <2>4, SameQueue
<1>. QED
  BY <1>4, <1>5, <1>7, <1>9, <1>10 DEF Queue, Numbered

\* Taking the next out of the own node, to leave or to release the lock.
LEMMA TakeNextInv ==
    ASSUME IInv, NEW t \in Threads, NEW here, NEW done, NEW other,
           WaitNextXchg(t, here, done, other), next[t] # NULL,
           \/ here = "B_next" /\ done = "C_prev"
           \/ here \in {"U_next", "W_next"} /\ done = "U_grant"
    PROVE  IInv'
<1>. USE DEF IInv
<1>0. PICK num \in [Threads -> Int] : Numbered(num)
  BY DEF Queue
<1>q. PICK n : n = next[t]
  OBVIOUS
<1>1. /\ t \in Queued /\ n \in Waiting /\ n # t /\ pc[n] \in Spinning
      /\ Adjacent(num, t, n) /\ prev[n] = t /\ mynext[t] = NULL /\ n # NULL
  BY <1>0, <1>q, Behind
<1>2. n \in Threads /\ n \in Queued
  BY <1>1, QueuedThreads
<1>3. /\ pc[t] = here /\ pc'[t] = done /\ next'[t] = NULL /\ mynext'[t] = n
      /\ \A u \in Threads \ {t} :
            pc'[u] = pc[u] /\ next'[u] = next[u] /\ mynext'[u] = mynext[u]
      /\ UNCHANGED <<tail, prev, locked, cpu, myprev, unqueues>>
  BY <1>q DEF WaitNextXchg, Goto, Types, TypeOK
<1>4. Types'
  BY <1>2, <1>q DEF WaitNextXchg, Goto, Types, TypeOK, Labels, Leaving, Releasing
<1>5. Locals'
  BY <1>1, <1>3 DEF Locals, encode_cpu, HasNext, Outside, Spinning, Leaving
<1>6. Queued' = Queued /\ Owners' = Owners
  BY <1>3 DEF Queued, Owners, Spinning, Releasing
<1>7. Ordered(num)' /\ Ends(num)' /\ Waiting' = Waiting
  BY <1>0, <1>3, <1>6, SameQueue DEF Numbered
<1>8. Chain(num)'
  <2>. SUFFICES ASSUME NEW u \in Waiting
                PROVE  \E p \in Queued : Adjacent(num, p, u)' /\ Linked(p, u)'
    BY <1>6, <1>7 DEF Chain
  <2>1. CASE u = n
    <3>1. Linked(t, n)'
      BY <1>1, <1>2, <1>3 DEF Linked
    <3>. QED
      BY <1>1, <1>3, <1>6, <2>1, <3>1, SameQueue
  <2>2. CASE u # n
    <3>1. PICK p \in Queued : Adjacent(num, p, u) /\ Linked(p, u)
      BY <1>0 DEF Numbered, Chain
    <3>2. p # t /\ p \in Threads /\ u \in Threads
      BY <1>0, <1>1, <1>2, <2>2, <3>1, OneBehind, QueuedThreads DEF Numbered
    <3>3. Linked(p, u)'
      <4>1. CASE u # t
        BY <1>3, <3>1, <3>2, <4>1, LinkedKept
      <4>2. CASE u = t
        <5>1. here = "B_next" /\ done = "C_prev"
          BY <1>3, <4>2 DEF Waiting, Owners, Releasing
        <5>. QED
          BY <1>3, <3>1, <3>2, <4>2, <5>1 DEF Linked, Leaving, Spinning
      <4>. QED
        BY <4>1, <4>2
    <3>. QED
      BY <1>3, <1>6, <3>1, <3>3, SameQueue
  <2>. QED
    BY <2>1, <2>2
<1>9. Known(num)'
  <2>. SUFFICES ASSUME NEW p \in Queued, NEW m, Succ(p)' = m, m # NULL
                PROVE  m \in Waiting' /\ pc'[m] \in Spinning /\ Adjacent(num, p, m)'
    BY <1>6, KnownNext
  <2>1. CASE p = t
    <3>1. m = n
      BY <1>3, <2>1 DEF Succ
    <3>. QED
      BY <1>1, <1>2, <1>3, <1>6, <1>7, <2>1, <3>1, SameQueue
  <2>2. CASE p # t
    <3>1. Succ(p) = m
      BY <1>3, <2>2, QueuedThreads DEF Succ
    <3>2. m \in Waiting /\ pc[m] \in Spinning /\ Adjacent(num, p, m)
      BY <1>0, <3>1 DEF Numbered, Known
    <3>3. pc'[m] \in Spinning
      BY <1>3, <3>2, QueuedThreads DEF Spinning
    <3>. QED
      BY <1>3, <1>6, <1>7, <3>2, <3>3, SameQueue
  <2>. QED
    BY <2>1, <2>2
<1>. QED
  BY <1>4, <1>5, <1>7, <1>8, <1>9 DEF Queue, Numbered

\* Step C, first half: the thread behind gets the one in front as its prev.
LEMMA NewPrevInv ==
    ASSUME IInv, NEW t \in Threads, StepCPrev(t)
    PROVE  IInv'
<1>. USE DEF IInv
<1>0. PICK num \in [Threads -> Int] : Numbered(num)
  BY DEF Queue
<1>q. PICK n : n = mynext[t]
  OBVIOUS
<1>1. /\ t \in Queued /\ n \in Waiting /\ n # t /\ pc[n] \in Spinning
      /\ Adjacent(num, t, n) /\ pc[t] = "C_prev"
  BY <1>0, <1>q, BehindTaken DEF StepCPrev, HasNext
<1>2. n \in Threads /\ n \in Queued /\ myprev[t] \in Threads
  BY <1>1, QueuedThreads DEF Types, TypeOK, Locals, Leaving
<1>3. /\ pc'[t] = "C_next" /\ prev'[n] = myprev[t]
      /\ \A u \in Threads \ {t} : pc'[u] = pc[u]
      /\ \A u \in Threads \ {n} : prev'[u] = prev[u]
      /\ UNCHANGED <<tail, next, locked, cpu, myprev, mynext, unqueues>>
  BY <1>2, <1>q DEF StepCPrev, Goto, Types, TypeOK
<1>4. Types'
  BY <1>2, <1>q DEF StepCPrev, Goto, Types, TypeOK, Labels, Leaving
<1>5. Locals'
  BY <1>1, <1>2, <1>3, Names DEF Locals, encode_cpu, HasNext, Outside, Spinning, Leaving
<1>6. Queued' = Queued /\ Owners' = Owners
  BY <1>1, <1>3 DEF Queued, Owners, Spinning, Releasing
<1>7. Ordered(num)' /\ Ends(num)' /\ Waiting' = Waiting
  BY <1>0, <1>3, <1>6, SameQueue DEF Numbered
<1>8. Chain(num)'
  <2>. SUFFICES ASSUME NEW u \in Waiting
                PROVE  \E p \in Queued : Adjacent(num, p, u)' /\ Linked(p, u)'
    BY <1>6, <1>7 DEF Chain
  <2>1. CASE u = n
    <3>1. Linked(t, n)'
      BY <1>1, <1>2, <1>3, <1>q DEF Linked
    <3>. QED
      BY <1>1, <1>3, <1>6, <2>1, <3>1, SameQueue
  <2>2. CASE u # n
    <3>1. PICK p \in Queued : Adjacent(num, p, u) /\ Linked(p, u)
      BY <1>0 DEF Numbered, Chain
    <3>2. p # t /\ p \in Threads /\ u \in Threads
      BY <1>0, <1>1, <1>2, <2>2, <3>1, OneBehind, QueuedThreads DEF Numbered
    <3>3. Linked(p, u)'
      <4>1. CASE u # t
        BY <1>3, <2>2, <3>1, <3>2, <4>1, LinkedKept
      <4>2. CASE u = t
        BY <1>1, <1>3, <3>1, <3>2, <4>2 DEF Linked, Leaving, Spinning
      <4>. QED
        BY <4>1, <4>2
    <3>. QED
      BY <1>3, <1>6, <3>1, <3>3, SameQueue
  <2>. QED
    BY <2>1, <2>2
<1>9. Known(num)'
  <2>. SUFFICES ASSUME NEW p \in Queued, NEW m, Succ(p)' = m, m # NULL
                PROVE  m \in Waiting' /\ pc'[m] \in Spinning /\ Adjacent(num, p, m)'
    BY <1>6, KnownNext
  <2>1. Succ(p) = m
    BY <1>3 DEF Succ
  <2>2. m \in Waiting /\ pc[m] \in Spinning /\ Adjacent(num, p, m)
    BY <1>0, <2>1 DEF Numbered, Known
  <2>3. pc'[m] \in Spinning
    BY <1>1, <1>3, <2>2, QueuedThreads DEF Spinning
  <2>. QED
    BY <1>3, <1>6, <1>7, <2>2, <2>3, SameQueue
<1>. QED
  BY <1>4, <1>5, <1>7, <1>8, <1>9 DEF Queue, Numbered

\* Step C, second half: the threads in front and behind are joined.
LEMMA JoinInv ==
    ASSUME IInv, NEW t \in Threads, StepCNext(t)
    PROVE  IInv'
<1>. USE DEF IInv
<1>0. PICK num \in [Threads -> Int] : Numbered(num)
  BY DEF Queue
<1>q. PICK p, n : p = myprev[t] /\ n = mynext[t]
  OBVIOUS
<1>1. /\ t \in Waiting /\ p \in Queued /\ p # t
      /\ Adjacent(num, p, t) /\ next[p] = NULL /\ mynext[p] = NULL
  BY <1>0, <1>q, InFront DEF StepCNext, Leaving
<1>2. /\ n \in Waiting /\ n # t /\ pc[n] \in Spinning
      /\ Adjacent(num, t, n) /\ next[t] = NULL /\ prev[n] = p
  BY <1>0, <1>q, BehindTaken DEF StepCNext, HasNext
<1>3. t \in Queued /\ n \in Queued /\ n \in Threads /\ p \in Threads
  BY <1>1, <1>2, QueuedThreads
<1>4. /\ pc[t] = "C_next" /\ pc'[t] = "backoff" /\ mynext'[t] = NULL /\ next'[p] = n
      /\ \A u \in Threads \ {t} :
            pc'[u] = pc[u] /\ myprev'[u] = myprev[u] /\ mynext'[u] = mynext[u]
      /\ \A u \in Threads \ {p} : next'[u] = next[u]
      /\ UNCHANGED <<tail, prev, locked, cpu, unqueues>>
  BY <1>3, <1>q DEF StepCNext, Goto, Types, TypeOK
<1>5. Types'
  BY <1>3, <1>q, Names DEF StepCNext, Goto, Types, TypeOK, Labels, Outside
<1>6. Locals'
  <2>1. pc[p] \notin Outside
    BY <1>1, <1>3, Places
  <2>. QED
    BY <1>1, <1>2, <1>3, <1>4, <2>1 DEF Locals, encode_cpu, HasNext, Outside, Spinning, Leaving
<1>7. Queued' = Queued \ {t} /\ Owners' = Owners
  BY <1>3, <1>4 DEF Queued, Owners, Spinning, Releasing
<1>8. /\ Ordered(num)' /\ Waiting' = Waiting \ {t}
      /\ \A r, u : Adjacent(num, r, u) => Adjacent(num, r, u)'
  BY <1>0, <1>1, <1>7, OneLess DEF Numbered
<1>9. Adjacent(num, p, n)'
  <2>1. num[p] < num[n]
    BY <1>1, <1>2, <1>3 DEF Adjacent
  <2>2. ASSUME NEW v \in Queued, v # t
        PROVE  num[v] <= num[p] \/ num[n] <= num[v]
    <3>1. num[v] # num[t]
      BY <1>0, <1>3, <2>2 DEF Numbered, Ordered
    <3>. QED
      BY <1>1, <1>2, <1>3, <2>2, <3>1, QueuedThreads DEF Adjacent
  <2>. QED
    BY <1>7, <2>1, <2>2 DEF Adjacent
<1>10. Ends(num)'
  <2>1. PICK l \in Queued : Last(num, l)
    BY <1>0, <1>3 DEF Numbered, Ends
  <2>2. l # t
    BY <1>2, <1>3, <2>1 DEF Last, Adjacent
  <2>3. Last(num, l)'
    BY <1>4, <1>7, <2>1 DEF Last, encode_cpu
  <2>. QED
    BY <1>0, <1>3, <1>7, <2>1, <2>2, <2>3 DEF Numbered, Ends
<1>11. Chain(num)'
  <2>. SUFFICES ASSUME NEW u \in Waiting, u # t
                PROVE  \E r \in Queued : r # t /\ Adjacent(num, r, u)' /\ Linked(r, u)'
    BY <1>7, <1>8 DEF Chain
  <2>1. CASE u = n
    <3>1. Linked(p, n)'
      BY <1>2, <1>3, <1>4 DEF Linked
    <3>. QED
      BY <1>1, <1>9, <2>1, <3>1
  <2>2. CASE u # n
    <3>1. PICK r \in Queued : Adjacent(num, r, u) /\ Linked(r, u)
      BY <1>0 DEF Numbered, Chain
    <3>2. r # t /\ r # p /\ r \in Threads /\ u \in Threads
      BY <1>0, <1>1, <1>2, <1>3, <2>2, <3>1, OneBehind, QueuedThreads DEF Numbered
    <3>3. Linked(r, u)'
      BY <1>4, <3>1, <3>2, LinkedKept
    <3>. QED
      BY <1>8, <3>1, <3>2, <3>3
  <2>. QED
    BY <2>1, <2>2
<1>12. Known(num)'
  <2>. SUFFICES ASSUME NEW r \in Queued, r # t, NEW m, Succ(r)' = m, m # NULL
                PROVE  m \in Waiting' /\ pc'[m] \in Spinning /\ Adjacent(num, r, m)'
    BY <1>7, KnownNext
  <2>1. CASE r = p
    <3>1. m = n
      BY <1>2, <1>3, <1>4, <2>1, Names DEF Succ
    <3>. QED
      BY <1>2, <1>3, <1>4, <1>8, <1>9, <2>1, <3>1
  <2>2. CASE r # p
    <3>1. Succ(r) = m
      BY <1>4, <2>2, QueuedThreads DEF Succ
    <3>2. m \in Waiting /\ pc[m] \in Spinning /\ Adjacent(num, r, m)
      BY <1>0, <3>1 DEF Numbered, Known
    <3>3. m # t /\ m \in Threads
      BY <1>4, <3>2, QueuedThreads DEF Spinning
    <3>. QED
      BY <1>4, <1>8, <3>2, <3>3
  <2>. QED
    BY <2>1, <2>2
<1>. QED
  BY <1>5, <1>6, <1>8, <1>10, <1>11, <1>12 DEF Queue, Numbered

\* Step B: the last thread leaves, and the tail goes back to the one in front.
LEMMA TailBackInv ==
    ASSUME IInv, NEW t \in Threads, StepBTail(t), tail = encode_cpu(t)
    PROVE  IInv'
<1>. USE DEF IInv
<1>0. PICK num \in [Threads -> Int] : Numbered(num)
  BY DEF Queue
<1>q. PICK p : p = myprev[t]
  OBVIOUS
<1>1. /\ t \in Waiting /\ p \in Queued /\ p # t
      /\ Adjacent(num, p, t) /\ next[p] = NULL /\ mynext[p] = NULL
  BY <1>0, <1>q, InFront DEF StepBTail, WaitNextTail, Leaving
<1>2. t \in Queued /\ p \in Threads
  BY <1>1, QueuedThreads
<1>3. next[t] = NULL /\ mynext[t] = NULL /\ \A u \in Queued : num[u] <= num[t]
  BY <1>0, <1>2, BehindLast
<1>p. cpu[p] = encode_cpu(p)
  BY <1>1, <1>2, Places DEF Locals, Outside
<1>4. /\ pc[t] = "B_tail" /\ pc'[t] = "backoff" /\ tail' = encode_cpu(p)
      /\ \A u \in Threads \ {t} : pc'[u] = pc[u] /\ myprev'[u] = myprev[u]
      /\ UNCHANGED <<next, prev, locked, cpu, mynext, unqueues>>
  BY <1>2, <1>q, <1>p DEF StepBTail, WaitNextTail, Goto, Types, TypeOK
<1>5. Types'
  <2>1. tail' \in 0..N
    BY <1>2, <1>4, Names
  <2>. QED
    BY <1>4, <2>1 DEF StepBTail, WaitNextTail, Goto, Types, TypeOK, Labels, Outside, encode_cpu
<1>6. Locals'
  BY <1>3, <1>4 DEF Locals, encode_cpu, HasNext, Outside, Spinning, Leaving
<1>7. Queued' = Queued \ {t} /\ Owners' = Owners
  BY <1>2, <1>4 DEF Queued, Owners, Spinning, Releasing
<1>8. /\ Ordered(num)' /\ Waiting' = Waiting \ {t}
      /\ \A r, u : Adjacent(num, r, u) => Adjacent(num, r, u)'
  BY <1>0, <1>1, <1>7, OneLess DEF Numbered
<1>9. Ends(num)'
  <2>1. ASSUME NEW v \in Queued, v # t
        PROVE  num[v] <= num[p]
    <3>1. num[v] # num[t] /\ num[v] <= num[t]
      BY <1>0, <1>2, <1>3, <2>1 DEF Numbered, Ordered
    <3>. QED
      BY <1>1, <1>2, <2>1, <3>1, QueuedThreads DEF Adjacent
  <2>2. Last(num, p)'
    BY <1>4, <1>7, <2>1 DEF Last, encode_cpu
  <2>. QED
    BY <1>0, <1>1, <1>2, <1>7, <2>2 DEF Numbered, Ends
<1>10. Chain(num)'
  <2>. SUFFICES ASSUME NEW u \in Waiting, u # t
                PROVE  \E r \in Queued : r # t /\ Adjacent(num, r, u)' /\ Linked(r, u)'
    BY <1>7, <1>8 DEF Chain
  <2>1. PICK r \in Queued : Adjacent(num, r, u) /\ Linked(r, u)
    BY <1>0 DEF Numbered, Chain
  <2>2. r # t /\ r \in Threads /\ u \in Threads /\ u \in Queued
    BY <1>3, <2>1, QueuedThreads DEF Adjacent
  <2>3. Linked(r, u)'
    BY <1>4, <2>1, <2>2, LinkedKept
  <2>. QED
    BY <1>8, <2>1, <2>2, <2>3
<1>11. Known(num)'
  <2>. SUFFICES ASSUME NEW r \in Queued, r # t, NEW m, Succ(r)' = m, m # NULL
                PROVE  m \in Waiting' /\ pc'[m] \in Spinning /\ Adjacent(num, r, m)'
    BY <1>7, KnownNext
  <2>1. Succ(r) = m
    BY <1>4 DEF Succ
  <2>2. m \in Waiting /\ pc[m] \in Spinning /\ Adjacent(num, r, m)
    BY <1>0, <2>1 DEF Numbered, Known
  <2>3. m # t /\ m \in Threads
    BY <1>4, <2>2, QueuedThreads DEF Spinning
  <2>. QED
    BY <1>4, <1>8, <2>2, <2>3
<1>. QED
  BY <1>5, <1>6, <1>8, <1>9, <1>10, <1>11 DEF Queue, Numbered

\* Releasing the lock with nobody behind: the queue becomes empty.
LEMMA TailClearInv ==
    ASSUME IInv, NEW t \in Threads, pc[t] \in {"locked", "W_tail"}, tail = encode_cpu(t),
           tail' = OSQ_UNLOCKED_VAL, Goto(t, "idle"),
           myprev' = [myprev EXCEPT ![t] = NULL],
           UNCHANGED <<next, prev, locked, cpu, mynext, unqueues>>
    PROVE  IInv'
<1>. USE DEF IInv
<1>0. PICK num \in [Threads -> Int] : Numbered(num)
  BY DEF Queue
<1>1. t \in Owners /\ t \in Queued
  BY OwnersQueued DEF Owners, Releasing
<1>2. next[t] = NULL /\ mynext[t] = NULL /\ \A u \in Queued : num[u] <= num[t]
  BY <1>0, <1>1, BehindLast
<1>3. \A u \in Queued : u = t
  <2>. SUFFICES ASSUME NEW u \in Queued PROVE u = t
    OBVIOUS
  <2>1. num[t] <= num[u] /\ num[u] <= num[t]
    BY <1>0, <1>1, <1>2 DEF Numbered, Ordered
  <2>2. num[t] = num[u]
    BY <2>1, QueuedThreads
  <2>. QED
    BY <1>0, <1>1, <2>2 DEF Numbered, Ordered
<1>4. pc'[t] = "idle" /\ \A u \in Threads \ {t} : pc'[u] = pc[u] /\ myprev'[u] = myprev[u]
  BY DEF Goto, Types, TypeOK
<1>5. Types'
  BY Names DEF Goto, Types, TypeOK, Labels, Outside
<1>6. Locals'
  BY <1>2, <1>4 DEF Locals, encode_cpu, HasNext, Outside, Spinning, Leaving
<1>7. Queued' = {} /\ Owners' = {} /\ Waiting' = {}
  BY <1>3, <1>4 DEF Queued, Owners, Waiting, Spinning, Releasing
<1>8. Numbered(num)'
  BY <1>7 DEF Numbered, Ordered, Chain, Known, Ends, OSQ_UNLOCKED_VAL
<1>. QED
  BY <1>5, <1>6, <1>8 DEF Queue

\* Giving the lock to the next.
LEMMA GrantInv ==
    ASSUME IInv, NEW t \in Threads, UnlockGrant(t)
    PROVE  IInv'
<1>. USE DEF IInv
<1>0. PICK num \in [Threads -> Int] : Numbered(num)
  BY DEF Queue
<1>q. PICK n : n = mynext[t]
  OBVIOUS
<1>1. /\ t \in Queued /\ n \in Waiting /\ n # t /\ pc[n] \in Spinning
      /\ Adjacent(num, t, n) /\ next[t] = NULL
  BY <1>0, <1>q, BehindTaken DEF UnlockGrant, HasNext
<1>2. n \in Queued /\ n \in Threads /\ t \in Owners
  BY <1>1, QueuedThreads DEF UnlockGrant, Owners, Releasing
<1>3. \A u \in Owners : u = t
  <2>. SUFFICES ASSUME NEW u \in Owners PROVE u = t
    OBVIOUS
  <2>1. u \in Queued
    BY OwnersQueued
  <2>2. num[t] <= num[u] /\ num[u] <= num[t]
    BY <1>0, <1>1, <1>2, <2>1 DEF Numbered, Ordered
  <2>3. num[t] = num[u]
    BY <2>1, <2>2, QueuedThreads
  <2>. QED
    BY <1>0, <1>1, <2>1, <2>3 DEF Numbered, Ordered
<1>4. /\ pc[t] = "U_grant" /\ pc'[t] = "idle" /\ mynext'[t] = NULL /\ locked'[n] = 1
      /\ \A u \in Threads \ {t} : pc'[u] = pc[u] /\ mynext'[u] = mynext[u]
      /\ \A u \in Threads \ {n} : locked'[u] = locked[u]
      /\ UNCHANGED <<tail, next, prev, cpu, myprev, unqueues>>
  BY <1>2, <1>q DEF UnlockGrant, Goto, Types, TypeOK
<1>5. Types'
  BY <1>2, <1>q, Names DEF UnlockGrant, Goto, Types, TypeOK, Labels, Outside
<1>6. Locals'
  BY <1>1, <1>2, <1>4 DEF Locals, encode_cpu, HasNext, Outside, Spinning, Leaving
<1>7. Queued' = Queued \ {t}
  BY <1>4 DEF Queued
<1>8. Owners' = {n}
  <2>1. \A u \in Threads : u \in Owners' <=> u = n
    BY <1>1, <1>2, <1>3, <1>4 DEF Owners, Spinning, Releasing
  <2>2. Owners' \subseteq Threads
    BY DEF Owners
  <2>. QED
    BY <1>2, <2>1, <2>2
<1>9. Waiting' = Waiting \ {n} /\ t \notin Waiting
  BY <1>2, <1>3, <1>7, <1>8 DEF Waiting
<1>10. \A r, u : Adjacent(num, r, u) => Adjacent(num, r, u)'
  BY <1>7 DEF Adjacent
<1>11. Ordered(num)'
  <2>1. ASSUME NEW u \in Queued, u # t
        PROVE  num[n] <= num[u]
    <3>1. num[u] # num[t] /\ num[t] <= num[u]
      BY <1>0, <1>1, <1>2, <2>1 DEF Numbered, Ordered
    <3>. QED
      BY <1>1, <1>2, <2>1, <3>1, QueuedThreads DEF Adjacent
  <2>. QED
    BY <1>0, <1>7, <1>8, <2>1 DEF Numbered, Ordered
<1>12. Ends(num)'
  <2>1. PICK l \in Queued : Last(num, l)
    BY <1>0, <1>1 DEF Numbered, Ends
  <2>2. l # t
    BY <1>1, <1>2, <2>1 DEF Last, Adjacent
  <2>3. Last(num, l)'
    BY <1>4, <1>7, <2>1 DEF Last, encode_cpu
  <2>. QED
    BY <1>7, <1>8, <2>1, <2>2, <2>3 DEF Ends
<1>13. Chain(num)'
  <2>. SUFFICES ASSUME NEW u \in Waiting, u # n
                PROVE  \E r \in Queued : r # t /\ Adjacent(num, r, u)' /\ Linked(r, u)'
    BY <1>7, <1>9 DEF Chain
  <2>1. PICK r \in Queued : Adjacent(num, r, u) /\ Linked(r, u)
    BY <1>0 DEF Numbered, Chain
  <2>2. r # t /\ u # t /\ r \in Threads /\ u \in Threads
    BY <1>0, <1>1, <1>2, <1>9, <2>1, OneBehind, QueuedThreads DEF Numbered
  <2>3. Linked(r, u)'
    BY <1>4, <2>1, <2>2, LinkedKept
  <2>. QED
    BY <1>10, <2>1, <2>2, <2>3
<1>14. Known(num)'
  <2>. SUFFICES ASSUME NEW r \in Queued, r # t, NEW m, Succ(r)' = m, m # NULL
                PROVE  m \in Waiting' /\ pc'[m] \in Spinning /\ Adjacent(num, r, m)'
    BY <1>7, KnownNext
  <2>1. Succ(r) = m
    BY <1>4, QueuedThreads DEF Succ
  <2>2. m \in Waiting /\ pc[m] \in Spinning /\ Adjacent(num, r, m)
    BY <1>0, <2>1 DEF Numbered, Known
  <2>3. m # n /\ m # t /\ m \in Threads
    BY <1>0, <1>1, <1>2, <1>9, <2>2, OneBefore, QueuedThreads DEF Numbered
  <2>. QED
    BY <1>4, <1>9, <1>10, <2>2, <2>3
<1>. QED
  BY <1>5, <1>6, <1>11, <1>12, <1>13, <1>14 DEF Queue, Numbered

\* Taking the lock of an empty queue.
LEMMA FirstInv ==
    ASSUME IInv, NEW t \in Threads, XchgTail(t), tail = OSQ_UNLOCKED_VAL
    PROVE  IInv'
<1>. USE DEF IInv
<1>0. PICK num \in [Threads -> Int] : Numbered(num)
  BY DEF Queue
<1>1. Queued = {}
  <2>. SUFFICES ASSUME Queued # {} PROVE FALSE
    OBVIOUS
  <2>1. PICK l \in Queued : Last(num, l)
    BY <1>0 DEF Numbered, Ends
  <2>. QED
    BY <2>1, QueuedThreads, Names DEF Last
<1>2. /\ pc[t] = "xchg" /\ pc'[t] = "locked" /\ tail' = encode_cpu(t)
      /\ \A u \in Threads \ {t} : pc'[u] = pc[u]
      /\ UNCHANGED <<next, prev, locked, cpu, myprev, mynext, unqueues>>
  BY DEF XchgTail, Goto, Types
<1>3. Types'
  BY <1>2, Names DEF XchgTail, Goto, Types, TypeOK, Labels, encode_cpu
<1>4. Locals'
  BY <1>2 DEF Locals, encode_cpu, HasNext, Outside, Spinning, Leaving
<1>5. Queued' = {t} /\ Owners' = {t} /\ Waiting' = {}
  <2>1. \A u \in Threads : pc[u] \in Outside
    BY <1>1 DEF Queued, Outside
  <2>2. Queued' = {t}
    BY <1>2, <2>1 DEF Queued, Outside
  <2>3. Owners' = {t}
    BY <1>2, <2>1 DEF Owners, Outside, Spinning, Releasing
  <2>. QED
    BY <2>2, <2>3 DEF Waiting
<1>6. Ordered(num)'
  BY <1>5 DEF Ordered
<1>7. Chain(num)'
  BY <1>5 DEF Chain
<1>8. Known(num)'
  <2>1. Succ(t)' = NULL
    BY <1>2 DEF Succ, Locals, HasNext, Outside
  <2>. QED
    BY <1>5, <2>1, KnownNext
<1>9. Ends(num)'
  <2>1. Last(num, t)'
    BY <1>2, <1>5 DEF Last, encode_cpu
  <2>. QED
    BY <1>5, <2>1 DEF Ends
<1>. QED
  BY <1>3, <1>4, <1>6, <1>7, <1>8, <1>9 DEF Queue, Numbered

\* Queueing behind the tail: the newcomer gets the greatest number.
LEMMA BehindTailInv ==
    ASSUME IInv, NEW t \in Threads, XchgTail(t), tail # OSQ_UNLOCKED_VAL
    PROVE  IInv'
<1>. USE DEF IInv
<1>0. PICK num \in [Threads -> Int] : Numbered(num)
  BY DEF Queue
<1>1. PICK l \in Queued : Last(num, l)
  BY <1>0 DEF Numbered, Ends
<1>2. /\ l \in Threads /\ tail = encode_cpu(l) /\ cpu_to_node(tail) = l
      /\ next[l] = NULL /\ mynext[l] = NULL /\ \A u \in Queued : num[u] <= num[l]
  BY <1>0, <1>1, QueuedThreads, Names, BehindLast DEF Last
<1>3. /\ pc[t] = "xchg" /\ pc'[t] = "link" /\ tail' = encode_cpu(t)
      /\ myprev'[t] = l /\ prev'[t] = l
      /\ \A u \in Threads \ {t} : pc'[u] = pc[u] /\ myprev'[u] = myprev[u] /\ prev'[u] = prev[u]
      /\ UNCHANGED <<next, locked, cpu, mynext, unqueues>>
  BY <1>2 DEF XchgTail, Goto, Types, TypeOK
<1>4. t \notin Queued /\ t # l /\ next[t] = NULL /\ mynext[t] = NULL /\ l # NULL
  BY <1>1, <1>2, <1>3, Names DEF Queued, Locals, HasNext, Outside
<1>5. Types'
  BY <1>2, Names DEF XchgTail, Goto, Types, TypeOK, Labels, encode_cpu
<1>6. Locals'
  BY <1>3, <1>4 DEF Locals, encode_cpu, HasNext, Outside, Spinning, Leaving
<1>7. Queued' = Queued \cup {t} /\ Owners' = Owners
  BY <1>3 DEF Queued, Owners, Spinning, Releasing
<1>8. Waiting' = Waiting \cup {t}
  BY <1>4, <1>7, OwnersQueued DEF Waiting
<1>. DEFINE num2 == [num EXCEPT ![t] = num[l] + 1]
<1>9. PICK m \in [Threads -> Int] : m = num2
  <2>1. num[l] + 1 \in Int
    BY <1>2
  <2>2. num2 \in [Threads -> Int]
    BY <2>1
  <2>. HIDE DEF num2
  <2>. QED
    BY <2>2
<1>10. /\ m[t] = num[l] + 1 /\ num[l] \in Int
       /\ \A u \in Queued : u \in Threads /\ m[u] = num[u] /\ num[u] \in Int
  BY <1>2, <1>4, <1>9, QueuedThreads
<1>. HIDE DEF num2
<1>11. Ordered(m)'
  <2>1. \A u, v \in Queued \cup {t} : m[u] = m[v] => u = v
    BY <1>0, <1>2, <1>10 DEF Numbered, Ordered
  <2>2. \A u \in Owners, v \in Queued \cup {t} : m[u] <= m[v]
    BY <1>0, <1>2, <1>10, OwnersQueued DEF Numbered, Ordered
  <2>. QED
    BY <1>7, <2>1, <2>2 DEF Ordered
<1>12. Adjacent(m, l, t)'
  <2>1. m[l] < m[t] /\ \A v \in Queued \cup {t} : m[v] <= m[l] \/ m[t] <= m[v]
    BY <1>1, <1>2, <1>10
  <2>. QED
    BY <1>7, <2>1 DEF Adjacent
<1>13. ASSUME NEW p \in Queued, NEW u \in Queued, Adjacent(num, p, u)
       PROVE  Adjacent(m, p, u)'
  <2>1. m[p] < m[u] /\ \A v \in Queued \cup {t} : m[v] <= m[p] \/ m[u] <= m[v]
    BY <1>2, <1>10, <1>13 DEF Adjacent
  <2>. QED
    BY <1>7, <2>1 DEF Adjacent
<1>14. Ends(m)'
  <2>1. \A u \in Queued \cup {t} : m[u] <= m[t]
    BY <1>2, <1>10
  <2>2. Last(m, t)'
    BY <1>3, <1>7, <2>1 DEF Last, encode_cpu
  <2>3. Owners # {}
    BY <1>0, <1>1 DEF Numbered, Ends
  <2>. QED
    BY <1>7, <2>2, <2>3 DEF Ends
<1>15. Chain(m)'
  <2>. SUFFICES ASSUME NEW u \in Waiting \cup {t}
                PROVE  \E p \in Queued : Adjacent(m, p, u)' /\ Linked(p, u)'
    BY <1>7, <1>8 DEF Chain
  <2>1. CASE u = t
    <3>1. Linked(l, t)'
      BY <1>2, <1>3 DEF Linked
    <3>. QED
      BY <1>1, <1>12, <2>1, <3>1
  <2>2. CASE u # t
    <3>1. PICK p \in Queued : Adjacent(num, p, u) /\ Linked(p, u)
      BY <1>0, <2>2 DEF Numbered, Chain
    <3>2. p # t /\ p \in Threads /\ u \in Threads /\ u \in Queued
      BY <1>4, <2>2, QueuedThreads
    <3>3. Linked(p, u)'
      BY <1>3, <2>2, <3>1, <3>2, LinkedKept
    <3>. QED
      BY <1>13, <3>1, <3>2, <3>3
  <2>. QED
    BY <2>1, <2>2
<1>16. Known(m)'
  <2>. SUFFICES ASSUME NEW p \in Queued \cup {t}, NEW k, Succ(p)' = k, k # NULL
                PROVE  k \in Waiting' /\ pc'[k] \in Spinning /\ Adjacent(m, p, k)'
    BY <1>7, KnownNext
  <2>1. Succ(p) = k
    BY <1>3 DEF Succ
  <2>2. p # t
    BY <1>4, <2>1 DEF Succ
  <2>3. k \in Waiting /\ pc[k] \in Spinning /\ Adjacent(num, p, k)
    BY <1>0, <2>1, <2>2 DEF Numbered, Known
  <2>4. k # t /\ k \in Threads /\ k \in Queued
    BY <1>4, <2>3, QueuedThreads
  <2>. QED
    BY <1>3, <1>8, <1>13, <2>2, <2>3, <2>4
<1>. QED
  BY <1>5, <1>6, <1>11, <1>14, <1>15, <1>16 DEF Queue, Numbered

-----------------------------------------------------------------------------
(* The whole specification. *)

LEMMA OsqInit == Init => IInv
<1>. SUFFICES ASSUME Init PROVE IInv
  OBVIOUS
<1>. USE DEF Init
<1>1. Types
  BY OsqAssumption, Names DEF Types, TypeOK, Labels, Outside
<1>2. Locals
  BY DEF Locals, HasNext, Outside, Spinning, Leaving
<1>3. Queued = {} /\ Owners = {} /\ Waiting = {}
  BY DEF Queued, Owners, Waiting, Spinning, Releasing
<1>4. PICK num \in [Threads -> Int] : num = [t \in Threads |-> 0]
  OBVIOUS
<1>5. Numbered(num)
  BY <1>3 DEF Numbered, Ordered, Chain, Known, Ends
<1>. QED
  BY <1>1, <1>2, <1>5 DEF IInv, Queue

\* The steps of osq_lock that only move on.
LEMMA LockQuietInv ==
    ASSUME IInv, NEW t \in Threads,
           \/ GiveUp(t) \/ Spin(t) \/ StepALocked(t) \/ StepAPrev(t)
           \/ StepA(t) /\ next[myprev[t]] # t
    PROVE  IInv'
<1>1. /\ myprev \in [Threads -> Threads \cup {NULL}]
      /\ prev \in [Threads -> Threads \cup {NULL}]
      /\ unqueues \in [Threads -> 0..MAX_UNQUEUES]
      /\ pc[t] \in Spinning => myprev[t] # NULL /\ prev[t] # NULL
  BY DEF IInv, Types, TypeOK, Locals
<1>2. CASE GiveUp(t)
  <2>1. unqueues' \in [Threads -> 0..MAX_UNQUEUES]
    <3>1. unqueues[t] + 1 \in 0..MAX_UNQUEUES
      BY <1>1, <1>2, OsqAssumption DEF GiveUp
    <3>. QED
      BY <1>1, <1>2, <3>1 DEF GiveUp
  <2>2. Goto(t, "A_next") /\ QuietMove(t, "A_next")
    BY <1>1, <1>2 DEF GiveUp, QuietMove, Spinning
  <2>. QED
    BY <1>1, <1>2, <2>1, <2>2, QuietMoveInv DEF GiveUp
<1>3. CASE Spin(t) \/ (StepALocked(t) /\ locked[t] = 1)
  <2>1. Goto(t, "locked") /\ QuietMove(t, "locked")
    BY <1>3 DEF Spin, StepALocked, HaveLock, QuietMove, Spinning
  <2>2. /\ myprev' \in [Threads -> Threads \cup {NULL}]
        /\ \A u \in Threads \ {t} : myprev'[u] = myprev[u]
        /\ UNCHANGED <<tail, next, prev, locked, cpu, mynext, unqueues>>
    BY <1>1, <1>3 DEF Spin, StepALocked, HaveLock
  <2>. QED
    BY <1>1, <2>1, <2>2, QuietMoveInv
<1>4. CASE StepALocked(t) /\ locked[t] # 1
  <2>1. Goto(t, "A_prev") /\ QuietMove(t, "A_prev")
    BY <1>1, <1>4 DEF StepALocked, QuietMove, Spinning
  <2>. QED
    BY <1>1, <1>4, <2>1, QuietMoveInv DEF StepALocked
<1>5. CASE StepAPrev(t)
  <2>1. /\ myprev' \in [Threads -> Threads \cup {NULL}] /\ myprev'[t] = prev[t]
        /\ \A u \in Threads \ {t} : myprev'[u] = myprev[u]
        /\ UNCHANGED <<tail, next, prev, locked, cpu, mynext, unqueues>>
    BY <1>1, <1>5 DEF StepAPrev
  <2>2. Goto(t, "A_next") /\ QuietMove(t, "A_next")
    BY <1>1, <1>5, <2>1 DEF StepAPrev, QuietMove, Spinning
  <2>. QED
    BY <1>1, <2>1, <2>2, QuietMoveInv
<1>6. CASE StepA(t) /\ next[myprev[t]] # t
  <2>1. Goto(t, "A_locked") /\ QuietMove(t, "A_locked")
    BY <1>1, <1>6 DEF StepA, QuietMove, Spinning
  <2>. QED
    BY <1>1, <1>6, <2>1, QuietMoveInv DEF StepA
<1>. QED
  BY <1>2, <1>3, <1>4, <1>5, <1>6

\* osq_wait_next, first half, in step B or in osq_unlock.
LEMMA WaitTailInv ==
    ASSUME IInv, NEW t \in Threads, StepBTail(t) \/ Unlock(t) \/ UnlockWaitTail(t)
    PROVE  IInv'
<1>1. /\ myprev \in [Threads -> Threads \cup {NULL}]
      /\ unqueues \in [Threads -> 0..MAX_UNQUEUES]
  BY DEF IInv, Types, TypeOK
<1>2. CASE tail = encode_cpu(t)
  <2>1. CASE StepBTail(t)
    BY <1>2, <2>1, TailBackInv
  <2>2. CASE Unlock(t) \/ UnlockWaitTail(t)
    BY <1>2, <2>2, TailClearInv DEF Unlock, UnlockWaitTail, WaitNextTail
  <2>. QED
    BY <2>1, <2>2
<1>3. CASE tail # encode_cpu(t)
  <2>1. UNCHANGED <<tail, next, prev, locked, cpu, myprev, mynext, unqueues>>
    BY <1>3 DEF StepBTail, Unlock, UnlockWaitTail, WaitNextTail
  <2>2. \E l : Goto(t, l) /\ QuietMove(t, l)
    <3>1. CASE StepBTail(t)
      BY <1>3, <2>1, <3>1 DEF StepBTail, WaitNextTail, QuietMove
    <3>2. CASE Unlock(t)
      BY <1>3, <3>2 DEF Unlock, WaitNextTail, QuietMove
    <3>3. CASE UnlockWaitTail(t)
      BY <1>3, <3>3 DEF UnlockWaitTail, WaitNextTail, QuietMove
    <3>. QED
      BY <3>1, <3>2, <3>3
  <2>. QED
    BY <1>1, <2>1, <2>2, QuietMoveInv
<1>. QED
  BY <1>2, <1>3

\* osq_wait_next, second half.
LEMMA WaitXchgInv ==
    ASSUME IInv, NEW t \in Threads, StepBNext(t) \/ UnlockNext(t) \/ UnlockWaitNext(t)
    PROVE  IInv'
<1>1. /\ myprev \in [Threads -> Threads \cup {NULL}]
      /\ unqueues \in [Threads -> 0..MAX_UNQUEUES]
  BY DEF IInv, Types, TypeOK
<1>2. CASE next[t] # NULL
  <2>1. CASE StepBNext(t)
    BY <1>2, <2>1, TakeNextInv DEF StepBNext
  <2>2. CASE UnlockNext(t)
    BY <1>2, <2>2, TakeNextInv DEF UnlockNext
  <2>3. CASE UnlockWaitNext(t)
    BY <1>2, <2>3, TakeNextInv DEF UnlockWaitNext
  <2>. QED
    BY <2>1, <2>2, <2>3
<1>3. CASE next[t] = NULL
  <2>1. UNCHANGED <<tail, next, prev, locked, cpu, myprev, mynext, unqueues>>
    BY <1>3 DEF StepBNext, UnlockNext, UnlockWaitNext, WaitNextXchg
  <2>2. \E l : Goto(t, l) /\ QuietMove(t, l)
    <3>1. CASE StepBNext(t)
      BY <1>3, <2>1, <3>1 DEF StepBNext, WaitNextXchg, QuietMove
    <3>2. CASE UnlockNext(t)
      BY <1>3, <3>2 DEF UnlockNext, WaitNextXchg, QuietMove
    <3>3. CASE UnlockWaitNext(t)
      BY <1>3, <3>3 DEF UnlockWaitNext, WaitNextXchg, QuietMove
    <3>. QED
      BY <3>1, <3>2, <3>3
  <2>. QED
    BY <1>1, <2>1, <2>2, QuietMoveInv
<1>. QED
  BY <1>2, <1>3

LEMMA OsqStep == IInv /\ [Next]_vars => IInv'
<1>. SUFFICES ASSUME IInv, [Next]_vars PROVE IInv'
  OBVIOUS
<1>1. CASE UNCHANGED vars
  <2>1. Queued' = Queued /\ Owners' = Owners /\ Waiting' = Waiting
    BY <1>1 DEF vars, Queued, Owners, Waiting
  <2>2. PICK num \in [Threads -> Int] : Numbered(num)
    BY DEF IInv, Queue
  <2>3. Ordered(num)' /\ Ends(num)'
    BY <1>1, <2>1, <2>2, SameQueue DEF vars, Numbered
  <2>4. Chain(num)'
    <3>1. \A p, u : Adjacent(num, p, u)' <=> Adjacent(num, p, u)
      BY <2>1 DEF Adjacent
    <3>2. \A p, u : Linked(p, u)' <=> Linked(p, u)
      BY <1>1, ZenonT(60) DEF vars, Linked
    <3>. QED
      BY <2>1, <2>2, <3>1, <3>2, Zenon DEF Numbered, Chain
  <2>5. Known(num)'
    <3>1. \A p : Succ(p)' = Succ(p)
      BY <1>1, Zenon DEF vars, Succ
    <3>2. \A p, m : Succ(p) = m /\ m # NULL /\ p \in Queued =>
              m \in Waiting /\ pc[m] \in Spinning /\ Adjacent(num, p, m)
      BY <2>2 DEF Numbered, Known
    <3>3. \A p, m : Adjacent(num, p, m)' <=> Adjacent(num, p, m)
      BY <2>1 DEF Adjacent
    <3>4. pc' = pc
      BY <1>1 DEF vars
    <3>. QED
      BY <2>1, <3>1, <3>2, <3>3, <3>4, KnownNext
  <2>6. Types' /\ Locals'
    BY <1>1 DEF vars, IInv, Types, TypeOK, Locals, encode_cpu
  <2>. QED
    BY <2>3, <2>4, <2>5, <2>6 DEF IInv, Queue, Numbered
<1>2. ASSUME NEW t \in Threads, LockStart(t) \/ LockRetry(t) PROVE IInv'
  <2>1. unqueues' \in [Threads -> 0..MAX_UNQUEUES]
    BY <1>2, OsqAssumption DEF LockStart, LockRetry, IInv, Types, TypeOK
  <2>. QED
    BY <1>2, <2>1, InitNodeInv DEF LockStart, LockRetry
<1>3. ASSUME NEW t \in Threads, XchgTail(t) PROVE IInv'
  BY <1>3, FirstInv, BehindTailInv
<1>4. ASSUME NEW t \in Threads, Link(t) PROVE IInv'
  BY <1>4, LinkInv
<1>5. ASSUME NEW t \in Threads, GiveUp(t) \/ Spin(t) \/ StepALocked(t) \/ StepAPrev(t)
      PROVE  IInv'
  BY <1>5, LockQuietInv
<1>6. ASSUME NEW t \in Threads, StepA(t) PROVE IInv'
  BY <1>6, LockQuietInv, UndoInv
<1>7. ASSUME NEW t \in Threads, StepBTail(t) \/ Unlock(t) \/ UnlockWaitTail(t)
      PROVE  IInv'
  BY <1>7, WaitTailInv
<1>8. ASSUME NEW t \in Threads, StepBNext(t) \/ UnlockNext(t) \/ UnlockWaitNext(t)
      PROVE  IInv'
  BY <1>8, WaitXchgInv
<1>9. ASSUME NEW t \in Threads, StepCPrev(t) PROVE IInv'
  BY <1>9, NewPrevInv
<1>10. ASSUME NEW t \in Threads, StepCNext(t) PROVE IInv'
  BY <1>10, JoinInv
<1>11. ASSUME NEW t \in Threads, UnlockGrant(t) PROVE IInv'
  BY <1>11, GrantInv
<1>. QED
  BY <1>1, <1>2, <1>3, <1>4, <1>5, <1>6, <1>7, <1>8, <1>9, <1>10, <1>11 DEF Next, InsideStep

\* Osq_lock and osq_unlock keep the queue a chain from the owner to the tail,
\* for any number of threads and however often they give up.
THEOREM OsqInvariant == Spec => []IInv
BY OsqInit, OsqStep, PTL DEF Spec

\* The nodes of osq_lock and its local variables stay in their ranges.
THEOREM OsqTypeCorrect == Spec => []TypeOK
<1>1. IInv => TypeOK
  BY DEF IInv, Types
<1>. QED
  BY <1>1, OsqInvariant, PTL

\* osq_unlock and a waiter that gives up in osq_lock never make two owners, and
\* never leave queued threads without one.
THEOREM OsqOneOwner == Spec => []OneOwner
<1>1. IInv => OneOwner
  <2>. SUFFICES ASSUME IInv PROVE OneOwner
    OBVIOUS
  <2>1. PICK num \in [Threads -> Int] : Numbered(num)
    BY DEF IInv, Queue
  <2>2. Queued # {} => Owners # {}
    BY <2>1 DEF Numbered, Ends
  <2>3. ASSUME NEW t \in Owners, NEW u \in Owners PROVE t = u
    <3>1. t \in Queued /\ u \in Queued /\ t \in Threads /\ u \in Threads
      BY OwnersQueued, QueuedThreads
    <3>2. num[t] <= num[u] /\ num[u] <= num[t]
      BY <2>1, <3>1 DEF Numbered, Ordered
    <3>3. num[t] = num[u]
      BY <3>1, <3>2
    <3>. QED
      BY <2>1, <3>1, <3>3 DEF Numbered, Ordered
  <2>4. Cardinality(Owners) <= 1
    <3>1. CASE Owners = {}
      BY <3>1, FS_EmptySet
    <3>2. CASE Owners # {}
      <4>1. PICK t : Owners = {t}
        BY <2>3, <3>2
      <4>. QED
        BY <4>1, FS_Singleton
    <3>. QED
      BY <3>1, <3>2
  <2>. QED
    BY <2>2, <2>4 DEF OneOwner
<1>. QED
  BY <1>1, OsqInvariant, PTL

\* The list is whole while neighbours leave it: next and prev agree in every
\* linked pair, no next is a thread that has left or been granted the lock, and
\* the tail of the queue is a queued thread without a next.
THEOREM OsqQueueIntact == Spec => []QueueIntact
<1>1. IInv => QueueIntact
  <2>. SUFFICES ASSUME IInv PROVE QueueIntact
    OBVIOUS
  <2>. USE DEF IInv
  <2>1. PICK num \in [Threads -> Int] : Numbered(num)
    BY DEF Queue
  <2>2. ASSUME NEW t \in Threads, NEW u \in Threads, next[t] = u
        PROVE  t \in Queued /\ pc[u] \in Spinning /\ locked[u] = 0 /\ prev[u] = t
    <3>1. next[t] # NULL
      BY <2>2, Names
    <3>. QED
      BY <2>1, <2>2, <3>1, Behind
  <2>3. CASE Queued = {}
    BY <2>1, <2>2, <2>3 DEF QueueIntact, Numbered, Ends
  <2>4. CASE Queued # {}
    <3>1. PICK l \in Queued : Last(num, l)
      BY <2>1, <2>4 DEF Numbered, Ends
    <3>2. l \in Threads /\ tail = encode_cpu(l)
      BY <3>1, QueuedThreads DEF Last
    <3>3. tail # OSQ_UNLOCKED_VAL /\ cpu_to_node(tail) = l
      BY <3>2, Names
    <3>4. next[l] = NULL
      BY <2>1, <3>2, BehindLast
    <3>. QED
      BY <2>2, <3>1, <3>3, <3>4 DEF QueueIntact
  <2>. QED
    BY <2>3, <2>4
<1>. QED
  BY <1>1, OsqInvariant, PTL

=============================================================================
