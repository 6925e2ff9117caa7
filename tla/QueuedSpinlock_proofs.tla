----------------------- MODULE QueuedSpinlock_proofs -----------------------
(***************************************************************************)
(* Safety of the queued spinlock for any number of threads.  The three     *)
(* parts of the word are stored independently, so each has an owner: the   *)
(* locked byte the thread with the lock, the pending byte the one thread   *)
(* that set it, the tail the queue.  The threads of the queue are numbered *)
(* so that each is one above the thread whose node it found in the tail:   *)
(* the head has the lowest number and the tail names the highest, hence    *)
(* the head that still finds itself in the tail is alone, and no two       *)
(* threads are ever at the head.                                           *)
(***************************************************************************)
EXTENDS QueuedSpinlock, FiniteSetTheorems, TLAPS

AtHead == {"head", "cmpxchg", "set_locked", "wait_next", "pass"}
Behind == {"link", "mcs_wait"}
Labels == AtHead \cup Behind
            \cup {"idle", "handover", "fetch_or", "undo", "wait_owner", "take_pending",
                  "queue", "trylock", "xchg_tail", "locked"}

Types ==
    /\ lock \in [tail : Nat, pending : {0, 1}, locked : {0, 1}]
    /\ next \in [Node -> Node \cup {NONE}]
    /\ granted \in [Node -> {0, 1}]
    /\ count \in [Threads -> Nat]
    /\ pc \in [Threads -> Labels]
    /\ cnt \in [Threads -> 0..PENDING_LOOPS]
    /\ prev \in [Threads -> Node \cup {NONE}]
    /\ succ \in [Threads -> Node \cup {NONE}]

\* A thread has a node from TakeNode until it returns with the lock, and only one.
NodesInUse ==
    \A t \in Threads :
        count[t] = IF pc[t] \in AtHead \cup Behind \cup {"trylock", "xchg_tail"} THEN 1 ELSE 0

\* The first node of a thread and its tail code.
First(t) == <<t, 0>>
Code(t) == encode_tail(t, 0)

\* The locked and the pending byte, each with the one thread that answers for it.
Setters == {t \in Threads : pc[t] = "undo"} \cup Pending

Bytes ==
    /\ lock.locked = 1 <=> Owners # {}
    /\ \A t, u \in Owners : t = u
    /\ lock.pending = 1 <=> Setters # {}
    /\ \A t, u \in Setters : t = u
    /\ \A t \in Threads :
          /\ pc[t] = "take_pending" => lock.locked = 0
          /\ pc[t] \in {"cmpxchg", "set_locked"} => lock.locked = 0 /\ Pending = {}

\* In the queue and at its head, or told that it is.
IsHead(t) == pc[t] \in AtHead \/ (pc[t] = "mcs_wait" /\ granted[First(t)] = 1)

Numbered(num) ==
    /\ \A t, u \in InQueue : num[t] = num[u] => t = u
    /\ \A t \in InQueue :
          /\ IsHead(t) => \A u \in InQueue : num[t] <= num[u]
          /\ ~IsHead(t) => \E u \in InQueue : prev[t] = First(u) /\ num[t] = num[u] + 1
    /\ InQueue = {} => lock.tail = 0
    /\ InQueue # {} => \E t \in InQueue : /\ lock.tail = Code(t)
                                          /\ \A u \in InQueue : num[u] <= num[t]

Queue == \E num \in [Threads -> Int] : Numbered(num)

\* Where the links of the queue lead, and what nodes are before they are linked.
Links ==
    \A t \in Threads :
        /\ t \in InQueue /\ next[First(t)] # NONE =>
              \E u \in Threads : /\ next[First(t)] = First(u) /\ prev[u] = First(t)
                                 /\ pc[u] = "mcs_wait" /\ granted[First(u)] = 0
        /\ pc[t] \in {"trylock", "xchg_tail"} => next[First(t)] = NONE
        /\ pc[t] \in {"trylock", "xchg_tail", "link"} => granted[First(t)] = 0
        /\ pc[t] \in AtHead /\ succ[t] # NONE => succ[t] = next[First(t)]
        /\ pc[t] = "pass" => succ[t] # NONE

IInv == Types /\ NodesInUse /\ Bytes /\ Queue /\ Links

-----------------------------------------------------------------------------
LEMMA Constants ==
    /\ N \in Nat \ {0} /\ MAX_NODES \in Nat \ {0} /\ PENDING_LOOPS \in Nat
    /\ Threads = 0..(N - 1)
BY QueuedAssumption DEF Threads

\* The first node of a thread is a node, and another thread's is another.
LEMMA FirstNodes ==
    /\ \A t \in Threads : First(t) \in Node /\ First(t) # NONE
    /\ \A t, u \in Threads : First(t) = First(u) => t = u
BY Constants DEF First, Node, NONE

\* A tail code is not 0, and decode_tail takes it back to the node.
LEMMA DecodeEncode ==
    ASSUME NEW t \in Threads
    PROVE  /\ Code(t) \in Nat /\ Code(t) # 0
           /\ Code(t) <= (N + 1) * MAX_NODES - 1
           /\ decode_tail(Code(t)) = First(t)
<1>1. \A m \in Nat \ {0}, q \in Nat \ {0} : q * m \in Nat /\ q * m # 0
  BY SMT
<1>2. \A m \in Nat \ {0}, q \in Nat : (q * m) \div m = q /\ (q * m) % m = 0
  BY SMT
<1>3. \A m \in Nat \ {0}, n, q \in Nat : q <= n => q * m <= (n + 1) * m - 1
  BY SMT
<1>4. t + 1 \in Nat \ {0} /\ t + 1 <= N /\ Code(t) = (t + 1) * MAX_NODES
  BY Constants DEF Code, encode_tail
<1>5. (t + 1) * MAX_NODES \in Nat /\ (t + 1) * MAX_NODES # 0
  BY <1>1, <1>4, Constants, Zenon
<1>6. ((t + 1) * MAX_NODES) \div MAX_NODES = t + 1 /\ ((t + 1) * MAX_NODES) % MAX_NODES = 0
  BY <1>2, <1>4, Constants
<1>7. (t + 1) * MAX_NODES <= (N + 1) * MAX_NODES - 1
  BY <1>3, <1>4, Constants
<1>. QED
  BY <1>4, <1>5, <1>6, <1>7, Constants DEF decode_tail, First

LEMMA CodesDiffer ==
    ASSUME NEW t \in Threads, NEW u \in Threads, Code(t) = Code(u)
    PROVE  t = u
BY DecodeEncode, FirstNodes

\* A thread that is queueing uses its first node.
LEMMA UsesFirst ==
    ASSUME IInv, NEW t \in Threads,
           pc[t] \in AtHead \cup Behind \cup {"trylock", "xchg_tail"}
    PROVE  MyNode(t) = First(t) /\ MyTail(t) = Code(t)
BY DEF IInv, NodesInUse, MyNode, MyTail, First, Code

LEMMA Queued ==
    /\ InQueue = {t \in Threads : pc[t] \in AtHead \cup Behind}
    /\ Types => \A t \in InQueue : ~IsHead(t) => pc[t] \in Behind
BY DEF InQueue, AtHead, Behind, IsHead, Types, Labels

\* The queue has one head, and a tail while it has anybody.
LEMMA OneHead ==
    ASSUME IInv
    PROVE  /\ \A t, u \in InQueue : IsHead(t) /\ IsHead(u) => t = u
           /\ InQueue # {} <=> lock.tail # 0
<1>1. PICK num \in [Threads -> Int] : Numbered(num)
  BY DEF IInv, Queue
<1>2. \A t \in InQueue : num[t] \in Int /\ t \in Threads
  BY DEF InQueue
<1>3. ASSUME NEW t \in InQueue, NEW u \in InQueue, IsHead(t), IsHead(u) PROVE t = u
  BY <1>1, <1>2, <1>3 DEF Numbered
<1>. QED
  BY <1>1, <1>2, <1>3, DecodeEncode DEF Numbered

\* What the CASE of the fast path and of the fetch-or amount to.
LEMMA FetchSetPendingGoes ==
    ASSUME NEW t \in Threads, FetchSetPending(t)
    PROVE  Goto(t, IF lock.pending = 1 THEN "queue"
                   ELSE IF lock.pending = 0 /\ lock.tail # 0 THEN "undo"
                   ELSE IF lock.pending = 0 /\ lock.tail = 0 /\ lock.locked = 1
                        THEN "wait_owner" ELSE "take_pending")
<1>1. 0 # 1
  OBVIOUS
<1>2. CASE lock.pending = 1
  BY <1>1, <1>2, Zenon DEF FetchSetPending, Goto
<1>3. CASE lock.pending = 0 /\ lock.tail # 0
  BY <1>1, <1>3, Zenon DEF FetchSetPending, Goto
<1>4. CASE lock.pending = 0 /\ lock.tail = 0 /\ lock.locked = 1
  BY <1>1, <1>4, Zenon DEF FetchSetPending, Goto
<1>5. CASE lock.pending # 1 /\ ~(lock.pending = 0 /\ lock.tail # 0)
             /\ ~(lock.pending = 0 /\ lock.tail = 0 /\ lock.locked = 1)
  BY <1>1, <1>5, Zenon DEF FetchSetPending, Goto
<1>. QED
  BY <1>2, <1>3, <1>4, <1>5

LEMMA LockFastGoes ==
    ASSUME NEW t \in Threads, LockFast(t)
    PROVE  Goto(t, IF lock = Unlocked THEN "locked"
                   ELSE IF lock = PENDING_VAL THEN "handover" ELSE SlowPath(lock))
<1>1. Unlocked # PENDING_VAL
  BY DEF Unlocked, PENDING_VAL, Word
<1>2. CASE lock = Unlocked
  BY <1>1, <1>2, Zenon DEF LockFast, Goto, Succeeds
<1>3. CASE lock = PENDING_VAL
  BY <1>1, <1>3, Zenon DEF LockFast, Goto, Succeeds
<1>4. CASE lock # Unlocked /\ lock # PENDING_VAL
  BY <1>4, Zenon DEF LockFast, Goto, Succeeds
<1>. QED
  BY <1>2, <1>3, <1>4

-----------------------------------------------------------------------------
(* What the queue does not notice. *)

\* Moves of a thread that is not in the queue.
LEMMA OutsideMove ==
    ASSUME IInv, NEW t \in Threads, NEW l \in Labels \ (AtHead \cup Behind), Goto(t, l),
           pc[t] \notin AtHead \cup Behind,
           l \in {"trylock", "xchg_tail"} => pc[t] = "trylock",
           lock'.tail = lock.tail, UNCHANGED <<next, granted, prev, succ>>
    PROVE  pc' \in [Threads -> Labels] /\ InQueue' = InQueue /\ Queue' /\ Links'
<1>1. pc'[t] = l /\ (\A u \in Threads \ {t} : pc'[u] = pc[u]) /\ pc' \in [Threads -> Labels]
  BY DEF IInv, Types, Goto
<1>2. InQueue' = InQueue /\ \A u \in InQueue : u \in Threads \ {t}
  BY <1>1, Queued DEF InQueue, AtHead, Behind
<1>3. \A u \in InQueue : IsHead(u)' <=> IsHead(u)
  BY <1>1, <1>2 DEF IsHead
<1>4. Queue'
  <2>1. PICK num \in [Threads -> Int] : Numbered(num)
    BY DEF IInv, Queue
  <2>2. Numbered(num)'
    BY <1>2, <1>3, <2>1 DEF Numbered
  <2>. QED
    BY <2>2 DEF Queue
<1>5. Links'
  <2>. SUFFICES ASSUME NEW u \in Threads PROVE
          /\ u \in InQueue' /\ next'[First(u)] # NONE =>
                \E v \in Threads : /\ next'[First(u)] = First(v) /\ prev'[v] = First(u)
                                   /\ pc'[v] = "mcs_wait" /\ granted'[First(v)] = 0
          /\ pc'[u] \in {"trylock", "xchg_tail"} => next'[First(u)] = NONE
          /\ pc'[u] \in {"trylock", "xchg_tail", "link"} => granted'[First(u)] = 0
          /\ pc'[u] \in AtHead /\ succ'[u] # NONE => succ'[u] = next'[First(u)]
          /\ pc'[u] = "pass" => succ'[u] # NONE
    BY DEF Links
  <2>1. ASSUME NEW v \in Threads, pc[v] = "mcs_wait" PROVE pc'[v] = "mcs_wait"
    BY <1>1, <2>1 DEF Behind
  <2>. QED
    BY <1>1, <1>2, <2>1 DEF IInv, Links, AtHead, Behind
<1>. QED
  BY <1>1, <1>2, <1>4, <1>5

\* Moves of the head of the queue that leave it the head.
LEMMA HeadMove ==
    ASSUME IInv, NEW t \in InQueue, IsHead(t), NEW l \in AtHead, Goto(t, l),
           lock'.tail = lock.tail, UNCHANGED <<next, granted>>,
           \A u \in Threads \ {t} : prev'[u] = prev[u] /\ succ'[u] = succ[u],
           succ'[t] \in {NONE, next[First(t)]}, l = "pass" => succ'[t] # NONE
    PROVE  pc' \in [Threads -> Labels] /\ InQueue' = InQueue /\ Queue' /\ Links'
<1>0. t \in Threads
  BY DEF InQueue
<1>1. pc'[t] = l /\ (\A u \in Threads \ {t} : pc'[u] = pc[u]) /\ pc' \in [Threads -> Labels]
  BY <1>0 DEF IInv, Types, Goto, Labels
<1>2. InQueue' = InQueue /\ InQueue \subseteq Threads
  BY <1>0, <1>1 DEF InQueue, AtHead
<1>3. \A u \in InQueue : IsHead(u)' <=> IsHead(u)
  BY <1>0, <1>1, <1>2 DEF IsHead
<1>4. Queue'
  <2>1. PICK num \in [Threads -> Int] : Numbered(num)
    BY DEF IInv, Queue
  <2>2. Numbered(num)'
    BY <1>2, <1>3, <2>1 DEF Numbered
  <2>. QED
    BY <2>2 DEF Queue
<1>5. Links'
  <2>. SUFFICES ASSUME NEW u \in Threads PROVE
          /\ u \in InQueue' /\ next'[First(u)] # NONE =>
                \E v \in Threads : /\ next'[First(u)] = First(v) /\ prev'[v] = First(u)
                                   /\ pc'[v] = "mcs_wait" /\ granted'[First(v)] = 0
          /\ pc'[u] \in {"trylock", "xchg_tail"} => next'[First(u)] = NONE
          /\ pc'[u] \in {"trylock", "xchg_tail", "link"} => granted'[First(u)] = 0
          /\ pc'[u] \in AtHead /\ succ'[u] # NONE => succ'[u] = next'[First(u)]
          /\ pc'[u] = "pass" => succ'[u] # NONE
    BY DEF Links
  <2>1. ASSUME NEW v \in Threads, pc[v] = "mcs_wait", granted[First(v)] = 0
        PROVE  pc'[v] = "mcs_wait" /\ prev'[v] = prev[v]
    <3>1. v # t
      BY <2>1 DEF IsHead, AtHead
    <3>. QED
      BY <1>1, <2>1, <3>1
  <2>. QED
    BY <1>1, <1>2, <2>1 DEF IInv, Links, AtHead
<1>. QED
  BY <1>1, <1>2, <1>4, <1>5

\* Moves that change neither byte nor the threads that answer for them.
LEMMA BytesKept ==
    ASSUME IInv, NEW t \in Threads, NEW l, Goto(t, l),
           lock'.locked = lock.locked, lock'.pending = lock.pending,
           pc[t] \in {"locked", "wait_next", "pass"} <=> l \in {"locked", "wait_next", "pass"},
           pc[t] \in {"wait_owner", "take_pending"} <=> l \in {"wait_owner", "take_pending"},
           pc[t] = "undo" <=> l = "undo",
           l = "take_pending" => lock.locked = 0,
           l \in {"cmpxchg", "set_locked"} => lock.locked = 0 /\ Pending = {}
    PROVE  Bytes'
<1>1. pc'[t] = l /\ (\A u \in Threads \ {t} : pc'[u] = pc[u])
  BY DEF IInv, Types, Goto
<1>2. Owners' = Owners
  BY <1>1 DEF Owners
<1>3. Pending' = Pending
  BY <1>1 DEF Pending
<1>4. Setters' = Setters
  BY <1>1, <1>3 DEF Setters
<1>. QED
  BY <1>1, <1>2, <1>3, <1>4 DEF IInv, Bytes

\* A thread that takes the lock when nobody has it, and is not the pending one.
LEMMA BytesTaken ==
    ASSUME IInv, NEW t \in Threads, Goto(t, "locked") \/ Goto(t, "wait_next") \/ Goto(t, "pass"),
           t \notin Setters, lock.locked = 0, lock'.locked = 1, lock'.pending = lock.pending,
           Pending = {},
           \A u \in Threads \ {t} : pc[u] \notin {"cmpxchg", "set_locked"}
    PROVE  Bytes'
<1>1. /\ pc'[t] \in {"locked", "wait_next", "pass"}
      /\ (\A u \in Threads \ {t} : pc'[u] = pc[u])
  BY DEF IInv, Types, Goto
<1>2. Owners = {} /\ Owners' = Owners \cup {t}
  BY <1>1 DEF Owners, IInv, Bytes
<1>3. Pending' = Pending
  BY <1>1 DEF Pending, Setters
<1>4. Setters' = Setters
  BY <1>1, <1>3 DEF Setters
<1>5. \A u \in Threads : pc'[u] \notin {"take_pending", "cmpxchg", "set_locked"}
  BY <1>1 DEF Pending
<1>. QED
  BY <1>1, <1>2, <1>3, <1>4, <1>5 DEF IInv, Bytes

-----------------------------------------------------------------------------
(* The fast path and the pending byte. *)

LEMMA LockFastInv ==
    ASSUME IInv, NEW t \in Threads, LockFast(t)
    PROVE  IInv'
<1>. DEFINE l == IF lock = Unlocked THEN "locked"
                 ELSE IF lock = PENDING_VAL THEN "handover" ELSE SlowPath(lock)
<1>1. /\ Goto(t, l) /\ l \in {"locked", "handover", "queue", "fetch_or"} /\ pc[t] = "idle"
      /\ UNCHANGED <<next, granted, count, prev, succ>>
      /\ IF lock = Unlocked THEN lock' = LOCKED_VAL /\ l = "locked"
                            ELSE lock' = lock /\ l # "locked"
  BY LockFastGoes DEF LockFast, SlowPath, atomic_try_cmpxchg32
<1>2. lock' \in [tail : Nat, pending : {0, 1}, locked : {0, 1}] /\ lock'.tail = lock.tail
  BY <1>1 DEF IInv, Types, Unlocked, LOCKED_VAL, Word
<1>. HIDE DEF l
<1>3. pc' \in [Threads -> Labels] /\ Queue' /\ Links'
  BY <1>1, <1>2, OutsideMove DEF Labels, AtHead, Behind
<1>4. Types'
  BY <1>1, <1>2, <1>3, Constants DEF IInv, Types, LockFast
<1>5. NodesInUse'
  BY <1>1 DEF IInv, Types, NodesInUse, Goto, AtHead, Behind
<1>6. Bytes'
  <2>1. CASE lock = Unlocked
    <3>1. InQueue = {} /\ Setters = {} /\ lock.locked = 0 /\ lock.pending = 0
      BY <2>1, OneHead DEF Unlocked, Word, IInv, Bytes
    <3>2. lock'.locked = 1 /\ lock'.pending = 0
      BY <1>1, <2>1 DEF LOCKED_VAL, Word
    <3>3. Pending = {} /\ \A u \in Threads : pc[u] \notin {"cmpxchg", "set_locked"}
      BY <3>1 DEF Setters, InQueue
    <3>. QED
      BY <1>1, <2>1, <3>1, <3>2, <3>3, BytesTaken
  <2>2. CASE lock # Unlocked
    BY <1>1, <2>2, BytesKept
  <2>. QED
    BY <2>1, <2>2
<1>. QED
  BY <1>3, <1>4, <1>5, <1>6 DEF IInv

LEMMA WaitHandoverInv ==
    ASSUME IInv, NEW t \in Threads, WaitHandover(t)
    PROVE  IInv'
<1>1. PICK l \in {"handover", "queue", "fetch_or"} : Goto(t, l)
  BY DEF WaitHandover, SlowPath, Goto, IInv, Types
<1>2. pc[t] = "handover" /\ UNCHANGED <<lock, next, granted, count, prev, succ>>
  BY DEF WaitHandover
<1>3. pc' \in [Threads -> Labels] /\ Queue' /\ Links'
  BY <1>1, <1>2, OutsideMove DEF Labels, AtHead, Behind
<1>4. cnt' \in [Threads -> 0..PENDING_LOOPS]
  <2>1. cnt \in [Threads -> 0..PENDING_LOOPS] /\ cnt[t] \in 0..PENDING_LOOPS
    BY DEF IInv, Types
  <2>2. PICK k \in 0..PENDING_LOOPS : cnt' = [cnt EXCEPT ![t] = k]
    <3>1. cnt[t] > 0 => cnt[t] - 1 \in 0..PENDING_LOOPS
      BY <2>1, Constants
    <3>2. 0 \in 0..PENDING_LOOPS
      BY Constants
    <3>. QED
      BY <3>1, <3>2, Zenon DEF WaitHandover
  <2>. QED
    BY <2>1, <2>2, Zenon
<1>5. Types'
  BY <1>2, <1>3, <1>4 DEF IInv, Types
<1>6. NodesInUse'
  BY <1>1, <1>2 DEF IInv, Types, NodesInUse, Goto, AtHead, Behind
<1>7. Bytes'
  BY <1>1, <1>2, BytesKept
<1>. QED
  BY <1>3, <1>5, <1>6, <1>7 DEF IInv

\* The thread that turns the pending byte on answers for it; one that finds a tail
\* only undoes it.
LEMMA FetchSetPendingInv ==
    ASSUME IInv, NEW t \in Threads, FetchSetPending(t)
    PROVE  IInv'
<1>. DEFINE l == IF lock.pending = 1 THEN "queue"
                 ELSE IF lock.pending = 0 /\ lock.tail # 0 THEN "undo"
                 ELSE IF lock.pending = 0 /\ lock.tail = 0 /\ lock.locked = 1
                      THEN "wait_owner" ELSE "take_pending"
<1>0. lock \in [tail : Nat, pending : {0, 1}, locked : {0, 1}]
  BY DEF IInv, Types
<1>1. /\ Goto(t, l) /\ pc[t] = "fetch_or" /\ l \in {"queue", "undo", "wait_owner", "take_pending"}
      /\ UNCHANGED <<next, granted, count, cnt, prev, succ>>
  BY FetchSetPendingGoes DEF FetchSetPending
<1>2. /\ lock'.tail = lock.tail /\ lock'.locked = lock.locked /\ lock'.pending = 1
      /\ lock' \in [tail : Nat, pending : {0, 1}, locked : {0, 1}]
  BY <1>0 DEF FetchSetPending
<1>3. pc' \in [Threads -> Labels] /\ Queue' /\ Links'
  BY <1>1, <1>2, OutsideMove DEF Labels, AtHead, Behind
<1>4. Types'
  BY <1>1, <1>2, <1>3 DEF IInv, Types
<1>5. NodesInUse'
  BY <1>1 DEF IInv, Types, NodesInUse, Goto, AtHead, Behind
<1>6. Bytes'
  <2>1. CASE lock.pending = 1
    BY <1>1, <1>2, <2>1, BytesKept
  <2>2. CASE lock.pending = 0
    <3>1. pc'[t] = l /\ (\A u \in Threads \ {t} : pc'[u] = pc[u])
      BY <1>1 DEF IInv, Types, Goto
    <3>2. Setters = {} /\ Setters' = {t}
      BY <1>1, <2>2, <3>1 DEF Setters, Pending, IInv, Bytes
    <3>3. Owners' = Owners
      BY <1>1, <3>1 DEF Owners
    <3>4. Pending' # {} => lock.tail = 0
      BY <2>2, <3>1, <3>2 DEF Setters, Pending
    <3>5. pc'[t] = "take_pending" => lock.locked = 0
      BY <1>0, <2>2, <3>1
    <3>6. \A u \in Threads : pc'[u] \in {"cmpxchg", "set_locked"} =>
                                 u \in InQueue /\ pc[u] = pc'[u]
      BY <1>1, <3>1 DEF InQueue
    <3>7. \A u \in Threads : pc'[u] = "take_pending" => lock.locked = 0
      BY <3>1, <3>5 DEF IInv, Bytes
    <3>8. \A u \in Threads : pc'[u] \in {"cmpxchg", "set_locked"} =>
                                 lock.locked = 0 /\ Pending' = {}
      BY <3>4, <3>6, OneHead DEF IInv, Bytes
    <3>. QED
      BY <1>2, <3>2, <3>3, <3>7, <3>8 DEF IInv, Bytes
  <2>. QED
    BY <1>0, <2>1, <2>2
<1>. QED
  BY <1>3, <1>4, <1>5, <1>6 DEF IInv

LEMMA ClearPendingInv ==
    ASSUME IInv, NEW t \in Threads, ClearPending(t)
    PROVE  IInv'
<1>1. /\ Goto(t, "queue") /\ pc[t] = "undo"
      /\ UNCHANGED <<next, granted, count, cnt, prev, succ>>
  BY DEF ClearPending
<1>2. /\ lock'.tail = lock.tail /\ lock'.locked = lock.locked /\ lock'.pending = 0
      /\ lock' \in [tail : Nat, pending : {0, 1}, locked : {0, 1}]
  BY DEF ClearPending, IInv, Types
<1>3. pc' \in [Threads -> Labels] /\ Queue' /\ Links'
  BY <1>1, <1>2, OutsideMove DEF Labels, AtHead, Behind
<1>4. Types'
  BY <1>1, <1>2, <1>3 DEF IInv, Types
<1>5. NodesInUse'
  BY <1>1 DEF IInv, Types, NodesInUse, Goto, AtHead, Behind
<1>6. Bytes'
  <2>1. pc'[t] = "queue" /\ (\A u \in Threads \ {t} : pc'[u] = pc[u])
    BY <1>1 DEF IInv, Types, Goto
  <2>2. Setters = {t}
    BY <1>1 DEF Setters, IInv, Bytes
  <2>3. Setters' = {} /\ Pending = {} /\ Pending' = {}
    BY <1>1, <2>1, <2>2 DEF Setters, Pending
  <2>4. Owners' = Owners
    BY <1>1, <2>1 DEF Owners
  <2>. QED
    BY <1>2, <2>1, <2>3, <2>4 DEF IInv, Bytes
<1>. QED
  BY <1>3, <1>4, <1>5, <1>6 DEF IInv

LEMMA WaitOwnerInv ==
    ASSUME IInv, NEW t \in Threads, WaitOwner(t)
    PROVE  IInv'
<1>1. /\ Goto(t, "take_pending") /\ pc[t] = "wait_owner" /\ lock.locked = 0
      /\ UNCHANGED <<lock, next, granted, count, cnt, prev, succ>>
  BY DEF WaitOwner
<1>2. pc' \in [Threads -> Labels] /\ Queue' /\ Links'
  BY <1>1, OutsideMove DEF Labels, AtHead, Behind
<1>3. Types'
  BY <1>1, <1>2 DEF IInv, Types
<1>4. NodesInUse'
  BY <1>1 DEF IInv, Types, NodesInUse, Goto, AtHead, Behind
<1>5. Bytes'
  BY <1>1, BytesKept
<1>. QED
  BY <1>2, <1>3, <1>4, <1>5 DEF IInv

\* The half-word store finds the locked byte 0 and replaces its own pending byte.
LEMMA ClearPendingSetLockedInv ==
    ASSUME IInv, NEW t \in Threads, ClearPendingSetLocked(t)
    PROVE  IInv'
<1>1. /\ Goto(t, "locked") /\ pc[t] = "take_pending"
      /\ UNCHANGED <<next, granted, count, cnt, prev, succ>>
  BY DEF ClearPendingSetLocked
<1>2. /\ lock'.tail = lock.tail /\ lock'.locked = 1 /\ lock'.pending = 0
      /\ lock' \in [tail : Nat, pending : {0, 1}, locked : {0, 1}]
  BY DEF ClearPendingSetLocked, IInv, Types
<1>3. pc' \in [Threads -> Labels] /\ Queue' /\ Links'
  BY <1>1, <1>2, OutsideMove DEF Labels, AtHead, Behind
<1>4. Types'
  BY <1>1, <1>2, <1>3 DEF IInv, Types
<1>5. NodesInUse'
  BY <1>1 DEF IInv, Types, NodesInUse, Goto, AtHead, Behind
<1>6. Bytes'
  <2>1. pc'[t] = "locked" /\ (\A u \in Threads \ {t} : pc'[u] = pc[u])
    BY <1>1 DEF IInv, Types, Goto
  <2>2. Setters = {t} /\ t \in Pending /\ lock.locked = 0
    BY <1>1 DEF Setters, Pending, IInv, Bytes
  <2>3. Setters' = {} /\ Pending' = {}
    BY <2>1, <2>2 DEF Setters, Pending
  <2>4. Owners = {} /\ Owners' = {t}
    BY <1>1, <2>1, <2>2 DEF Owners, IInv, Bytes
  <2>5. \A u \in Threads : pc'[u] \notin {"take_pending", "cmpxchg", "set_locked"}
    BY <2>1, <2>2, <2>3 DEF Pending, IInv, Bytes
  <2>. QED
    BY <1>2, <2>3, <2>4, <2>5 DEF Bytes
<1>. QED
  BY <1>3, <1>4, <1>5, <1>6 DEF IInv

LEMMA ReleaseInv ==
    ASSUME IInv, NEW t \in Threads, lock_release(t)
    PROVE  IInv'
<1>1. /\ Goto(t, "idle") /\ pc[t] = "locked"
      /\ UNCHANGED <<next, granted, count, cnt, prev, succ>>
  BY DEF lock_release
<1>2. /\ lock'.tail = lock.tail /\ lock'.locked = 0 /\ lock'.pending = lock.pending
      /\ lock' \in [tail : Nat, pending : {0, 1}, locked : {0, 1}]
  BY DEF lock_release, IInv, Types
<1>3. pc' \in [Threads -> Labels] /\ Queue' /\ Links'
  BY <1>1, <1>2, OutsideMove DEF Labels, AtHead, Behind
<1>4. Types'
  BY <1>1, <1>2, <1>3 DEF IInv, Types
<1>5. NodesInUse'
  BY <1>1 DEF IInv, Types, NodesInUse, Goto, AtHead, Behind
<1>6. Bytes'
  <2>1. pc'[t] = "idle" /\ (\A u \in Threads \ {t} : pc'[u] = pc[u])
    BY <1>1 DEF IInv, Types, Goto
  <2>2. Owners = {t} /\ Owners' = {}
    BY <1>1, <2>1 DEF Owners, IInv, Bytes
  <2>3. Setters' = Setters /\ Pending' = Pending
    BY <1>1, <2>1 DEF Setters, Pending
  <2>. QED
    BY <1>2, <2>1, <2>2, <2>3 DEF IInv, Bytes
<1>. QED
  BY <1>3, <1>4, <1>5, <1>6 DEF IInv

-----------------------------------------------------------------------------
(* The queue. *)

\* Nobody can reach the node that is initialised.
LEMMA TakeNodeInv ==
    ASSUME IInv, NEW t \in Threads, TakeNode(t)
    PROVE  IInv'
<1>0. /\ pc[t] = "queue" /\ Goto(t, "trylock") /\ UNCHANGED <<lock, cnt, prev, succ>>
      /\ count[t] = 0 /\ count' = [count EXCEPT ![t] = 1]
      /\ granted' = [granted EXCEPT ![First(t)] = 0]
      /\ next' = [next EXCEPT ![First(t)] = NONE]
  <2>1. count[t] = 0
    BY DEF TakeNode, IInv, NodesInUse, AtHead, Behind
  <2>2. count[t] + 1 = 1 /\ <<t, count[t]>> = First(t)
    BY <2>1 DEF First
  <2>. QED
    BY <2>1, <2>2, Zenon DEF TakeNode
<1>1. /\ pc'[t] = "trylock" /\ (\A u \in Threads \ {t} : pc'[u] = pc[u])
      /\ pc' \in [Threads -> Labels]
  BY <1>0 DEF IInv, Types, Goto, Labels
<1>2. /\ next'[First(t)] = NONE /\ granted'[First(t)] = 0
      /\ \A u \in Threads \ {t} : /\ next'[First(u)] = next[First(u)]
                                  /\ granted'[First(u)] = granted[First(u)]
  BY <1>0, FirstNodes DEF IInv, Types
<1>3. InQueue' = InQueue /\ \A u \in InQueue : u \in Threads \ {t}
  BY <1>0, <1>1 DEF InQueue
<1>4. \A u \in InQueue : IsHead(u)' <=> IsHead(u)
  BY <1>1, <1>2, <1>3 DEF IsHead
<1>5. Queue'
  <2>1. PICK num \in [Threads -> Int] : Numbered(num)
    BY DEF IInv, Queue
  <2>2. Numbered(num)'
    BY <1>0, <1>3, <1>4, <2>1 DEF Numbered
  <2>. QED
    BY <2>2 DEF Queue
<1>6. Links'
  BY <1>0, <1>1, <1>2, <1>3 DEF IInv, Links, AtHead
<1>7. Types'
  BY <1>0, <1>1, FirstNodes DEF IInv, Types
<1>8. NodesInUse'
  BY <1>0, <1>1 DEF IInv, Types, NodesInUse
<1>9. Bytes'
  BY <1>0, BytesKept
<1>. QED
  BY <1>5, <1>6, <1>7, <1>8, <1>9 DEF IInv

LEMMA TryLockInv ==
    ASSUME IInv, NEW t \in Threads, TryLock(t)
    PROVE  IInv'
<1>1. PICK l \in {"locked", "xchg_tail"} :
         /\ Goto(t, l) /\ pc[t] = "trylock"
         /\ UNCHANGED <<next, granted, cnt, prev, succ>>
         /\ IF lock = Unlocked THEN lock' = LOCKED_VAL /\ l = "locked"
                               ELSE lock' = lock /\ l # "locked"
         /\ count' = [count EXCEPT ![t] = IF l = "locked" THEN 0 ELSE 1]
  BY DEF TryLock, atomic_try_cmpxchg32, Succeeds, ReleaseNode, IInv, Types, NodesInUse
<1>2. lock' \in [tail : Nat, pending : {0, 1}, locked : {0, 1}] /\ lock'.tail = lock.tail
  BY <1>1 DEF IInv, Types, Unlocked, LOCKED_VAL, Word
<1>3. pc' \in [Threads -> Labels] /\ Queue' /\ Links'
  BY <1>1, <1>2, OutsideMove DEF Labels, AtHead, Behind
<1>4. Types'
  BY <1>1, <1>2, <1>3 DEF IInv, Types
<1>5. NodesInUse'
  BY <1>1 DEF IInv, Types, NodesInUse, Goto, AtHead, Behind
<1>6. Bytes'
  <2>1. CASE lock = Unlocked
    <3>1. InQueue = {} /\ Setters = {} /\ lock.locked = 0 /\ lock.pending = 0
      BY <2>1, OneHead DEF Unlocked, Word, IInv, Bytes
    <3>2. lock'.locked = 1 /\ lock'.pending = 0
      BY <1>1, <2>1 DEF LOCKED_VAL, Word
    <3>3. Pending = {} /\ \A u \in Threads : pc[u] \notin {"cmpxchg", "set_locked"}
      BY <3>1 DEF Setters, InQueue
    <3>. QED
      BY <1>1, <2>1, <3>1, <3>2, <3>3, BytesTaken
  <2>2. CASE lock # Unlocked
    BY <1>1, <2>2, BytesKept
  <2>. QED
    BY <2>1, <2>2
<1>. QED
  BY <1>3, <1>4, <1>5, <1>6 DEF IInv

\* The exchange puts the thread behind the last, or at the head of an empty queue.
LEMMA XchgTailInv ==
    ASSUME IInv, NEW t \in Threads, XchgTail(t)
    PROVE  IInv'
<1>. DEFINE l == IF lock.tail = 0 THEN "head" ELSE "link"
<1>0. /\ pc[t] = "xchg_tail" /\ UNCHANGED <<next, granted, count, cnt>>
      /\ Goto(t, l) /\ l \in {"head", "link"}
      /\ succ' = [succ EXCEPT ![t] = NONE]
      /\ prev' = [prev EXCEPT ![t] = IF lock.tail = 0 THEN NONE ELSE decode_tail(lock.tail)]
      /\ lock' = [lock EXCEPT !.tail = Code(t)]
  BY UsesFirst DEF XchgTail
<1>1. /\ pc'[t] = l /\ (\A u \in Threads \ {t} : pc'[u] = pc[u])
      /\ pc' \in [Threads -> Labels]
  BY <1>0 DEF IInv, Types, Goto, Labels, AtHead, Behind
<1>2. /\ lock'.tail = Code(t) /\ lock'.locked = lock.locked /\ lock'.pending = lock.pending
      /\ lock' \in [tail : Nat, pending : {0, 1}, locked : {0, 1}]
  BY <1>0, DecodeEncode DEF IInv, Types
<1>3. t \notin InQueue /\ InQueue' = InQueue \cup {t} /\ InQueue \subseteq Threads
  BY <1>0, <1>1 DEF InQueue
<1>4. /\ \A u \in InQueue : IsHead(u)' <=> IsHead(u)
      /\ IsHead(t)' <=> lock.tail = 0
  <2>1. granted[First(t)] = 0
    BY <1>0 DEF IInv, Links
  <2>. QED
    BY <1>0, <1>1, <1>3, <2>1 DEF IsHead, AtHead
<1>5. PICK num \in [Threads -> Int] : Numbered(num)
  BY DEF IInv, Queue
<1>6. ASSUME lock.tail = 0 PROVE Queue' /\ prev' \in [Threads -> Node \cup {NONE}]
  <2>1. InQueue = {} /\ InQueue' = {t} /\ prev'[t] = NONE
    BY <1>0, <1>3, <1>6, OneHead DEF IInv, Types
  <2>2. Numbered(num)'
    BY <1>2, <1>4, <1>6, <2>1 DEF Numbered
  <2>3. prev' \in [Threads -> Node \cup {NONE}]
    BY <1>0, <1>6 DEF IInv, Types
  <2>. QED
    BY <2>2, <2>3 DEF Queue
<1>7. ASSUME lock.tail # 0 PROVE Queue' /\ prev' \in [Threads -> Node \cup {NONE}]
  <2>1. PICK last \in InQueue : lock.tail = Code(last) /\ \A u \in InQueue : num[u] <= num[last]
    BY <1>5, <1>7 DEF Numbered
  <2>2. /\ prev'[t] = First(last) /\ (\A u \in Threads \ {t} : prev'[u] = prev[u])
        /\ prev' \in [Threads -> Node \cup {NONE}]
    <3>1. decode_tail(lock.tail) = First(last) /\ First(last) \in Node
      BY <1>3, <2>1, DecodeEncode, FirstNodes
    <3>. QED
      BY <1>0, <1>7, <3>1 DEF IInv, Types
  <2>. DEFINE num2 == [num EXCEPT ![t] = num[last] + 1]
  <2>3. /\ num2 \in [Threads -> Int] /\ num2[t] = num[last] + 1
        /\ \A u \in InQueue : num2[u] = num[u] /\ num[u] \in Int
    BY <1>3
  <2>4. PICK m : m = num2
    OBVIOUS
  <2>. HIDE DEF num2
  <2>5. Numbered(m)'
    <3>1. \A u, v \in InQueue' : m[u] = m[v] => u = v
      BY <1>3, <1>5, <2>1, <2>3, <2>4 DEF Numbered
    <3>2. ASSUME NEW u \in InQueue', IsHead(u)' PROVE \A v \in InQueue' : m[u] <= m[v]
      BY <1>3, <1>4, <1>5, <1>7, <2>1, <2>3, <2>4, <3>2, SMTT(30) DEF Numbered
    <3>3. ASSUME NEW u \in InQueue', ~IsHead(u)'
          PROVE  \E v \in InQueue' : prev'[u] = First(v) /\ m[u] = m[v] + 1
      <4>1. CASE u = t
        BY <1>3, <2>1, <2>2, <2>3, <2>4, <4>1
      <4>2. CASE u # t
        BY <1>3, <1>4, <1>5, <2>2, <2>3, <2>4, <3>3, <4>2 DEF Numbered
      <4>. QED
        BY <4>1, <4>2
    <3>4. \A u \in InQueue' : m[u] <= m[t]
      BY <1>3, <2>1, <2>3, <2>4
    <3>. QED
      BY <1>2, <1>3, <3>1, <3>2, <3>3, <3>4 DEF Numbered
  <2>. QED
    BY <2>2, <2>3, <2>4, <2>5 DEF Queue
<1>8. Queue' /\ prev' \in [Threads -> Node \cup {NONE}]
  BY <1>6, <1>7
<1>9. Links'
  <2>1. next[First(t)] = NONE /\ granted[First(t)] = 0
    BY <1>0 DEF IInv, Links
  <2>2. succ'[t] = NONE /\ (\A u \in Threads \ {t} : succ'[u] = succ[u] /\ prev'[u] = prev[u])
    BY <1>0 DEF IInv, Types
  <2>3. ASSUME NEW u \in Threads, pc[u] = "mcs_wait" PROVE u # t
    BY <1>0, <2>3
  <2>. QED
    BY <1>0, <1>1, <1>3, <2>1, <2>2, <2>3 DEF IInv, Links, AtHead
<1>10. Types'
  BY <1>0, <1>1, <1>2, <1>8 DEF IInv, Types
<1>11. NodesInUse'
  BY <1>0, <1>1 DEF IInv, NodesInUse, AtHead, Behind
<1>12. Bytes'
  BY <1>0, <1>2, BytesKept
<1>. QED
  BY <1>8, <1>9, <1>10, <1>11, <1>12 DEF IInv

\* The predecessor is in the queue and has no other successor.
LEMMA LinkInv ==
    ASSUME IInv, NEW t \in Threads, Link(t)
    PROVE  IInv'
<1>0. /\ pc[t] = "link" /\ Goto(t, "mcs_wait")
      /\ UNCHANGED <<lock, granted, count, cnt, prev, succ>>
      /\ next' = [next EXCEPT ![prev[t]] = First(t)]
  BY UsesFirst DEF Link, Behind
<1>1. /\ pc'[t] = "mcs_wait" /\ (\A u \in Threads \ {t} : pc'[u] = pc[u])
      /\ pc' \in [Threads -> Labels]
  BY <1>0 DEF IInv, Types, Goto, Labels, Behind
<1>2. t \in InQueue /\ InQueue' = InQueue /\ InQueue \subseteq Threads
  BY <1>0, <1>1 DEF InQueue
<1>3. granted[First(t)] = 0
  BY <1>0 DEF IInv, Links
<1>4. ~IsHead(t) /\ \A u \in InQueue : IsHead(u)' <=> IsHead(u)
  BY <1>0, <1>1, <1>2, <1>3 DEF IsHead, AtHead
<1>5. PICK num \in [Threads -> Int] : Numbered(num)
  BY DEF IInv, Queue
<1>6. Queue'
  <2>1. Numbered(num)'
    BY <1>0, <1>2, <1>4, <1>5 DEF Numbered
  <2>. QED
    BY <2>1 DEF Queue
<1>7. PICK p \in InQueue : prev[t] = First(p) /\ num[t] = num[p] + 1
  BY <1>2, <1>4, <1>5 DEF Numbered
<1>8. /\ next'[First(p)] = First(t) /\ next' \in [Node -> Node \cup {NONE}]
      /\ \A u \in Threads \ {p} : next'[First(u)] = next[First(u)]
  BY <1>0, <1>2, <1>7, FirstNodes DEF IInv, Types
<1>9. next[First(p)] = NONE
  <2>. SUFFICES ASSUME next[First(p)] # NONE PROVE FALSE
    OBVIOUS
  <2>1. PICK u \in Threads : prev[u] = First(p) /\ pc[u] = "mcs_wait" /\ granted[First(u)] = 0
    BY <1>2, <1>7 DEF IInv, Links
  <2>2. u \in InQueue /\ ~IsHead(u)
    BY <2>1 DEF InQueue, IsHead, AtHead
  <2>3. num[u] = num[p] + 1
    BY <1>2, <1>5, <2>1, <2>2, FirstNodes, SMTT(30) DEF Numbered
  <2>. QED
    BY <1>0, <1>2, <1>5, <1>7, <2>1, <2>2, <2>3 DEF Numbered
<1>10. Links'
  <2>. SUFFICES ASSUME NEW u \in Threads PROVE
          /\ u \in InQueue' /\ next'[First(u)] # NONE =>
                \E v \in Threads : /\ next'[First(u)] = First(v) /\ prev'[v] = First(u)
                                   /\ pc'[v] = "mcs_wait" /\ granted'[First(v)] = 0
          /\ pc'[u] \in {"trylock", "xchg_tail"} => next'[First(u)] = NONE
          /\ pc'[u] \in {"trylock", "xchg_tail", "link"} => granted'[First(u)] = 0
          /\ pc'[u] \in AtHead /\ succ'[u] # NONE => succ'[u] = next'[First(u)]
          /\ pc'[u] = "pass" => succ'[u] # NONE
    BY DEF Links
  <2>1. CASE u = p
    <3>1. pc'[p] \notin {"trylock", "xchg_tail"} /\ (pc'[p] = "pass" => pc[p] = "pass")
      BY <1>1, <1>2, <1>7 DEF InQueue
    <3>2. pc'[p] \in AtHead => pc[p] \in AtHead
      BY <1>1, <1>2 DEF AtHead
    <3>3. pc'[p] = "link" => granted[First(p)] = 0
      BY <1>1, <1>2 DEF IInv, Links
    <3>4. pc[p] \in AtHead => succ[p] = NONE
      BY <1>2, <1>9 DEF IInv, Links
    <3>5. pc[p] # "pass"
      BY <1>2, <3>4 DEF IInv, Links, AtHead
    <3>. QED
      BY <1>0, <1>1, <1>3, <1>7, <1>8, <2>1, <3>1, <3>2, <3>3, <3>4, <3>5
  <2>2. CASE u # p
    <3>1. next'[First(u)] = next[First(u)]
      BY <1>8, <2>2
    <3>2. \A v \in Threads : pc[v] = "mcs_wait" => pc'[v] = "mcs_wait"
      BY <1>1
    <3>3. /\ pc'[u] \in {"trylock", "xchg_tail", "link"} => pc[u] = pc'[u]
          /\ pc'[u] \in AtHead => pc[u] = pc'[u]
          /\ pc'[u] = "pass" => pc[u] = "pass"
      BY <1>1 DEF AtHead
    <3>. QED
      BY <1>0, <1>2, <3>1, <3>2, <3>3, SMTT(30) DEF IInv, Links
  <2>. QED
    BY <2>1, <2>2
<1>11. Types'
  BY <1>0, <1>1, <1>8 DEF IInv, Types
<1>12. NodesInUse'
  BY <1>0, <1>1 DEF IInv, NodesInUse, AtHead, Behind
<1>13. Bytes'
  BY <1>0, BytesKept, SMTT(30)
<1>. QED
  BY <1>6, <1>10, <1>11, <1>12, <1>13 DEF IInv

LEMMA McsWaitInv ==
    ASSUME IInv, NEW t \in Threads, McsWait(t)
    PROVE  IInv'
<1>0. /\ pc[t] = "mcs_wait" /\ Goto(t, "head") /\ granted[First(t)] = 1
      /\ UNCHANGED <<lock, next, granted, count, cnt>>
      /\ succ' = [succ EXCEPT ![t] = next[First(t)]]
      /\ prev' = [prev EXCEPT ![t] = NONE]
  BY UsesFirst DEF McsWait, Behind
<1>1. t \in InQueue /\ IsHead(t)
  BY <1>0 DEF InQueue, IsHead
<1>2. /\ succ' \in [Threads -> Node \cup {NONE}] /\ prev' \in [Threads -> Node \cup {NONE}]
      /\ succ'[t] = next[First(t)]
      /\ \A u \in Threads \ {t} : prev'[u] = prev[u] /\ succ'[u] = succ[u]
  BY <1>0, FirstNodes DEF IInv, Types
<1>3. pc' \in [Threads -> Labels] /\ Queue' /\ Links'
  BY <1>0, <1>1, <1>2, HeadMove DEF AtHead
<1>4. Types'
  BY <1>0, <1>2, <1>3 DEF IInv, Types
<1>5. NodesInUse'
  BY <1>0 DEF IInv, Types, NodesInUse, Goto, AtHead, Behind
<1>6. Bytes'
  BY <1>0, BytesKept
<1>. QED
  BY <1>3, <1>4, <1>5, <1>6 DEF IInv

LEMMA HeadWaitInv ==
    ASSUME IInv, NEW t \in Threads, HeadWait(t)
    PROVE  IInv'
<1>0. PICK l \in {"cmpxchg", "set_locked"} :
         /\ pc[t] = "head" /\ Goto(t, l) /\ lock.locked = 0 /\ lock.pending = 0
         /\ UNCHANGED <<lock, next, granted, count, cnt, prev, succ>>
  BY DEF HeadWait
<1>1. t \in InQueue /\ IsHead(t)
  BY <1>0 DEF InQueue, IsHead, AtHead
<1>2. succ[t] \in {NONE, next[First(t)]}
  BY <1>0 DEF IInv, Links, AtHead
<1>3. pc' \in [Threads -> Labels] /\ Queue' /\ Links'
  BY <1>0, <1>1, <1>2, HeadMove DEF AtHead
<1>4. Types'
  BY <1>0, <1>3 DEF IInv, Types
<1>5. NodesInUse'
  BY <1>0 DEF IInv, Types, NodesInUse, Goto, AtHead, Behind
<1>6. Bytes'
  <2>1. Pending = {}
    BY <1>0 DEF IInv, Bytes, Setters
  <2>. QED
    BY <1>0, <2>1, BytesKept
<1>. QED
  BY <1>3, <1>4, <1>5, <1>6 DEF IInv

\* The head that the tail still names is alone in the queue.
LEMMA HeadIsTail ==
    ASSUME IInv, NEW t \in InQueue, IsHead(t), lock.tail = Code(t)
    PROVE  InQueue = {t}
<1>1. PICK num \in [Threads -> Int] : Numbered(num)
  BY DEF IInv, Queue
<1>2. InQueue \subseteq Threads
  BY DEF InQueue
<1>3. PICK last \in InQueue : lock.tail = Code(last) /\ \A u \in InQueue : num[u] <= num[last]
  BY <1>1 DEF Numbered
<1>4. last = t
  BY <1>2, <1>3, CodesDiffer
<1>5. ASSUME NEW u \in InQueue PROVE u = t
  <2>1. num[t] <= num[u] /\ num[u] <= num[t] /\ num[t] \in Int /\ num[u] \in Int
    BY <1>1, <1>2, <1>3, <1>4 DEF Numbered
  <2>. QED
    BY <1>1, <2>1 DEF Numbered
<1>. QED
  BY <1>5

LEMMA HeadCmpxchgInv ==
    ASSUME IInv, NEW t \in Threads, HeadCmpxchg(t)
    PROVE  IInv'
<1>0. /\ pc[t] = "cmpxchg" /\ UNCHANGED <<next, granted, cnt, prev, succ>>
      /\ MyTail(t) = Code(t) /\ count[t] = 1
  BY UsesFirst DEF HeadCmpxchg, AtHead, IInv, NodesInUse
<1>1. t \in InQueue /\ IsHead(t) /\ InQueue \subseteq Threads
  BY <1>0 DEF InQueue, IsHead, AtHead
<1>2. lock.locked = 0 /\ Pending = {}
  BY <1>0, SMTT(30) DEF IInv, Bytes
<1>3. CASE lock = Word(Code(t), 0, 0)
  <2>1. /\ lock' = LOCKED_VAL /\ Goto(t, "locked")
        /\ count' = [count EXCEPT ![t] = 0]
    BY <1>0, <1>3 DEF HeadCmpxchg, atomic_try_cmpxchg32, Succeeds, ReleaseNode
  <2>2. /\ lock.tail = Code(t) /\ lock'.tail = 0 /\ lock'.locked = 1 /\ lock'.pending = 0
        /\ lock.pending = 0 /\ lock' \in [tail : Nat, pending : {0, 1}, locked : {0, 1}]
    BY <1>3, <2>1 DEF Word, LOCKED_VAL
  <2>3. InQueue = {t}
    BY <1>1, <2>2, HeadIsTail
  <2>4. /\ pc'[t] = "locked" /\ (\A u \in Threads \ {t} : pc'[u] = pc[u])
        /\ pc' \in [Threads -> Labels]
    BY <2>1 DEF IInv, Types, Goto, Labels
  <2>5. InQueue' = {}
    BY <2>3, <2>4 DEF InQueue
  <2>6. Queue'
    <3>1. PICK num \in [Threads -> Int] : Numbered(num)
      BY DEF IInv, Queue
    <3>2. Numbered(num)'
      BY <2>2, <2>5 DEF Numbered
    <3>. QED
      BY <3>2 DEF Queue
  <2>7. Links'
    <3>1. \A u \in Threads : pc'[u] \in {"trylock", "xchg_tail", "link"} => pc[u] = pc'[u]
      BY <2>4
    <3>2. \A u \in Threads : pc'[u] \notin AtHead
      BY <2>5 DEF InQueue, AtHead
    <3>. QED
      BY <1>0, <2>5, <3>1, <3>2 DEF IInv, Links, AtHead
  <2>8. Types'
    BY <1>0, <2>1, <2>2, <2>4 DEF IInv, Types
  <2>9. NodesInUse'
    BY <2>1, <2>4 DEF IInv, Types, NodesInUse, AtHead, Behind
  <2>10. Bytes'
    <3>1. t \notin Setters
      BY <1>0 DEF Setters, Pending
    <3>2. \A u \in Threads \ {t} : pc[u] \notin {"cmpxchg", "set_locked"}
      BY <2>3, SMTT(30) DEF InQueue
    <3>. QED
      BY <1>2, <2>1, <2>2, <3>1, <3>2, BytesTaken
  <2>. QED
    BY <2>6, <2>7, <2>8, <2>9, <2>10 DEF IInv
<1>4. CASE lock # Word(Code(t), 0, 0)
  <2>1. lock' = lock /\ Goto(t, "set_locked") /\ count' = count
    BY <1>0, <1>4, SMTT(30) DEF HeadCmpxchg, atomic_try_cmpxchg32, Succeeds
  <2>2. succ[t] \in {NONE, next[First(t)]}
    BY <1>0, SMTT(30) DEF IInv, Links, AtHead
  <2>3. pc' \in [Threads -> Labels] /\ Queue' /\ Links'
    BY <1>0, <1>1, <2>1, <2>2, HeadMove, SMTT(30) DEF AtHead
  <2>4. Types'
    BY <1>0, <2>1, <2>3 DEF IInv, Types
  <2>5. NodesInUse'
    BY <1>0, <2>1 DEF IInv, Types, NodesInUse, Goto, AtHead, Behind
  <2>6. Bytes'
    BY <1>0, <1>2, <2>1, BytesKept
  <2>. QED
    BY <2>3, <2>4, <2>5, <2>6 DEF IInv
<1>. QED
  BY <1>3, <1>4

\* The byte store of the head finds the locked byte 0: a newcomer meets the tail.
LEMMA SetLockedInv ==
    ASSUME IInv, NEW t \in Threads, SetLocked(t)
    PROVE  IInv'
<1>0. PICK l \in {"wait_next", "pass"} :
         /\ pc[t] = "set_locked" /\ Goto(t, l) /\ (l = "pass" => succ[t] # NONE)
         /\ UNCHANGED <<next, granted, count, cnt, prev, succ>>
  BY DEF SetLocked
<1>1. t \in InQueue /\ IsHead(t) /\ InQueue \subseteq Threads
  BY <1>0 DEF InQueue, IsHead, AtHead
<1>2. succ[t] \in {NONE, next[First(t)]} /\ lock.locked = 0 /\ Pending = {}
  BY <1>0 DEF IInv, Links, Bytes, AtHead
<1>3. /\ lock'.tail = lock.tail /\ lock'.locked = 1 /\ lock'.pending = lock.pending
      /\ lock' \in [tail : Nat, pending : {0, 1}, locked : {0, 1}]
  BY DEF SetLocked, IInv, Types
<1>4. pc' \in [Threads -> Labels] /\ Queue' /\ Links'
  BY <1>0, <1>1, <1>2, <1>3, HeadMove, SMTT(30) DEF AtHead
<1>5. Types'
  BY <1>0, <1>3, <1>4 DEF IInv, Types
<1>6. NodesInUse'
  BY <1>0 DEF IInv, Types, NodesInUse, Goto, AtHead, Behind
<1>7. Bytes'
  <2>1. t \notin Setters
    BY <1>0 DEF Setters, Pending
  <2>2. ASSUME NEW u \in Threads \ {t} PROVE pc[u] \notin {"cmpxchg", "set_locked"}
    <3>1. pc[u] \in {"cmpxchg", "set_locked"} => u \in InQueue /\ IsHead(u)
      BY DEF InQueue, IsHead, AtHead
    <3>. QED
      BY <1>1, <3>1, OneHead
  <2>. QED
    BY <1>0, <1>2, <1>3, <2>1, <2>2, BytesTaken, SMTT(30)
<1>. QED
  BY <1>4, <1>5, <1>6, <1>7 DEF IInv

LEMMA WaitNextInv ==
    ASSUME IInv, NEW t \in Threads, WaitNext(t)
    PROVE  IInv'
<1>0. /\ pc[t] = "wait_next" /\ Goto(t, "pass") /\ next[First(t)] # NONE
      /\ UNCHANGED <<lock, next, granted, count, cnt, prev>>
      /\ succ' = [succ EXCEPT ![t] = next[First(t)]]
  BY UsesFirst DEF WaitNext, AtHead
<1>1. t \in InQueue /\ IsHead(t)
  BY <1>0 DEF InQueue, IsHead, AtHead
<1>2. /\ succ' \in [Threads -> Node \cup {NONE}] /\ succ'[t] = next[First(t)]
      /\ \A u \in Threads \ {t} : succ'[u] = succ[u]
  BY <1>0, FirstNodes DEF IInv, Types
<1>3. pc' \in [Threads -> Labels] /\ Queue' /\ Links'
  BY <1>0, <1>1, <1>2, HeadMove, SMTT(30) DEF AtHead
<1>4. Types'
  BY <1>0, <1>2, <1>3 DEF IInv, Types
<1>5. NodesInUse'
  BY <1>0 DEF IInv, Types, NodesInUse, Goto, AtHead, Behind
<1>6. Bytes'
  BY <1>0, BytesKept
<1>. QED
  BY <1>3, <1>4, <1>5, <1>6 DEF IInv

\* The successor becomes the head, and nobody else waits for the node given back.
LEMMA PassInv ==
    ASSUME IInv, NEW t \in Threads, Pass(t)
    PROVE  IInv'
<1>0. /\ pc[t] = "pass" /\ Goto(t, "locked") /\ UNCHANGED <<lock, next, cnt, prev>>
      /\ granted' = [granted EXCEPT ![succ[t]] = 1]
      /\ succ' = [succ EXCEPT ![t] = NONE]
      /\ count[t] = 1 /\ count' = [count EXCEPT ![t] = 0]
  <2>1. count[t] = 1
    BY DEF Pass, IInv, NodesInUse, AtHead
  <2>2. count[t] - 1 = 0
    BY <2>1
  <2>. QED
    BY <2>1, <2>2, Zenon DEF Pass, ReleaseNode
<1>1. t \in InQueue /\ IsHead(t) /\ InQueue \subseteq Threads
  BY <1>0 DEF InQueue, IsHead, AtHead
<1>2. PICK u \in Threads : /\ succ[t] = First(u) /\ prev[u] = First(t)
                           /\ pc[u] = "mcs_wait" /\ granted[First(u)] = 0
  <2>1. succ[t] # NONE /\ succ[t] = next[First(t)]
    BY <1>0 DEF IInv, Links, AtHead
  <2>. QED
    BY <1>1, <2>1, SMTT(30) DEF IInv, Links
<1>3. u \in InQueue /\ u # t /\ ~IsHead(u)
  BY <1>0, <1>2 DEF InQueue, IsHead, AtHead
<1>4. /\ pc'[t] = "locked" /\ (\A v \in Threads \ {t} : pc'[v] = pc[v])
      /\ pc' \in [Threads -> Labels]
  BY <1>0 DEF IInv, Types, Goto, Labels
<1>5. /\ granted'[First(u)] = 1 /\ granted' \in [Node -> {0, 1}]
      /\ \A v \in Threads \ {u} : granted'[First(v)] = granted[First(v)]
  BY <1>0, <1>2, FirstNodes DEF IInv, Types
<1>6. InQueue' = InQueue \ {t}
  BY <1>4 DEF InQueue
<1>7. IsHead(u)' /\ \A v \in InQueue' \ {u} : IsHead(v)' <=> IsHead(v)
  BY <1>1, <1>2, <1>3, <1>4, <1>5, <1>6 DEF IsHead
<1>8. \A v \in InQueue' \ {u} : ~IsHead(v)
  BY <1>1, <1>6, OneHead
<1>9. Queue'
  <2>1. PICK num \in [Threads -> Int] : Numbered(num)
    BY DEF IInv, Queue
  <2>2. \A v \in InQueue : num[v] \in Int
    BY <1>1
  <2>3. num[u] = num[t] + 1
    BY <1>1, <1>2, <1>3, <2>1, FirstNodes, SMTT(30) DEF Numbered
  <2>4. \A v, w \in InQueue' : num[v] = num[w] => v = w
    BY <1>6, <2>1 DEF Numbered
  <2>5. \A v \in InQueue' : num[u] <= num[v]
    <3>1. ASSUME NEW v \in InQueue' PROVE num[t] <= num[v] /\ num[t] # num[v]
      BY <1>1, <1>6, <2>1 DEF Numbered
    <3>. QED
      BY <1>1, <1>6, <2>2, <2>3, <3>1
  <2>6. ASSUME NEW v \in InQueue', ~IsHead(v)'
        PROVE  \E w \in InQueue' : prev'[v] = First(w) /\ num[v] = num[w] + 1
    <3>1. v # u /\ ~IsHead(v) /\ v \in InQueue
      BY <1>6, <1>7, <1>8, <2>6
    <3>2. PICK w \in InQueue : prev[v] = First(w) /\ num[v] = num[w] + 1
      BY <2>1, <3>1 DEF Numbered
    <3>3. w # t
      BY <1>3, <2>1, <2>3, <3>1, <3>2, SMTT(30) DEF Numbered
    <3>. QED
      BY <1>0, <1>6, <3>2, <3>3
  <2>7. \E v \in InQueue' : lock'.tail = Code(v) /\ \A w \in InQueue' : num[w] <= num[v]
    <3>1. PICK last \in InQueue : lock.tail = Code(last) /\ \A w \in InQueue : num[w] <= num[last]
      BY <1>1, <2>1 DEF Numbered
    <3>2. last # t
      BY <1>1, <1>3, <2>2, <2>3, <3>1
    <3>. QED
      BY <1>0, <1>6, <3>1, <3>2
  <2>8. Numbered(num)'
    BY <1>7, <1>8, <2>4, <2>5, <2>6, <2>7, SMTT(30) DEF Numbered
  <2>. QED
    BY <2>8 DEF Queue
<1>10. Links'
  <2>. SUFFICES ASSUME NEW v \in Threads PROVE
          /\ v \in InQueue' /\ next'[First(v)] # NONE =>
                \E w \in Threads : /\ next'[First(v)] = First(w) /\ prev'[w] = First(v)
                                   /\ pc'[w] = "mcs_wait" /\ granted'[First(w)] = 0
          /\ pc'[v] \in {"trylock", "xchg_tail"} => next'[First(v)] = NONE
          /\ pc'[v] \in {"trylock", "xchg_tail", "link"} => granted'[First(v)] = 0
          /\ pc'[v] \in AtHead /\ succ'[v] # NONE => succ'[v] = next'[First(v)]
          /\ pc'[v] = "pass" => succ'[v] # NONE
    BY DEF Links
  <2>1. ASSUME v \in InQueue', next'[First(v)] # NONE
        PROVE  \E w \in Threads : /\ next'[First(v)] = First(w) /\ prev'[w] = First(v)
                                  /\ pc'[w] = "mcs_wait" /\ granted'[First(w)] = 0
    <3>1. PICK w \in Threads : /\ next[First(v)] = First(w) /\ prev[w] = First(v)
                               /\ pc[w] = "mcs_wait" /\ granted[First(w)] = 0
      BY <1>0, <1>6, <2>1, SMTT(30) DEF IInv, Links
    <3>2. w # u /\ w # t
      BY <1>0, <1>2, <1>6, <2>1, <3>1, FirstNodes, SMTT(30)
    <3>. QED
      BY <1>0, <1>4, <1>5, <3>1, <3>2, SMTT(30)
  <2>2. pc'[v] \in {"trylock", "xchg_tail", "link"} => pc[v] = pc'[v] /\ v # u
    BY <1>2, <1>3, <1>4, SMTT(30)
  <2>3. pc'[v] \in AtHead => pc[v] = pc'[v] /\ succ'[v] = succ[v]
    BY <1>0, <1>4 DEF AtHead, IInv, Types
  <2>4. pc'[v] = "pass" => pc'[v] \in AtHead
    BY DEF AtHead
  <2>. QED
    BY <1>0, <1>5, <2>1, <2>2, <2>3, <2>4, SMTT(30) DEF IInv, Links
<1>11. Types'
  BY <1>0, <1>4, <1>5 DEF IInv, Types
<1>12. NodesInUse'
  BY <1>0, <1>4 DEF IInv, Types, NodesInUse, AtHead, Behind
<1>13. Bytes'
  BY <1>0, BytesKept
<1>. QED
  BY <1>9, <1>10, <1>11, <1>12, <1>13 DEF IInv

-----------------------------------------------------------------------------
LEMMA InitInv == Init => IInv
<1>. SUFFICES ASSUME Init PROVE IInv
  OBVIOUS
<1>. USE DEF Init
<1>1. Types
  BY Constants DEF Types, Labels, Unlocked, Word
<1>2. NodesInUse
  BY DEF NodesInUse, AtHead, Behind
<1>3. Owners = {} /\ Setters = {} /\ Pending = {} /\ InQueue = {}
  BY DEF Owners, Setters, Pending, InQueue
<1>4. Bytes
  BY <1>3 DEF Bytes, Unlocked, Word
<1>5. Queue
  <2>1. PICK num : num = [t \in Threads |-> 0]
    OBVIOUS
  <2>2. num \in [Threads -> Int] /\ Numbered(num)
    BY <1>3, <2>1 DEF Numbered, Unlocked, Word
  <2>. QED
    BY <2>2 DEF Queue
<1>6. Links
  BY <1>3 DEF Links, AtHead
<1>. QED
  BY <1>1, <1>2, <1>4, <1>5, <1>6 DEF IInv

LEMMA StepInv == IInv /\ [Next]_vars => IInv'
<1>. SUFFICES ASSUME IInv, [Next]_vars PROVE IInv'
  OBVIOUS
<1>1. CASE UNCHANGED vars
  <2>1. InQueue' = InQueue /\ Owners' = Owners /\ Pending' = Pending /\ Setters' = Setters
    BY <1>1 DEF vars, InQueue, Owners, Pending, Setters
  <2>2. Queue'
    <3>1. PICK num \in [Threads -> Int] : Numbered(num)
      BY SMTT(30) DEF IInv, Queue
    <3>2. Numbered(num)'
      BY <1>1, <2>1, <3>1 DEF vars, Numbered, IsHead
    <3>. QED
      BY <3>2 DEF Queue
  <2>. QED
    BY <1>1, <2>1, <2>2 DEF vars, IInv, Types, NodesInUse, Bytes, Links
<1>2. ASSUME NEW t \in Threads, LockFast(t) \/ InsideStep(t) PROVE IInv'
  BY <1>2, LockFastInv, WaitHandoverInv, FetchSetPendingInv, ClearPendingInv, WaitOwnerInv,
     ClearPendingSetLockedInv, TakeNodeInv, TryLockInv, XchgTailInv, LinkInv, McsWaitInv,
     HeadWaitInv, HeadCmpxchgInv, SetLockedInv, WaitNextInv, PassInv, ReleaseInv
     DEF InsideStep
<1>. QED
  BY <1>1, <1>2 DEF Next

\* The queued spinlock keeps the inductive invariant.
THEOREM QueuedInvariant == Spec => []IInv
BY InitInv, StepInv, PTL DEF Spec

\* Every path gives its MCS node back, so one node per thread is enough, and the tail
\* field never outgrows the codes of the threads.
THEOREM QueuedTypeCorrect == Spec => []TypeOK
<1>1. IInv => TypeOK
  <2>. SUFFICES ASSUME IInv PROVE TypeOK
    OBVIOUS
  <2>1. lock \in [tail : 0..((N + 1) * MAX_NODES - 1), pending : {0, 1}, locked : {0, 1}]
    <3>1. lock.tail = 0 \/ \E t \in Threads : lock.tail = Code(t)
      BY DEF IInv, Queue, Numbered, InQueue
    <3>2. (N + 1) * MAX_NODES - 1 \in Nat
      <4>1. \A n \in Nat, m \in Nat \ {0} : (n + 1) * m - 1 \in Nat
        BY SMT
      <4>. QED
        BY <4>1, Constants
    <3>3. lock.tail \in Nat /\ lock.tail <= (N + 1) * MAX_NODES - 1
      BY <3>1, <3>2, DecodeEncode
    <3>4. lock.tail \in 0..((N + 1) * MAX_NODES - 1)
      BY <3>2, <3>3
    <3>. QED
      BY <3>4, Zenon DEF IInv, Types
  <2>2. \A t \in Threads :
           count[t] = IF t \in InQueue \/ pc[t] \in {"trylock", "xchg_tail"} THEN 1 ELSE 0
    BY Queued DEF IInv, NodesInUse
  <2>. QED
    BY <2>1, <2>2 DEF TypeOK, IInv, Types
<1>. QED
  BY <1>1, QueuedInvariant, PTL

\* At most one thread owns the lock and the locked byte says whether one does, for any
\* number of threads, although three paths store the byte without a compare.
THEOREM QueuedMutualExclusion == Spec => []MutualExclusion
<1>1. IInv => MutualExclusion
  BY DEF IInv, Bytes, MutualExclusion
<1>. QED
  BY <1>1, QueuedInvariant, PTL

\* The pending byte has exactly one thread that will clear it, the tail is 0 exactly when
\* the queue is empty, and otherwise names the last queued thread's unlinked node.
THEOREM QueuedWordMatches == Spec => []WordMatchesThreads
<1>1. IInv => WordMatchesThreads
  <2>. SUFFICES ASSUME IInv PROVE WordMatchesThreads
    OBVIOUS
  <2>1. lock.pending = Cardinality(Setters)
    <3>1. CASE Setters = {}
      BY <3>1, FS_EmptySet DEF IInv, Types, Bytes
    <3>2. ASSUME NEW t \in Setters PROVE lock.pending = Cardinality(Setters)
      <4>1. Setters = {t}
        BY DEF IInv, Bytes
      <4>. QED
        BY <4>1, FS_Singleton DEF IInv, Bytes
    <3>. QED
      BY <3>1, <3>2
  <2>2. ASSUME lock.tail # 0
        PROVE  \E t \in InQueue : lock.tail = MyTail(t) /\ next[MyNode(t)] = NONE
    <3>1. PICK num \in [Threads -> Int] : Numbered(num)
      BY DEF IInv, Queue
    <3>2. PICK last \in InQueue : lock.tail = Code(last) /\ \A u \in InQueue : num[u] <= num[last]
      BY <2>2, <3>1 DEF Numbered
    <3>3. /\ last \in Threads /\ InQueue \subseteq Threads
          /\ MyTail(last) = Code(last) /\ MyNode(last) = First(last)
      BY UsesFirst, Queued DEF InQueue
    <3>4. next[First(last)] = NONE
      <4>. SUFFICES ASSUME next[First(last)] # NONE PROVE FALSE
        OBVIOUS
      <4>1. PICK u \in Threads : /\ prev[u] = First(last)
                                 /\ pc[u] = "mcs_wait" /\ granted[First(u)] = 0
        BY <3>3 DEF IInv, Links
      <4>2. u \in InQueue /\ ~IsHead(u)
        BY <4>1 DEF InQueue, IsHead, AtHead
      <4>3. num[u] = num[last] + 1
        BY <3>1, <3>3, <4>1, <4>2, FirstNodes DEF Numbered
      <4>. QED
        BY <3>2, <3>3, <4>2, <4>3
    <3>. QED
      BY <3>2, <3>3, <3>4
  <2>. QED
    BY <2>1, <2>2, OneHead DEF WordMatchesThreads, Setters
<1>. QED
  BY <1>1, QueuedInvariant, PTL

=============================================================================
