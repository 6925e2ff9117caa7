------------------------ MODULE ClhSpinlock_proofs ------------------------
(***************************************************************************)
(* Mutual exclusion of the CLH lock, and the ownership of its nodes, for   *)
(* any number of threads.  The argument has two parts.  Every thread has   *)
(* one node coming to it: the one it holds while it is outside the queue,  *)
(* its predecessor's while it is in it.  These nodes and tail are all      *)
(* different, and the exchange of clh_lock only swaps two of them.  And    *)
(* every queued node is either the tail or awaited by a spinning thread,   *)
(* so the queue has at most one thread that does not spin.                 *)
(* The order of service is that of the chain of prev pointers; there is    *)
(* one such chain at all times, since it grows at its end only and shrinks *)
(* at its beginning.                                                       *)
(***************************************************************************)
EXTENDS ClhSpinlock, FiniteSetTheorems, TLAPS

Labels == {"start", "idle", "swap", "spin", "locked", "unlock", "reuse"}

ClhTypeOK ==
    /\ tail \in Nodes
    /\ prev \in [Nodes -> Nodes \cup {NULL}]
    /\ wait \in [Nodes -> {0, 1}]
    /\ ptr \in [Threads -> Nodes \cup {NULL}]
    /\ saved \in [Threads -> Nodes \cup {NULL}]
    /\ pc \in [Threads -> Labels]

\* The node a thread has when it is next outside the queue.
NextNode(t) ==
    IF pc[t] = "start" THEN t
    ELSE IF pc[t] \in {"idle", "swap"} THEN ptr[t]
    ELSE saved[t]

NextNodesDistinct ==
    \A t \in Threads :
        /\ NextNode(t) \in Nodes
        /\ NextNode(t) # tail
        /\ \A u \in Threads : t # u => NextNode(t) # NextNode(u)

\* A queued thread's node is its own, and remembers the predecessor it found.
QueuedNodesDistinct ==
    \A t \in Queued :
        /\ ptr[t] \in Nodes
        /\ saved[t] = prev[ptr[t]]
        /\ \A u \in Queued : t # u => ptr[t] # ptr[u]

\* Nobody but the last in the queue lacks a successor that waits for it.
HasSuccessor ==
    \A t \in Queued :
        ptr[t] = tail \/ \E u \in Threads : pc[u] = "spin" /\ saved[u] = ptr[t]

\* A node keeps its successor waiting until its owner's clh_unlock.
KeepsWaiting ==
    \A t \in Threads :
        pc[t] \in {"swap", "spin", "locked", "unlock"} => wait[ptr[t]] = 1

IInv ==
    /\ ClhTypeOK
    /\ NextNodesDistinct
    /\ QueuedNodesDistinct
    /\ HasSuccessor
    /\ KeepsWaiting

-----------------------------------------------------------------------------
\* A thread outside the queue has no node a queued thread uses.
LEMMA OutsideOwnsNoQueuedNode ==
    ASSUME IInv, NEW t \in Threads, t \notin Queued, NEW u \in Queued
    PROVE  NextNode(t) # ptr[u]
<1>. SUFFICES ASSUME NextNode(t) = ptr[u] PROVE FALSE
  OBVIOUS
<1>1. ptr[u] # tail
  BY DEF IInv, NextNodesDistinct
<1>2. PICK v \in Threads : pc[v] = "spin" /\ saved[v] = ptr[u]
  BY <1>1 DEF IInv, HasSuccessor
<1>3. NextNode(v) = ptr[u] /\ v # t
  BY <1>2 DEF NextNode, Queued
<1>. QED
  BY <1>3 DEF IInv, NextNodesDistinct

LEMMA InitInv == Init => IInv
<1>. SUFFICES ASSUME Init PROVE IInv
  OBVIOUS
<1>1. ClhTypeOK
  BY DEF Init, ClhTypeOK, Nodes, Labels
<1>2. \A t \in Threads : pc[t] = "start" /\ NextNode(t) = t
  BY DEF Init, NextNode
<1>3. NextNodesDistinct
  BY <1>2, ClhAssumption DEF Init, NextNodesDistinct, Nodes
<1>4. Queued = {}
  BY <1>2 DEF Queued
<1>. QED
  BY <1>1, <1>2, <1>3, <1>4 DEF IInv, QueuedNodesDistinct, HasSuccessor, KeepsWaiting

LEMMA ThreadLocalInitInv ==
    ASSUME IInv, NEW t \in Threads, ThreadLocalInit(t)
    PROVE  IInv'
<1>. USE DEF IInv
<1>1. ClhTypeOK'
  BY DEF ClhTypeOK, ThreadLocalInit, Nodes, Labels
<1>2. \A u \in Threads : NextNode(u)' = NextNode(u)
  BY DEF ClhTypeOK, ThreadLocalInit, NextNode
<1>3. NextNodesDistinct'
  BY <1>2 DEF NextNodesDistinct, ThreadLocalInit
<1>4. Queued' = Queued /\ t \notin Queued /\ \A u \in Queued : ptr'[u] = ptr[u]
  BY DEF ClhTypeOK, ThreadLocalInit, Queued
<1>5. QueuedNodesDistinct'
  BY <1>4 DEF QueuedNodesDistinct, ThreadLocalInit
<1>6. HasSuccessor'
  BY <1>4 DEF HasSuccessor, ThreadLocalInit, ClhTypeOK
<1>7. KeepsWaiting'
  BY DEF KeepsWaiting, ThreadLocalInit, ClhTypeOK
<1>. QED
  BY <1>1, <1>3, <1>5, <1>6, <1>7

LEMMA SetWaitInv ==
    ASSUME IInv, NEW t \in Threads, SetWait(t)
    PROVE  IInv'
<1>. USE DEF IInv
<1>1. ptr[t] \in Nodes
  BY DEF NextNodesDistinct, NextNode, SetWait
<1>2. ClhTypeOK'
  BY DEF ClhTypeOK, SetWait, Labels
<1>3. \A u \in Threads : NextNode(u)' = NextNode(u)
  BY DEF ClhTypeOK, SetWait, NextNode
<1>4. NextNodesDistinct'
  BY <1>3 DEF NextNodesDistinct, SetWait
<1>5. Queued' = Queued
  BY DEF ClhTypeOK, SetWait, Queued
<1>6. QueuedNodesDistinct'
  BY <1>5 DEF QueuedNodesDistinct, SetWait
<1>7. HasSuccessor'
  BY <1>5 DEF HasSuccessor, SetWait, ClhTypeOK
<1>8. KeepsWaiting'
  BY <1>1 DEF KeepsWaiting, SetWait, ClhTypeOK
<1>. QED
  BY <1>2, <1>4, <1>6, <1>7, <1>8

\* The exchange swaps the thread's node with the tail.
LEMMA SwapTailInv ==
    ASSUME IInv, NEW t \in Threads, SwapTail(t)
    PROVE  IInv'
<1>. USE DEF IInv
<1>1. /\ NextNode(t) = ptr[t] /\ ptr[t] \in Nodes /\ ptr[t] # tail
      /\ t \notin Queued /\ Queued' = Queued \cup {t}
  BY DEF NextNodesDistinct, NextNode, SwapTail, Queued, ClhTypeOK
<1>2. ClhTypeOK'
  BY <1>1 DEF ClhTypeOK, SwapTail, Labels
<1>3. NextNode(t)' = tail
  BY DEF ClhTypeOK, SwapTail, NextNode
<1>4. \A u \in Threads \ {t} : NextNode(u)' = NextNode(u)
  BY DEF ClhTypeOK, SwapTail, NextNode
<1>5. NextNodesDistinct'
  BY <1>1, <1>3, <1>4 DEF NextNodesDistinct, SwapTail, ClhTypeOK
<1>6. \A u \in Queued : /\ u # t /\ ptr[u] # ptr[t] /\ ptr[u] \in Nodes
                        /\ saved'[u] = saved[u] /\ prev'[ptr[u]] = prev[ptr[u]]
  BY <1>1, OutsideOwnsNoQueuedNode DEF QueuedNodesDistinct, SwapTail, ClhTypeOK, Queued
<1>7. saved'[t] = prev'[ptr[t]] /\ ptr' = ptr
  BY <1>1 DEF SwapTail, ClhTypeOK
<1>8. QueuedNodesDistinct'
  BY <1>1, <1>6, <1>7 DEF QueuedNodesDistinct
<1>9. HasSuccessor'
  <2>. SUFFICES ASSUME NEW u \in Queued', ptr[u] # ptr[t]
       PROVE \E v \in Threads : pc'[v] = "spin" /\ saved'[v] = ptr[u]
    BY DEF HasSuccessor, SwapTail
  <2>1. CASE ptr[u] = tail
    BY <2>1 DEF SwapTail, ClhTypeOK
  <2>2. ASSUME NEW v \in Threads, pc[v] = "spin", saved[v] = ptr[u]
        PROVE pc'[v] = "spin" /\ saved'[v] = ptr[u]
    BY <2>2 DEF SwapTail, ClhTypeOK
  <2>. QED
    BY <1>1, <2>1, <2>2 DEF HasSuccessor
<1>10. KeepsWaiting'
  BY DEF KeepsWaiting, SwapTail, ClhTypeOK
<1>. QED
  BY <1>2, <1>5, <1>8, <1>9, <1>10

\* A thread that sees a zero waits for a node no queued thread uses any more.
LEMMA SpinInv ==
    ASSUME IInv, NEW t \in Threads, Spin(t)
    PROVE  IInv'
<1>. USE DEF IInv
<1>1. ClhTypeOK'
  BY DEF ClhTypeOK, Spin, Labels
<1>2. \A u \in Threads : NextNode(u)' = NextNode(u)
  BY DEF ClhTypeOK, Spin, NextNode
<1>3. NextNodesDistinct'
  BY <1>2 DEF NextNodesDistinct, Spin
<1>4. Queued' = Queued
  BY DEF ClhTypeOK, Spin, Queued
<1>5. QueuedNodesDistinct'
  BY <1>4 DEF QueuedNodesDistinct, Spin
<1>6. \A u \in Queued : ptr[u] # saved[t]
  BY DEF KeepsWaiting, Spin, Queued
<1>7. HasSuccessor'
  BY <1>4, <1>6 DEF HasSuccessor, Spin, ClhTypeOK
<1>8. KeepsWaiting'
  BY DEF KeepsWaiting, Spin, ClhTypeOK
<1>. QED
  BY <1>1, <1>3, <1>5, <1>7, <1>8

LEMMA SavePrevInv ==
    ASSUME IInv, NEW t \in Threads, SavePrev(t)
    PROVE  IInv'
<1>. USE DEF IInv
<1>1. t \in Queued /\ saved' = saved /\ Queued' = Queued
  BY DEF SavePrev, QueuedNodesDistinct, Queued, ClhTypeOK
<1>2. ClhTypeOK'
  BY <1>1 DEF ClhTypeOK, SavePrev, Labels
<1>3. \A u \in Threads : NextNode(u)' = NextNode(u)
  BY <1>1 DEF ClhTypeOK, SavePrev, NextNode
<1>4. NextNodesDistinct'
  BY <1>3 DEF NextNodesDistinct, SavePrev
<1>5. QueuedNodesDistinct'
  BY <1>1 DEF QueuedNodesDistinct, SavePrev
<1>6. HasSuccessor'
  BY <1>1 DEF HasSuccessor, SavePrev, ClhTypeOK
<1>7. KeepsWaiting'
  BY DEF KeepsWaiting, SavePrev, ClhTypeOK
<1>. QED
  BY <1>2, <1>4, <1>5, <1>6, <1>7

\* clh_unlock takes the thread out of the queue: its node is still the tail or a
\* spinning thread's next one, and its own next node is its predecessor's.
LEMMA UnlockInv ==
    ASSUME IInv, NEW t \in Threads, Unlock(t)
    PROVE  IInv'
<1>. USE DEF IInv
<1>1. t \in Queued /\ ptr[t] \in Nodes /\ Queued' = Queued \ {t}
  BY DEF Unlock, QueuedNodesDistinct, Queued, ClhTypeOK
<1>2. ClhTypeOK'
  BY <1>1 DEF ClhTypeOK, Unlock, Labels
<1>3. \A u \in Threads : NextNode(u)' = NextNode(u)
  BY DEF ClhTypeOK, Unlock, NextNode
<1>4. NextNodesDistinct'
  BY <1>3 DEF NextNodesDistinct, Unlock
<1>5. QueuedNodesDistinct'
  BY <1>1 DEF QueuedNodesDistinct, Unlock
<1>6. HasSuccessor'
  BY <1>1 DEF HasSuccessor, Unlock, ClhTypeOK
<1>7. KeepsWaiting'
  <2>. SUFFICES ASSUME NEW u \in Threads \ {t},
                       pc[u] \in {"swap", "spin", "locked", "unlock"}
       PROVE  ptr[u] # ptr[t]
    BY DEF KeepsWaiting, Unlock, ClhTypeOK
  <2>1. CASE u \in Queued
    BY <1>1, <2>1 DEF QueuedNodesDistinct
  <2>2. CASE u \notin Queued
    <3>1. NextNode(u) = ptr[u]
      BY <2>2 DEF NextNode, Queued
    <3>. QED
      BY <1>1, <2>2, <3>1, OutsideOwnsNoQueuedNode
  <2>. QED
    BY <2>1, <2>2
<1>. QED
  BY <1>2, <1>4, <1>5, <1>6, <1>7

LEMMA ReuseInv ==
    ASSUME IInv, NEW t \in Threads, Reuse(t)
    PROVE  IInv'
<1>. USE DEF IInv
<1>1. ClhTypeOK'
  BY DEF ClhTypeOK, Reuse, Labels
<1>2. \A u \in Threads : NextNode(u)' = NextNode(u)
  BY DEF ClhTypeOK, Reuse, NextNode
<1>3. NextNodesDistinct'
  BY <1>2 DEF NextNodesDistinct, Reuse
<1>4. Queued' = Queued /\ t \notin Queued /\ \A u \in Queued : ptr'[u] = ptr[u]
  BY DEF ClhTypeOK, Reuse, Queued
<1>5. QueuedNodesDistinct'
  BY <1>4 DEF QueuedNodesDistinct, Reuse
<1>6. HasSuccessor'
  BY <1>4 DEF HasSuccessor, Reuse, ClhTypeOK
<1>7. KeepsWaiting'
  BY DEF KeepsWaiting, Reuse, ClhTypeOK
<1>. QED
  BY <1>1, <1>3, <1>5, <1>6, <1>7

LEMMA StepInv == IInv /\ [Next]_vars => IInv'
<1>. SUFFICES ASSUME IInv, [Next]_vars PROVE IInv'
  OBVIOUS
<1>1. CASE UNCHANGED vars
  BY <1>1 DEF vars, IInv, ClhTypeOK, NextNodesDistinct, QueuedNodesDistinct,
              HasSuccessor, KeepsWaiting, NextNode, Queued
<1>2. ASSUME NEW t \in Threads, ThreadLocalInit(t) PROVE IInv'
  BY <1>2, ThreadLocalInitInv
<1>3. ASSUME NEW t \in Threads, SetWait(t) PROVE IInv'
  BY <1>3, SetWaitInv
<1>4. ASSUME NEW t \in Threads, SwapTail(t) PROVE IInv'
  BY <1>4, SwapTailInv
<1>5. ASSUME NEW t \in Threads, Spin(t) PROVE IInv'
  BY <1>5, SpinInv
<1>6. ASSUME NEW t \in Threads, SavePrev(t) PROVE IInv'
  BY <1>6, SavePrevInv
<1>7. ASSUME NEW t \in Threads, Unlock(t) PROVE IInv'
  BY <1>7, UnlockInv
<1>8. ASSUME NEW t \in Threads, Reuse(t) PROVE IInv'
  BY <1>8, ReuseInv
<1>. QED
  BY <1>1, <1>2, <1>3, <1>4, <1>5, <1>6, <1>7, <1>8 DEF Next

-----------------------------------------------------------------------------
\* A finite queue whose members all have a waiting successor, but for the last,
\* has at most one member that does not wait.
LEMMA AtMostOneHead ==
    ASSUME NEW Q, IsFiniteSet(Q), NEW W \in SUBSET Q,
           NEW last, NEW f \in Injection(Q, W \cup {last}),
           NEW a \in Q \ W, NEW b \in Q \ W
    PROVE  a = b
<1>. SUFFICES ASSUME a # b PROVE FALSE
  OBVIOUS
<1>1. IsFiniteSet(W) /\ Cardinality(W) \in Nat
  BY FS_Subset, FS_CardinalityType
<1>2. /\ IsFiniteSet(W \cup {last})
      /\ Cardinality(W \cup {last}) <= Cardinality(W) + 1
  <2>1. /\ IsFiniteSet(W \cup {last})
        /\ Cardinality(W \cup {last}) =
              IF last \in W THEN Cardinality(W) ELSE Cardinality(W) + 1
    BY ONLY <1>1, FS_AddElement, Zenon
  <2>. QED
    BY <1>1, <2>1
<1>3. Cardinality(Q) <= Cardinality(W \cup {last})
  BY <1>2, FS_Injection
<1>4. IsFiniteSet(W \cup {a}) /\ Cardinality(W \cup {a}) = Cardinality(W) + 1
  BY <1>1, FS_AddElement
<1>5. Cardinality((W \cup {a}) \cup {b}) = Cardinality(W) + 2
  <2>1. b \notin W \cup {a}
    OBVIOUS
  <2>2. Cardinality((W \cup {a}) \cup {b}) = Cardinality(W \cup {a}) + 1
    BY <1>4, <2>1, FS_AddElement, Zenon
  <2>. QED
    BY <1>1, <1>4, <2>2
<1>6. Cardinality((W \cup {a}) \cup {b}) <= Cardinality(Q)
  <2>1. (W \cup {a}) \cup {b} \in SUBSET Q
    OBVIOUS
  <2>. QED
    BY <2>1, FS_Subset
<1>7. /\ Cardinality(Q) \in Nat
      /\ Cardinality(W \cup {last}) \in Nat
  BY <1>2, FS_CardinalityType
<1>. QED
  BY <1>1, <1>2, <1>3, <1>5, <1>6, <1>7

LEMMA InvImpliesMutex == IInv => MutualExclusion
<1>. SUFFICES ASSUME IInv, NEW a \in Holders, NEW b \in Holders PROVE a = b
  BY DEF MutualExclusion
<1>. DEFINE W == {t \in Threads : pc[t] = "spin"}
            Succ(t) == CHOOSE u \in W : saved[u] = ptr[t]
            f == [t \in Queued |-> IF ptr[t] = tail THEN NULL ELSE Succ(t)]
<1>1. IsFiniteSet(Queued) /\ W \in SUBSET Queued
  BY ClhAssumption, FS_Subset DEF Queued
<1>2. \A t \in Queued : ptr[t] # tail => Succ(t) \in W /\ saved[Succ(t)] = ptr[t]
  BY DEF IInv, HasSuccessor
<1>3. f \in [Queued -> W \cup {NULL}]
  BY <1>2
<1>4. ASSUME NEW t \in Queued, NEW u \in Queued, f[t] = f[u] PROVE t = u
  <2>1. ptr[t] = ptr[u]
    <3>1. NULL \notin W
      BY ClhAssumption
    <3>2. CASE ptr[t] = tail \/ ptr[u] = tail
      BY <1>2, <1>4, <3>1, <3>2
    <3>3. CASE ptr[t] # tail /\ ptr[u] # tail
      BY <1>2, <1>4, <3>3
    <3>. QED
      BY <3>2, <3>3
  <2>. QED
    BY <2>1 DEF IInv, QueuedNodesDistinct
<1>5. f \in Injection(Queued, W \cup {NULL})
  BY <1>3, <1>4 DEF Injection, IsInjective
<1>6. a \in Queued \ W /\ b \in Queued \ W
  BY DEF Holders, Queued
<1>. QED
  BY <1>1, <1>5, <1>6, AtMostOneHead

LEMMA InvImpliesNodesNotShared == IInv => NodesNotShared
<1>. SUFFICES ASSUME IInv, NEW t \in Threads, pc[t] # "start",
                     NEW u \in Threads, pc[u] # "start"
     PROVE  /\ Node(t) \in Nodes
            /\ t # u => Node(t) # Node(u)
            /\ Node(t) = tail => t \in Queued
  BY DEF NodesNotShared
<1>1. \A x \in Threads : pc[x] # "start" => IF x \in Queued THEN Node(x) = ptr[x]
                                                 ELSE Node(x) = NextNode(x)
  BY DEF Queued, Node, NextNode, IInv, ClhTypeOK, Labels
<1>2. Node(t) \in Nodes /\ (Node(t) = tail => t \in Queued)
  BY <1>1 DEF IInv, NextNodesDistinct, QueuedNodesDistinct
<1>3. t # u => Node(t) # Node(u)
  <2>1. CASE t \in Queued /\ u \in Queued
    BY <1>1, <2>1 DEF IInv, QueuedNodesDistinct
  <2>2. CASE t \notin Queued /\ u \notin Queued
    BY <1>1, <2>2 DEF IInv, NextNodesDistinct
  <2>3. CASE (t \in Queued) # (u \in Queued)
    BY <1>1, <2>3, OutsideOwnsNoQueuedNode
  <2>. QED
    BY <2>1, <2>2, <2>3
<1>. QED
  BY <1>2, <1>3

-----------------------------------------------------------------------------
\* The inductive invariant holds of the CLH lock of clh_spinlock.h.
THEOREM ClhInvariant == Spec => []IInv
BY InitInv, StepInv, PTL DEF Spec

\* lock_acquire returns to one thread at a time.
THEOREM ClhMutualExclusion == Spec => []MutualExclusion
BY ClhInvariant, InvImpliesMutex, PTL

\* The nodes lock_release passes on are never shared and never lost.
THEOREM ClhNodesNotShared == Spec => []NodesNotShared
BY ClhInvariant, InvImpliesNodesNotShared, PTL

-----------------------------------------------------------------------------
(* Lists.  q has the elements of S once each; b says which node each found  *)
(* before it and p which is its own.  Only one list goes with S, p and b as *)
(* long as it grows at one end and shrinks at the other.                    *)

List(S, p, b, q) ==
    /\ q \in SetToSeqs(S)
    /\ \A i \in 1..Cardinality(S) :
          /\ i > 1 => b[q[i]] = p[q[i - 1]]
          /\ i = 1 => \A u \in S : b[q[i]] # p[u]

OnlyList(S, p, b, q) == List(S, p, b, q) /\ \A r : List(S, p, b, r) => r = q

LEMMA ListIsSeq ==
    ASSUME NEW S, IsFiniteSet(S), NEW q \in SetToSeqs(S)
    PROVE  /\ Cardinality(S) \in Nat
           /\ q \in [1..Cardinality(S) -> S]
           /\ q \in Seq(S) /\ Len(q) = Cardinality(S)
           /\ \A i, j \in 1..Cardinality(S) : q[i] = q[j] => i = j
           /\ \A u \in S : \E i \in 1..Cardinality(S) : q[i] = u
<1>. DEFINE n == Cardinality(S)
<1>1. n \in Nat
  BY FS_CardinalityType
<1>2. q \in [1..n -> S] /\ \A i, j \in 1..n : q[i] = q[j] => i = j
  BY DEF SetToSeqs
<1>. HIDE DEF n
<1>3. q \in Seq(S) /\ Len(q) = n
  BY <1>1, <1>2
<1>4. q \in Injection(1..n, S)
  BY <1>2 DEF Injection, IsInjective
<1>5. Cardinality(1..n) = n
  BY <1>1, FS_Interval
<1>6. q \in Surjection(1..n, S)
  BY <1>4, <1>5, FS_Injection DEF n
<1>7. \A u \in S : \E i \in 1..n : q[i] = u
  BY <1>6 DEF Surjection
<1>. QED
  BY <1>1, <1>2, <1>3, <1>7 DEF n

LEMMA SeqsEqual ==
    ASSUME NEW n \in Nat, NEW q, NEW r, NEW S, NEW T,
           q \in [1..n -> S], r \in [1..n -> T], \A i \in 1..n : q[i] = r[i]
    PROVE  q = r
<1>. DEFINE D == 1..n
<1>1. q \in [D -> S] /\ r \in [D -> T] /\ \A i \in D : q[i] = r[i]
  OBVIOUS
<1>. HIDE DEF D
<1>. QED
  BY <1>1

LEMMA EmptyList ==
    ASSUME NEW p, NEW b
    PROVE  OnlyList({}, p, b, <<>>)
<1>1. Cardinality({}) = 0 /\ IsFiniteSet({})
  BY FS_EmptySet
<1>2. 1..0 = {}
  OBVIOUS
<1>3. <<>> \in SetToSeqs({})
  BY <1>1, <1>2 DEF SetToSeqs
<1>4. ASSUME NEW r \in SetToSeqs({}) PROVE r = <<>>
  BY <1>1, ListIsSeq
<1>. QED
  BY <1>1, <1>2, <1>3, <1>4 DEF OnlyList, List

\* A newcomer that found the last of the list before it becomes the last.
LEMMA ListGrows ==
    ASSUME NEW S, IsFiniteSet(S), NEW t, t \notin S, NEW p, NEW b, NEW q, OnlyList(S, p, b, q),
           NEW p2, NEW b2, \A u \in S : p2[u] = p[u] /\ b2[u] = b[u],
           \A u \in S \cup {t} : b2[u] # p2[t],
           Cardinality(S) > 0 => b2[t] = p[q[Cardinality(S)]]
    PROVE  OnlyList(S \cup {t}, p2, b2, Append(q, t))
<1>. DEFINE n == Cardinality(S)
            T == S \cup {t}
<1>1. n \in Nat /\ Cardinality(T) = n + 1 /\ IsFiniteSet(T)
  BY FS_CardinalityType, FS_AddElement
<1>2. /\ q \in [1..n -> S] /\ q \in Seq(S) /\ Len(q) = n
      /\ \A i, j \in 1..n : q[i] = q[j] => i = j
  BY ListIsSeq DEF OnlyList, List
<1>3. \A i \in 1..n : (i > 1 => b[q[i]] = p[q[i - 1]]) /\ (i = 1 => \A u \in S : b[q[i]] # p[u])
  BY DEF OnlyList, List
<1>4. n > 0 => b2[t] = p[q[n]]
  OBVIOUS
<1>. HIDE DEF n, T
<1>q. PICK a : a = Append(q, t)
  OBVIOUS
<1>5. a \in Seq(T) /\ Len(a) = n + 1 /\ a[n + 1] = t /\ \A i \in 1..n : a[i] = q[i] /\ q[i] \in S
  BY <1>1, <1>2, <1>q DEF T
<1>6. a \in [1..(n + 1) -> T]
  BY <1>1, <1>5
<1>7. a \in SetToSeqs(T)
  <2>1. ASSUME NEW i \in 1..(n + 1), NEW j \in 1..(n + 1), i # j PROVE a[i] # a[j]
    BY <1>1, <1>2, <1>5, <2>1
  <2>. QED
    BY <1>1, <1>6, <2>1 DEF SetToSeqs
<1>8. List(T, p2, b2, a)
  <2>. SUFFICES ASSUME NEW i \in 1..(n + 1)
                PROVE  /\ i > 1 => b2[a[i]] = p2[a[i - 1]]
                       /\ i = 1 => \A u \in T : b2[a[i]] # p2[u]
    BY <1>1, <1>7 DEF List
  <2>1. CASE i \in 1..n
    <3>1. a[i] = q[i] /\ q[i] \in S /\ b2[q[i]] = b[q[i]]
      BY <1>5, <2>1
    <3>2. ASSUME i > 1 PROVE b2[a[i]] = p2[a[i - 1]]
      <4>1. i - 1 \in 1..n
        BY <1>1, <2>1, <3>2
      <4>2. a[i - 1] = q[i - 1] /\ q[i - 1] \in S
        BY <1>5, <4>1
      <4>. QED
        BY <1>3, <2>1, <3>1, <3>2, <4>2
    <3>3. ASSUME i = 1, NEW u \in T PROVE b2[a[i]] # p2[u]
      BY <1>3, <2>1, <3>1, <3>3 DEF T
    <3>. QED
      BY <3>2, <3>3
  <2>2. CASE i = n + 1
    <3>1. a[i] = t
      BY <1>5, <2>2
    <3>2. ASSUME i > 1 PROVE b2[a[i]] = p2[a[i - 1]]
      <4>1. i - 1 = n /\ n \in 1..n
        BY <1>1, <2>2, <3>2
      <4>. QED
        BY <1>4, <1>5, <3>1, <4>1
    <3>3. ASSUME i = 1, NEW u \in T PROVE b2[a[i]] # p2[u]
      <4>1. n = 0
        BY <1>1, <2>2, <3>3
      <4>2. S = {}
        BY <4>1, FS_EmptySet DEF n
      <4>. QED
        BY <3>1, <3>3, <4>2 DEF T
    <3>. QED
      BY <3>2, <3>3
  <2>. QED
    BY <1>1, <2>1, <2>2
<1>9. ASSUME NEW r, List(T, p2, b2, r) PROVE r = a
  <2>1. /\ r \in [1..(n + 1) -> T]
        /\ \A i, j \in 1..(n + 1) : r[i] = r[j] => i = j
        /\ \A u \in T : \E i \in 1..(n + 1) : r[i] = u
    <3>1. r \in SetToSeqs(T)
      BY <1>9 DEF List
    <3>2. IsFiniteSet(T)
      BY <1>1
    <3>3. r \in [1..Cardinality(T) -> T]
      BY <3>1, <3>2, ListIsSeq
    <3>4. \A i, j \in 1..Cardinality(T) : r[i] = r[j] => i = j
      BY <3>1, <3>2, ListIsSeq
    <3>5. \A u \in T : \E i \in 1..Cardinality(T) : r[i] = u
      BY <3>1, <3>2, ListIsSeq
    <3>. QED
      BY <1>1, <3>3, <3>4, <3>5
  <2>2. \A i \in 1..(n + 1) : /\ i > 1 => b2[r[i]] = p2[r[i - 1]]
                              /\ i = 1 => \A u \in T : b2[r[i]] # p2[u]
    BY <1>1, <1>9 DEF List
  <2>3. r[n + 1] = t
    <3>1. PICK i \in 1..(n + 1) : r[i] = t
      BY <2>1 DEF T
    <3>2. ASSUME i # n + 1 PROVE FALSE
      <4>1. i + 1 \in 1..(n + 1) /\ i + 1 > 1 /\ (i + 1) - 1 = i
        BY <1>1, <3>2
      <4>2. b2[r[i + 1]] = p2[t] /\ r[i + 1] \in T
        BY <2>1, <2>2, <3>1, <4>1
      <4>. QED
        BY <4>2 DEF T
    <3>. QED
      BY <3>1, <3>2
  <2>. DEFINE s == [i \in 1..n |-> r[i]]
  <2>4. \A i \in 1..n : i \in 1..(n + 1) /\ s[i] = r[i] /\ r[i] \in S
    <3>1. ASSUME NEW i \in 1..n PROVE i \in 1..(n + 1) /\ n + 1 \in 1..(n + 1) /\ i # n + 1
      BY <1>1
    <3>2. ASSUME NEW i \in 1..n PROVE r[i] \in S
      BY <2>1, <2>3, <3>1 DEF T
    <3>. QED
      BY <3>1, <3>2
  <2>5. s \in SetToSeqs(S)
    <3>1. s \in [1..n -> S] /\ \A i, j \in 1..n : i # j => s[i] # s[j]
      BY <2>1, <2>4
    <3>. HIDE DEF s
    <3>. QED
      BY <3>1 DEF SetToSeqs, n
  <2>6. List(S, p, b, s)
    <3>1. ASSUME NEW i \in 1..n, i > 1 PROVE b[s[i]] = p[s[i - 1]]
      <4>1. i - 1 \in 1..n
        BY <1>1, <3>1
      <4>2. s[i] = r[i] /\ s[i - 1] = r[i - 1] /\ r[i] \in S /\ r[i - 1] \in S
        BY <2>4, <4>1
      <4>. QED
        BY <2>2, <2>4, <3>1, <4>2
    <3>2. ASSUME NEW i \in 1..n, i = 1, NEW u \in S PROVE b[s[i]] # p[u]
      BY <2>2, <2>4, <3>2 DEF T
    <3>. HIDE DEF s
    <3>. QED
      BY <2>5, <3>1, <3>2 DEF List, n
  <2>7. s = q
    BY <2>6 DEF OnlyList
  <2>8. \A i \in 1..(n + 1) : r[i] = a[i]
    <3>1. ASSUME NEW i \in 1..(n + 1) PROVE i \in 1..n \/ i = n + 1
      BY <1>1
    <3>2. \A i \in 1..n : r[i] = q[i]
      BY <2>4, <2>7
    <3>. QED
      BY <1>5, <2>3, <3>1, <3>2
  <2>9. n + 1 \in Nat
    BY <1>1
  <2>. QED
    BY <1>6, <2>1, <2>8, <2>9, SeqsEqual
<1>. QED
  BY <1>8, <1>9, <1>q DEF OnlyList, T

\* When the one that found nobody before it leaves, the rest of the list is left.
LEMMA ListShrinks ==
    ASSUME NEW S, IsFiniteSet(S), NEW t \in S, NEW p, NEW b, NEW q, OnlyList(S, p, b, q),
           \A u \in S : b[t] # p[u], \A u \in S : p[u] = p[t] => u = t,
           NEW p2, NEW b2, \A u \in S \ {t} : p2[u] = p[u] /\ b2[u] = b[u]
    PROVE  OnlyList(S \ {t}, p2, b2, Tail(q))
<1>. DEFINE n == Cardinality(S)
            T == S \ {t}
<1>1. n \in Nat /\ Cardinality(T) = n - 1 /\ IsFiniteSet(T) /\ Cardinality(T) \in Nat
  BY FS_CardinalityType, FS_RemoveElement
<1>2. /\ q \in [1..n -> S] /\ q \in Seq(S) /\ Len(q) = n
      /\ \A i, j \in 1..n : q[i] = q[j] => i = j
      /\ \A u \in S : \E i \in 1..n : q[i] = u
  BY ListIsSeq DEF OnlyList, List
<1>3. \A i \in 1..n : (i > 1 => b[q[i]] = p[q[i - 1]]) /\ (i = 1 => \A u \in S : b[q[i]] # p[u])
  BY DEF OnlyList, List
<1>. HIDE DEF n, T
<1>4. n >= 1 /\ n - 1 \in Nat /\ 1 \in 1..n
  BY <1>1
<1>5. q[1] = t
  <2>1. PICK i \in 1..n : q[i] = t
    BY <1>2
  <2>2. ASSUME i > 1 PROVE FALSE
    <3>1. i - 1 \in 1..n
      BY <1>1, <2>2
    <3>2. b[t] = p[q[i - 1]] /\ q[i - 1] \in S
      BY <1>2, <1>3, <2>1, <2>2, <3>1
    <3>. QED
      BY <3>2
  <2>3. i = 1
    BY <1>1, <2>2
  <2>. QED
    BY <2>1, <2>3
<1>q. PICK a : a = Tail(q)
  OBVIOUS
<1>6. /\ \A i \in 1..(n - 1) : i + 1 \in 1..n /\ a[i] = q[i + 1] /\ q[i + 1] \in T
      /\ a \in [1..(n - 1) -> T]
  <2>1. a \in Seq(S) /\ Len(a) = n - 1 /\ \A i \in 1..(n - 1) : a[i] = q[i + 1]
    BY <1>2, <1>4, <1>q
  <2>2. ASSUME NEW i \in 1..(n - 1) PROVE i + 1 \in 1..n /\ i + 1 # 1
    BY <1>1
  <2>3. ASSUME NEW i \in 1..(n - 1) PROVE q[i + 1] \in T
    BY <1>2, <1>4, <1>5, <2>2 DEF T
  <2>4. a \in [1..(n - 1) -> S]
    BY <1>4, <2>1
  <2>. QED
    BY <2>1, <2>2, <2>3, <2>4
<1>7. a \in SetToSeqs(T)
  <2>1. ASSUME NEW i \in 1..(n - 1), NEW j \in 1..(n - 1), a[i] = a[j] PROVE i = j
    <3>1. i + 1 = j + 1
      BY <1>2, <1>6, <2>1
    <3>. QED
      BY <1>1, <3>1
  <2>. QED
    BY <1>1, <1>6, <2>1 DEF SetToSeqs
<1>8. List(T, p2, b2, a)
  <2>. SUFFICES ASSUME NEW i \in 1..(n - 1)
                PROVE  /\ i > 1 => b2[a[i]] = p2[a[i - 1]]
                       /\ i = 1 => \A u \in T : b2[a[i]] # p2[u]
    BY <1>1, <1>7 DEF List
  <2>1. i + 1 > 1 /\ (i + 1) - 1 = i /\ i \in 1..n
    BY <1>1
  <2>2. a[i] = q[i + 1] /\ q[i + 1] \in T /\ i + 1 \in 1..n
    BY <1>6
  <2>3. b2[a[i]] = p[q[i]]
    BY <1>3, <2>1, <2>2 DEF T
  <2>4. ASSUME i > 1 PROVE b2[a[i]] = p2[a[i - 1]]
    <3>1. i - 1 \in 1..(n - 1) /\ (i - 1) + 1 = i
      BY <1>1, <2>4
    <3>2. a[i - 1] = q[i] /\ q[i] \in T
      BY <1>6, <3>1
    <3>. QED
      BY <2>3, <3>2 DEF T
  <2>5. ASSUME i = 1, NEW u \in T PROVE b2[a[i]] # p2[u]
    BY <1>5, <2>3, <2>5 DEF T
  <2>. QED
    BY <2>4, <2>5
<1>9. ASSUME NEW r, List(T, p2, b2, r) PROVE r = a
  <2>1. /\ r \in [1..(n - 1) -> T]
        /\ \A i, j \in 1..(n - 1) : r[i] = r[j] => i = j
    <3>1. r \in SetToSeqs(T)
      BY <1>9 DEF List
    <3>. QED
      BY <1>1, <3>1, ListIsSeq
  <2>2. \A i \in 1..(n - 1) : /\ i > 1 => b2[r[i]] = p2[r[i - 1]]
                              /\ i = 1 => \A u \in T : b2[r[i]] # p2[u]
    BY <1>1, <1>9 DEF List
  <2>. DEFINE c == [i \in 1..n |-> IF i = 1 THEN t ELSE r[i - 1]]
  <2>3. /\ c[1] = t
        /\ \A i \in 1..n : i # 1 => i - 1 \in 1..(n - 1) /\ c[i] = r[i - 1] /\ r[i - 1] \in T
    <3>1. \A i \in 1..n : i # 1 => i - 1 \in 1..(n - 1)
      BY <1>1
    <3>. QED
      BY <1>4, <2>1, <3>1
  <2>4. c \in [1..n -> S]
    BY <2>3 DEF T
  <2>. HIDE DEF c
  <2>5. c \in SetToSeqs(S)
    <3>1. ASSUME NEW i \in 1..n, NEW j \in 1..n, c[i] = c[j] PROVE i = j
      <4>1. CASE i # 1 /\ j # 1
        <5>1. i - 1 = j - 1
          BY <2>1, <2>3, <3>1, <4>1
        <5>. QED
          BY <1>1, <5>1
      <4>2. CASE i = 1 \/ j = 1
        BY <2>3, <3>1, <4>2 DEF T
      <4>. QED
        BY <4>1, <4>2
    <3>. QED
      BY <2>4, <3>1 DEF SetToSeqs, n
  <2>6. ASSUME NEW i \in 1..n, i = 2 PROVE b[c[i]] = p[t]
    <3>1. i - 1 = 1 /\ i # 1
      BY <2>6
    <3>2. c[i] = r[1] /\ r[1] \in T /\ 1 \in 1..(n - 1)
      BY <2>3, <3>1
    <3>3. \A u \in T : b[r[1]] # p[u]
      BY <2>2, <3>2 DEF T
    <3>4. PICK j \in 1..n : q[j] = r[1]
      BY <1>2, <3>2 DEF T
    <3>5. j # 1
      BY <1>5, <3>2, <3>4 DEF T
    <3>6. j > 1 /\ j - 1 \in 1..n
      BY <1>1, <3>5
    <3>7. b[r[1]] = p[q[j - 1]] /\ q[j - 1] \in S
      BY <1>2, <1>3, <3>4, <3>6
    <3>. QED
      BY <3>2, <3>3, <3>7 DEF T
  <2>7. List(S, p, b, c)
    <3>1. ASSUME NEW i \in 1..n, i > 1 PROVE b[c[i]] = p[c[i - 1]]
      <4>1. CASE i = 2
        BY <2>3, <2>6, <4>1
      <4>2. CASE i # 2
        <5>1. i # 1 /\ i - 1 # 1 /\ i - 1 \in 1..n /\ i - 1 > 1
          BY <1>1, <3>1, <4>2
        <5>2. c[i] = r[i - 1] /\ c[i - 1] = r[(i - 1) - 1] /\ r[i - 1] \in T /\ c[i - 1] \in T
          BY <2>3, <5>1
        <5>. QED
          BY <2>2, <2>3, <5>1, <5>2 DEF T
      <4>. QED
        BY <4>1, <4>2
    <3>2. ASSUME NEW i \in 1..n, i = 1, NEW u \in S PROVE b[c[i]] # p[u]
      BY <2>3, <3>2
    <3>. QED
      BY <2>5, <3>1, <3>2 DEF List, n
  <2>8. c = q
    BY <2>7 DEF OnlyList
  <2>9. \A i \in 1..(n - 1) : r[i] = a[i]
    <3>1. ASSUME NEW i \in 1..(n - 1) PROVE i + 1 \in 1..n /\ i + 1 # 1 /\ (i + 1) - 1 = i
      BY <1>1
    <3>. QED
      BY <1>6, <2>3, <2>8, <3>1
  <2>. QED
    BY <1>4, <1>6, <2>1, <2>9, SeqsEqual
<1>. QED
  BY <1>8, <1>9, <1>q DEF OnlyList, T

-----------------------------------------------------------------------------
(* The queue of the lock is such a list. *)

Own == [t \in Queued |-> ptr[t]]
Found == [t \in Queued |-> prev[ptr[t]]]

QueueDetermined == OnlyList(Queued, Own, Found, Queue)

\* The mapping chooses the list if there is only one.
ListIsQueue == \A q : OnlyList(Queued, Own, Found, q) => Queue = q

LEMMA QueuedFinite == IsFiniteSet(Queued)
BY ClhAssumption, FS_Subset DEF Queued

LEMMA OnlyListIsQueue == ListIsQueue
<1>. SUFFICES ASSUME NEW q, OnlyList(Queued, Own, Found, q) PROVE Queue = q
  BY DEF ListIsQueue
<1>1. ASSUME NEW r \in SetToSeqs(Queued)
      PROVE  IsChain(r) <=> List(Queued, Own, Found, r)
  <2>1. /\ Len(r) = Cardinality(Queued) /\ Cardinality(Queued) \in Nat
        /\ \A i \in 1..Len(r) : r[i] \in Queued /\ (i > 1 => r[i - 1] \in Queued)
    <3>1. /\ Len(r) = Cardinality(Queued) /\ Cardinality(Queued) \in Nat
          /\ r \in [1..Len(r) -> Queued]
      BY QueuedFinite, ListIsSeq
    <3>2. \A i \in 1..Len(r) : i > 1 => i - 1 \in 1..Len(r)
      BY <3>1
    <3>. QED
      BY <3>1, <3>2
  <2>. QED
    BY <2>1 DEF IsChain, List, Own, Found
<1>2. q \in SetToSeqs(Queued) /\ IsChain(q)
  BY <1>1 DEF OnlyList, List
<1>3. Queue \in SetToSeqs(Queued) /\ IsChain(Queue)
  BY <1>2 DEF Queue
<1>4. List(Queued, Own, Found, Queue)
  BY <1>1, <1>3
<1>. QED
  BY <1>4 DEF OnlyList

\* Steps that leave the queued threads and their nodes alone.
LEMMA QueueKept ==
    ASSUME QueueDetermined, Queued' = Queued,
           \A u \in Queued : ptr'[u] = ptr[u] /\ prev'[ptr[u]] = prev[ptr[u]]
    PROVE  QueueDetermined' /\ Queue' = Queue
<1>1. Own' = Own /\ Found' = Found
  BY DEF Own, Found
<1>2. PICK q : q = Queue
  OBVIOUS
<1>3. OnlyList(Queued', Own', Found', q)
  BY <1>1, <1>2 DEF QueueDetermined
<1>4. ListIsQueue'
  BY OnlyListIsQueue, PTL
<1>5. Queue' = q
  BY <1>3, <1>4 DEF ListIsQueue
<1>. QED
  BY <1>2, <1>3, <1>5 DEF QueueDetermined

\* The exchange of clh_lock puts the thread behind all the others ...
LEMMA SwapJoins ==
    ASSUME IInv, QueueDetermined, NEW t \in Threads, SwapTail(t)
    PROVE  QueueDetermined' /\ Fifo!Join(t)
<1>. DEFINE n == Cardinality(Queued)
<1>0. PICK q : q = Queue
  OBVIOUS
<1>1. /\ n \in Nat /\ q \in [1..n -> Queued] /\ Len(q) = n
      /\ \A i, j \in 1..n : q[i] = q[j] => i = j
      /\ \A u \in Queued : \E i \in 1..n : q[i] = u
      /\ \A i \in 1..n : /\ i > 1 => Found[q[i]] = Own[q[i - 1]]
                         /\ i = 1 => \A u \in Queued : Found[q[i]] # Own[u]
  <2>1. List(Queued, Own, Found, q)
    BY <1>0 DEF QueueDetermined, OnlyList
  <2>. QED
    BY <2>1, QueuedFinite, ListIsSeq DEF List
<1>2. /\ t \notin Queued /\ Queued' = Queued \cup {t} /\ ptr' = ptr /\ pc[t] = "swap"
      /\ ptr[t] \in Nodes /\ ptr[t] # tail /\ NextNode(t) = ptr[t]
      /\ prev'[ptr[t]] = tail /\ \A m \in Nodes \ {ptr[t]} : prev'[m] = prev[m]
  BY DEF SwapTail, Queued, IInv, ClhTypeOK, NextNodesDistinct, NextNode
<1>3. \A u \in Queued : ptr[u] \in Nodes /\ ptr[u] # ptr[t] /\ saved[u] = prev[ptr[u]]
  BY <1>2, OutsideOwnsNoQueuedNode DEF IInv, QueuedNodesDistinct
<1>4. \A u \in Queued : prev[ptr[u]] # ptr[t]
  <2>. SUFFICES ASSUME NEW u \in Queued PROVE prev[ptr[u]] # ptr[t]
    OBVIOUS
  <2>1. NextNode(u) = prev[ptr[u]] /\ u # t /\ u \in Threads
    BY <1>2, <1>3 DEF NextNode, Queued
  <2>. QED
    BY <1>2, <2>1 DEF IInv, NextNodesDistinct
<1>5. /\ \A u \in Queued : Own'[u] = Own[u] /\ Found'[u] = Found[u]
      /\ Own'[t] = ptr[t] /\ Found'[t] = tail
  BY <1>2, <1>3 DEF Own, Found
<1>6. \A u \in Queued \cup {t} : Found'[u] # Own'[t]
  BY <1>2, <1>4, <1>5 DEF Found
<1>7. n > 0 => Found'[t] = Own[q[n]]
  <2>. SUFFICES ASSUME n > 0, tail # ptr[q[n]] PROVE FALSE
    <3>1. n \in 1..n => q[n] \in Queued
      BY <1>1
    <3>2. n > 0 => n \in 1..n
      BY <1>1
    <3>. QED
      BY <1>5, <3>1, <3>2 DEF Own
  <2>1. n \in 1..n /\ q[n] \in Queued
    BY <1>1
  <2>2. PICK u \in Threads : pc[u] = "spin" /\ saved[u] = ptr[q[n]]
    BY <2>1 DEF IInv, HasSuccessor
  <2>3. u \in Queued /\ Found[u] = Own[q[n]]
    <3>1. u \in Queued
      BY <2>2 DEF Queued
    <3>. QED
      BY <1>3, <2>1, <2>2, <3>1 DEF Found, Own
  <2>4. PICK j \in 1..n : q[j] = u
    BY <1>1, <2>3
  <2>5. j > 1
    <3>1. j # 1
      BY <1>1, <2>1, <2>3, <2>4
    <3>. QED
      BY <1>1, <3>1
  <2>6. j - 1 \in 1..n /\ j - 1 # n
    BY <1>1, <2>5
  <2>7. Own[q[j - 1]] = Own[q[n]] /\ q[j - 1] \in Queued
    BY <1>1, <2>3, <2>4, <2>5, <2>6
  <2>8. q[j - 1] = q[n]
    BY <2>1, <2>7 DEF Own, IInv, QueuedNodesDistinct
  <2>. QED
    BY <1>1, <2>1, <2>6, <2>8
<1>8. OnlyList(Queued', Own', Found', Append(q, t))
  <2>1. OnlyList(Queued, Own, Found, q) /\ IsFiniteSet(Queued)
    BY <1>0, QueuedFinite DEF QueueDetermined
  <2>. QED
    BY <1>2, <1>5, <1>6, <1>7, <2>1, ListGrows
<1>9. Queue' = Append(q, t)
  <2>1. ListIsQueue'
    BY OnlyListIsQueue, PTL
  <2>. QED
    BY <1>8, <2>1 DEF ListIsQueue
<1>10. QueueDetermined'
  BY <1>8, <1>9 DEF QueueDetermined
<1>11. Holders' = Holders
  BY DEF SwapTail, Holders, IInv, ClhTypeOK
<1>12. \A i \in 1..Len(Queue) : Queue[i] # t
  BY <1>0, <1>1, <1>2
<1>. QED
  BY <1>0, <1>9, <1>10, <1>11, <1>12 DEF Fifo!Join

\* ... and the thread that releases the lock was before them.
LEMMA UnlockLeaves ==
    ASSUME IInv, QueueDetermined, NEW t \in Threads, Unlock(t)
    PROVE  QueueDetermined' /\ Fifo!Leave
<1>0. PICK q : q = Queue
  OBVIOUS
<1>1. /\ t \in Queued /\ t \in Holders /\ pc[t] = "unlock"
      /\ Queued' = Queued \ {t} /\ ptr' = ptr /\ prev' = prev
  BY DEF Unlock, Queued, Holders, IInv, ClhTypeOK
<1>2. /\ NextNode(t) = saved[t] /\ saved[t] = prev[ptr[t]]
      /\ \A u \in Queued : ptr[u] = ptr[t] => u = t
  BY <1>1 DEF NextNode, IInv, QueuedNodesDistinct
<1>3. ASSUME NEW u \in Queued, prev[ptr[t]] = ptr[u] PROVE FALSE
  <2>1. ptr[u] # tail
    BY <1>2, <1>3 DEF IInv, NextNodesDistinct
  <2>2. PICK v \in Threads : pc[v] = "spin" /\ saved[v] = ptr[u]
    BY <2>1 DEF IInv, HasSuccessor
  <2>3. NextNode(v) = NextNode(t) /\ v # t
    BY <1>1, <1>2, <1>3, <2>2 DEF NextNode
  <2>. QED
    BY <2>3 DEF IInv, NextNodesDistinct
<1>4. /\ \A u \in Queued : Found[t] # Own[u]
      /\ \A u \in Queued : Own[u] = Own[t] => u = t
      /\ \A u \in Queued \ {t} : Own'[u] = Own[u] /\ Found'[u] = Found[u]
  BY <1>1, <1>2, <1>3 DEF Own, Found
<1>5. OnlyList(Queued', Own', Found', Tail(q))
  <2>1. OnlyList(Queued, Own, Found, q) /\ IsFiniteSet(Queued)
    BY <1>0, QueuedFinite DEF QueueDetermined
  <2>. QED
    BY <1>1, <1>4, <2>1, ListShrinks
<1>6. Queue' = Tail(q)
  <2>1. ListIsQueue'
    BY OnlyListIsQueue, PTL
  <2>. QED
    BY <1>5, <2>1 DEF ListIsQueue
<1>7. QueueDetermined'
  BY <1>5, <1>6 DEF QueueDetermined
<1>8. Holders' = {}
  <2>1. \A u \in Holders : u = t
    BY <1>1, InvImpliesMutex DEF MutualExclusion
  <2>. QED
    BY <2>1 DEF Unlock, Holders, IInv, ClhTypeOK
<1>. QED
  BY <1>0, <1>1, <1>6, <1>7, <1>8 DEF Fifo!Leave

LEMMA StepServesInOrder ==
    ASSUME IInv, IInv', QueueDetermined, [Next]_vars
    PROVE  QueueDetermined' /\ [Fifo!Next]_(Fifo!vars)
<1>0. ClhTypeOK
  BY DEF IInv
<1>1. CASE UNCHANGED vars
  <2>1. Queued' = Queued /\ Holders' = Holders /\ ptr' = ptr /\ prev' = prev
    BY <1>1 DEF vars, Queued, Holders
  <2>2. QueueDetermined' /\ Queue' = Queue
    BY <2>1, QueueKept
  <2>. QED
    BY <2>1, <2>2 DEF Fifo!vars
<1>2. ASSUME NEW t \in Threads,
             ThreadLocalInit(t) \/ SetWait(t) \/ SavePrev(t) \/ Reuse(t)
      PROVE  QueueDetermined' /\ UNCHANGED Fifo!vars
  <2>1. /\ Queued' = Queued /\ Holders' = Holders /\ prev' = prev
        /\ \A u \in Queued : ptr'[u] = ptr[u]
    BY <1>0, <1>2 DEF ThreadLocalInit, SetWait, SavePrev, Reuse, Queued, Holders, ClhTypeOK
  <2>2. QueueDetermined' /\ Queue' = Queue
    BY <2>1, QueueKept
  <2>. QED
    BY <2>1, <2>2 DEF Fifo!vars
<1>3. ASSUME NEW t \in Threads, SwapTail(t) PROVE QueueDetermined' /\ Fifo!Next
  BY <1>3, SwapJoins DEF Fifo!Next
<1>4. ASSUME NEW t \in Threads, Spin(t) PROVE QueueDetermined' /\ Fifo!Next
  <2>1. /\ Queued' = Queued /\ ptr' = ptr /\ prev' = prev /\ t \in Queued
        /\ t \notin Holders /\ Holders' = Holders \cup {t}
    BY <1>0, <1>4 DEF Spin, Queued, Holders, ClhTypeOK
  <2>2. QueueDetermined' /\ Queue' = Queue
    BY <2>1, QueueKept
  <2>3. Holders = {}
    <3>1. MutualExclusion'
      BY InvImpliesMutex, PTL
    <3>. QED
      BY <2>1, <3>1 DEF MutualExclusion
  <2>4. Queue # <<>>
    <3>1. Queue \in SetToSeqs(Queued)
      BY DEF QueueDetermined, OnlyList, List
    <3>2. PICK i \in 1..Cardinality(Queued) : Queue[i] = t
      BY <2>1, <3>1, QueuedFinite, ListIsSeq
    <3>3. Len(Queue) = Cardinality(Queued) /\ Cardinality(Queued) \in Nat
      BY <3>1, QueuedFinite, ListIsSeq
    <3>4. Len(Queue) # 0
      BY <3>2, <3>3
    <3>. QED
      BY <3>4
  <2>. QED
    BY <2>1, <2>2, <2>3, <2>4 DEF Fifo!Next, Fifo!Grant
<1>5. ASSUME NEW t \in Threads, Unlock(t) PROVE QueueDetermined' /\ Fifo!Next
  BY <1>5, UnlockLeaves DEF Fifo!Next
<1>. QED
  BY <1>1, <1>2, <1>3, <1>4, <1>5 DEF Next

LEMMA InitServesInOrder == Init => QueueDetermined /\ Fifo!Init
<1>. SUFFICES ASSUME Init PROVE QueueDetermined /\ Fifo!Init
  OBVIOUS
<1>1. Queued = {} /\ Holders = {}
  BY DEF Init, Queued, Holders
<1>2. OnlyList(Queued, Own, Found, <<>>)
  BY <1>1, EmptyList
<1>3. Queue = <<>>
  BY <1>2, OnlyListIsQueue DEF ListIsQueue
<1>. QED
  BY <1>1, <1>2, <1>3 DEF QueueDetermined, Fifo!Init

\* The CLH lock serves threads in the order of their exchanges on tail: it
\* implements the abstract first-come first-served lock, whose queue is the chain
\* of prev pointers, for any number of threads.
THEOREM ClhServedInOrder == Spec => ServedInOrder
<1>1. IInv /\ IInv' /\ QueueDetermined /\ [Next]_vars =>
          QueueDetermined' /\ [Fifo!Next]_(Fifo!vars)
  BY StepServesInOrder
<1>. QED
  BY <1>1, InitServesInOrder, ClhInvariant, PTL DEF Spec, ServedInOrder, Fifo!Spec

=============================================================================
