------------------------ MODULE TicketSpinlock_proofs ------------------------
(***************************************************************************)
(* Mutual exclusion of the ticket lock for any number of threads below the *)
(* number of tickets, wrap-around included.  The argument: outstanding     *)
(* tickets are distinct and lie in the window [serving, next), whose size  *)
(* is the number of active threads; since that is less than TICKETS the    *)
(* window never closes on itself, and only the ticket at its start holds   *)
(* the lock.                                                               *)
(***************************************************************************)
EXTENDS TicketSpinlock, Sequences, FiniteSetTheorems, TLAPS

\* The window of outstanding tickets.
InWindow ==
    \A t \in Active : Distance(serving, ticket[t]) < Distance(serving, next)

DistinctTickets ==
    \A t, u \in Active : t # u => ticket[t] # ticket[u]

\* A holder's ticket is the one being served, and nobody else moves it.
HolderIsServed ==
    \A t \in Holders : ticket[t] = serving

LoadIsFresh ==
    \A t \in Threads : pc[t] = "releasing" => reg[t] = serving

IInv ==
    /\ TypeOK
    /\ TicketsOutstanding
    /\ InWindow
    /\ DistinctTickets
    /\ HolderIsServed
    /\ LoadIsFresh

-----------------------------------------------------------------------------
\* Half-word arithmetic: what one increment does to a distance.
LEMMA DistanceType ==
    ASSUME NEW a \in Ticket, NEW b \in Ticket
    PROVE  Distance(a, b) \in Ticket /\ Succ(a) \in Ticket
BY TicketAssumption DEF Distance, Ticket, Succ

LEMMA DistanceInjective ==
    ASSUME NEW a \in Ticket, NEW b \in Ticket, NEW c \in Ticket
    PROVE  (Distance(a, b) = Distance(a, c)) <=> (b = c)
BY TicketAssumption DEF Distance, Ticket

LEMMA DistanceSuccRight ==
    ASSUME NEW a \in Ticket, NEW b \in Ticket, Distance(a, b) + 1 < TICKETS
    PROVE  Distance(a, Succ(b)) = Distance(a, b) + 1
BY TicketAssumption DEF Distance, Ticket, Succ

LEMMA DistanceSuccLeft ==
    ASSUME NEW a \in Ticket, NEW b \in Ticket, a # b
    PROVE  Distance(Succ(a), b) = Distance(a, b) - 1
BY TicketAssumption DEF Distance, Ticket, Succ

LEMMA DistanceZero ==
    ASSUME NEW a \in Ticket, NEW b \in Ticket
    PROVE  (Distance(a, b) = 0) <=> (a = b)
BY TicketAssumption DEF Distance, Ticket

\* The active threads are finitely many, fewer than the tickets.
LEMMA ActiveFinite ==
    /\ IsFiniteSet(Active)
    /\ Cardinality(Active) \in Nat
    /\ Cardinality(Active) <= Cardinality(Threads)
BY TicketAssumption, FS_Subset, FS_CardinalityType DEF Active

LEMMA ActiveLeavesRoom ==
    ASSUME NEW t \in Threads, t \notin Active
    PROVE  Cardinality(Active) + 1 < TICKETS
<1>1. /\ IsFiniteSet(Active \cup {t})
      /\ Cardinality(Active \cup {t}) = Cardinality(Active) + 1
  BY ActiveFinite, FS_AddElement
<1>2. Active \cup {t} \subseteq Threads
  BY DEF Active
<1>3. Cardinality(Active \cup {t}) <= Cardinality(Threads)
  BY <1>2, TicketAssumption, FS_Subset
<1>4. Cardinality(Threads) \in Nat /\ Cardinality(Active) \in Nat
  BY TicketAssumption, ActiveFinite, FS_CardinalityType
<1>. QED
  BY <1>1, <1>3, <1>4, TicketAssumption

-----------------------------------------------------------------------------
LEMMA InitInv == Init => IInv
<1>. SUFFICES ASSUME Init PROVE IInv
  OBVIOUS
<1>1. Active = {} /\ Holders = {}
  BY DEF Init, Active, Holders
<1>2. TypeOK
  <2>1. 0 \in Ticket
    <3>1. Cardinality(Threads) \in Nat
      BY TicketAssumption, FS_CardinalityType
    <3>. QED
      BY <3>1, TicketAssumption DEF Ticket
  <2>. QED
    BY <2>1 DEF Init, TypeOK
<1>3. TicketsOutstanding
  BY <1>1, FS_EmptySet DEF Init, TicketsOutstanding, Distance
<1>. QED
  BY <1>1, <1>2, <1>3
     DEF Init, IInv, InWindow, DistinctTickets, HolderIsServed, LoadIsFresh

LEMMA TakeTicketInv ==
    ASSUME IInv, NEW t \in Threads, TakeTicket(t)
    PROVE  IInv'
<1>. USE DEF IInv
<1>1. t \notin Active /\ Active' = Active \cup {t}
  BY DEF TakeTicket, Active, TypeOK
<1>2. Distance(serving, next) + 1 < TICKETS
  BY <1>1, ActiveLeavesRoom DEF TicketsOutstanding
<1>3. Distance(serving, next)' = Distance(serving, next) + 1
  BY <1>2, DistanceSuccRight DEF TakeTicket, TypeOK
<1>4. TypeOK'
  <2>1. Succ(next) \in Ticket /\ Distance(serving, next) \in Ticket
    BY DistanceType DEF TypeOK
  <2>2. Distance(serving, next) \div DEPTH_UNIT \in Nat
    BY <2>1, DepthUnitAssumption, SMT DEF Ticket
  <2>. QED
    BY <2>1, <2>2 DEF TakeTicket, TypeOK
<1>5. TicketsOutstanding'
  <2>1. Cardinality(Active') = Cardinality(Active) + 1
    BY <1>1, ActiveFinite, FS_AddElement
  <2>. QED
    BY <2>1, <1>3 DEF TicketsOutstanding
<1>6. \A u \in Active : ticket'[u] = ticket[u] /\ pc'[u] = pc[u]
  BY <1>1 DEF TakeTicket, TypeOK, Active
<1>7. ticket'[t] = next
  BY DEF TakeTicket, TypeOK
<1>8. InWindow'
  <2>. SUFFICES ASSUME NEW u \in Active'
       PROVE Distance(serving, ticket'[u]) < Distance(serving, next)'
    BY DEF InWindow, TakeTicket
  <2>1. CASE u = t
    BY <2>1, <1>3, <1>7, DistanceType DEF TypeOK, Ticket
  <2>2. CASE u \in Active
    <3>1. /\ Distance(serving, ticket[u]) \in Ticket
          /\ Distance(serving, next) \in Ticket
      BY <2>2, DistanceType DEF TypeOK, Active
    <3>2. Distance(serving, ticket[u]) < Distance(serving, next)
      BY <2>2 DEF InWindow
    <3>. QED
      BY <2>2, <3>1, <3>2, <1>3, <1>6 DEF Ticket
  <2>. QED
    BY <2>1, <2>2, <1>1
<1>9. DistinctTickets'
  <2>1. \A u \in Active : ticket[u] # next
    BY DistanceType DEF InWindow, TypeOK, Ticket, Active
  <2>. QED
    BY <2>1, <1>1, <1>6, <1>7 DEF DistinctTickets
<1>10. HolderIsServed'
  BY <1>1, <1>6, <1>7 DEF HolderIsServed, Holders, Active, TakeTicket, TypeOK
<1>11. LoadIsFresh'
  BY DEF LoadIsFresh, TakeTicket, TypeOK
<1>. QED
  BY <1>4, <1>5, <1>8, <1>9, <1>10, <1>11

\* Steps that only move one thread's pc among the active places.
LEMMA SpinInv ==
    ASSUME IInv, NEW t \in Threads, Spin(t)
    PROVE  IInv'
<1>. USE DEF IInv
<1>1. Active' = Active
  BY DEF Active, Spin, TypeOK
<1>2. TypeOK'
  BY DEF TypeOK, Spin
<1>3. TicketsOutstanding' /\ InWindow' /\ DistinctTickets'
  BY <1>1 DEF TicketsOutstanding, InWindow, DistinctTickets, Spin
<1>4. HolderIsServed'
  BY DEF HolderIsServed, Holders, Spin, TypeOK
<1>5. LoadIsFresh'
  BY DEF LoadIsFresh, Spin, TypeOK
<1>. QED
  BY <1>2, <1>3, <1>4, <1>5

LEMMA ReleaseLoadInv ==
    ASSUME IInv, NEW t \in Threads, ReleaseLoad(t)
    PROVE  IInv'
<1>. USE DEF IInv
<1>1. Active' = Active
  BY DEF Active, ReleaseLoad, TypeOK
<1>2. TypeOK'
  BY DEF TypeOK, ReleaseLoad
<1>3. TicketsOutstanding' /\ InWindow' /\ DistinctTickets'
  BY <1>1 DEF TicketsOutstanding, InWindow, DistinctTickets, ReleaseLoad
<1>4. HolderIsServed'
  BY DEF HolderIsServed, Holders, ReleaseLoad, TypeOK
<1>5. LoadIsFresh'
  BY DEF LoadIsFresh, ReleaseLoad, TypeOK
<1>. QED
  BY <1>2, <1>3, <1>4, <1>5

LEMMA ReleaseStoreInv ==
    ASSUME IInv, NEW t \in Threads, ReleaseStore(t)
    PROVE  IInv'
<1>. USE DEF IInv
<1>1. t \in Holders /\ t \in Active /\ Active' = Active \ {t}
  BY DEF ReleaseStore, Active, Holders, TypeOK
<1>2. serving' = Succ(serving) /\ ticket[t] = serving
  BY <1>1 DEF ReleaseStore, LoadIsFresh, HolderIsServed
<1>3. serving # next
  BY <1>1, <1>2, DistanceZero, DistanceType DEF InWindow, TypeOK, Ticket
<1>4. Distance(serving', next) = Distance(serving, next) - 1
  BY <1>2, <1>3, DistanceSuccLeft DEF TypeOK
<1>5. TypeOK'
  BY <1>2, DistanceType DEF TypeOK, ReleaseStore
<1>6. TicketsOutstanding'
  <2>1. Cardinality(Active') = Cardinality(Active) - 1
    BY <1>1, ActiveFinite, FS_RemoveElement
  <2>. QED
    BY <2>1, <1>4 DEF TicketsOutstanding, ReleaseStore
<1>7. \A u \in Active' : u \in Active /\ ticket[u] # serving
  BY <1>1, <1>2 DEF DistinctTickets
<1>8. InWindow'
  <2>. SUFFICES ASSUME NEW u \in Active'
       PROVE Distance(serving', ticket[u]) < Distance(serving', next)
    BY DEF InWindow, ReleaseStore
  <2>1. Distance(serving', ticket[u]) = Distance(serving, ticket[u]) - 1
    BY <1>2, <1>7, DistanceSuccLeft DEF TypeOK, Active
  <2>2. /\ Distance(serving, ticket[u]) \in Ticket
        /\ Distance(serving, next) \in Ticket
    BY <1>7, DistanceType DEF TypeOK, Active
  <2>3. Distance(serving, ticket[u]) < Distance(serving, next)
    BY <1>7 DEF InWindow
  <2>. QED
    BY <2>1, <2>2, <2>3, <1>4 DEF Ticket
<1>9. DistinctTickets'
  BY <1>7 DEF DistinctTickets, ReleaseStore
<1>10. Holders' = {}
  <2>. SUFFICES ASSUME NEW u \in Holders' PROVE FALSE
    OBVIOUS
  <2>1. u \in Holders /\ u \in Active'
    BY DEF ReleaseStore, Holders, Active, TypeOK
  <2>. QED
    BY <2>1, <1>7 DEF HolderIsServed
<1>11. HolderIsServed' /\ LoadIsFresh'
  BY <1>10 DEF HolderIsServed, LoadIsFresh, Holders, ReleaseStore, TypeOK
<1>. QED
  BY <1>5, <1>6, <1>8, <1>9, <1>11

LEMMA StepInv == IInv /\ [Next]_vars => IInv'
<1>. SUFFICES ASSUME IInv, [Next]_vars PROVE IInv'
  OBVIOUS
<1>1. CASE UNCHANGED vars
  BY <1>1 DEF vars, IInv, TypeOK, TicketsOutstanding, InWindow, DistinctTickets,
              HolderIsServed, LoadIsFresh, Active, Holders, Distance
<1>2. ASSUME NEW t \in Threads, TakeTicket(t) PROVE IInv'
  BY <1>2, TakeTicketInv
<1>3. ASSUME NEW t \in Threads, Spin(t) PROVE IInv'
  BY <1>3, SpinInv
<1>4. ASSUME NEW t \in Threads, ReleaseLoad(t) PROVE IInv'
  BY <1>4, ReleaseLoadInv
<1>5. ASSUME NEW t \in Threads, ReleaseStore(t) PROVE IInv'
  BY <1>5, ReleaseStoreInv
<1>. QED
  BY <1>1, <1>2, <1>3, <1>4, <1>5 DEF Next

LEMMA InvImpliesMutex == IInv => MutualExclusion
BY DEF IInv, MutualExclusion, HolderIsServed, DistinctTickets, Holders, Active

-----------------------------------------------------------------------------
\* The inductive invariant holds of the ticket lock of ticket_spinlock.h.
THEOREM TicketInvariant == Spec => []IInv
BY InitInv, StepInv, PTL DEF Spec

\* Half words keep their width and never wrap onto an outstanding ticket.
THEOREM TicketTypeCorrect == Spec => []TypeOK
<1>1. IInv => TypeOK
  BY DEF IInv
<1>. QED
  BY <1>1, TicketInvariant, PTL

\* The distance of the halves is the number of active threads.
THEOREM TicketWindow == Spec => []TicketsOutstanding
<1>1. IInv => TicketsOutstanding
  BY DEF IInv
<1>. QED
  BY <1>1, TicketInvariant, PTL

\* lock_acquire returns to one thread at a time.
THEOREM TicketMutualExclusion == Spec => []MutualExclusion
BY TicketInvariant, InvImpliesMutex, PTL

-----------------------------------------------------------------------------
\* The depth a thread was told covers its distance from the lock, rounded to the
\* unit the code reports in; the distance only shrinks.
Place(t) == Distance(serving, ticket[t])

DepthCovers ==
    \A t \in Active : Place(t) < (depth[t] + 1) * DEPTH_UNIT

LEMMA RoundedDown ==
    ASSUME NEW d \in Nat, NEW u \in Nat \ {0}
    PROVE  d < (d \div u + 1) * u
BY SMT

LEMMA PlaceType ==
    ASSUME IInv, NEW t \in Threads
    PROVE  Place(t) \in Nat
BY DistanceType DEF IInv, TypeOK, Place, Ticket

LEMMA StepDepth ==
    ASSUME IInv, IInv', DepthCovers, [Next]_vars
    PROVE  DepthCovers'
<1>. USE DEF IInv
<1>1. CASE UNCHANGED vars
  BY <1>1 DEF vars, DepthCovers, Place, Active
<1>2. ASSUME NEW t \in Threads, TakeTicket(t) PROVE DepthCovers'
  <2>1. /\ Active' = Active \cup {t} /\ t \notin Active /\ serving' = serving
        /\ \A u \in Active : ticket'[u] = ticket[u] /\ depth'[u] = depth[u]
    BY <1>2 DEF TakeTicket, Active, TypeOK
  <2>2. /\ ticket'[t] = next
        /\ depth'[t] = Distance(serving, next) \div DEPTH_UNIT
    BY <1>2 DEF TakeTicket, TypeOK
  <2>3. Distance(serving, next) < (depth'[t] + 1) * DEPTH_UNIT
    <3>1. Distance(serving, next) \in Nat
      BY DistanceType DEF TypeOK, Ticket
    <3>. QED
      BY <2>2, <3>1, RoundedDown, DepthUnitAssumption, Zenon
  <2>. QED
    BY <2>1, <2>2, <2>3 DEF DepthCovers, Place
<1>3. ASSUME NEW t \in Threads, Spin(t) \/ ReleaseLoad(t) PROVE DepthCovers'
  <2>1. Active' = Active
    BY <1>3 DEF Spin, ReleaseLoad, Active, TypeOK
  <2>. QED
    BY <1>3, <2>1 DEF DepthCovers, Place, Spin, ReleaseLoad
<1>4. ASSUME NEW t \in Threads, ReleaseStore(t) PROVE DepthCovers'
  <2>1. t \in Holders /\ t \in Active /\ Active' = Active \ {t}
    BY <1>4 DEF ReleaseStore, Active, Holders, TypeOK
  <2>2. serving' = Succ(serving) /\ ticket[t] = serving
    BY <1>4, <2>1 DEF ReleaseStore, LoadIsFresh, HolderIsServed
  <2>. SUFFICES ASSUME NEW u \in Active'
       PROVE  Place(u)' < (depth[u] + 1) * DEPTH_UNIT
    BY <1>4 DEF DepthCovers, ReleaseStore
  <2>3. u \in Active /\ ticket[u] # serving
    BY <2>1, <2>2 DEF DistinctTickets
  <2>4. Place(u)' = Place(u) - 1
    BY <1>4, <2>2, <2>3, DistanceSuccLeft DEF Place, TypeOK, Active, ReleaseStore
  <2>5. Place(u) \in Nat /\ (depth[u] + 1) * DEPTH_UNIT \in Int
    <3>1. Place(u) \in Nat
      BY <2>3, PlaceType DEF Active
    <3>2. (depth[u] + 1) * DEPTH_UNIT \in Int
      BY <2>3, DepthUnitAssumption DEF TypeOK, Active
    <3>. QED
      BY <3>1, <3>2
  <2>6. Place(u) < (depth[u] + 1) * DEPTH_UNIT
    BY <2>3 DEF DepthCovers
  <2>. QED
    BY <2>4, <2>5, <2>6
<1>. QED
  BY <1>1, <1>2, <1>3, <1>4 DEF Next

\* The threads before t have different places, all of them nearer than t's.
LEMMA BeforeBounded ==
    ASSUME IInv, NEW t \in Active
    PROVE  Cardinality(Before(t)) \in Nat /\ Cardinality(Before(t)) <= Place(t)
<1>. DEFINE f == [u \in Before(t) |-> Place(u)]
<1>1. Before(t) \subseteq Active /\ Active \subseteq Threads
  BY DEF Before, Active
<1>2. Place(t) \in Nat
  BY <1>1, PlaceType
<1>3. \A u \in Before(t) : Place(u) \in 0..(Place(t) - 1)
  BY <1>1, <1>2, PlaceType DEF Before, Place
<1>4. \A u, v \in Before(t) : f[u] = f[v] => u = v
  BY <1>1, DistanceInjective DEF Place, IInv, TypeOK, DistinctTickets
<1>5. f \in Injection(Before(t), 0..(Place(t) - 1))
  BY <1>3, <1>4 DEF Injection, IsInjective
<1>6. /\ IsFiniteSet(0..(Place(t) - 1))
      /\ Cardinality(0..(Place(t) - 1)) = Place(t)
  BY <1>2, FS_Interval
<1>7. /\ IsFiniteSet(Before(t))
      /\ Cardinality(Before(t)) <= Cardinality(0..(Place(t) - 1))
  BY <1>5, <1>6, FS_Injection
<1>. QED
  BY <1>6, <1>7, FS_CardinalityType

LEMMA InvImpliesDepth == IInv /\ DepthCovers => DepthBoundsWait
<1>. SUFFICES ASSUME IInv, DepthCovers, NEW t \in Active
     PROVE  Cardinality(Before(t)) < (depth[t] + 1) * DEPTH_UNIT
  BY DEF DepthBoundsWait
<1>1. Cardinality(Before(t)) \in Nat /\ Cardinality(Before(t)) <= Place(t)
  BY BeforeBounded
<1>2. Place(t) \in Nat /\ Place(t) < (depth[t] + 1) * DEPTH_UNIT
  BY PlaceType DEF DepthCovers, Active
<1>3. (depth[t] + 1) * DEPTH_UNIT \in Int
  BY DepthUnitAssumption DEF IInv, TypeOK, Active
<1>. QED
  BY <1>1, <1>2, <1>3

\* The depth lock_acquire returns is never less than the threads still to be served
\* before its caller, whatever the unit it is reported in.
THEOREM TicketDepthBoundsWait == Spec => []DepthBoundsWait
<1>1. Init => DepthCovers
  BY DEF Init, DepthCovers, Active
<1>2. IInv /\ IInv' /\ DepthCovers /\ [Next]_vars => DepthCovers'
  BY StepDepth
<1>. QED
  BY <1>1, <1>2, TicketInvariant, InvImpliesDepth, PTL DEF Spec

-----------------------------------------------------------------------------
LEMMA IntervalSize ==
    ASSUME NEW a \in Int, NEW b \in Int, a <= b + 1
    PROVE  IsFiniteSet(a..b) /\ Cardinality(a..b) = b - a + 1
<1>1. IsFiniteSet(a..b) /\ Cardinality(a..b) = IF a > b THEN 0 ELSE b - a + 1
  BY FS_Interval, Zenon
<1>. QED
  BY <1>1

\* The places of the active threads are exactly the numbers below how many they
\* are, so the thread at place i - 1 is the i-th of the queue.
N == Cardinality(Active)

LEMMA PlaceFacts ==
    ASSUME IInv
    PROVE  /\ N \in Nat
           /\ \A t \in Active : Place(t) \in 0..(N - 1)
           /\ \A t, u \in Active : Place(t) = Place(u) => t = u
<1>1. N \in Nat
  BY ActiveFinite DEF N
<1>2. ASSUME NEW t \in Active PROVE Place(t) \in 0..(N - 1)
  <2>1. Place(t) \in Nat
    BY PlaceType DEF Active
  <2>2. Place(t) < N
    BY DEF IInv, InWindow, TicketsOutstanding, Place, N
  <2>. QED
    BY <1>1, <2>1, <2>2
<1>3. ASSUME NEW t \in Active, NEW u \in Active, Place(t) = Place(u) PROVE t = u
  BY <1>3, DistanceInjective DEF Place, IInv, TypeOK, DistinctTickets, Active
<1>. QED
  BY <1>1, <1>2, <1>3

LEMMA EveryPlaceTaken ==
    ASSUME IInv, NEW i \in 0..(N - 1)
    PROVE  \E t \in Active : Place(t) = i
<1>. DEFINE f == [t \in Active |-> Place(t)]
<1>1. f \in Injection(Active, 0..(N - 1))
  BY PlaceFacts DEF Injection, IsInjective
<1>2. IsFiniteSet(0..(N - 1)) /\ Cardinality(0..(N - 1)) = N
  BY PlaceFacts, FS_Interval
<1>3. f \in Surjection(Active, 0..(N - 1))
  BY <1>1, <1>2, FS_Injection DEF N
<1>. QED
  BY <1>3 DEF Surjection

\* A queue in which everyone stands at their place.
InPlace(q) == q \in [1..N -> Active] /\ \A i \in 1..N : Place(q[i]) = i - 1

LEMMA InPlaceExists == ASSUME IInv PROVE \E q : InPlace(q)
<1>. DEFINE q == [i \in 1..N |-> CHOOSE t \in Active : Place(t) = i - 1]
<1>1. ASSUME NEW i \in 1..N PROVE q[i] \in Active /\ Place(q[i]) = i - 1
  <2>1. i - 1 \in 0..(N - 1)
    BY PlaceFacts
  <2>2. \E t \in Active : Place(t) = i - 1
    BY <2>1, EveryPlaceTaken
  <2>. QED
    BY <2>2
<1>2. InPlace(q)
  BY <1>1 DEF InPlace
<1>. QED
  BY <1>2

LEMMA InPlaceUnique ==
    ASSUME IInv, NEW q, InPlace(q), NEW r, InPlace(r)
    PROVE  q = r
<1>. DEFINE S == 1..N
<1>1. \A i \in S : q[i] = r[i]
  BY PlaceFacts DEF InPlace
<1>2. q \in [S -> Active] /\ r \in [S -> Active]
  BY DEF InPlace
<1>. HIDE DEF S
<1>. QED
  BY <1>1, <1>2

LEMMA InPlaceInOrder ==
    ASSUME IInv, NEW q, InPlace(q)
    PROVE  IsInOrder(q)
<1>1. ASSUME NEW t \in Active PROVE \E i \in DOMAIN q : q[i] = t
  <2>1. Place(t) + 1 \in 1..N
    BY PlaceFacts
  <2>2. q[Place(t) + 1] \in Active /\ Place(q[Place(t) + 1]) = Place(t)
    BY <2>1, PlaceFacts DEF InPlace
  <2>3. q[Place(t) + 1] = t
    BY <2>2, PlaceFacts
  <2>. QED
    BY <2>1, <2>3 DEF InPlace
<1>2. ASSUME NEW i \in DOMAIN q, NEW j \in DOMAIN q, i < j
      PROVE  Place(q[i]) <= Place(q[j])
  BY <1>2, PlaceFacts DEF InPlace
<1>. QED
  BY <1>1, <1>2 DEF IsInOrder, Place

\* Only the queue in place is in order.  The threads before the i-th have i - 1
\* smaller places, those behind it N - i larger ones.
LEMMA InOrderInPlace ==
    ASSUME IInv, NEW q \in [1..N -> Active], IsInOrder(q)
    PROVE  InPlace(q)
<1>1. N \in Nat
  BY PlaceFacts
<1>2. \A i, j \in 1..N : q[i] = q[j] => i = j
  <2>1. q \in Surjection(1..N, Active)
    BY DEF Surjection, IsInOrder
  <2>2. IsFiniteSet(1..N) /\ Cardinality(1..N) = N
    BY <1>1, FS_Interval
  <2>3. q \in Injection(1..N, Active)
    BY <2>1, <2>2, FS_SurjSameCardinalityImpliesInj DEF N
  <2>. QED
    BY <2>3 DEF Injection, IsInjective
<1>3. \A i \in 1..N : Place(q[i]) \in 0..(N - 1)
  BY PlaceFacts
<1>4. ASSUME NEW i \in 1..N, NEW j \in 1..N, i < j PROVE Place(q[i]) < Place(q[j])
  <2>1. Place(q[i]) <= Place(q[j])
    BY <1>4 DEF IsInOrder, Place
  <2>2. Place(q[i]) # Place(q[j])
    BY <1>2, <1>4, PlaceFacts
  <2>. QED
    BY <1>3, <2>1, <2>2
<1>5. ASSUME NEW i \in 1..N PROVE Place(q[i]) = i - 1
  <2>. DEFINE p == Place(q[i])
              f == [j \in 1..(i - 1) |-> Place(q[j])]
              g == [j \in (i + 1)..N |-> Place(q[j])]
  <2>1. p \in 0..(N - 1) /\ i \in Nat
    BY <1>3
  <2>2. f \in Injection(1..(i - 1), 0..(p - 1))
    <3>1. \A j \in 1..(i - 1) : j \in 1..N /\ j < i
      BY <1>1
    <3>2. \A j \in 1..(i - 1) : Place(q[j]) \in 0..(p - 1)
      BY <1>3, <1>4, <2>1, <3>1
    <3>3. \A j, k \in 1..(i - 1) : Place(q[j]) = Place(q[k]) => j = k
      BY <1>2, <3>1, PlaceFacts
    <3>. QED
      BY <3>2, <3>3 DEF Injection, IsInjective
  <2>3. g \in Injection((i + 1)..N, (p + 1)..(N - 1))
    <3>1. \A j \in (i + 1)..N : j \in 1..N /\ i < j
      BY <1>1
    <3>2. \A j \in (i + 1)..N : Place(q[j]) \in (p + 1)..(N - 1)
      BY <1>3, <1>4, <2>1, <3>1
    <3>3. \A j, k \in (i + 1)..N : Place(q[j]) = Place(q[k]) => j = k
      BY <1>2, <3>1, PlaceFacts
    <3>. QED
      BY <3>2, <3>3 DEF Injection, IsInjective
  <2>4. Cardinality(1..(i - 1)) <= Cardinality(0..(p - 1))
    BY <2>1, <2>2, FS_Injection, FS_Interval
  <2>5. Cardinality((i + 1)..N) <= Cardinality((p + 1)..(N - 1))
    BY <1>1, <2>1, <2>3, FS_Injection, FS_Interval
  <2>6. Cardinality(1..(i - 1)) = i - 1 /\ Cardinality(0..(p - 1)) = p
    <3>1. Cardinality(1..(i - 1)) = (i - 1) - 1 + 1
      BY <2>1, IntervalSize
    <3>2. Cardinality(0..(p - 1)) = (p - 1) - 0 + 1
      BY <2>1, IntervalSize
    <3>. QED
      BY <2>1, <3>1, <3>2
  <2>7. Cardinality((i + 1)..N) = N - i /\ Cardinality((p + 1)..(N - 1)) = N - 1 - p
    <3>1. Cardinality((i + 1)..N) = N - (i + 1) + 1
      BY <1>1, <2>1, IntervalSize
    <3>2. Cardinality((p + 1)..(N - 1)) = (N - 1) - (p + 1) + 1
      BY <1>1, <2>1, IntervalSize
    <3>. QED
      BY <1>1, <2>1, <3>1, <3>2
  <2>8. p = i - 1
    <3>. HIDE DEF p
    <3>. QED
      BY <1>1, <2>1, <2>4, <2>5, <2>6, <2>7
  <2>. QED
    BY <2>8
<1>. QED
  BY <1>5 DEF InPlace

\* Everyone stands at their place in the queue that the mapping chooses, and in no
\* other function.
QueueDetermined == InPlace(Queue) /\ \A q : InPlace(q) => q = Queue

LEMMA InvDeterminesQueue == IInv => QueueDetermined
<1>. SUFFICES ASSUME IInv PROVE QueueDetermined
  OBVIOUS
<1>1. PICK q : InPlace(q)
  BY InPlaceExists
<1>2. q \in [1..N -> Active] /\ IsInOrder(q)
  BY <1>1, InPlaceInOrder DEF InPlace
<1>3. Queue \in [1..N -> Active] /\ IsInOrder(Queue)
  BY <1>2 DEF Queue, N
<1>4. InPlace(Queue)
  BY <1>3, InOrderInPlace
<1>. QED
  BY <1>4, InPlaceUnique DEF QueueDetermined

LEMMA QueueIsSeq ==
    ASSUME IInv
    PROVE  /\ N \in Nat
           /\ Queue \in Seq(Active) /\ Len(Queue) = N
           /\ \A i \in 1..N : Queue[i] \in Active /\ Place(Queue[i]) = i - 1
<1>1. N \in Nat
  BY PlaceFacts
<1>2. InPlace(Queue)
  BY InvDeterminesQueue DEF QueueDetermined
<1>. QED
  BY <1>1, <1>2 DEF InPlace

\* A thread that draws a ticket takes the place behind all the others ...
LEMMA TakeTicketJoins ==
    ASSUME IInv, IInv', NEW t \in Threads, TakeTicket(t)
    PROVE  Fifo!Join(t)
<1>0. PICK q : q = Append(Queue, t)
  OBVIOUS
<1>1. /\ t \notin Active /\ Active' = Active \cup {t} /\ serving' = serving
      /\ \A u \in Active : ticket'[u] = ticket[u]
      /\ ticket'[t] = next
  BY DEF TakeTicket, Active, IInv, TypeOK
<1>2. N \in Nat /\ N' = N + 1
  BY <1>1, ActiveFinite, FS_AddElement DEF N
<1>3. /\ \A u \in Active : Place(u)' = Place(u)
      /\ Place(t)' = N
  BY <1>1 DEF Place, IInv, TicketsOutstanding, N
<1>4. /\ DOMAIN q = 1..(N + 1) /\ q[N + 1] = t
      /\ \A i \in 1..N : q[i] = Queue[i]
  BY <1>0, <1>2, QueueIsSeq
<1>5. ASSUME NEW i \in 1..(N + 1) PROVE q[i] \in Active' /\ Place(q[i])' = i - 1
  <2>1. CASE i = N + 1
    BY <1>1, <1>2, <1>3, <1>4, <2>1
  <2>2. CASE i \in 1..N
    <3>1. q[i] \in Active /\ Place(q[i]) = i - 1
      BY <1>4, <2>2, QueueIsSeq
    <3>. QED
      BY <1>1, <1>3, <3>1
  <2>. QED
    BY <1>2, <2>1, <2>2
<1>6. InPlace(q)'
  <2>1. q \in [1..(N + 1) -> Active']
    <3>1. q \in Seq(Active \cup {t})
      BY <1>0, QueueIsSeq
    <3>2. q = [i \in 1..(N + 1) |-> q[i]]
      BY <1>4, <3>1
    <3>. QED
      BY <1>5, <3>2
  <2>. QED
    BY <1>2, <1>5, <2>1 DEF InPlace
<1>7. Queue' = q
  <2>1. QueueDetermined'
    BY InvDeterminesQueue, PTL
  <2>. QED
    BY <1>6, <2>1 DEF QueueDetermined
<1>8. \A i \in 1..Len(Queue) : Queue[i] # t
  BY <1>1, QueueIsSeq
<1>9. (Holders # {})' \in {Holders # {}, Holders # {} \/ Queue = <<>>}
  <2>1. CASE next = serving
    <3>1. N = 0
      BY <2>1, DistanceZero DEF IInv, TypeOK, TicketsOutstanding, N
    <3>2. Queue = <<>>
      BY <3>1, QueueIsSeq
    <3>3. Holders' # {}
      BY <2>1 DEF TakeTicket, Holders, IInv, TypeOK
    <3>. QED
      BY <3>2, <3>3
  <2>2. CASE next # serving
    BY <2>2 DEF TakeTicket, Holders, IInv, TypeOK
  <2>. QED
    BY <2>1, <2>2
<1>. QED
  BY <1>0, <1>7, <1>8, <1>9 DEF Fifo!Join

\* ... and a release takes the first one out of the queue: everyone moves up.
LEMMA ReleaseStoreLeaves ==
    ASSUME IInv, IInv', NEW t \in Threads, ReleaseStore(t)
    PROVE  Fifo!Leave
<1>0. PICK q : q = Tail(Queue)
  OBVIOUS
<1>1. t \in Holders /\ t \in Active /\ Active' = Active \ {t}
  BY DEF ReleaseStore, Active, Holders, IInv, TypeOK
<1>2. serving' = Succ(serving) /\ ticket[t] = serving /\ ticket' = ticket
  BY <1>1 DEF ReleaseStore, LoadIsFresh, HolderIsServed, IInv
<1>3. N \in Nat /\ N' = N - 1 /\ N >= 1
  <2>1. N \in Nat /\ N' = N - 1
    BY <1>1, ActiveFinite, FS_RemoveElement DEF N
  <2>2. N # 0
    BY <1>1, ActiveFinite, FS_EmptySet DEF N
  <2>. QED
    BY <2>1, <2>2
<1>4. Place(t) = 0
  BY <1>2, DistanceZero DEF Place, IInv, TypeOK
<1>5. \A u \in Active \ {t} : Place(u)' = Place(u) - 1
  <2>. SUFFICES ASSUME NEW u \in Active \ {t} PROVE Place(u)' = Place(u) - 1
    OBVIOUS
  <2>1. ticket[u] # serving /\ ticket[u] \in Ticket /\ serving \in Ticket
    BY <1>1, <1>2 DEF IInv, DistinctTickets, TypeOK, Active
  <2>. QED
    BY <1>2, <2>1, DistanceSuccLeft DEF Place
<1>6. /\ DOMAIN q = 1..(N - 1)
      /\ \A i \in 1..(N - 1) : q[i] = Queue[i + 1]
  BY <1>0, <1>3, QueueIsSeq
<1>7. ASSUME NEW i \in 1..(N - 1) PROVE q[i] \in Active' /\ Place(q[i])' = i - 1
  <2>1. i + 1 \in 1..N
    BY <1>3
  <2>2. q[i] \in Active /\ Place(q[i]) = (i + 1) - 1
    BY <1>6, <2>1, QueueIsSeq
  <2>3. q[i] # t
    BY <1>4, <2>2
  <2>. QED
    BY <1>1, <1>5, <2>2, <2>3
<1>8. InPlace(q)'
  <2>1. q \in [1..(N - 1) -> Active']
    <3>1. q \in Seq(Active)
      BY <1>0, <1>3, QueueIsSeq
    <3>2. q = [i \in 1..(N - 1) |-> q[i]]
      BY <1>6, <3>1
    <3>. QED
      BY <1>7, <3>2
  <2>. QED
    BY <1>3, <1>7, <2>1 DEF InPlace
<1>9. Queue' = q
  <2>1. QueueDetermined'
    BY InvDeterminesQueue, PTL
  <2>. QED
    BY <1>8, <2>1 DEF QueueDetermined
<1>10. Holders' = {}
  <2>. SUFFICES ASSUME NEW u \in Holders' PROVE FALSE
    OBVIOUS
  <2>1. u \in Holders /\ u \in Active' /\ u # t
    BY DEF ReleaseStore, Holders, Active, IInv, TypeOK
  <2>. QED
    BY <1>1, <2>1 DEF IInv, HolderIsServed, DistinctTickets, Active, Holders
<1>. QED
  BY <1>0, <1>1, <1>9, <1>10 DEF Fifo!Leave

LEMMA StepServesInOrder ==
    ASSUME IInv, IInv', [Next]_vars
    PROVE  [Fifo!Next]_(Fifo!vars)
<1>0. ASSUME UNCHANGED <<serving, ticket>>, Active' = Active PROVE Queue' = Queue
  BY <1>0 DEF Queue, IsInOrder
<1>1. CASE UNCHANGED vars
  <2>1. UNCHANGED <<serving, ticket>> /\ Active' = Active /\ Holders' = Holders
    BY <1>1 DEF vars, Active, Holders
  <2>. QED
    BY <1>0, <2>1 DEF Fifo!vars
<1>2. ASSUME NEW t \in Threads, TakeTicket(t) PROVE Fifo!Next
  BY <1>2, TakeTicketJoins DEF Fifo!Next
<1>3. ASSUME NEW t \in Threads, Spin(t) PROVE Fifo!Next
  <2>1. Queue' = Queue
    BY <1>0, <1>3 DEF Spin, Active, IInv, TypeOK
  <2>2. Queue # <<>>
    <3>1. t \in Active
      BY <1>3 DEF Spin, Active
    <3>2. N # 0
      BY <3>1, ActiveFinite, FS_EmptySet DEF N
    <3>. QED
      BY <3>2, QueueIsSeq
  <2>3. Holders = {}
    BY <1>3 DEF Spin, Holders, Active, IInv, HolderIsServed, DistinctTickets
  <2>4. Holders' # {}
    BY <1>3 DEF Spin, Holders, IInv, TypeOK
  <2>. QED
    BY <2>1, <2>2, <2>3, <2>4 DEF Fifo!Next, Fifo!Grant
<1>4. ASSUME NEW t \in Threads, ReleaseLoad(t) PROVE UNCHANGED Fifo!vars
  <2>1. Queue' = Queue
    BY <1>0, <1>4 DEF ReleaseLoad, Active, IInv, TypeOK
  <2>2. Holders' = Holders
    BY <1>4 DEF ReleaseLoad, Holders, IInv, TypeOK
  <2>. QED
    BY <2>1, <2>2 DEF Fifo!vars
<1>5. ASSUME NEW t \in Threads, ReleaseStore(t) PROVE Fifo!Next
  BY <1>5, ReleaseStoreLeaves DEF Fifo!Next
<1>. QED
  BY <1>1, <1>2, <1>3, <1>4, <1>5 DEF Next

\* The ticket lock is first come, first served: it implements the abstract FifoLock
\* whose queue is ordered by the draw of the tickets, wrap-around included.
THEOREM TicketServedInOrder == Spec => ServedInOrder
<1>1. Init => IInv /\ Fifo!Init
  <2>. SUFFICES ASSUME Init PROVE Fifo!Init
    BY InitInv
  <2>1. Active = {} /\ Holders = {}
    BY DEF Init, Active, Holders
  <2>2. N = 0
    BY <2>1, FS_EmptySet DEF N
  <2>3. Queue = <<>>
    BY <2>2, QueueIsSeq, InitInv
  <2>. QED
    BY <2>1, <2>3 DEF Fifo!Init
<1>2. IInv /\ IInv' /\ [Next]_vars => [Fifo!Next]_(Fifo!vars)
  BY StepServesInOrder
<1>. QED
  BY <1>1, <1>2, TicketInvariant, PTL DEF Spec, ServedInOrder, Fifo!Spec

=============================================================================
