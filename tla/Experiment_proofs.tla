------------------------- MODULE Experiment_proofs -------------------------
(***************************************************************************)
(* The harness of measure.c and main.c for any number of threads,          *)
(* barriers, measurements and acquisitions, with a timer that may expire   *)
(* and cancel at any moment; and synchronize_threads on its own, any       *)
(* number of times (BarrierSpec).                                          *)
(*                                                                         *)
(* The barrier.  Every thread is either level with the releases (it has    *)
(* passed as many barriers as were opened) or late by one, waiting with a  *)
(* sense the word has already left.  The count is the number of level      *)
(* threads that have arrived, so it can reach N only when nobody is late.  *)
(*                                                                         *)
(* The handshake.  p_sync_lock is twice the number of threads past their   *)
(* first step plus a bit that the marshal sets only when all of them are.  *)
(*                                                                         *)
(* The measurements.  The words are cleared by one measurement's setup and *)
(* used by its threads only, because run_one_experiment joins every thread *)
(* before it returns.  What a thread has counted but not published is      *)
(* bounded by where it is in its loop, so a cancellation anywhere loses no *)
(* more than that.                                                         *)
(***************************************************************************)
EXTENDS Experiment, FiniteSetTheorems, TLAPS

\* Arrived at the barrier that is to be opened next.
Arrived == {t \in Threads : at[t] = "open" \/ (at[t] = "wait" /\ mysense[t] = barrier.sense)}

CountIsArrived == barrier.count = Cardinality(Arrived)

Level ==
    \A t \in Threads :
        IF at[t] = "wait" /\ mysense[t] # barrier.sense
        THEN passed[t] = releases - 1
        ELSE passed[t] = releases

FreshSense ==
    \A t \in Threads : at[t] \in {"add", "open"} => mysense[t] = barrier.sense

OpenerIsLast ==
    \A t \in Threads : at[t] = "open" => Arrived = Threads

OneOpener ==
    \A t, u \in Threads : at[t] = "open" /\ at[u] = "open" => t = u

IInv ==
    /\ BarrierTypeOK
    /\ CountIsArrived
    /\ Level
    /\ FreshSense
    /\ OpenerIsLast
    /\ OneOpener

-----------------------------------------------------------------------------
LEMMA ThreadsFinite ==
    IsFiniteSet(Threads) /\ Cardinality(Threads) = N
BY ThreadCountAssumption, FS_Interval DEF Threads

LEMMA ArrivedFinite ==
    /\ IsFiniteSet(Arrived)
    /\ Cardinality(Arrived) \in Nat
    /\ Cardinality(Arrived) <= N
BY ThreadsFinite, FS_Subset, FS_CardinalityType DEF Arrived

\* The N-th arrival makes the arrived threads all threads.
LEMMA LastArrival ==
    ASSUME NEW t \in Threads, t \notin Arrived, Cardinality(Arrived) = N - 1
    PROVE  Arrived \cup {t} = Threads
<1>1. Cardinality(Arrived \cup {t}) = N
  BY ArrivedFinite, FS_AddElement, ThreadCountAssumption
<1>2. Arrived \cup {t} \subseteq Threads
  BY DEF Arrived
<1>. QED
  BY <1>1, <1>2, ThreadsFinite, FS_Subset

\* While a thread is still to arrive there is room below N.
LEMMA RoomToArrive ==
    ASSUME NEW t \in Threads, t \notin Arrived
    PROVE  Cardinality(Arrived) <= N - 1
<1>1. Cardinality(Arrived \cup {t}) = Cardinality(Arrived) + 1
  BY ArrivedFinite, FS_AddElement
<1>2. Arrived \cup {t} \subseteq Threads
  BY DEF Arrived
<1>3. Cardinality(Arrived \cup {t}) <= N
  BY <1>2, ThreadsFinite, FS_Subset
<1>. QED
  BY <1>1, <1>3, ArrivedFinite, ThreadCountAssumption

-----------------------------------------------------------------------------
LEMMA InitInv == BarrierInit => IInv
<1>. SUFFICES ASSUME BarrierInit PROVE IInv
  OBVIOUS
<1>1. Arrived = {}
  BY DEF Arrived, BarrierInit
<1>2. CountIsArrived
  BY <1>1, FS_EmptySet DEF CountIsArrived, BarrierInit
<1>3. BarrierTypeOK
  BY ThreadCountAssumption DEF BarrierInit, BarrierTypeOK
<1>. QED
  BY <1>2, <1>3 DEF IInv, BarrierInit, Level, FreshSense, OpenerIsLast, OneOpener

LEMMA ReadSenseInv ==
    ASSUME IInv, NEW t \in Threads, ReadSense(t)
    PROVE  IInv'
<1>. USE DEF IInv
<1>1. Arrived' = Arrived
  BY DEF Arrived, ReadSense, BarrierTypeOK
<1>2. BarrierTypeOK'
  BY DEF BarrierTypeOK, ReadSense
<1>3. CountIsArrived'
  BY <1>1 DEF CountIsArrived, ReadSense
<1>4. Level'
  BY DEF Level, ReadSense, BarrierTypeOK
<1>5. FreshSense'
  BY DEF FreshSense, ReadSense, BarrierTypeOK
<1>6. OpenerIsLast'
  BY <1>1 DEF OpenerIsLast, ReadSense, BarrierTypeOK
<1>7. OneOpener'
  BY DEF OneOpener, ReadSense, BarrierTypeOK
<1>. QED
  BY <1>2, <1>3, <1>4, <1>5, <1>6, <1>7

LEMMA ArriveInv ==
    ASSUME IInv, NEW t \in Threads, Arrive(t)
    PROVE  IInv'
<1>. USE DEF IInv
<1>1. t \notin Arrived /\ mysense[t] = barrier.sense
  BY DEF Arrived, Arrive, FreshSense
<1>2. Arrived' = Arrived \cup {t}
  BY <1>1 DEF Arrived, Arrive, BarrierTypeOK
<1>3. barrier.count <= N - 1
  BY <1>1, RoomToArrive DEF CountIsArrived
<1>4. BarrierTypeOK'
  BY <1>3, ThreadCountAssumption DEF BarrierTypeOK, Arrive
<1>5. CountIsArrived'
  <2>1. Cardinality(Arrived') = Cardinality(Arrived) + 1
    BY <1>1, <1>2, ArrivedFinite, FS_AddElement, Zenon
  <2>. QED
    BY <2>1 DEF CountIsArrived, Arrive, BarrierTypeOK
<1>6. Level'
  BY <1>1 DEF Level, Arrive, BarrierTypeOK
<1>7. FreshSense'
  BY <1>1 DEF FreshSense, Arrive, BarrierTypeOK
<1>8. OpenerIsLast'
  <2>. SUFFICES ASSUME NEW u \in Threads, at'[u] = "open" PROVE Arrived' = Threads
    BY DEF OpenerIsLast
  <2>1. CASE u = t
    <3>1. barrier.count = N - 1
      BY <2>1 DEF Arrive, BarrierTypeOK
    <3>. QED
      BY <3>1, <1>1, <1>2, LastArrival DEF CountIsArrived
  <2>2. CASE u # t
    BY <2>2, <1>1 DEF OpenerIsLast, Arrive, BarrierTypeOK
  <2>. QED
    BY <2>1, <2>2
\* An earlier opener would have found every thread arrived, t included.
<1>9. OneOpener'
  BY <1>1 DEF OneOpener, OpenerIsLast, Arrive, BarrierTypeOK
<1>. QED
  BY <1>4, <1>5, <1>6, <1>7, <1>8, <1>9

LEMMA OpenInv ==
    ASSUME IInv, NEW t \in Threads, Open(t)
    PROVE  IInv'
<1>. USE DEF IInv
<1>1. Arrived = Threads /\ mysense[t] = barrier.sense
  BY DEF OpenerIsLast, FreshSense, Open
<1>2. \A u \in Threads : mysense[u] = barrier.sense /\ passed[u] = releases
  BY <1>1 DEF Arrived, FreshSense, Level
<1>3. \A u \in Threads \ {t} : at[u] = "wait"
  BY <1>1 DEF Arrived, OneOpener, Open
<1>4. /\ barrier.sense \in {0, 1}
      /\ barrier'.sense = 1 - barrier.sense
      /\ barrier'.sense # barrier.sense
      /\ barrier'.count = 0
  BY <1>1 DEF BarrierTypeOK, Open
<1>5. at'[t] = "out" /\ \A u \in Threads \ {t} : at'[u] = "wait"
  BY <1>3 DEF Open, BarrierTypeOK
<1>6. Arrived' = {}
  BY <1>2, <1>4, <1>5 DEF Arrived, Open
<1>7. BarrierTypeOK'
  BY <1>1, ThreadCountAssumption DEF BarrierTypeOK, Open
<1>8. CountIsArrived'
  BY <1>4, <1>6, FS_EmptySet DEF CountIsArrived
<1>9. Level'
  BY <1>2, <1>4, <1>5 DEF Level, Open, BarrierTypeOK
<1>10. FreshSense' /\ OpenerIsLast' /\ OneOpener'
  BY <1>5 DEF FreshSense, OpenerIsLast, OneOpener
<1>. QED
  BY <1>7, <1>8, <1>9, <1>10

LEMMA WaitSenseInv ==
    ASSUME IInv, NEW t \in Threads, WaitSense(t)
    PROVE  IInv'
<1>. USE DEF IInv
<1>1. mysense[t] # barrier.sense /\ passed[t] = releases - 1
  BY DEF WaitSense, BarrierTypeOK, Level
<1>2. Arrived' = Arrived
  BY <1>1 DEF Arrived, WaitSense, BarrierTypeOK
<1>3. BarrierTypeOK'
  BY DEF BarrierTypeOK, WaitSense
<1>4. CountIsArrived'
  BY <1>2 DEF CountIsArrived, WaitSense
<1>5. Level'
  BY <1>1 DEF Level, WaitSense, BarrierTypeOK
<1>6. FreshSense' /\ OneOpener'
  BY DEF FreshSense, OneOpener, WaitSense, BarrierTypeOK
<1>7. OpenerIsLast'
  BY <1>2 DEF OpenerIsLast, WaitSense, BarrierTypeOK
<1>. QED
  BY <1>3, <1>4, <1>5, <1>6, <1>7

LEMMA StepInv == IInv /\ [BarrierNext]_barrierVars => IInv'
<1>. SUFFICES ASSUME IInv, [BarrierNext]_barrierVars PROVE IInv'
  OBVIOUS
<1>1. CASE UNCHANGED barrierVars
  BY <1>1 DEF barrierVars, IInv, BarrierTypeOK, CountIsArrived, Arrived, Level,
              FreshSense, OpenerIsLast, OneOpener
<1>2. CASE BarrierNext
  BY <1>2, ReadSenseInv, ArriveInv, OpenInv, WaitSenseInv DEF BarrierNext
<1>. QED
  BY <1>1, <1>2

\* A thread behind another is late, hence waiting with the old sense.
LEMMA InvImpliesHolds == IInv => BarrierHolds
BY DEF IInv, BarrierTypeOK, Level, BarrierHolds

-----------------------------------------------------------------------------
\* synchronize_threads keeps the inductive invariant.
THEOREM BarrierInvariant == BarrierSpec => []IInv
BY InitInv, StepInv, PTL DEF BarrierSpec

\* The arrival count stays within 0..N, so its field never carries into the sense bit.
THEOREM BarrierTypeCorrect == BarrierSpec => []BarrierTypeOK
<1>1. IInv => BarrierTypeOK
  BY DEF IInv
<1>. QED
  BY <1>1, BarrierInvariant, PTL

\* No thread leaves a use of the barrier before every thread has arrived at it, for
\* any number of threads and any number of uses of the same word.
THEOREM BarrierSafe == BarrierSpec => []BarrierHolds
BY InvImpliesHolds, BarrierInvariant, PTL

-----------------------------------------------------------------------------
(* The harness. *)

StartUp == {"inc_sync", "set_async", "push", "wait_ready", "set_lsb", "inc_ready",
            "wait_sync", "calibrate"}
Measuring == {"acquire", "hold", "count", "publish", "record", "pop"}
Labels == StartUp \cup Measuring \cup {"none", "exited"}

\* The threads created by the measurement the words belong to.
Started ==
    IF main = "create" THEN 0..(idx - 1)
    ELSE IF main \in {"arm", "install"} THEN {}
    ELSE Threads

HarnessTypeOK ==
    /\ main \in {"setup", "arm", "install", "create", "join", "end"}
    /\ idx \in 0..N /\ run \in 1..EXPERIMENTS
    /\ handler \in Threads \cup {NONE}
    /\ sync \in Nat /\ ready \in Nat
    /\ holder \in Threads \cup {NONE}
    /\ timed \in BOOLEAN
    /\ pc \in [Threads -> Labels]
    /\ pending \in [Threads -> BOOLEAN]
    /\ acquires \in [Threads -> Nat]
    /\ published \in [Threads -> Nat]
    /\ sections \in [Threads -> Nat]
    /\ results \in [Threads -> [run : Nat, acquires : Nat]]
    /\ \A t \in Threads : passed[t] <= BARRIERS

\* Threads run only while a measurement has them: setup finds all of them gone.
Phases ==
    /\ main \in {"arm", "install"} => idx = 0
    /\ \A t \in Threads :
          /\ t \notin Started \/ main = "setup" => pc[t] \in {"none", "exited"}
          /\ main = "join" /\ t < idx => pc[t] = "exited"

\* Who takes the marshal's steps and who the others'.
Roles ==
    \A t \in Threads :
        /\ pc[t] \in {"wait_ready", "set_lsb"} => t = 0
        /\ pc[t] \in {"inc_ready", "wait_sync"} => t # 0

\* The threads past the first step of hmr, and those that may have said so.
Past == {t \in Started : pc[t] \notin {"none", "inc_sync"}}
MaybeReady ==
    {t \in Started \ {0} :
        pc[t] \notin {"none", "inc_sync", "set_async", "push", "inc_ready"}}

SyncWord ==
    \E lsb \in {0, 1} :
        /\ sync = 2 * Cardinality(Past) + lsb
        /\ lsb = 1 => /\ Past = Threads
                      /\ pc[0] \notin {"wait_ready", "set_lsb", "set_async", "push"}

ReadyWord ==
    /\ ready <= Cardinality(MaybeReady)
    /\ pc[0] = "set_lsb" => Past = Threads

\* Acquisitions that a thread at the top of its loop has not published.
Unpublished(t) == IF timed THEN acquires[t] % INNER ELSE 0

Bounded(t) ==
    published[t] <= acquires[t] /\ acquires[t] <= sections[t] /\ sections[t] <= ACQUIRES

InLoop(t) ==
    /\ acquires[t] < ACQUIRES
    /\ acquires[t] = published[t] + Unpublished(t)

CountsOf(t) ==
    /\ t \notin Started \/ pc[t] \in StartUp \cup {"none"} =>
          acquires[t] = 0 /\ published[t] = 0 /\ sections[t] = 0
    /\ Bounded(t)
    /\ pc[t] \in {"acquire", "hold", "count"} =>
          /\ InLoop(t)
          /\ sections[t] = IF pc[t] = "count" THEN acquires[t] + 1 ELSE acquires[t]
    /\ pc[t] = "publish" =>
          /\ sections[t] = acquires[t]
          /\ Unpublished(t) = 0
          /\ acquires[t] - published[t] <= IF timed THEN INNER ELSE 1
    /\ pc[t] \in {"record", "pop"} =>
          /\ sections[t] = acquires[t] /\ published[t] = acquires[t]
          /\ ~timed => acquires[t] = ACQUIRES

Counts == \A t \in Threads : CountsOf(t)

\* The results of earlier measurements are not taken for this one's.
ResultsOf(t) ==
    /\ results[t].run <= run
    /\ t \notin Started \/ main = "setup" \/ pc[t] \notin {"pop", "exited"} =>
          results[t].run < run
    /\ pc[t] = "pop" => results[t] = [run |-> run, acquires |-> acquires[t]]

Results == \A t \in Threads : ResultsOf(t)

ExpInv ==
    /\ IInv
    /\ HarnessTypeOK
    /\ Phases
    /\ Roles
    /\ SyncWord
    /\ ReadyWord
    /\ Counts
    /\ Results
    /\ ReportedAcquires

ReportOf(t) ==
    pc[t] = "exited" /\ results[t].run = run =>
        /\ results[t].acquires <= sections[t]
        /\ sections[t] - results[t].acquires <= IF timed THEN INNER ELSE 1
        /\ ~pending[t] /\ ~timed => results[t].acquires = ACQUIRES

LEMMA ReportedAcquiresByThread == ReportedAcquires <=> \A t \in Threads : ReportOf(t)
BY DEF ReportedAcquires, ReportOf

-----------------------------------------------------------------------------
LEMMA Positive ==
    /\ N \in Nat \ {0} /\ BARRIERS \in Nat \ {0} /\ EXPERIMENTS \in Nat \ {0}
    /\ ACQUIRES \in Nat \ {0} /\ INNER \in Nat \ {0}
    /\ 0 \in Threads
BY ThreadCountAssumption, ExperimentAssumption DEF Threads

\* Remainders: what counting one more does to one.
LEMMA ModOf ==
    ASSUME NEW q \in Int, NEW m \in Nat \ {0}, NEW r \in 0..(m - 1)
    PROVE  (q * m + r) % m = r
BY SMT

LEMMA Divided ==
    ASSUME NEW a \in Nat, NEW m \in Nat \ {0}
    PROVE  \E q \in Nat, r \in 0..(m - 1) : a = q * m + r
<1>. DEFINE q == a \div m
<1>1. q \in Nat /\ q * m <= a
  BY SMT
<1>2. a < (q + 1) * m
  BY SMT
<1>. HIDE DEF q
<1>3. a - q * m \in 0..(m - 1) /\ a = q * m + (a - q * m)
  BY <1>1, <1>2, SMT
<1>. QED
  BY <1>1, <1>3

LEMMA ModStep ==
    ASSUME NEW a \in Nat, NEW m \in Nat \ {0}
    PROVE  /\ a % m \in 0..(m - 1)
           /\ (a + 1) % m = IF a % m = m - 1 THEN 0 ELSE (a % m) + 1
<1>1. PICK q \in Nat, r \in 0..(m - 1) : a = q * m + r
  BY Divided
<1>2. a % m = r
  BY <1>1, ModOf
<1>3. CASE r = m - 1
  <2>1. a + 1 = (q + 1) * m + 0
    BY <1>1, <1>3, SMT
  <2>2. ((q + 1) * m + 0) % m = 0
    BY ModOf
  <2>. QED
    BY <1>2, <1>3, <2>1, <2>2
<1>4. CASE r # m - 1
  <2>1. a + 1 = q * m + (r + 1) /\ r + 1 \in 0..(m - 1)
    BY <1>1, <1>4, SMT
  <2>2. (q * m + (r + 1)) % m = r + 1
    BY <2>1, ModOf
  <2>. QED
    BY <1>2, <1>4, <2>1, <2>2
<1>. QED
  BY <1>3, <1>4

LEMMA BarrierKept ==
    ASSUME IInv, UNCHANGED barrierVars
    PROVE  IInv'
BY StepInv

\* A subset of the threads is finite and its size says whether it is all of them.
LEMMA SubsetSize ==
    ASSUME NEW S \in SUBSET Threads
    PROVE  /\ IsFiniteSet(S) /\ Cardinality(S) \in Nat /\ Cardinality(S) <= N
           /\ Cardinality(S) = N => S = Threads
BY ThreadsFinite, FS_Subset, FS_CardinalityType

\* A step of t keeps what is known of another thread.
LEMMA OthersKept ==
    ASSUME ExpInv, NEW t \in Threads, NEW u \in Threads \ {t},
           UNCHANGED <<main, idx, run, timed>>,
           pc'[u] = pc[u], pending'[u] = pending[u], acquires'[u] = acquires[u],
           published'[u] = published[u], sections'[u] = sections[u],
           results'[u] = results[u]
    PROVE  CountsOf(u)' /\ ResultsOf(u)' /\ ReportOf(u)'
<1>1. Started' = Started
  BY DEF Started
<1>2. CountsOf(u) /\ ResultsOf(u) /\ ReportOf(u)
  BY ReportedAcquiresByThread DEF ExpInv, Counts, Results
<1>3. CountsOf(u)'
  <2>1. Unpublished(u)' = Unpublished(u)
    BY DEF Unpublished
  <2>. QED
    BY <1>1, <1>2, <2>1 DEF CountsOf, Bounded, InLoop
<1>4. ResultsOf(u)'
  BY <1>1, <1>2 DEF ResultsOf
<1>5. ReportOf(u)'
  BY <1>2 DEF ReportOf
<1>. QED
  BY <1>3, <1>4, <1>5

\* Moves of hmr's pc that count, publish and record nothing.
QuietMove(from, to) ==
    \/ from \in StartUp /\ to \in StartUp \cup {"exited"}
    \/ from = "calibrate" /\ to = "acquire"
    \/ from = "acquire" /\ to = "hold"
    \/ from = "pop" /\ to = "exited"

LEMMA QuietKept ==
    ASSUME ExpInv, NEW t \in Threads, NEW l, Goto(t, l), QuietMove(pc[t], l),
           UNCHANGED <<main, idx, run, timed, pending, acquires, published, sections, results>>
    PROVE  Counts' /\ Results' /\ ReportedAcquires'
<1>1. Started' = Started
  BY DEF Started
<1>2. CountsOf(t) /\ ResultsOf(t) /\ ReportOf(t)
  BY ReportedAcquiresByThread DEF ExpInv, Counts, Results
<1>3. pc'[t] = l /\ \A u \in Threads \ {t} : pc'[u] = pc[u]
  BY DEF Goto, ExpInv, HarnessTypeOK
<1>4. /\ acquires[t] \in Nat /\ published[t] \in Nat /\ sections[t] \in Nat
      /\ run \in Nat /\ results[t].run \in Nat /\ results[t].acquires \in Nat
      /\ timed \in BOOLEAN
  BY DEF ExpInv, HarnessTypeOK
<1>5. CountsOf(t)'
  <2>1. 0 % INNER = 0
    BY Positive, SMT
  <2>2. acquires[t] = 0 => Unpublished(t)' = 0
    BY <2>1 DEF Unpublished
  <2>3. Unpublished(t)' = Unpublished(t)
    BY DEF Unpublished
  <2>. QED
    BY <1>1, <1>2, <1>3, <1>4, <2>2, <2>3, Positive
       DEF CountsOf, Bounded, InLoop, QuietMove, StartUp
<1>6. ResultsOf(t)'
  BY <1>1, <1>2, <1>3, <1>4 DEF ResultsOf, QuietMove, StartUp
<1>7. ReportOf(t)'
  BY <1>2, <1>3, <1>4, Positive DEF ReportOf, ResultsOf, CountsOf, QuietMove, StartUp
<1>8. \A u \in Threads \ {t} : CountsOf(u)' /\ ResultsOf(u)' /\ ReportOf(u)'
  BY <1>3, OthersKept
<1>9. \A u \in Threads : CountsOf(u)' /\ ResultsOf(u)' /\ ReportOf(u)'
  BY <1>5, <1>6, <1>7, <1>8
<1>10. ReportedAcquires'
  BY <1>9 DEF ReportedAcquires, ReportOf
<1>. QED
  BY <1>9, <1>10 DEF Counts, Results

\* A thread that runs is one of this measurement's, and where the others and the
\* main thread are does not depend on where it goes.
LEMMA MoveKeepsPhases ==
    ASSUME ExpInv, NEW t \in Threads, pc[t] \notin {"none", "exited"},
           NEW l \in Labels \ {"none"}, Goto(t, l), UNCHANGED <<main, idx>>,
           l \in {"wait_ready", "set_lsb"} => t = 0,
           l \in {"inc_ready", "wait_sync"} => t # 0
    PROVE  /\ t \in Started /\ Started' = Started
           /\ pc' \in [Threads -> Labels]
           /\ Phases' /\ Roles'
<1>1. t \in Started /\ Started' = Started
  BY DEF ExpInv, Phases, Started
<1>2. pc' \in [Threads -> Labels]
  BY DEF ExpInv, HarnessTypeOK, Goto
<1>3. Phases'
  BY <1>1 DEF ExpInv, Phases, HarnessTypeOK, Goto
<1>4. Roles'
  BY DEF ExpInv, Roles, HarnessTypeOK, Goto
<1>. QED
  BY <1>1, <1>2, <1>3, <1>4

LEMMA StartedThreads == ExpInv => /\ Started \subseteq Threads
                                  /\ Past \subseteq Threads
                                  /\ MaybeReady \subseteq Threads \ {0}
<1>. SUFFICES ASSUME ExpInv PROVE Started \subseteq Threads
  BY DEF Past, MaybeReady
<1>. QED
  BY Positive DEF ExpInv, HarnessTypeOK, Started, Threads

\* Moves after the first step that leave both words alone.
LEMMA WordsKept ==
    ASSUME ExpInv, NEW t \in Threads, pc[t] \notin {"none", "inc_sync", "exited"},
           NEW l \in Labels \ {"none", "inc_sync", "set_async", "set_lsb"}, Goto(t, l),
           UNCHANGED <<main, idx, sync, ready>>,
           l \in {"push", "inc_ready", "wait_ready"} => pc[t] \in {"set_async", "push"}
    PROVE  SyncWord' /\ ReadyWord'
<1>1. t \in Started /\ Started' = Started
  BY DEF ExpInv, Phases, Started
<1>2. Past' = Past
  BY <1>1 DEF Past, Goto, ExpInv, HarnessTypeOK
<1>3. MaybeReady \subseteq MaybeReady'
  BY <1>1 DEF MaybeReady, Goto, ExpInv, HarnessTypeOK
<1>4. MaybeReady' \in SUBSET Threads
  BY <1>1, StartedThreads DEF MaybeReady
<1>5. Cardinality(MaybeReady) <= Cardinality(MaybeReady')
  BY <1>3, <1>4, SubsetSize, FS_Subset
<1>6. SyncWord'
  BY <1>2 DEF SyncWord, Goto, ExpInv, HarnessTypeOK
<1>7. ReadyWord'
  <2>1. ready' <= Cardinality(MaybeReady')
    <3>1. Cardinality(MaybeReady) \in Nat /\ Cardinality(MaybeReady') \in Nat /\ ready \in Nat
      BY <1>3, <1>4, SubsetSize DEF ExpInv, HarnessTypeOK
    <3>. QED
      BY <1>5, <3>1 DEF ReadyWord, ExpInv
  <2>2. pc'[0] = "set_lsb" => Past' = Threads
    BY <1>2, Positive DEF ReadyWord, Goto, ExpInv, HarnessTypeOK
  <2>. QED
    BY <2>1, <2>2 DEF ReadyWord
<1>. QED
  BY <1>6, <1>7

-----------------------------------------------------------------------------
(* The steps of hmr(). *)

LEMMA IncSyncInv ==
    ASSUME ExpInv, NEW t \in Threads, IncSync(t)
    PROVE  ExpInv'
<1>1. IInv'
  BY BarrierKept DEF ExpInv, IncSync
<1>2. /\ t \in Started /\ Started' = Started
      /\ pc' \in [Threads -> Labels] /\ Phases' /\ Roles'
  BY MoveKeepsPhases DEF IncSync, At, mainVars, Labels, StartUp
<1>3. HarnessTypeOK'
  BY <1>2 DEF ExpInv, HarnessTypeOK, IncSync, mainVars, barrierVars
<1>4. t \notin Past /\ Past' = Past \cup {t}
  BY <1>2 DEF Past, IncSync, At, Goto, ExpInv, HarnessTypeOK
<1>5. SyncWord'
  <2>1. Cardinality(Past) \in Nat /\ Cardinality(Past') = Cardinality(Past) + 1
    BY <1>4, StartedThreads, SubsetSize, FS_AddElement
  <2>2. sync = 2 * Cardinality(Past) + 0
    BY <1>4 DEF ExpInv, SyncWord
  <2>3. sync' = 2 * Cardinality(Past') + 0
    BY <2>1, <2>2 DEF IncSync
  <2>. QED
    BY <2>3 DEF SyncWord
<1>6. ReadyWord'
  <2>1. MaybeReady' = MaybeReady
    BY <1>2 DEF MaybeReady, IncSync, At, Goto, ExpInv, HarnessTypeOK
  <2>2. pc'[0] = "set_lsb" => pc[0] = "set_lsb"
    BY Positive DEF IncSync, Goto, ExpInv, HarnessTypeOK
  <2>. QED
    BY <1>4, <2>1, <2>2, StartedThreads DEF ReadyWord, IncSync, ExpInv
<1>7. Counts' /\ Results' /\ ReportedAcquires'
  BY QuietKept DEF IncSync, At, mainVars, QuietMove, StartUp
<1>. QED
  BY <1>1, <1>2, <1>3, <1>5, <1>6, <1>7 DEF ExpInv

\* A step that only moves a thread past its first step, and perhaps the lock.
LEMMA QuietStepInv ==
    ASSUME ExpInv, NEW t \in Threads, pc[t] \notin {"none", "inc_sync", "exited"},
           NEW l \in Labels \ {"none", "inc_sync", "set_async", "set_lsb"}, Goto(t, l),
           QuietMove(pc[t], l),
           l \in {"push", "inc_ready", "wait_ready"} => pc[t] \in {"set_async", "push"},
           l = "wait_ready" => t = 0, l \in {"inc_ready", "wait_sync"} => t # 0,
           UNCHANGED <<mainVars, barrierVars, sync, ready, timed, pending, acquires,
                       published, results, sections>>,
           holder' \in Threads \cup {NONE}
    PROVE  ExpInv'
<1>1. IInv'
  BY BarrierKept DEF ExpInv
<1>2. pc' \in [Threads -> Labels] /\ Phases' /\ Roles'
  BY MoveKeepsPhases DEF mainVars
<1>3. HarnessTypeOK'
  BY <1>2 DEF ExpInv, HarnessTypeOK, mainVars, barrierVars
<1>4. SyncWord' /\ ReadyWord'
  BY WordsKept DEF mainVars
<1>5. Counts' /\ Results' /\ ReportedAcquires'
  BY QuietKept DEF mainVars
<1>. QED
  BY <1>1, <1>2, <1>3, <1>4, <1>5 DEF ExpInv

LEMMA MovesInv ==
    ASSUME ExpInv, NEW t \in Threads,
           \/ SetAsync(t) \/ Push(t) \/ WaitSync(t) \/ StartMeasuring(t)
           \/ Acquire(t) \/ Pop(t) \/ CancelledBeforePush(t)
    PROVE  ExpInv'
<1>. USE DEF At, QuietMove, Labels, StartUp, Measuring
<1>0. holder \in Threads \cup {NONE}
  BY DEF ExpInv, HarnessTypeOK
<1>1. CASE SetAsync(t)
  BY <1>0, <1>1, QuietStepInv DEF SetAsync
<1>2. CASE Push(t)
  BY <1>0, <1>2, QuietStepInv DEF Push
<1>3. CASE WaitSync(t)
  BY <1>0, <1>3, QuietStepInv DEF WaitSync
<1>4. CASE StartMeasuring(t)
  BY <1>0, <1>4, QuietStepInv DEF StartMeasuring
<1>5. CASE Acquire(t)
  BY <1>0, <1>5, QuietStepInv DEF Acquire
<1>6. CASE Pop(t)
  BY <1>0, <1>6, QuietStepInv DEF Pop
<1>7. CASE CancelledBeforePush(t)
  BY <1>0, <1>7, QuietStepInv DEF CancelledBeforePush
<1>. QED
  BY <1>1, <1>2, <1>3, <1>4, <1>5, <1>6, <1>7

\* The marshal has seen N - 1 threads ready, which are all the others.
LEMMA WaitReadyInv ==
    ASSUME ExpInv, NEW t \in Threads, WaitReady(t)
    PROVE  ExpInv'
<1>1. IInv'
  BY BarrierKept DEF ExpInv, WaitReady
<1>2. t = 0
  BY DEF ExpInv, Roles, WaitReady, At
<1>3. /\ t \in Started /\ Started' = Started
      /\ pc' \in [Threads -> Labels] /\ Phases' /\ Roles'
  BY <1>2, MoveKeepsPhases DEF WaitReady, At, mainVars, Labels, StartUp
<1>4. HarnessTypeOK'
  BY <1>3 DEF ExpInv, HarnessTypeOK, WaitReady, mainVars, barrierVars
<1>5. Past' = Past /\ MaybeReady' = MaybeReady
  BY <1>2, <1>3 DEF Past, MaybeReady, WaitReady, At, Goto, ExpInv, HarnessTypeOK
<1>6. Past = Threads
  <2>1. MaybeReady \subseteq Threads \ {0}
    BY StartedThreads
  <2>2. IsFiniteSet(Threads \ {0}) /\ Cardinality(Threads \ {0}) = N - 1
    BY ThreadsFinite, Positive, FS_RemoveElement
  <2>3. Cardinality(MaybeReady) >= N - 1
    BY DEF ExpInv, ReadyWord, WaitReady
  <2>4. Cardinality(MaybeReady) <= N - 1 /\ Cardinality(MaybeReady) \in Nat
    BY <2>1, <2>2, FS_Subset, FS_CardinalityType
  <2>5. MaybeReady = Threads \ {0}
    BY <2>1, <2>2, <2>3, <2>4, FS_Subset, Positive
  <2>6. MaybeReady \subseteq Past /\ 0 \in Past
    BY <1>2, <1>3 DEF MaybeReady, Past, WaitReady, At
  <2>. QED
    BY <2>5, <2>6, StartedThreads
<1>7. SyncWord'
  BY <1>2, <1>5 DEF SyncWord, WaitReady, At, Goto, ExpInv, HarnessTypeOK
<1>8. ReadyWord'
  BY <1>5, <1>6 DEF ReadyWord, WaitReady, ExpInv
<1>9. Counts' /\ Results' /\ ReportedAcquires'
  BY QuietKept DEF WaitReady, At, mainVars, QuietMove, StartUp
<1>. QED
  BY <1>1, <1>3, <1>4, <1>7, <1>8, <1>9 DEF ExpInv

LEMMA SetLsbInv ==
    ASSUME ExpInv, NEW t \in Threads, SetLsb(t)
    PROVE  ExpInv'
<1>1. IInv'
  BY BarrierKept DEF ExpInv, SetLsb
<1>2. t = 0
  BY DEF ExpInv, Roles, SetLsb, At
<1>3. /\ t \in Started /\ Started' = Started
      /\ pc' \in [Threads -> Labels] /\ Phases' /\ Roles'
  BY MoveKeepsPhases DEF SetLsb, At, mainVars, Labels, StartUp
<1>4. HarnessTypeOK'
  BY <1>3 DEF ExpInv, HarnessTypeOK, SetLsb, mainVars, barrierVars
<1>5. Past' = Past /\ MaybeReady' = MaybeReady /\ Past = Threads
  BY <1>2, <1>3 DEF Past, MaybeReady, SetLsb, At, Goto, ExpInv, HarnessTypeOK, ReadyWord
<1>6. SyncWord'
  <2>1. sync = 2 * Cardinality(Past) + 0 /\ Cardinality(Past) \in Nat
    BY <1>2, StartedThreads, SubsetSize DEF ExpInv, SyncWord, SetLsb, At
  <2>2. sync' = 2 * Cardinality(Past') + 1
    BY <1>5, <2>1 DEF SetLsb
  <2>3. pc'[0] \notin {"wait_ready", "set_lsb", "set_async", "push"}
    BY <1>2 DEF SetLsb, Goto, ExpInv, HarnessTypeOK
  <2>. QED
    BY <1>5, <2>2, <2>3 DEF SyncWord
<1>7. ReadyWord'
  BY <1>5 DEF ReadyWord, SetLsb, ExpInv
<1>8. Counts' /\ Results' /\ ReportedAcquires'
  BY QuietKept DEF SetLsb, At, mainVars, QuietMove, StartUp
<1>. QED
  BY <1>1, <1>3, <1>4, <1>6, <1>7, <1>8 DEF ExpInv

LEMMA IncReadyInv ==
    ASSUME ExpInv, NEW t \in Threads, IncReady(t)
    PROVE  ExpInv'
<1>1. IInv'
  BY BarrierKept DEF ExpInv, IncReady
<1>2. t # 0
  BY DEF ExpInv, Roles, IncReady, At
<1>3. /\ t \in Started /\ Started' = Started
      /\ pc' \in [Threads -> Labels] /\ Phases' /\ Roles'
  BY <1>2, MoveKeepsPhases DEF IncReady, At, mainVars, Labels, StartUp
<1>4. HarnessTypeOK'
  BY <1>3 DEF ExpInv, HarnessTypeOK, IncReady, mainVars, barrierVars
<1>5. Past' = Past /\ t \notin MaybeReady /\ MaybeReady' = MaybeReady \cup {t}
  BY <1>2, <1>3 DEF Past, MaybeReady, IncReady, At, Goto, ExpInv, HarnessTypeOK
<1>6. SyncWord'
  BY <1>2, <1>5 DEF SyncWord, IncReady, Goto, ExpInv, HarnessTypeOK
<1>7. ReadyWord'
  <2>1. /\ Cardinality(MaybeReady) \in Nat
        /\ Cardinality(MaybeReady') = Cardinality(MaybeReady) + 1
    BY <1>5, StartedThreads, SubsetSize, FS_AddElement
  <2>2. ready' <= Cardinality(MaybeReady')
    BY <2>1 DEF IncReady, ReadyWord, ExpInv, HarnessTypeOK
  <2>3. pc'[0] = "set_lsb" => pc[0] = "set_lsb"
    BY <1>2 DEF IncReady, Goto, ExpInv, HarnessTypeOK
  <2>. QED
    BY <1>5, <2>2, <2>3 DEF ReadyWord, ExpInv
<1>8. Counts' /\ Results' /\ ReportedAcquires'
  BY QuietKept DEF IncReady, At, mainVars, QuietMove, StartUp
<1>. QED
  BY <1>1, <1>3, <1>4, <1>6, <1>7, <1>8 DEF ExpInv

LEMMA CalibrateInv ==
    ASSUME ExpInv, NEW t \in Threads, Calibrate(t)
    PROVE  ExpInv'
<1>. USE DEF Calibrate, mainVars, hmrVars
<1>1. IInv'
  BY ReadSenseInv, ArriveInv, OpenInv, WaitSenseInv DEF ExpInv
<1>2. \A u \in Threads : passed'[u] <= BARRIERS
  <2>1. passed \in [Threads -> Nat] /\ \A u \in Threads : passed[u] <= BARRIERS
    BY DEF ExpInv, HarnessTypeOK, IInv, BarrierTypeOK
  <2>2. passed' = passed \/ passed' = [passed EXCEPT ![t] = @ + 1]
    BY DEF ReadSense, Arrive, Open, WaitSense
  <2>. QED
    BY <2>1, <2>2, Positive
<1>3. Started' = Started
  BY DEF Started
<1>4. HarnessTypeOK' /\ Phases' /\ Roles'
  BY <1>2, <1>3, Zenon DEF ExpInv, HarnessTypeOK, Phases, Roles
<1>5. Past' = Past /\ MaybeReady' = MaybeReady
  BY <1>3, Zenon DEF Past, MaybeReady
<1>6. SyncWord' /\ ReadyWord'
  BY <1>5, Zenon DEF ExpInv, SyncWord, ReadyWord
<1>7. Counts' /\ Results' /\ ReportedAcquires'
  BY <1>3, Zenon
     DEF ExpInv, Counts, CountsOf, Bounded, InLoop, Unpublished, Results, ResultsOf, ReportedAcquires
<1>. QED
  BY <1>1, <1>4, <1>6, <1>7 DEF ExpInv

-----------------------------------------------------------------------------

\* A step of one thread that counts, publishes or records: what is left to show is
\* about that thread alone.
LEMMA CountingStepInv ==
    ASSUME ExpInv, NEW t \in Threads, pc[t] \notin {"none", "inc_sync", "exited"},
           NEW l \in Measuring \cup {"exited"}, Goto(t, l),
           UNCHANGED <<mainVars, barrierVars, sync, ready, timed, pending>>,
           holder' \in Threads \cup {NONE},
           acquires' \in [Threads -> Nat], published' \in [Threads -> Nat],
           sections' \in [Threads -> Nat],
           results' \in [Threads -> [run : Nat, acquires : Nat]],
           \A u \in Threads \ {t} :
               /\ acquires'[u] = acquires[u] /\ published'[u] = published[u]
               /\ sections'[u] = sections[u] /\ results'[u] = results[u],
           CountsOf(t)', ResultsOf(t)', ReportOf(t)'
    PROVE  ExpInv'
<1>. USE DEF mainVars, Measuring
<1>1. IInv'
  BY BarrierKept DEF ExpInv
<1>2. pc' \in [Threads -> Labels] /\ Phases' /\ Roles'
  BY MoveKeepsPhases DEF Labels
<1>3. HarnessTypeOK'
  BY <1>2 DEF ExpInv, HarnessTypeOK, barrierVars
<1>4. SyncWord' /\ ReadyWord'
  BY WordsKept DEF Labels
<1>5. \A u \in Threads \ {t} : CountsOf(u)' /\ ResultsOf(u)' /\ ReportOf(u)'
  <2>1. \A u \in Threads \ {t} : pc'[u] = pc[u]
    BY DEF Goto, ExpInv, HarnessTypeOK
  <2>. QED
    BY <2>1, OthersKept
<1>6. \A u \in Threads : CountsOf(u)' /\ ResultsOf(u)' /\ ReportOf(u)'
  BY <1>5
<1>7. ReportedAcquires'
  BY <1>6 DEF ReportedAcquires, ReportOf
<1>. QED
  BY <1>1, <1>2, <1>3, <1>4, <1>6, <1>7 DEF ExpInv, Counts, Results

\* What is known of the thread that moves, with the types of its counters.
LEMMA OwnCounts ==
    ASSUME ExpInv, NEW t \in Threads
    PROVE  /\ CountsOf(t) /\ ResultsOf(t) /\ ReportOf(t)
           /\ acquires[t] \in Nat /\ published[t] \in Nat /\ sections[t] \in Nat
           /\ run \in Nat /\ results[t].run \in Nat /\ results[t].acquires \in Nat
           /\ timed \in BOOLEAN /\ pending[t] \in BOOLEAN
           /\ holder \in Threads \cup {NONE}
BY ReportedAcquiresByThread DEF ExpInv, HarnessTypeOK, Counts, Results

\* What CountsOf says where the thread goes.
LEMMA CountsThere ==
    ASSUME NEW t \in Threads, t \in Started', Bounded(t)'
    PROVE  /\ pc'[t] = "count" /\ InLoop(t)' /\ sections'[t] = acquires'[t] + 1 => CountsOf(t)'
           /\ pc'[t] = "acquire" /\ InLoop(t)' /\ sections'[t] = acquires'[t] => CountsOf(t)'
           /\ /\ pc'[t] \in {"record", "pop"} /\ sections'[t] = acquires'[t]
              /\ published'[t] = acquires'[t] /\ (~timed' => acquires'[t] = ACQUIRES)
              => CountsOf(t)'
           /\ pc'[t] = "exited" => CountsOf(t)'
<1>1. pc'[t] \in {"count", "acquire", "record", "pop", "exited"} =>
          pc'[t] \notin StartUp \cup {"none"}
  BY DEF StartUp
<1>. QED
  BY <1>1 DEF CountsOf

\* A thread that stays in its loop has no result of this measurement yet.
LEMMA NoResultYet ==
    ASSUME ExpInv, NEW t \in Threads, t \in Started', main' # "setup",
           pc[t] \notin {"pop", "exited"}, pc'[t] \notin {"pop", "exited"},
           results'[t] = results[t], run' = run
    PROVE  ResultsOf(t)' /\ ReportOf(t)'
<1>1. results[t].run < run /\ results[t].run <= run
  BY OwnCounts, Zenon DEF ResultsOf
<1>. QED
  BY <1>1 DEF ResultsOf, ReportOf

LEMMA ReleaseInv ==
    ASSUME ExpInv, NEW t \in Threads, Release(t)
    PROVE  ExpInv'
<1>0. /\ Bounded(t) /\ InLoop(t) /\ sections[t] = acquires[t]
      /\ sections[t] \in Nat /\ published[t] \in Nat /\ ACQUIRES \in Nat
  <2>1. pc[t] = "hold"
    BY DEF Release, At
  <2>. QED
    BY <2>1, OwnCounts, Positive DEF CountsOf
<1>1. /\ pc'[t] = "count" /\ sections'[t] = sections[t] + 1
      /\ sections' \in [Threads -> Nat]
      /\ \A u \in Threads \ {t} : sections'[u] = sections[u]
  BY DEF Release, Goto, ExpInv, HarnessTypeOK
<1>2. /\ Started' = Started /\ t \in Started /\ main' = main /\ main # "setup"
      /\ pc[t] = "hold" /\ results'[t] = results[t] /\ run' = run
      /\ published'[t] = published[t] /\ acquires'[t] = acquires[t]
      /\ Unpublished(t)' = Unpublished(t)
  BY DEF Release, At, Started, mainVars, ExpInv, Phases, Unpublished
<1>3. CountsOf(t)'
  <2>1. InLoop(t)'
    BY <1>0, <1>2 DEF InLoop
  <2>2. sections'[t] = acquires'[t] + 1
    BY <1>0, <1>1, <1>2
  <2>3. /\ published[t] <= acquires[t] /\ acquires[t] < ACQUIRES
        /\ acquires[t] \in Nat /\ ACQUIRES \in Nat
    BY <1>0 DEF Bounded, InLoop
  <2>4. acquires[t] <= acquires[t] + 1 /\ acquires[t] + 1 <= ACQUIRES
    BY <2>3
  <2>5. Bounded(t)'
    BY <1>2, <2>2, <2>3, <2>4 DEF Bounded
  <2>. QED
    BY <1>1, <1>2, <2>1, <2>2, <2>5, CountsThere
<1>4. ResultsOf(t)' /\ ReportOf(t)'
  BY <1>1, <1>2, NoResultYet, Zenon
<1>. QED
  BY <1>1, <1>3, <1>4, CountingStepInv DEF Release, At, Measuring, ExpInv, HarnessTypeOK

\* ACQUIRES is a multiple of INNER, so the bound is not met inside the inner loop.
LEMMA CountInv ==
    ASSUME ExpInv, NEW t \in Threads, Count(t)
    PROVE  ExpInv'
<1>0. /\ CountsOf(t) /\ ResultsOf(t) /\ ReportOf(t)
      /\ acquires[t] \in Nat /\ published[t] \in Nat /\ sections[t] \in Nat
      /\ run \in Nat /\ results[t].run \in Nat /\ results[t].acquires \in Nat
      /\ timed \in BOOLEAN /\ pending[t] \in BOOLEAN
      /\ holder \in Threads \cup {NONE}
  BY OwnCounts
<1>. USE DEF Count, At
<1>. DEFINE a == acquires[t]
            l == IF timed /\ (a + 1) % INNER # 0 THEN "acquire" ELSE "publish"
<1>1. /\ acquires'[t] = a + 1
      /\ acquires' \in [Threads -> Nat]
      /\ \A u \in Threads \ {t} : acquires'[u] = acquires[u]
  BY DEF ExpInv, HarnessTypeOK
<1>2. Goto(t, l) /\ pc'[t] = l
  BY <1>1 DEF Goto, ExpInv, HarnessTypeOK
<1>3. Started' = Started /\ t \in Started
  BY DEF Started, mainVars, ExpInv, Phases
<1>4. /\ a % INNER \in 0..(INNER - 1)
      /\ (a + 1) % INNER = IF a % INNER = INNER - 1 THEN 0 ELSE (a % INNER) + 1
  BY <1>0, Positive, ModStep, Zenon
<1>5. a + 1 = ACQUIRES => (a + 1) % INNER = 0
  BY ExperimentAssumption
<1>6. CountsOf(t)'
  <2>. DEFINE p == published[t]
              m == a % INNER
              n == (a + 1) % INNER
  <2>1. /\ a < ACQUIRES /\ sections[t] = a + 1 /\ a \in Nat /\ p \in Nat
        /\ a = p + IF timed THEN m ELSE 0
    BY <1>0 DEF CountsOf, Bounded, InLoop, Unpublished
  <2>2. /\ sections'[t] = a + 1 /\ published'[t] = p /\ timed' = timed
        /\ acquires'[t] % INNER = n
    BY <1>1, <2>1
  <2>3. m \in 0..(INNER - 1) /\ n = IF m = INNER - 1 THEN 0 ELSE m + 1
    BY <1>4
  <2>4. a + 1 = ACQUIRES => n = 0
    BY <1>5
  <2>5. pc'[t] = IF timed /\ n # 0 THEN "acquire" ELSE "publish"
    BY <1>2
  <2>6. CountsOf(t)' <=>
          /\ p <= a + 1 /\ a + 1 <= ACQUIRES
          /\ timed /\ n # 0 => a + 1 < ACQUIRES /\ a + 1 = p + n
          /\ ~(timed /\ n # 0) => (timed => n = 0)
          /\ ~(timed /\ n # 0) => a + 1 - p <= IF timed THEN INNER ELSE 1
    <3>. HIDE DEF p, m, n, a
    <3>. QED
      BY <1>1, <1>3, <2>1, <2>2, <2>5 DEF CountsOf, Bounded, InLoop, Unpublished, StartUp
  <2>. HIDE DEF p, m, n, a
  <2>. QED
    BY <2>1, <2>3, <2>4, <2>6, Positive
<1>7. ResultsOf(t)' /\ ReportOf(t)'
  BY <1>2, <1>3, <1>0, Zenon DEF ResultsOf, ReportOf, mainVars
<1>. QED
  BY <1>1, <1>2, <1>6, <1>7, <1>0, CountingStepInv
     DEF Measuring, ExpInv, HarnessTypeOK

LEMMA PublishInv ==
    ASSUME ExpInv, NEW t \in Threads, Publish(t)
    PROVE  ExpInv'
<1>0. /\ Bounded(t) /\ sections[t] = acquires[t] /\ Unpublished(t) = 0
      /\ acquires[t] \in Nat /\ ACQUIRES \in Nat /\ holder \in Threads \cup {NONE}
  <2>1. pc[t] = "publish"
    BY DEF Publish, At
  <2>. QED
    BY <2>1, OwnCounts, Positive DEF CountsOf
<1>1. /\ published'[t] = acquires[t]
      /\ published' \in [Threads -> Nat]
      /\ \A u \in Threads \ {t} : published'[u] = published[u]
  BY DEF Publish, ExpInv, HarnessTypeOK
<1>2. PICK l \in {"record", "acquire"} :
          /\ Goto(t, l) /\ pc'[t] = l
          /\ l = "record" => timed \/ acquires[t] = ACQUIRES
          /\ l = "acquire" => acquires[t] < ACQUIRES
  BY DEF Publish, Goto, ExpInv, HarnessTypeOK
<1>3. /\ Started' = Started /\ t \in Started /\ main' = main /\ main # "setup"
      /\ pc[t] = "publish" /\ results'[t] = results[t] /\ run' = run /\ timed' = timed
      /\ sections'[t] = sections[t] /\ acquires'[t] = acquires[t]
      /\ Unpublished(t)' = Unpublished(t)
  BY DEF Publish, At, Started, mainVars, ExpInv, Phases, Unpublished
<1>4. CountsOf(t)'
  <2>1. Bounded(t)' /\ (acquires[t] < ACQUIRES => InLoop(t)')
    BY <1>0, <1>1, <1>3 DEF Bounded, InLoop
  <2>. QED
    BY <1>0, <1>1, <1>2, <1>3, <2>1, CountsThere
<1>5. ResultsOf(t)' /\ ReportOf(t)'
  BY <1>2, <1>3, NoResultYet, Zenon
<1>. QED
  BY <1>0, <1>1, <1>2, <1>4, <1>5, CountingStepInv
     DEF Publish, At, Measuring, ExpInv, HarnessTypeOK

LEMMA RecordInv ==
    ASSUME ExpInv, NEW t \in Threads, Record(t)
    PROVE  ExpInv'
<1>0. /\ Bounded(t) /\ sections[t] = acquires[t] /\ published[t] = acquires[t]
      /\ ~timed => acquires[t] = ACQUIRES
      /\ acquires[t] \in Nat /\ run \in Nat /\ holder \in Threads \cup {NONE}
  <2>1. pc[t] = "record"
    BY DEF Record, At
  <2>. QED
    BY <2>1, OwnCounts DEF CountsOf
<1>1. /\ results'[t] = [run |-> run, acquires |-> acquires[t]]
      /\ results' \in [Threads -> [run : Nat, acquires : Nat]]
      /\ \A u \in Threads \ {t} : results'[u] = results[u]
  BY <1>0 DEF Record, ExpInv, HarnessTypeOK
<1>2. pc'[t] = "pop"
  BY DEF Record, Goto, ExpInv, HarnessTypeOK
<1>3. /\ Started' = Started /\ t \in Started /\ main' = main /\ main # "setup"
      /\ run' = run /\ timed' = timed /\ sections'[t] = sections[t]
      /\ acquires'[t] = acquires[t] /\ published'[t] = published[t]
  BY DEF Record, At, Started, mainVars, ExpInv, Phases
<1>4. CountsOf(t)'
  <2>1. Bounded(t)'
    BY <1>0, <1>3 DEF Bounded
  <2>. QED
    BY <1>0, <1>2, <1>3, <2>1, CountsThere
<1>5. ResultsOf(t)' /\ ReportOf(t)'
  BY <1>0, <1>1, <1>2, <1>3 DEF ResultsOf, ReportOf
<1>. QED
  BY <1>0, <1>1, <1>4, <1>5, CountingStepInv, Zenon
     DEF Record, At, Measuring, ExpInv, HarnessTypeOK

\* Wherever a cancellation finds a thread, it has published all its acquisitions but
\* those of one round of the inner loop.
LEMMA FewUnpublished ==
    ASSUME ExpInv, NEW t \in Threads, pc[t] \in StartUp \cup Measuring
    PROVE  sections[t] - published[t] <= IF timed THEN INNER ELSE 1
<1>1. Unpublished(t) \in Nat /\ Unpublished(t) <= IF timed THEN INNER - 1 ELSE 0
  <2>1. acquires[t] % INNER \in 0..(INNER - 1)
    BY OwnCounts, Positive, ModStep
  <2>. QED
    BY <2>1, Positive DEF Unpublished
<1>2. INNER \in Nat \ {0}
  BY Positive
<1>3. /\ CountsOf(t) /\ timed \in BOOLEAN
      /\ acquires[t] \in Nat /\ published[t] \in Nat /\ sections[t] \in Nat
  BY OwnCounts
<1>4. CASE pc[t] \in StartUp
  BY <1>2, <1>3, <1>4 DEF CountsOf
<1>5. CASE pc[t] \in {"acquire", "hold", "count"}
  <2>1. /\ acquires[t] = published[t] + Unpublished(t)
        /\ sections[t] <= acquires[t] + 1
    BY <1>3, <1>5 DEF CountsOf, InLoop
  <2>. QED
    BY <1>1, <1>2, <1>3, <2>1
<1>6. CASE pc[t] \in {"publish", "record", "pop"}
  <2>1. /\ sections[t] = acquires[t]
        /\ acquires[t] - published[t] <= IF timed THEN INNER ELSE 1
    BY <1>2, <1>3, <1>6 DEF CountsOf
  <2>. QED
    BY <2>1
<1>. QED
  BY <1>4, <1>5, <1>6 DEF Measuring

LEMMA CancelledInv ==
    ASSUME ExpInv, NEW t \in Threads, Cancelled(t)
    PROVE  ExpInv'
<1>0. /\ Bounded(t) /\ run \in Nat /\ holder \in Threads \cup {NONE}
      /\ acquires[t] \in Nat /\ published[t] \in Nat /\ sections[t] \in Nat
      /\ timed \in BOOLEAN
  BY OwnCounts DEF CountsOf
<1>1. /\ results'[t] = [run |-> run, acquires |-> published[t]]
      /\ results' \in [Threads -> [run : Nat, acquires : Nat]]
      /\ \A u \in Threads \ {t} : results'[u] = results[u]
  BY <1>0 DEF Cancelled, ExpInv, HarnessTypeOK
<1>2. pc'[t] = "exited"
  BY DEF Cancelled, Goto, ExpInv, HarnessTypeOK
<1>3. /\ Started' = Started /\ t \in Started /\ main' = main /\ main # "setup"
      /\ run' = run /\ timed' = timed /\ sections'[t] = sections[t] /\ pending'[t]
      /\ acquires'[t] = acquires[t] /\ published'[t] = published[t]
  BY DEF Cancelled, Uncancellable, Started, mainVars, ExpInv, Phases
<1>4. CountsOf(t)'
  <2>1. Bounded(t)'
    BY <1>0, <1>3 DEF Bounded
  <2>. QED
    BY <1>2, <1>3, <2>1, CountsThere
<1>5. ResultsOf(t)'
  BY <1>0, <1>1, <1>2, <1>3 DEF ResultsOf
<1>6. ReportOf(t)'
  <2>1. published[t] <= sections[t]
    BY <1>0 DEF Bounded
  <2>2. sections[t] - published[t] <= IF timed THEN INNER ELSE 1
    <3>1. pc[t] \in StartUp \cup Measuring
      BY DEF Cancelled, Uncancellable, ExpInv, HarnessTypeOK, Labels
    <3>. QED
      BY <3>1, FewUnpublished
  <2>. QED
    BY <1>1, <1>3, <2>1, <2>2 DEF ReportOf
<1>. QED
  BY <1>0, <1>1, <1>4, <1>5, <1>6, CountingStepInv, Zenon
     DEF Cancelled, Uncancellable, ExpInv, HarnessTypeOK

-----------------------------------------------------------------------------
(* The steps of the main thread and of its signal handler. *)

\* One that neither starts nor ends a measurement: at most it requests cancellations.
LEMMA MainMoveInv ==
    ASSUME ExpInv,
           UNCHANGED <<barrierVars, run, sync, ready, holder, timed, pc, acquires, published,
                       results, sections>>,
           main' \in {"setup", "arm", "install", "create", "join", "end"}, idx' \in 0..N,
           handler' \in Threads \cup {NONE}, main' = "setup" => main = "setup",
           pending' \in [Threads -> BOOLEAN], \A t \in Threads : pending[t] => pending'[t],
           Started' = Started, Phases'
    PROVE  ExpInv'
<1>1. IInv'
  BY BarrierKept DEF ExpInv
<1>2. HarnessTypeOK' /\ Roles'
  BY DEF ExpInv, HarnessTypeOK, Roles, barrierVars
<1>3. SyncWord' /\ ReadyWord'
  <2>1. Past' = Past /\ MaybeReady' = MaybeReady
    BY Zenon DEF Past, MaybeReady
  <2>. QED
    BY <2>1 DEF ExpInv, SyncWord, ReadyWord
<1>4. Counts' /\ Results' /\ ReportedAcquires'
  BY DEF ExpInv, Counts, CountsOf, Bounded, InLoop, Unpublished,
         Results, ResultsOf, ReportedAcquires
<1>. QED
  BY <1>1, <1>2, <1>3, <1>4 DEF ExpInv

LEMMA MainMovesInv ==
    ASSUME ExpInv, Arm \/ Install \/ AllCreated \/ Join \/ Expire \/ HandlerStep
    PROVE  ExpInv'
<1>. USE DEF MainAt, hmrVars
<1>0. /\ main \in {"setup", "arm", "install", "create", "join", "end"} /\ idx \in 0..N
      /\ handler \in Threads \cup {NONE} /\ pending \in [Threads -> BOOLEAN]
      /\ Phases /\ N \in Nat \ {0} /\ Threads = 0..(N - 1) /\ NONE \notin Threads
  BY Positive, ExperimentAssumption DEF ExpInv, HarnessTypeOK, Threads
<1>1. CASE Arm
  <2>1. Started' = Started /\ Phases'
    BY <1>0, <1>1 DEF Arm, Started, Phases
  <2>. QED
    BY <1>0, <1>1, <2>1, MainMoveInv DEF Arm
<1>2. CASE Install
  <2>1. Started' = Started /\ Phases'
    BY <1>0, <1>2 DEF Install, Started, Phases
  <2>. QED
    BY <1>0, <1>2, <2>1, MainMoveInv DEF Install
<1>3. CASE AllCreated
  <2>1. Started' = Started
    BY <1>0, <1>3 DEF AllCreated, Started
  <2>2. Phases'
    BY <1>0, <1>3, <2>1 DEF AllCreated, Phases
  <2>. QED
    BY <1>0, <1>3, <2>1, <2>2, MainMoveInv DEF AllCreated
<1>4. CASE Join
  <2>1. Started' = Started
    BY <1>0, <1>4 DEF Join, Started
  <2>2. Phases'
    BY <1>0, <1>4, <2>1 DEF Join, Phases
  <2>. QED
    BY <1>0, <1>4, <2>1, <2>2, MainMoveInv DEF Join
<1>5. CASE Expire
  <2>1. Started' = Started
    BY <1>5 DEF Expire, Started
  <2>2. Phases'
    BY <1>0, <1>5, <2>1 DEF Expire, Phases
  <2>3. handler' \in Threads \cup {NONE}
    BY <1>0, <1>5 DEF Expire
  <2>. QED
    BY <1>0, <1>5, <2>1, <2>2, <2>3, MainMoveInv DEF Expire
<1>6. CASE HandlerStep
  <2>1. Started' = Started
    BY <1>6 DEF HandlerStep, Started
  <2>2. Phases'
    BY <1>0, <1>6, <2>1 DEF HandlerStep, Phases
  <2>3. handler' \in Threads \cup {NONE}
    BY <1>0, <1>6 DEF HandlerStep
  <2>4. pending' \in [Threads -> BOOLEAN] /\ \A t \in Threads : pending[t] => pending'[t]
    BY <1>0, <1>6, Zenon DEF HandlerStep
  <2>. QED
    BY <1>0, <1>6, <2>1, <2>2, <2>3, <2>4, MainMoveInv, Zenon DEF HandlerStep
<1>. QED
  BY <1>1, <1>2, <1>3, <1>4, <1>5, <1>6

\* Every thread of the last measurement is gone when the words are cleared.
LEMMA SetupInv ==
    ASSUME ExpInv, Setup
    PROVE  ExpInv'
<1>. USE DEF Setup, MainAt
<1>1. IInv'
  <2>1. BarrierInit'
    BY DEF BarrierInit
  <2>2. BarrierInit' => IInv'
    BY InitInv, PTL
  <2>. QED
    BY <2>1, <2>2
<1>2. Started' = {} /\ Past' = {} /\ MaybeReady' = {}
  BY DEF Started, Past, MaybeReady
<1>3. HarnessTypeOK'
  BY Positive DEF ExpInv, HarnessTypeOK
<1>4. Phases' /\ Roles'
  BY <1>2 DEF ExpInv, Phases, Roles, HarnessTypeOK
<1>5. Cardinality({}) = 0
  BY FS_EmptySet
<1>6. SyncWord'
  BY <1>2, <1>5 DEF SyncWord
<1>7. ReadyWord'
  BY <1>2, <1>5, Positive DEF ReadyWord, ExpInv, Phases
<1>8. Counts'
  BY <1>2, <1>4, Positive, SMTT(30) DEF Counts, CountsOf, Bounded, InLoop, Phases, StartUp
<1>9. Results' /\ ReportedAcquires'
  <2>1. \A t \in Threads : results[t].run < run /\ run \in Nat /\ results[t].run \in Nat
    BY DEF ExpInv, Results, ResultsOf, HarnessTypeOK
  <2>2. \A t \in Threads : pc[t] \in {"none", "exited"}
    BY DEF ExpInv, Phases
  <2>3. results' = results /\ run' = run /\ pc' = pc
    OBVIOUS
  <2>. HIDE DEF Setup
  <2>4. Results'
    BY <2>1, <2>2, <2>3 DEF Results, ResultsOf
  <2>5. \A t \in Threads : results'[t].run # run'
    BY <2>1, <2>3
  <2>6. ReportedAcquires'
    BY <2>5 DEF ReportedAcquires
  <2>. QED
    BY <2>4, <2>6
<1>. QED
  BY <1>1, <1>3, <1>4, <1>6, <1>7, <1>8, <1>9 DEF ExpInv

LEMMA CreateInv ==
    ASSUME ExpInv, Create
    PROVE  ExpInv'
<1>. USE DEF Create, MainAt
<1>0. /\ idx \in Threads /\ idx \in Nat /\ idx + 1 \in 0..N /\ main = "create"
      /\ Threads = 0..(N - 1) /\ N \in Nat
  BY Positive DEF ExpInv, HarnessTypeOK, Threads
<1>1. IInv'
  BY BarrierKept DEF ExpInv
<1>2. /\ idx \notin Started /\ Started' = Started \cup {idx}
      /\ pc'[idx] = "inc_sync" /\ \A t \in Threads \ {idx} : pc'[t] = pc[t]
      /\ pc' \in [Threads -> Labels]
  BY <1>0 DEF Started, ExpInv, HarnessTypeOK, Labels, StartUp
<1>3. HarnessTypeOK'
  BY <1>0, <1>2, Zenon DEF ExpInv, HarnessTypeOK, barrierVars
<1>4. Phases' /\ Roles'
  BY <1>0, <1>2 DEF ExpInv, Phases, Roles
<1>5. Past' = Past /\ MaybeReady' = MaybeReady
  BY <1>0, <1>2, StartedThreads DEF Past, MaybeReady
<1>6. Past # Threads
  BY <1>0, <1>2 DEF Past
<1>7. SyncWord'
  BY <1>5, <1>6 DEF SyncWord, ExpInv
<1>8. ReadyWord'
  BY <1>2, <1>5, Positive DEF ReadyWord, ExpInv
<1>9. \A t \in Threads : CountsOf(t)' /\ ResultsOf(t)' /\ ReportOf(t)'
  <2>. SUFFICES ASSUME NEW t \in Threads PROVE CountsOf(t)' /\ ResultsOf(t)' /\ ReportOf(t)'
    BY Zenon
  <2>1. CASE t = idx
    BY <1>2, <2>1, OwnCounts, Positive, Zenon
       DEF CountsOf, Bounded, InLoop, ResultsOf, ReportOf, StartUp
  <2>2. CASE t # idx
    <3>1. (t \in Started)' <=> t \in Started
      BY <1>2, <2>2
    <3>2. pc'[t] = pc[t] /\ pending'[t] = pending[t]
      BY <1>2, <2>2 DEF ExpInv, HarnessTypeOK
    <3>3. CountsOf(t)'
      BY <3>1, <3>2, OwnCounts, Zenon DEF CountsOf, Bounded, InLoop, Unpublished
    <3>4. ResultsOf(t)' /\ ReportOf(t)'
      BY <1>0, <3>1, <3>2, OwnCounts, Zenon DEF ResultsOf, ReportOf
    <3>. QED
      BY <3>3, <3>4
  <2>. QED
    BY <2>1, <2>2
<1>10. ReportedAcquires'
  BY <1>9 DEF ReportedAcquires, ReportOf
<1>. QED
  BY <1>1, <1>3, <1>4, <1>7, <1>8, <1>9, <1>10, SMTT(30) DEF ExpInv, Counts, Results

\* A report is made when every thread has been joined.
LEMMA ReportInv ==
    ASSUME ExpInv, Report
    PROVE  ExpInv'
<1>. USE DEF Report, MainAt, hmrVars
<1>0. /\ run \in 1..EXPERIMENTS /\ EXPERIMENTS \in Nat /\ run' \in 1..EXPERIMENTS
      /\ run' = IF main' = "setup" THEN run + 1 ELSE run
      /\ main' \in {"setup", "end"}
  BY Positive DEF ExpInv, HarnessTypeOK
<1>1. IInv'
  BY BarrierKept DEF ExpInv
<1>2. Started = Threads /\ Started' = Threads
  BY <1>0 DEF Started
<1>3. \A t \in Threads : pc[t] = "exited"
  BY Positive DEF ExpInv, Phases, Threads
<1>4. HarnessTypeOK' /\ Phases' /\ Roles'
  BY <1>0, <1>2, <1>3 DEF ExpInv, HarnessTypeOK, Phases, Roles, barrierVars
<1>5. SyncWord' /\ ReadyWord'
  <2>1. Past' = Past /\ MaybeReady' = MaybeReady
    BY <1>2, Zenon DEF Past, MaybeReady
  <2>. QED
    BY <2>1 DEF ExpInv, SyncWord, ReadyWord
<1>6. Counts'
  BY <1>2 DEF ExpInv, Counts, CountsOf, Bounded, InLoop, Unpublished
<1>7. Results' /\ ReportedAcquires'
  <2>1. \A t \in Threads : results[t].run <= run /\ results[t].run \in Nat
    BY DEF ExpInv, Results, ResultsOf, HarnessTypeOK
  <2>2. Results'
    <3>. SUFFICES ASSUME NEW t \in Threads PROVE ResultsOf(t)'
      BY DEF Results
    <3>1. t \in Started' /\ pc'[t] = "exited" /\ results' = results
      BY <1>2, <1>3
    <3>. HIDE DEF Report
    <3>. QED
      BY <1>0, <2>1, <3>1 DEF ResultsOf
  <2>3. ReportedAcquires'
    BY <1>0, <2>1 DEF ExpInv, ReportedAcquires
  <2>. QED
    BY <2>2, <2>3
<1>. QED
  BY <1>1, <1>4, <1>5, <1>6, <1>7 DEF ExpInv

-----------------------------------------------------------------------------
LEMMA ExpInit == Init => ExpInv
<1>. SUFFICES ASSUME Init PROVE ExpInv
  OBVIOUS
<1>. USE DEF Init
<1>1. IInv
  BY InitInv
<1>2. Started = Threads /\ Past = {} /\ MaybeReady = {}
  BY DEF Started, Past, MaybeReady
<1>3. HarnessTypeOK
  BY Positive DEF HarnessTypeOK, BarrierInit, Labels
<1>4. Phases /\ Roles
  BY DEF Phases, Roles
<1>5. Cardinality({}) = 0
  BY FS_EmptySet
<1>6. SyncWord /\ ReadyWord
  BY <1>2, <1>5, Positive DEF SyncWord, ReadyWord
<1>7. Counts
  BY Positive DEF Counts, CountsOf, Bounded, InLoop
<1>8. Results /\ ReportedAcquires
  BY DEF Results, ResultsOf, ReportedAcquires
<1>. QED
  BY <1>1, <1>3, <1>4, <1>6, <1>7, <1>8 DEF ExpInv

LEMMA ExpStep == ExpInv /\ [Next]_vars => ExpInv'
<1>. SUFFICES ASSUME ExpInv, [Next]_vars PROVE ExpInv'
  BY Zenon
<1>1. CASE UNCHANGED vars
  <2>1. Started' = Started
    BY <1>1 DEF vars, mainVars, Started
  <2>2. Phases'
    BY <1>1, <2>1 DEF vars, mainVars, hmrVars, Phases, ExpInv
  <2>. QED
    BY <1>1, <2>1, <2>2, MainMoveInv DEF vars, mainVars, hmrVars, ExpInv, HarnessTypeOK
<1>2. CASE Main \/ Expire
  BY <1>2, SetupInv, MainMovesInv, CreateInv, ReportInv DEF Main
<1>3. ASSUME NEW t \in Threads, Hmr(t) PROVE ExpInv'
  BY <1>3, IncSyncInv, MovesInv, WaitReadyInv, SetLsbInv, IncReadyInv, CalibrateInv,
     ReleaseInv, CountInv, PublishInv, RecordInv DEF Hmr
<1>4. ASSUME NEW t \in Threads, Cancel(t) PROVE ExpInv'
  BY <1>4, MovesInv, CancelledInv DEF Cancel
<1>. QED
  BY <1>1, <1>2, <1>3, <1>4 DEF Next

\* The harness keeps the inductive invariant.
THEOREM ExperimentInvariant == Spec => []ExpInv
BY ExpInit, ExpStep, PTL DEF Spec

\* The three words of the start-up handshake and the counters of every thread stay in
\* their ranges: p_sync_lock never passes the value the threads wait for, and no more
\* than N - 1 threads ever say they are ready.
THEOREM ExperimentTypeCorrect == Spec => []TypeOK
<1>1. ExpInv => TypeOK
  <2>. SUFFICES ASSUME ExpInv PROVE TypeOK
    OBVIOUS
  <2>1. BarrierTypeOK
    BY DEF ExpInv, IInv
  <2>2. sync \in 0..(2 * N + 1)
    <3>1. Cardinality(Past) \in Nat /\ Cardinality(Past) <= N
      BY StartedThreads, SubsetSize
    <3>. QED
      BY <3>1, Positive DEF ExpInv, SyncWord
  <2>3. ready \in 0..(N - 1)
    <3>1. IsFiniteSet(Threads \ {0}) /\ Cardinality(Threads \ {0}) = N - 1
      BY ThreadsFinite, Positive, FS_RemoveElement
    <3>2. Cardinality(MaybeReady) <= N - 1 /\ Cardinality(MaybeReady) \in Nat
      BY <3>1, StartedThreads, FS_Subset, FS_CardinalityType
    <3>. QED
      BY <3>2, Positive DEF ExpInv, ReadyWord, HarnessTypeOK
  <2>4. \A t \in Threads :
           /\ acquires[t] \in 0..ACQUIRES /\ published[t] \in 0..acquires[t]
           /\ sections[t] \in 0..ACQUIRES /\ passed[t] \in 0..BARRIERS
    <3>. SUFFICES ASSUME NEW t \in Threads
                  PROVE  /\ acquires[t] \in 0..ACQUIRES /\ published[t] \in 0..acquires[t]
                         /\ sections[t] \in 0..ACQUIRES /\ passed[t] \in 0..BARRIERS
      OBVIOUS
    <3>1. passed[t] \in 0..BARRIERS
      BY <2>1, Positive, SMTT(30) DEF ExpInv, HarnessTypeOK, BarrierTypeOK
    <3>2. /\ published[t] <= acquires[t] /\ acquires[t] <= sections[t]
          /\ sections[t] <= ACQUIRES
      BY OwnCounts DEF CountsOf, Bounded, InLoop
    <3>. QED
      BY <3>1, <3>2, OwnCounts, Positive
  <2>. QED
    BY <2>1, <2>2, <2>3, <2>4 DEF TypeOK, ExpInv, HarnessTypeOK
<1>. QED
  BY <1>1, ExperimentInvariant, PTL

\* p_calibrate_lock works as a barrier in the harness too: the start-up handshake, the
\* cancellations and the measurements that follow each other do not disturb it.
THEOREM ExperimentBarrierHolds == Spec => []BarrierHolds
<1>1. ExpInv => BarrierHolds
  BY InvImpliesHolds DEF ExpInv
<1>. QED
  BY <1>1, ExperimentInvariant, PTL

\* Once the marshal has set the lsb, p_sync_lock holds the value that every other thread
\* waits for, for any number of threads and wherever a cancellation has struck.
THEOREM ExperimentSyncWord == Spec => []SyncWordComplete
<1>1. ExpInv => SyncWordComplete
  <2>. SUFFICES ASSUME ExpInv, sync % 2 = 1 PROVE sync = 2 * N + 1
    BY DEF SyncWordComplete
  <2>1. PICK lsb \in {0, 1} : /\ sync = 2 * Cardinality(Past) + lsb
                              /\ lsb = 1 => Past = Threads
    BY DEF ExpInv, SyncWord
  <2>2. Cardinality(Past) \in Nat
    BY StartedThreads, SubsetSize
  <2>3. lsb = 1
    BY <2>1, <2>2
  <2>. QED
    BY <2>1, <2>3, ThreadsFinite
<1>. QED
  BY <1>1, ExperimentInvariant, PTL

\* A thread's reported acquisitions are its critical sections, short of at most the
\* INNER (in a counted run, one) that a cancellation found unpublished.
THEOREM ExperimentReports == Spec => []ReportedAcquires
<1>1. ExpInv => ReportedAcquires
  BY DEF ExpInv
<1>. QED
  BY <1>1, ExperimentInvariant, PTL

\* run_one_experiment clears the words only when no thread of an earlier measurement
\* can still use them, also after a timeout has cancelled some of them.
THEOREM SetupFindsNoThread ==
    Spec => [](main = "setup" => \A t \in Threads : pc[t] \in {"none", "exited"})
<1>1. ExpInv => (main = "setup" => \A t \in Threads : pc[t] \in {"none", "exited"})
  BY DEF ExpInv, Phases
<1>. QED
  BY <1>1, ExperimentInvariant, PTL

=============================================================================
