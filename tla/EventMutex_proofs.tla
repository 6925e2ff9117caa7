------------------------- MODULE EventMutex_proofs -------------------------
(***************************************************************************)
(* The event mutex excludes for any number of threads, and two threads     *)
(* that use the atomic exchange never leave one another asleep.  The       *)
(* second fact rests on the two sides of lock_signal: with one thread in   *)
(* the wait loop only the other can store the generation, so its plain     *)
(* load and store do not race and the generation moves past the one the    *)
(* waiter has seen.  With three threads, or an attempt that can fail on a  *)
(* free mutex, the argument breaks and TLC shows the waiter left behind.   *)
(***************************************************************************)
EXTENDS EventMutex, FiniteSetTheorems, TLAPS

Waiting == {"is_free", "try_lock", "load_gen", "last_try", "wait"}
Inside == {"locked", "sig_load", "sig_store"}

Labels == {"idle"} \cup Waiting \cup Inside

\* A thread that is not idle has the lap it is making still to count off.
LapOpen == \A t \in Threads : pc[t] # "idle" => laps[t] > 0

\* The word is LOCKED exactly while a thread has the mutex.
WordIsHeld ==
    lock = MUTEX_STATE_LOCKED <=> \E t \in Threads : pc[t] = "locked"

IInv ==
    /\ TypeOK
    /\ pc \in [Threads -> Labels]
    /\ LapOpen
    /\ WordIsHeld
    /\ MutualExclusion

-----------------------------------------------------------------------------
\* An attempt that wins finds nobody in; one that loses changes nothing.
LEMMA TasLockInv ==
    ASSUME IInv, NEW t \in Threads, pc[t] # "locked",
           NEW lost \in Waiting, tas_lock(t, "locked", lost)
    PROVE  /\ lock' \in {MUTEX_STATE_UNLOCKED, MUTEX_STATE_LOCKED}
           /\ pc' \in [Threads -> Labels]
           /\ WordIsHeld'
           /\ MutualExclusion'
<1>. USE DEF MUTEX_STATE_LOCKED, MUTEX_STATE_UNLOCKED
<1>1. CASE lock = MUTEX_STATE_UNLOCKED /\ lock' = MUTEX_STATE_LOCKED /\ Goto(t, "locked")
  <2>1. \A u \in Threads : pc[u] # "locked"
    BY <1>1 DEF IInv, WordIsHeld
  <2>. QED
    BY <1>1, <2>1 DEF IInv, WordIsHeld, MutualExclusion, Goto, Labels, Inside
<1>2. CASE lock' = lock /\ Goto(t, lost)
  <2>1. lost # "locked"
    BY DEF Waiting
  <2>. QED
    BY <1>2, <2>1 DEF IInv, TypeOK, WordIsHeld, MutualExclusion, Goto, Labels
<1>. QED
  BY <1>1, <1>2 DEF tas_lock

LEMMA InitInv == Init => IInv
BY EventAssumption DEF Init, IInv, TypeOK, LapOpen, WordIsHeld, MutualExclusion, Labels,
   MUTEX_STATE_LOCKED, MUTEX_STATE_UNLOCKED

LEMMA EnterInv ==
    ASSUME IInv, NEW t \in Threads, Enter(t)
    PROVE  IInv'
<1>1. /\ lock' \in {MUTEX_STATE_UNLOCKED, MUTEX_STATE_LOCKED}
      /\ pc' \in [Threads -> Labels] /\ WordIsHeld' /\ MutualExclusion'
  BY TasLockInv DEF Enter, Waiting
<1>2. TypeOK'
  BY <1>1, EventAssumption DEF IInv, TypeOK, Enter
<1>3. LapOpen'
  <2>1. \A u \in Threads \ {t} : pc'[u] = pc[u]
    BY DEF IInv, Enter, tas_lock, Goto
  <2>. QED
    BY <2>1 DEF IInv, LapOpen, Enter
<1>. QED
  BY <1>1, <1>2, <1>3 DEF IInv

LEMMA IsFreeInv ==
    ASSUME IInv, NEW t \in Threads, is_free(t)
    PROVE  IInv'
<1>. USE DEF IInv
<1>1. pc' \in [Threads -> Labels]
  BY DEF is_free, Goto, Labels, Waiting
<1>2. TypeOK'
  BY EventAssumption DEF is_free, TypeOK
<1>3. LapOpen'
  BY DEF is_free, Goto, LapOpen
<1>4. WordIsHeld' /\ MutualExclusion'
  BY DEF is_free, Goto, WordIsHeld, MutualExclusion
<1>. QED
  BY <1>1, <1>2, <1>3, <1>4

LEMMA TryLockInv ==
    ASSUME IInv, NEW t \in Threads, try_lock(t) \/ LastTry(t)
    PROVE  IInv'
<1>1. /\ lock' \in {MUTEX_STATE_UNLOCKED, MUTEX_STATE_LOCKED}
      /\ pc' \in [Threads -> Labels] /\ WordIsHeld' /\ MutualExclusion'
  BY TasLockInv DEF try_lock, LastTry, Waiting
<1>2. TypeOK'
  BY <1>1 DEF IInv, TypeOK, try_lock, LastTry
<1>3. LapOpen'
  <2>1. pc[t] # "idle" /\ \A u \in Threads \ {t} : pc'[u] = pc[u]
    BY DEF IInv, try_lock, LastTry, tas_lock, Goto
  <2>. QED
    BY <2>1 DEF IInv, LapOpen, try_lock, LastTry
<1>. QED
  BY <1>1, <1>2, <1>3 DEF IInv

LEMMA WaitInv ==
    ASSUME IInv, NEW t \in Threads, LoadGeneration(t) \/ Wait(t)
    PROVE  IInv'
<1>. USE DEF IInv
<1>1. pc' \in [Threads -> Labels]
  BY DEF LoadGeneration, Wait, Goto, Labels, Waiting
<1>2. TypeOK'
  BY DEF LoadGeneration, Wait, TypeOK
<1>3. LapOpen' /\ WordIsHeld' /\ MutualExclusion'
  BY DEF LoadGeneration, Wait, Goto, LapOpen, WordIsHeld, MutualExclusion
<1>. QED
  BY <1>1, <1>2, <1>3

LEMMA UnlockInv ==
    ASSUME IInv, NEW t \in Threads, tas_unlock(t)
    PROVE  IInv'
<1>. USE DEF IInv
<1>1. pc' \in [Threads -> Labels]
  BY DEF tas_unlock, Goto, Labels, Inside
<1>2. TypeOK' /\ LapOpen'
  BY DEF tas_unlock, Goto, TypeOK, LapOpen
<1>3. \A u \in Threads : pc'[u] # "locked"
  BY DEF tas_unlock, Goto, MutualExclusion
<1>4. WordIsHeld' /\ MutualExclusion'
  BY <1>3 DEF tas_unlock, WordIsHeld, MutualExclusion,
              MUTEX_STATE_LOCKED, MUTEX_STATE_UNLOCKED
<1>. QED
  BY <1>1, <1>2, <1>4

LEMMA SignalInv ==
    ASSUME IInv, NEW t \in Threads, SignalLoad(t) \/ SignalStore(t)
    PROVE  IInv'
<1>. USE DEF IInv
<1>1. pc' \in [Threads -> Labels]
  BY DEF SignalLoad, SignalStore, Goto, Labels, Inside
<1>2. laps[t] > 0
  BY DEF LapOpen, SignalLoad, SignalStore
<1>3. TypeOK'
  BY <1>2, EventAssumption DEF SignalLoad, SignalStore, TypeOK
<1>4. LapOpen' /\ WordIsHeld' /\ MutualExclusion'
  BY DEF SignalLoad, SignalStore, Goto, LapOpen, WordIsHeld, MutualExclusion, TypeOK
<1>. QED
  BY <1>1, <1>3, <1>4

LEMMA StepInv == IInv /\ [Next]_vars => IInv'
<1>. SUFFICES ASSUME IInv, [Next]_vars PROVE IInv'
  OBVIOUS
<1>1. CASE UNCHANGED vars
  BY <1>1 DEF vars, IInv, TypeOK, LapOpen, WordIsHeld, MutualExclusion
<1>2. ASSUME NEW t \in Threads, Step(t) PROVE IInv'
  BY <1>2, EnterInv, IsFreeInv, TryLockInv, WaitInv, UnlockInv, SignalInv DEF Step
<1>. QED
  BY <1>1, <1>2 DEF Next

\* The inductive invariant holds of event_mutex.h and cas_event_mutex.h.
THEOREM EventInvariant == Spec => []IInv
BY InitInv, StepInv, PTL DEF Spec

\* The words keep their ranges and is_free never polls more than MAX_SPINS times.
THEOREM EventTypeCorrect == Spec => []TypeOK
<1>1. IInv => TypeOK
  BY DEF IInv
<1>. QED
  BY <1>1, EventInvariant, PTL

\* lock_acquire returns to one thread at a time, with either kind of tas_lock.
THEOREM EventMutualExclusion == Spec => []MutualExclusion
<1>1. IInv => MutualExclusion
  BY DEF IInv
<1>. QED
  BY <1>1, EventInvariant, PTL

-----------------------------------------------------------------------------
\* While a thread waits, the generation another has loaded is the present one.
LoadedIsPresent ==
    \A t, u \in Threads :
        t # u /\ pc[u] \in Waiting /\ pc[t] = "sig_store"
            => version[t] = ev_generation

\* A waiter has not seen a generation that is yet to come.
SeenIsPast ==
    \A u \in Threads :
        pc[u] \in {"last_try", "wait"} => wait_state[u] <= ev_generation

\* Whoever is asleep, another thread is on its way through lock_exit.
SomeoneWillSignal ==
    \A u \in Threads :
        Asleep(u) => \E t \in Threads \ {u} : pc[t] \in Inside

WakeInv == LoadedIsPresent /\ SeenIsPast /\ SomeoneWillSignal

\* Three different threads there are not.
AtMostTwo == \A t, u, v \in Threads : t = u \/ u = v \/ t = v

LEMMA TwoThreads ==
    ASSUME Cardinality(Threads) <= 2
    PROVE  AtMostTwo
<1>. SUFFICES ASSUME NEW t \in Threads, NEW u \in Threads, NEW v \in Threads,
                     t # u, u # v, t # v
     PROVE  FALSE
  BY DEF AtMostTwo
<1>1. IsFiniteSet({t}) /\ Cardinality({t}) = 1
  BY FS_Singleton
<1>2. IsFiniteSet({t} \cup {u}) /\ Cardinality({t} \cup {u}) = 2
  BY <1>1, FS_AddElement
<1>3. Cardinality(({t} \cup {u}) \cup {v}) = 3
  <2>1. v \notin {t} \cup {u}
    OBVIOUS
  <2>2. Cardinality(({t} \cup {u}) \cup {v}) = Cardinality({t} \cup {u}) + 1
    BY <1>2, <2>1, FS_AddElement, Zenon
  <2>. QED
    BY <1>2, <2>2
<1>4. ({t} \cup {u}) \cup {v} \in SUBSET Threads
  OBVIOUS
<1>5. Cardinality(({t} \cup {u}) \cup {v}) <= Cardinality(Threads)
  BY <1>4, EventAssumption, FS_Subset
<1>6. Cardinality(Threads) \in Nat
  BY EventAssumption, FS_CardinalityType
<1>. QED
  BY <1>3, <1>5, <1>6

\* An exchange that fails shows the other thread between acquire and release.
LEMMA LosingAttempt ==
    ASSUME IInv, ~LLSC, AtMostTwo, NEW t \in Threads, pc[t] # "locked",
           NEW lost \in Waiting, tas_lock(t, "locked", lost), pc'[t] # "locked"
    PROVE  /\ pc' = [pc EXCEPT ![t] = lost]
           /\ \E u \in Threads \ {t} : pc[u] = "locked"
           /\ \A u \in Threads \ {t} : pc[u] = "locked"
<1>1. Goto(t, lost) /\ lock = MUTEX_STATE_LOCKED
  BY DEF tas_lock, Goto, IInv
<1>2. PICK u \in Threads : pc[u] = "locked"
  BY <1>1 DEF IInv, WordIsHeld
<1>. QED
  BY <1>1, <1>2 DEF Goto, AtMostTwo

LEMMA InitWake == Init => WakeInv
BY DEF Init, WakeInv, LoadedIsPresent, SeenIsPast, SomeoneWillSignal, Waiting, Asleep

LEMMA AttemptWake ==
    ASSUME IInv, WakeInv, ~LLSC, AtMostTwo, NEW t \in Threads, pc[t] # "locked",
           NEW lost \in Waiting, tas_lock(t, "locked", lost),
           pc[t] \notin Inside, lost \in {"last_try", "wait"} => pc[t] = "last_try",
           UNCHANGED <<ev_generation, wait_state, version>>
    PROVE  WakeInv'
<1>. USE DEF WakeInv
<1>1. CASE pc'[t] = "locked"
  <2>1. pc' = [pc EXCEPT ![t] = "locked"]
    BY <1>1 DEF tas_lock, Goto, IInv, Waiting
  <2>. QED
    BY <2>1 DEF LoadedIsPresent, SeenIsPast, SomeoneWillSignal, Asleep, Waiting, Inside, IInv
<1>2. CASE pc'[t] # "locked"
  <2>1. /\ pc' = [pc EXCEPT ![t] = lost]
        /\ \E u \in Threads \ {t} : pc[u] = "locked"
        /\ \A u \in Threads \ {t} : pc[u] = "locked"
    BY <1>2, LosingAttempt
  <2>2. LoadedIsPresent'
    BY <2>1 DEF LoadedIsPresent, Waiting, IInv
  <2>3. SeenIsPast'
    BY <2>1 DEF SeenIsPast, IInv
  <2>4. SomeoneWillSignal'
    BY <2>1 DEF SomeoneWillSignal, Asleep, Inside, IInv
  <2>. QED
    BY <2>2, <2>3, <2>4
<1>. QED
  BY <1>1, <1>2

LEMMA StepWake ==
    ASSUME IInv, WakeInv, ~LLSC, AtMostTwo, [Next]_vars
    PROVE  WakeInv'
<1>. USE DEF WakeInv
<1>1. CASE UNCHANGED vars
  BY <1>1 DEF vars, LoadedIsPresent, SeenIsPast, SomeoneWillSignal, Asleep
<1>2. ASSUME NEW t \in Threads, Enter(t) \/ try_lock(t) PROVE WakeInv'
  BY <1>2, AttemptWake DEF Enter, try_lock, Waiting, Inside
<1>3. ASSUME NEW t \in Threads, LastTry(t) PROVE WakeInv'
  BY <1>3, AttemptWake DEF LastTry, Waiting, Inside
<1>4. ASSUME NEW t \in Threads, is_free(t) PROVE WakeInv'
  BY <1>4 DEF is_free, Goto, LoadedIsPresent, SeenIsPast, SomeoneWillSignal, Asleep,
              Waiting, Inside, IInv
<1>5. ASSUME NEW t \in Threads, LoadGeneration(t) PROVE WakeInv'
  BY <1>5 DEF LoadGeneration, Goto, LoadedIsPresent, SeenIsPast, SomeoneWillSignal, Asleep,
              Waiting, Inside, IInv, TypeOK
<1>6. ASSUME NEW t \in Threads, Wait(t) PROVE WakeInv'
  BY <1>6 DEF Wait, Goto, LoadedIsPresent, SeenIsPast, SomeoneWillSignal, Asleep,
              Waiting, Inside, IInv
<1>7. ASSUME NEW t \in Threads, tas_unlock(t) PROVE WakeInv'
  BY <1>7 DEF tas_unlock, Goto, LoadedIsPresent, SeenIsPast, SomeoneWillSignal, Asleep,
              Waiting, Inside, IInv
<1>8. ASSUME NEW t \in Threads, SignalLoad(t) PROVE WakeInv'
  BY <1>8 DEF SignalLoad, Goto, LoadedIsPresent, SeenIsPast, SomeoneWillSignal, Asleep,
              Waiting, Inside, IInv, TypeOK
<1>9. ASSUME NEW t \in Threads, SignalStore(t) PROVE WakeInv'
  <2>1. ASSUME NEW u \in Threads \ {t}, pc[u] \in Waiting
        PROVE  ev_generation' = ev_generation + 1
    BY <1>9, <2>1 DEF SignalStore, LoadedIsPresent
  <2>2. LoadedIsPresent'
    <3>. SUFFICES ASSUME NEW x \in Threads, NEW u \in Threads, x # u,
                         pc'[u] \in Waiting, pc'[x] = "sig_store"
         PROVE  FALSE
      BY DEF LoadedIsPresent
    <3>. QED
      BY <1>9 DEF SignalStore, Goto, IInv, Waiting, AtMostTwo
  <2>3. SeenIsPast'
    BY <1>9, <2>1 DEF SignalStore, Goto, SeenIsPast, IInv, TypeOK, Waiting
  <2>4. SomeoneWillSignal'
    BY <1>9, <2>1 DEF SignalStore, Goto, SeenIsPast, SomeoneWillSignal, Asleep, IInv, TypeOK, Waiting
  <2>. QED
    BY <2>2, <2>3, <2>4
<1>. QED
  BY <1>1, <1>2, <1>3, <1>4, <1>5, <1>6, <1>7, <1>8, <1>9 DEF Next, Step

LEMMA WakeEnough == WakeInv => NoThreadLeftAsleep
BY DEF WakeInv, SomeoneWillSignal, NoThreadLeftAsleep, Done, Asleep, Inside

\* Two threads that use the exchange of event_mutex.h never both stop with one
\* of them in the wait loop: lock_signal's wake-up is not lost.
THEOREM EventTwoThreadsWake ==
    ASSUME Cardinality(Threads) <= 2, ~LLSC
    PROVE  Spec => []NoThreadLeftAsleep
<1>1. AtMostTwo
  BY TwoThreads
<1>2. IInv /\ WakeInv /\ [Next]_vars => WakeInv'
  BY <1>1, StepWake
<1>. QED
  BY <1>2, InitWake, WakeEnough, EventInvariant, PTL DEF Spec

=============================================================================
