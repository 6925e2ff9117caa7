----------------------------- MODULE EventMutex -----------------------------
(***************************************************************************)
(* ext/mysql/event_mutex.h and ext/mysql/cas_event_mutex.h: a test-and-set *)
(* mutex whose waiters, after some polling, wait for the generation number *)
(* of the last release to change.  The generation is incremented after the *)
(* mutex has been freed, by a plain load and a plain store.                *)
(***************************************************************************)
EXTENDS Integers, FiniteSets

CONSTANTS
    Threads,   \* thread numbers
    LAPS,      \* acquisitions each thread makes before it stops
    MAX_SPINS, \* polls of the mutex between two waits (30 in both files)
    LLSC       \* TRUE: tas_lock is one ldaxr/stxr attempt, which may fail spuriously

ASSUME EventAssumption ==
    /\ IsFiniteSet(Threads)
    /\ LAPS \in Nat
    /\ MAX_SPINS \in Nat \ {0}
    /\ LLSC \in BOOLEAN

VARIABLES
    lock,          \* the mutex word
    ev_generation, \* generation of the last release
    pc,            \* where each thread is
    spins,         \* spins[t]: max_spins - n_spins, polls left before a wait
    wait_state,    \* wait_state[t]: generation a waiter has seen
    version,       \* version[t]: generation a releaser has loaded
    laps           \* laps[t]: acquisitions left

vars == <<lock, ev_generation, pc, spins, wait_state, version, laps>>

MUTEX_STATE_UNLOCKED == 0
MUTEX_STATE_LOCKED == 1

Init ==
    /\ lock = MUTEX_STATE_UNLOCKED
    /\ ev_generation = 0
    /\ pc = [t \in Threads |-> "idle"]
    /\ spins = [t \in Threads |-> MAX_SPINS]
    /\ wait_state = [t \in Threads |-> 0]
    /\ version = [t \in Threads |-> 0]
    /\ laps = [t \in Threads |-> LAPS]

Goto(t, l) == pc' = [pc EXCEPT ![t] = l]

-----------------------------------------------------------------------------
\* tas_lock: an exchange with LOCKED succeeds if it returns UNLOCKED; a single
\* exclusive store may fail even so, and then leaves the mutex alone.
\* Mutant: the mutex is loaded and stored in two steps.
tas_lockTorn(t, won, lost) ==
    /\ lock' = MUTEX_STATE_LOCKED
    /\ \/ Goto(t, won)
       \/ lock = MUTEX_STATE_LOCKED /\ Goto(t, lost)

tas_lock(t, won, lost) ==
    \/ /\ lock = MUTEX_STATE_UNLOCKED
       /\ lock' = MUTEX_STATE_LOCKED
       /\ Goto(t, won)
    \/ /\ lock = MUTEX_STATE_LOCKED \/ LLSC
       /\ Goto(t, lost)
       /\ UNCHANGED lock

\* lock_enter: one attempt, then spin_and_try_lock.
Enter(t) ==
    /\ pc[t] = "idle"
    /\ laps[t] > 0
    /\ tas_lock(t, "locked", "is_free")
    /\ spins' = [spins EXCEPT ![t] = MAX_SPINS]
    /\ UNCHANGED <<ev_generation, wait_state, version, laps>>

\* is_free: poll until the mutex is free or the polls are used up.
\* Mutant: off by one, a poll is made after the last one.
is_freeForever(t) ==
    /\ pc[t] = "is_free"
    /\ \/ /\ lock = MUTEX_STATE_UNLOCKED
          /\ Goto(t, "try_lock")
          /\ UNCHANGED spins
       \/ /\ lock # MUTEX_STATE_UNLOCKED
          /\ spins[t] > 0
          /\ spins' = [spins EXCEPT ![t] = @ - 1]
          /\ UNCHANGED pc
       \/ /\ lock # MUTEX_STATE_UNLOCKED
          /\ spins[t] = 0
          /\ spins' = [spins EXCEPT ![t] = MAX_SPINS]
          /\ Goto(t, "load_gen")
    /\ UNCHANGED <<lock, ev_generation, wait_state, version, laps>>

is_free(t) ==
    /\ pc[t] = "is_free"
    /\ \/ /\ lock = MUTEX_STATE_UNLOCKED
          /\ Goto(t, "try_lock")
          /\ UNCHANGED spins
       \/ /\ lock # MUTEX_STATE_UNLOCKED
          /\ spins[t] > 1
          /\ spins' = [spins EXCEPT ![t] = @ - 1]
          /\ UNCHANGED pc
       \/ /\ lock # MUTEX_STATE_UNLOCKED
          /\ spins[t] = 1
          /\ spins' = [spins EXCEPT ![t] = MAX_SPINS]
          /\ Goto(t, "load_gen")
    /\ UNCHANGED <<lock, ev_generation, wait_state, version, laps>>

try_lock(t) ==
    /\ pc[t] = "try_lock"
    /\ tas_lock(t, "locked", "is_free")
    /\ UNCHANGED <<ev_generation, spins, wait_state, version, laps>>

\* spin_and_try_lock: remember the generation ...
LoadGeneration(t) ==
    /\ pc[t] = "load_gen"
    /\ wait_state' = [wait_state EXCEPT ![t] = ev_generation]
    /\ Goto(t, "last_try")
    /\ UNCHANGED <<lock, ev_generation, spins, version, laps>>

\* ... try once more ...
\* Mutant: the last attempt before the wait is left out.
LastTryDropped(t) ==
    /\ pc[t] = "last_try"
    /\ Goto(t, "wait")
    /\ UNCHANGED <<lock, ev_generation, spins, wait_state, version, laps>>

LastTry(t) ==
    /\ pc[t] = "last_try"
    /\ tas_lock(t, "locked", "wait")
    /\ UNCHANGED <<ev_generation, spins, wait_state, version, laps>>

\* ... and wait until the generation is another one.
Wait(t) ==
    /\ pc[t] = "wait"
    /\ ev_generation # wait_state[t]
    /\ Goto(t, "is_free")
    /\ UNCHANGED <<lock, ev_generation, spins, wait_state, version, laps>>

-----------------------------------------------------------------------------
\* lock_exit: free the mutex, then lock_signal.
tas_unlock(t) ==
    /\ pc[t] = "locked"
    /\ lock' = MUTEX_STATE_UNLOCKED
    /\ Goto(t, "sig_load")
    /\ UNCHANGED <<ev_generation, spins, wait_state, version, laps>>

SignalLoad(t) ==
    /\ pc[t] = "sig_load"
    /\ version' = [version EXCEPT ![t] = ev_generation]
    /\ Goto(t, "sig_store")
    /\ UNCHANGED <<lock, ev_generation, spins, wait_state, laps>>

SignalStore(t) ==
    /\ pc[t] = "sig_store"
    /\ ev_generation' = version[t] + 1
    /\ laps' = [laps EXCEPT ![t] = @ - 1]
    /\ Goto(t, "idle")
    /\ UNCHANGED <<lock, spins, wait_state, version>>

Step(t) ==
    \/ Enter(t)
    \/ is_free(t)
    \/ try_lock(t)
    \/ LoadGeneration(t)
    \/ LastTry(t)
    \/ Wait(t)
    \/ tas_unlock(t)
    \/ SignalLoad(t)
    \/ SignalStore(t)

Next == \E t \in Threads : Step(t)

Spec == Init /\ [][Next]_vars

-----------------------------------------------------------------------------
Done(t) == pc[t] = "idle" /\ laps[t] = 0
Asleep(t) == pc[t] = "wait" /\ ev_generation = wait_state[t]

\* The variables are in their ranges; is_free never polls more than MAX_SPINS times.
TypeOK ==
    /\ lock \in {MUTEX_STATE_UNLOCKED, MUTEX_STATE_LOCKED}
    /\ ev_generation \in Nat
    /\ spins \in [Threads -> 1..MAX_SPINS]
    /\ wait_state \in [Threads -> Nat]
    /\ version \in [Threads -> Nat]
    /\ laps \in [Threads -> 0..LAPS]

\* One thread at a time is between lock_acquire and lock_exit's exchange.
MutualExclusion ==
    \A t, u \in Threads : pc[t] = "locked" /\ pc[u] = "locked" => t = u

\* lock_signal wakes up any waiting thread, and the last attempt before the wait
\* avoids the race with a releaser: it never comes to pass that every thread
\* is done or asleep and some thread is asleep.
NoThreadLeftAsleep ==
    (\A t \in Threads : Done(t) \/ Asleep(t)) => (\A t \in Threads : Done(t))

=============================================================================
