---------------------------- MODULE SyncBarrier ----------------------------
(***************************************************************************)
(* synchronize_threads() of benchmarks/lockhammer/src/measure.c: a linear  *)
(* barrier on one 64-bit word, used again and again without being reset.   *)
(* Bits 31..1 of the word count the threads that have arrived, bit 60 is a *)
(* sense bit that the last arrival flips while it clears the count.        *)
(***************************************************************************)
EXTENDS Integers, FiniteSets

CONSTANT N  \* num_threads

ASSUME ThreadCountAssumption == N \in Nat \ {0}

Threads == 0..(N - 1)

VARIABLES
    barrier,   \* the word: [sense, count]
    at,        \* at[t]: "out" of the barrier, or its next step in it
    mysense,   \* mysense[t]: local variable global_sense
    passed,    \* passed[t]: barriers thread t has left
    releases   \* history: times the last arrival has opened the barrier

barrierVars == <<barrier, at, mysense, passed, releases>>

BarrierInit ==
    /\ barrier = [sense |-> 0, count |-> 0]
    /\ at = [t \in Threads |-> "out"]
    /\ mysense = [t \in Threads |-> 0]
    /\ passed = [t \in Threads |-> 0]
    /\ releases = 0

\* Read the sense bit before announcing the arrival.
ReadSense(t) ==
    /\ at[t] = "out"
    /\ mysense' = [mysense EXCEPT ![t] = barrier.sense]
    /\ at' = [at EXCEPT ![t] = "add"]
    /\ UNCHANGED <<barrier, passed, releases>>

\* fetchadd64_acquire(barrier, 2), and the comparison of the old value with that
\* of the last arrival.
\* Mutant: off by one, the last but one arrival opens the barrier.
ArriveEarly(t) ==
    /\ at[t] = "add"
    /\ barrier' = [barrier EXCEPT !.count = @ + 1]
    /\ at' = [at EXCEPT ![t] =
                 IF barrier.count + 1 >= N - 1 /\ barrier.sense = mysense[t]
                 THEN "open" ELSE "wait"]
    /\ UNCHANGED <<mysense, passed, releases>>

Arrive(t) ==
    /\ at[t] = "add"
    /\ barrier' = [barrier EXCEPT !.count = @ + 1]
    /\ at' = [at EXCEPT ![t] =
                 IF barrier.count = N - 1 /\ barrier.sense = mysense[t]
                 THEN "open" ELSE "wait"]
    /\ UNCHANGED <<mysense, passed, releases>>

\* One store clears the count and flips the sense.
\* Mutant: the count is not cleared.
OpenKeepsCount(t) ==
    /\ at[t] = "open"
    /\ barrier' = [barrier EXCEPT !.sense = 1 - mysense[t]]
    /\ at' = [at EXCEPT ![t] = "out"]
    /\ passed' = [passed EXCEPT ![t] = @ + 1]
    /\ releases' = releases + 1
    /\ UNCHANGED mysense

Open(t) ==
    /\ at[t] = "open"
    /\ barrier' = [sense |-> 1 - mysense[t], count |-> 0]
    /\ at' = [at EXCEPT ![t] = "out"]
    /\ passed' = [passed EXCEPT ![t] = @ + 1]
    /\ releases' = releases + 1
    /\ UNCHANGED mysense

\* wait32 on the upper half of the word, where only the sense bit is ever set.
\* Mutant: waits for a change of the whole word, which a new arrival is too.
WaitSenseWholeWord(t) ==
    /\ at[t] = "wait"
    /\ barrier = [sense |-> 1 - mysense[t], count |-> 0]
    /\ at' = [at EXCEPT ![t] = "out"]
    /\ passed' = [passed EXCEPT ![t] = @ + 1]
    /\ UNCHANGED <<barrier, mysense, releases>>

WaitSense(t) ==
    /\ at[t] = "wait"
    /\ barrier.sense = 1 - mysense[t]
    /\ at' = [at EXCEPT ![t] = "out"]
    /\ passed' = [passed EXCEPT ![t] = @ + 1]
    /\ UNCHANGED <<barrier, mysense, releases>>

BarrierNext ==
    \E t \in Threads : ReadSense(t) \/ Arrive(t) \/ Open(t) \/ WaitSense(t)

BarrierSpec == BarrierInit /\ [][BarrierNext]_barrierVars

-----------------------------------------------------------------------------
\* The variables are in their ranges; the count never reaches the sense bit.
BarrierTypeOK ==
    /\ barrier \in [sense : {0, 1}, count : 0..N]
    /\ at \in [Threads -> {"out", "add", "open", "wait"}]
    /\ mysense \in [Threads -> {0, 1}]
    /\ passed \in [Threads -> Nat]
    /\ releases \in Nat

\* Nobody leaves a barrier that somebody has still to reach: a thread that is one
\* barrier behind another has arrived at it and only has to notice, and no thread
\* is ever two behind, so no sense flip is missed.
BarrierHolds ==
    \A t, u \in Threads :
        passed[t] > passed[u] => /\ passed[t] = passed[u] + 1
                                 /\ at[u] = "wait"
                                 /\ barrier.sense = 1 - mysense[u]

=============================================================================
