---------------------------- MODULE SpinRwMutex -----------------------------
(***************************************************************************)
(* ext/tbb/tbb_spin_rw_mutex.h and the atomics of ext/tbb/include/tbb.h: a *)
(* reader-writer lock in one word, made of a writer bit, a bit with which  *)
(* a waiting writer asks readers to wait, and the number of readers.  A    *)
(* counter of each thread says which acquisitions are writes.  The pauses  *)
(* between attempts are only time.                                         *)
(***************************************************************************)
EXTENDS Integers, FiniteSets

CONSTANTS
    N,          \* number of threads
    Ratios      \* values of 2^log2_ratio

ASSUME RwAssumption == N \in Nat \ {0} /\ Ratios \subseteq Nat \ {0}

Threads == 0..(N - 1)

VARIABLES
    state,      \* the word: [writer, pending, readers]
    ratio,      \* rw_mask + 1, never changes
    pure,       \* threads whose pure_reader is set, never changes
    c,          \* c[t]: rw_counts[t].c, of which only c & rw_mask matters
    pc,         \* where each thread is
    s           \* s[t]: the word a writer loaded, None when it is of no use

vars == <<state, ratio, pure, c, pc, s>>

Word(w, p, r) == [writer |-> w, pending |-> p, readers |-> r]
None == Word(0, 0, 0)

\* tbb_init_locks: any threads may be pure readers, and the counters start apart.
Init ==
    /\ state = Word(0, 0, 0)
    /\ ratio \in Ratios
    /\ pure \in SUBSET Threads
    /\ c = [t \in Threads |-> t % ratio]
    /\ pc = [t \in Threads |-> "idle"]
    /\ s = [t \in Threads |-> None]

Goto(t, l) == pc' = [pc EXCEPT ![t] = l]

\* is_writer: the counter after adding val, and the role it gives.
Count(t, val) == IF t \in pure THEN c[t] ELSE (c[t] + val) % ratio
is_writer(t, val) == t \notin pure /\ Count(t, val) = 0

BUSY(w) == w.writer = 1 \/ w.readers # 0

\* __TBB_AtomicOR(WRITER_PENDING), __TBB_AtomicAND(READERS), __TBB_FetchAndAddW of
\* n readers, and the compare-and-exchange of the word.
AtomicOR == state' = [state EXCEPT !.pending = 1]

\* Mutant: the release stores 0.
AtomicANDAll == state' = Word(0, 0, 0)

AtomicAND == state' = [state EXCEPT !.writer = 0, !.pending = 0]

FetchAndAddW(n) == state' = [state EXCEPT !.readers = @ + n]

CAS(new, old) == state' = IF state = old THEN new ELSE state

-----------------------------------------------------------------------------
\* lock_acquire: count the acquisition and do it as a reader or as a writer.
lock_acquire(t) ==
    /\ pc[t] = "idle"
    /\ c' = [c EXCEPT ![t] = Count(t, 1)]
    /\ Goto(t, IF is_writer(t, 1) THEN "writer" ELSE "reader")
    /\ UNCHANGED <<state, ratio, pure, s>>

\* internal_acquire_writer, the load: try when nobody has the lock, else set the
\* pending bit if it is not set.
WriterLoads(t) ==
    /\ pc[t] = "writer"
    /\ \/ /\ ~BUSY(state)
          /\ s' = [s EXCEPT ![t] = state]
          /\ Goto(t, "cas")
       \/ /\ BUSY(state) /\ state.pending = 0
          /\ Goto(t, "set_pending")
          /\ UNCHANGED s
    /\ UNCHANGED <<state, ratio, pure, c>>

\* The exchange takes the pending bit away with whatever it replaces.
WriterTakes(t) ==
    /\ pc[t] = "cas"
    /\ CAS(Word(1, 0, 0), s[t])
    /\ s' = [s EXCEPT ![t] = None]
    /\ Goto(t, IF state = s[t] THEN "writing" ELSE "writer")
    /\ UNCHANGED <<ratio, pure, c>>

WriterAsks(t) ==
    /\ pc[t] = "set_pending"
    /\ AtomicOR
    /\ Goto(t, "writer")
    /\ UNCHANGED <<ratio, pure, c, s>>

\* internal_acquire_reader, the load: no writer and no request of a writer.
\* Mutant: the request is not looked at.
ReaderLoadsWriterOnly(t) ==
    /\ pc[t] = "reader"
    /\ state.writer = 0
    /\ Goto(t, "add")
    /\ UNCHANGED <<state, ratio, pure, c, s>>

ReaderLoads(t) ==
    /\ pc[t] = "reader"
    /\ state.writer = 0 /\ state.pending = 0
    /\ Goto(t, "add")
    /\ UNCHANGED <<state, ratio, pure, c, s>>

\* Count this reader in, and see whether a writer got there first.
ReaderAdds(t) ==
    /\ pc[t] = "add"
    /\ FetchAndAddW(1)
    /\ Goto(t, IF state.writer = 0 THEN "reading" ELSE "undo")
    /\ UNCHANGED <<ratio, pure, c, s>>

\* Mutant: the count is left as it is.
ReaderUndoesNothing(t) ==
    /\ pc[t] = "undo"
    /\ Goto(t, "reader")
    /\ UNCHANGED <<state, ratio, pure, c, s>>

ReaderUndoes(t) ==
    /\ pc[t] = "undo"
    /\ FetchAndAddW(-1)
    /\ Goto(t, "reader")
    /\ UNCHANGED <<ratio, pure, c, s>>

\* lock_release: as a writer or as a reader, by what the counter says now.
lock_release(t) ==
    /\ pc[t] \in {"reading", "writing"}
    /\ IF is_writer(t, 0) THEN AtomicAND ELSE FetchAndAddW(-1)
    /\ Goto(t, "idle")
    /\ UNCHANGED <<ratio, pure, c, s>>

InsideStep(t) ==
    \/ WriterLoads(t)
    \/ WriterTakes(t)
    \/ WriterAsks(t)
    \/ ReaderLoads(t)
    \/ ReaderAdds(t)
    \/ ReaderUndoes(t)
    \/ lock_release(t)

Next == \E t \in Threads : lock_acquire(t) \/ InsideStep(t)

Spec == Init /\ [][Next]_vars

\* Every thread has a CPU of its own: once in lock_acquire it keeps running, and
\* it releases what it got.
FairSpec == Spec /\ \A t \in Threads : WF_vars(InsideStep(t))

-----------------------------------------------------------------------------
At(l) == {t \in Threads : pc[t] = l}

\* One writer or any number of readers have the lock, and the word says who: the
\* writer bit is set while one writes, the readers are those that read and those
\* about to take their count back, which a writer's release leaves alone, and
\* lock_release does as lock_acquire did.  The pending bit is never left behind
\* by a writer that no longer waits: it would keep the readers out for ever.
ReadersXorWriter ==
    /\ At("writing") # {} => At("reading") = {} /\ Cardinality(At("writing")) = 1
    /\ state.writer = Cardinality(At("writing"))
    /\ state.readers = Cardinality(At("reading") \cup At("undo"))
    /\ \A t \in At("reading") \cup At("writing") : is_writer(t, 0) <=> pc[t] = "writing"
    /\ state.pending = 1 => At("writer") \cup At("cas") # {}

\* The pending bit does its work: once a writer asks, readers alone, however many
\* come and go, do not keep it waiting for ever.  Before it asks they may: each
\* time its exchange fails it starts again with a load, which may find no reader.
ReadersDoNotStarveWriter ==
    \A t \in Threads :
        pc[t] = "set_pending" /\ pure = Threads \ {t} ~> pc[t] = "writing"

\* The lock never stands still: while threads wait for it, some thread gets it.
\* Readers that take their counts back do not keep the writers out, nor writers
\* that ask for the lock one another.
SomeoneGetsIn ==
    At("writer") \cup At("reader") # {} ~> At("writing") \cup At("reading") # {}

=============================================================================
