------------------------ MODULE SpinRwMutex_proofs ------------------------
(***************************************************************************)
(* Readers exclude the writer, for any number of threads and any mix of    *)
(* roles.  The word is an exact account of the threads: its reader count   *)
(* is the number of threads that read or are about to take their count     *)
(* back, its writer bit the number of those that write.  What keeps the    *)
(* account exact is that a thread releases in the role it acquired in,     *)
(* which it computes anew from its counter, and that a writer's exchange   *)
(* only succeeds on a word without readers.                                *)
(***************************************************************************)
EXTENDS SpinRwMutex, FiniteSetTheorems, TLAPS

WriterLabels == {"writer", "cas", "set_pending", "writing"}
ReaderLabels == {"reader", "add", "undo", "reading"}

Words == [writer : {0, 1}, pending : {0, 1}, readers : Nat]

RwTypeOK ==
    /\ state \in Words
    /\ ratio \in Nat \ {0}
    /\ c \in [Threads -> Nat]
    /\ \A t \in Threads : c[t] < ratio
    /\ pc \in [Threads -> WriterLabels \cup ReaderLabels \cup {"idle"}]
    /\ s \in [Threads -> Words]

\* The exchange is only tried on a word that gives the lock to nobody.
CasFromFree ==
    \A t \in Threads : pc[t] = "cas" => s[t].writer = 0 /\ s[t].readers = 0

\* The counter gives the role of the acquisition until the next one.
RoleKept ==
    \A t \in Threads :
        /\ pc[t] \in WriterLabels => is_writer(t, 0)
        /\ pc[t] \in ReaderLabels => ~is_writer(t, 0)

IInv == RwTypeOK /\ CasFromFree /\ RoleKept /\ ReadersXorWriter

-----------------------------------------------------------------------------
LEMMA ModBelow ==
    ASSUME NEW a \in Nat, NEW r \in Nat \ {0}
    PROVE  a % r \in Nat /\ a % r < r
OBVIOUS

LEMMA ModSmall ==
    ASSUME NEW a \in Nat, NEW r \in Nat \ {0}, a < r
    PROVE  (a + 0) % r = a
OBVIOUS

LEMMA ThreadsFinite ==
    ASSUME NEW S \in SUBSET Threads
    PROVE  IsFiniteSet(S) /\ Cardinality(S) \in Nat
<1>1. IsFiniteSet(Threads)
  BY RwAssumption, FS_Interval DEF Threads
<1>. QED
  BY <1>1, FS_Subset, FS_CardinalityType

LEMMA OneMore ==
    ASSUME NEW S \in SUBSET Threads, NEW t \in Threads, t \notin S
    PROVE  Cardinality(S \cup {t}) = Cardinality(S) + 1
BY ThreadsFinite, FS_AddElement

LEMMA OneLess ==
    ASSUME NEW S \in SUBSET Threads, NEW t \in S
    PROVE  Cardinality(S \ {t}) = Cardinality(S) - 1 /\ Cardinality(S) >= 1
<1>1. Cardinality(S \ {t}) = Cardinality(S) - 1
  BY ThreadsFinite, FS_RemoveElement
<1>2. Cardinality(S) \in Nat /\ Cardinality(S \ {t}) \in Nat
  BY ThreadsFinite
<1>. QED
  BY <1>1, <1>2

LEMMA NoneLeft ==
    ASSUME NEW S \in SUBSET Threads
    PROVE  Cardinality(S) = 0 <=> S = {}
BY ThreadsFinite, FS_EmptySet

\* Threads counted in the word's reader field.
Counted == At("reading") \cup At("undo")

\* A step that moves no thread in or out of the lock, and does not touch the
\* account of it in the word, keeps the account.
LEMMA AccountKept ==
    ASSUME IInv, RoleKept',
           At("writing")' = At("writing"), At("reading")' = At("reading"),
           At("undo")' = At("undo"),
           state'.writer = state.writer, state'.readers = state.readers,
           state'.pending = 1 => At("writer")' \cup At("cas")' # {}
    PROVE  ReadersXorWriter'
BY DEF IInv, ReadersXorWriter, RoleKept, At, WriterLabels, ReaderLabels

\* The role depends on the counter alone.
LEMMA RoleOfOthers ==
    ASSUME IInv, NEW t \in Threads, NEW u \in Threads \ {t},
           ratio' = ratio, pure' = pure, c'[u] = c[u], pc'[u] = pc[u]
    PROVE  /\ pc'[u] \in WriterLabels => is_writer(u, 0)'
           /\ pc'[u] \in ReaderLabels => ~is_writer(u, 0)'
BY DEF IInv, RoleKept, is_writer, Count

LEMMA InitInv == Init => IInv
<1>. SUFFICES ASSUME Init PROVE IInv
  OBVIOUS
<1>1. RwTypeOK
  <2>1. ratio \in Nat \ {0}
    BY RwAssumption DEF Init
  <2>2. \A t \in Threads : t % ratio \in Nat /\ t % ratio < ratio
    BY <2>1, RwAssumption, ModBelow DEF Threads
  <2>. QED
    BY <2>1, <2>2 DEF Init, RwTypeOK, Words, Word, None
<1>2. \A t \in Threads : pc[t] = "idle"
  BY DEF Init
<1>3. CasFromFree /\ RoleKept
  BY <1>2 DEF CasFromFree, RoleKept, WriterLabels, ReaderLabels
<1>4. At("writing") = {} /\ At("reading") = {} /\ At("undo") = {}
  BY <1>2 DEF At
<1>5. state.writer = 0 /\ state.pending = 0 /\ state.readers = 0
  BY DEF Init, Word
<1>6. ReadersXorWriter
  BY <1>4, <1>5, FS_EmptySet DEF ReadersXorWriter
<1>. QED
  BY <1>1, <1>3, <1>6 DEF IInv

LEMMA AcquireInv ==
    ASSUME IInv, NEW t \in Threads, lock_acquire(t)
    PROVE  IInv'
<1>. USE DEF IInv
<1>1. Count(t, 1) \in Nat /\ Count(t, 1) < ratio
  BY ModBelow DEF Count, RwTypeOK
<1>2. RwTypeOK'
  BY <1>1 DEF RwTypeOK, lock_acquire, Goto, WriterLabels, ReaderLabels
<1>3. CasFromFree'
  BY DEF CasFromFree, lock_acquire, Goto, RwTypeOK
<1>4. is_writer(t, 0)' <=> is_writer(t, 1)
  <2>1. CASE t \in pure
    BY <2>1 DEF is_writer, lock_acquire
  <2>2. CASE t \notin pure
    <3>1. c'[t] = Count(t, 1) /\ ratio' = ratio /\ pure' = pure
      BY DEF lock_acquire, RwTypeOK
    <3>2. (c'[t] + 0) % ratio' = c'[t]
      BY <1>1, <3>1, ModSmall DEF RwTypeOK
    <3>. QED
      BY <2>2, <3>1, <3>2 DEF is_writer, Count
  <2>. QED
    BY <2>1, <2>2
<1>5. RoleKept'
  <2>. SUFFICES ASSUME NEW u \in Threads
       PROVE  /\ pc'[u] \in WriterLabels => is_writer(u, 0)'
              /\ pc'[u] \in ReaderLabels => ~is_writer(u, 0)'
    BY DEF RoleKept
  <2>1. CASE u = t
    <3>1. pc'[t] = IF is_writer(t, 1) THEN "writer" ELSE "reader"
      BY DEF lock_acquire, Goto, RwTypeOK
    <3>. QED
      BY <2>1, <3>1, <1>4 DEF WriterLabels, ReaderLabels
  <2>2. CASE u # t
    BY <2>2, RoleOfOthers DEF lock_acquire, Goto, RwTypeOK
  <2>. QED
    BY <2>1, <2>2
<1>6. /\ At("writing")' = At("writing") /\ At("reading")' = At("reading")
      /\ At("undo")' = At("undo") /\ At("writer") \subseteq At("writer")'
      /\ At("cas")' = At("cas")
  BY DEF At, lock_acquire, Goto, RwTypeOK
<1>7. ReadersXorWriter'
  BY <1>5, <1>6, AccountKept DEF lock_acquire, ReadersXorWriter
<1>. QED
  BY <1>2, <1>3, <1>5, <1>7

\* Inside an acquisition the counter stays, and so does the role.
LEMMA RoleKeptInside ==
    ASSUME IInv, UNCHANGED <<ratio, pure, c>>, NEW t \in Threads, NEW l, Goto(t, l),
           l \in WriterLabels => pc[t] \in WriterLabels,
           l \in ReaderLabels => pc[t] \in ReaderLabels
    PROVE  RoleKept'
BY DEF IInv, RoleKept, is_writer, Count, Goto, RwTypeOK

LEMMA WriterLoadsInv ==
    ASSUME IInv, NEW t \in Threads, WriterLoads(t)
    PROVE  IInv'
<1>. USE DEF IInv
<1>1. PICK l \in {"cas", "set_pending"} : Goto(t, l)
  BY DEF WriterLoads
<1>2. RwTypeOK'
  BY DEF RwTypeOK, WriterLoads, Goto, WriterLabels, ReaderLabels
<1>3. CasFromFree'
  BY DEF CasFromFree, WriterLoads, Goto, RwTypeOK, BUSY, Words
<1>4. RoleKept'
  BY <1>1, RoleKeptInside DEF WriterLoads, WriterLabels, ReaderLabels
<1>5. /\ At("writing")' = At("writing") /\ At("reading")' = At("reading")
      /\ At("undo")' = At("undo")
  BY <1>1 DEF At, WriterLoads, Goto, RwTypeOK
<1>6. state'.pending = 1 => At("writer")' \cup At("cas")' # {}
  <2>. SUFFICES ASSUME state.pending = 1 PROVE pc'[t] = "cas"
    BY DEF WriterLoads, At
  <2>. QED
    BY DEF WriterLoads, Goto, RwTypeOK
<1>7. ReadersXorWriter'
  BY <1>4, <1>5, <1>6, AccountKept DEF WriterLoads
<1>. QED
  BY <1>2, <1>3, <1>4, <1>7

\* The exchange: on success nobody reads or writes, and the thread is the writer.
LEMMA WriterTakesInv ==
    ASSUME IInv, NEW t \in Threads, WriterTakes(t)
    PROVE  IInv'
<1>. USE DEF IInv
<1>1. RwTypeOK'
  BY DEF RwTypeOK, WriterTakes, CAS, Goto, WriterLabels, ReaderLabels, Words, Word, None
<1>2. CasFromFree'
  BY DEF CasFromFree, WriterTakes, Goto, RwTypeOK
<1>3. RoleKept'
  BY RoleKeptInside DEF WriterTakes, WriterLabels, ReaderLabels
<1>4. CASE state = s[t]
  <2>1. state.writer = 0 /\ state.readers = 0
    BY <1>4 DEF WriterTakes, CasFromFree
  <2>2. At("writing") = {} /\ Counted = {}
    BY <2>1, NoneLeft DEF ReadersXorWriter, At, Counted
  <2>3. At("writing")' = {t} /\ At("reading")' = {} /\ At("undo")' = {}
    BY <1>4, <2>2 DEF At, Counted, WriterTakes, Goto, RwTypeOK
  <2>4. state'.writer = 1 /\ state'.readers = 0 /\ state'.pending = 0
    BY <1>4 DEF WriterTakes, CAS, Word
  <2>5. Cardinality({t}) = 1 /\ Cardinality({}) = 0
    BY FS_Singleton, FS_EmptySet
  <2>6. \A u \in {t} : is_writer(u, 0)' /\ pc'[u] = "writing"
    BY <1>4, <1>3 DEF RoleKept, WriterLabels, WriterTakes, Goto, RwTypeOK
  <2>7. ReadersXorWriter'
    BY <2>3, <2>4, <2>5, <2>6 DEF ReadersXorWriter
  <2>. QED
    BY <1>1, <1>2, <1>3, <2>7
<1>5. CASE state # s[t]
  <2>1. /\ At("writing")' = At("writing") /\ At("reading")' = At("reading")
        /\ At("undo")' = At("undo") /\ At("writer")' # {}
    BY <1>5 DEF At, WriterTakes, Goto, RwTypeOK
  <2>2. state' = state
    BY <1>5 DEF WriterTakes, CAS
  <2>3. ReadersXorWriter'
    BY <1>3, <2>1, <2>2, AccountKept
  <2>. QED
    BY <1>1, <1>2, <1>3, <2>3
<1>. QED
  BY <1>4, <1>5

LEMMA WriterAsksInv ==
    ASSUME IInv, NEW t \in Threads, WriterAsks(t)
    PROVE  IInv'
<1>. USE DEF IInv
<1>1. RwTypeOK'
  BY DEF RwTypeOK, WriterAsks, AtomicOR, Goto, WriterLabels, ReaderLabels, Words
<1>2. CasFromFree'
  BY DEF CasFromFree, WriterAsks, Goto, RwTypeOK
<1>3. RoleKept'
  BY RoleKeptInside DEF WriterAsks, WriterLabels, ReaderLabels
<1>4. /\ At("writing")' = At("writing") /\ At("reading")' = At("reading")
      /\ At("undo")' = At("undo") /\ At("writer")' # {}
  BY DEF At, WriterAsks, Goto, RwTypeOK
<1>5. state'.writer = state.writer /\ state'.readers = state.readers
  BY DEF WriterAsks, AtomicOR, RwTypeOK, Words
<1>6. ReadersXorWriter'
  BY <1>3, <1>4, <1>5, AccountKept
<1>. QED
  BY <1>1, <1>2, <1>3, <1>6

LEMMA ReaderLoadsInv ==
    ASSUME IInv, NEW t \in Threads, ReaderLoads(t)
    PROVE  IInv'
<1>. USE DEF IInv
<1>1. RwTypeOK'
  BY DEF RwTypeOK, ReaderLoads, Goto, WriterLabels, ReaderLabels
<1>2. CasFromFree'
  BY DEF CasFromFree, ReaderLoads, Goto, RwTypeOK
<1>3. RoleKept'
  BY RoleKeptInside DEF ReaderLoads, WriterLabels, ReaderLabels
<1>4. /\ At("writing")' = At("writing") /\ At("reading")' = At("reading")
      /\ At("undo")' = At("undo")
  BY DEF At, ReaderLoads, Goto, RwTypeOK
<1>5. ReadersXorWriter'
  BY <1>3, <1>4, AccountKept DEF ReaderLoads
<1>. QED
  BY <1>1, <1>2, <1>3, <1>5

\* The waiting writers are none of a reader's business.
LEMMA PendingKept ==
    ASSUME IInv, NEW t \in Threads, pc[t] \notin {"writer", "cas"}, NEW l, Goto(t, l),
           state'.pending = state.pending
    PROVE  state'.pending = 1 => At("writer")' \cup At("cas")' # {}
<1>1. At("writer") \cup At("cas") \subseteq At("writer")' \cup At("cas")'
  BY DEF At, Goto, IInv, RwTypeOK
<1>. QED
  BY <1>1 DEF IInv, ReadersXorWriter

LEMMA ReaderAddsInv ==
    ASSUME IInv, NEW t \in Threads, ReaderAdds(t)
    PROVE  IInv'
<1>. USE DEF IInv
<1>1. RwTypeOK'
  BY DEF RwTypeOK, ReaderAdds, FetchAndAddW, Goto, WriterLabels, ReaderLabels, Words
<1>2. CasFromFree'
  BY DEF CasFromFree, ReaderAdds, Goto, RwTypeOK
<1>3. RoleKept'
  BY RoleKeptInside DEF ReaderAdds, WriterLabels, ReaderLabels
<1>4. /\ state'.writer = state.writer /\ state'.pending = state.pending
      /\ state'.readers = state.readers + 1
  BY DEF ReaderAdds, FetchAndAddW, RwTypeOK, Words
<1>5. /\ At("writing")' = At("writing")
      /\ t \notin Counted /\ Counted' = Counted \cup {t}
      /\ At("reading")' = IF state.writer = 0 THEN At("reading") \cup {t}
                                              ELSE At("reading")
  BY DEF At, Counted, ReaderAdds, Goto, RwTypeOK
<1>6. Cardinality(Counted') = Cardinality(Counted) + 1
  BY <1>5, OneMore DEF Counted, At
<1>7. At("writing")' # {} => At("reading")' = {} /\ Cardinality(At("writing")') = 1
  BY <1>5, NoneLeft DEF ReadersXorWriter, At
<1>8. state'.pending = 1 => At("writer")' \cup At("cas")' # {}
  BY <1>4, PendingKept DEF ReaderAdds
<1>9. ReadersXorWriter'
  BY <1>3, <1>4, <1>5, <1>6, <1>7, <1>8
     DEF ReadersXorWriter, Counted, RoleKept, At, WriterLabels, ReaderLabels
<1>. QED
  BY <1>1, <1>2, <1>3, <1>9

LEMMA ReaderUndoesInv ==
    ASSUME IInv, NEW t \in Threads, ReaderUndoes(t)
    PROVE  IInv'
<1>. USE DEF IInv
<1>1. /\ At("writing")' = At("writing") /\ At("reading")' = At("reading")
      /\ t \in Counted /\ Counted' = Counted \ {t}
  BY DEF At, Counted, ReaderUndoes, Goto, RwTypeOK
<1>2. /\ Cardinality(Counted') = Cardinality(Counted) - 1
      /\ state.readers = Cardinality(Counted) /\ Cardinality(Counted) >= 1
  BY <1>1, OneLess DEF Counted, At, ReadersXorWriter
<1>3. RwTypeOK'
  BY <1>2 DEF RwTypeOK, ReaderUndoes, FetchAndAddW, Goto, WriterLabels, ReaderLabels, Words
<1>4. CasFromFree'
  BY DEF CasFromFree, ReaderUndoes, Goto, RwTypeOK
<1>5. RoleKept'
  BY RoleKeptInside DEF ReaderUndoes, WriterLabels, ReaderLabels
<1>6. /\ state'.writer = state.writer /\ state'.pending = state.pending
      /\ state'.readers = state.readers - 1
  BY DEF ReaderUndoes, FetchAndAddW, RwTypeOK, Words
<1>7. state'.pending = 1 => At("writer")' \cup At("cas")' # {}
  BY <1>6, PendingKept DEF ReaderUndoes
<1>8. ReadersXorWriter'
  BY <1>1, <1>2, <1>5, <1>6, <1>7
     DEF ReadersXorWriter, Counted, RoleKept, At, WriterLabels, ReaderLabels
<1>. QED
  BY <1>3, <1>4, <1>5, <1>8

\* The release is the writer's exactly if the writer makes it.
LEMMA ReleaseInv ==
    ASSUME IInv, NEW t \in Threads, lock_release(t)
    PROVE  IInv'
<1>. USE DEF IInv
<1>1. is_writer(t, 0) <=> pc[t] = "writing"
  BY DEF lock_release, RoleKept, WriterLabels, ReaderLabels
<1>2. CasFromFree'
  BY DEF CasFromFree, lock_release, Goto, RwTypeOK
<1>3. RoleKept'
  BY RoleKeptInside DEF lock_release, WriterLabels, ReaderLabels
<1>4. CASE pc[t] = "writing"
  <2>1. /\ state'.writer = 0 /\ state'.pending = 0
        /\ state'.readers = state.readers
    BY <1>1, <1>4 DEF lock_release, AtomicAND, RwTypeOK, Words
  <2>2. RwTypeOK'
    BY <1>1, <1>4 DEF RwTypeOK, lock_release, AtomicAND, Goto, WriterLabels, ReaderLabels, Words
  <2>3. At("writing") = {t}
    <3>1. Cardinality(At("writing")) = 1
      BY <1>4 DEF ReadersXorWriter, At
    <3>2. PICK x : At("writing") = {x}
      BY <3>1, ThreadsFinite, FS_Singleton DEF At
    <3>. QED
      BY <1>4, <3>2 DEF At
  <2>4. At("writing")' = {} /\ At("reading")' = At("reading") /\ At("undo")' = At("undo")
    BY <1>4, <2>3 DEF At, lock_release, Goto, RwTypeOK
  <2>5. ReadersXorWriter'
    BY <1>3, <2>1, <2>4, FS_EmptySet
       DEF ReadersXorWriter, RoleKept, At, WriterLabels, ReaderLabels
  <2>. QED
    BY <1>2, <1>3, <2>2, <2>5
<1>5. CASE pc[t] = "reading"
  <2>1. /\ At("writing")' = At("writing") /\ At("reading")' = At("reading") \ {t}
        /\ t \in Counted /\ Counted' = Counted \ {t}
    BY <1>5 DEF At, Counted, lock_release, Goto, RwTypeOK
  <2>2. /\ Cardinality(Counted') = Cardinality(Counted) - 1
        /\ state.readers = Cardinality(Counted) /\ Cardinality(Counted) >= 1
    BY <2>1, OneLess DEF Counted, At, ReadersXorWriter
  <2>3. FetchAndAddW(-1)
    BY <1>1, <1>5 DEF lock_release
  <2>4. RwTypeOK'
    BY <2>2, <2>3 DEF RwTypeOK, lock_release, FetchAndAddW, Goto, WriterLabels, ReaderLabels, Words
  <2>5. /\ state'.writer = state.writer /\ state'.pending = state.pending
        /\ state'.readers = state.readers - 1
    BY <2>3 DEF FetchAndAddW, RwTypeOK, Words
  <2>6. state'.pending = 1 => At("writer")' \cup At("cas")' # {}
    BY <1>5, <2>5, PendingKept DEF lock_release
  <2>7. ReadersXorWriter'
    BY <1>3, <2>1, <2>2, <2>5, <2>6
       DEF ReadersXorWriter, Counted, RoleKept, At, WriterLabels, ReaderLabels
  <2>. QED
    BY <1>2, <1>3, <2>4, <2>7
<1>. QED
  BY <1>4, <1>5 DEF lock_release

LEMMA StepInv == IInv /\ [Next]_vars => IInv'
<1>. SUFFICES ASSUME IInv, [Next]_vars PROVE IInv'
  OBVIOUS
<1>1. CASE UNCHANGED vars
  BY <1>1 DEF vars, IInv, RwTypeOK, CasFromFree, RoleKept, ReadersXorWriter, At,
              is_writer, Count
<1>2. ASSUME NEW t \in Threads, lock_acquire(t) PROVE IInv'
  BY <1>2, AcquireInv
<1>3. ASSUME NEW t \in Threads, InsideStep(t) PROVE IInv'
  BY <1>3, WriterLoadsInv, WriterTakesInv, WriterAsksInv, ReaderLoadsInv, ReaderAddsInv,
     ReaderUndoesInv, ReleaseInv DEF InsideStep
<1>. QED
  BY <1>1, <1>2, <1>3 DEF Next

-----------------------------------------------------------------------------
\* The inductive invariant holds of the lock of tbb_spin_rw_mutex.h.
THEOREM RwInvariant == Spec => []IInv
BY InitInv, StepInv, PTL DEF Spec

\* One writer or any number of readers have the lock, and the word says who.
THEOREM RwExclusion == Spec => []ReadersXorWriter
<1>1. IInv => ReadersXorWriter
  BY DEF IInv
<1>. QED
  BY <1>1, RwInvariant, PTL

=============================================================================
