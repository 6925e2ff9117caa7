# Verification of the lockhammer synchronization benchmarks

lockhammer measures locks: it starts a number of threads pinned to CPUs, lets all of
them acquire and release one lock as fast as they can, and reports what they did. A
measurement is worth something only if the lock under test is correct and if the
harness starts, stops and counts as it says. This directory models both: TLA+ modules
for the locks and for the harness, TLC configurations for small instances, and TLAPS
proofs for every number of threads where the argument is worth having in general.

## The system and what is modelled

| part | source | module | state |
|---|---|---|---|
| ticket lock | `ext/linux/ticket_spinlock.h` | `TicketSpinlock` | modelled, proved |
| CLH lock | `ext/sms/clh_spinlock.h` | `ClhSpinlock` | modelled, proved |
| queued spinlock | `ext/linux/queued_spinlock.h`, `lk_atomics.h` | `QueuedSpinlock` | modelled but for two branches, proved |
| optimistic spin queue | `ext/linux/osq_lock.h` | `OsqLock` | lock modelled, proved; its options are not |
| event mutex, both variants | `ext/mysql/*event_mutex.h` | `EventMutex` | modelled, proved |
| barrier of the threads | `src/measure.c: synchronize_threads` | `SyncBarrier` | modelled, proved |
| threads, main program, timeout | `src/measure.c: hmr`, `src/lockhammer.c: run_one_experiment` | `Experiment` | control modelled, proved |
| object monitor | `ext/jvm/jvm_objectmonitor.h` | `ObjectMonitor` | monitor modelled, proved; options and dead branches are not |
| hybrid spinlocks | `ext/linux/hybrid_spinlock.h`, `hybrid_spinlock_fastdequeue.h` | `HybridSpinlock` | modelled, aarch64 |
| reader-writer mutex | `ext/tbb/tbb_spin_rw_mutex.h`, `tbb.h` | `SpinRwMutex` | modelled, proved |
| word locks | `tests/` | | not modelled, see below |
| placement on CPUs, calibration | `src/lockhammer.c`, `src/measure.c` | | not modelled, see below |
| options, memory, reports, cpufreq, timers, scripts | `args.c`, `alloc.c`, `report.c`, ... | | not modelled: parsing, formatting, calls into the system |

The abstract specification of a queueing lock is `FifoLock`: one holder at a time, in the
order of joining. The ticket and the CLH lock are proved to implement it; for the queued
spinlock this (`ServedInOrder`) is model-checked. "Proved" in the table is about the safety
properties of the module; what remains with TLC is listed below. `Experiment`
extends `SyncBarrier` and uses its actions as the barrier calls of `hmr()`; the lock
under test is there an action that one thread at a time can take.

## How the modules read

A lock module has the shared words and nodes as variables, named as in the source,
`pc[t]` for where thread `t` is, and one action per access to shared memory. Accesses
that nobody else can observe are joined to the next one; where that is done a comment
says why it makes no difference. A load followed by a compare-and-exchange of the same
expected value is one step, because the pair fails exactly where one of the two would.
Local variables that are dead are reset, so that they do not multiply states.

The interleavings are those of sequentially consistent memory. The acquire and release
annotations of the code, and the reorderings a missing one would allow, are not modelled.

Integers that wrap are modelled with their wrap: the two halves of the ticket word are
counted modulo `TICKETS` (2^16 on aarch64, 2^15 on x86_64, where the increment is two).
The tail of the queued spinlock is encoded and decoded as in the source; its 14 bits for
a CPU are more than lockhammer's 513 threads need, so their width is not modelled.
`atomic_fetch_or_acquire32` is a compare-and-exchange loop on x86_64, of which only the
exchange that succeeds has an effect: one step. The slow path's fallback for a thread
without a free node (`queued_spinlock.h:427-431`) is not modelled; `QueuedTypeCorrect`
shows that a thread uses one node of its four.

`Experiment` follows the main thread (`main`, `idx`, `handler`) and each `hmr` thread
(`pc`, with `at` for its place in the barrier). Cancellation is asynchronous from
`pthread_setcanceltype` on: a pending one takes effect between any two steps, through
`thread_cleanup_routine` once that is pushed. `pthread_cancel` of a handle that is not
a thread is undefined behaviour; the outcomes are spelled out at the head of the module.
SIGALRM is sent to the process; it is taken to be handled in the main thread, which is
where Linux delivers it while that thread does not block it. All measurements have the
same number of threads.
The results record keeps the acquisitions and the measurement they are from, not times.

`ObjectMonitor` has the monitor's fields in `mon`, the waiter node and the park event of
each thread in `node` and `ev`. Threads go through `Enter`, up to three calls of
`TrySpin` (`call` says which), the push on `cxq`, `park` or `parkTimed`, and `Exit` with
its move of `cxq` to `EntryList` and `unpark`. Each read and each store of `_succ`,
`_owner` and the lists is a step; a list that only the owner can change is walked in one.
The nodes of a list (`OnList`) are the least set that has its head and is closed under
`next`, which is what a walk visits and needs no recursion.
`_SpinDuration`, which racing threads adapt, is a free choice of when to stop spinning:
after a failed probe, or after the claim of `_succ` that follows it, with no other probe.
A timed wait may end at any moment. (`compute_abstime` reads `CLOCK_MONOTONIC`, the
condition variable has the default `CLOCK_REALTIME`, so in practice it ends at once.)
Mutexes and condition variables are the C library's; spurious wake-ups are allowed.

`HybridSpinlock` is one module for two headers. `threshold` and `dequeue`, chosen in
`Init` and never changed, say which: `dequeue = 0` is `hybrid_spinlock.h`. Byte widths are
kept, `rev16` and `word - (word << 8)` are modelled with what they do to the other bytes:

* `rev16` leaves a tail of two equal bytes unchanged, so the test for "no queue" passes
  although thread 256 (tail 0x0404) is last in the queue. `TicketsInOrder` excepts that
  state; the order of service is broken there, mutual exclusion and progress are not.
* The subtraction borrows when the serving byte is small, so one more queued waiter than
  `_Q_DEQUEUE_THRESHOLD` can leave the queue early. This is why `HybridAssumption` asks
  for a threshold at least two above it, which 6 and 2 satisfy: with `<<2, 1>>` in
  `Builds`, `TicketWindow` fails.

`SpinRwMutex` keeps the three fields of the word apart and has the role of each thread
computed from its counter twice, as `lock_acquire` and `lock_release` do. Any set of
threads may be pure readers. The pauses between attempts are only time.

Definitions that start with the comment "Mutant" are wrong variants of the definition
below them, kept to show that each property can fail.

## The runs

| run | instance | shows |
|---|---|---|
| `ticket` | 3 threads, 4 tickets | mutual exclusion, implementation of `FifoLock`, outstanding tickets equal the distance of the halves, depth bounds the wait, no starvation |
| `clh` | 3 threads, 4 nodes | mutual exclusion, nodes never shared, FIFO, no starvation |
| `queued` | 3 threads | locked byte, pending byte and tail always match the threads, nodes are given back, FIFO, no starvation |
| `osq` | 3 threads, one unqueue each per acquisition | one owner, never none while threads are queued, consistent links and tail, no starvation |
| `event_mutex` | 2 threads, 3 acquisitions each | mutual exclusion, no thread left asleep |
| `experiment` | 2 threads, 2 measurements, 3 barriers, a timeout at any moment | handshake, barrier, reported counts, termination |
| `event_mutex_signal` | 3 threads | **violation**: lost increment of the generation, a waiter asleep for ever |
| `event_mutex_exclusive` | 2 threads, store-exclusive | **violation**: spurious failure of the last attempt, same result |
| `object_monitor` | 3 threads | one owner, every waiter on exactly one list, the assertions of `EnterI`, a successor that is still trying, no waiter asleep on a free monitor (see below) |
| `hybrid` | 4 threads, bytes of 8 values, 3 pairs of thresholds | tickets never more than a byte can tell apart, tickets in queue order, no starvation |
| `spin_rw` | 4 threads, ratios 1 and 2, any pure readers | readers or one writer and the word says who, the pending bit protects a writer from readers, someone always gets in |
| `experiment_timeout` | as `experiment` | **violation**: a timeout during thread creation does not end the benchmark |

`PROJECT.json` gives for each violation the lines of code and the comment or help text
that says otherwise. A comment in `lock_exit`
(`event_mutex.h:219-229`, inherited from MySQL) says that missed wake-ups are repaired by
a thread that runs every second; lockhammer has no such thread. In the event mutexes a later release by another thread wakes the
sleeper, so the hang shows at the end of a run of a fixed number of acquisitions. In
`experiment_timeout` the one-shot timer expires between two `pthread_create` calls of
a second measurement, the handler cancels the threads made so far, and those made
later wait for them in the handshake.

### The event that is initialised again

`object_monitor` checks `SuccessorIsTrying` and `NoWaiterForgottenUnlessReinit` under the
condition `~reinit`: no event was initialised while its mutex was held. Without the
condition `NoWaiterForgotten` is false, although the header says that `unpark` "must signal
target thread" (`jvm_objectmonitor.h:505`) and that `Exit` calls `ExitEpilog` "to wake that
next thread up" (1060-1062). `tlc -config MCObjectMonitorReinit.cfg MCObjectMonitor`, a
configuration kept beside the runs, finds a trace of 69 states with three threads in less
than a minute. `EnterI` calls `parkevent_init` for its own event each time it queues
(`jvm_objectmonitor.h:912`), although the comment at line 188 calls the event "persistent
through a measurement". A slow unparker A still holds the mutex of t's event, from an
earlier wake-up that t noticed by itself; t queues again and re-initialises the mutex; t locks
it, A's unlock then frees it under t; t has seen `_Event < 0` and not yet started to wait
when B unparks it, and B's signal finds nobody. t sleeps with `_succ` naming it, so later
exits do not wake it either. The condition is on the history only: everything else about
events, the late signal to a thread that is queued again included, is checked.

### Bounds

* `Threads`, `N`: three threads give a queue with a head, a middle and a tail, and in
  `queued` an owner, a pending thread and a queue. Two are enough for the harness: the
  handshake distinguishes only the marshal from the others, and its safety is proved for
  any number.
  The properties of `experiment` also hold with three threads and two barriers (2,007,435
  states, six minutes), which is not kept as a run for its length.
* `TICKETS = 4`: the least with room for three outstanding tickets, as the code needs
  more tickets than threads; the halves wrap every four acquisitions.
* `MAX_UNQUEUES = 1` (`osq`): each waiter may give up once in each acquisition, so all
  three can be giving up together. Giving up without bound would be starvation by choice.
* `PENDING_LOOPS = 1` and `MAX_NODES = 4` are the values of the source.
* `LAPS`, `MAX_SPINS` (`event_mutex`): acquisitions per thread, polls before a wait
  (30 in the source; more polls only repeat the same test).
* `BARRIERS = 3`: both senses of the barrier word and a reuse of the first; the code has
  7, or 8 with `osq_lock`. `EXPERIMENTS = 2` is needed for stale handles.
  `ACQUIRES`, `INNER` = 2: a whole inner loop, with a cancellation inside it.
* `object_monitor`: three threads are an owner, a waiter on each list or two on one, and
  an unparker that is late. Threads go round without bound. Its 2.7 million states, the
  threads being symmetric, leave no room for a fourth.
* `BYTE = 8`, `NODES = 1`, threads {0, 1, 2, 8} (`hybrid`): the ticket bytes wrap, and
  thread 8 has the tail of two equal bytes that thread 256 has in the code. Thresholds
  <<1, 0>>, <<2, 0>> and <<3, 1>> are passed with four threads as 4 and <<6, 2>> are with
  more. A thread never needs a second node (`TypeOK`), so one per thread is enough.
* `N = 4`, `Ratios = {1, 2}` (`spin_rw`): always writers, and writers every other time;
  with the pure readers these give every mix of roles.

Deadlock is checked in the seven lock runs that go on for ever. It is not in the runs of
`EventMutex`, whose threads stop after `LAPS`, and of `Experiment`, which ends.

### Fairness

The ticket, CLH, queued, spin queue, hybrid and reader-writer modules assume weak fairness of the steps of a thread inside `lock_acquire`,
the critical section and `lock_release`: threads have CPUs of their own and the critical
section is a counted loop. Nothing is assumed about calling `lock_acquire` again, nor,
in `OsqLock`, about giving up. `EventMutex` and `ObjectMonitor` state no fairness: their
properties are invariants; lost wake-ups are stated as states nobody will leave.
`SpinRwMutex` promises a writer nothing before it has set the pending bit: its
compare-and-exchange may fail again and again, since each retry may load a word without
readers. Nor is it promised anything against other writers. Both are outside
`ReadersDoNotStarveWriter`. `Experiment` assumes weak fairness of the main thread, of
each `hmr` thread and of the delivery of a cancellation, and nothing about the timer.

## What is proved

`TicketSpinlock_proofs`, for any finite set of threads smaller than `TICKETS` (the
assumption `TicketAssumption`; lockhammer has at most 513 threads):

* `TicketTypeCorrect`, `TicketWindow`, `TicketMutualExclusion`.
* Mutual exclusion is not inductive. `IInv` adds that the outstanding tickets are
  distinct (`DistinctTickets`), lie in the window from `serving` to `next` (`InWindow`),
  which has as many tickets as there are active threads (`TicketsOutstanding`), that a
  holder has the ticket being served (`HolderIsServed`), and that the half word loaded by
  `lock_release` is still current (`LoadIsFresh`). Since the active threads are fewer
  than the tickets, a new ticket is never one still in use. `Distance*` lemmas carry the
  modular arithmetic.
* `TicketDepthBoundsWait` follows from the same invariant: the depth that
  `lock_acquire` returns is the distance of its ticket from `serving` when it was taken.
* `TicketServedInOrder` maps the state to the active threads in the order of their
  tickets. The queue of the refinement mapping is a CHOOSE of a sequence, so most of the
  proof shows that `IInv` determines it: the lemmas give the sequence that
  `lock_acquire` (at the end) and `lock_release` (at the front) turn it into.

`ClhSpinlock_proofs`, for any finite set of threads:

* `ClhMutualExclusion`, `ClhNodesNotShared`, `ClhServedInOrder`.
* `IInv`: every thread has one node coming to it, its own while it is outside the queue
  and its predecessor's while it is in it, and these and `tail` are all different
  (`NextNodesDistinct`); queued nodes are different too (`QueuedNodesDistinct`); every
  queued node but the tail has a thread that waits for it (`HasSuccessor`), and keeps it
  waiting (`KeepsWaiting`). If two queued threads did not spin, two nodes would have to
  be the tail.
* `ClhServedInOrder` maps the state to the chain of `prev` pointers, a CHOOSE. That there
  is only one such chain would need an induction along it; instead it is part of the
  invariant (`QueueDetermined`): a chain that is the only one stays so when a thread is
  appended (`ListGrows`) and when the first one leaves (`ListShrinks`).

`QueuedSpinlock_proofs`, for any number of threads, `MAX_NODES` and `PENDING_LOOPS`:

* `QueuedTypeCorrect`, `QueuedMutualExclusion`, `QueuedWordMatches`.
* The three fields of the word are stored independently, so `IInv` gives each an owner.
  `Bytes`: the locked byte is set exactly while one thread owns the lock, the pending byte
  while one thread is to clear it. `Queue`: the threads of the queue can be numbered so
  that each is one above the thread whose node it found in the tail, the head lowest and
  the tail naming the highest; a head that still finds itself in the tail is therefore
  alone. `Links`: `next` leads to the thread that found this node. `NodesInUse`: a thread
  has one node, and none when it returns. The numbering is under a quantifier: it is not
  in the code, and each step has to produce the next one.

`OsqLock_proofs`, for any number of threads and of times each gives up:

* `OsqTypeCorrect`, `OsqOneOwner`, `OsqQueueIntact`.
* `IInv` again numbers the queued threads, the owner lowest and the tail highest, and
  ties each waiting thread to the one before it in one of four ways (`Linked`): it is
  about to link itself; it has undone the link in step A and is leaving; it is linked; or
  the one before, which unlocks or leaves, has taken the link. In the second case the
  thread in front has no next and is not the tail, so `osq_wait_next` keeps it where it
  is; in the last, step A of the thread behind does not find itself and waits for the
  lock or a new `prev`. So two neighbours never leave together, which is what steps B
  and C rely on and what neither `OneOwner` nor `QueueIntact` says.

`EventMutex_proofs`, for any finite set of threads, `LAPS` and `MAX_SPINS`:

* `EventTypeCorrect` and `EventMutualExclusion`, for both variants: the word is LOCKED
  exactly while a thread is inside.
* `EventTwoThreadsWake`, with the hypotheses `Cardinality(Threads) <= 2` and `~LLSC`: no
  thread is left asleep. With one waiter only the other thread can store the generation,
  so its load and store do not race. The two violation runs show that the theorem is
  false without either hypothesis.

`SpinRwMutex_proofs`, for any number of threads and any set of positive ratios:

* `RwExclusion`. `IInv` adds to `ReadersXorWriter` that a thread releases in the role it
  acquired in (`RoleKept`), although it computes it twice, and that the exchange of a
  writer is tried only on a word without holders (`CasFromFree`).

`Experiment_proofs`, the barrier alone and in the harness, for any number of threads:

* `BarrierTypeCorrect`, `BarrierSafe`: the barrier alone (`BarrierSpec`), used any number
  of times. `IInv` says that every thread has passed as many barriers as were opened, or
  one less while it waits with the old sense (`Level`); that the count is the number of
  threads that have arrived for the next opening (`CountIsArrived`); that a sense read is
  still current until the thread has arrived (`FreshSense`); and that a thread about to
  open the barrier is the only one, with everyone arrived (`OpenerIsLast`, `OneOpener`).
  A late thread is not counted, so the barrier cannot be opened again before it has left.
* `ExperimentTypeCorrect`, `ExperimentBarrierHolds`, `ExperimentSyncWord`,
  `ExperimentReports`, `SetupFindsNoThread`: the harness, with any number of barriers,
  measurements and acquisitions (whole inner loops, `ExperimentAssumption`) and a timer
  that may expire at any moment. `ExpInv` keeps the barrier's `IInv`, which a cancelled
  thread does not disturb, since it keeps its place and no barrier opens that it has not
  arrived at; ties the phase
  of the main thread to where the threads are; says that `p_sync_lock` is twice the number
  of threads past their first step plus the marshal's bit; and bounds what a thread has
  counted and not published by its place in the loop. Every thread is joined before
  the next setup clears the words, so no old thread uses them.

`ObjectMonitor_proofs`, for any set of threads, finite or not, that does not contain the
null pointer (`MonitorAssumption`):

* `MonitorTypeCorrect`, `MonitorOneOwner`, `MonitorWaitersOnOneList`,
  `MonitorSuccessorIsTrying`, `MonitorNoWaiterForgotten`, and `MonitorUnlinkAsserts`: the
  assertions of `UnlinkAfterAcquire` never fail. All follow from `MonInv`
  (`MonitorInvariant`), which TLC has also checked for three threads.
* `MonitorEnterIAssertions` needs one more fact, `Responsibility`: a thread that
  `_Responsible` names is in the part of `EnterI` that ends by clearing the field.
* `Threads` says what is known of a thread from its place. `Lists`: `cxq`, the list being
  moved and `EntryList` hold exactly the queued threads, each in the state of its list; no
  two nodes of `cxq` have the same next. A list is a least closed set, so no induction is
  needed: the old head is the next of a pushed node, and a list without an unlinked node
  is closed (`ListPushed`, `ListUnlinked`).
* `Mutexes` gives the mutex of an event one holder, `Permits` says that a sleeper with a
  permit has been signalled or will be, `Successor` that `_succ` is queued or spinning
  and `Awake`: it will look at the owner again, has a permit or is about to get one.
* `Attended` is what `NoWaiterForgotten` needs to be inductive: a free monitor with
  waiters has a thread that will try to take it, will find the waiters in `Exit`, rests
  with a permit, is the successor, or is on its way to unpark a queued thread.
* `MonitorSuccessorIsTrying` and `MonitorNoWaiterForgotten` assume, like the properties
  they state, that no event was initialised while its mutex was held (`~reinit`); the
  others do not.

Only model-checked:

* all liveness (starvation, termination): the proof system has no rules for fairness and
  ENABLED here;
* `ServedInOrder` of the queued spinlock, whose order joins an owner, a pending thread
  and the queue: not attempted yet;
* the hybrid spinlocks: not attempted. Their invariants rest on byte arithmetic (`rev16`, a
  subtraction that borrows into the next byte), which a proof would have to split by cases.

## Not modelled

* Weak memory: see above.
* `atomics.h` built with `USE_BUILTIN`: `cas64` stores the expected value and
  `cas64_acquire` is a weak exchange. Neither is the default; the models take the
  exchange that the default build has. Both are listed as hazards.
* The word locks of `tests/` (`cas_lockref`, `cas_rw_lock`, `swap_mutex`,
  `incdec_refcount`): loops around one atomic primitive. The pthread tests use the C
  library's mutex.
* `hybrid_spinlock_old_fastdequeue.h`: no program is built from it. On x86_64 the
  `lock_acquire` of the hybrid headers is an unfinished stub, so only aarch64 is modelled.
* Placement on CPUs, blackhole calibration, clock estimation, reports: sequential
  computations on numbers and configuration.
* Options, memory, cpufreq checks, timers, scripts: parsing, formatting, calls into the
  system.

## Plan

1. Done: inventory, the queueing locks, event mutexes, harness, first proofs.
2. Done: `ObjectMonitor`, `HybridSpinlock`, `SpinRwMutex`.
3. Done: proofs of the safety of the queueing locks, the event mutexes, the harness, the
   reader-writer mutex and the object monitor; order of service of the ticket and the CLH
   lock.
4. Open: the order of service of the queued spinlock, along the lines of the CLH lock;
   the hybrid spinlock's tickets.
