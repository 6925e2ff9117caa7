----------------------------- MODULE Experiment -----------------------------
(***************************************************************************)
(* The harness around a lock under test: run_one_experiment() of           *)
(* lockhammer.c in the main thread, hmr() of measure.c in the N threads it *)
(* creates, and the --timeout-usecs timer whose handler cancels them.      *)
(* The lock is whatever lock.acquire / lock.release promise: a mutex.      *)
(*                                                                         *)
(* Cancelling a handle that is not a thread's is undefined in POSIX.  The  *)
(* null handle of a thread never created ends the process.  The handle of  *)
(* a joined thread is an error, on which the handler exits, or, in C       *)
(* libraries that still find the thread marked as exited, has no effect.   *)
(***************************************************************************)
EXTENDS SyncBarrier

CONSTANTS
    BARRIERS,      \* uses of p_calibrate_lock by hmr: 7, and 8 with osq_lock
    EXPERIMENTS,   \* bound: measurements made one after the other
    ACQUIRES,      \* num_acquires; bound on the acquisitions of a timed run
    INNER,         \* run_limit_inner_loop_iters
    TIMEOUT,       \* is --timeout-usecs given?
    NONE

ASSUME ExperimentAssumption ==
    /\ {BARRIERS, EXPERIMENTS, ACQUIRES, INNER} \subseteq Nat \ {0}
    /\ ACQUIRES % INNER = 0
    /\ TIMEOUT \in BOOLEAN
    /\ NONE \notin Threads

VARIABLES
    main,        \* where run_one_experiment is
    idx,         \* its loop index i
    run,         \* measurement_counter
    timer,       \* "off" or "armed"
    installed,   \* is main_alarm_handler the action for SIGALRM?
    handler,     \* loop index of the handler in the main thread, or NONE
    handle,      \* hmr_threads[i]: "never" created, "live" or "joined"
    process,     \* "running" or "exited"
    early,       \* history: SIGALRM came while threads were being created
    sync,        \* *p_sync_lock
    ready,       \* *p_ready_lock
    holder,      \* owner of the lock under test
    timed,       \* run_limit_ticks # 0
    pc,          \* pc[t]: where hmr is
    pending,     \* pending[t]: cancellation requested
    acquires,    \* acquires[t]: lock_acquires
    published,   \* published[t]: cs.lock_acquires
    results,     \* results[t]: results.lock_acquires and the run they are of
    sections     \* history: critical sections t completed in this run

mainVars == <<main, idx, run, timer, installed, handler, handle, process, early>>
hmrVars == <<sync, ready, holder, timed, pc, pending, acquires, published, results,
             sections>>
vars == <<barrierVars, mainVars, hmrVars>>

Init ==
    /\ BarrierInit
    /\ main = "setup" /\ idx = 0 /\ run = 1
    /\ timer = "off" /\ installed = FALSE /\ handler = NONE
    /\ handle = [t \in Threads |-> "never"]
    /\ process = "running" /\ early = FALSE
    /\ sync = 0 /\ ready = 0 /\ holder = NONE
    /\ timed \in BOOLEAN
    /\ pc = [t \in Threads |-> "none"]
    /\ pending = [t \in Threads |-> FALSE]
    /\ acquires = [t \in Threads |-> 0]
    /\ published = [t \in Threads |-> 0]
    /\ results = [t \in Threads |-> [run |-> 0, acquires |-> 0]]
    /\ sections = [t \in Threads |-> 0]

-----------------------------------------------------------------------------
(* The main thread: it takes no step of its own while it is in the handler. *)

MainAt(where) == process = "running" /\ handler = NONE /\ main = where

\* The four words are cleared and the lock under test is initialised.
Setup ==
    /\ MainAt("setup")
    /\ sync' = 0 /\ ready' = 0 /\ holder' = NONE
    /\ barrier' = [sense |-> 0, count |-> 0]
    /\ passed' = [t \in Threads |-> 0] /\ releases' = 0
    /\ at' = [t \in Threads |-> "out"] /\ mysense' = [t \in Threads |-> 0]
    /\ acquires' = [t \in Threads |-> 0] /\ published' = [t \in Threads |-> 0]
    /\ sections' = [t \in Threads |-> 0]
    /\ main' = "arm" /\ idx' = 0
    /\ UNCHANGED <<run, timer, installed, handler, handle, process, early, timed, pc,
                   pending, results>>

\* setitimer comes before sigaction.
Arm ==
    /\ MainAt("arm")
    /\ timer' = IF TIMEOUT THEN "armed" ELSE "off"
    /\ main' = "install"
    /\ UNCHANGED <<idx, run, installed, handler, handle, process, early, barrierVars,
                   hmrVars>>

Install ==
    /\ MainAt("install")
    /\ installed' = (installed \/ TIMEOUT \/ timed)
    /\ main' = "create"
    /\ UNCHANGED <<idx, run, timer, handler, handle, process, early, barrierVars, hmrVars>>

Create ==
    /\ MainAt("create") /\ idx < N
    /\ handle' = [handle EXCEPT ![idx] = "live"]
    /\ pc' = [pc EXCEPT ![idx] = "inc_sync"]
    /\ pending' = [pending EXCEPT ![idx] = FALSE]
    /\ idx' = idx + 1
    /\ UNCHANGED <<main, run, timer, installed, handler, process, early, barrierVars, sync,
                   ready, holder, timed, acquires, published, results, sections>>

AllCreated ==
    /\ MainAt("create") /\ idx = N
    /\ main' = "join" /\ idx' = 0
    /\ UNCHANGED <<run, timer, installed, handler, handle, process, early, barrierVars,
                   hmrVars>>

\* pthread_join, in index order.
Join ==
    /\ MainAt("join") /\ idx < N
    /\ pc[idx] = "exited"
    /\ handle' = [handle EXCEPT ![idx] = "joined"]
    /\ idx' = idx + 1
    /\ UNCHANGED <<main, run, timer, installed, handler, process, early, barrierVars,
                   hmrVars>>

\* disable_itimer and the reports, then the next measurement.
Report ==
    /\ MainAt("join") /\ idx = N
    /\ timer' = "off"
    /\ main' = IF run < EXPERIMENTS THEN "setup" ELSE "end"
    /\ run' = IF run < EXPERIMENTS THEN run + 1 ELSE run
    /\ UNCHANGED <<idx, installed, handler, handle, process, early, barrierVars, hmrVars>>

\* The one-shot timer expires: SIGALRM ends the process until the handler is set.
Expire ==
    /\ process = "running" /\ timer = "armed" /\ handler = NONE
    /\ timer' = "off"
    /\ IF installed THEN handler' = 0 /\ UNCHANGED process
                    ELSE process' = "exited" /\ UNCHANGED handler
    /\ early' = (early \/ (main = "create" /\ idx \in 1..(N - 1)))
    /\ UNCHANGED <<main, idx, run, installed, handle, barrierVars, hmrVars>>

\* One iteration of the handler's loop.
HandlerStep ==
    /\ process = "running" /\ handler # NONE
    /\ \/ /\ handle[handler] = "live"
          /\ pending' = [pending EXCEPT ![handler] = TRUE]
          /\ UNCHANGED process
       \/ /\ handle[handler] = "never"
          /\ process' = "exited"
          /\ UNCHANGED pending
       \/ /\ handle[handler] = "joined"
          /\ process' \in {"running", "exited"}
          /\ UNCHANGED pending
    /\ handler' = IF handler < N - 1 THEN handler + 1 ELSE NONE
    /\ UNCHANGED <<main, idx, run, timer, installed, handle, early, barrierVars, sync,
                   ready, holder, timed, pc, acquires, published, results, sections>>

-----------------------------------------------------------------------------
(* A measuring thread. *)

At(t, where) == process = "running" /\ pc[t] = where

Goto(t, where) == pc' = [pc EXCEPT ![t] = where]

\* fetchadd64_acquire(p_sync_lock, 2)
IncSync(t) ==
    /\ At(t, "inc_sync")
    /\ sync' = sync + 2
    /\ Goto(t, "set_async")
    /\ UNCHANGED <<ready, holder, timed, pending, acquires, published, results, sections,
                   mainVars, barrierVars>>

\* A cancellation that is already pending acts as soon as it may.
SetAsync(t) ==
    /\ At(t, "set_async")
    /\ Goto(t, IF pending[t] THEN "exited" ELSE "push")
    /\ UNCHANGED <<sync, ready, holder, timed, pending, acquires, published, results,
                   sections, mainVars, barrierVars>>

\* pthread_cleanup_push, then thread_local_init and the affinity.
Push(t) ==
    /\ At(t, "push")
    /\ Goto(t, IF t = 0 THEN "wait_ready" ELSE "inc_ready")
    /\ UNCHANGED <<sync, ready, holder, timed, pending, acquires, published, results,
                   sections, mainVars, barrierVars>>

\* The marshal, thread 0, waits for the others ...
\* Mutant: it does not.
WaitReadyNot(t) ==
    /\ At(t, "wait_ready")
    /\ Goto(t, "set_lsb")
    /\ UNCHANGED <<sync, ready, holder, timed, pending, acquires, published, results,
                   sections, mainVars, barrierVars>>

WaitReady(t) ==
    /\ At(t, "wait_ready") /\ ready = N - 1
    /\ Goto(t, "set_lsb")
    /\ UNCHANGED <<sync, ready, holder, timed, pending, acquires, published, results,
                   sections, mainVars, barrierVars>>

\* ... and sets the lsb of p_sync_lock.
SetLsb(t) ==
    /\ At(t, "set_lsb")
    /\ sync' = sync + 1
    /\ Goto(t, "calibrate")
    /\ UNCHANGED <<ready, holder, timed, pending, acquires, published, results, sections,
                   mainVars, barrierVars>>

IncReady(t) ==
    /\ At(t, "inc_ready")
    /\ ready' = ready + 1
    /\ Goto(t, "wait_sync")
    /\ UNCHANGED <<sync, holder, timed, pending, acquires, published, results, sections,
                   mainVars, barrierVars>>

\* wait64 for the one value ((num_threads * 2) | 1).
WaitSync(t) ==
    /\ At(t, "wait_sync") /\ sync = 2 * N + 1
    /\ Goto(t, "calibrate")
    /\ UNCHANGED <<sync, ready, holder, timed, pending, acquires, published, results,
                   sections, mainVars, barrierVars>>

\* The barriers of calibrate_timer and the one before the measurement.
Calibrate(t) ==
    /\ At(t, "calibrate")
    /\ passed[t] < BARRIERS
    /\ ReadSense(t) \/ Arrive(t) \/ Open(t) \/ WaitSense(t)
    /\ UNCHANGED <<hmrVars, mainVars>>

StartMeasuring(t) ==
    /\ At(t, "calibrate") /\ passed[t] = BARRIERS
    /\ Goto(t, "acquire")
    /\ UNCHANGED <<sync, ready, holder, timed, pending, acquires, published, results,
                   sections, mainVars, barrierVars>>

\* lock_acquire returns with the lock.
Acquire(t) ==
    /\ At(t, "acquire") /\ holder = NONE
    /\ holder' = t
    /\ Goto(t, "hold")
    /\ UNCHANGED <<sync, ready, timed, pending, acquires, published, results, sections,
                   mainVars, barrierVars>>

Release(t) ==
    /\ At(t, "hold")
    /\ holder' = NONE
    /\ sections' = [sections EXCEPT ![t] = @ + 1]
    /\ Goto(t, "count")
    /\ UNCHANGED <<sync, ready, timed, pending, acquires, published, results, mainVars,
                   barrierVars>>

\* lock_acquires++; a timed run is still inside its inner loop.
Count(t) ==
    /\ At(t, "count")
    /\ acquires' = [acquires EXCEPT ![t] = @ + 1]
    /\ Goto(t, IF timed /\ acquires'[t] % INNER # 0 THEN "acquire" ELSE "publish")
    /\ UNCHANGED <<sync, ready, holder, timed, pending, published, results, sections,
                   mainVars, barrierVars>>

\* cs.lock_acquires = lock_acquires, and the test of the loop: a counted run stops
\* after num_acquires, a timed one when its ticks are over.
Publish(t) ==
    /\ At(t, "publish")
    /\ published' = [published EXCEPT ![t] = acquires[t]]
    /\ \/ (timed \/ acquires[t] = ACQUIRES) /\ Goto(t, "record")
       \/ acquires[t] < ACQUIRES /\ Goto(t, "acquire")
    /\ UNCHANGED <<sync, ready, holder, timed, pending, acquires, results, sections,
                   mainVars, barrierVars>>

\* Results of a thread that ran to its end.
Record(t) ==
    /\ At(t, "record")
    /\ results' = [results EXCEPT ![t] = [run |-> run, acquires |-> acquires[t]]]
    /\ Goto(t, "pop")
    /\ UNCHANGED <<sync, ready, holder, timed, pending, acquires, published, sections,
                   mainVars, barrierVars>>

\* pthread_cleanup_pop(0) and return.
Pop(t) ==
    /\ At(t, "pop")
    /\ Goto(t, "exited")
    /\ UNCHANGED <<sync, ready, holder, timed, pending, acquires, published, results,
                   sections, mainVars, barrierVars>>

\* Where the thread has no cleanup routine pushed or is not asynchronously cancellable.
Uncancellable == {"none", "inc_sync", "set_async", "push", "exited"}

\* Asynchronous cancellation between pthread_cleanup_push and pop: the thread runs
\* thread_cleanup_routine, wherever it is, with the lock held if it held it.
\* Mutant: the routine records nothing.
CancelledRecordsNothing(t) ==
    /\ process = "running" /\ pending[t]
    /\ pc[t] \notin Uncancellable
    /\ results' = [results EXCEPT ![t] = [run |-> run, acquires |-> 0]]
    /\ Goto(t, "exited")
    /\ UNCHANGED <<sync, ready, holder, timed, pending, acquires, published, sections,
                   mainVars, barrierVars>>

Cancelled(t) ==
    /\ process = "running" /\ pending[t]
    /\ pc[t] \notin Uncancellable
    /\ results' = [results EXCEPT ![t] = [run |-> run, acquires |-> published[t]]]
    /\ Goto(t, "exited")
    /\ UNCHANGED <<sync, ready, holder, timed, pending, acquires, published, sections,
                   mainVars, barrierVars>>

\* Cancelled before the cleanup routine is pushed: the results are not touched.
CancelledBeforePush(t) ==
    /\ At(t, "push") /\ pending[t]
    /\ Goto(t, "exited")
    /\ UNCHANGED <<sync, ready, holder, timed, pending, acquires, published, results,
                   sections, mainVars, barrierVars>>

-----------------------------------------------------------------------------
Hmr(t) ==
    \/ IncSync(t) \/ SetAsync(t) \/ Push(t)
    \/ WaitReady(t) \/ SetLsb(t) \/ IncReady(t) \/ WaitSync(t)
    \/ Calibrate(t) \/ StartMeasuring(t)
    \/ Acquire(t) \/ Release(t) \/ Count(t) \/ Publish(t) \/ Record(t) \/ Pop(t)

Cancel(t) == Cancelled(t) \/ CancelledBeforePush(t)

Main == Setup \/ Arm \/ Install \/ Create \/ AllCreated \/ Join \/ Report \/ HandlerStep

Ended == process = "exited" \/ main = "end"

Next == Main \/ Expire \/ \E t \in Threads : Hmr(t) \/ Cancel(t)

\* The operating system runs every thread and delivers a cancellation; whether the
\* timer expires in time is nobody's promise.
Fairness ==
    /\ WF_vars(Main)
    /\ \A t \in Threads : WF_vars(Hmr(t)) /\ WF_vars(Cancel(t))

Spec == Init /\ [][Next]_vars /\ Fairness

-----------------------------------------------------------------------------
\* The variables are in their ranges.
TypeOK ==
    /\ BarrierTypeOK
    /\ idx \in 0..N /\ run \in 1..EXPERIMENTS
    /\ handler \in Threads \cup {NONE}
    /\ sync \in 0..(2 * N + 1) /\ ready \in 0..(N - 1)
    /\ holder \in Threads \cup {NONE}
    /\ \A t \in Threads :
          /\ acquires[t] \in 0..ACQUIRES /\ published[t] \in 0..acquires[t]
          /\ sections[t] \in 0..ACQUIRES /\ passed[t] \in 0..BARRIERS

\* The start-up handshake: when the marshal has set the lsb, p_sync_lock holds the very
\* value ((num_threads * 2) | 1) that the others wait for, whatever was cancelled.
SyncWordComplete == sync % 2 = 1 => sync = 2 * N + 1

\* What a thread reports counts its completed critical sections, short of at most the
\* INNER ones (one in a counted run) that a cancelled thread had not yet published.
ReportedAcquires ==
    \A t \in Threads :
        pc[t] = "exited" /\ results[t].run = run =>
            /\ results[t].acquires <= sections[t]
            /\ sections[t] - results[t].acquires <= IF timed THEN INNER ELSE 1
            /\ ~pending[t] /\ ~timed => results[t].acquires = ACQUIRES

\* Every measurement ends, in its reports or, after a timeout, in an exit, if the timer
\* does not expire while the main thread is creating threads.
EndsUnlessEarly == <>(Ended \/ early)

\* --timeout-usecs: "kill benchmark if it exceeds this number of microseconds".
TimeoutEndsBenchmark == <>Ended

=============================================================================
