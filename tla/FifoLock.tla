------------------------------ MODULE FifoLock ------------------------------
(***************************************************************************)
(* What the queueing locks promise: threads are served one at a time, in   *)
(* the order in which they joined.  queue holds the threads that have      *)
(* joined and not yet released, oldest first; granted says whether the     *)
(* oldest one already has the lock.  A thread that finds nobody before it  *)
(* may be granted the lock by the very step that makes it join.            *)
(***************************************************************************)
EXTENDS Sequences, Naturals

CONSTANT Threads

VARIABLES queue, granted

vars == <<queue, granted>>

Init == queue = <<>> /\ granted = FALSE

Join(t) ==
    /\ \A i \in 1..Len(queue) : queue[i] # t
    /\ queue' = Append(queue, t)
    /\ granted' \in {granted, granted \/ queue = <<>>}

Grant ==
    /\ queue # <<>>
    /\ ~granted
    /\ granted' = TRUE
    /\ UNCHANGED queue

Leave ==
    /\ granted
    /\ queue' = Tail(queue)
    /\ granted' = FALSE

Next == (\E t \in Threads : Join(t)) \/ Grant \/ Leave

Spec == Init /\ [][Next]_vars

=============================================================================
