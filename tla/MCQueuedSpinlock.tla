-------------------------- MODULE MCQueuedSpinlock --------------------------
(* Three threads: an owner, a pending thread and a queue, with the owner free *)
(* to come back and disturb the hand-over to the queue.                       *)
EXTENDS QueuedSpinlock
=============================================================================
