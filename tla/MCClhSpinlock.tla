---------------------------- MODULE MCClhSpinlock ----------------------------
(* Three threads: a node can pass through every thread before it comes back. *)
EXTENDS ClhSpinlock
=============================================================================
