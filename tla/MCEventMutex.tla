---------------------------- MODULE MCEventMutex ----------------------------
(* Small instances of the event mutexes. *)
EXTENDS EventMutex
=============================================================================
