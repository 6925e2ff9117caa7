--------------------------- MODULE MCSpinRwMutex ----------------------------
(* Four threads, each of them possibly a pure reader. *)
EXTENDS SpinRwMutex
=============================================================================
