----------------------------- MODULE MCOsqLock -----------------------------
(* Three threads, each of which may give up once per acquisition. *)
EXTENDS OsqLock
=============================================================================
