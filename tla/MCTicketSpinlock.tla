-------------------------- MODULE MCTicketSpinlock --------------------------
(* Three threads and four tickets: the half words wrap every fourth ticket. *)
EXTENDS TicketSpinlock
=============================================================================
