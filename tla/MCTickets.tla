------------------------------- MODULE MCTickets -------------------------------
(* Model values and bounds for checking Tickets with TLC. *)
EXTENDS Tickets
================================================================================
