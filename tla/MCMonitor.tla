------------------------------ MODULE MCMonitor ------------------------------
(* The instances of Monitor the configurations check. *)
EXTENDS Monitor
=============================================================================
