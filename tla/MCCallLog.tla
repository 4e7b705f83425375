------------------------------ MODULE MCCallLog ------------------------------
(* The record of calls, with the bounds its configurations give it.        *)
EXTENDS CallLog
=============================================================================
