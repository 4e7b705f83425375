------------------------------ MODULE MCUaLink ------------------------------
(* The instances of UaLink the configurations check. *)
EXTENDS UaLink
=============================================================================
