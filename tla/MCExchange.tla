----------------------------- MODULE MCExchange -----------------------------
(* One exchange after another, with the bounds its configurations give it. *)
EXTENDS Exchange
=============================================================================
