---------------------------- MODULE MCRecordStore ----------------------------
(* The instances of RecordStore the configurations check. *)
EXTENDS RecordStore
=============================================================================
