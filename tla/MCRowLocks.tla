----------------------------- MODULE MCRowLocks -----------------------------
(* Instances of RowLocks for TLC.                                          *)
EXTENDS RowLocks
=============================================================================
