----------------------------- MODULE MCCHWriter -----------------------------
(* Instances of CHWriter for TLC.                                          *)
EXTENDS CHWriter
=============================================================================
