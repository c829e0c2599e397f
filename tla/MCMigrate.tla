----------------------------- MODULE MCMigrate ------------------------------
(* Instances of Migrate for TLC.                                           *)
EXTENDS Migrate
=============================================================================
