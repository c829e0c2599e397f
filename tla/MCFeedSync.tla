----------------------------- MODULE MCFeedSync -----------------------------
(* Instances of FeedSync for TLC.                                          *)
EXTENDS FeedSync
=============================================================================
