---------------------------- MODULE MCFeedStream ----------------------------
(* Instances of FeedStream for TLC.                                        *)
EXTENDS FeedStream
=============================================================================
