---------------------------- MODULE MCEmbedding ----------------------------
(* Instances of Embedding for TLC.                                         *)
EXTENDS Embedding
=============================================================================
