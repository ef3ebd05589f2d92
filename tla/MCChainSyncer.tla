--------------------------- MODULE MCChainSyncer ---------------------------
(* Instances of ChainSyncer for TLC *)
EXTENDS ChainSyncer
=============================================================================
