----------------------------- MODULE MCPeerSet -----------------------------
(* Instances of PeerSet for TLC. *)
EXTENDS PeerSet
=============================================================================
