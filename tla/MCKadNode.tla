----------------------------- MODULE MCKadNode -----------------------------
(* Instances of KadNode for TLC. *)
EXTENDS KadNode, TLC

CONSTANTS self, n1, n2, n3

\* The local node has a bucket of its own, the others share one.
MCLogDist == [i \in Ids |-> IF i = self THEN 0 ELSE 4]

\* The other nodes are alike.
Symmetry == Permutations(Ids \ {self})
=============================================================================
