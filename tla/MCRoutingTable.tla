--------------------------- MODULE MCRoutingTable ---------------------------
(* Instances of RoutingTable for TLC. *)
EXTENDS RoutingTable, TLC

CONSTANTS self, a, b, c, d, e, f

MCIds == {self, a, b, c, d, e, f}

\* Two buckets: the near ones (self and f) and the far ones.
MCLogDist == (self :> 0) @@ (f :> 3) @@ [i \in {a, b, c, d, e} |-> 4]

=============================================================================
