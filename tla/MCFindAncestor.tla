-------------------------- MODULE MCFindAncestor --------------------------
(* Small chains, chains around the sizes at which the number of rounds and *)
(* the order of the headers change, and chains longer than 16 bits         *)
EXTENDS FindAncestor

HeightsUsed ==
  (0..33) \cup {45, 159, 160, 225, 226, 240, 70214, 70230, 75000, 983040, 1048576}
=============================================================================
