------------------------------- MODULE MCFace -------------------------------
(* A face, its mixer, and two consumers that ask for the same name *)
EXTENDS Face

CONSTANTS a, b, x

MCNameOf == [i \in {a, b} |-> x]
=============================================================================
