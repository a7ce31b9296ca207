----------------------------- MODULE MCGateway -----------------------------
(* Gateway on a small instance: i1, and r1, a second copy of its frame. *)
EXTENDS Gateway
CONSTANTS i1, r1
Frames == {i1, r1}
SameNonce == [i \in Frames |-> i1]
=============================================================================
