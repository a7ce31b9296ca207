------------------------------ MODULE MCEgress ------------------------------
(* Egress with two receipts. *)
EXTENDS Egress
CONSTANTS k1, k2
MCKey == {k1, k2}
=============================================================================
