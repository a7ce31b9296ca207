-------------------------- MODULE MCReceiptStore --------------------------
(* ReceiptStore on small instances. *)
EXTENDS ReceiptStore
CONSTANTS k1, k2
MCKey == {k1, k2}
=============================================================================
