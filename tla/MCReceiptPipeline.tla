------------------------ MODULE MCReceiptPipeline ------------------------
(* ReceiptPipeline on small instances. *)
EXTENDS ReceiptPipeline
CONSTANTS k1, k2
MCKey == {k1, k2}
=============================================================================
