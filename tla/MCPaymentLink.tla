--------------------------- MODULE MCPaymentLink ---------------------------
(* PaymentLink as it is: every parameter is a number or a set of strings. *)
EXTENDS PaymentLink
=============================================================================
