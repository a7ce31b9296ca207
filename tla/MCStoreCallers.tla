-------------------------- MODULE MCStoreCallers --------------------------
(* StoreCallers on small instances. *)
EXTENDS StoreCallers
CONSTANTS k1, k2
MCKey == {k1, k2}
=============================================================================
