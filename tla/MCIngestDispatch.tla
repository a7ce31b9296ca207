-------------------------- MODULE MCIngestDispatch --------------------------
(* IngestDispatch on small instances: two satellites the gateway knows with  *)
(* the demo key, one it knows with another key and one it does not know.     *)
EXTENDS IngestDispatch
MCSats == {"flatSat", "sat100", "sat101", "stranger"}
=============================================================================
