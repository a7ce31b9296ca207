---------------------------- MODULE StoreCallers ----------------------------
(***************************************************************************)
(* ReceiptStore seen by its callers: besides what a call wrote and fsynced, *)
(* what MarkDispatched answered nil for because the record was DISPATCHED   *)
(* already (store.go:198-200), which after a restart may rest on a line the *)
(* killed process had written and not yet synced.                           *)
(***************************************************************************)
EXTENDS ReceiptStore

VARIABLE answered    \* the last status a caller of Append or MarkDispatched got nil for

callerVars == <<storeVars, answered>>

CallersInit == StoreInit /\ answered = NoRecords

\* Append or MarkDispatched returns nil for the line it wrote.
Returns ==
    /\ Publish
    /\ answered' = [answered EXCEPT ![op.key] = op.status]

\* MarkDispatched returns nil for a record that is dispatched already.
ReturnsEarly(k) ==
    /\ MarkDispatchedAgain(k)
    /\ answered' = [answered EXCEPT ![k] = "DISPATCHED"]

\* Everything else in the store returns no nil of Append or MarkDispatched.
Silent ==
    /\ \/ NewStore \/ SyncLine \/ Close \/ StoreFailure
       \/ \E k \in Key : AppendRecord(k) \/ (records[k] = "PENDING" /\ WriteLine(k, "DISPATCHED"))
    /\ UNCHANGED answered

CallersNext == Returns \/ Silent \/ \E k \in Key : ReturnsEarly(k)

CallersSpec == CallersInit /\ [][CallersNext]_callerVars

------------------------------------------------------------------------------
(* store.go:60-63, for every nil answer and not only for the calls that wrote: *)
(* a reload of the file says no less of a receipt than a caller of Append or   *)
(* MarkDispatched was told.  Kills, failed fsyncs and failed writes leave it   *)
(* so; a power loss may take back what a caller was told, but only where the   *)
(* answer was the early return's and no call had synced the line itself.       *)
Kept(k) == Rank(answered[k]) <= Rank(Latest(file, k))
AnswersKept ==
    [][\A k \in Key : Kept(k) /\ ~Kept(k)' => PowerLoss /\ Rank(written[k]) < Rank(answered[k])]_callerVars
=============================================================================
