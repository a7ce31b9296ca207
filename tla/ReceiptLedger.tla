--------------------------- MODULE ReceiptLedger ---------------------------
(***************************************************************************)
(* What the gateway's receipt store promises, without files, memory or     *)
(* processes: every receipt moves NONE -> PENDING -> DISPATCHED, the call   *)
(* that made a move returns nil only after it happened, and a failure may   *)
(* take back only moves whose call had not returned nil.  What a later call *)
(* answers about somebody else's move is not acked.  ReceiptStore           *)
(* implements it.                                                           *)
(***************************************************************************)
EXTENDS Naturals

CONSTANT Key      \* dedup keys: one per (payment_id, settlement_tx_hash)

VARIABLES status, \* status[k]: how far the receipt k has moved
          acked   \* acked[k]: how far it has moved by calls that returned nil

ledgerVars == <<status, acked>>

Statuses == {"NONE", "PENDING", "DISPATCHED"}

Rank(s) == CASE s = "NONE" -> 0 [] s = "PENDING" -> 1 [] s = "DISPATCHED" -> 2

LedgerInit ==
    /\ status \in [Key -> {"NONE", "PENDING"}]
    /\ acked = [k \in Key |-> "NONE"]

Record(k) ==
    /\ status[k] = "NONE"
    /\ status' = [status EXCEPT ![k] = "PENDING"]
    /\ UNCHANGED acked

Dispatch(k) ==
    /\ status[k] = "PENDING"
    /\ status' = [status EXCEPT ![k] = "DISPATCHED"]
    /\ UNCHANGED acked

Acknowledge(k) ==
    /\ Rank(acked[k]) < Rank(status[k])
    /\ acked' = [acked EXCEPT ![k] = status[k]]
    /\ UNCHANGED status

Forget ==
    /\ \E s \in [Key -> Statuses] :
          /\ \A k \in Key : Rank(acked[k]) <= Rank(s[k]) /\ Rank(s[k]) <= Rank(status[k])
          /\ status' = s
    /\ UNCHANGED acked

LedgerNext ==
    \/ \E k \in Key : Record(k) \/ Dispatch(k) \/ Acknowledge(k)
    \/ Forget

LedgerSpec == LedgerInit /\ [][LedgerNext]_ledgerVars
=============================================================================
