------------------------------- MODULE Escrow -------------------------------
(***************************************************************************)
(* contracts/src/Escrow.sol: settleBatch records a batch of intents, each   *)
(* under its txNonce, and emits one SettlementCreated per intent; one bad   *)
(* entry reverts the whole batch.                                           *)
(***************************************************************************)
EXTENDS Integers, Sequences, FiniteSets

CONSTANTS Intent,     \* settlement intents, one per accepted PacketB frame
          NonceOf,    \* NonceOf[i]: DeriveTxNonce of the frame's sat_id and epoch_ts
          Payable,    \* the intents with assetId = USDC_ASSET_ID and a wallet that is not zero
          EscrowMax   \* MAX_BATCH

ASSUME IntentAssumption == Payable \subseteq Intent /\ DOMAIN NonceOf = Intent
ASSUME EscrowMaxAssumption == EscrowMax \in Nat \ {0}

VARIABLES settlements, \* nonces whose status is not NONE
          events       \* SettlementCreated logs, oldest first

escrowVars == <<settlements, events>>

NoncesIn(batch) == [i \in DOMAIN batch |-> NonceOf[batch[i]]]

\* Mutant of Reverts: nonces settled by earlier batches are not looked up.
RevertsWithinBatch(batch) ==
    \/ batch = <<>>
    \/ Len(batch) > EscrowMax
    \/ \E i \in DOMAIN batch :
          \/ batch[i] \notin Payable
          \/ \E j \in 1..(i - 1) : NonceOf[batch[j]] = NonceOf[batch[i]]

\* The loop writes an entry before it looks at the next one, so a nonce that
\* occurs twice in a batch reverts it just as one settled earlier does.
Reverts(batch) ==
    \/ batch = <<>>
    \/ Len(batch) > EscrowMax
    \/ \E i \in DOMAIN batch :
          \/ batch[i] \notin Payable
          \/ NonceOf[batch[i]] \in settlements
          \/ \E j \in 1..(i - 1) : NonceOf[batch[j]] = NonceOf[batch[i]]

EscrowInit == settlements = {} /\ events = <<>>

\* A mined transaction that calls settleBatch.
SettleBatch(batch) ==
    IF Reverts(batch)
      THEN UNCHANGED escrowVars
      ELSE /\ settlements' = settlements \cup {NonceOf[batch[i]] : i \in DOMAIN batch}
           /\ events' = events \o NoncesIn(batch)
=============================================================================
