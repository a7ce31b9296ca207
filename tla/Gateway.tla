------------------------------ MODULE Gateway ------------------------------
(***************************************************************************)
(* The gateway process, cmd/server/main.go: the submitter that sends         *)
(* accepted frames to the escrow contract and the receipt pipeline that      *)
(* reads the contract's events back share one chain and one process, and so  *)
(* one death.  A receipt's dedup key is the payment's nonce with the         *)
(* transaction it settled in.                                                *)
(*                                                                          *)
(* main has no path on which its deferred cleanup runs (router.Run ends in   *)
(* log.Fatalf, a signal ends the process), so neither Stop nor Flush is a    *)
(* step of the running gateway.                                              *)
(***************************************************************************)
EXTENDS BufferedSubmitter

CONSTANTS Faults, MaxLines, SeqLimit, RpcFails, MaxFailures  \* of ReceiptPipeline

ASSUME IntentsFinite == Intent # {} /\ IsFiniteSet(Intent)
ASSUME PipelineConstants ==
    /\ Faults \subseteq {"kill", "power", "sync", "write", "partial"}
    /\ MaxLines \in Nat /\ MaxFailures \in Nat /\ SeqLimit \in Nat \ {0}
    /\ RpcFails \in BOOLEAN

VARIABLES proc, file, synced, records, order, op, failed, written,
          blocks, watcher, head, nextBlock, queue, seqCount, dropped, failures

Payments == {NonceOf[i] : i \in Intent}

\* Every transaction is a block of its own, so the block number stands for the
\* transaction hash; a batch is sent SubmitRetries times at most.
MaxBlocks == Cardinality(Intent) * SubmitRetries

Key == Payments \X (1..MaxBlocks)

Pipe == INSTANCE ReceiptPipeline

pipeVars == <<proc, file, synced, records, order, op, failed, written,
              blocks, watcher, head, nextBlock, queue, seqCount, dropped, failures>>
gatewayVars == <<vars, pipeVars>>

\* A first boot: no contract calls yet, no receipts.json.
GatewayInit == SubmitterInit /\ file = <<>> /\ Pipe!PipelineInit

\* POST /ingest of a frame that passed every check.  The routes are mounted once
\* chain, store and watcher are up.
Ingest(i) == proc = "up" /\ Enqueue(i) /\ UNCHANGED pipeVars

\* The submitter's goroutines.
Submit ==
    /\ TimerFires \/ OnTimer \/ \E c \in calls : SubmitStep(c)
    /\ UNCHANGED pipeVars

\* A block with the gateway's oldest transaction, and the logs the contract
\* emitted while it ran.
MineBatch ==
    /\ Mine
    /\ LET new == SubSeq(events', Len(events) + 1, Len(events'))
       IN  blocks' = Append(blocks, [m \in DOMAIN new |-> <<new[m], Len(blocks) + 1>>])
    /\ UNCHANGED <<proc, file, synced, records, order, op, failed, written,
                   watcher, head, nextBlock, queue, seqCount, dropped, failures>>

\* main up to router.Run.
Main == Pipe!Boot /\ UNCHANGED vars

\* The goroutine of startReceiptWatcher, and whoever is inside the store.
WatchStep == (Pipe!Watch \/ Pipe!StoreStep) /\ UNCHANGED vars

\* What else reaches the pipeline: an RPC error, the bouncer's acknowledgements.
Outside ==
    /\ Pipe!PollFails \/ \E k \in Key : Pipe!Acknowledge(k)
    /\ UNCHANGED vars

\* One process, one death: the submitter's memory goes with the store's.
Die == Pipe!Crash /\ Kill

GatewayNext ==
    \/ \E i \in Intent : Ingest(i)
    \/ Submit \/ MineBatch \/ Main \/ WatchStep \/ Outside \/ Die

\* As in BufferedSubmitter and ReceiptPipeline.
GatewayFairness ==
    /\ WF_gatewayVars(TimerFires /\ UNCHANGED pipeVars)
    /\ WF_gatewayVars(OnTimer /\ UNCHANGED pipeVars)
    /\ WF_gatewayVars((\E c \in calls : SubmitStep(c)) /\ UNCHANGED pipeVars)
    /\ WF_gatewayVars(MineBatch) /\ WF_gatewayVars(Main)
    /\ WF_gatewayVars(Pipe!Watch /\ UNCHANGED vars)
    /\ WF_gatewayVars(Pipe!StoreStep /\ UNCHANGED vars)

GatewaySpec == GatewayInit /\ [][GatewayNext]_gatewayVars /\ GatewayFairness

------------------------------------------------------------------------------
(* A payment has one receipt at most, although its batch may be resent after *)
(* a lost answer, its frame replayed, and every boot replays the chain: the  *)
(* dedup key holds the transaction hash, so the store alone would take a     *)
(* second settlement of the same payment for another receipt (store.go:52).  *)
OneReceiptPerPayment ==
    \A m, n \in DOMAIN file :
        /\ file[m].key[1] = file[n].key[1]
        /\ file[m].status = "PENDING" /\ file[n].status = "PENDING"
        => m = n

(* How far a payment is according to its receipts' statuses.                 *)
ReceiptStage(p, status(_)) ==
    LET seen == {status(k) : k \in {file[n].key : n \in {m \in DOMAIN file : file[m].key[1] = p}}}
    IN  IF "DISPATCHED" \in seen THEN 4 ELSE IF "PENDING" \in seen THEN 3 ELSE 0

(* Its stage: that of its receipt, or settled, accepted, new.                *)
StageOf(p) ==
    LET receipt == ReceiptStage(p, LAMBDA k : Pipe!Latest(file, k))
    IN  IF receipt # 0 THEN receipt
        ELSE IF p \in settlements THEN 2
        ELSE IF \E i \in Intent : NonceOf[i] = p /\ fate[i] # "new" THEN 1
        ELSE 0

Journey == INSTANCE PaymentJourney WITH
    Payment <- Payments,
    stage <- [p \in Payments |-> StageOf(p)],
    told <- [p \in Payments |-> ReceiptStage(p, LAMBDA k : written[k])]

(* The whole gateway implements the journey of a payment: over overlapping   *)
(* submits, retries, reverts, kills, power losses and replays of the chain,  *)
(* a receipt is only ever recorded for a payment that was accepted and       *)
(* settled, and one whose MarkDispatched wrote its line, fsynced it and       *)
(* returned is never offered again.  The nil that MarkDispatched answers for *)
(* a line it found DISPATCHED is no part of this: StoreCallers is about it.  *)
ImplementsJourney == Journey!JourneySpec

(* A frame the gateway took ends in a receipts.json line, unless its batch   *)
(* was dropped after the last retry or lost in a crash, a replay was in play, *)
(* a failed RPC has ended the watcher, or the receipt's Append failed in     *)
(* file.Write, which main.go:232 logs and this process does not try again.   *)
AcceptedGetsReceipt ==
    \A i \in Intent :
        fate[i] = "buffered" ~>
            \/ \E n \in DOMAIN file : file[n].key[1] = NonceOf[i]
            \/ fate[i] \in {"dropped", "lost"} \/ ~NoReplay \/ watcher = "dead"
            \/ \E k \in failed : k[1] = NonceOf[i]
=============================================================================
