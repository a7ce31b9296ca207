-------------------------- MODULE ReceiptPipeline --------------------------
(***************************************************************************)
(* The gateway's receipt pipeline: chain/watcher.go polls the chain for      *)
(* SettlementCreated logs, receipt/processor.go turns each one into a signed *)
(* PacketC, and ReceiptStore persists it.  cmd/server/main.go starts it with  *)
(* cursor 0 on every boot, in a goroutine of its own.                        *)
(*                                                                          *)
(* A settlement event is its dedup key.  The bouncer's acknowledgements      *)
(* compete with the watcher for the store's mutex.                           *)
(***************************************************************************)
EXTENDS ReceiptStore

CONSTANTS SeqLimit,      \* 2^14: the CCSDS sequence count wraps there
          RpcFails,    \* TRUE iff an RPC of Poll may fail
          MaxBlocks,   \* bound on the chain
          MaxFailures  \* bound on the number of failures

ASSUME SeqModAssumption == SeqLimit \in Nat \ {0}
ASSUME PipelineBounds == RpcFails \in BOOLEAN /\ MaxBlocks \in Nat /\ MaxFailures \in Nat

VARIABLES blocks,    \* blocks[n]: the SettlementCreated events of block n, in log order
          watcher,   \* off, idle (between polls), polling, handling, appending, dead
          head,      \* the head Poll read
          nextBlock, \* Watcher.nextBlock
          queue,     \* events Run has still to hand to Processor.Handle
          seqCount,  \* Processor.seqCount
          dropped,   \* settlements whose Append failed with nothing written, in any process
          failures   \* crashes, failed writes and failed fsyncs so far

watchVars == <<watcher, head, nextBlock, queue, seqCount>>
vars == <<storeVars, blocks, watchVars, dropped, failures>>

Mined == UNION {ToSet(blocks[n]) : n \in DOMAIN blocks}

\* FilterLogs from nextBlock to the head: the logs in chain order.
LogsBetween(from, to) ==
    FlattenSeq(SubSeq(blocks, IF from = 0 THEN 1 ELSE from, to))

BlockOf(k) == CHOOSE n \in DOMAIN blocks : k \in ToSet(blocks[n])

\* Receipts an older release left in the file are of settlements on the chain.
PipelineInit ==
    /\ StoreInit
    /\ blocks = IF file = <<>> THEN <<>> ELSE <<[i \in DOMAIN file |-> file[i].key]>>
    /\ watcher = "off" /\ head = 0 /\ nextBlock = 0 /\ queue = <<>> /\ seqCount = 0
    /\ dropped = {} /\ failures = 0

\* The chain grows by a block with one settleBatch in it, or an empty one.
MineBlock ==
    /\ Len(blocks) < MaxBlocks
    /\ \E S \in SUBSET (Key \ Mined) : \E logs \in SetToSeqs(S) :
          blocks' = Append(blocks, logs)
    /\ UNCHANGED <<storeVars, watchVars, dropped, failures>>

\* Mutant of Boot: the watcher starts at the head of the chain.
BootAtHead ==
    /\ NewStore
    /\ watcher' = IF proc' = "up" THEN "idle" ELSE "off"
    /\ nextBlock' = Len(blocks) + 1 /\ queue' = <<>> /\ seqCount' = 0 /\ head' = 0
    /\ UNCHANGED <<blocks, dropped, failures>>

\* startReceiptWatcher: NewStore, NewProcessor, NewWatcher at block 0, go Run.
Boot ==
    /\ NewStore
    /\ watcher' = IF proc' = "up" THEN "idle" ELSE "off"
    /\ nextBlock' = 0 /\ queue' = <<>> /\ seqCount' = 0 /\ head' = 0
    /\ UNCHANGED <<blocks, dropped, failures>>

\* Poll's BlockNumber.  The cursor is past the head: nothing to do.
PollHead ==
    /\ watcher = "idle"
    /\ nextBlock <= Len(blocks)
    /\ head' = Len(blocks)
    /\ watcher' = "polling"
    /\ UNCHANGED <<storeVars, blocks, nextBlock, queue, seqCount, dropped, failures>>

\* Mutant of PollLogs: the cursor goes past the head of the chain as it is now.
PollToHead ==
    /\ watcher = "polling"
    /\ LET logs == LogsBetween(nextBlock, head) IN
       /\ queue' = logs
       /\ nextBlock' = Len(blocks) + 1
       /\ watcher' = IF logs = <<>> THEN "idle" ELSE "handling"
    /\ UNCHANGED <<storeVars, blocks, head, seqCount, dropped, failures>>

\* Mutant of PollLogs: the cursor stays on the last block seen.
PollSameBlock ==
    /\ watcher = "polling"
    /\ LET logs == LogsBetween(nextBlock, head) IN
       /\ queue' = logs
       /\ nextBlock' = IF logs = <<>> THEN nextBlock ELSE BlockOf(logs[Len(logs)])
       /\ watcher' = IF logs = <<>> THEN "idle" ELSE "handling"
    /\ UNCHANGED <<storeVars, blocks, head, seqCount, dropped, failures>>

\* Poll's FilterLogs and headers, for the range up to the head it read before.
PollLogs ==
    /\ watcher = "polling"
    /\ LET logs == LogsBetween(nextBlock, head) IN
       /\ queue' = logs
       /\ nextBlock' = IF logs = <<>> THEN nextBlock ELSE BlockOf(logs[Len(logs)]) + 1
       /\ watcher' = IF logs = <<>> THEN "idle" ELSE "handling"
    /\ UNCHANGED <<storeVars, blocks, head, seqCount, dropped, failures>>

\* An RPC of Poll fails: Run returns, and nothing starts it again.
PollFails ==
    /\ RpcFails /\ watcher \in {"idle", "polling"}
    /\ watcher' = "dead"
    /\ UNCHANGED <<storeVars, blocks, head, nextBlock, queue, seqCount, dropped, failures>>

NextEvent ==
    /\ queue' = Tail(queue)
    /\ watcher' = IF Tail(queue) = <<>> THEN "idle" ELSE "handling"

\* Processor.Handle of an event the store has: a replay, nothing to do.
HandleKnown ==
    /\ watcher = "handling" /\ op = Idle
    /\ records[Head(queue)] # "NONE"
    /\ NextEvent
    /\ UNCHANGED <<storeVars, blocks, head, nextBlock, seqCount, dropped, failures>>

\* A call that is to write for k fails in file.Write: a failure.
CountFailedWrite(k) ==
    IF records[k] # "DISPATCHED" /\ op' = Idle
      THEN failures < MaxFailures /\ failures' = failures + 1
      ELSE UNCHANGED failures

\* Mutant of HandleNew: the sequence count does not wrap.
HandleNewUnwrapped ==
    /\ watcher = "handling"
    /\ AppendRecord(Head(queue))
    /\ CountFailedWrite(Head(queue))
    /\ dropped' = IF file' = file THEN dropped \cup {Head(queue)} ELSE dropped
    /\ seqCount' = seqCount + 1
    /\ watcher' = "appending"
    /\ UNCHANGED <<blocks, head, nextBlock, queue>>

\* Processor.Handle of a new event: take a sequence count, build, Append.
HandleNew ==
    /\ watcher = "handling"
    /\ AppendRecord(Head(queue))
    /\ CountFailedWrite(Head(queue))
    /\ dropped' = IF file' = file THEN dropped \cup {Head(queue)} ELSE dropped
    /\ seqCount' = (seqCount + 1) % SeqLimit
    /\ watcher' = "appending"
    /\ UNCHANGED <<blocks, head, nextBlock, queue>>

\* Append returned, nil or an error that the handler logs; on to the next event.
HandleReturns ==
    /\ watcher = "appending"
    /\ ~(op.key = Head(queue) /\ op.status = "PENDING")
    /\ NextEvent
    /\ UNCHANGED <<storeVars, blocks, head, nextBlock, seqCount, dropped, failures>>

\* The store goes on with the call inside it; a failed fsync is a failure.
StoreStep ==
    /\ SyncLine \/ Publish
    /\ IF op.pc = "sync" /\ op' = Idle
         THEN failures < MaxFailures /\ failures' = failures + 1
         ELSE UNCHANGED failures
    /\ UNCHANGED <<blocks, watchVars, dropped>>

\* The bouncer acknowledges a receipt.
Acknowledge(k) ==
    /\ MarkDispatched(k)
    /\ CountFailedWrite(k)
    /\ UNCHANGED <<blocks, watchVars, dropped>>

Crash ==
    /\ failures < MaxFailures
    /\ StoreFailure
    /\ failures' = failures + 1
    /\ watcher' = "off" /\ head' = 0 /\ nextBlock' = 0 /\ queue' = <<>> /\ seqCount' = 0
    /\ UNCHANGED <<blocks, dropped>>

Watch == PollHead \/ PollLogs \/ HandleKnown \/ HandleNew \/ HandleReturns

Next ==
    \/ MineBlock \/ Boot \/ Watch \/ PollFails \/ StoreStep \/ Crash
    \/ \E k \in Key : Acknowledge(k)

Spec == PipelineInit /\ [][Next]_vars

\* The ticker keeps polling, a call inside the store runs on, and somebody
\* restarts a gateway that died.
FairSpec == Spec /\ WF_vars(Watch) /\ WF_vars(Boot) /\ WF_vars(StoreStep)

------------------------------------------------------------------------------
PipelineTypeOK ==
    /\ TypeOK
    /\ blocks \in Seq(Seq(Key))
    /\ watcher \in {"off", "idle", "polling", "handling", "appending", "dead"}
    /\ head \in 0..Len(blocks)
    /\ nextBlock \in 0..(Len(blocks) + 1)
    /\ queue \in Seq(Key)
    /\ seqCount \in 0..(SeqLimit - 1)
    /\ dropped \in SUBSET Key
    /\ failures \in 0..MaxFailures

(* The cursor never moves past a settlement that is neither recorded, nor in  *)
(* hand, nor logged as failed (watcher.go:159-163): blocks mined between the  *)
(* head and the logs of a poll are left for the next one.                     *)
NothingSkipped ==
    watcher \in {"idle", "polling", "handling", "appending"} =>
        \A n \in DOMAIN blocks : n < nextBlock =>
            \A k \in ToSet(blocks[n]) :
                records[k] # "NONE" \/ k \in ToSet(queue) \/ k \in failed

(* One receipt per settlement: restarts replay every event from block 0, and  *)
(* still no settlement gets a second PENDING line, not even one whose fsync   *)
(* failed the first time.                                                     *)
OneReceiptPerSettlement ==
    \A i, j \in DOMAIN file :
        i # j /\ file[i].key = file[j].key
        => file[i].status = "DISPATCHED" \/ file[j].status = "DISPATCHED"

(* The bouncer drains receipts in the order of their settlements on the chain *)
(* (store.go:65-67), over status flips, failed fsyncs, restarts and replays.  *)
(* Only one thing puts a receipt behind a later settlement's: its own Append  *)
(* failed in file.Write, main.go:232 went on to the next event, and a restart *)
(* recorded it late.                                                          *)
DrainFollowsChain ==
    LET logs == LogsBetween(0, Len(blocks))
        Position(k) == CHOOSE n \in DOMAIN logs : logs[n] = k
    IN  \A i, j \in DOMAIN order : i < j =>
            order[j] \in dropped \/ Position(order[i]) < Position(order[j])

(* watcher.go:35-36, a settlement gets its receipts.json line: over kills,    *)
(* power losses, failed fsyncs and the replays that follow, every settlement  *)
(* gets a line sooner or later, unless a failed poll has ended the watcher,   *)
(* which nothing starts again, or its Append failed in file.Write, which the  *)
(* running process does not try again (main.go:232).                          *)
RecordedUnlessDead ==
    \A k \in Key : k \in Mined ~> LinesOf(file, k) # {} \/ watcher = "dead" \/ k \in failed
=============================================================================
