# A TLA+ model of the VOID protocol's payment path

The repository implements a payment between two satellites, settled on chain:

```
 seller --PacketA (LoRa)--> buyer --PACKET_B: (USB)--> ground station --POST /ingest--> gateway
                              ^                             |                              |
                              +------ACK_BUY (USB)----------+                 BufferedSubmitter
                                                                                           |
 radio <--PACKET_C_TX: (USB)-- ground station <--GET /pending, POST /ack--   settleBatch (Escrow.sol)
                                                                 |                         |
                                                         receipts.json <-- processor <-- watcher
```

This directory models that path from the seller's broadcast to the dispatched
receipt, and the wire format of every packet type at the gateway's door. TLC
checks it on small instances; TLAPS proves its safety properties, and both
refinements, for every instance.
`PROJECT.json` maps each definition to the source lines it models.

## 1. Inventory

| Part | State it keeps | Operations | Talks to |
|---|---|---|---|
| seller firmware (`seller.cpp`) | time of the last broadcast | broadcast an invoice every 8 s; answer a PacketC with a PacketD | buyer, by radio |
| buyer firmware (`buyer.cpp`) | `pending_invoice`, `invoice_pending`, the radio's one frame | receive PacketA, `ACK_BUY`, handshake commands | seller by radio, ground station by USB lines |
| GPS stub, security manager | clock since boot; keys, session, `_last_tx_epoch_ms` | `update`, `encryptPacketB`, handshake | called by the buyer |
| ground station (`main.cpp`, `bouncer.cpp`, `gateway_client.cpp`, `serial_hal.cpp`) | the line being read, `packet_bin` | main loop on USB lines, CLI (`ack`, `h`), PacketAck, push to the gateway | buyer, gateway |
| packet ingest (`ingest.go`, `verifier.go`, `registry.go`, `crc.go`) | the registry, written at boot | parse, dispatch on the body's type, verify signature or CRC, derive a PacketB's nonce, `Enqueue` | submitter |
| settlement submitter (`submitter.go`, `client.go`) | buffer, timer, submits in flight | `Enqueue`, `Flush`, `Stop`, `onTimer`, `submit` with one retry | contract, through an RPC node |
| escrow contract (`Escrow.sol`) | settled nonces, event log | `settleBatch` | watcher, through the log |
| chain watcher and processor (`watcher.go`, `processor.go`) | cursor, sequence count | `Poll`, `Run`, `Handle` | chain, store |
| receipt store (`store.go`) | JSONL file, `records`, `order`, mutex | `NewStore`, `Append`, `MarkDispatched`, `PendingRecords`, `Has`, `Close` | watcher, egress handlers |
| egress (`egress.go`, `egress_orchestrator.h`, `egress_poll_client.cpp`, `egress_json.cpp`) | the page being worked off | `tick`, `GET /pending`, `POST /ack` | store, radio |
| wire format (Kaitai parser, `constants.go`, `builder.go`, vector generator) | none | parse, build | ingest, processor |
| gateway process (`cmd/server/main.go`) | the three parts above and the store in one process | boot, die | everyone |

What is hard here, and hard to test: the store's file between write, fsync and
memory, over kills and power losses; submits that run outside the mutex with
timers that have fired but not run; a chain that grows between the two RPCs of
a poll; transmissions whose acknowledgement is lost; invoices that are replaced
between the line the operator reads and the command he types; frames whose
length or magic byte is damaged, so that they are checked as another type than
they were built as, or not at all; a process that dies between the node's
acceptance, the event, the line and its acknowledgement. `PROJECT.json`
lists these as `hazards`, each at its line with the properties that cover it.

What makes each part correct: the store loses nothing it wrote, fsynced and
returned nil for, and never revives a dispatched receipt; the submitter strands no intent, owns each once,
and no payment settles twice; every settlement gets exactly one receipt, in
chain order; a receipt is written off only after it was sent or the serial port
swallowed it, and resent only because something failed; an operator's `ack` pays one invoice, the one he saw
or a later one, and what the buyer signed arrives unaltered; a frame passes for
an authenticated type only undamaged; a payment goes through its stages in order
and gets one receipt.

## 2. Modules

| Module | Models | Extends |
|---|---|---|
| `ReceiptLedger` | abstract specification of the store: receipts move NONE, PENDING, DISPATCHED; failures take back only moves whose call had not returned nil | |
| `ReceiptStore` | `store.go`, one action per stretch between two points where a failure can strike | |
| `StoreCallers` | the store with every nil its callers got, those of `MarkDispatched`'s early return included | `ReceiptStore` |
| `Escrow` | `settleBatch` with its reverts | |
| `BufferedSubmitter` | `submitter.go` and `client.go` against `Escrow` | `Escrow` |
| `ReceiptPipeline` | watcher and processor writing to the store | `ReceiptStore` |
| `Egress` | ground station and egress handlers draining the store | `ReceiptStore` |
| `PaymentLink` | seller, buyer, ground station and ingest up to the submitter | |
| `VoidFrame` | the wire format: senders, body layouts, the generated parser | |
| `IngestDispatch` | `ingest.go`, registry, verifier and CRC gate, with damaged and cut frames of every type | `VoidFrame` |
| `PaymentJourney` | abstract specification of the gateway: a payment is accepted, settled, receipted, dispatched, and failures take back only what no call wrote and returned nil for | |
| `Gateway` | `main.go`: submitter, contract, watcher and store in one process on one chain | `BufferedSubmitter`, an instance of `ReceiptPipeline` |
| `MC...` | instances for TLC | the module they name |
| `ReceiptStoreProofs`, `ReceiptLedgerProofs` | theorems about the store; that it implements `ReceiptLedger` | `ReceiptStore` |
| `ReceiptPipelineProofs`, `EgressProofs` | theorems about pipeline and egress | the module, `ReceiptLedgerProofs` |
| `BufferedSubmitterProofs`, `PaymentLinkProofs`, `IngestDispatchProofs` | theorems about submitter, uplink and ingest | the module |
| `GatewayProofs` | theorems about the whole; that it implements `PaymentJourney` | `Gateway`, `BufferedSubmitterProofs`, an instance of `ReceiptPipelineProofs` |

### ReceiptStore

`file` is the sequence of what each `Write` left behind; an entry is whole,
unterminated (JSON without its newline) or a fragment, and `Parses` says which
entries the scanner of `loadRecords` can read, given what stands before and
after them. `synced` counts the entries known to be on stable storage.
`records` and `order` are the maps of the Go `Store`; `op` is the one call that
holds the mutex. `AppendRecord` and `MarkDispatched` check memory and write
(`WriteLine`), `SyncLine` is the fsync, `Publish` the update of memory and the
return. `Kill` keeps the file and loses memory; `PowerLoss` also loses a suffix
of the unsynced entries; `Faults` selects which failures a run has. A failed
`Write` leaves nothing (`"write"`) or a part of the line (`"partial"`); a failed
fsync (`"sync"`) leaves a whole line that memory does not know. `failed` holds the
keys of calls that failed so in this process. `written` is history: what calls
wrote, fsynced and returned nil for.

`written` leaves out the nil of `MarkDispatched`'s early return
(`store.go:198-200`), which writes nothing and may rest on a line that was read
from the page cache. `StoreCallers` adds it: `answered` is the last status any
caller got nil for.

Assumed of the environment: a successful fsync makes all earlier entries of the
file durable; a power loss keeps a prefix of the unsynced ones. The file is
never edited by anybody else. Records are abstracted to key and status.

### BufferedSubmitter and Escrow

Each action is one stretch under the mutex or one RPC of a submit. `Steal` is
`stealLocked`; stopping a timer that has fired leaves its goroutine in
`firing`. A submit in `calls` first runs gas estimation and reads the account
nonce (`Prepare`), then sends (`Send`): the node refuses a nonce another submit
has used meanwhile, which is how overlapping submits meet. A reply may be lost
after the node took the transaction (`"reply"`). `Flush` and `Stop` are there
as operations of the submitter; the running gateway calls neither (see
`Gateway`). `fate` is history. In `Escrow` a settlement is its nonce;
`Payable` names the intents whose asset and wallet the contract accepts.

### ReceiptPipeline

`blocks` is the chain, `PollHead` and `PollLogs` the two halves of `Poll`, with
mining in between. `nextBlock` moves as in the code: past the block of the last
log seen, and only in memory. `Boot` replays from block 0. `HandleKnown` and
`HandleNew` are the two ways through `Processor.Handle`; the error of a failed
`Append` is logged and the event left behind, as in `main.go`. `dropped` is
history: settlements of which an `Append` failed with nothing written. Such a
receipt has no line until a restart replays the chain, and its line then stands
behind those of later settlements; `DrainFollowsChain` and `RecordedUnlessDead`
name it as their exception. Acknowledgements of the bouncer compete for the
store. Chain reorganisations are not modelled: the code has no provision for
them and the flat-sat chain has none.

### Egress

`page` and `step` are the position of `tick`; `acks` the requests under way.
`onAir` counts how often a receipt was handed to the radio's serial line with
success, `swallowed` the receipts for which a failed or short serial write was
reported as success. `PlainLimit` stands for the size from which `net/http`
answers chunked, which the client cannot read. A power loss or a short write can
leave a file the gateway does not start on (`proc = "refused"`); an unsynced line
that a reboot read and a power loss then took back is recorded again by the
watcher (`Record`), unless that `Append` fails. These are the two cases in which
the queue need not drain. `DispatchedWasSent` makes an exception of `swallowed`:
the callback "returns true iff the serial write succeeded", its comment says
(`main.cpp:42-43`), but it also does for a write that failed or came up short, and
such a receipt is written off unsent.

### PaymentLink

The alpha build (SNLP, plaintext). Invoices are numbered by broadcast. The
buyer's radio holds one frame, which a later broadcast or its own transmission
overwrites. `toBuyer` and `toGround` are the USB lines under way. A `Payment`
carries the invoice, the buyer's clock and, for the properties only, what was on
the operator's screen when he typed the `ack` it answers. `HexToBin` models the
read of `packet_bin`, which is not initialised: after a line that lost bytes it
is either a frame with a bad signature or still the frame before. Nothing from
there to the submitter looks for repeated timestamps, so such a frame is
enqueued again: `EnqueuedWasSent` says that it then stands in the place of a
lost one. The SNLP specification promises more (`NoncesDistinct`, run
`link_reboot`). CRC and signature are Booleans saying whether bytes are as their
sender wrote them. `dropped` is history: payments that a failure, a gateway that
is down or one without a submitter took away.

### VoidFrame and IngestDispatch

A frame on the wire is the type and tier it was built as, its number of bytes
and the set of bits flipped since. The bytes a parser may take for a header and
for body offset 0 (the first fifteen) have values; of the other bytes it matters
only whether they are as sent. The senders are the vector generator, which writes all
fourteen frames, and `receipt.Build`. Body layouts are the fields and widths of
the generated parser, so that where a field, signature or checksum is found by
the parser, by the handler (which counts from the end of the request) and by
the sender are three computations that may disagree. `Read` is the parser:
tier peek, header, length switch, magic byte, end of stream.

A signature or CRC is taken to hold exactly for the bytes its sender computed it
over. Up to `MaxFaults` bits flip (any bit of the header and of body offset 0,
one in each body field) or the frame is cut or extended. Requests share only the
registry, which nobody writes after boot, and the submitter, whose interleavings
`BufferedSubmitter` has; so one request at a time is modelled. The key of
satellite 100 is the one of the demo seed, which is why the gateway's own
receipts verify at its ingest.

### Gateway and PaymentJourney

`Gateway` puts `BufferedSubmitter` and `ReceiptPipeline` on one chain: a mined
transaction is a block, the contract's new events are its logs, and a receipt's
key is the nonce with the transaction it settled in. `Die` takes the memory of
both, frames are taken only while the process is up, and `Main` boots the
pipeline. `Stop` and `Flush` are no steps here: `router.Run` ends in
`log.Fatalf` and a signal ends the process, so the deferred cleanup never runs,
although the submitter's comment means `Stop` for shutdown. The refinement
mapping to `PaymentJourney` takes a payment's stage from the latest line of its
receipts, the contract's settlements and the fate of its frames, and `told` from
the calls that returned nil.

## 3. Runs

Twelve runs; every bound is a constant of its cfg. Seven pass:

| Run | Shows |
|---|---|
| `store_crash` | two keys, four lines, kills, power losses, failed writes and fsyncs: `WrittenSurvives`, `NoRegression`, `ServesAllWritten`, `MemoryMatchesFile`, `DrainOrderStable`, `AnswersKept`, and that the store implements `ReceiptLedger` (`ImplementsLedger`) |
| `submitter` | a frame, its replay and another payment, batches of two, two attempts, every outside event: `NoneStranded`, `OwnedOnce`, `BatchBounded`, `SettledOnce`, and under fairness `EveryIntentResolved`, `SentSettles` |
| `pipeline` | two settlements in up to three blocks, two failures, RPC errors: `NothingSkipped`, `OneReceiptPerSettlement`, `DrainFollowsChain`, and `RecordedUnlessDead` |
| `egress` | two receipts in pages of one, three failures of any kind, power losses, failed and short writes included: `DispatchedWasSent`, `ResendsNeedFailures`, and under fairness `QueueDrains` |
| `link` | two invoices, three commands, two failures of any kind: `EnqueuedWasSent`, `PaidWasOffered`, `InvoicePaidOnce`, `PaidNotOlder`, `SentResolved` |
| `ingest` | every type in both tiers, PacketB of four satellites, sequence counts at the wrap, two faults: `IntactAccepted`, `AuthenticatedAsBuilt`, `EnqueuedAsSigned`, `LengthAsBuilt` |
| `gateway` | a frame and its replay, batches of up to two, two attempts, lost answers, RPC errors, two failures: `OneReceiptPerPayment`, that the gateway implements `PaymentJourney` (`ImplementsJourney`), and under fairness `AcceptedGetsReceipt` |

Five runs show where the program and its documentation disagree:

| Run | Disagreement |
|---|---|
| `store_short_write` | a short write is left in the file, and the next line, acknowledged, is glued to it and unreadable, against "a crash after a successful Append or MarkDispatched cannot lose the line" |
| `submitter_replay` | two copies of a frame in one batch revert it until it is dropped: replays do not "collapse to a single entry", there is none |
| `egress_chunked` | a pending page beyond about four records is answered chunked and never parsed: the bouncer does not "drain the queue in subsequent polls" |
| `link_reboot` | the buyer's clock restarts with a reboot: `epoch_ts` is not "strictly monotonic"; the ground station has neither the `last_epoch_ms` register nor the replay cache the SNLP specification gives it; two payments with one settlement nonce reach the submitter |
| `ingest_bitflip` | one flipped bit of the length field makes a PacketD or ACK a PacketH, taken without a check, against "reject any bit-flip inside the CRC-covered region" |

Four more weaknesses are visible in passing runs, as exceptions their properties
name. One failed RPC ends the watcher for the life of the process
(`RecordedUnlessDead` and `AcceptedGetsReceipt` hold only with `watcher =
"dead"` as a way out). A receipt whose `Append` failed is not tried again before
a restart: the same two properties, `NothingSkipped`, `DrainFollowsChain` and
`QueueDrains` except it. A receipt whose serial line was swallowed is written
off unsent (`DispatchedWasSent`). And `MarkDispatched` answers nil for a
DISPATCHED line that a killed process had written and not synced, which a power
loss then takes back: `ServesAllWritten` and both refinements speak of what a
call itself wrote and synced, and `AnswersKept` says that no other answer is
ever taken back.

In `ingest`, an accepted frame need not be whole when bits are flipped besides:
heartbeats, PacketA and PacketH are taken on their length alone, so a PacketD
whose length field was damaged may be cut and taken for a PacketH.
`LengthAsBuilt` therefore speaks of the checked types, and of frames that were
cut or extended and not otherwise damaged.

Why the bounds are enough for the cases aimed at: two keys and four lines hold a
record, its flip, a failed write or fsync and the retry, with a second receipt
between them, and a line that is answered for though nobody synced it; three
intents give a replay with its original in one batch, in different batches, or
with a stranger in between; two failures put a crash into the recovery from
another, and three give `egress` a kill between write and fsync, a power loss
after the reboot and a failure of the replay; `MaxBlocks = 3` lets blocks appear
during a poll and after it; `SeqLimit = 2` makes the sequence count wrap; two
receipts with pages of one need a second poll (three with pages of two do so
too, but the liveness of that instance takes TLC too long with more than one
failure); two invoices and three commands give a replaced invoice, a repeated
`ack` and one too many; two faults per frame cover a damaged length together
with a damaged magic byte or a cut, and stay below the five bit errors a CRC32
can miss in frames of this size; a frame and its replay give the gateway two
transactions for one payment, or four with retries. Where a bound stops the
system (file, chain, commands), `CHECK_DEADLOCK FALSE` is set, since the stop is
the bound's; `store_crash` and `ingest` check deadlock.

**Fairness.** Weak fairness everywhere, of what the code schedules by itself:
timers fire and goroutines run (`BufferedSubmitter`), RPCs end at
`submitTimeout` at the latest and the node mines; the watcher's ticker polls and
a call inside the store runs on, and somebody restarts a gateway that died
(`ReceiptPipeline`, `Egress`); in `Egress` the watcher's replay records what the
file has not got (`Record`); the poll thread ticks; the loops of buyer and
ground station run for ever (`PaymentLink`). `Gateway` assumes what its two
parts assume. No fairness is assumed of frames, operators, broadcasts or
failures, and the number of failures is bounded.

Each property has a mutant: an operator next to the definition it changes, with
the comment "Mutant of ...", that makes the kind of mistake the property is
there to catch, and under which TLC reports a violation.

## 4. Proofs

All 29 invariants the passing runs check, and both refinements, are theorems:
the run shows the property on a small instance, the theorem for every value of
the constants that satisfies the named assumptions of the module. These say that
sets are finite or not empty, bounds natural numbers and faults among the kinds
the module knows; `MaxBatchAssumption` says that `maxBatch` does not exceed the
contract's `MAX_BATCH`, as in the code. `Gateway` repeats for its instance of
`ReceiptPipeline` what that module assumes (`IntentsFinite`,
`PipelineConstants`). No theorem assumes anything of a state.

Four theorems have the hypothesis `"partial" \notin Faults`, marked (*): they are
false with short writes, which is what the run `store_short_write` shows.

| Module | Theorems, by the property they state |
|---|---|
| `ReceiptStoreProofs` | `TypeOK`, `NoRegression`, `ServesAllWritten`, `WrittenSurvives` (*) |
| `ReceiptLedgerProofs` | `MemoryMatchesFile` (*), `DrainOrderStable` (*), `ImplementsLedger` (*) |
| `BufferedSubmitterProofs` | `TypeOK`, `NoneStranded`, `OwnedOnce`, `BatchBounded`, `SettledOnce` |
| `ReceiptPipelineProofs` | `PipelineTypeOK`, `NothingSkipped`, `OneReceiptPerSettlement`, `DrainFollowsChain`; `Spec => StoreSpec` |
| `EgressProofs` | `EgressTypeOK`, `DispatchedWasSent`, `ResendsNeedFailures` |
| `PaymentLinkProofs` | `LinkTypeOK`, `InvoicePaidOnce`, `PaidNotOlder`, `PaidWasOffered`, `EnqueuedWasSent` |
| `IngestDispatchProofs` | `IngestTypeOK`, `IntactAccepted`, `AuthenticatedAsBuilt`, `EnqueuedAsSigned`, `LengthAsBuilt` |
| `GatewayProofs` | `OneReceiptPerPayment`, `ImplementsJourney` (*); `GatewaySpec => Spec /\ Pipe!Spec` |

Every proof has the same shape: an inductive invariant `...Inv`, a lemma that
`Init` implies it, one lemma or step per action that keeps it, and what follows
from it. What the invariants add to the properties, and why:

**Store.** `NoRegression` needs to know that a key absent from memory has no
DISPATCHED line in the file (`FreshKeysUndispatched`), or `Append` could write
PENDING after it; that in turn needs to know where the call in progress stands
(`CallInProgress`: its line is the last of the file, one step ahead of memory).
`ServesAllWritten` must survive a reload that sees only the file, so the
acknowledged status has to be among the *synced* lines (`WrittenSynced`), which a
power loss cannot touch; with `NoRegression`, the latest line is then at least as
advanced. For the ledger, memory may only be behind the file by the call in
progress or by calls that failed after their bytes were written (`MemoryExact`,
`MemoryBehindFile`, `PendingIsFirst`). A step of the store is then a step of one
receipt in the ledger, or of none; a power loss is the ledger's one step back,
and stops at what calls wrote and returned nil for, because that is synced. A
write that fails with nothing written is a stutter but for `failed`
(`NothingWritten`).

**Submitter.** The stages of an intent (`fate`), the buffer and the batches in
flight determine each other (`OwnedOnce`). A transaction in the node's pool holds
only intents that left the buffer (`PoolTaken`), so that what settles was
accepted; that it settles once is the contract's doing.

**Pipeline.** The file's receipts are those of a prefix of the chain's
settlements, once each and in order (`FileFollowsChain`), also after partial
writes, because a half-written line still counts as its key's receipt. Those in
`dropped` are exempt: they may be missing or late, so that a receipt in the file
comes before another if its settlement does or if the other was dropped
(`Precedes`). The
events in hand are the last before the cursor (`QueueFollowsChain`), and what the
watcher is done with has its line or was dropped by this process (`HandledOnce`).
All this holds under every fault the module knows.

**Egress.** `SentFirst` follows a DISPATCHED status back through the write in
progress, the acknowledgement under way and the step of `tick` to the
transmission or the swallowed serial write. `ResendsNeedFailures` needs a budget: what was transmitted plus
what may still be without a further failure (`Left`: once for this page, once
more if the acknowledgement is not under way) is at most one more than the
failures (`Budget`).

**Link.** Invoices pass the buyer in the order of their broadcast
(`InvoiceOrder`), and everything behind its transmitter was sent (`DataFlow`).
`EnqueuedWasSent` counts: the copies of payments on the line, in hand, in the
inbox and enqueued are never more than the payments these places hold or that
were lost (`CopiesBounded`), since a copy is made only where the payment of a
damaged line is lost.

**Ingest.** A frame on the wire is one some sender built, and every byte without
a flipped bit is the sender's (`FrameOK`); an answered request was answered as
`IngestPacket` decides on its frame. The rest is about the functions: `WidthIs`
gives the offsets of all eight layouts, `HeadersAre` what parser and senders
agree on in both kinds of header, and `ReadIntact` that a frame whose header and
first body byte are undamaged is read as what it was built as or not at all.
From there a type with a CRC is settled, since the CRC covers both; a PacketB is,
because no other signature starts at byte 0; a PacketC, because no other covers
26 bytes. Any number of flipped bits is allowed, under the same assumption on
signatures and checksums as in the model, which for a CRC32 is a fact only below
five.

**Gateway.** Submitter and pipeline keep their invariants, since every step of the
gateway is a step of each or a stutter (`GatewayComposes`); the instance's copies
of constants and operators are shown to be those of the modules the proofs are
about (the `Same...` lemmas). What is new is the chain between them
(`ChainIsEvents`): transactions are the blocks and the pool, and a payment is
logged at one place. That the chain's bound never stops `Mine` needs another
count: each transaction is charged to the first intent of its batch and its
attempt, and no such pair is charged twice (`SentCounted`). `StageFacts` expresses
a payment's stage by its one receipt, or by settlement and acceptance when it has
none; there is then one lemma per kind of step that it is the journey's step.

Two techniques recur. A recursive function's values are reached by the least
argument for which they would be wrong (`MinExists`, `RecursionExists`, `WidthIs`),
since the induction theorems of the library cannot be applied; and sums over sets
and sequences are counted with the cardinality theorems of the library.

Model-checked only: `AnswersKept`, and liveness (`EveryIntentResolved`, `SentSettles`,
`RecordedUnlessDead`, `QueueDrains`, `SentResolved`, `AcceptedGetsReceipt`), since
fairness and ENABLED are outside the prover's reach.

## 5. Not modelled

- CRC and signature computations, hex and JSON syntax, and the values of fields
  no control depends on: pure functions which the golden vectors and unit tests
  of the repository cover. `VoidFrame` models layouts and where checksums and
  signatures stand.
- The encrypted build: session, handshake, TTL and the monotonic guard. The
  alpha build never reads that state. The encrypted one cannot pay: nothing
  calls `setGpsTimeValid`, so `encryptPacketB` always refuses, nothing sends the
  answer its handshake waits for, and `isSessionActive`, which would end a
  session, has no caller. There is no behaviour to check.
- The delivery leg (PacketC to PacketD): the seller takes the APID from the sync
  word, and the buyer has no branch for `PACKET_C_TX:`, so it is not reachable.
- Mixtures of two threads' lines on the serial port. A splice makes the firmware
  ignore both lines, or the ground station's writer count a line as sent that
  nobody reads; both are the losses `TypeAckLost` and `TransmitLost` model.
- Logs the watcher cannot decode and a seed `Build` refuses: the contract emits
  none and the demo seed has 32 bytes. A gateway without an escrow address is in
  `IngestDispatch` and `PaymentLink` as a missing submitter.
- Radio set-up, display, the other environment variables, the `HelloWorld`
  contract.

## 6. Plan

Done: the store, the submitter with the contract, the receipt pipeline, the
egress, the uplink, the wire format with the ingest, and the gateway as a whole,
each with its runs and with theorems for its safety properties and refinements. What is left:

1. that only a power loss takes back an answer (`AnswersKept`), as a theorem;
2. action properties worth a theorem of their own, such as that the contract's
   settled nonces and the store's synced lines only grow, where a run would show
   them first;
3. composing `PaymentLink` and `Egress` with `Gateway`: that the whole is a
   behaviour of each is proved for submitter and pipeline only;
4. the safety half of the liveness properties: that wherever one of them may
   fail, a named failure has happened.
