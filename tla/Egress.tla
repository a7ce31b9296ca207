------------------------------- MODULE Egress -------------------------------
(***************************************************************************)
(* The receipt egress: the ground station's EgressOrchestrator::tick fetches *)
(* a page of pending receipts from the gateway, transmits each over LoRa and *)
(* acknowledges it; the gateway's egress handlers answer from ReceiptStore.  *)
(*                                                                          *)
(* Gateway, network and ground station fail independently.  Every failure    *)
(* is counted, so that the cost of each can be stated.                       *)
(***************************************************************************)
EXTENDS ReceiptStore

CONSTANTS PageSize,     \* EgressPageSize
          PlainLimit,   \* records a reply may hold before net/http sends it chunked
          LinkFaults,   \* "radio", "serial", "net", "bouncer": failures on the ground station's side
          MaxFailures   \* bound on the number of failures

ASSUME PageSizeAssumption == PageSize \in Nat \ {0} /\ PlainLimit \in Nat
ASSUME LinkFaultsAssumption == LinkFaults \subseteq {"radio", "serial", "net", "bouncer"}
ASSUME MaxFailuresAssumption == MaxFailures \in Nat

VARIABLES page,      \* parsed records tick has not finished with
          step,      \* what tick does next with the first of them: transmit, ack, await
          acks,      \* POST /ack requests on their way to the gateway
          onAir,     \* onAir[k]: how often k's PacketC was handed to the LoRa radio
          swallowed, \* receipts whose serial line got lost while the callback said true
          failures   \* failures so far

tickVars == <<page, step>>
linkVars == <<acks, onAir, swallowed>>
vars == <<storeVars, tickVars, linkVars, failures>>

EgressInit ==
    /\ StoreInit
    /\ page = <<>> /\ step = "transmit" /\ acks = {}
    /\ onAir = [k \in Key |-> 0] /\ swallowed = {}
    /\ failures = 0

Fault == failures < MaxFailures /\ failures' = failures + 1

\* A call of the store is over at once although it had a line to write: file.Write
\* failed, with nothing or a part of the line in the file.
CountFailedWrite(writes) == IF writes /\ op' = Idle THEN Fault ELSE UNCHANGED failures

\* HandleEgressPending: a page of records, in a body net/http sends chunked if it is large.
HandleEgressPending ==
    LET reply == PendingRecords(PageSize) IN
    [records |-> reply, chunked |-> Len(reply) > PlainLimit]

\* parse_pending_response: a chunk size where '[' is expected is malformed, the tick ends.
Parsed(body) == IF body.chunked THEN <<>> ELSE body.records

\* fetch_pending, which leaves the body as it is on the wire, and the parser.
FetchPending ==
    /\ page = <<>> /\ proc = "up" /\ op = Idle
    /\ page' = Parsed(HandleEgressPending)
    /\ page' # <<>>
    /\ step' = "transmit"
    /\ UNCHANGED <<storeVars, linkVars, failures>>

NextRecord == page' = Tail(page) /\ step' = "transmit"

\* The LoRa callback returned true.
Transmit ==
    /\ page # <<>> /\ step = "transmit"
    /\ onAir' = [onAir EXCEPT ![Head(page)] = @ + 1]
    /\ step' = "ack"
    /\ UNCHANGED <<storeVars, page, acks, swallowed, failures>>

\* Mutant of TransmitFails: the record is acknowledged all the same.
TransmitFailsAcked ==
    /\ "radio" \in LinkFaults /\ page # <<>> /\ step = "transmit"
    /\ step' = "ack"
    /\ Fault
    /\ UNCHANGED <<storeVars, page, linkVars>>

\* It returned false: no ACK, on to the next record.
TransmitFails ==
    /\ "radio" \in LinkFaults /\ page # <<>> /\ step = "transmit"
    /\ NextRecord
    /\ Fault
    /\ UNCHANGED <<storeVars, linkVars>>

\* serial_write_bytes (POSIX) turns a failed or short write into a count that is
\* not negative, and lora_tx_via_serial takes that for success.
TransmitLost ==
    /\ "serial" \in LinkFaults /\ page # <<>> /\ step = "transmit"
    /\ step' = "ack"
    /\ swallowed' = swallowed \cup {Head(page)}
    /\ Fault
    /\ UNCHANGED <<storeVars, page, acks, onAir>>

\* ack_dispatched: connect and send; a gateway that is down refuses.
PostAck ==
    /\ page # <<>> /\ step = "ack"
    /\ IF proc = "up"
         THEN acks' = acks \cup {Head(page)} /\ step' = "await" /\ UNCHANGED page
         ELSE NextRecord /\ UNCHANGED acks
    /\ UNCHANGED <<storeVars, onAir, swallowed, failures>>

\* The request is lost, or the reply is: the transport failed, next record.
AckLost ==
    /\ "net" \in LinkFaults /\ page # <<>> /\ step \in {"ack", "await"}
    /\ NextRecord
    /\ Fault
    /\ UNCHANGED <<storeVars, linkVars>>

\* HandleEgressAck: MarkDispatched, or 404 for a key memory does not know.
HandleEgressAck(k) ==
    /\ k \in acks /\ proc = "up" /\ op = Idle
    /\ acks' = acks \ {k}
    /\ \/ MarkDispatched(k)
       \/ records[k] = "NONE" /\ UNCHANGED storeVars
    /\ CountFailedWrite(records[k] = "PENDING")
    /\ UNCHANGED <<tickVars, onAir, swallowed>>

\* The reply, whatever its status, or a reset connection.
AckAnswered ==
    /\ page # <<>> /\ step = "await"
    /\ Head(page) \notin acks
    /\ ~(op.key = Head(page) /\ op.status = "DISPATCHED")
    /\ NextRecord
    /\ UNCHANGED <<storeVars, linkVars, failures>>

\* The ground station restarts.
BouncerRestarts ==
    /\ "bouncer" \in LinkFaults /\ page # <<>>
    /\ page' = <<>> /\ step' = "transmit"
    /\ Fault
    /\ UNCHANGED <<storeVars, linkVars>>

\* The watcher records a settlement that the store does not have.  It comes back
\* to one whose Append failed only after a restart.
Record(k) ==
    /\ k \notin failed
    /\ AppendRecord(k)
    /\ CountFailedWrite(TRUE)
    /\ UNCHANGED <<tickVars, linkVars>>

\* A call inside the store goes on.
StoreStep ==
    /\ SyncLine \/ Publish
    /\ IF op.pc = "sync" /\ op' = Idle THEN Fault ELSE UNCHANGED failures
    /\ UNCHANGED <<tickVars, linkVars>>

Boot == NewStore /\ UNCHANGED <<tickVars, linkVars, failures>>

GatewayFails ==
    /\ StoreFailure
    /\ acks' = {}
    /\ Fault
    /\ UNCHANGED <<tickVars, onAir, swallowed>>

Tick == FetchPending \/ Transmit \/ PostAck \/ AckAnswered

Gateway == StoreStep \/ Boot \/ \E k \in Key : HandleEgressAck(k)

Next ==
    \/ Tick \/ Gateway
    \/ \E k \in Key : Record(k)
    \/ TransmitFails \/ TransmitLost \/ AckLost \/ BouncerRestarts \/ GatewayFails

Spec == EgressInit /\ [][Next]_vars

\* The poll thread ticks for ever, the gateway serves what reaches it, somebody
\* restarts a gateway that died, and the watcher, which starts at block 0 on
\* every boot, gets to every settlement.  Failures are finite in number.
FairSpec ==
    /\ Spec
    /\ WF_vars(Tick) /\ WF_vars(Gateway) /\ WF_vars(\E k \in Key : Record(k))

------------------------------------------------------------------------------
EgressTypeOK ==
    /\ TypeOK
    /\ page \in Seq(Key)
    /\ step \in {"transmit", "ack", "await"}
    /\ acks \in SUBSET Key
    /\ onAir \in [Key -> Nat]
    /\ swallowed \in SUBSET Key
    /\ failures \in 0..MaxFailures

InFileDispatched(k) == \E i \in DOMAIN file : file[i] = NewLine(k, "DISPATCHED")

(* A receipt is DISPATCHED, in memory or in the file, only after its PacketC  *)
(* was handed to the LoRa radio at least once, with one exception: a write the *)
(* serial port swallowed, which the callback reports as success although its  *)
(* comment (ground-station/src/main.cpp:42-43) says it does not.              *)
DispatchedWasSent ==
    \A k \in Key : records[k] = "DISPATCHED" \/ InFileDispatched(k)
                   => onAir[k] > 0 \/ k \in swallowed

(* Retransmissions cost failures: a receipt goes out once, and once more for  *)
(* each lost request or reply, failed write or fsync, crash or power loss.    *)
ResendsNeedFailures == \A k \in Key : onAir[k] <= 1 + failures

(* egress.go:33-34: the bouncer drains the queue.  Every receipt in memory is *)
(* eventually DISPATCHED, once failures stop, although a kill and a power loss *)
(* may take its PENDING line back and leave it to the watcher's replay.  Two  *)
(* ends remain: the gateway refuses to start on a torn file, or the replayed  *)
(* Append failed, which this process does not try again (main.go:232).        *)
QueueDrains ==
    \A k \in Key : records[k] = "PENDING" ~>
        \/ records[k] = "DISPATCHED" \/ proc = "refused"
        \/ records[k] = "NONE" /\ k \in failed
=============================================================================
