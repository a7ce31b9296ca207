---------------------------- MODULE ReceiptStore ----------------------------
(***************************************************************************)
(* gateway/internal/core/receipt/store.go: the append-only JSONL file of    *)
(* PacketC receipts and the in-memory cache in front of it.                 *)
(*                                                                          *)
(* Append and MarkDispatched hold the store's mutex from their first check  *)
(* to their return, so at most one call (op) is inside the store; what can  *)
(* come between its steps is a failure: the process is killed, the machine  *)
(* loses power, fsync reports an error, a write fails and leaves nothing, or *)
(* only part of a line is written.                                          *)
(***************************************************************************)
EXTENDS Integers, Sequences, FiniteSets, SequencesExt

CONSTANTS Key,       \* dedup keys: one per (payment_id, settlement_tx_hash)
          Faults,    \* the failures the environment may cause
          MaxLines   \* bound on the length of the file

FaultKinds == {"kill", "power", "sync", "write", "partial"}

ASSUME KeyAssumption == Key # {} /\ IsFiniteSet(Key)
ASSUME FaultsAssumption == Faults \subseteq FaultKinds
ASSUME MaxLinesAssumption == MaxLines \in Nat

VARIABLES proc,      \* the gateway process: down, up, closed (after Close) or refused
          file,      \* the JSONL file as the process reads it, one entry per line
          synced,    \* how many lines are known to be on stable storage
          records,   \* Store.records: latest status of every key in memory
          order,     \* Store.order: keys in first-append order
          op,        \* the call inside the store, or Idle
          failed,    \* keys whose write or fsync failed in this process
          written    \* status a call wrote, fsynced and returned nil for

storeVars == <<proc, file, synced, records, order, op, failed, written>>

------------------------------------------------------------------------------
(* Lines and statuses.                                                      *)

Recorded == {"PENDING", "DISPATCHED"}
Status   == {"NONE"} \cup Recorded     \* "NONE": the key is not in the map

Rank(s) == CASE s = "NONE" -> 0 [] s = "PENDING" -> 1 [] s = "DISPATCHED" -> 2

\* The file is the sequence of what each write left behind.  A whole line ends
\* in its newline; an unterminated one is complete JSON without the newline, a
\* fragment is cut inside the JSON.  O_APPEND puts the next line right behind.
\* The blank status is the one of lines written before dispatch_status existed.
Line == [key : Key, status : Recorded \cup {""},
         form : {"whole", "unterminated", "fragment"}]

NewLine(k, s) == [key |-> k, status |-> s, form |-> "whole"]

\* loadRecords' scanner sees the i-th write as a line of its own that is valid
\* JSON: nothing unterminated is right before it, and it has its own newline
\* unless it ends the file.
Parses(f, i) ==
    /\ f[i].form # "fragment"
    /\ i > 1 => f[i - 1].form = "whole"
    /\ i < Len(f) => f[i].form = "whole"

Loadable(f) == \A i \in DOMAIN f : Parses(f, i)

\* Mutant of Normal: a blank status is taken as it is.
BlankKept(s) == s

\* loadRecords: a blank dispatch_status is read as PENDING.
Normal(s) == IF s = "" THEN "PENDING" ELSE s

LinesOf(f, k) == {i \in DOMAIN f : f[i].key = k /\ Parses(f, i)}

\* Mutant of Latest: the first line of a key wins.
FirstWins(f, k) ==
    IF LinesOf(f, k) = {} THEN "NONE" ELSE Normal(f[Min(LinesOf(f, k))].status)

\* loadRecords: the LATEST line of a key wins.
Latest(f, k) ==
    IF LinesOf(f, k) = {} THEN "NONE" ELSE Normal(f[Max(LinesOf(f, k))].status)

KeysIn(f) == {k \in Key : LinesOf(f, k) # {}}

\* Mutant of FirstSeenOrder: a status flip moves the key to the end.
LastSeenOrder(s, f) ==
    \A i, j \in DOMAIN s : i < j => Max(LinesOf(f, s[i])) < Max(LinesOf(f, s[j]))

\* loadRecords: a key is placed by its FIRST line.
FirstSeenOrder(s, f) ==
    \A i, j \in DOMAIN s : i < j => Min(LinesOf(f, s[i])) < Min(LinesOf(f, s[j]))

Idle == [key |-> <<>>, status |-> "NONE", pc |-> "idle"]

NoRecords == [k \in Key |-> "NONE"]

------------------------------------------------------------------------------
(* The file may hold lines of an older release when the gateway first boots. *)
StoreInit ==
    /\ proc = "down"
    /\ \E old \in SUBSET Key :
          /\ file \in {[i \in DOMAIN s |-> NewLine(s[i], "")] : s \in SetToSeqs(old)}
    /\ synced = Len(file)
    /\ records = NoRecords
    /\ order = <<>>
    /\ op = Idle
    /\ failed = {}
    /\ written = NoRecords

\* NewStore and loadRecords.  One line that does not parse fails NewStore, and
\* main exits: the gateway does not start on this file again.
NewStore ==
    /\ proc = "down"
    /\ IF Loadable(file)
         THEN /\ proc' = "up"
              /\ records' = [k \in Key |-> Latest(file, k)]
              /\ order' \in {s \in SetToSeqs(KeysIn(file)) : FirstSeenOrder(s, file)}
         ELSE /\ proc' = "refused"
              /\ UNCHANGED <<records, order>>
    /\ UNCHANGED <<file, synced, op, failed, written>>

\* writeLineLocked, up to and including file.Write.  A write that fails ends the
\* call with an error; it leaves nothing in the file, or a part of the line.
WriteLine(k, s) ==
    /\ proc = "up" /\ op = Idle
    /\ Len(file) < MaxLines
    /\ \/ /\ file' = Append(file, NewLine(k, s))
          /\ op' = [key |-> k, status |-> s, pc |-> "sync"]
          /\ UNCHANGED failed
       \/ /\ "partial" \in Faults
          /\ \E cut \in {"unterminated", "fragment"} :
                file' = Append(file, [NewLine(k, s) EXCEPT !.form = cut])
          /\ failed' = failed \cup {k}
          /\ UNCHANGED op
       \/ /\ "write" \in Faults
          /\ failed' = failed \cup {k}
          /\ UNCHANGED <<op, file>>
    /\ UNCHANGED <<proc, synced, records, order, written>>

\* Mutant of AppendRecord: only pending receipts count as duplicates.
AppendOverDispatched(k) == records[k] # "PENDING" /\ WriteLine(k, "PENDING")

\* Append.  ErrDuplicate, for a key memory knows, changes nothing.
AppendRecord(k) == records[k] = "NONE" /\ WriteLine(k, "PENDING")

\* MarkDispatched's early return: the record is dispatched already, so the call
\* returns nil without writing or syncing anything.
MarkDispatchedAgain(k) ==
    /\ proc \in {"up", "closed"} /\ op = Idle
    /\ records[k] = "DISPATCHED"
    /\ UNCHANGED storeVars

\* MarkDispatched.  ErrUnknown, for a key memory does not know, changes nothing.
MarkDispatched(k) ==
    \/ records[k] = "PENDING" /\ WriteLine(k, "DISPATCHED")
    \/ MarkDispatchedAgain(k)

\* Mutant of SyncLine: the line is published without an fsync.
SyncSkipped ==
    /\ op.pc = "sync"
    /\ op' = [op EXCEPT !.pc = "publish"]
    /\ UNCHANGED <<proc, file, synced, records, order, failed, written>>

\* writeLineLocked's file.Sync.  When it reports an error the call returns it;
\* the line stays in the file, unknown to memory.
SyncLine ==
    /\ op.pc = "sync"
    /\ \/ /\ synced' = Len(file)
          /\ op' = [op EXCEPT !.pc = "publish"]
          /\ UNCHANGED failed
       \/ /\ "sync" \in Faults
          /\ failed' = failed \cup {op.key}
          /\ op' = Idle
          /\ UNCHANGED synced
    /\ UNCHANGED <<proc, file, records, order, written>>

\* Mutant of Publish: MarkDispatched changes its copy of the record only.
PublishCopy ==
    /\ op.pc = "publish"
    /\ records' = [records EXCEPT ![op.key] = "PENDING"]
    /\ order' = IF records[op.key] = "NONE" THEN Append(order, op.key) ELSE order
    /\ written' = [written EXCEPT ![op.key] = op.status]
    /\ op' = Idle
    /\ UNCHANGED <<proc, file, synced, failed>>

\* Mutant of Publish: MarkDispatched appends to the order as Append does.
PublishAgain ==
    /\ op.pc = "publish"
    /\ records' = [records EXCEPT ![op.key] = op.status]
    /\ order' = Append(order, op.key)
    /\ written' = [written EXCEPT ![op.key] = op.status]
    /\ op' = Idle
    /\ UNCHANGED <<proc, file, synced, failed>>

\* The rest of Append and MarkDispatched: update memory, return nil.
Publish ==
    /\ op.pc = "publish"
    /\ records' = [records EXCEPT ![op.key] = op.status]
    /\ order' = IF records[op.key] = "NONE" THEN Append(order, op.key) ELSE order
    /\ written' = [written EXCEPT ![op.key] = op.status]
    /\ op' = Idle
    /\ UNCHANGED <<proc, file, synced, failed>>


\* Mutant of PendingRecords: dispatched records are offered again.
PendingOrNot(limit) == SubSeq(order, 1, IF Len(order) < limit THEN Len(order) ELSE limit)

\* PendingRecords: pending keys in append order, until there are limit of them.
PendingRecords(limit) ==
    LET out[i \in 0..Len(order)] ==
          IF i = 0 THEN <<>>
          ELSE IF records[order[i]] = "PENDING" /\ Len(out[i - 1]) < limit
                 THEN Append(out[i - 1], order[i]) ELSE out[i - 1]
    IN  out[Len(order)]

\* Store.Close; later writes fail before they reach the file.
Close ==
    /\ proc = "up" /\ op = Idle
    /\ proc' = "closed"
    /\ UNCHANGED <<file, synced, records, order, op, failed, written>>

LoseMemory ==
    /\ proc' = "down"
    /\ records' = NoRecords
    /\ order' = <<>>
    /\ op' = Idle
    /\ failed' = {}
    /\ UNCHANGED written

\* The process dies: the file keeps every line written so far.
Kill ==
    /\ "kill" \in Faults /\ proc \in {"up", "closed"}
    /\ LoseMemory
    /\ UNCHANGED <<file, synced>>

\* The machine dies: a suffix of the lines not yet synced is gone, and the
\* first one that is gone may have left a part behind.
PowerLoss ==
    /\ "power" \in Faults /\ proc # "refused"
    /\ \E n \in synced..Len(file) :
          \/ file' = SubSeq(file, 1, n)
          \/ /\ "partial" \in Faults /\ n < Len(file)
             /\ \E cut \in {"unterminated", "fragment"} :
                   /\ file[n + 1].form = "fragment" => cut = "fragment"
                   /\ file' = Append(SubSeq(file, 1, n), [file[n + 1] EXCEPT !.form = cut])
    /\ synced' = Len(file')
    /\ LoseMemory

StoreFailure == Kill \/ PowerLoss

StoreNext ==
    \/ NewStore
    \/ \E k \in Key : AppendRecord(k) \/ MarkDispatched(k)
    \/ SyncLine
    \/ Publish
    \/ Close
    \/ StoreFailure

StoreSpec == StoreInit /\ [][StoreNext]_storeVars

------------------------------------------------------------------------------
TypeOK ==
    /\ proc \in {"down", "up", "closed", "refused"}
    /\ file \in Seq(Line)
    /\ synced \in 0..Len(file)
    /\ records \in [Key -> Status]
    /\ order \in Seq(Key)
    /\ op \in {Idle} \cup [key : Key, status : Recorded, pc : {"sync", "publish"}]
    /\ failed \in SUBSET Key
    /\ written \in [Key -> Status]

(* Store's doc comment (store.go:60-63): whatever Append or MarkDispatched   *)
(* wrote and returned nil for is a readable line of the file for ever, over  *)
(* kills, power losses and the failed writes and fsyncs of other calls.      *)
WrittenSurvives ==
    \A k \in Key : written[k] # "NONE" =>
        \E i \in LinesOf(file, k) : Normal(file[i].status) = written[k]

(* In the file a receipt never goes back: no PENDING line of a key comes     *)
(* after a DISPATCHED one, so "latest line wins" never revives it on reload. *)
NoRegression ==
    \A i, j \in DOMAIN file :
        /\ i < j /\ file[i].key = file[j].key
        /\ file[i].form # "fragment" /\ file[j].form # "fragment"
        /\ file[i].status = "DISPATCHED"
        => file[j].status = "DISPATCHED"

(* A serving gateway knows at least what its calls once wrote, fsynced and   *)
(* returned nil for: a receipt whose DISPATCHED line went through such a call *)
(* is never offered again, and one recorded by such a call never vanishes,   *)
(* however often the process was restarted.  What MarkDispatched answers     *)
(* without writing (store.go:198-200) is not covered: StoreCallers.          *)
ServesAllWritten ==
    proc \in {"up", "closed"} => \A k \in Key : Rank(written[k]) <= Rank(records[k])

(* Memory is what a reload of the file would produce, except for keys whose  *)
(* write or fsync failed in this process and the call in progress.           *)
MemoryMatchesFile ==
    proc \in {"up", "closed"} =>
        \A k \in Key \ failed : k # op.key => records[k] = Latest(file, k)

(* Drain order: while no call failed, order lists exactly the recorded keys  *)
(* once each, in the order a reload would give, so a restart never reshuffles *)
(* the bouncer's queue (store.go:65-67).                                     *)
DrainOrderStable ==
    proc \in {"up", "closed"} =>
        /\ IsInjective(order)
        /\ ToSet(order) = {k \in Key : records[k] # "NONE"}
        /\ failed = {} => FirstSeenOrder(order, file)

Ledger == INSTANCE ReceiptLedger WITH
            status <- [k \in Key |-> Latest(file, k)],
            acked <- written

(* The store implements the ledger: the file's latest lines are the status,  *)
(* what a call wrote, fsynced and returned nil for is acked.                 *)
ImplementsLedger == Ledger!LedgerSpec
=============================================================================
