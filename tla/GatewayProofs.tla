--------------------------- MODULE GatewayProofs ---------------------------
(***************************************************************************)
(* The gateway as a whole, for every finite set of frames, every assignment *)
(* of nonces, every batch size and number of attempts, and every set of      *)
(* failures.  Submitter and pipeline keep what BufferedSubmitterProofs and   *)
(* ReceiptPipelineProofs prove of each, and what is proved here in addition  *)
(* is about the chain between them.                                         *)
(***************************************************************************)
EXTENDS Gateway, BufferedSubmitterProofs, FiniteSetTheorems

\* The theorems about the pipeline, for the gateway's keys.
PipeP == INSTANCE ReceiptPipelineProofs

------------------------------------------------------------------------------
(* The pipeline's constants.                                                  *)

(* The transactions the gateway can send are numbered.                        *)
LEMMA SlotsCounted ==
    /\ IsFiniteSet(Intent \X (1..SubmitRetries))
    /\ Cardinality(Intent \X (1..SubmitRetries)) = MaxBlocks
    /\ MaxBlocks \in Nat /\ MaxBlocks >= 1
<1>1. SubmitRetries \in Nat /\ SubmitRetries >= 1 /\ 1 \in Int /\ SubmitRetries \in Int
  BY RetriesAssumption
<1>2. IsFiniteSet(1..SubmitRetries) /\ Cardinality(1..SubmitRetries) = SubmitRetries
  <2>1. /\ IsFiniteSet(1..SubmitRetries)
        /\ Cardinality(1..SubmitRetries) = IF 1 > SubmitRetries THEN 0 ELSE SubmitRetries - 1 + 1
    BY <1>1, FS_Interval
  <2> QED BY <1>1, <2>1
<1>3. /\ IsFiniteSet(Intent \X (1..SubmitRetries))
      /\ Cardinality(Intent \X (1..SubmitRetries)) = Cardinality(Intent) * Cardinality(1..SubmitRetries)
  BY <1>2, IntentsFinite, FS_Product
<1>4. Cardinality(Intent) \in Nat /\ Cardinality(Intent) # 0
  BY IntentsFinite, FS_CardinalityType, FS_EmptySet
<1>5. \A c, r \in Nat : c # 0 /\ r >= 1 => c * r \in Nat /\ c * r >= 1
  BY SMT
<1> QED BY <1>1, <1>2, <1>3, <1>4, <1>5 DEF MaxBlocks

(* There are finitely many dedup keys.                                        *)
LEMMA KeysFinite == Key # {} /\ IsFiniteSet(Key)
<1> DEFINE f == [i \in Intent |-> NonceOf[i]]
<1>1. f \in Surjection(Intent, Payments)
  BY DEF Surjection, Payments
<1>2. IsFiniteSet(Payments)
  BY <1>1, IntentsFinite, FS_Surjection
<1>3. IsFiniteSet(1..MaxBlocks)
  BY SlotsCounted, FS_Interval
<1>4. IsFiniteSet(Key)
  BY <1>2, <1>3, FS_Product DEF Key
<1>5. PICK i \in Intent : TRUE
  BY IntentsFinite
<1>6. <<NonceOf[i], 1>> \in Key
  BY SlotsCounted DEF Key, Payments
<1> QED BY <1>4, <1>6

(* Everything the proofs about the pipeline assume of its constants holds.    *)
LEMMA PipelineAssumptions ==
    /\ Key # {} /\ PipeP!IsFiniteSet(Key)
    /\ Faults \subseteq PipeP!FaultKinds
    /\ MaxLines \in Nat /\ SeqLimit \in Nat \ {0}
    /\ RpcFails \in BOOLEAN /\ MaxBlocks \in Nat /\ MaxFailures \in Nat
<1>1. PipeP!IsFiniteSet(Key)
  BY KeysFinite DEF IsFiniteSet, PipeP!IsFiniteSet
<1>2. Faults \subseteq PipeP!FaultKinds
  BY PipelineConstants DEF PipeP!FaultKinds
<1> QED BY <1>1, <1>2, KeysFinite, SlotsCounted, PipelineConstants

(* The pipeline's invariant holds at a first boot and over its own steps.     *)
LEMMA PipelineInduction ==
    /\ PipeP!PipelineInit => PipeP!PipelineInv
    /\ PipeP!PipelineInv /\ [PipeP!Next]_(PipeP!vars) => PipeP!PipelineInv'
  BY PipelineAssumptions, PipeP!InitPipelineInv, PipeP!NextPipelineInv

------------------------------------------------------------------------------
(* Pipe and PipeP are two instances of one module: their definitions agree.   *)

(* They start alike.                                                          *)
LEMMA SameInit == Pipe!PipelineInit => PipeP!PipelineInit
  BY DEF Pipe!PipelineInit, PipeP!PipelineInit, Pipe!StoreInit, PipeP!StoreInit,
         Pipe!Idle, PipeP!Idle, Pipe!NoRecords, PipeP!NoRecords, Pipe!NewLine, PipeP!NewLine,
         Pipe!SetToSeqs, PipeP!SetToSeqs, Pipe!Cardinality, PipeP!Cardinality

(* A new block.                                                               *)
LEMMA SameMineBlock == Pipe!MineBlock => PipeP!MineBlock
  BY DEF Pipe!MineBlock, PipeP!MineBlock, Pipe!Mined, PipeP!Mined, Pipe!ToSet, PipeP!ToSet,
         Pipe!SetToSeqs, PipeP!SetToSeqs, Pipe!Cardinality, PipeP!Cardinality,
         Pipe!storeVars, PipeP!storeVars, Pipe!watchVars, PipeP!watchVars

(* A boot.                                                                    *)
LEMMA SameBoot == Pipe!Boot => PipeP!Boot
  BY DEF Pipe!Boot, PipeP!Boot, Pipe!NewStore, PipeP!NewStore, Pipe!Loadable, PipeP!Loadable,
         Pipe!Parses, PipeP!Parses, Pipe!Latest, PipeP!Latest, Pipe!LinesOf, PipeP!LinesOf,
         Pipe!Normal, PipeP!Normal, Pipe!KeysIn, PipeP!KeysIn,
         Pipe!FirstSeenOrder, PipeP!FirstSeenOrder, Pipe!Min, PipeP!Min, Pipe!Max, PipeP!Max,
         Pipe!SetToSeqs, PipeP!SetToSeqs, Pipe!Cardinality, PipeP!Cardinality

(* The watcher's steps and those of the call inside the store.                *)
LEMMA SameWatch == Pipe!Watch \/ Pipe!StoreStep => PipeP!Watch \/ PipeP!StoreStep
<1>1. Pipe!PollHead => PipeP!PollHead
  BY DEF Pipe!PollHead, PipeP!PollHead, Pipe!storeVars, PipeP!storeVars
<1>2. Pipe!PollLogs => PipeP!PollLogs
  BY DEF Pipe!PollLogs, PipeP!PollLogs, Pipe!LogsBetween, PipeP!LogsBetween,
         Pipe!FlattenSeq, PipeP!FlattenSeq, Pipe!BlockOf, PipeP!BlockOf, Pipe!ToSet, PipeP!ToSet,
         Pipe!storeVars, PipeP!storeVars
<1>3. Pipe!HandleKnown => PipeP!HandleKnown
  BY DEF Pipe!HandleKnown, PipeP!HandleKnown, Pipe!NextEvent, PipeP!NextEvent,
         Pipe!Idle, PipeP!Idle, Pipe!storeVars, PipeP!storeVars
<1>4. Pipe!HandleNew => PipeP!HandleNew
  BY DEF Pipe!HandleNew, PipeP!HandleNew, Pipe!AppendRecord, PipeP!AppendRecord,
         Pipe!CountFailedWrite, PipeP!CountFailedWrite,
         Pipe!WriteLine, PipeP!WriteLine, Pipe!NewLine, PipeP!NewLine, Pipe!Idle, PipeP!Idle
<1>5. Pipe!HandleReturns => PipeP!HandleReturns
  BY DEF Pipe!HandleReturns, PipeP!HandleReturns, Pipe!NextEvent, PipeP!NextEvent,
         Pipe!storeVars, PipeP!storeVars
<1>6. Pipe!StoreStep => PipeP!StoreStep
  BY DEF Pipe!StoreStep, PipeP!StoreStep, Pipe!SyncLine, PipeP!SyncLine, Pipe!Publish, PipeP!Publish,
         Pipe!Idle, PipeP!Idle, Pipe!watchVars, PipeP!watchVars
<1> QED BY <1>1, <1>2, <1>3, <1>4, <1>5, <1>6 DEF Pipe!Watch, PipeP!Watch

(* What reaches the pipeline from outside, and its death.                     *)
LEMMA SameOutside ==
    /\ Pipe!PollFails => PipeP!PollFails
    /\ \A k \in Key : Pipe!Acknowledge(k) => PipeP!Acknowledge(k)
    /\ Pipe!Crash => PipeP!Crash
<1>1. Pipe!PollFails => PipeP!PollFails
  BY DEF Pipe!PollFails, PipeP!PollFails, Pipe!storeVars, PipeP!storeVars
<1>2. ASSUME NEW k \in Key, Pipe!Acknowledge(k) PROVE PipeP!Acknowledge(k)
  BY <1>2 DEF Pipe!Acknowledge, PipeP!Acknowledge, Pipe!MarkDispatched, PipeP!MarkDispatched,
         Pipe!MarkDispatchedAgain, PipeP!MarkDispatchedAgain,
         Pipe!CountFailedWrite, PipeP!CountFailedWrite,
         Pipe!WriteLine, PipeP!WriteLine, Pipe!NewLine, PipeP!NewLine, Pipe!Idle, PipeP!Idle,
         Pipe!storeVars, PipeP!storeVars, Pipe!watchVars, PipeP!watchVars
<1>3. Pipe!Crash => PipeP!Crash
  BY DEF Pipe!Crash, PipeP!Crash, Pipe!StoreFailure, PipeP!StoreFailure, Pipe!Kill, PipeP!Kill,
         Pipe!PowerLoss, PipeP!PowerLoss, Pipe!LoseMemory, PipeP!LoseMemory,
         Pipe!Idle, PipeP!Idle, Pipe!NoRecords, PipeP!NoRecords
<1> QED BY <1>1, <1>2, <1>3

------------------------------------------------------------------------------
(* How many transactions the gateway sends.  Each attempt of each submit is a *)
(* slot: the first intent of its batch and the attempt's number.  A slot is   *)
(* used once, so there are no more transactions than slots.                   *)

Untaken == {"new", "ignored", "buffered"}

Slots == Intent \X (1..SubmitRetries)

\* Attempts that are still to come have not used their slots.
SlotsFree(U) ==
    /\ \A i \in Intent : fate[i] \in Untaken => \A r \in 1..SubmitRetries : <<i, r>> \notin U
    /\ \A c \in calls : \A r \in c.attempt..SubmitRetries : <<c.batch[1], r>> \notin U

SentCounted == \E U \in SUBSET Slots : Cardinality(U) = sent /\ SlotsFree(U)

(* No intent goes back into the buffer or before it.                          *)
LEMMA UntakenBefore ==
    ASSUME SubmitterInv, FateKept, fate' \in [Intent -> Fates], NEW i \in Intent, fate'[i] \in Untaken
    PROVE  fate[i] \in Untaken
<1>1. fate[i] \in Fates
  BY DEF SubmitterInv, TypeOK, Fates
<1> QED BY <1>1 DEF FateKept, Untaken, Taken, Fates

(* The first intent of a submit is one of its own.                            *)
LEMMA FirstOfBatch ==
    ASSUME SubmitterInv, NEW c \in calls
    PROVE  /\ c.batch[1] \in Intent /\ c.batch[1] \in BatchSet(c.batch)
           /\ fate[c.batch[1]] = "submitting"
           /\ \A d \in calls : d # c => d.batch[1] # c.batch[1]
<1>1. \A d \in calls : /\ d.batch \in Seq(Intent) /\ 1 \in DOMAIN d.batch
                       /\ d.batch[1] \in BatchSet(d.batch) /\ d.batch[1] \in Intent
  <2> SUFFICES ASSUME NEW d \in calls
               PROVE  /\ d.batch \in Seq(Intent) /\ 1 \in DOMAIN d.batch
                      /\ d.batch[1] \in BatchSet(d.batch) /\ d.batch[1] \in Intent
    OBVIOUS
  <2>1. d.batch \in Seq(Intent) /\ Len(d.batch) \in 1..MaxBatch
    BY DEF SubmitterInv, TypeOK, BatchBounded
  <2>2. 1 \in DOMAIN d.batch
    BY <2>1, MaxBatchAssumption
  <2> QED BY <2>1, <2>2 DEF BatchSet
<1>2. fate[c.batch[1]] = "submitting"
  BY <1>1 DEF SubmitterInv, OwnedOnce
<1>3. \A d \in calls : d # c => d.batch[1] # c.batch[1]
  <2> SUFFICES ASSUME NEW d \in calls, d # c PROVE d.batch[1] # c.batch[1]
    OBVIOUS
  <2>1. BatchSet(d.batch) \cap BatchSet(c.batch) = {}
    BY DEF SubmitterInv, OwnedOnce
  <2> QED BY <1>1, <2>1
<1> QED BY <1>1, <1>2, <1>3

(* A batch from the buffer starts with all its slots unused.                  *)
LEMMA SlotsAtStart ==
    ASSUME SubmitterInv, NEW U, SlotsFree(U), NEW b \in Seq(Intent), StartSubmit(b),
           \A i \in BatchSet(b) : fate[i] \in Untaken, FateKept, fate' \in [Intent -> Fates]
    PROVE  SlotsFree(U)'
<1>1. ASSUME NEW i \in Intent, fate'[i] \in Untaken, NEW r \in 1..SubmitRetries PROVE <<i, r>> \notin U
  BY <1>1, UntakenBefore DEF SlotsFree
<1>2. ASSUME NEW d \in calls', NEW r \in d.attempt..SubmitRetries PROVE <<d.batch[1], r>> \notin U
  <2>1. CASE d \in calls
    BY <1>2, <2>1 DEF SlotsFree
  <2>2. CASE d \notin calls
    <3>1. b # <<>> /\ d = [batch |-> b, attempt |-> 1, acct |-> NotPrepared]
      BY <2>2 DEF StartSubmit
    <3>2. d.batch = b /\ d.attempt = 1
      BY <3>1
    <3>3. 1 \in DOMAIN b /\ b[1] \in BatchSet(b) /\ b[1] \in Intent
      BY <3>1 DEF BatchSet
    <3> QED BY <1>2, <3>2, <3>3 DEF SlotsFree
  <2> QED BY <2>1, <2>2
<1> QED BY <1>1, <1>2 DEF SlotsFree

(* An attempt may have used its slot when it ends; the next has the next one. *)
LEMMA SlotsAfterAttempt ==
    ASSUME SubmitterInv, NEW U, SlotsFree(U), NEW c \in calls, NEW V,
           V \subseteq U \cup {<<c.batch[1], c.attempt>>}, FateKept, fate' \in [Intent -> Fates],
           calls' = calls \ {c} \/ AttemptFails(c)
    PROVE  SlotsFree(V)'
<1>1. /\ c.attempt \in 1..SubmitRetries /\ c.batch[1] \in Intent /\ fate[c.batch[1]] = "submitting"
      /\ SubmitRetries \in Nat
  BY FirstOfBatch, RetriesAssumption DEF SubmitterInv, TypeOK
<1>2. ASSUME NEW i \in Intent, fate'[i] \in Untaken, NEW r \in 1..SubmitRetries PROVE <<i, r>> \notin V
  <2>1. fate[i] \in Untaken
    BY <1>2, UntakenBefore
  <2>2. i # c.batch[1]
    BY <1>1, <2>1 DEF Untaken
  <2> QED BY <2>1, <2>2 DEF SlotsFree
<1>3. ASSUME NEW d \in calls', NEW r \in d.attempt..SubmitRetries PROVE <<d.batch[1], r>> \notin V
  <2>1. CASE d \in calls /\ d # c
    <3>1. d.batch[1] # c.batch[1]
      BY <2>1, FirstOfBatch
    <3> QED BY <1>3, <2>1, <3>1 DEF SlotsFree
  <2>2. CASE ~(d \in calls /\ d # c)
    <3>1. d = [batch |-> c.batch, attempt |-> c.attempt + 1, acct |-> NotPrepared]
      BY <2>2 DEF AttemptFails
    <3>2. d.batch = c.batch /\ d.attempt = c.attempt + 1
      BY <3>1
    <3>3. r \in c.attempt..SubmitRetries /\ r # c.attempt
      BY <1>1, <1>3, <3>2
    <3> QED BY <3>2, <3>3 DEF SlotsFree
  <2> QED BY <2>1, <2>2
<1> QED BY <1>2, <1>3 DEF SlotsFree

(* What left the buffer stays out of it.                                      *)
LEMMA NoneReturns ==
    ASSUME SubmitterInv, [Next]_vars
    PROVE  FateKept /\ fate' \in [Intent -> Fates]
<1>1. fate' \in [Intent -> Fates] /\ fate \in [Intent -> Fates]
  BY NextSubmitterInv DEF SubmitterInv, TypeOK, Fates
<1>2. ASSUME NEW b \in Seq(Intent), NEW f \in Taken, fate' = SetFate(b, f) PROVE FateKept
  <2>1. f \in Fates
    BY DEF Taken, Fates
  <2>2. \A i \in Intent : fate'[i] = IF i \in BatchSet(b) THEN f ELSE fate[i]
    BY <1>2, <2>1, SetFateValues DEF SubmitterInv
  <2> QED BY <2>2 DEF FateKept
<1>3. UNCHANGED fate => FateKept
  BY DEF FateKept
<1>4. ASSUME NEW b \in Seq(Intent), StartSubmit(b) PROVE FateKept
  BY <1>2, <1>3, <1>4 DEF StartSubmit, Taken
<1>5. ASSUME NEW c \in calls, AttemptFails(c) PROVE FateKept
  <2>1. c.batch \in Seq(Intent)
    BY DEF SubmitterInv, TypeOK
  <2> QED BY <1>2, <1>3, <1>5, <2>1 DEF AttemptFails, Taken
<1>6. buf \in Seq(Intent)
  BY DEF SubmitterInv, TypeOK
<1>7. ASSUME NEW i \in Intent, Enqueue(i) PROVE FateKept
  <2>1. fate[i] = "new" /\ Append(buf, i) \in Seq(Intent)
    BY <1>6, <1>7, BatchAppend DEF Enqueue
  <2>2. CASE \E f : fate' = [fate EXCEPT ![i] = f]
    BY <1>1, <2>1, <2>2 DEF FateKept, Taken
  <2>3. CASE StartSubmit(Append(buf, i))
    BY <1>4, <2>1, <2>3
  <2> QED BY <1>7, <2>2, <2>3 DEF Enqueue
<1>8. ASSUME NEW c \in calls, SubmitStep(c) PROVE FateKept
  <2>1. c.batch \in Seq(Intent)
    BY DEF SubmitterInv, TypeOK
  <2>2. fate' = SetFate(c.batch, "sent") => FateKept
    BY <1>2, <2>1 DEF Taken
  <2> QED BY <1>3, <1>5, <1>8, <2>2 DEF SubmitStep, Prepare, Send, RpcError
<1>9. Kill => FateKept
  BY <1>1 DEF Kill, FateKept, Taken
<1>10. TimerFires \/ Mine \/ UNCHANGED vars => FateKept
  BY <1>3 DEF TimerFires, Mine, vars, submitVars
<1>11. OnTimer \/ Flush \/ Stop => FateKept
  BY <1>3, <1>4, <1>6 DEF OnTimer, Flush, Stop
<1> QED BY <1>1, <1>7, <1>8, <1>9, <1>10, <1>11 DEF Next

(* Every step uses the slot of the transaction it sends, if it sends one.     *)
LEMMA SentCountedKept ==
    ASSUME SubmitterInv, SentCounted, [Next]_vars
    PROVE  SentCounted'
<1>1. PICK U \in SUBSET Slots : Cardinality(U) = sent /\ SlotsFree(U)
  BY DEF SentCounted
<1>2. FateKept /\ fate' \in [Intent -> Fates] /\ sent \in Nat /\ buf \in Seq(Intent)
      /\ fate \in [Intent -> Fates]
  BY NoneReturns DEF SubmitterInv, TypeOK, Fates
<1>3. ASSUME SlotsFree(U)', sent' = sent PROVE SentCounted'
  BY <1>1, <1>3 DEF SentCounted
<1>4. ASSUME \A d \in calls' : d \in calls PROVE SlotsFree(U)'
  BY <1>1, <1>2, <1>4, UntakenBefore DEF SlotsFree
<1>5. CASE \E i \in Intent : Enqueue(i)
  <2>1. PICK i \in Intent : Enqueue(i)
    BY <1>5
  <2>2. fate[i] = "new" /\ sent' = sent
    BY <2>1 DEF Enqueue
  <2>3. CASE UNCHANGED calls
    BY <1>3, <1>4, <2>2, <2>3
  <2>4. CASE StartSubmit(Append(buf, i))
    <3>1. Append(buf, i) \in Seq(Intent) /\ BatchSet(Append(buf, i)) = BatchSet(buf) \cup {i}
      BY <1>2, BatchAppend
    <3>2. \A j \in BatchSet(Append(buf, i)) : fate[j] \in Untaken
      BY <1>2, <2>2, <3>1, BatchEmpty DEF SubmitterInv, OwnedOnce, Untaken
    <3> QED BY <1>1, <1>2, <1>3, <2>2, <2>4, <3>1, <3>2, SlotsAtStart
  <2> QED BY <2>1, <2>3, <2>4 DEF Enqueue
<1>6. CASE OnTimer \/ Flush \/ Stop
  <2>1. sent' = sent /\ (UNCHANGED calls \/ StartSubmit(buf))
    BY <1>6 DEF OnTimer, Flush, Stop
  <2>2. \A j \in BatchSet(buf) : fate[j] \in Untaken
    BY <1>2, BatchEmpty DEF SubmitterInv, OwnedOnce, Untaken
  <2> QED BY <1>1, <1>2, <1>3, <1>4, <2>1, <2>2, SlotsAtStart
<1>7. CASE \E c \in calls : SubmitStep(c)
  <2>1. PICK c \in calls : SubmitStep(c)
    BY <1>7
  <2>2. CASE Prepare(c) /\ ~Reverts(c.batch)
    <3> DEFINE d == [c EXCEPT !.acct = sent]
    <3>1. calls' = (calls \ {c}) \cup {d} /\ sent' = sent
      BY <2>2 DEF Prepare
    <3>2. c \in CallSet
      BY DEF SubmitterInv, CallsAreRecords
    <3>3. d.batch = c.batch /\ d.attempt = c.attempt
      BY <3>2 DEF CallSet
    <3> HIDE DEF d
    <3>4. ASSUME NEW e \in calls', NEW r \in e.attempt..SubmitRetries PROVE <<e.batch[1], r>> \notin U
      BY <1>1, <3>1, <3>3, <3>4 DEF SlotsFree
    <3>5. SlotsFree(U)'
      BY <1>1, <1>2, <3>4, UntakenBefore DEF SlotsFree
    <3> QED BY <1>3, <3>1, <3>5
  <2>3. CASE sent' = sent /\ AttemptFails(c)
    BY <1>1, <1>2, <1>3, <2>3, SlotsAfterAttempt
  <2>4. CASE Send(c) /\ c.acct = sent
    <3> DEFINE s == <<c.batch[1], c.attempt>>
               V == U \cup {s}
    <3>1. c.attempt \in 1..SubmitRetries /\ c.batch[1] \in Intent /\ SubmitRetries \in Nat
      BY FirstOfBatch, RetriesAssumption DEF SubmitterInv, TypeOK
    <3>2. s \in Slots /\ s \notin U
      BY <1>1, <3>1 DEF Slots, SlotsFree
    <3>3. IsFiniteSet(U)
      BY SlotsCounted, FS_Subset DEF Slots
    <3>4. Cardinality(V) = Cardinality(U) + 1
      BY <3>2, <3>3, FS_AddElement
    <3>5. sent' = sent + 1 /\ (calls' = calls \ {c} \/ AttemptFails(c))
      BY <2>4 DEF Send
    <3>6. SlotsFree(V)'
      BY <1>1, <1>2, <3>5, SlotsAfterAttempt
    <3> QED BY <1>1, <3>2, <3>4, <3>5, <3>6 DEF SentCounted
  <2> QED BY <2>1, <2>2, <2>3, <2>4 DEF SubmitStep, Prepare, Send, RpcError
<1>8. CASE TimerFires \/ Mine \/ Kill \/ UNCHANGED vars
  <2>1. sent' = sent /\ \A d \in calls' : d \in calls
    BY <1>8 DEF TimerFires, Mine, Kill, vars, submitVars
  <2> QED BY <1>3, <1>4, <2>1
<1> QED BY <1>5, <1>6, <1>7, <1>8 DEF Next

(* There are no more transactions than MaxBlocks.                             *)
LEMMA SentBounded == SentCounted => sent <= MaxBlocks
  BY SlotsCounted, FS_Subset DEF SentCounted, Slots

------------------------------------------------------------------------------
(* The chain between submitter and pipeline.                                  *)

(* Each transaction is in the node's pool or has its block; the logs of the   *)
(* blocks are those of settled payments, and a payment is logged once.        *)
ChainIsEvents ==
    /\ sent = Len(blocks) + Len(pool)
    /\ \A n \in DOMAIN blocks : \A a \in DOMAIN blocks[n] :
          blocks[n][a][2] = n /\ blocks[n][a][1] \in settlements
    /\ \A m, n \in DOMAIN blocks : \A a \in DOMAIN blocks[m], b \in DOMAIN blocks[n] :
          blocks[m][a][1] = blocks[n][b][1] => m = n /\ a = b

GatewayInv ==
    /\ SubmitterInv
    /\ PipeP!PipelineInv
    /\ SentCounted
    /\ ChainIsEvents

(* The pipeline reads a chain of blocks of dedup keys.                        *)
LEMMA BlocksTyped ==
    ASSUME PipeP!PipelineInv
    PROVE  /\ blocks \in Seq(Seq(Key)) /\ Len(blocks) \in Nat /\ DOMAIN blocks = 1..Len(blocks)
           /\ \A n \in DOMAIN blocks : blocks[n] \in Seq(Key)
<1>1. blocks \in Seq(Seq(Key))
  BY DEF PipeP!PipelineInv, PipeP!ChainShape
<1> QED BY <1>1

(* The logs of a transaction are the end of the contract's log: nonces that   *)
(* were not settled before, each once.                                        *)
LEMMA LogsOfTransaction ==
    ASSUME SubmitterInv, Mine
    PROVE  \E new \in Seq(Payments) :
              /\ new = SubSeq(events', Len(events) + 1, Len(events'))
              /\ NoRepeats(new)
              /\ \A m \in DOMAIN new : new[m] \notin settlements /\ new[m] \in settlements'
              /\ settlements' = settlements \cup BatchSet(new)
              /\ \A m \in DOMAIN new : \E i \in BatchSet(Head(pool)) : NonceOf[i] = new[m]
<1> DEFINE b == Head(pool)
           new == SubSeq(events', Len(events) + 1, Len(events'))
<1>1. /\ events \in Seq(Payments) /\ SettleBatch(b) /\ b \in Seq(Intent)
      /\ NoRepeats(events) /\ settlements = BatchSet(events)
  BY DEF SubmitterInv, EventsAreNonces, Nonces, Payments, Mine, TypeOK, SettledOnce, BatchSet
<1>2. SubmitterInv'
  BY NextSubmitterInv DEF Next
<1>3. NoRepeats(events') /\ settlements' = BatchSet(events')
  BY <1>2 DEF SubmitterInv, SettledOnce, BatchSet
<1>4. \E t \in Seq(Payments) : /\ events' = events \o t
                               /\ \A m \in DOMAIN t : \E i \in BatchSet(b) : NonceOf[i] = t[m]
  <2>1. CASE Reverts(b)
    <3>1. events' = events \o <<>> /\ <<>> \in Seq(Payments) /\ DOMAIN <<>> = {}
      BY <1>1, <2>1 DEF SettleBatch, escrowVars
    <3> QED BY <3>1
  <2>2. CASE ~Reverts(b)
    <3>1. events' = events \o NoncesIn(b)
      BY <1>1, <2>2 DEF SettleBatch
    <3>2. NoncesIn(b) \in Seq(Payments) /\ DOMAIN NoncesIn(b) = DOMAIN b
          /\ \A m \in DOMAIN b : NoncesIn(b)[m] = NonceOf[b[m]]
      BY <1>1 DEF NoncesIn, Payments
    <3>3. \A m \in DOMAIN b : b[m] \in BatchSet(b)
      BY DEF BatchSet
    <3>4. PICK t : t = NoncesIn(b)
      OBVIOUS
    <3>5. \A m \in DOMAIN t : \E i \in BatchSet(b) : NonceOf[i] = t[m]
      BY <3>2, <3>3, <3>4, Zenon
    <3>6. t \in Seq(Payments) /\ events' = events \o t
      BY <3>1, <3>2, <3>4, Zenon
    <3> QED BY <3>5, <3>6, Zenon
  <2> QED BY <2>1, <2>2
<1>5. PICK t \in Seq(Payments) : /\ events' = events \o t
                                 /\ \A m \in DOMAIN t : \E i \in BatchSet(b) : NonceOf[i] = t[m]
  BY <1>4
<1>6. /\ Len(events) \in Nat /\ Len(t) \in Nat /\ DOMAIN t = 1..Len(t)
      /\ DOMAIN events = 1..Len(events) /\ Len(events') = Len(events) + Len(t)
      /\ DOMAIN events' = 1..(Len(events) + Len(t))
      /\ \A m \in 1..Len(t) : events'[Len(events) + m] = t[m]
      /\ \A m \in 1..Len(events) : events'[m] = events[m]
  BY <1>1, <1>5
<1>7. new = t
  BY <1>1, <1>5, <1>6
<1> HIDE DEF new
<1>8. NoRepeats(t)
  <2> SUFFICES ASSUME NEW m \in 1..Len(t), NEW n \in 1..Len(t), t[m] = t[n] PROVE m = n
    BY <1>6 DEF NoRepeats
  <2>1. events'[Len(events) + m] = events'[Len(events) + n]
    BY <1>6
  <2>2. Len(events) + m \in DOMAIN events' /\ Len(events) + n \in DOMAIN events'
    BY <1>6
  <2>3. Len(events) + m = Len(events) + n
    BY <1>3, <2>1, <2>2 DEF NoRepeats
  <2> QED BY <1>6, <2>3
<1>9. ASSUME NEW m \in DOMAIN t PROVE t[m] \notin settlements /\ t[m] \in settlements'
  <2>1. Len(events) + m \in DOMAIN events' /\ events'[Len(events) + m] = t[m] /\ m \in Nat /\ m >= 1
    BY <1>6
  <2>2. t[m] \in settlements'
    BY <1>3, <2>1 DEF BatchSet
  <2>3. ASSUME NEW n \in DOMAIN events, events[n] = t[m] PROVE FALSE
    <3>1. n \in DOMAIN events' /\ events'[n] = t[m] /\ n < Len(events) + m
      BY <1>6, <2>1, <2>3
    <3>2. n = Len(events) + m
      BY <1>3, <2>1, <3>1 DEF NoRepeats
    <3>3. n \in Nat
      BY <1>6
    <3> QED BY <1>6, <2>1, <3>1, <3>2, <3>3
  <2> QED BY <1>1, <2>2, <2>3 DEF BatchSet
<1>10. settlements' = settlements \cup BatchSet(t)
  BY <1>1, <1>3, <1>5, LogGrows
<1> QED BY <1>5, <1>7, <1>8, <1>9, <1>10 DEF new

(* Writing a set's elements down without repetition is one of SetToSeqs.      *)
LEMMA ListedOnce ==
    ASSUME NEW S, NEW q \in Seq(S), NoRepeats(q), S = BatchSet(q)
    PROVE  q \in Pipe!SetToSeqs(S)
<1>1. Len(q) \in Nat /\ DOMAIN q = 1..Len(q) /\ q \in [1..Len(q) -> S]
  OBVIOUS
<1>2. q \in Bijection(1..Len(q), S)
  <2>1. \A m, n \in 1..Len(q) : m # n => q[m] # q[n]
    BY <1>1 DEF NoRepeats
  <2>2. \A x \in S : \E m \in 1..Len(q) : q[m] = x
    BY <1>1 DEF BatchSet
  <2>3. q \in Injection(1..Len(q), S)
    BY <1>1, <2>1, Zenon DEF Injection, IsInjective
  <2>4. q \in Surjection(1..Len(q), S)
    BY <1>1, <2>2, Zenon DEF Surjection
  <2> QED BY <2>3, <2>4 DEF Bijection
<1>3. Cardinality(S) = Len(q)
  BY <1>1, <1>2, FS_CountingElements DEF ExistsBijection
<1>4. Pipe!Cardinality(S) = Len(q)
  BY <1>3 DEF Cardinality, Pipe!Cardinality
<1>5. \A m, n \in 1..Len(q) : m # n => q[m] # q[n]
  BY <1>1 DEF NoRepeats
<1> HIDE DEF Pipe!Cardinality
<1> QED BY <1>1, <1>4, <1>5 DEF Pipe!SetToSeqs

(* A transaction that is mined is a block of the pipeline's chain.            *)
LEMMA MineBatchIsMineBlock ==
    ASSUME GatewayInv, MineBatch
    PROVE  Pipe!MineBlock /\ ChainIsEvents'
<1>1. PICK new \in Seq(Payments) :
         /\ new = SubSeq(events', Len(events) + 1, Len(events'))
         /\ NoRepeats(new)
         /\ \A m \in DOMAIN new : new[m] \notin settlements /\ new[m] \in settlements'
         /\ settlements' = settlements \cup BatchSet(new)
  BY LogsOfTransaction DEF GatewayInv, MineBatch
<1> DEFINE N == Len(blocks) + 1
           logs == [m \in DOMAIN new |-> <<new[m], N>>]
<1>2. /\ blocks' = Append(blocks, logs)
      /\ UNCHANGED <<proc, file, synced, records, order, op, failed, written,
                     watcher, head, nextBlock, queue, seqCount, dropped, failures>>
  BY <1>1, Zenon DEF MineBatch
<1>3. /\ blocks \in Seq(Seq(Key)) /\ Len(blocks) \in Nat /\ DOMAIN blocks = 1..Len(blocks)
      /\ \A n \in DOMAIN blocks : blocks[n] \in Seq(Key)
  BY BlocksTyped DEF GatewayInv
<1>4. Len(blocks) < MaxBlocks /\ sent' = sent /\ Len(pool') = Len(pool) - 1 /\ Len(pool) \in Nat
  <2>1. pool \in Seq(Seq(Intent)) /\ pool # <<>> /\ pool' = Tail(pool) /\ sent' = sent
    BY DEF MineBatch, Mine, GatewayInv, SubmitterInv, TypeOK
  <2>2. Len(pool) \in Nat /\ Len(pool) >= 1 /\ Len(pool') = Len(pool) - 1
    BY <2>1
  <2>3. sent <= MaxBlocks /\ sent = Len(blocks) + Len(pool) /\ MaxBlocks \in Nat
    BY SentBounded, SlotsCounted DEF GatewayInv, ChainIsEvents
  <2> QED BY <1>3, <2>1, <2>2, <2>3
<1>5. N \in 1..MaxBlocks /\ N \notin DOMAIN blocks
  BY <1>3, <1>4, SlotsCounted
<1>6. /\ DOMAIN logs = DOMAIN new /\ DOMAIN new = 1..Len(new) /\ Len(new) \in Nat
      /\ \A m \in DOMAIN new : /\ logs[m] = <<new[m], N>> /\ logs[m] \in Key
                               /\ logs[m][1] = new[m] /\ logs[m][2] = N
  <2>1. DOMAIN new = 1..Len(new) /\ Len(new) \in Nat /\ \A m \in DOMAIN new : new[m] \in Payments
    OBVIOUS
  <2>2. \A m \in DOMAIN new : <<new[m], N>> \in Key
    BY <1>5, <2>1 DEF Key
  <2> QED BY <2>1, <2>2
<1>7. logs \in Seq(Key) /\ NoRepeats(logs)
  <2>1. logs \in Seq(Key)
    <3>1. logs \in [1..Len(new) -> Key]
      BY <1>6
    <3> HIDE DEF logs
    <3> QED BY <1>6, <3>1
  <2>2. ASSUME NEW m \in DOMAIN logs, NEW n \in DOMAIN logs, logs[m] = logs[n] PROVE m = n
    <3>1. new[m] = new[n]
      BY <1>6, <2>2
    <3> QED BY <1>1, <1>6, <3>1 DEF NoRepeats
  <2> QED BY <2>1, <2>2 DEF NoRepeats
<1> HIDE DEF logs
<1>8. /\ DOMAIN blocks' = DOMAIN blocks \cup {N} /\ Len(blocks') = N
      /\ blocks'[N] = logs /\ \A n \in DOMAIN blocks : blocks'[n] = blocks[n]
  BY <1>2, <1>3, <1>7
<1>9. ChainIsEvents'
  <2>1. sent' = Len(blocks') + Len(pool')
    BY <1>3, <1>4, <1>8 DEF GatewayInv, ChainIsEvents
  <2>2. ASSUME NEW n \in DOMAIN blocks', NEW a \in DOMAIN blocks'[n]
        PROVE  blocks'[n][a][2] = n /\ blocks'[n][a][1] \in settlements'
    <3>1. CASE n \in DOMAIN blocks
      BY <1>1, <1>8, <2>2, <3>1 DEF GatewayInv, ChainIsEvents
    <3>2. CASE n = N
      BY <1>1, <1>6, <1>8, <2>2, <3>2
    <3> QED BY <1>8, <2>2, <3>1, <3>2
  <2>3. ASSUME NEW m \in DOMAIN blocks', NEW n \in DOMAIN blocks',
               NEW a \in DOMAIN blocks'[m], NEW b \in DOMAIN blocks'[n],
               blocks'[m][a][1] = blocks'[n][b][1]
        PROVE  m = n /\ a = b
    <3>1. ASSUME NEW o \in DOMAIN blocks, NEW c \in DOMAIN blocks[o] PROVE blocks'[o][c][1] \in settlements
      BY <1>8, <3>1 DEF GatewayInv, ChainIsEvents
    <3>2. ASSUME NEW c \in DOMAIN blocks'[N] PROVE blocks'[N][c][1] \notin settlements /\ c \in DOMAIN new
                                                   /\ blocks'[N][c][1] = new[c]
      BY <1>1, <1>6, <1>8, <3>2
    <3>3. CASE m \in DOMAIN blocks /\ n \in DOMAIN blocks
      BY <1>8, <2>3, <3>3 DEF GatewayInv, ChainIsEvents
    <3>4. CASE m = N /\ n = N
      BY <1>1, <2>3, <3>2, <3>4 DEF NoRepeats
    <3>5. CASE m \in DOMAIN blocks /\ n = N
      BY <1>8, <2>3, <3>1, <3>2, <3>5
    <3>6. CASE m = N /\ n \in DOMAIN blocks
      BY <1>8, <2>3, <3>1, <3>2, <3>6
    <3> QED BY <1>8, <2>3, <3>3, <3>4, <3>5, <3>6
  <2> QED BY <2>1, <2>2, <2>3 DEF ChainIsEvents
<1>10. BatchSet(logs) \in SUBSET (Key \ Pipe!Mined)
  <2> SUFFICES ASSUME NEW m \in DOMAIN logs PROVE logs[m] \in Key /\ logs[m] \notin Pipe!Mined
    BY DEF BatchSet
  <2>1. ASSUME NEW n \in DOMAIN blocks, NEW a \in DOMAIN blocks[n], blocks[n][a] = logs[m] PROVE FALSE
    <3>1. n = N
      BY <1>6, <2>1 DEF GatewayInv, ChainIsEvents
    <3> QED BY <1>5, <2>1, <3>1
  <2>2. logs[m] \notin Pipe!Mined
    BY <2>1 DEF Pipe!Mined, Pipe!ToSet
  <2> QED BY <1>6, <2>2
<1>11. logs \in Pipe!SetToSeqs(BatchSet(logs))
  <2>1. logs \in Seq(BatchSet(logs))
    <3>1. DOMAIN logs = 1..Len(logs) /\ Len(logs) \in Nat
      BY <1>7
    <3>2. logs \in [1..Len(logs) -> BatchSet(logs)]
      BY <1>7, <3>1 DEF BatchSet
    <3> QED BY <3>1, <3>2
  <2> QED BY <1>7, <2>1, ListedOnce
<1>12. UNCHANGED <<Pipe!storeVars, Pipe!watchVars, dropped, failures>>
  BY <1>2 DEF Pipe!storeVars, Pipe!watchVars
<1>13. Pipe!MineBlock
  BY <1>2, <1>4, <1>10, <1>11, <1>12 DEF Pipe!MineBlock
<1> QED BY <1>9, <1>13

(* While blocks and settlements stay, the rest of the gateway's steps keep    *)
(* the count of its transactions.                                             *)
LEMMA ChainIsEventsKept ==
    ASSUME ChainIsEvents, UNCHANGED <<blocks, settlements>>, sent' = Len(blocks) + Len(pool')
    PROVE  ChainIsEvents'
  BY DEF ChainIsEvents

(* Every step of the gateway is a step of the submitter or leaves it alone,   *)
(* and a step of the pipeline or leaves it alone.                             *)
LEMMA GatewaySteps ==
    ASSUME GatewayInv, [GatewayNext]_gatewayVars
    PROVE  [Next]_vars /\ [Pipe!Next]_(Pipe!vars) /\ [PipeP!Next]_(PipeP!vars) /\ ChainIsEvents'
<1>1. ChainIsEvents /\ Len(blocks) \in Nat /\ pool \in Seq(Seq(Intent)) /\ sent \in Nat
  BY BlocksTyped DEF GatewayInv, SubmitterInv, TypeOK
<1>2. UNCHANGED pipeVars => UNCHANGED Pipe!vars /\ UNCHANGED PipeP!vars /\ UNCHANGED blocks
  BY DEF pipeVars, Pipe!vars, PipeP!vars, Pipe!storeVars, PipeP!storeVars, Pipe!watchVars, PipeP!watchVars
<1>3. UNCHANGED vars => UNCHANGED <<settlements, sent, pool>>
  BY DEF vars, submitVars, escrowVars
<1>4. UNCHANGED <<blocks, settlements, sent, pool>> => ChainIsEvents'
  BY <1>1, ChainIsEventsKept DEF ChainIsEvents
<1>5. CASE \E i \in Intent : Ingest(i)
  <2>1. PICK i \in Intent : Enqueue(i) /\ UNCHANGED pipeVars
    BY <1>5 DEF Ingest
  <2>2. UNCHANGED <<settlements, sent, pool>>
    BY <2>1 DEF Enqueue, escrowVars
  <2> QED BY <1>2, <1>4, <2>1, <2>2 DEF Next
<1>6. CASE Submit
  <2>1. UNCHANGED pipeVars /\ (TimerFires \/ OnTimer \/ \E c \in calls : SubmitStep(c))
    BY <1>6 DEF Submit
  <2>2. CASE TimerFires \/ OnTimer
    <3>1. UNCHANGED <<settlements, sent, pool>>
      BY <2>2 DEF TimerFires, OnTimer, escrowVars
    <3> QED BY <1>2, <1>4, <2>1, <2>2, <3>1 DEF Next
  <2>3. CASE \E c \in calls : SubmitStep(c)
    <3>1. PICK c \in calls : SubmitStep(c)
      BY <2>3
    <3>2. UNCHANGED settlements
      BY <3>1 DEF SubmitStep, Prepare, Send, RpcError, escrowVars
    <3>3. \/ UNCHANGED <<sent, pool>>
          \/ pool' = Append(pool, c.batch) /\ sent' = sent + 1
      BY <3>1 DEF SubmitStep, Prepare, Send, RpcError
    <3>4. c.batch \in Seq(Intent)
      BY DEF GatewayInv, SubmitterInv, TypeOK
    <3>5. sent' = Len(blocks) + Len(pool')
      BY <1>1, <3>3, <3>4 DEF ChainIsEvents
    <3>6. ChainIsEvents'
      BY <1>1, <1>2, <2>1, <3>2, <3>5, ChainIsEventsKept
    <3> QED BY <1>2, <2>1, <2>3, <3>6 DEF Next
  <2> QED BY <2>1, <2>2, <2>3
<1>7. CASE MineBatch
  <2>1. Pipe!MineBlock /\ ChainIsEvents'
    BY <1>7, MineBatchIsMineBlock
  <2> QED BY <1>7, <2>1, SameMineBlock DEF MineBatch, Next, Pipe!Next, PipeP!Next
<1>8. CASE Main
  <2>1. Pipe!Boot /\ UNCHANGED vars /\ UNCHANGED blocks
    BY <1>8 DEF Main, Pipe!Boot
  <2> QED BY <1>3, <1>4, <2>1, SameBoot DEF Pipe!Next, PipeP!Next
<1>9. CASE WatchStep
  <2>1. (Pipe!Watch \/ Pipe!StoreStep) /\ UNCHANGED vars
    BY <1>9 DEF WatchStep
  <2>2. UNCHANGED blocks
    BY <2>1 DEF Pipe!Watch, Pipe!PollHead, Pipe!PollLogs, Pipe!HandleKnown, Pipe!HandleNew,
                Pipe!HandleReturns, Pipe!StoreStep
  <2> QED BY <1>3, <1>4, <2>1, <2>2, SameWatch DEF Pipe!Next, PipeP!Next
<1>10. CASE Outside
  <2>1. (Pipe!PollFails \/ \E k \in Key : Pipe!Acknowledge(k)) /\ UNCHANGED vars
    BY <1>10 DEF Outside
  <2>2. UNCHANGED blocks
    BY <2>1 DEF Pipe!PollFails, Pipe!Acknowledge
  <2> QED BY <1>3, <1>4, <2>1, <2>2, SameOutside DEF Pipe!Next, PipeP!Next
<1>11. CASE Die
  <2>1. Pipe!Crash /\ Kill
    BY <1>11 DEF Die
  <2>2. UNCHANGED <<blocks, settlements, sent, pool>>
    BY <2>1 DEF Pipe!Crash, Kill, escrowVars
  <2> QED BY <1>4, <2>1, <2>2, SameOutside DEF Next, Pipe!Next, PipeP!Next
<1>12. CASE UNCHANGED gatewayVars
  <2>1. UNCHANGED vars /\ UNCHANGED pipeVars
    BY <1>12 DEF gatewayVars
  <2> QED BY <1>2, <1>3, <1>4, <2>1
<1> QED BY <1>5, <1>6, <1>7, <1>8, <1>9, <1>10, <1>11, <1>12 DEF GatewayNext

(* A first boot: nothing sent, nothing mined.                                 *)
LEMMA InitGatewayInv == GatewayInit => GatewayInv
<1> SUFFICES ASSUME GatewayInit PROVE GatewayInv
  OBVIOUS
<1>1. SubmitterInit /\ file = <<>> /\ Pipe!PipelineInit
  BY DEF GatewayInit
<1>2. SubmitterInv /\ PipeP!PipelineInv
  BY <1>1, InitSubmitterInv, SameInit, PipelineInduction
<1>3. SentCounted
  <2>1. sent = 0 /\ calls = {}
    BY <1>1 DEF SubmitterInit
  <2>2. Cardinality({}) = 0 /\ {} \in SUBSET Slots
    BY FS_EmptySet
  <2>3. SlotsFree({})
    BY <2>1 DEF SlotsFree
  <2> QED BY <2>1, <2>2, <2>3 DEF SentCounted
<1>4. ChainIsEvents
  <2>1. sent = 0 /\ pool = <<>> /\ blocks = <<>>
    BY <1>1 DEF SubmitterInit, Pipe!PipelineInit
  <2> QED BY <2>1 DEF ChainIsEvents
<1> QED BY <1>2, <1>3, <1>4 DEF GatewayInv

(* Every step of the gateway keeps the invariant.                             *)
LEMMA NextGatewayInv == GatewayInv /\ [GatewayNext]_gatewayVars => GatewayInv'
<1> SUFFICES ASSUME GatewayInv, [GatewayNext]_gatewayVars PROVE GatewayInv'
  OBVIOUS
<1>1. [Next]_vars /\ [PipeP!Next]_(PipeP!vars) /\ ChainIsEvents'
  BY GatewaySteps
<1>2. SubmitterInv' /\ SentCounted'
  BY <1>1, NextSubmitterInv, SentCountedKept DEF GatewayInv
<1>3. PipeP!PipelineInv'
  BY <1>1, PipelineInduction DEF GatewayInv
<1> QED BY <1>1, <1>2, <1>3 DEF GatewayInv

(* The pipeline's own invariant rules out two receipts of one settlement.     *)
LEMMA PipelineOneReceipt ==
    ASSUME PipeP!PipelineInv, NEW m \in DOMAIN file, NEW n \in DOMAIN file,
           file[m].key = file[n].key, file[m].status = "PENDING", file[n].status = "PENDING"
    PROVE  m = n
<1>1. PipeP!OneReceiptPerSettlement
  BY PipelineAssumptions, PipeP!OneReceiptEach
<1> QED BY <1>1 DEF PipeP!OneReceiptPerSettlement

(* The invariant of submitter, chain and pipeline together.                   *)
THEOREM GatewayInvariant == GatewaySpec => []GatewayInv
  BY InitGatewayInv, NextGatewayInv, PTL DEF GatewaySpec

(* Composition: what the gateway does is a behaviour of the submitter and one  *)
(* of the pipeline, so everything that holds of each alone holds in it.       *)
THEOREM GatewayComposes == GatewaySpec => Spec /\ Pipe!Spec
<1>1. GatewayInit => SubmitterInit /\ Pipe!PipelineInit
  BY DEF GatewayInit
<1>2. GatewayInv /\ [GatewayNext]_gatewayVars => [Next]_vars /\ [Pipe!Next]_(Pipe!vars)
  BY GatewaySteps
<1> QED BY <1>1, <1>2, GatewayInvariant, PTL DEF GatewaySpec, Spec, Pipe!Spec

(* No payment gets two receipts, although a resent batch or a replayed frame  *)
(* may bring it before the contract twice and the dedup key would not notice. *)
THEOREM GatewayOneReceiptPerPayment == GatewaySpec => []OneReceiptPerPayment
<1>1. GatewayInv => OneReceiptPerPayment
  <2> SUFFICES ASSUME GatewayInv, NEW m \in DOMAIN file, NEW n \in DOMAIN file,
                      file[m].key[1] = file[n].key[1],
                      file[m].status = "PENDING", file[n].status = "PENDING"
               PROVE  m = n
    BY DEF OneReceiptPerPayment
  <2>1. file[m].key \in PipeP!Mined /\ file[n].key \in PipeP!Mined
    BY DEF GatewayInv, PipeP!PipelineInv, PipeP!FileFollowsChain
  <2>2. PICK c \in DOMAIN blocks : \E a \in DOMAIN blocks[c] : blocks[c][a] = file[m].key
    BY <2>1 DEF PipeP!Mined, PipeP!ToSet
  <2>3. PICK d \in DOMAIN blocks : \E b \in DOMAIN blocks[d] : blocks[d][b] = file[n].key
    BY <2>1 DEF PipeP!Mined, PipeP!ToSet
  <2>4. file[m].key = file[n].key
    BY <2>2, <2>3 DEF GatewayInv, ChainIsEvents
  <2> QED BY <2>4, PipelineOneReceipt DEF GatewayInv
<1> QED BY <1>1, GatewayInvariant, PTL

------------------------------------------------------------------------------
(* The journey of a payment, step by step.  The store's file and memory enter *)
(* only through the ledger they implement.                                    *)

Stage == [p \in Payments |-> StageOf(p)]
Told == [p \in Payments |-> ReceiptStage(p, LAMBDA k : written[k])]

\* The ledger's status of each dedup key.
InFile == [k \in Key |-> PipeP!Latest(file, k)]

Statuses == {"NONE", "PENDING", "DISPATCHED"}

\* The stage a receipt of this status stands for.
StageFor(s) == IF s = "DISPATCHED" THEN 4 ELSE IF s = "PENDING" THEN 3 ELSE 0

\* How far a payment is without a receipt.
Known(p) == \E i \in Intent : NonceOf[i] = p /\ fate[i] # "new"
Unreceipted(p) == IF p \in settlements THEN 2 ELSE IF Known(p) THEN 1 ELSE 0

\* A payment's stages in terms of the ledger: it has one receipt or none.
StageFacts ==
    /\ InFile \in [Key -> Statuses] /\ written \in [Key -> Statuses]
    /\ \A k \in Key : StageFor(written[k]) <= StageFor(InFile[k])
    /\ \A k \in Key : InFile[k] # "NONE" =>
          /\ k[1] \in settlements
          /\ Stage[k[1]] = StageFor(InFile[k]) /\ Told[k[1]] = StageFor(written[k])
    /\ \A k, l \in Key : InFile[k] # "NONE" /\ InFile[l] # "NONE" /\ k[1] = l[1] => k = l
    /\ \A p \in Payments : (\A k \in Key : k[1] = p => InFile[k] = "NONE") =>
          Stage[p] = Unreceipted(p) /\ Told[p] = 0

\* What the refinement needs of a state.
JourneyInv == GatewayInv /\ PipeP!LedgerInv

(* The two instances read the file alike.                                     *)
LEMMA SameLatest == \A f, k : Pipe!Latest(f, k) = PipeP!Latest(f, k)
  BY DEF Pipe!Latest, PipeP!Latest, Pipe!LinesOf, PipeP!LinesOf, Pipe!Parses, PipeP!Parses,
         Pipe!Normal, PipeP!Normal, Pipe!Max, PipeP!Max

(* The ledger's status of a key, what a caller was told of it, and the file.  *)
LEMMA LedgerFacts ==
    ASSUME "partial" \notin Faults, JourneyInv
    PROVE  /\ InFile \in [Key -> Statuses] /\ written \in [Key -> Statuses]
           /\ \A k \in Key : StageFor(written[k]) <= StageFor(InFile[k])
           /\ \A k \in Key : InFile[k] = PipeP!Latest(file, k)
           /\ \A k \in Key : InFile[k] # "NONE" <=> \E n \in DOMAIN file : file[n].key = k
<1>1. ASSUME NEW k \in Key
      PROVE  /\ PipeP!Rank(written[k]) <= PipeP!Rank(PipeP!Latest(file, k))
             /\ PipeP!Latest(file, k) \in Statuses /\ written[k] \in Statuses
             /\ PipeP!Latest(file, k) # "NONE" <=> \E n \in DOMAIN file : file[n].key = k
  <2>1. /\ PipeP!Rank(written[k]) <= PipeP!Rank(PipeP!Latest(file, k))
        /\ PipeP!Latest(file, k) \in PipeP!Status /\ written[k] \in PipeP!Status
        /\ PipeP!Latest(file, k) # "NONE" <=> \E n \in DOMAIN file : file[n].key = k
    BY <1>1, PipelineAssumptions, PipeP!WrittenBehindFile DEF JourneyInv
  <2> QED BY <2>1 DEF PipeP!Status, PipeP!Recorded, Statuses
<1>2. \A k \in Key : InFile[k] = PipeP!Latest(file, k)
  BY DEF InFile
<1>3. InFile \in [Key -> Statuses]
  BY <1>1 DEF InFile
<1>4. written \in [Key -> Statuses]
  BY DEF JourneyInv, PipeP!LedgerInv, PipeP!StoreInv, PipeP!TypeOK, PipeP!Status, PipeP!Recorded, Statuses
<1>5. PipeP!Rank("NONE") = 0 /\ PipeP!Rank("PENDING") = 1 /\ PipeP!Rank("DISPATCHED") = 2
  BY DEF PipeP!Rank
<1>6. \A s, t \in Statuses : PipeP!Rank(s) <= PipeP!Rank(t) => StageFor(s) <= StageFor(t)
  BY <1>5 DEF Statuses, StageFor
<1> QED BY <1>1, <1>2, <1>3, <1>4, <1>6

(* A receipt in the file is of a payment that settled, its only one.          *)
LEMMA ReceiptsOfPayments ==
    ASSUME GatewayInv, NEW m \in DOMAIN file, NEW n \in DOMAIN file
    PROVE  /\ file[m].key[1] \in settlements /\ file[m].key \in Key
           /\ file[m].key[1] = file[n].key[1] => file[m].key = file[n].key
<1>1. file[m].key \in PipeP!Mined /\ file[n].key \in PipeP!Mined
  BY DEF GatewayInv, PipeP!PipelineInv, PipeP!FileFollowsChain
<1>2. PICK c \in DOMAIN blocks : \E a \in DOMAIN blocks[c] : blocks[c][a] = file[m].key
  BY <1>1 DEF PipeP!Mined, PipeP!ToSet
<1>3. PICK d \in DOMAIN blocks : \E b \in DOMAIN blocks[d] : blocks[d][b] = file[n].key
  BY <1>1 DEF PipeP!Mined, PipeP!ToSet
<1>4. blocks[c] \in Seq(Key)
  BY BlocksTyped DEF GatewayInv
<1>5. file[m].key \in Key
  BY <1>2, <1>4
<1> QED BY <1>2, <1>3, <1>5 DEF GatewayInv, ChainIsEvents

(* Each payment's stages are those of its one receipt, or it has none.        *)
LEMMA StageFactsHold ==
    ASSUME "partial" \notin Faults
    PROVE  JourneyInv => StageFacts
<1> SUFFICES ASSUME JourneyInv PROVE StageFacts
  OBVIOUS
<1>1. /\ InFile \in [Key -> Statuses] /\ written \in [Key -> Statuses]
      /\ \A k \in Key : StageFor(written[k]) <= StageFor(InFile[k])
      /\ \A k \in Key : InFile[k] = PipeP!Latest(file, k)
      /\ \A k \in Key : InFile[k] # "NONE" <=> \E n \in DOMAIN file : file[n].key = k
  BY LedgerFacts
<1> DEFINE KeysOf(p) == {file[n].key : n \in {m \in DOMAIN file : file[m].key[1] = p}}
<1>2. \A p : ReceiptStage(p, LAMBDA k : Pipe!Latest(file, k))
               = LET seen == {Pipe!Latest(file, k) : k \in KeysOf(p)}
                 IN  IF "DISPATCHED" \in seen THEN 4 ELSE IF "PENDING" \in seen THEN 3 ELSE 0
  BY DEF ReceiptStage
<1>3. \A p : ReceiptStage(p, LAMBDA k : written[k])
               = LET seen == {written[k] : k \in KeysOf(p)}
                 IN  IF "DISPATCHED" \in seen THEN 4 ELSE IF "PENDING" \in seen THEN 3 ELSE 0
  BY DEF ReceiptStage
<1>4. ASSUME NEW k \in Key, InFile[k] # "NONE"
      PROVE  k[1] \in settlements /\ k[1] \in Payments /\ KeysOf(k[1]) = {k}
  <2>1. PICK n \in DOMAIN file : file[n].key = k
    BY <1>1, <1>4
  <2>2. k[1] \in settlements
    BY <2>1, ReceiptsOfPayments DEF JourneyInv
  <2>3. ASSUME NEW m \in DOMAIN file, file[m].key[1] = k[1] PROVE file[m].key = k
    BY <2>1, <2>3, ReceiptsOfPayments DEF JourneyInv
  <2>4. k[1] \in Payments
    BY DEF Key
  <2> QED BY <2>1, <2>2, <2>3, <2>4
<1>5. ASSUME NEW p \in Payments, \A k \in Key : k[1] = p => InFile[k] = "NONE"
      PROVE  KeysOf(p) = {}
  <2>1. ASSUME NEW m \in DOMAIN file, file[m].key[1] = p PROVE FALSE
    <3>1. file[m].key \in Key
      BY ReceiptsOfPayments DEF JourneyInv
    <3> QED BY <1>1, <1>5, <2>1, <3>1
  <2> QED BY <2>1
<1> HIDE DEF KeysOf
<1>6. ASSUME NEW k \in Key, InFile[k] # "NONE"
      PROVE  Stage[k[1]] = StageFor(InFile[k]) /\ Told[k[1]] = StageFor(written[k])
  <2>1. KeysOf(k[1]) = {k} /\ k[1] \in Payments
    BY <1>4, <1>6
  <2>2. ReceiptStage(k[1], LAMBDA l : Pipe!Latest(file, l)) = StageFor(InFile[k])
    <3>1. {Pipe!Latest(file, l) : l \in KeysOf(k[1])} = {InFile[k]}
      BY <1>1, <2>1, SameLatest
    <3> QED BY <1>2, <3>1 DEF StageFor
  <2>3. ReceiptStage(k[1], LAMBDA l : written[l]) = StageFor(written[k])
    <3>1. {written[l] : l \in KeysOf(k[1])} = {written[k]}
      BY <2>1
    <3> QED BY <1>3, <3>1 DEF StageFor
  <2>4. StageFor(InFile[k]) # 0
    BY <1>1, <1>6 DEF StageFor, Statuses
  <2>5. StageOf(k[1]) = StageFor(InFile[k])
    BY <2>2, <2>4 DEF StageOf
  <2> QED BY <2>1, <2>3, <2>5 DEF Stage, Told
<1>7. ASSUME NEW p \in Payments, \A k \in Key : k[1] = p => InFile[k] = "NONE"
      PROVE  Stage[p] = Unreceipted(p) /\ Told[p] = 0
  <2>1. KeysOf(p) = {}
    BY <1>5, <1>7
  <2>2. ReceiptStage(p, LAMBDA l : Pipe!Latest(file, l)) = 0
    BY <1>2, <2>1
  <2>3. ReceiptStage(p, LAMBDA l : written[l]) = 0
    BY <1>3, <2>1
  <2>4. StageOf(p) = Unreceipted(p)
    BY <2>2 DEF StageOf, Unreceipted, Known
  <2> QED BY <2>3, <2>4 DEF Stage, Told
<1>8. \A k, l \in Key : InFile[k] # "NONE" /\ InFile[l] # "NONE" /\ k[1] = l[1] => k = l
  BY <1>4
<1> QED BY <1>1, <1>4, <1>6, <1>7, <1>8 DEF StageFacts

(* A payment whose key, settlement and acceptance stay as they are stays      *)
(* where it is.                                                               *)
LEMMA SameStage ==
    ASSUME StageFacts, StageFacts', NEW p \in Payments,
           \A k \in Key : k[1] = p => InFile'[k] = InFile[k] /\ written'[k] = written[k],
           Unreceipted(p)' = Unreceipted(p)
    PROVE  Stage'[p] = Stage[p] /\ Told'[p] = Told[p]
<1>1. CASE \E k \in Key : k[1] = p /\ InFile[k] # "NONE"
  <2>1. PICK k \in Key : k[1] = p /\ InFile[k] # "NONE"
    BY <1>1
  <2>2. Stage[p] = StageFor(InFile[k]) /\ Told[p] = StageFor(written[k])
    BY <2>1 DEF StageFacts
  <2>3. Stage'[p] = StageFor(InFile'[k]) /\ Told'[p] = StageFor(written'[k])
    BY <2>1 DEF StageFacts, StageFor
  <2> QED BY <2>1, <2>2, <2>3
<1>2. CASE ~\E k \in Key : k[1] = p /\ InFile[k] # "NONE"
  <2>1. Stage[p] = Unreceipted(p) /\ Told[p] = 0
    BY <1>2 DEF StageFacts
  <2>2. Stage'[p] = Unreceipted(p)' /\ Told'[p] = 0
    BY <1>2 DEF StageFacts
  <2> QED BY <2>1, <2>2
<1> QED BY <1>1, <1>2

(* The values stages have.                                                    *)
LEMMA StageTypes ==
    StageFacts => /\ Stage \in [Payments -> 0..4] /\ Told \in [Payments -> 0..4]
                  /\ DOMAIN Stage = Payments /\ DOMAIN Told = Payments
<1> SUFFICES ASSUME StageFacts
             PROVE  \A p \in Payments : Stage[p] \in 0..4 /\ Told[p] \in 0..4
  BY DEF Stage, Told
<1>1. TAKE p \in Payments
<1>2. CASE \E k \in Key : k[1] = p /\ InFile[k] # "NONE"
  <2>1. PICK k \in Key : k[1] = p /\ InFile[k] # "NONE"
    BY <1>2
  <2>2. Stage[p] = StageFor(InFile[k]) /\ Told[p] = StageFor(written[k])
    BY <2>1 DEF StageFacts
  <2> QED BY <2>2 DEF StageFor
<1>3. CASE ~\E k \in Key : k[1] = p /\ InFile[k] # "NONE"
  <2>1. Stage[p] = Unreceipted(p) /\ Told[p] = 0
    BY <1>3 DEF StageFacts
  <2> QED BY <2>1 DEF Unreceipted
<1> QED BY <1>2, <1>3

(* The same after a step.                                                     *)
LEMMA StageTypesNext ==
    StageFacts' => /\ Stage' \in [Payments -> 0..4] /\ Told' \in [Payments -> 0..4]
                   /\ DOMAIN Stage' = Payments /\ DOMAIN Told' = Payments
<1>1. (StageFacts => /\ Stage \in [Payments -> 0..4] /\ Told \in [Payments -> 0..4]
                     /\ DOMAIN Stage = Payments /\ DOMAIN Told = Payments)'
  BY StageTypes, PTL
<1> QED BY <1>1

(* The file's next line is the receipt of a settled payment that had none.    *)
LEMMA RecordIsReceipt ==
    ASSUME StageFacts, StageFacts', UNCHANGED <<settlements, written>>,
           \A p \in Payments : Known(p)' <=> Known(p),
           NEW k \in Key, InFile[k] = "NONE", InFile' = [InFile EXCEPT ![k] = "PENDING"]
    PROVE  \E p \in Payments : Journey!Receipt(p)
<1> DEFINE p == k[1]
<1>1. /\ InFile \in [Key -> Statuses] /\ InFile'[k] = "PENDING" /\ p \in Payments
      /\ \A l \in Key : l # k => InFile'[l] = InFile[l]
  BY DEF StageFacts, Key
<1>2. p \in settlements /\ Stage'[p] = 3 /\ Told'[p] = StageFor(written[k])
  BY <1>1 DEF StageFacts, StageFor
<1>3. \A l \in Key : l[1] = p => InFile[l] = "NONE"
  BY <1>1 DEF StageFacts
<1>4. Stage[p] = 2 /\ Told[p] = 0
  BY <1>1, <1>2, <1>3 DEF StageFacts, Unreceipted
<1>5. StageFor(written[k]) = 0
  BY DEF StageFacts, StageFor
<1>6. ASSUME NEW q \in Payments, q # p PROVE Stage'[q] = Stage[q] /\ Told'[q] = Told[q]
  <2>1. \A l \in Key : l[1] = q => InFile'[l] = InFile[l]
    BY <1>1, <1>6
  <2>2. Unreceipted(q)' = Unreceipted(q)
    BY DEF Unreceipted
  <2> QED BY <2>1, <2>2, SameStage
<1>7. /\ Stage \in [Payments -> 0..4] /\ Stage' \in [Payments -> 0..4]
      /\ Told \in [Payments -> 0..4] /\ Told' \in [Payments -> 0..4]
  BY StageTypes, StageTypesNext
<1> HIDE DEF p
<1>8. Stage' = [Stage EXCEPT ![p] = 3]
  BY <1>1, <1>2, <1>6, <1>7
<1>9. Told' = Told
  BY <1>1, <1>2, <1>4, <1>5, <1>6, <1>7
<1>10. Journey!Receipt(p)
  BY <1>4, <1>8, <1>9 DEF Journey!Receipt, Journey!Settled, Journey!Receipted, Stage, Told
<1> QED BY <1>1, <1>10

(* The file's next line takes a receipt to DISPATCHED.                        *)
LEMMA DispatchIsDispatch ==
    ASSUME StageFacts, StageFacts', UNCHANGED <<settlements, written>>,
           \A p \in Payments : Known(p)' <=> Known(p),
           NEW k \in Key, InFile[k] = "PENDING", InFile' = [InFile EXCEPT ![k] = "DISPATCHED"]
    PROVE  \E p \in Payments : Journey!Dispatch(p)
<1>1. PICK p \in Payments : p = k[1]
  BY DEF Key
<1>2. /\ InFile'[k] = "DISPATCHED" /\ \A l \in Key : l # k => InFile'[l] = InFile[l]
  BY DEF StageFacts
<1>3. Stage[p] = 3 /\ Told[p] = StageFor(written[k])
  BY <1>1 DEF StageFacts, StageFor
<1>4. Stage'[p] = 4 /\ Told'[p] = StageFor(written[k])
  BY <1>1, <1>2 DEF StageFacts, StageFor
<1>5. ASSUME NEW q \in Payments, q # p PROVE Stage'[q] = Stage[q] /\ Told'[q] = Told[q]
  <2>1. \A l \in Key : l[1] = q => InFile'[l] = InFile[l]
    BY <1>1, <1>2, <1>5
  <2>2. Unreceipted(q)' = Unreceipted(q)
    BY DEF Unreceipted
  <2> QED BY <2>1, <2>2, SameStage
<1>6. /\ Stage \in [Payments -> 0..4] /\ Stage' \in [Payments -> 0..4]
      /\ Told \in [Payments -> 0..4] /\ Told' \in [Payments -> 0..4]
  BY StageTypes, StageTypesNext
<1>7. Stage' = [Stage EXCEPT ![p] = 4] /\ Told' = Told
  BY <1>3, <1>4, <1>5, <1>6
<1>8. Journey!Dispatch(p)
  BY <1>3, <1>7 DEF Journey!Dispatch, Journey!Receipted, Journey!Dispatched, Stage, Told
<1> QED BY <1>8

(* A caller hears what the file says of its receipt.                          *)
LEMMA AcknowledgeIsTell ==
    ASSUME StageFacts, StageFacts', UNCHANGED <<settlements, InFile>>,
           \A p \in Payments : Known(p)' <=> Known(p),
           NEW k \in Key, StageFor(written[k]) < StageFor(InFile[k]),
           written' = [written EXCEPT ![k] = InFile[k]]
    PROVE  \E p \in Payments : Journey!Tell(p)
<1>1. PICK p \in Payments : p = k[1]
  BY DEF Key
<1>2. /\ written'[k] = InFile[k] /\ \A l \in Key : l # k => written'[l] = written[l]
  BY DEF StageFacts
<1>3. InFile[k] # "NONE" /\ StageFor(InFile[k]) >= 3
  BY DEF StageFacts, StageFor, Statuses
<1>4. Stage[p] = StageFor(InFile[k]) /\ Told[p] = StageFor(written[k])
  BY <1>1, <1>3 DEF StageFacts
<1>5. Stage'[p] = StageFor(InFile[k]) /\ Told'[p] = StageFor(InFile[k])
  BY <1>1, <1>2, <1>3 DEF StageFacts, StageFor
<1>6. ASSUME NEW q \in Payments, q # p PROVE Stage'[q] = Stage[q] /\ Told'[q] = Told[q]
  <2>1. \A l \in Key : l[1] = q => written'[l] = written[l]
    BY <1>1, <1>2, <1>6
  <2>2. Unreceipted(q)' = Unreceipted(q)
    BY DEF Unreceipted
  <2> QED BY <2>1, <2>2, SameStage
<1>7. /\ Stage \in [Payments -> 0..4] /\ Stage' \in [Payments -> 0..4]
      /\ Told \in [Payments -> 0..4] /\ Told' \in [Payments -> 0..4]
  BY StageTypes, StageTypesNext
<1>8. Stage' = Stage /\ Told' = [Told EXCEPT ![p] = Stage[p]]
  BY <1>4, <1>5, <1>6, <1>7
<1>9. Stage[p] >= 3 /\ Told[p] < Stage[p]
  BY <1>3, <1>4
<1>10. Journey!Tell(p)
  BY <1>8, <1>9 DEF Journey!Tell, Journey!Receipted, Stage, Told
<1> QED BY <1>10

(* A failure takes back only what nobody was told.                            *)
LEMMA ForgetIsPowerFails ==
    ASSUME StageFacts, StageFacts', UNCHANGED <<settlements, written>>,
           \A p \in Payments : Known(p)' <=> Known(p),
           \A k \in Key : StageFor(InFile'[k]) <= StageFor(InFile[k])
    PROVE  Journey!PowerFails
<1>1. /\ Stage \in [Payments -> 0..4] /\ Stage' \in [Payments -> 0..4]
      /\ Told \in [Payments -> 0..4] /\ Told' \in [Payments -> 0..4]
  BY StageTypes, StageTypesNext
<1>2. \A k \in Key : InFile[k] = "NONE" => InFile'[k] = "NONE"
  BY DEF StageFacts, StageFor, Statuses
<1>3. ASSUME NEW p \in Payments
      PROVE  /\ Stage'[p] # Stage[p] => Stage'[p] >= 2
             /\ Told[p] <= Stage'[p] /\ Stage'[p] <= Stage[p] /\ Told'[p] = Told[p]
  <2>1. Unreceipted(p)' = Unreceipted(p)
    BY DEF Unreceipted
  <2>2. CASE \E k \in Key : k[1] = p /\ InFile[k] # "NONE"
    <3>1. PICK k \in Key : k[1] = p /\ InFile[k] # "NONE"
      BY <2>2
    <3>2. /\ Stage[p] = StageFor(InFile[k]) /\ Told[p] = StageFor(written[k]) /\ p \in settlements
          /\ StageFor(InFile[k]) >= 3
      BY <3>1 DEF StageFacts, StageFor, Statuses
    <3>3. CASE InFile'[k] # "NONE"
      <4>1. /\ Stage'[p] = StageFor(InFile'[k]) /\ Told'[p] = StageFor(written[k])
            /\ StageFor(InFile'[k]) >= 3 /\ StageFor(written[k]) <= StageFor(InFile'[k])
        BY <3>1, <3>3 DEF StageFacts, StageFor, Statuses
      <4> QED BY <1>1, <3>2, <4>1
    <3>4. CASE InFile'[k] = "NONE"
      <4>1. \A l \in Key : l[1] = p => InFile'[l] = "NONE"
        BY <1>2, <3>1, <3>4 DEF StageFacts
      <4>2. Stage'[p] = 2 /\ Told'[p] = 0
        BY <2>1, <3>2, <4>1 DEF StageFacts, Unreceipted
      <4>3. StageFor(written[k]) = 0
        BY <3>4 DEF StageFacts, StageFor, Statuses
      <4> QED BY <1>1, <3>2, <4>2, <4>3
    <3> QED BY <3>3, <3>4
  <2>3. CASE ~\E k \in Key : k[1] = p /\ InFile[k] # "NONE"
    <3>1. Stage[p] = Unreceipted(p) /\ Told[p] = 0
      BY <2>3 DEF StageFacts
    <3>2. Stage'[p] = Unreceipted(p)' /\ Told'[p] = 0
      BY <1>2, <2>3 DEF StageFacts
    <3> QED BY <1>1, <2>1, <3>1, <3>2
  <2> QED BY <2>2, <2>3
<1>4. Told' = Told
  BY <1>1, <1>3
<1> QED BY <1>1, <1>3, <1>4 DEF Journey!PowerFails, Journey!New, Journey!Dispatched, Journey!Settled, Stage, Told

(* Nothing moved.                                                             *)
LEMMA NothingMoves ==
    ASSUME StageFacts, StageFacts', UNCHANGED <<settlements, written, InFile>>,
           \A p \in Payments : Known(p)' <=> Known(p)
    PROVE  UNCHANGED <<Stage, Told>>
<1>1. ASSUME NEW p \in Payments PROVE Stage'[p] = Stage[p] /\ Told'[p] = Told[p]
  <2>1. Unreceipted(p)' = Unreceipted(p)
    BY DEF Unreceipted
  <2> QED BY <2>1, SameStage
<1>2. /\ Stage \in [Payments -> 0..4] /\ Stage' \in [Payments -> 0..4]
      /\ Told \in [Payments -> 0..4] /\ Told' \in [Payments -> 0..4]
  BY StageTypes, StageTypesNext
<1> QED BY <1>1, <1>2

(* A frame for this payment is the first, or it makes no difference.          *)
LEMMA IngestIsAccept ==
    ASSUME StageFacts, StageFacts', UNCHANGED <<settlements, written, InFile>>,
           NEW p \in Payments, Known(p)', \A q \in Payments : q # p => (Known(q)' <=> Known(q))
    PROVE  Journey!Accept(p) \/ UNCHANGED <<Stage, Told>>
<1>1. CASE Known(p)
  BY <1>1, NothingMoves
<1>2. /\ Stage \in [Payments -> 0..4] /\ Stage' \in [Payments -> 0..4]
      /\ Told \in [Payments -> 0..4] /\ Told' \in [Payments -> 0..4]
  BY StageTypes, StageTypesNext
<1>3. ASSUME NEW q \in Payments, q # p PROVE Stage'[q] = Stage[q] /\ Told'[q] = Told[q]
  <2>1. Unreceipted(q)' = Unreceipted(q)
    BY <1>3 DEF Unreceipted
  <2> QED BY <2>1, SameStage
<1>4. CASE ~Known(p) /\ p \in settlements
  <2>1. Unreceipted(p)' = Unreceipted(p)
    BY <1>4 DEF Unreceipted
  <2>2. Stage'[p] = Stage[p] /\ Told'[p] = Told[p]
    BY <2>1, SameStage
  <2> QED BY <1>2, <1>3, <2>2
<1>5. CASE ~Known(p) /\ p \notin settlements
  <2>1. \A k \in Key : k[1] = p => InFile[k] = "NONE"
    BY <1>5 DEF StageFacts
  <2>2. Stage[p] = 0 /\ Told[p] = 0
    BY <1>5, <2>1 DEF StageFacts, Unreceipted
  <2>3. Stage'[p] = 1 /\ Told'[p] = 0
    <3>1. Stage'[p] = Unreceipted(p)' /\ Told'[p] = 0
      BY <2>1 DEF StageFacts
    <3>2. Unreceipted(p)' = 1
      BY <1>5 DEF Unreceipted
    <3> QED BY <3>1, <3>2
  <2>4. Stage' = [Stage EXCEPT ![p] = 1] /\ Told' = Told
    BY <1>2, <1>3, <2>2, <2>3
  <2>5. Journey!Accept(p)
    BY <2>2, <2>4 DEF Journey!Accept, Journey!New, Journey!Accepted, Stage, Told
  <2> QED BY <2>5
<1> QED BY <1>1, <1>4, <1>5

(* A transaction settles accepted payments, all of them or none.              *)
LEMMA MineIsSettle ==
    ASSUME StageFacts, StageFacts', UNCHANGED <<written, InFile>>,
           \A p \in Payments : Known(p)' <=> Known(p),
           NEW batch \in SUBSET Payments, settlements' = settlements \cup batch,
           \A p \in batch : p \notin settlements /\ Known(p)
    PROVE  Journey!Settle(batch) \/ UNCHANGED <<Stage, Told>>
<1>1. CASE batch = {}
  BY <1>1, NothingMoves
<1>2. /\ Stage \in [Payments -> 0..4] /\ Stage' \in [Payments -> 0..4]
      /\ Told \in [Payments -> 0..4] /\ Told' \in [Payments -> 0..4]
  BY StageTypes, StageTypesNext
<1>3. ASSUME NEW q \in Payments, q \notin batch PROVE Stage'[q] = Stage[q] /\ Told'[q] = Told[q]
  <2>1. Unreceipted(q)' = Unreceipted(q)
    BY <1>3 DEF Unreceipted
  <2> QED BY <2>1, SameStage
<1>4. ASSUME NEW p \in batch
      PROVE  Stage[p] = 1 /\ Told[p] = 0 /\ Stage'[p] = 2 /\ Told'[p] = 0
  <2>1. \A k \in Key : k[1] = p => InFile[k] = "NONE"
    BY <1>4 DEF StageFacts
  <2>2. Stage[p] = 1 /\ Told[p] = 0
    BY <1>4, <2>1 DEF StageFacts, Unreceipted
  <2>3. Stage'[p] = Unreceipted(p)' /\ Told'[p] = 0
    BY <2>1 DEF StageFacts
  <2>4. Unreceipted(p)' = 2
    BY <1>4 DEF Unreceipted
  <2> QED BY <2>2, <2>3, <2>4
<1>5. Stage' = [p \in Payments |-> IF p \in batch THEN 2 ELSE Stage[p]] /\ Told' = Told
  BY <1>2, <1>3, <1>4
<1>6. CASE batch # {}
  BY <1>4, <1>5, <1>6 DEF Journey!Settle, Journey!Accepted, Journey!Settled, Stage, Told
<1> QED BY <1>1, <1>6

(* The submitter's own steps, a block and a death accept no new frame.        *)
LEMMA KnownKept ==
    ASSUME GatewayInv, Submit \/ Mine \/ Kill \/ UNCHANGED fate
    PROVE  \A p \in Payments : Known(p)' <=> Known(p)
<1> SUFFICES \A i \in Intent : fate'[i] = "new" <=> fate[i] = "new"
  BY DEF Known
<1>1. fate \in [Intent -> Fates] /\ SubmitterInv
  BY DEF GatewayInv, SubmitterInv, TypeOK, Fates
<1>2. ASSUME NEW b \in Seq(Intent), NEW f \in Taken, fate' = SetFate(b, f),
             \A i \in BatchSet(b) : fate[i] # "new"
      PROVE  \A i \in Intent : fate'[i] = "new" <=> fate[i] = "new"
  <2>1. f \in Fates /\ f # "new"
    BY DEF Taken, Fates
  <2>2. \A i \in Intent : fate'[i] = IF i \in BatchSet(b) THEN f ELSE fate[i]
    BY <1>1, <1>2, <2>1, SetFateValues DEF SubmitterInv
  <2> QED BY <1>2, <2>1, <2>2
<1>3. CASE UNCHANGED fate
  BY <1>3
<1>4. CASE Kill
  BY <1>1, <1>4 DEF Kill
<1>5. CASE TimerFires \/ Mine
  BY <1>5 DEF TimerFires, Mine
<1>6. CASE OnTimer
  <2>1. buf \in Seq(Intent) /\ \A i \in BatchSet(buf) : fate[i] # "new"
    <3>1. buf \in Seq(Intent) /\ \A i \in Intent : fate[i] = "buffered" <=> i \in BatchSet(buf)
      BY <1>1 DEF SubmitterInv, TypeOK, OwnedOnce
    <3>2. BatchSet(buf) \subseteq Intent
      BY <3>1 DEF BatchSet
    <3> QED BY <3>1, <3>2
  <2>2. UNCHANGED fate \/ fate' = SetFate(buf, "submitting")
    BY <1>6 DEF OnTimer, StartSubmit
  <2> QED BY <1>2, <1>3, <2>1, <2>2 DEF Taken
<1>7. CASE \E c \in calls : SubmitStep(c)
  <2>1. PICK c \in calls : SubmitStep(c)
    BY <1>7
  <2>2. c.batch \in Seq(Intent) /\ \A i \in BatchSet(c.batch) : fate[i] # "new"
    <3>1. c.batch \in Seq(Intent)
          /\ \A i \in Intent : fate[i] = "submitting" <=> \E d \in calls : i \in BatchSet(d.batch)
      BY <1>1 DEF SubmitterInv, TypeOK, OwnedOnce
    <3>2. BatchSet(c.batch) \subseteq Intent
      BY <3>1 DEF BatchSet
    <3> QED BY <3>1, <3>2
  <2>3. UNCHANGED fate \/ \E f \in Taken : fate' = SetFate(c.batch, f)
    BY <2>1 DEF SubmitStep, Prepare, Send, RpcError, AttemptFails, Taken
  <2> QED BY <1>2, <1>3, <2>2, <2>3
<1> QED BY <1>3, <1>4, <1>5, <1>6, <1>7 DEF Submit

(* A frame that is taken makes its own payment known and no other.            *)
LEMMA EnqueueKnows ==
    ASSUME SubmitterInv, NEW i \in Intent, Enqueue(i)
    PROVE  Known(NonceOf[i])' /\ \A q \in Payments : q # NonceOf[i] => (Known(q)' <=> Known(q))
<1>1. fate \in [Intent -> Fates] /\ fate[i] = "new" /\ buf \in Seq(Intent)
  BY DEF SubmitterInv, TypeOK, Fates, Enqueue
<1>2. fate'[i] # "new" /\ \A j \in Intent : j # i => (fate'[j] = "new" <=> fate[j] = "new")
  <2>1. CASE \E f \in {"ignored", "buffered"} : fate' = [fate EXCEPT ![i] = f]
    BY <1>1, <2>1
  <2>2. CASE StartSubmit(Append(buf, i))
    <3>1. /\ Append(buf, i) \in Seq(Intent) /\ Append(buf, i) # <<>>
          /\ BatchSet(Append(buf, i)) = BatchSet(buf) \cup {i}
      BY <1>1, BatchAppend
    <3>2. fate' = SetFate(Append(buf, i), "submitting")
      BY <2>2, <3>1 DEF StartSubmit
    <3>3. \A j \in Intent : fate'[j] = IF j \in BatchSet(buf) \cup {i} THEN "submitting" ELSE fate[j]
      <4>1. "submitting" \in Fates /\ TypeOK
        BY DEF Fates, SubmitterInv
      <4> QED BY <3>1, <3>2, <4>1, SetFateValues
    <3>4. \A j \in Intent : j \in BatchSet(buf) => fate[j] = "buffered"
      BY DEF SubmitterInv, OwnedOnce
    <3> QED BY <3>3, <3>4
  <2> QED BY <2>1, <2>2 DEF Enqueue
<1> QED BY <1>2 DEF Known

(* A step of the gateway is a step of the ledger or leaves it alone.          *)
LEMMA LedgerStep ==
    ASSUME "partial" \notin Faults, JourneyInv, [GatewayNext]_gatewayVars
    PROVE  JourneyInv' /\ [PipeP!Ledger!LedgerNext]_(PipeP!Ledger!ledgerVars)
<1>1. GatewayInv /\ GatewayInv' /\ PipeP!LedgerInv /\ PipeP!PipelineInv
  BY NextGatewayInv DEF JourneyInv, GatewayInv
<1>2. [PipeP!Next]_(PipeP!vars)
  BY <1>1, GatewaySteps
<1>3. [PipeP!StoreNext]_(PipeP!storeVars)
  BY <1>1, <1>2, PipelineAssumptions, PipeP!StoreSteps
<1>4. PipeP!LedgerInv'
  BY <1>1, <1>3, PipelineAssumptions, PipeP!NextLedgerInv
<1>5. [PipeP!Ledger!LedgerNext]_(PipeP!Ledger!ledgerVars)
  BY <1>1, <1>3, PipelineAssumptions, PipeP!NextRefines
<1> QED BY <1>1, <1>4, <1>5 DEF JourneyInv

(* What the ledger does while nothing is accepted and nothing settles.        *)
LEMMA LedgerMoves ==
    ASSUME StageFacts, StageFacts', [PipeP!Ledger!LedgerNext]_(PipeP!Ledger!ledgerVars),
           UNCHANGED settlements, \A p \in Payments : Known(p)' <=> Known(p)
    PROVE  Journey!JourneyNext \/ UNCHANGED <<Stage, Told>>
<1>1. /\ PipeP!Ledger!Rank("NONE") = 0 /\ PipeP!Ledger!Rank("PENDING") = 1
      /\ PipeP!Ledger!Rank("DISPATCHED") = 2
  BY DEF PipeP!Ledger!Rank
<1>2. \A s, t \in Statuses :
         /\ PipeP!Ledger!Rank(s) <= PipeP!Ledger!Rank(t) => StageFor(s) <= StageFor(t)
         /\ PipeP!Ledger!Rank(s) < PipeP!Ledger!Rank(t) => StageFor(s) < StageFor(t)
  BY <1>1 DEF Statuses, StageFor
<1>3. InFile \in [Key -> Statuses] /\ InFile' \in [Key -> Statuses] /\ written \in [Key -> Statuses]
  BY DEF StageFacts
<1>4. CASE UNCHANGED PipeP!Ledger!ledgerVars
  <2>1. UNCHANGED <<InFile, written>>
    BY <1>4 DEF PipeP!Ledger!ledgerVars, InFile
  <2> QED BY <2>1, NothingMoves
<1>5. ASSUME NEW k \in Key, PipeP!Ledger!Record(k) PROVE Journey!JourneyNext
  <2>1. InFile[k] = "NONE" /\ InFile' = [InFile EXCEPT ![k] = "PENDING"] /\ UNCHANGED written
    BY <1>5 DEF PipeP!Ledger!Record, InFile
  <2> QED BY <2>1, RecordIsReceipt DEF Journey!JourneyNext
<1>6. ASSUME NEW k \in Key, PipeP!Ledger!Dispatch(k) PROVE Journey!JourneyNext
  <2>1. InFile[k] = "PENDING" /\ InFile' = [InFile EXCEPT ![k] = "DISPATCHED"] /\ UNCHANGED written
    BY <1>6 DEF PipeP!Ledger!Dispatch, InFile
  <2> QED BY <2>1, DispatchIsDispatch DEF Journey!JourneyNext
<1>7. ASSUME NEW k \in Key, PipeP!Ledger!Acknowledge(k) PROVE Journey!JourneyNext
  <2>1. /\ PipeP!Ledger!Rank(written[k]) < PipeP!Ledger!Rank(InFile[k])
        /\ written' = [written EXCEPT ![k] = InFile[k]] /\ UNCHANGED InFile
    BY <1>7 DEF PipeP!Ledger!Acknowledge, InFile
  <2>2. StageFor(written[k]) < StageFor(InFile[k])
    BY <1>2, <1>3, <2>1
  <2> QED BY <2>1, <2>2, AcknowledgeIsTell DEF Journey!JourneyNext
<1>8. ASSUME PipeP!Ledger!Forget PROVE Journey!JourneyNext
  <2>1. /\ \A k \in Key : PipeP!Ledger!Rank(InFile'[k]) <= PipeP!Ledger!Rank(InFile[k])
        /\ UNCHANGED written
    BY <1>8 DEF PipeP!Ledger!Forget, InFile
  <2>2. \A k \in Key : StageFor(InFile'[k]) <= StageFor(InFile[k])
    BY <1>2, <1>3, <2>1
  <2> QED BY <2>1, <2>2, ForgetIsPowerFails DEF Journey!JourneyNext
<1> QED BY <1>4, <1>5, <1>6, <1>7, <1>8 DEF PipeP!Ledger!LedgerNext

(* Every step of the gateway is a step of the journey or leaves it alone.     *)
LEMMA JourneyStep ==
    ASSUME "partial" \notin Faults, JourneyInv, [GatewayNext]_gatewayVars
    PROVE  Journey!JourneyNext \/ UNCHANGED <<Stage, Told>>
<1>1. GatewayInv /\ SubmitterInv /\ JourneyInv' /\ [PipeP!Ledger!LedgerNext]_(PipeP!Ledger!ledgerVars)
  BY LedgerStep DEF JourneyInv, GatewayInv
<1>2. StageFacts
  BY StageFactsHold
<1>3. StageFacts'
  <2>1. JourneyInv => StageFacts
    BY StageFactsHold
  <2>2. (JourneyInv => StageFacts)'
    BY StageFactsHold, PTL
  <2> QED BY <1>1, <2>2
<1>4. ASSUME UNCHANGED settlements, Submit \/ Kill \/ UNCHANGED fate
      PROVE  Journey!JourneyNext \/ UNCHANGED <<Stage, Told>>
  BY <1>1, <1>2, <1>3, <1>4, KnownKept, LedgerMoves
<1>5. CASE \E i \in Intent : Ingest(i)
  <2>1. PICK i \in Intent : Enqueue(i) /\ UNCHANGED pipeVars
    BY <1>5 DEF Ingest
  <2>2. UNCHANGED <<settlements, written, file>>
    BY <2>1 DEF Enqueue, escrowVars, pipeVars
  <2>3. UNCHANGED InFile
    BY <2>2 DEF InFile
  <2>4. PICK p \in Payments : p = NonceOf[i]
    BY DEF Payments
  <2>5. Known(p)' /\ \A q \in Payments : q # p => (Known(q)' <=> Known(q))
    BY <1>1, <2>1, <2>4, EnqueueKnows
  <2> QED BY <1>2, <1>3, <2>2, <2>3, <2>5, IngestIsAccept DEF Journey!JourneyNext
<1>6. CASE Submit
  <2>1. UNCHANGED settlements
    BY <1>6 DEF Submit, TimerFires, OnTimer, SubmitStep, Prepare, Send, RpcError, escrowVars
  <2> QED BY <1>4, <1>6, <2>1
<1>7. CASE MineBatch
  <2>1. Mine /\ UNCHANGED <<written, file>>
    BY <1>7 DEF MineBatch
  <2>2. UNCHANGED InFile
    BY <2>1 DEF InFile
  <2>3. \A p \in Payments : Known(p)' <=> Known(p)
    BY <1>1, <2>1, KnownKept
  <2>4. PICK new \in Seq(Payments) :
           /\ \A m \in DOMAIN new : new[m] \notin settlements
           /\ settlements' = settlements \cup BatchSet(new)
           /\ \A m \in DOMAIN new : \E i \in BatchSet(Head(pool)) : NonceOf[i] = new[m]
    BY <1>1, <2>1, LogsOfTransaction
  <2>5. BatchSet(new) \in SUBSET Payments
    BY DEF BatchSet
  <2>6. \A i \in BatchSet(Head(pool)) : i \in Intent /\ fate[i] # "new"
    <3>1. pool \in Seq(Seq(Intent)) /\ pool # <<>> /\ 1 \in DOMAIN pool /\ Head(pool) = pool[1]
      BY <1>1, <2>1 DEF SubmitterInv, TypeOK, Mine
    <3>2. pool[1] \in Seq(Intent)
      BY <3>1
    <3>3. BatchSet(pool[1]) \subseteq Intent
      BY <3>2 DEF BatchSet
    <3>4. \A i \in BatchSet(pool[1]) : fate[i] \in Taken
      BY <1>1, <3>1 DEF SubmitterInv, PoolTaken
    <3> QED BY <3>1, <3>3, <3>4 DEF Taken
  <2>7. ASSUME NEW p \in BatchSet(new) PROVE p \notin settlements /\ Known(p)
    <3>1. PICK m \in DOMAIN new : p = new[m]
      BY DEF BatchSet
    <3>2. PICK i \in BatchSet(Head(pool)) : NonceOf[i] = p
      BY <2>4, <3>1
    <3> QED BY <2>4, <2>6, <3>1, <3>2 DEF Known
  <2> QED BY <1>2, <1>3, <2>1, <2>2, <2>3, <2>4, <2>5, <2>7, MineIsSettle DEF Journey!JourneyNext
<1>8. CASE Main \/ WatchStep \/ Outside \/ UNCHANGED gatewayVars
  <2>1. UNCHANGED <<settlements, fate>>
    BY <1>8 DEF Main, WatchStep, Outside, gatewayVars, vars, submitVars, escrowVars
  <2> QED BY <1>4, <2>1
<1>9. CASE Die
  <2>1. Kill /\ UNCHANGED settlements
    BY <1>9 DEF Die, Kill, escrowVars
  <2> QED BY <1>4, <2>1
<1> QED BY <1>5, <1>6, <1>7, <1>8, <1>9 DEF GatewayNext

(* At a first boot no payment has come anywhere.                              *)
LEMMA JourneyStarts ==
    ASSUME "partial" \notin Faults
    PROVE  GatewayInit => JourneyInv /\ Journey!JourneyInit
<1> SUFFICES ASSUME GatewayInit PROVE JourneyInv /\ Journey!JourneyInit
  OBVIOUS
<1>1. PipeP!LedgerInv
  <2>1. PipeP!StoreInit
    BY SameInit DEF GatewayInit, PipeP!PipelineInit
  <2> QED BY <2>1, PipelineAssumptions, PipeP!InitLedgerInv
<1>2. JourneyInv
  BY <1>1, InitGatewayInv DEF JourneyInv
<1>3. StageFacts
  BY <1>2, StageFactsHold
<1>4. file = <<>> /\ settlements = {} /\ fate = [i \in Intent |-> "new"]
  BY DEF GatewayInit, SubmitterInit, EscrowInit
<1>5. \A k \in Key : InFile[k] = "NONE"
  BY <1>3, <1>4 DEF StageFacts
<1>6. \A p \in Payments : Stage[p] = 0 /\ Told[p] = 0
  BY <1>3, <1>4, <1>5 DEF StageFacts, Unreceipted, Known
<1>7. Stage = [p \in Payments |-> 0] /\ Told = [p \in Payments |-> 0]
  BY <1>3, <1>6, StageTypes
<1> QED BY <1>2, <1>7 DEF Journey!JourneyInit, Journey!New, Stage, Told

(* The gateway implements the journey of a payment when a write that fails    *)
(* leaves no torn line behind: through overlapping submits, retries, reverts, *)
(* deaths and replays of the chain a receipt is only recorded for a payment   *)
(* that was accepted and settled, and what a call wrote, fsynced and returned *)
(* nil for is never taken back.                                               *)
THEOREM GatewayImplementsJourney ==
    ASSUME "partial" \notin Faults
    PROVE  GatewaySpec => ImplementsJourney
<1>1. GatewayInit => JourneyInv /\ Journey!JourneyInit
  BY JourneyStarts
<1>2. JourneyInv /\ [GatewayNext]_gatewayVars => JourneyInv'
  BY LedgerStep
<1>3. JourneyInv /\ [GatewayNext]_gatewayVars => [Journey!JourneyNext]_(Journey!journeyVars)
  BY JourneyStep DEF Journey!journeyVars, Stage, Told
<1> QED BY <1>1, <1>2, <1>3, PTL DEF GatewaySpec, ImplementsJourney, Journey!JourneySpec
=============================================================================
