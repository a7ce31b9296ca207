---------------------------- MODULE EgressProofs ----------------------------
(***************************************************************************)
(* The safety of Egress for every set of receipts, every page size, every    *)
(* set of failures and every bound on their number.                          *)
(***************************************************************************)
EXTENDS Egress, ReceiptLedgerProofs

------------------------------------------------------------------------------
(* The invariant.                                                             *)

(* The page names a receipt once, and the queue in memory does too.           *)
PageShape ==
    /\ page \in Seq(Key) /\ IsInjective(page)
    /\ step \in {"transmit", "ack", "await"}
    /\ step # "transmit" => page # <<>>

OrderShape ==
    /\ IsInjective(order)
    /\ \A i \in DOMAIN order : records[order[i]] # "NONE"

LinkShape ==
    /\ acks \in SUBSET Key /\ onAir \in [Key -> Nat] /\ swallowed \in SUBSET Key
    /\ failures \in 0..MaxFailures
    /\ proc # "closed"

(* The receipt left the ground station, as far as the ground station knows.   *)
Gone(k) == onAir[k] > 0 \/ k \in swallowed

(* Whatever may turn into a DISPATCHED status follows a transmission.          *)
SentFirst ==
    /\ step # "transmit" => Gone(Head(page))
    /\ \A k \in acks : Gone(k)
    /\ op.status = "DISPATCHED" => Gone(op.key)
    /\ \A i \in DOMAIN file : file[i].status = "DISPATCHED" => Gone(file[i].key)
    /\ \A k \in Key : records[k] = "DISPATCHED" => Gone(k)

(* The records of the page the orchestrator has not transmitted.              *)
Unsent == IF step = "transmit" THEN ToSet(page) ELSE ToSet(Tail(page))

(* An acknowledgement of k is under way that only a failure can stop, or done. *)
AckUnderWay(k) ==
    /\ step # "transmit" /\ Head(page) = k
    /\ step = "await" => k \in acks
Covered(k) ==
    \/ records[k] = "DISPATCHED"
    \/ op.key = k /\ op.status = "DISPATCHED"
    \/ AckUnderWay(k)

(* k will be offered again after this page although nothing more fails.       *)
Reopens(k) ==
    \/ proc # "up"
    \/ records[k] = "NONE"
    \/ k \notin Unsent /\ ~Covered(k)

(* How often k may still be transmitted if nothing more fails.                *)
Left(k) == (IF k \in Unsent THEN 1 ELSE 0) + (IF Reopens(k) THEN 1 ELSE 0)

Budget == \A k \in Key : onAir[k] + Left(k) <= 1 + failures

EgressInv ==
    /\ StoreInv
    /\ PageShape
    /\ OrderShape
    /\ LinkShape
    /\ SentFirst
    /\ Budget

------------------------------------------------------------------------------
(* A page of pending receipts.                                                *)

(* What HandleEgressPending offers is pending, in memory, and named once.     *)
LEMMA PendingPage ==
    ASSUME EgressInv, NEW limit \in Nat
    PROVE  /\ PendingRecords(limit) \in Seq(Key) /\ IsInjective(PendingRecords(limit))
           /\ \A i \in DOMAIN PendingRecords(limit) : records[PendingRecords(limit)[i]] = "PENDING"
<1> DEFINE n == Len(order)
           Pick(i, s) == IF records[order[i]] = "PENDING" /\ Len(s) < limit
                           THEN Append(s, order[i]) ELSE s
           next == [i \in 1..n |-> [s \in Seq(Key) |-> Pick(i, s)]]
           Def(g) == g = [i \in 0..n |->
                            IF i = 0 THEN <<>>
                            ELSE IF records[order[i]] = "PENDING" /\ Len(g[i - 1]) < limit
                                   THEN Append(g[i - 1], order[i]) ELSE g[i - 1]]
<1>1. n \in Nat /\ order \in Seq(Key) /\ \A i \in 1..n : order[i] \in Key
  BY DEF EgressInv, StoreInv, TypeOK
<1>2. \A i, j \in 1..n : order[i] = order[j] => i = j
  BY <1>1 DEF EgressInv, OrderShape, IsInjective
<1>3. next \in [1..n -> [Seq(Key) -> Seq(Key)]]
  BY <1>1
<1>4. PICK g \in [0..n -> Seq(Key)] : g[0] = <<>> /\ \A i \in 1..n : g[i] = next[i][g[i - 1]]
  <2>1. <<>> \in Seq(Key)
    OBVIOUS
  <2> HIDE DEF next, n
  <2>2. n \in Nat
    BY <1>1
  <2>3. PICK g : Recurses(g, n, Seq(Key), <<>>, next)
    BY <1>3, <2>1, <2>2, RecursionExists
  <2>4. g \in [0..n -> Seq(Key)] /\ g[0] = <<>> /\ \A i \in 1..n : g[i] = next[i][g[i - 1]]
    BY <2>3 DEF Recurses
  <2> QED BY <2>4
<1>5. \A i \in 1..n : g[i - 1] \in Seq(Key) /\ g[i] = Pick(i, g[i - 1])
  <2> SUFFICES ASSUME NEW i \in 1..n PROVE g[i - 1] \in Seq(Key) /\ g[i] = Pick(i, g[i - 1])
    OBVIOUS
  <2>1. i - 1 \in 0..n
    BY <1>1
  <2>2. g[i - 1] \in Seq(Key)
    BY <1>4, <2>1
  <2> QED BY <1>4, <2>2
<1>6. Def(g)
  <2>1. g = [i \in 0..n |-> g[i]]
    BY <1>4
  <2>2. \A i \in 0..n : g[i] = IF i = 0 THEN <<>> ELSE Pick(i, g[i - 1])
    <3> SUFFICES ASSUME NEW i \in 0..n PROVE g[i] = IF i = 0 THEN <<>> ELSE Pick(i, g[i - 1])
      OBVIOUS
    <3>1. i = 0 \/ i \in 1..n
      BY <1>1
    <3> QED BY <1>4, <1>5, <3>1
  <2> QED BY <2>1, <2>2
<1>7. PICK f : Def(f) /\ PendingRecords(limit) = f[n]
  <2> DEFINE c == CHOOSE f : Def(f)
  <2>1. Def(c)
    BY <1>6
  <2>2. PendingRecords(limit) = c[n]
    BY DEF PendingRecords
  <2> QED BY <2>1, <2>2
<1>8. /\ f[0] = <<>> /\ \A i \in 1..n : f[i] = Pick(i, f[i - 1])
  <2>1. \A i \in 0..n : f[i] = IF i = 0 THEN <<>> ELSE Pick(i, f[i - 1])
    BY <1>7
  <2>2. 0 \in 0..n /\ \A i \in 1..n : i \in 0..n /\ i # 0
    BY <1>1
  <2> QED BY <2>1, <2>2
<1> HIDE DEF Def, next
<1> DEFINE Good(i) == /\ f[i] \in Seq(Key) /\ IsInjective(f[i])
                      /\ \A m \in DOMAIN f[i] : records[f[i][m]] = "PENDING"
                      /\ \A m \in DOMAIN f[i] : \E j \in 1..i : f[i][m] = order[j]
           Bad == {i \in 0..n : ~Good(i)}
<1>9. Good(0)
  BY <1>8 DEF IsInjective
<1>10. ASSUME NEW i \in 1..n, Good(i - 1) PROVE Good(i)
  <2> DEFINE s == f[i - 1]
  <2>1. f[i] = Pick(i, s)
    BY <1>8
  <2>2. s \in Seq(Key) /\ IsInjective(s) /\ (\A m \in DOMAIN s : records[s[m]] = "PENDING")
        /\ (\A m \in DOMAIN s : \E j \in 1..(i - 1) : s[m] = order[j])
    BY <1>10
  <2>3. i \in Nat /\ 1..(i - 1) \subseteq 1..i /\ i \in 1..i /\ i \notin 1..(i - 1) /\ 1..i \subseteq 1..n
    BY <1>1
  <2> HIDE DEF s
  <2>4. CASE ~(records[order[i]] = "PENDING" /\ Len(s) < limit)
    <3>1. f[i] = s
      BY <2>1, <2>4
    <3> QED BY <3>1, <2>2, <2>3
  <2>5. CASE records[order[i]] = "PENDING" /\ Len(s) < limit
    <3> DEFINE t == Append(s, order[i])
    <3>1. f[i] = t
      BY <2>1, <2>5
    <3>2. order[i] \in Key
      BY <1>1
    <3>3. /\ t \in Seq(Key) /\ DOMAIN t = DOMAIN s \cup {Len(s) + 1}
          /\ \A m \in DOMAIN s : t[m] = s[m]
          /\ t[Len(s) + 1] = order[i]
      BY <2>2, <3>2
    <3> HIDE DEF t
    <3>4. \A m \in DOMAIN s : s[m] # order[i]
      BY <1>2, <2>2, <2>3
    <3>5. IsInjective(t)
      BY <2>2, <3>3, <3>4 DEF IsInjective
    <3>6. \A m \in DOMAIN t : records[t[m]] = "PENDING"
      BY <2>2, <2>5, <3>3
    <3>7. \A m \in DOMAIN t : \E j \in 1..i : t[m] = order[j]
      BY <2>2, <2>3, <3>3
    <3> QED BY <3>1, <3>3, <3>5, <3>6, <3>7
  <2> QED BY <2>4, <2>5
<1>11. Bad = {}
  <2> SUFFICES ASSUME Bad # {} PROVE FALSE
    OBVIOUS
  <2>1. Bad \in SUBSET Nat /\ \A i \in Bad : i \in 0..n /\ ~Good(i)
    OBVIOUS
  <2>2. \A i \in 0..n : i \notin Bad => Good(i)
    OBVIOUS
  <2> HIDE DEF Bad, Good
  <2>3. PICK i \in Bad : \A y \in Bad : i <= y
    BY <2>1, MinExists
  <2>4. i # 0 /\ i \in 0..n
    BY <1>9, <2>1
  <2>5. i \in 1..n /\ i - 1 \in 0..n /\ ~(i <= i - 1)
    BY <1>1, <2>4
  <2>6. Good(i - 1)
    BY <2>2, <2>3, <2>5
  <2> QED BY <1>10, <2>1, <2>5, <2>6
<1>12. Good(n)
  <2>1. n \in 0..n
    BY <1>1
  <2> QED BY <1>11, <2>1
<1> QED BY <1>7, <1>12

------------------------------------------------------------------------------
(* The queue in memory.                                                       *)

(* A loaded queue names every key with a line once.                           *)
LEMMA LoadedOrder ==
    ASSUME StoreInv, NewStore, Loadable(file)
    PROVE  OrderShape' /\ order' \in Seq(Key)
<1>1. file \in Seq(Line) /\ IsFiniteSet(KeysIn(file)) /\ KeysIn(file) \subseteq Key
  <2>1. KeysIn(file) \in SUBSET Key
    BY DEF KeysIn
  <2> QED BY <2>1, KeyAssumption, FS_Subset DEF StoreInv, TypeOK
<1>2. order' \in SetToSeqs(KeysIn(file)) /\ records' = [k \in Key |-> Latest(file, k)]
  BY DEF NewStore
<1>3. IsInjective(order') /\ order' \in Seq(KeysIn(file))
  BY <1>1, <1>2, SetToSeqsLists
<1>4. \A i \in DOMAIN order' : order'[i] \in KeysIn(file)
  BY <1>3
<1>5. \A k \in KeysIn(file) : k \in Key /\ records'[k] # "NONE"
  <2> SUFFICES ASSUME NEW k \in KeysIn(file) PROVE k \in Key /\ records'[k] # "NONE"
    OBVIOUS
  <2>1. k \in Key /\ LinesOf(file, k) # {}
    BY DEF KeysIn
  <2> QED BY <1>1, <1>2, <2>1, LatestStatus
<1>6. order' \in Seq(Key)
  BY <1>1, <1>3
<1> QED BY <1>3, <1>4, <1>5, <1>6 DEF OrderShape

(* No step of the store repeats a key in the queue.                           *)
LEMMA StoreOrder ==
    ASSUME StoreInv, OrderShape, [StoreNext]_storeVars
    PROVE  OrderShape'
<1>1. CASE NewStore
  <2>1. CASE Loadable(file)
    BY <1>1, <2>1, LoadedOrder
  <2>2. CASE ~Loadable(file)
    BY <1>1, <2>2 DEF NewStore, OrderShape
  <2> QED BY <2>1, <2>2
<1>2. CASE UNCHANGED <<records, order>>
  BY <1>2 DEF OrderShape
<1>3. CASE Publish
  <2>1. /\ op # Idle /\ op.key \in Key /\ op.status \in Recorded
        /\ records \in [Key -> Status] /\ order \in Seq(Key)
    BY <1>3, OpShape DEF Publish, Idle, StoreInv, TypeOK
  <2>2. records' = [records EXCEPT ![op.key] = op.status]
        /\ order' = IF records[op.key] = "NONE" THEN Append(order, op.key) ELSE order
    BY <1>3 DEF Publish
  <2>3. \A k \in Key : records[k] # "NONE" => records'[k] # "NONE"
    BY <2>1, <2>2 DEF Recorded
  <2>4. records'[op.key] # "NONE"
    BY <2>1, <2>2 DEF Recorded
  <2>5. \A i \in DOMAIN order : order[i] \in Key
    BY <2>1
  <2>6. CASE records[op.key] # "NONE"
    BY <2>2, <2>3, <2>5, <2>6 DEF OrderShape
  <2>7. CASE records[op.key] = "NONE"
    <3> DEFINE t == Append(order, op.key)
    <3>1. /\ DOMAIN t = DOMAIN order \cup {Len(order) + 1}
          /\ \A m \in DOMAIN order : t[m] = order[m]
          /\ t[Len(order) + 1] = op.key
      BY <2>1
    <3> HIDE DEF t
    <3>2. order' = t
      BY <2>2, <2>7 DEF t
    <3>3. \A m \in DOMAIN order : order[m] # op.key
      BY <2>7 DEF OrderShape
    <3>4. IsInjective(t)
      BY <3>1, <3>3 DEF OrderShape, IsInjective
    <3>5. \A m \in DOMAIN t : records'[t[m]] # "NONE"
      BY <2>3, <2>4, <2>5, <3>1 DEF OrderShape
    <3> QED BY <3>2, <3>4, <3>5 DEF OrderShape
  <2> QED BY <2>6, <2>7
<1>4. CASE StoreFailure
  <2>1. order' = <<>>
    BY <1>4 DEF StoreFailure, Kill, PowerLoss, LoseMemory
  <2> QED BY <2>1 DEF OrderShape, IsInjective
<1>5. CASE (\E k \in Key : AppendRecord(k) \/ MarkDispatched(k)) \/ SyncLine \/ Close
  BY <1>2, <1>5 DEF AppendRecord, MarkDispatched, MarkDispatchedAgain, WriteLine, SyncLine, Close,
     storeVars
<1> QED BY <1>1, <1>2, <1>3, <1>4, <1>5 DEF StoreNext, storeVars

------------------------------------------------------------------------------
(* Transmissions come first.                                                  *)

(* What left the ground station has left it for ever.                         *)
LEMMA GoneKept ==
    ASSUME NEW k \in Key, onAir \in [Key -> Nat], onAir' \in [Key -> Nat],
           \A j \in Key : onAir'[j] >= onAir[j], swallowed \subseteq swallowed', Gone(k)
    PROVE  Gone(k)'
<1>1. onAir[k] \in Nat /\ onAir'[k] \in Nat /\ onAir'[k] >= onAir[k]
  OBVIOUS
<1> QED BY <1>1 DEF Gone

(* The store writes a DISPATCHED line only when it is told to, and reads one   *)
(* back only from the file.                                                   *)
StoreSent ==
    /\ op.status = "DISPATCHED" => Gone(op.key)
    /\ \A i \in DOMAIN file : file[i].status = "DISPATCHED" => Gone(file[i].key)
    /\ \A k \in Key : records[k] = "DISPATCHED" => Gone(k)

(* The steps of the store keep that, if a call that marks a receipt is for one *)
(* that is gone.                                                              *)
LEMMA StoreSentKept ==
    ASSUME StoreInv, StoreSent, UNCHANGED <<onAir, swallowed>>,
           \/ UNCHANGED storeVars \/ NewStore \/ SyncLine \/ Publish \/ StoreFailure
           \/ \E k \in Key : AppendRecord(k)
           \/ \E k \in Key : MarkDispatched(k) /\ Gone(k)
    PROVE  StoreSent'
<1>1. \A k : Gone(k)' <=> Gone(k)
  BY DEF Gone
<1>2. file \in Seq(Line) /\ records \in [Key -> Status]
  BY DEF StoreInv, TypeOK
<1>3. CASE UNCHANGED storeVars
  BY <1>1, <1>3 DEF StoreSent, storeVars
<1>4. CASE NewStore
  <2>1. UNCHANGED <<file, op>>
    BY <1>4 DEF NewStore
  <2>2. \A k \in Key : records'[k] = "DISPATCHED" => Gone(k)
    <3>1. CASE ~Loadable(file)
      BY <1>4, <3>1 DEF NewStore, StoreSent
    <3>2. CASE Loadable(file)
      <4> SUFFICES ASSUME NEW k \in Key, records'[k] = "DISPATCHED" PROVE Gone(k)
        OBVIOUS
      <4>1. Latest(file, k) = "DISPATCHED"
        BY <1>4, <3>2 DEF NewStore
      <4>2. PICK m \in LinesOf(file, k) : Latest(file, k) = Normal(file[m].status)
        BY <1>2, <4>1, LatestStatus
      <4>3. m \in DOMAIN file /\ file[m].key = k /\ file[m].status = "DISPATCHED"
        BY <4>1, <4>2 DEF LinesOf, Normal
      <4> QED BY <4>3 DEF StoreSent
    <3> QED BY <3>1, <3>2
  <2> QED BY <1>1, <2>1, <2>2 DEF StoreSent
<1>5. CASE SyncLine
  <2>1. UNCHANGED <<file, records>> /\ (op' = [op EXCEPT !.pc = "publish"] \/ op' = Idle)
        /\ op # Idle /\ op \in [key : Key, status : Recorded, pc : {"sync", "publish"}]
    BY <1>5, OpShape DEF SyncLine, StoreInv, TypeOK, Idle
  <2>2. op'.status = "DISPATCHED" => op.status = "DISPATCHED" /\ op'.key = op.key
    BY <2>1 DEF Idle
  <2> QED BY <1>1, <2>1, <2>2 DEF StoreSent
<1>6. CASE Publish
  <2>1. /\ op # Idle /\ op.key \in Key
        /\ op' = Idle /\ UNCHANGED file /\ records' = [records EXCEPT ![op.key] = op.status]
    BY <1>6, OpShape DEF Publish, StoreInv, TypeOK, Idle
  <2>2. op'.status = "NONE"
    BY <2>1 DEF Idle
  <2>3. \A k \in Key : records'[k] = "DISPATCHED" => Gone(k)
    BY <1>2, <2>1 DEF StoreSent
  <2> QED BY <1>1, <2>1, <2>2, <2>3 DEF StoreSent
<1>7. CASE StoreFailure
  <2>1. op' = Idle /\ records' = NoRecords
    BY <1>7 DEF StoreFailure, Kill, PowerLoss, LoseMemory
  <2>2. \A i \in DOMAIN file' : i \in DOMAIN file /\ file'[i].key = file[i].key
                                /\ file'[i].status = file[i].status
    BY <1>7, FailureCuts DEF StoreInv
  <2>3. op'.status = "NONE" /\ \A k \in Key : records'[k] = "NONE"
    BY <2>1 DEF Idle, NoRecords
  <2> QED BY <1>1, <2>2, <2>3 DEF StoreSent
<1>8. ASSUME NEW k \in Key, NEW s \in Recorded, WriteLine(k, s), s = "DISPATCHED" => Gone(k)
      PROVE  StoreSent'
  <2>1. UNCHANGED records
    BY <1>8 DEF WriteLine
  <2>2. CASE NothingWritten(k)
    BY <1>1, <2>2 DEF NothingWritten, StoreSent
  <2> SUFFICES ASSUME LineWritten(k, s) PROVE StoreSent'
    BY <1>8, <2>2, WriteLineCases DEF StoreInv
  <2>3. \A i \in DOMAIN file' : file'[i].status = "DISPATCHED" => Gone(file'[i].key)
    <3> PICK l \in Line : file' = Append(file, l) /\ l.key = k /\ l.status = s
      BY WriteLineAppends DEF StoreInv
    <3>1. /\ DOMAIN file' = 1..(Len(file) + 1) /\ DOMAIN file = 1..Len(file) /\ Len(file) \in Nat
          /\ \A i \in 1..Len(file) : file'[i] = file[i]
          /\ file'[Len(file) + 1] = l
      BY <1>2, FileAppend
    <3> SUFFICES ASSUME NEW i \in 1..(Len(file) + 1), file'[i].status = "DISPATCHED"
                 PROVE  Gone(file'[i].key)
      BY <3>1
    <3>2. i \in 1..Len(file) \/ i = Len(file) + 1
      BY <3>1
    <3>3. CASE i \in 1..Len(file)
      BY <3>1, <3>3 DEF StoreSent
    <3>4. CASE i = Len(file) + 1
      BY <1>8, <3>1, <3>4
    <3> QED BY <3>2, <3>3, <3>4
  <2>4. op' = [key |-> k, status |-> s, pc |-> "sync"] \/ op' = op
    BY <1>8 DEF WriteLine
  <2>5. op'.status = "DISPATCHED" => Gone(op'.key)
    BY <1>8, <2>4 DEF StoreSent
  <2> QED BY <1>1, <2>1, <2>3, <2>5 DEF StoreSent
<1>9. CASE \E k \in Key : AppendRecord(k)
  BY <1>8, <1>9 DEF AppendRecord, Recorded
<1>10. CASE \E k \in Key : MarkDispatched(k) /\ Gone(k)
  <2>1. PICK k \in Key : MarkDispatched(k) /\ Gone(k)
    BY <1>10
  <2>2. CASE MarkDispatchedAgain(k)
    BY <1>3, <2>2 DEF MarkDispatchedAgain
  <2>3. CASE WriteLine(k, "DISPATCHED")
    BY <1>8, <2>1, <2>3 DEF Recorded
  <2> QED BY <2>1, <2>2, <2>3 DEF MarkDispatched
<1> QED BY <1>3, <1>4, <1>5, <1>6, <1>7, <1>9, <1>10

------------------------------------------------------------------------------
(* The page, as tick works through it.                                        *)

(* The first record of a page is not named again by the rest.                 *)
LEMMA PageTail ==
    ASSUME NEW s \in Seq(Key), s # <<>>, IsInjective(s)
    PROVE  /\ Tail(s) \in Seq(Key) /\ IsInjective(Tail(s)) /\ Head(s) \in Key
           /\ ToSet(s) = {Head(s)} \cup ToSet(Tail(s)) /\ Head(s) \notin ToSet(Tail(s))
<1>1. /\ Len(s) \in Nat /\ Len(s) >= 1 /\ DOMAIN s = 1..Len(s) /\ Head(s) = s[1]
      /\ Tail(s) \in Seq(Key) /\ DOMAIN Tail(s) = 1..(Len(s) - 1)
      /\ \A i \in 1..(Len(s) - 1) : Tail(s)[i] = s[i + 1]
  OBVIOUS
<1>2. \A i, j \in 1..Len(s) : s[i] = s[j] => i = j
  BY <1>1 DEF IsInjective
<1>3. \A i \in 1..(Len(s) - 1) : i + 1 \in 1..Len(s) /\ i + 1 # 1 /\ i \in Nat
  BY <1>1
<1>4. 1 \in 1..Len(s) /\ \A i \in 1..Len(s) : i = 1 \/ \E j \in 1..(Len(s) - 1) : i = j + 1
  <2>1. \A i \in 1..Len(s) : i = 1 \/ (i - 1 \in 1..(Len(s) - 1) /\ i = (i - 1) + 1)
    BY <1>1
  <2> QED BY <1>1, <2>1
<1>5. IsInjective(Tail(s))
  <2>1. \A i, j \in 1..(Len(s) - 1) : Tail(s)[i] = Tail(s)[j] => i + 1 = j + 1
    BY <1>1, <1>2, <1>3
  <2>2. \A i, j \in 1..(Len(s) - 1) : i + 1 = j + 1 => i = j
    BY <1>1
  <2> QED BY <1>1, <2>1, <2>2 DEF IsInjective
<1>6. ToSet(s) = {s[i] : i \in 1..Len(s)} /\ ToSet(Tail(s)) = {Tail(s)[i] : i \in 1..(Len(s) - 1)}
  BY <1>1 DEF ToSet
<1>7. Head(s) \in Key
  BY <1>1, <1>4
<1>8. Head(s) \notin ToSet(Tail(s))
  BY <1>1, <1>2, <1>3, <1>4, <1>6
<1>9. ToSet(s) = {Head(s)} \cup ToSet(Tail(s))
  <2>1. ToSet(s) \subseteq {Head(s)} \cup ToSet(Tail(s))
    BY <1>1, <1>4, <1>6
  <2>2. {Head(s)} \cup ToSet(Tail(s)) \subseteq ToSet(s)
    BY <1>1, <1>3, <1>4, <1>6
  <2> QED BY <2>1, <2>2
<1> QED BY <1>1, <1>5, <1>7, <1>8, <1>9

(* Going on to the next record keeps the page's shape and, behind a           *)
(* transmission, what is left of it.                                          *)
LEMMA NextRecordKeeps ==
    ASSUME PageShape, page # <<>>, NextRecord
    PROVE  /\ PageShape' /\ Unsent' \subseteq Unsent
           /\ step # "transmit" => Unsent' = Unsent
<1>1. page' = Tail(page) /\ step' = "transmit"
  BY DEF NextRecord
<1>2. /\ Tail(page) \in Seq(Key) /\ IsInjective(Tail(page))
      /\ ToSet(page) = {Head(page)} \cup ToSet(Tail(page))
  BY PageTail DEF PageShape
<1> QED BY <1>1, <1>2 DEF PageShape, Unsent

------------------------------------------------------------------------------
(* What a transmission may cost.                                              *)

(* A failure pays for one more transmission of every receipt.                 *)
LEMMA FailurePays ==
    ASSUME Budget, LinkShape, failures' = failures + 1, onAir' = onAir,
           Unsent' \subseteq Unsent
    PROVE  Budget'
<1> SUFFICES ASSUME NEW k \in Key PROVE (onAir[k] + Left(k) <= 1 + failures)'
  BY DEF Budget
<1>1. onAir[k] \in Nat /\ failures \in Nat /\ onAir[k] + Left(k) <= 1 + failures
  BY DEF LinkShape, Budget
<1>2. Left(k)' \in {0, 1, 2} /\ Left(k) \in {0, 1, 2} /\ Left(k)' <= Left(k) + 1
  BY DEF Left
<1> QED BY <1>1, <1>2

(* A step without a failure transmits nothing and leaves no more to transmit. *)
LEMMA QuietStep ==
    ASSUME Budget, LinkShape, failures' = failures, onAir' = onAir,
           Unsent' = Unsent, \A k \in Key : Reopens(k)' => Reopens(k)
    PROVE  Budget'
<1> SUFFICES ASSUME NEW k \in Key PROVE (onAir[k] + Left(k) <= 1 + failures)'
  BY DEF Budget
<1>1. onAir[k] \in Nat /\ failures \in Nat /\ onAir[k] + Left(k) <= 1 + failures
  BY DEF LinkShape, Budget
<1>2. Left(k)' \in {0, 1, 2} /\ Left(k) \in {0, 1, 2} /\ Left(k)' <= Left(k)
  BY DEF Left
<1> QED BY <1>1, <1>2

(* A fetched page holds receipts that were to be offered again anyway.        *)
LEMMA FetchBudget ==
    ASSUME EgressInv, FetchPending
    PROVE  PageShape' /\ SentFirst' /\ Budget'
<1>1. /\ page = <<>> /\ proc = "up" /\ op = Idle /\ step' = "transmit" /\ page' # <<>>
      /\ UNCHANGED <<storeVars, linkVars, failures>>
  BY DEF FetchPending
<1>2. step = "transmit"
  BY <1>1 DEF EgressInv, PageShape
<1>3. page' = PendingRecords(PageSize)
  BY <1>1 DEF FetchPending, Parsed, HandleEgressPending
<1>4. /\ page' \in Seq(Key) /\ IsInjective(page')
      /\ \A i \in DOMAIN page' : records[page'[i]] = "PENDING"
  BY <1>3, PageSizeAssumption, PendingPage
<1>5. PageShape'
  BY <1>1, <1>4 DEF PageShape
<1>6. SentFirst'
  BY <1>1 DEF EgressInv, SentFirst, Gone, storeVars, linkVars
<1>7. \A k \in Unsent' : records[k] = "PENDING"
  BY <1>1, <1>4 DEF Unsent, ToSet
<1>8. Unsent = {}
  BY <1>1, <1>2 DEF Unsent, ToSet
<1>9. Budget'
  <2> SUFFICES ASSUME NEW k \in Key PROVE (onAir[k] + Left(k) <= 1 + failures)'
    BY DEF Budget
  <2>1. /\ onAir[k] \in Nat /\ failures \in Nat /\ onAir[k] + Left(k) <= 1 + failures
        /\ onAir' = onAir /\ failures' = failures /\ records' = records /\ proc' = proc /\ op' = op
    BY <1>1 DEF EgressInv, LinkShape, Budget, storeVars, linkVars
  <2>2. op.status # "DISPATCHED"
    BY <1>1 DEF Idle
  <2>3. CASE k \in Unsent'
    <3>1. records[k] = "PENDING"
      BY <1>7, <2>3
    <3>2. Reopens(k) /\ ~Reopens(k)'
      BY <1>1, <1>2, <1>8, <2>1, <2>2, <2>3, <3>1 DEF Reopens, Covered, AckUnderWay
    <3>3. Left(k) = 1 /\ Left(k)' = 1
      BY <1>8, <2>3, <3>2 DEF Left
    <3> QED BY <2>1, <3>3
  <2>4. CASE k \notin Unsent'
    <3>1. Reopens(k)' <=> Reopens(k)
      BY <1>1, <1>2, <1>8, <2>1, <2>2, <2>4 DEF Reopens, Covered, AckUnderWay
    <3>2. Left(k)' = Left(k) /\ Left(k) \in {0, 1}
      BY <1>8, <2>4, <3>1 DEF Left
    <3> QED BY <2>1, <3>2
  <2> QED BY <2>3, <2>4
<1> QED BY <1>5, <1>6, <1>9

(* A transmission uses up what the page held of its receipt.                  *)
LEMMA TransmitBudget ==
    ASSUME EgressInv, Transmit
    PROVE  PageShape' /\ LinkShape' /\ SentFirst' /\ Budget'
<1>0. PICK h \in Key : h = Head(page)
  BY PageTail DEF EgressInv, PageShape, Transmit
<1>1. /\ page # <<>> /\ step = "transmit" /\ step' = "ack" /\ page' = page
      /\ onAir' = [onAir EXCEPT ![h] = @ + 1]
      /\ UNCHANGED <<acks, swallowed, failures>>
      /\ proc' = proc /\ file' = file /\ records' = records /\ op' = op
  BY <1>0 DEF Transmit, storeVars
<1>2. /\ ToSet(page) = {h} \cup ToSet(Tail(page)) /\ h \notin ToSet(Tail(page)) /\ h \in Key
  BY <1>0, <1>1, PageTail DEF EgressInv, PageShape
<1>3. /\ onAir \in [Key -> Nat] /\ onAir' \in [Key -> Nat] /\ onAir'[h] = onAir[h] + 1
      /\ (\A k \in Key : k # h => onAir'[k] = onAir[k]) /\ onAir[h] \in Nat /\ onAir'[h] > 0
  BY <1>1, <1>2 DEF EgressInv, LinkShape
<1>4. PageShape'
  BY <1>1 DEF EgressInv, PageShape
<1>5. LinkShape'
  BY <1>1, <1>3 DEF EgressInv, LinkShape
<1>6. (\A k \in Key : Gone(k) => Gone(k)') /\ Gone(h)' /\ Head(page') = h
  BY <1>0, <1>1, <1>3 DEF Gone
<1>7. SentFirst'
  <2>1. acks \subseteq Key
    BY DEF EgressInv, LinkShape
  <2>2. op.status = "DISPATCHED" => op.key \in Key
    BY OpShape DEF EgressInv, StoreInv, Idle
  <2>3. \A i \in DOMAIN file : file[i].key \in Key
    <3>1. \A i \in DOMAIN file : file[i] \in Line
      BY DEF EgressInv, StoreInv, TypeOK
    <3> QED BY <3>1 DEF Line
  <2> QED BY <1>1, <1>6, <2>1, <2>2, <2>3 DEF EgressInv, SentFirst
<1>8. Unsent = {h} \cup Unsent' /\ h \notin Unsent'
  BY <1>1, <1>2 DEF Unsent
<1>9. ASSUME NEW k \in Key PROVE (onAir[k] + Left(k) <= 1 + failures)'
  <2>1. failures \in Nat /\ onAir[k] \in Nat /\ onAir[k] + Left(k) <= 1 + failures
    BY DEF EgressInv, LinkShape, Budget
  <2>2. CASE k = h
    <3>1. Covered(h)'
      BY <1>1, <1>6 DEF Covered, AckUnderWay
    <3>2. Reopens(h)' => Reopens(h)
      BY <1>1, <3>1 DEF Reopens
    <3>3. Left(h)' + 1 <= Left(h) /\ Left(h)' \in {0, 1} /\ Left(h) \in {1, 2}
      BY <1>8, <3>2 DEF Left
    <3> QED BY <1>1, <1>3, <2>1, <2>2, <3>3
  <2>3. CASE k # h
    <3>1. k \in Unsent' <=> k \in Unsent
      BY <1>8, <2>3
    <3>2. Reopens(k)' => Reopens(k)
      BY <1>1, <3>1 DEF Reopens, Covered, AckUnderWay
    <3>3. Left(k)' <= Left(k) /\ Left(k)' \in {0, 1, 2} /\ Left(k) \in {0, 1, 2}
      BY <3>1, <3>2 DEF Left
    <3> QED BY <1>1, <1>3, <2>1, <2>3, <3>3
  <2> QED BY <2>2, <2>3
<1>10. Budget'
  BY <1>9 DEF Budget
<1> QED BY <1>4, <1>5, <1>7, <1>10

------------------------------------------------------------------------------
(* The steps of the gateway and the network.                                  *)

(* A serving ground station, seen from the store: what SentFirst says beyond   *)
(* the store itself.                                                          *)
LEMMA SentFirstParts ==
    SentFirst <=> /\ StoreSent
                  /\ step # "transmit" => Gone(Head(page))
                  /\ \A k \in acks : Gone(k)
  BY DEF SentFirst, StoreSent

(* A step that transmits nothing keeps the store's half of SentFirst.         *)
LEMMA NothingSent ==
    ASSUME UNCHANGED <<onAir, swallowed>>
    PROVE  \A k : Gone(k)' <=> Gone(k)
  BY DEF Gone

(* PostAck and AckAnswered only finish what was transmitted.                  *)
LEMMA AckSteps ==
    ASSUME EgressInv, PostAck \/ AckAnswered
    PROVE  PageShape' /\ LinkShape' /\ SentFirst' /\ Budget'
<1>0. PICK h : h = Head(page)
  OBVIOUS
<1>1. /\ page # <<>> /\ step # "transmit" /\ step \in {"ack", "await"}
      /\ UNCHANGED <<storeVars, onAir, swallowed, failures>>
      /\ h \in Key /\ Gone(h)
  <2>1. page # <<>> /\ step \in {"ack", "await"} /\ UNCHANGED <<storeVars, onAir, swallowed, failures>>
    BY DEF PostAck, AckAnswered, linkVars
  <2> QED BY <1>0, <2>1, PageTail DEF EgressInv, PageShape, SentFirst
<1>2. /\ onAir' = onAir /\ swallowed' = swallowed /\ failures' = failures /\ proc' = proc
      /\ records' = records /\ op' = op /\ file' = file
  BY <1>1 DEF storeVars
<1>3. \A k : Gone(k)' <=> Gone(k)
  BY <1>2, NothingSent
<1>4. StoreSent'
  BY <1>2, <1>3, SentFirstParts DEF EgressInv, StoreSent
<1>5. CASE PostAck /\ proc = "up"
  <2>1. acks' = acks \cup {h} /\ step' = "await" /\ page' = page
    BY <1>0, <1>5 DEF PostAck
  <2>2. PageShape'
    BY <1>1, <2>1 DEF EgressInv, PageShape
  <2>3. LinkShape'
    BY <1>1, <1>2, <2>1 DEF EgressInv, LinkShape
  <2>4. SentFirst'
    BY <1>0, <1>1, <1>3, <1>4, <2>1 DEF EgressInv, SentFirst, StoreSent
  <2>5. Unsent' = Unsent
    BY <1>1, <2>1 DEF Unsent
  <2>6. \A k \in Key : Reopens(k)' => Reopens(k)
    <3> SUFFICES ASSUME NEW k \in Key, Covered(k) PROVE Covered(k)'
      BY <1>2, <2>5 DEF Reopens
    <3> QED BY <1>0, <1>2, <2>1 DEF Covered, AckUnderWay
  <2> QED BY <1>2, <2>2, <2>3, <2>4, <2>5, <2>6, QuietStep DEF EgressInv
<1>6. CASE (PostAck /\ proc # "up") \/ AckAnswered
  <2>1. NextRecord /\ acks' = acks
    BY <1>6 DEF PostAck, AckAnswered, linkVars
  <2>2. PageShape' /\ Unsent' = Unsent /\ step' = "transmit"
    BY <1>1, <2>1, NextRecordKeeps DEF EgressInv, NextRecord
  <2>3. LinkShape'
    BY <1>2, <2>1 DEF EgressInv, LinkShape
  <2>4. SentFirst'
    BY <1>3, <1>4, <2>1, <2>2 DEF EgressInv, SentFirst, StoreSent
  <2>5. \A k \in Key : Reopens(k)' => Reopens(k)
    <3>1. CASE proc # "up"
      BY <3>1 DEF Reopens
    <3>2. CASE proc = "up"
      <4>1. step = "await" /\ h \notin acks
        BY <1>0, <1>6, <3>2 DEF AckAnswered
      <4>2. \A k \in Key : ~AckUnderWay(k)
        BY <1>0, <4>1 DEF AckUnderWay
      <4>3. \A k \in Key : Covered(k) => Covered(k)'
        BY <1>2, <4>2 DEF Covered
      <4> QED BY <1>2, <2>2, <4>3 DEF Reopens
    <3> QED BY <3>1, <3>2
  <2> QED BY <1>2, <2>2, <2>3, <2>4, <2>5, QuietStep DEF EgressInv
<1> QED BY <1>5, <1>6

(* The failures of the ground station and of the network are counted.         *)
LEMMA LinkFailureSteps ==
    ASSUME EgressInv, TransmitFails \/ TransmitLost \/ AckLost \/ BouncerRestarts
    PROVE  PageShape' /\ LinkShape' /\ SentFirst' /\ Budget'
<1>1. /\ page # <<>> /\ failures < MaxFailures /\ failures' = failures + 1
      /\ onAir' = onAir /\ acks' = acks /\ UNCHANGED storeVars /\ swallowed \subseteq swallowed'
  BY DEF TransmitFails, TransmitLost, AckLost, BouncerRestarts, Fault, linkVars
<1>2. /\ proc' = proc /\ records' = records /\ op' = op /\ file' = file
  BY <1>1 DEF storeVars
<1>3. failures' \in 0..MaxFailures
  BY <1>1, MaxFailuresAssumption DEF EgressInv, LinkShape
<1>4. PICK h : h = Head(page)
  OBVIOUS
<1>5. h \in Key /\ ToSet(page) = {h} \cup ToSet(Tail(page))
  BY <1>1, <1>4, PageTail DEF EgressInv, PageShape
<1>6. \A k : Gone(k) => Gone(k)'
  BY <1>1 DEF Gone
<1>7. StoreSent' /\ \A k \in acks' : Gone(k)'
  BY <1>1, <1>2, <1>6, SentFirstParts DEF EgressInv, StoreSent
<1>8. CASE TransmitLost
  <2>1. step = "transmit" /\ step' = "ack" /\ page' = page /\ swallowed' = swallowed \cup {h}
    BY <1>4, <1>8 DEF TransmitLost
  <2>2. PageShape' /\ LinkShape'
    BY <1>1, <1>2, <1>3, <1>5, <2>1 DEF EgressInv, PageShape, LinkShape
  <2>3. Gone(h)' /\ Head(page') = h
    BY <1>4, <2>1 DEF Gone
  <2>4. SentFirst'
    BY <1>7, <2>1, <2>3 DEF SentFirst, StoreSent
  <2>5. Unsent' \subseteq Unsent
    BY <1>5, <2>1 DEF Unsent
  <2> QED BY <1>1, <2>2, <2>4, <2>5, FailurePays DEF EgressInv
<1>9. CASE ~TransmitLost
  <2>1. swallowed' = swallowed /\ step' = "transmit" /\ (NextRecord \/ page' = <<>>)
    BY <1>9 DEF TransmitFails, AckLost, BouncerRestarts, linkVars, NextRecord
  <2>2. PageShape' /\ Unsent' \subseteq Unsent
    <3>1. CASE NextRecord
      BY <1>1, <3>1, NextRecordKeeps DEF EgressInv
    <3>2. CASE page' = <<>>
      BY <2>1, <3>2 DEF PageShape, Unsent, ToSet, IsInjective
    <3> QED BY <2>1, <3>1, <3>2
  <2>3. LinkShape'
    BY <1>1, <1>2, <1>3, <2>1 DEF EgressInv, LinkShape
  <2>4. SentFirst'
    BY <1>7, <2>1 DEF SentFirst, StoreSent
  <2> QED BY <1>1, <2>2, <2>3, <2>4, FailurePays DEF EgressInv
<1> QED BY <1>8, <1>9

(* What every step of the store inside the gateway keeps.                     *)
LEMMA StoreSteps ==
    ASSUME EgressInv, UNCHANGED <<page, step, onAir, swallowed>>, acks' \subseteq acks,
           failures' \in {failures, failures + 1}, failures' \in 0..MaxFailures, proc' # "closed",
           \/ UNCHANGED storeVars \/ NewStore \/ SyncLine \/ Publish \/ StoreFailure
           \/ \E k \in Key : AppendRecord(k)
           \/ \E k \in Key : MarkDispatched(k) /\ Gone(k),
           failures' = failures => \A k \in Key : Reopens(k)' => Reopens(k)
    PROVE  EgressInv'
<1>1. [StoreNext]_storeVars
  BY DEF StoreNext
<1>2. StoreInv' /\ OrderShape'
  BY <1>1, NextStoreInv, StoreOrder DEF EgressInv
<1>3. PageShape' /\ LinkShape'
  BY DEF EgressInv, PageShape, LinkShape
<1>4. StoreSent'
  BY StoreSentKept, SentFirstParts DEF EgressInv
<1>5. \A k : Gone(k)' <=> Gone(k)
  BY NothingSent
<1>6. SentFirst'
  BY <1>4, <1>5 DEF EgressInv, SentFirst, StoreSent
<1>7. Unsent' = Unsent
  BY DEF Unsent
<1>8. Budget'
  <2>1. CASE failures' = failures
    BY <1>7, <2>1, QuietStep DEF EgressInv
  <2>2. CASE failures' = failures + 1
    BY <1>7, <2>2, FailurePays DEF EgressInv
  <2> QED BY <2>1, <2>2
<1> QED BY <1>2, <1>3, <1>6, <1>8 DEF EgressInv

(* A call of the store by the watcher or by the ack handler.                  *)
LEMMA CallSteps ==
    ASSUME EgressInv, NEW k \in Key, HandleEgressAck(k) \/ Record(k)
    PROVE  EgressInv'
<1>1. /\ UNCHANGED <<page, step, onAir, swallowed>> /\ acks' \subseteq acks
      /\ \A j \in Key : j # k => (j \in acks' <=> j \in acks)
  BY DEF HandleEgressAck, Record, tickVars, linkVars
<1>2. /\ failures' \in {failures, failures + 1} /\ failures' \in 0..MaxFailures
      /\ failures' = failures \/ failures < MaxFailures
  <2>1. \E writes \in BOOLEAN : CountFailedWrite(writes)
    BY DEF HandleEgressAck, Record
  <2>2. failures \in 0..MaxFailures /\ MaxFailures \in Nat
    BY MaxFailuresAssumption DEF EgressInv, LinkShape
  <2>3. failures' = failures \/ (failures < MaxFailures /\ failures' = failures + 1)
    BY <2>1 DEF CountFailedWrite, Fault
  <2> QED BY <2>2, <2>3
<1>3. \/ UNCHANGED storeVars
      \/ AppendRecord(k)
      \/ MarkDispatched(k) /\ Gone(k)
  BY DEF HandleEgressAck, Record, EgressInv, SentFirst
<1>4. proc' = proc /\ records' = records
  BY <1>3 DEF AppendRecord, MarkDispatched, MarkDispatchedAgain, WriteLine, storeVars
<1>5. proc' # "closed"
  BY <1>4 DEF EgressInv, LinkShape
<1>6. Unsent' = Unsent
  BY <1>1 DEF Unsent
<1>7. failures \in Nat /\ records \in [Key -> Status]
  BY DEF EgressInv, LinkShape, StoreInv, TypeOK
<1>8. ASSUME failures' = failures, HandleEgressAck(k), records[k] = "PENDING", WriteLine(k, "DISPATCHED")
      PROVE  op' = [key |-> k, status |-> "DISPATCHED", pc |-> "sync"]
  <2>1. op' # Idle
    BY <1>7, <1>8 DEF HandleEgressAck, CountFailedWrite, Fault
  <2> QED BY <1>8, <2>1 DEF WriteLine
<1>9. ASSUME failures' = failures, NEW j \in Key, Reopens(j)' PROVE Reopens(j)
  <2> SUFFICES ASSUME Covered(j), ~Covered(j)', records[j] # "NONE" PROVE FALSE
    BY <1>4, <1>6, <1>9 DEF Reopens
  <2>1. records[j] # "DISPATCHED"
    BY <1>4 DEF Covered
  <2>2. op.key = j /\ op.status = "DISPATCHED" => op' = op
    <3> SUFFICES ASSUME op.status = "DISPATCHED" PROVE op' = op
      OBVIOUS
    <3>1. op # Idle
      BY DEF Idle
    <3> QED BY <1>3, <3>1 DEF AppendRecord, MarkDispatched, MarkDispatchedAgain, WriteLine, storeVars
  <2>3. AckUnderWay(j) /\ ~AckUnderWay(j)'
    BY <2>1, <2>2 DEF Covered
  <2>4. step = "await" /\ j \in acks /\ j \notin acks'
    BY <1>1, <2>3 DEF AckUnderWay
  <2>5. j = k /\ HandleEgressAck(k)
    BY <1>1, <2>4 DEF Record, linkVars
  <2>6. CASE WriteLine(k, "DISPATCHED")
    <3>1. op' = [key |-> k, status |-> "DISPATCHED", pc |-> "sync"]
      <4>1. records[k] = "PENDING"
        BY <1>7, <2>1, <2>5 DEF Status, Recorded
      <4> QED BY <1>8, <1>9, <2>5, <2>6, <4>1
    <3> QED BY <2>5, <3>1 DEF Covered
  <2> QED BY <2>1, <2>5, <2>6 DEF HandleEgressAck, MarkDispatched, MarkDispatchedAgain
<1> QED BY <1>1, <1>2, <1>3, <1>5, <1>9, StoreSteps

(* SyncLine, Publish, NewStore and a failure of the gateway.                  *)
LEMMA GatewaySteps ==
    ASSUME EgressInv, StoreStep \/ Boot \/ GatewayFails
    PROVE  EgressInv'
<1>1. /\ UNCHANGED <<page, step, onAir, swallowed>> /\ acks' \subseteq acks
      /\ ~GatewayFails => acks' = acks
  BY DEF StoreStep, Boot, GatewayFails, tickVars, linkVars, EgressInv, LinkShape
<1>2. failures \in 0..MaxFailures /\ MaxFailures \in Nat /\ proc # "closed"
  BY MaxFailuresAssumption DEF EgressInv, LinkShape
<1>3. failures' = failures \/ (failures < MaxFailures /\ failures' = failures + 1)
  BY DEF StoreStep, Boot, GatewayFails, Fault
<1>4. failures' \in {failures, failures + 1} /\ failures' \in 0..MaxFailures
  BY <1>2, <1>3
<1>5. Unsent' = Unsent
  BY <1>1 DEF Unsent
<1>6. CASE Boot
  <2>1. proc = "down" /\ NewStore /\ proc' \in {"up", "refused"}
    BY <1>6 DEF Boot, NewStore
  <2>2. \A k \in Key : Reopens(k)
    BY <2>1 DEF Reopens
  <2> QED BY <1>1, <1>4, <2>1, <2>2, StoreSteps
<1>7. CASE GatewayFails
  <2>1. StoreFailure /\ failures' = failures + 1 /\ proc' = "down"
    BY <1>7 DEF GatewayFails, Fault, StoreFailure, Kill, PowerLoss, LoseMemory
  <2>2. failures' # failures
    BY <1>2, <2>1
  <2> QED BY <1>1, <1>4, <2>1, <2>2, StoreSteps
<1>8. CASE StoreStep
  <2>1. (SyncLine \/ Publish) /\ proc' = proc /\ acks' = acks
    BY <1>8 DEF StoreStep, SyncLine, Publish, linkVars
  <2>2. \A k : AckUnderWay(k)' <=> AckUnderWay(k)
    BY <1>1, <2>1 DEF AckUnderWay
  <2>3. ASSUME failures' = failures, NEW k \in Key, Reopens(k)' PROVE Reopens(k)
    <3>1. /\ op \in [key : Key, status : Recorded, pc : {"sync", "publish"}]
          /\ records \in [Key -> Status]
      BY <2>1, OpShape DEF EgressInv, StoreInv, TypeOK, SyncLine, Publish, Idle
    <3>2. CASE SyncLine
      <4>1. ~(op.pc = "sync" /\ op' = Idle)
        BY <1>2, <1>8, <2>3 DEF StoreStep, Fault
      <4>2. op' = [op EXCEPT !.pc = "publish"] /\ records' = records
        BY <3>2, <4>1 DEF SyncLine
      <4>3. op'.key = op.key /\ op'.status = op.status
        BY <3>1, <4>2
      <4> QED BY <1>5, <2>1, <2>2, <2>3, <4>2, <4>3 DEF Reopens, Covered
    <3>3. CASE Publish
      <4>1. records' = [records EXCEPT ![op.key] = op.status]
        BY <3>3 DEF Publish
      <4>2. CASE op.key # k
        <5>1. records'[k] = records[k]
          BY <3>1, <4>1, <4>2
        <5> QED BY <1>5, <2>1, <2>2, <2>3, <4>2, <5>1 DEF Reopens, Covered
      <4>3. CASE op.key = k /\ op.status = "DISPATCHED"
        <5>1. records'[k] = "DISPATCHED"
          BY <3>1, <4>1, <4>3
        <5> QED BY <1>5, <2>1, <2>3, <5>1 DEF Reopens, Covered
      <4>4. CASE op.key = k /\ op.status = "PENDING"
        <5>1. records[k] = "NONE"
          BY <3>1, <3>3, <4>4 DEF EgressInv, StoreInv, CallInProgress, Idle, Publish
        <5> QED BY <5>1 DEF Reopens
      <4> QED BY <3>1, <4>2, <4>3, <4>4 DEF Recorded
    <3> QED BY <2>1, <3>2, <3>3
  <2> QED BY <1>1, <1>2, <1>4, <2>1, <2>3, StoreSteps
<1> QED BY <1>6, <1>7, <1>8

------------------------------------------------------------------------------
(* The theorems.                                                              *)

(* Before the first boot nothing was transmitted and one transmission is paid. *)
LEMMA InitEgressInv == EgressInit => EgressInv
<1> SUFFICES ASSUME EgressInit PROVE EgressInv
  OBVIOUS
<1>1. /\ StoreInit /\ page = <<>> /\ step = "transmit" /\ acks = {} /\ swallowed = {}
      /\ onAir = [k \in Key |-> 0] /\ failures = 0
  BY DEF EgressInit
<1>2. StoreInv
  BY <1>1, InitStoreInv
<1>3. proc = "down" /\ records = NoRecords /\ order = <<>> /\ op = Idle
  BY <1>1, Zenon DEF StoreInit
<1>4. PageShape /\ OrderShape /\ LinkShape
  BY <1>1, <1>3, MaxFailuresAssumption DEF PageShape, OrderShape, LinkShape, IsInjective
<1>5. SentFirst
  <2>1. PICK old \in SUBSET Key :
           file \in {[i \in DOMAIN t |-> NewLine(t[i], "")] : t \in SetToSeqs(old)}
    BY <1>1 DEF StoreInit
  <2>2. PICK t \in SetToSeqs(old) : file = [i \in DOMAIN t |-> NewLine(t[i], "")]
    BY <2>1
  <2>3. \A i \in DOMAIN file : file[i].status = ""
    BY <2>2 DEF NewLine
  <2>4. op.status = "NONE" /\ \A k \in Key : records[k] = "NONE"
    BY <1>3 DEF Idle, NoRecords
  <2> QED BY <1>1, <2>3, <2>4 DEF SentFirst
<1>6. Budget
  <2> SUFFICES ASSUME NEW k \in Key PROVE onAir[k] + Left(k) <= 1 + failures
    BY DEF Budget
  <2>1. Unsent = {}
    BY <1>1 DEF Unsent, ToSet
  <2>2. Left(k) \in {0, 1} /\ onAir[k] = 0
    BY <1>1, <2>1 DEF Left
  <2> QED BY <1>1, <2>2
<1> QED BY <1>2, <1>4, <1>5, <1>6 DEF EgressInv

(* Every step of the gateway, the network and the ground station keeps it.    *)
LEMMA NextEgressInv == EgressInv /\ [Next]_vars => EgressInv'
<1> SUFFICES ASSUME EgressInv, [Next]_vars PROVE EgressInv'
  OBVIOUS
<1>0. ASSUME UNCHANGED storeVars PROVE StoreInv' /\ OrderShape'
  BY <1>0, NextStoreInv, StoreOrder DEF EgressInv
<1>1. CASE FetchPending
  <2>1. UNCHANGED storeVars /\ UNCHANGED <<linkVars, failures>>
    BY <1>1 DEF FetchPending
  <2>2. LinkShape'
    BY <2>1 DEF EgressInv, LinkShape, linkVars, storeVars
  <2> QED BY <1>0, <1>1, <2>1, <2>2, FetchBudget DEF EgressInv
<1>2. CASE Transmit
  <2>1. UNCHANGED storeVars
    BY <1>2 DEF Transmit
  <2> QED BY <1>0, <1>2, <2>1, TransmitBudget DEF EgressInv
<1>3. CASE PostAck \/ AckAnswered
  <2>1. UNCHANGED storeVars
    BY <1>3 DEF PostAck, AckAnswered
  <2> QED BY <1>0, <1>3, <2>1, AckSteps DEF EgressInv
<1>4. CASE TransmitFails \/ TransmitLost \/ AckLost \/ BouncerRestarts
  <2>1. UNCHANGED storeVars
    BY <1>4 DEF TransmitFails, TransmitLost, AckLost, BouncerRestarts
  <2> QED BY <1>0, <1>4, <2>1, LinkFailureSteps DEF EgressInv
<1>5. CASE StoreStep \/ Boot \/ GatewayFails
  BY <1>5, GatewaySteps
<1>6. CASE \E k \in Key : HandleEgressAck(k) \/ Record(k)
  BY <1>6, CallSteps
<1>7. CASE UNCHANGED vars
  <2>1. /\ UNCHANGED <<page, step, onAir, swallowed, failures, proc, records, op>> /\ acks' = acks
        /\ UNCHANGED storeVars
    BY <1>7 DEF vars, tickVars, linkVars, storeVars
  <2>2. failures' \in {failures, failures + 1} /\ failures' \in 0..MaxFailures /\ proc' # "closed"
    BY <2>1 DEF EgressInv, LinkShape
  <2>3. \A k \in Key : Reopens(k)' => Reopens(k)
    BY <2>1 DEF Reopens, Covered, AckUnderWay, Unsent
  <2> QED BY <2>1, <2>2, <2>3, StoreSteps
<1> QED BY <1>1, <1>2, <1>3, <1>4, <1>5, <1>6, <1>7 DEF Next, Tick, Gateway

(* The invariant holds for every set of receipts, faults and every page size. *)
THEOREM EgressInvariant == Spec => []EgressInv
  BY InitEgressInv, NextEgressInv, PTL DEF Spec

(* The variables of the orchestrator, the handlers and the store keep their   *)
(* types: tick never works on a record the gateway does not know.             *)
THEOREM EgressTypeCorrect == Spec => []EgressTypeOK
<1>1. EgressInv => EgressTypeOK
  BY DEF EgressInv, StoreInv, PageShape, LinkShape, EgressTypeOK
<1> QED BY <1>1, EgressInvariant, PTL

(* A DISPATCHED status, in memory or in the file, follows a transmission, or  *)
(* a serial write whose loss the callback did not report, over restarts of    *)
(* either side, lost requests, lost replies and failed writes.                *)
THEOREM EgressDispatchedWasSent == Spec => []DispatchedWasSent
<1>1. EgressInv => DispatchedWasSent
  <2> SUFFICES ASSUME EgressInv, NEW k \in Key, records[k] = "DISPATCHED" \/ InFileDispatched(k)
               PROVE  Gone(k)
    BY DEF DispatchedWasSent, Gone
  <2>1. CASE records[k] = "DISPATCHED"
    BY <2>1 DEF EgressInv, SentFirst
  <2>2. CASE InFileDispatched(k)
    <3>1. PICK i \in DOMAIN file : file[i] = NewLine(k, "DISPATCHED")
      BY <2>2 DEF InFileDispatched
    <3>2. file[i].status = "DISPATCHED" /\ file[i].key = k
      BY <3>1 DEF NewLine
    <3> QED BY <3>2 DEF EgressInv, SentFirst
  <2> QED BY <2>1, <2>2
<1> QED BY <1>1, EgressInvariant, PTL

(* A receipt is transmitted at most once more than the failures there were.   *)
THEOREM EgressResendsNeedFailures == Spec => []ResendsNeedFailures
<1>1. EgressInv => ResendsNeedFailures
  <2> SUFFICES ASSUME EgressInv, NEW k \in Key PROVE onAir[k] <= 1 + failures
    BY DEF ResendsNeedFailures
  <2>1. onAir[k] \in Nat /\ failures \in Nat /\ onAir[k] + Left(k) <= 1 + failures
    BY DEF EgressInv, LinkShape, Budget
  <2>2. Left(k) \in {0, 1, 2}
    BY DEF Left
  <2> QED BY <2>1, <2>2
<1> QED BY <1>1, EgressInvariant, PTL
=============================================================================
