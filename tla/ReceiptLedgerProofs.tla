------------------------ MODULE ReceiptLedgerProofs ------------------------
(***************************************************************************)
(* ReceiptStore implements ReceiptLedger, its memory is what the file says,  *)
(* and its drain order is the one a reload gives, for every set of keys and  *)
(* every bound on the file, under kills, power losses, failed fsyncs and     *)
(* failed writes.                                                            *)
(*                                                                          *)
(* All of this needs writes that are not cut in the middle: run              *)
(* store_short_write shows what a partial write does to the file.            *)
(***************************************************************************)
EXTENDS ReceiptStoreProofs

InOp(k) == op # Idle /\ k = op.key

(* Memory is what a reload would give, but for failed calls and the running  *)
(* one.                                                                      *)
MemoryExact ==
    Running => \A k \in Key \ failed : ~InOp(k) => records[k] = Latest(file, k)

(* For every key, memory is never ahead of the file.                         *)
MemoryBehindFile ==
    Running => \A k \in Key : Rank(records[k]) <= Rank(Latest(file, k))

(* An Append of a key that never failed writes the key's first line.         *)
PendingIsFirst ==
    op # Idle /\ op.status = "PENDING" /\ op.key \notin failed =>
        \A i \in DOMAIN file : file[i].key = op.key => i = Len(file)

LedgerInv ==
    /\ StoreInv
    /\ MemoryExact
    /\ MemoryBehindFile
    /\ PendingIsFirst
    /\ DrainOrderStable

AllLinesWhole(f) == \A i \in DOMAIN f : f[i].form = "whole"

------------------------------------------------------------------------------
(* Lemmas about files.                                                       *)

(* Every line of a file of whole lines parses.                               *)
LEMMA WholeLines ==
    ASSUME NEW f \in Seq(Line), AllLinesWhole(f)
    PROVE  /\ Loadable(f)
           /\ \A k \in Key : LinesOf(f, k) = {i \in DOMAIN f : f[i].key = k}
<1>1. \A i \in DOMAIN f : i > 1 => i - 1 \in DOMAIN f
  OBVIOUS
<1>2. \A i \in DOMAIN f : Parses(f, i)
  BY <1>1 DEF AllLinesWhole, Parses
<1> QED BY <1>2 DEF Loadable, LinesOf

(* The last line of a key decides what a reload gives.                       *)
LEMMA LatestIs ==
    ASSUME NEW f \in Seq(Line), NEW k \in Key, NEW m \in LinesOf(f, k),
           \A i \in LinesOf(f, k) : i <= m
    PROVE  Latest(f, k) = Normal(f[m].status)
<1>1. LinesOf(f, k) \in SUBSET (1..Len(f))
  BY DEF LinesOf
<1>2. PICK n \in LinesOf(f, k) : /\ \A i \in LinesOf(f, k) : i <= n
                                 /\ Latest(f, k) = Normal(f[n].status)
  BY LatestStatus
<1>3. m <= n /\ n <= m
  BY <1>2
<1>4. m = n
  BY <1>1, <1>3
<1> QED BY <1>2, <1>4

(* A whole line at the end of the file is the latest of its key and changes  *)
(* nothing for the others.                                                   *)
LEMMA LatestAppend ==
    ASSUME NEW f \in Seq(Line), AllLinesWhole(f), NEW k \in Key, NEW s \in Recorded
    PROVE  /\ Append(f, NewLine(k, s)) \in Seq(Line)
           /\ AllLinesWhole(Append(f, NewLine(k, s)))
           /\ Latest(Append(f, NewLine(k, s)), k) = s
           /\ \A j \in Key : j # k => /\ Latest(Append(f, NewLine(k, s)), j) = Latest(f, j)
                                      /\ LinesOf(Append(f, NewLine(k, s)), j) = LinesOf(f, j)
           /\ LinesOf(Append(f, NewLine(k, s)), k) = LinesOf(f, k) \cup {Len(f) + 1}
<1> DEFINE l == NewLine(k, s)
           g == Append(f, l)
<1>1. l \in Line /\ l.key = k /\ l.status = s /\ l.form = "whole" /\ Normal(l.status) = s
  BY DEF NewLine, Line, Normal, Recorded
<1> HIDE DEF l
<1>2. /\ g \in Seq(Line) /\ DOMAIN g = 1..(Len(f) + 1) /\ DOMAIN f = 1..Len(f) /\ Len(f) \in Nat
      /\ \A i \in 1..Len(f) : g[i] = f[i]
      /\ g[Len(f) + 1] = l
  BY <1>1, FileAppend
<1> HIDE DEF g
<1>3. \A i : i \in 1..(Len(f) + 1) <=> (i \in 1..Len(f) \/ i = Len(f) + 1)
  BY <1>2
<1>4. AllLinesWhole(g)
  BY <1>1, <1>2, <1>3 DEF AllLinesWhole
<1>5. /\ \A j \in Key : LinesOf(g, j) = {i \in DOMAIN g : g[i].key = j}
      /\ \A j \in Key : LinesOf(f, j) = {i \in DOMAIN f : f[i].key = j}
  BY <1>2, <1>4, WholeLines
<1>6. LinesOf(g, k) = LinesOf(f, k) \cup {Len(f) + 1}
  BY <1>1, <1>2, <1>3, <1>5
<1>7. Latest(g, k) = s
  <2>1. Len(f) + 1 \in LinesOf(g, k) /\ \A i \in LinesOf(g, k) : i <= Len(f) + 1
    <3>1. \A i \in LinesOf(g, k) : i \in 1..(Len(f) + 1)
      BY <1>2, <1>5
    <3> QED BY <3>1, <1>2, <1>6
  <2>2. Latest(g, k) = Normal(g[Len(f) + 1].status)
    BY <2>1, <1>2, LatestIs
  <2> QED BY <2>2, <1>1, <1>2
<1>8. ASSUME NEW j \in Key, j # k
      PROVE  Latest(g, j) = Latest(f, j) /\ LinesOf(g, j) = LinesOf(f, j)
  <2>1. LinesOf(g, j) = LinesOf(f, j)
    <3>1. g[Len(f) + 1].key # j
      BY <1>1, <1>2, <1>8
    <3>2. \A i \in DOMAIN g : g[i].key = j <=> i \in DOMAIN f /\ f[i].key = j
      BY <1>2, <1>3, <3>1
    <3>3. DOMAIN f \subseteq DOMAIN g
      BY <1>2, <1>3
    <3> QED BY <3>2, <3>3, <1>5
  <2>2. CASE LinesOf(f, j) = {}
    BY <2>1, <2>2 DEF Latest
  <2>3. CASE LinesOf(f, j) # {}
    <3>1. PICK m \in LinesOf(f, j) : /\ \A i \in LinesOf(f, j) : i <= m
                                     /\ Latest(f, j) = Normal(f[m].status)
      BY <2>3, LatestStatus
    <3>2. m \in 1..Len(f)
      BY <1>2 DEF LinesOf
    <3>3. Latest(g, j) = Normal(g[m].status)
      BY <2>1, <3>1, <1>2, LatestIs
    <3> QED BY <3>1, <3>2, <3>3, <1>2, <2>1
  <2> QED BY <2>2, <2>3
<1> QED BY <1>2, <1>4, <1>6, <1>7, <1>8 DEF g, l

(* A nonempty set of positions has a first one, and Min finds it.            *)
LEMMA MinPosition ==
    ASSUME NEW S \in SUBSET Nat, S # {}
    PROVE  Min(S) \in S /\ \A y \in S : Min(S) <= y
<1>1. \E x \in S : \A y \in S : x <= y
  BY MinExists
<1> QED BY <1>1 DEF Min

NoRegressionIn(f) ==
    \A i, j \in DOMAIN f :
        i < j /\ f[i].key = f[j].key /\ f[i].status = "DISPATCHED" => f[j].status = "DISPATCHED"

(* "Latest line wins" loses no line: a reload gives a key at least the status *)
(* of each of its lines.                                                      *)
LEMMA LatestCovers ==
    ASSUME NEW f \in Seq(Line), AllLinesWhole(f), NoRegressionIn(f),
           NEW k \in Key, NEW i \in DOMAIN f, f[i].key = k
    PROVE  Rank(Normal(f[i].status)) <= Rank(Latest(f, k))
<1>1. i \in LinesOf(f, k) /\ LinesOf(f, k) \subseteq DOMAIN f /\ DOMAIN f = 1..Len(f)
      /\ \A j \in LinesOf(f, k) : f[j].key = k
  BY WholeLines
<1>2. PICK m \in LinesOf(f, k) : /\ \A j \in LinesOf(f, k) : j <= m
                                 /\ Latest(f, k) = Normal(f[m].status)
  BY <1>1, LatestStatus
<1>3. i < m \/ i = m
  BY <1>1, <1>2
<1>4. f[i].status = "DISPATCHED" => f[m].status = "DISPATCHED"
  BY <1>1, <1>3 DEF NoRegressionIn
<1>5. f[i].status \in {"", "PENDING", "DISPATCHED"} /\ f[m].status \in {"", "PENDING", "DISPATCHED"}
  <2>1. f[i] \in Line /\ f[m] \in Line
    BY <1>1
  <2> QED BY <2>1 DEF Line, Recorded
<1>6. /\ Normal(f[i].status) = "PENDING" \/ (Normal(f[i].status) = "DISPATCHED"
                                             /\ Normal(f[m].status) = "DISPATCHED")
      /\ Normal(f[m].status) \in {"PENDING", "DISPATCHED"}
  BY <1>4, <1>5 DEF Normal
<1> QED BY <1>2, <1>6, RankValues

(* Losing a suffix of the file takes no status forward.                       *)
LEMMA LatestPrefix ==
    ASSUME NEW f \in Seq(Line), AllLinesWhole(f), NoRegressionIn(f),
           NEW n \in 0..Len(f), NEW k \in Key
    PROVE  /\ SubSeq(f, 1, n) \in Seq(Line)
           /\ Rank(Latest(SubSeq(f, 1, n), k)) <= Rank(Latest(f, k))
           /\ \A i \in 1..n : f[i].key = k =>
                 Rank(Normal(f[i].status)) <= Rank(Latest(SubSeq(f, 1, n), k))
<1> DEFINE p == SubSeq(f, 1, n)
<1>1. p \in Seq(Line) /\ DOMAIN p = 1..n /\ \A i \in 1..n : p[i] = f[i]
  BY FilePrefix
<1>2. 1..n \subseteq DOMAIN f
  OBVIOUS
<1> HIDE DEF p
<1>3. AllLinesWhole(p) /\ NoRegressionIn(p)
  BY <1>1, <1>2 DEF AllLinesWhole, NoRegressionIn
<1>4. \A i \in 1..n : f[i].key = k => Rank(Normal(f[i].status)) <= Rank(Latest(p, k))
  BY <1>1, <1>3, LatestCovers
<1>5. Rank(Latest(p, k)) <= Rank(Latest(f, k))
  <2>1. CASE LinesOf(p, k) = {}
    <3>1. Latest(p, k) = "NONE" /\ Latest(f, k) \in Status
      BY <1>1, <2>1, LatestStatus
    <3> QED BY <3>1, RankValues DEF Status, Recorded
  <2>2. CASE LinesOf(p, k) # {}
    <3>1. PICK m \in LinesOf(p, k) : Latest(p, k) = Normal(p[m].status)
      BY <1>1, <2>2, LatestStatus
    <3>2. m \in 1..n /\ p[m].key = k
      BY <1>1 DEF LinesOf
    <3>3. m \in DOMAIN f /\ f[m].key = k /\ Latest(p, k) = Normal(f[m].status)
      BY <1>1, <1>2, <3>1, <3>2
    <3> QED BY <3>3, LatestCovers
  <2> QED BY <2>1, <2>2
<1> QED BY <1>1, <1>4, <1>5 DEF p

(* SetToSeqs lists a finite set: every element, once.                         *)
LEMMA SetToSeqsLists ==
    ASSUME NEW S, IsFiniteSet(S), NEW q \in SetToSeqs(S)
    PROVE  IsInjective(q) /\ ToSet(q) = S /\ q \in Seq(S)
<1> DEFINE n == Cardinality(S)
<1>1. n \in Nat /\ IsFiniteSet(1..n) /\ Cardinality(1..n) = n
  BY FS_CardinalityType, FS_Interval
<1>2. q \in [1..n -> S] /\ \A i, j \in 1..n : i # j => q[i] # q[j]
  BY DEF SetToSeqs
<1> HIDE DEF n
<1>3. q \in Injection(1..n, S)
  BY <1>2 DEF Injection, IsInjective
<1>4. q \in Surjection(1..n, S)
  BY <1>1, <1>3, FS_Injection DEF n
<1>5. \A x \in S : \E i \in 1..n : q[i] = x
  BY <1>4 DEF Surjection
<1>6. DOMAIN q = 1..n
  BY <1>2
<1> QED BY <1>1, <1>2, <1>5, <1>6 DEF IsInjective, ToSet

------------------------------------------------------------------------------
(* The initial states and the steps.                                          *)

(* An older release's file holds lines with a blank status, each key once.    *)
LEMMA InitFile ==
    ASSUME StoreInit
    PROVE  \A i \in DOMAIN file : file[i].status = ""
<1>1. PICK old \in SUBSET Key :
           file \in {[i \in DOMAIN t |-> NewLine(t[i], "")] : t \in SetToSeqs(old)}
  BY DEF StoreInit
<1>2. PICK t \in SetToSeqs(old) : file = [i \in DOMAIN t |-> NewLine(t[i], "")]
  BY <1>1
<1>3. \A i \in DOMAIN file : file[i] = NewLine(t[i], "")
  BY <1>2
<1>4. \A k : NewLine(k, "").status = ""
  BY DEF NewLine
<1> QED BY <1>3, <1>4

(* In a store without partial writes the file is whole and never regresses.   *)
LEMMA FileFacts ==
    ASSUME StoreInv, "partial" \notin Faults
    PROVE  file \in Seq(Line) /\ AllLinesWhole(file) /\ NoRegressionIn(file)
           /\ DOMAIN file = 1..Len(file) /\ Len(file) \in Nat
<1>1. file \in Seq(Line)
  BY DEF StoreInv, TypeOK
<1>2. \A i \in DOMAIN file : file[i].form = "whole"
  BY DEF StoreInv, AllWhole
<1>3. NoRegressionIn(file)
  BY <1>2 DEF StoreInv, NoRegression, NoRegressionIn
<1>4. DOMAIN file = 1..Len(file) /\ Len(file) \in Nat
  BY <1>1
<1> QED BY <1>1, <1>2, <1>3, <1>4 DEF AllLinesWhole

(* An empty store that has never run satisfies it.                            *)
LEMMA InitLedgerInv == StoreInit => LedgerInv
<1> SUFFICES ASSUME StoreInit PROVE LedgerInv
  OBVIOUS
<1>1. proc = "down" /\ op = Idle
  BY DEF StoreInit
<1> QED BY <1>1, InitStoreInv
    DEF LedgerInv, MemoryExact, MemoryBehindFile, PendingIsFirst, DrainOrderStable, Running

(* A boot reads memory and order from the file.                               *)
LEMMA NewStoreLedger ==
    ASSUME LedgerInv, "partial" \notin Faults, NewStore
    PROVE  LedgerInv'
<1>1. StoreInv'
  BY NewStorePreserves DEF LedgerInv
<1>2. file \in Seq(Line) /\ AllLinesWhole(file)
  BY FileFacts DEF LedgerInv
<1>3. op = Idle
  BY DEF LedgerInv, StoreInv, CallInProgress, NewStore
<1>4. /\ proc' = "up" /\ records' = [k \in Key |-> Latest(file, k)]
      /\ order' \in SetToSeqs(KeysIn(file)) /\ FirstSeenOrder(order', file)
      /\ UNCHANGED <<file, op, failed>>
  BY <1>2, WholeLines DEF NewStore
<1>5. MemoryExact' /\ PendingIsFirst'
  BY <1>3, <1>4 DEF MemoryExact, PendingIsFirst
<1>6. MemoryBehindFile'
  <2> SUFFICES ASSUME NEW k \in Key PROVE Rank(Latest(file, k)) <= Rank(Latest(file, k))
    BY <1>4 DEF MemoryBehindFile
  <2>1. Latest(file, k) \in {"NONE", "PENDING", "DISPATCHED"}
    BY <1>2, LatestStatus DEF Status, Recorded
  <2> QED BY <2>1, RankValues
<1>7. DrainOrderStable'
  <2>1. IsFiniteSet(KeysIn(file))
    BY KeyAssumption, FS_Subset DEF KeysIn
  <2>2. IsInjective(order') /\ ToSet(order') = KeysIn(file)
    BY <1>4, <2>1, SetToSeqsLists
  <2>3. \A k \in Key : Latest(file, k) = "NONE" <=> LinesOf(file, k) = {}
    BY <1>2, LatestStatus
  <2>4. KeysIn(file) = {k \in Key : records'[k] # "NONE"}
    BY <1>4, <2>3 DEF KeysIn
  <2> QED BY <1>4, <2>2, <2>4 DEF DrainOrderStable
<1> QED BY <1>1, <1>5, <1>6, <1>7 DEF LedgerInv

(* A key in memory has a line, so its place in the order is defined.          *)
LEMMA OrderedHaveLines ==
    ASSUME LedgerInv, Running, NEW k \in Key, records[k] # "NONE"
    PROVE  LinesOf(file, k) # {} /\ LinesOf(file, k) \in SUBSET (1..Len(file))
<1>1. file \in Seq(Line) /\ records[k] \in {"PENDING", "DISPATCHED"}
  BY DEF LedgerInv, StoreInv, TypeOK, Status, Recorded
<1>2. Rank(records[k]) <= Rank(Latest(file, k))
  BY DEF LedgerInv, MemoryBehindFile
<1>3. Latest(file, k) # "NONE"
  BY <1>1, <1>2, RankValues
<1> QED BY <1>1, <1>3, LatestStatus DEF LinesOf

(* The line of the call in progress is the latest of its key.                 *)
LEMMA OpLatest ==
    ASSUME StoreInv, "partial" \notin Faults, op # Idle
    PROVE  /\ Latest(file, op.key) = op.status
           /\ Len(file) \in DOMAIN file /\ file[Len(file)].key = op.key
<1>1. /\ file \in Seq(Line) /\ AllLinesWhole(file) /\ DOMAIN file = 1..Len(file) /\ Len(file) \in Nat
  BY FileFacts
<1>2. op.key \in Key /\ op.status \in Recorded
  BY OpShape DEF StoreInv
<1>3. file # <<>> /\ file[Len(file)] = NewLine(op.key, op.status)
  BY DEF StoreInv, CallInProgress
<1>4. Len(file) \in DOMAIN file
  BY <1>1, <1>3
<1>5. file[Len(file)].key = op.key /\ Normal(file[Len(file)].status) = op.status
  <2>1. NewLine(op.key, op.status).key = op.key /\ NewLine(op.key, op.status).status = op.status
    BY DEF NewLine
  <2>2. Normal(op.status) = op.status
    BY <1>2 DEF Normal, Recorded
  <2> QED BY <2>1, <2>2, <1>3
<1>6. /\ Len(file) \in LinesOf(file, op.key)
      /\ \A i \in LinesOf(file, op.key) : i <= Len(file)
  BY <1>1, <1>2, <1>4, <1>5, WholeLines
<1>7. Latest(file, op.key) = Normal(file[Len(file)].status)
  BY <1>1, <1>2, <1>6, LatestIs
<1> QED BY <1>4, <1>5, <1>7

(* writeLineLocked's write.                                                   *)
LEMMA LineWrittenLedger ==
    ASSUME LedgerInv, "partial" \notin Faults, NEW k \in Key, NEW s \in Recorded,
           LineWritten(k, s),
           s = "PENDING" => records[k] = "NONE",
           s = "DISPATCHED" => records[k] = "PENDING"
    PROVE  LedgerInv'
<1>1. StoreInv'
  BY LineWrittenPreserves DEF LedgerInv
<1>2. /\ file \in Seq(Line) /\ AllLinesWhole(file) /\ DOMAIN file = 1..Len(file) /\ Len(file) \in Nat
  BY FileFacts DEF LedgerInv
<1>3. /\ file' = Append(file, NewLine(k, s))
      /\ op' = [key |-> k, status |-> s, pc |-> "sync"] /\ op = Idle
      /\ Running /\ UNCHANGED <<proc, records, order, failed>>
  BY DEF LineWritten, WriteLine, Running
<1>4. op' # Idle /\ op'.key = k /\ op'.status = s
  BY <1>3 DEF Idle
<1>5. /\ file' \in Seq(Line) /\ Latest(file', k) = s
      /\ \A j \in Key : j # k => Latest(file', j) = Latest(file, j)
                                 /\ LinesOf(file', j) = LinesOf(file, j)
      /\ LinesOf(file', k) = LinesOf(file, k) \cup {Len(file) + 1}
      /\ Len(file') = Len(file) + 1
  BY <1>2, <1>3, LatestAppend
<1>6. MemoryExact'
  <2> SUFFICES ASSUME NEW j \in Key \ failed, j # k PROVE records[j] = Latest(file', j)
    BY <1>3, <1>4 DEF MemoryExact, InOp
  <2> QED BY <1>3, <1>5 DEF LedgerInv, MemoryExact, InOp
<1>7. MemoryBehindFile'
  <2> SUFFICES ASSUME NEW j \in Key PROVE Rank(records[j]) <= Rank(Latest(file', j))
    BY <1>3 DEF MemoryBehindFile
  <2>1. CASE j = k
    BY <2>1, <1>5, RankValues DEF Recorded
  <2>2. CASE j # k
    BY <2>2, <1>3, <1>5 DEF LedgerInv, MemoryBehindFile
  <2> QED BY <2>1, <2>2
<1>8. PendingIsFirst'
  <2> SUFFICES ASSUME s = "PENDING", k \notin failed,
                      NEW i \in DOMAIN file', file'[i].key = k
               PROVE  i = Len(file')
    BY <1>3, <1>4 DEF PendingIsFirst
  <2>1. Latest(file, k) = "NONE"
    BY <1>3 DEF LedgerInv, MemoryExact, InOp
  <2>2. LinesOf(file, k) = {}
    BY <2>1, <1>2, LatestStatus
  <2>3. AllLinesWhole(file')
    BY <1>2, <1>3, LatestAppend
  <2>4. i \in LinesOf(file', k)
    BY <2>3, <1>5, WholeLines
  <2> QED BY <2>2, <2>4, <1>5
<1>9. DrainOrderStable'
  <2>1. \A j \in Key : records[j] # "NONE" => Min(LinesOf(file', j)) = Min(LinesOf(file, j))
    <3>1. SUFFICES ASSUME NEW j \in Key, records[j] # "NONE", j = k
                   PROVE  Min(LinesOf(file', j)) = Min(LinesOf(file, j))
      BY <1>5
    <3> DEFINE S == LinesOf(file, j)
    <3>2. S # {} /\ S \in SUBSET (1..Len(file))
      BY <3>1, <1>3, OrderedHaveLines
    <3> HIDE DEF S
    <3>3. Min(S) \in S /\ \A y \in S : Min(S) <= y
      BY <3>2, <1>2, MinPosition
    <3>4. Min(S \cup {Len(file) + 1}) \in S \cup {Len(file) + 1}
          /\ \A y \in S \cup {Len(file) + 1} : Min(S \cup {Len(file) + 1}) <= y
      BY <3>2, <1>2, MinPosition
    <3>5. Min(S \cup {Len(file) + 1}) <= Min(S) /\ Min(S) \in 1..Len(file)
      BY <3>2, <3>3, <3>4
    <3>6. Min(S \cup {Len(file) + 1}) \in S
      BY <3>4, <3>5, <1>2
    <3>7. Min(S) <= Min(S \cup {Len(file) + 1}) /\ Min(S \cup {Len(file) + 1}) \in 1..Len(file)
      BY <3>2, <3>3, <3>6
    <3>8. Min(S \cup {Len(file) + 1}) = Min(S)
      BY <3>5, <3>7, <1>2
    <3> QED BY <3>1, <3>8, <1>5 DEF S
  <2>2. DrainOrderStable /\ order \in Seq(Key)
    BY DEF LedgerInv, StoreInv, TypeOK
  <2>3. \A i \in DOMAIN order : order[i] \in Key /\ records[order[i]] # "NONE"
    BY <2>2, <1>3 DEF DrainOrderStable, ToSet, Running
  <2>4. FirstSeenOrder(order, file) => FirstSeenOrder(order, file')
    BY <2>1, <2>3 DEF FirstSeenOrder
  <2> QED BY <2>2, <2>4, <1>3 DEF DrainOrderStable, Running
<1> QED BY <1>1, <1>6, <1>7, <1>8, <1>9 DEF LedgerInv

(* A write that failed with nothing written, or one that left its line.       *)
LEMMA WriteLineLedger ==
    ASSUME LedgerInv, "partial" \notin Faults, NEW k \in Key, NEW s \in Recorded,
           WriteLine(k, s),
           s = "PENDING" => records[k] = "NONE",
           s = "DISPATCHED" => records[k] = "PENDING"
    PROVE  LedgerInv'
<1>1. NothingWritten(k) \/ LineWritten(k, s)
  BY WriteLineCases DEF LedgerInv, StoreInv
<1>2. CASE NothingWritten(k)
  <2>1. StoreInv' /\ failed' # {} /\ \A j : j \notin failed' => j \notin failed
    BY <1>2, NothingWrittenPreserves DEF LedgerInv, NothingWritten
  <2> QED BY <1>2, <2>1 DEF NothingWritten, LedgerInv, MemoryExact, MemoryBehindFile, PendingIsFirst,
          DrainOrderStable, InOp, Running
<1> QED BY <1>1, <1>2, LineWrittenLedger

(* writeLineLocked's fsync, done or failed.                                   *)
LEMMA SyncLineLedger ==
    ASSUME LedgerInv, SyncLine
    PROVE  LedgerInv'
<1>1. StoreInv'
  BY SyncLinePreserves DEF LedgerInv
<1>2. /\ op # Idle /\ op.key \in Key /\ UNCHANGED <<proc, file, records, order>>
      /\ op \in [key : Key, status : Recorded, pc : {"sync", "publish"}]
  BY OpShape DEF SyncLine, Idle, LedgerInv, StoreInv, TypeOK
<1>3. CASE op' = [op EXCEPT !.pc = "publish"] /\ UNCHANGED failed
  <2>1. op' # Idle /\ op'.key = op.key /\ op'.status = op.status
    BY <1>2, <1>3 DEF Idle
  <2> QED BY <1>1, <1>2, <1>3, <2>1
      DEF LedgerInv, MemoryExact, MemoryBehindFile, PendingIsFirst, DrainOrderStable, InOp, Running
<1>4. CASE failed' = failed \cup {op.key} /\ op' = Idle
  <2>1. failed' # {}
    BY <1>4
  <2> QED BY <1>1, <1>2, <1>4, <2>1
      DEF LedgerInv, MemoryExact, MemoryBehindFile, PendingIsFirst, DrainOrderStable, InOp, Running
<1> QED BY <1>3, <1>4 DEF SyncLine

(* The rest of Append and MarkDispatched: memory catches up with the file.    *)
LEMMA PublishLedger ==
    ASSUME LedgerInv, "partial" \notin Faults, Publish
    PROVE  LedgerInv'
<1>1. StoreInv'
  BY PublishPreserves DEF LedgerInv
<1>2. /\ op # Idle /\ op.key \in Key /\ op.status \in Recorded
      /\ proc = "up" /\ Running /\ records \in [Key -> Status] /\ order \in Seq(Key)
      /\ op.status = "PENDING" => records[op.key] = "NONE"
      /\ op.status = "DISPATCHED" => records[op.key] = "PENDING"
  BY OpShape DEF Publish, Idle, LedgerInv, StoreInv, TypeOK, CallInProgress, Running
<1>3. /\ records' = [records EXCEPT ![op.key] = op.status] /\ op' = Idle
      /\ order' = IF records[op.key] = "NONE" THEN Append(order, op.key) ELSE order
      /\ UNCHANGED <<proc, file, failed>>
  BY DEF Publish
<1>4. /\ Latest(file, op.key) = op.status
      /\ Len(file) \in DOMAIN file /\ file[Len(file)].key = op.key
  BY <1>2, OpLatest DEF LedgerInv
<1>5. MemoryExact'
  <2> SUFFICES ASSUME NEW k \in Key \ failed PROVE records'[k] = Latest(file, k)
    BY <1>3 DEF MemoryExact
  <2>1. CASE k = op.key
    BY <2>1, <1>2, <1>3, <1>4
  <2>2. CASE k # op.key
    BY <2>2, <1>2, <1>3 DEF LedgerInv, MemoryExact, InOp
  <2> QED BY <2>1, <2>2
<1>6. MemoryBehindFile'
  <2> SUFFICES ASSUME NEW k \in Key PROVE Rank(records'[k]) <= Rank(Latest(file, k))
    BY <1>3 DEF MemoryBehindFile
  <2>1. CASE k = op.key
    BY <2>1, <1>2, <1>3, <1>4, RankValues DEF Recorded
  <2>2. CASE k # op.key
    BY <2>2, <1>2, <1>3 DEF LedgerInv, MemoryBehindFile
  <2> QED BY <2>1, <2>2
<1>7. PendingIsFirst'
  BY <1>3 DEF PendingIsFirst
<1>8. DrainOrderStable'
  <2>1. DrainOrderStable
    BY DEF LedgerInv
  <2>2. /\ IsInjective(order) /\ ToSet(order) = {k \in Key : records[k] # "NONE"}
        /\ failed = {} => FirstSeenOrder(order, file)
    BY <2>1, <1>2 DEF DrainOrderStable
  <2>3. CASE records[op.key] # "NONE"
    <3>1. {k \in Key : records'[k] # "NONE"} = {k \in Key : records[k] # "NONE"}
      BY <2>3, <1>2, <1>3 DEF Recorded
    <3> QED BY <2>2, <2>3, <3>1, <1>3 DEF DrainOrderStable
  <2>4. CASE records[op.key] = "NONE"
    <3> DEFINE n == Len(order)
    <3>1. /\ order' = Append(order, op.key) /\ n \in Nat
          /\ DOMAIN order = 1..n /\ DOMAIN order' = 1..(n + 1)
          /\ \A i \in 1..n : order'[i] = order[i]
          /\ order'[n + 1] = op.key
      BY <2>4, <1>2, <1>3
    <3> HIDE DEF n
    <3>2. \A i : i \in 1..(n + 1) <=> (i \in 1..n \/ i = n + 1)
      BY <3>1
    <3>3. \A i \in 1..n : order[i] \in Key /\ records[order[i]] # "NONE" /\ order[i] # op.key
      BY <2>2, <2>4, <3>1 DEF ToSet
    <3>4. IsInjective(order')
      <4> SUFFICES ASSUME NEW a \in 1..(n + 1), NEW b \in 1..(n + 1), order'[a] = order'[b]
                   PROVE  a = b
        BY <3>1 DEF IsInjective
      <4> QED BY <2>2, <3>1, <3>2, <3>3 DEF IsInjective
    <3>5. ToSet(order') = ToSet(order) \cup {op.key}
      BY <3>1, <3>2 DEF ToSet
    <3>6. {k \in Key : records'[k] # "NONE"} = {k \in Key : records[k] # "NONE"} \cup {op.key}
      BY <1>2, <1>3 DEF Recorded
    <3>7. ASSUME failed = {} PROVE FirstSeenOrder(order', file)
      <4>1. /\ file \in Seq(Line) /\ AllLinesWhole(file) /\ DOMAIN file = 1..Len(file)
            /\ Len(file) \in Nat
        BY FileFacts DEF LedgerInv
      <4>2. op.status = "PENDING"
        BY <2>4, <1>2 DEF Recorded
      <4>3. \A i \in DOMAIN file : file[i].key = op.key <=> i = Len(file)
        BY <4>2, <3>7, <1>2, <1>4 DEF LedgerInv, PendingIsFirst
      <4>4. \A k \in Key : LinesOf(file, k) = {i \in DOMAIN file : file[i].key = k}
        BY <4>1, WholeLines
      <4>5. LinesOf(file, op.key) = {Len(file)}
        BY <4>3, <4>4, <1>2, <1>4
      <4>6. Min(LinesOf(file, op.key)) = Len(file)
        <5>1. Min({Len(file)}) \in {Len(file)}
          BY <4>1, MinPosition
        <5> QED BY <5>1, <4>5
      <4>7. \A k \in Key : records[k] # "NONE" /\ k # op.key => Min(LinesOf(file, k)) < Len(file)
        <5> SUFFICES ASSUME NEW k \in Key, records[k] # "NONE", k # op.key
                     PROVE  Min(LinesOf(file, k)) < Len(file)
          OBVIOUS
        <5>1. LinesOf(file, k) # {} /\ LinesOf(file, k) \in SUBSET (1..Len(file))
          BY <1>2, OrderedHaveLines
        <5>2. LinesOf(file, k) \in SUBSET Nat
          BY <5>1
        <5>3. Min(LinesOf(file, k)) \in LinesOf(file, k)
          BY <5>1, <5>2, MinPosition
        <5>4. Min(LinesOf(file, k)) # Len(file)
          BY <5>3, <4>4, <1>4
        <5> QED BY <5>1, <5>3, <5>4, <4>1
      <4> SUFFICES ASSUME NEW i \in 1..(n + 1), NEW j \in 1..(n + 1), i < j
                   PROVE  Min(LinesOf(file, order'[i])) < Min(LinesOf(file, order'[j]))
        BY <3>1 DEF FirstSeenOrder
      <4>8. CASE j \in 1..n
        <5>1. i \in 1..n
          BY <4>8, <3>1
        <5> QED BY <5>1, <4>8, <3>1, <3>7, <2>2 DEF FirstSeenOrder
      <4>9. CASE j = n + 1
        <5>1. i \in 1..n
          BY <4>9, <3>1
        <5> QED BY <5>1, <4>9, <3>1, <3>3, <4>6, <4>7
      <4> QED BY <4>8, <4>9, <3>2
    <3> QED BY <2>2, <3>4, <3>5, <3>6, <3>7, <1>3 DEF DrainOrderStable
  <2> QED BY <2>3, <2>4
<1> QED BY <1>1, <1>5, <1>6, <1>7, <1>8 DEF LedgerInv

(* Every step of the store preserves the stronger invariant.                  *)
LEMMA NextLedgerInv ==
    ASSUME "partial" \notin Faults
    PROVE  LedgerInv /\ [StoreNext]_storeVars => LedgerInv'
<1> SUFFICES ASSUME LedgerInv, [StoreNext]_storeVars PROVE LedgerInv'
  OBVIOUS
<1>1. StoreInv'
  BY NextStoreInv DEF LedgerInv
<1>2. CASE NewStore
  BY <1>2, NewStoreLedger
<1>3. CASE \E k \in Key : AppendRecord(k)
  BY <1>3, WriteLineLedger DEF AppendRecord, Recorded
<1>4. ASSUME UNCHANGED storeVars PROVE LedgerInv'
  BY <1>1, <1>4 DEF storeVars, LedgerInv, MemoryExact, MemoryBehindFile, PendingIsFirst,
     DrainOrderStable, InOp, Running
<1>5. CASE \E k \in Key : MarkDispatched(k)
  BY <1>4, <1>5, WriteLineLedger DEF MarkDispatched, MarkDispatchedAgain, Recorded
<1>6. CASE SyncLine
  BY <1>6, SyncLineLedger
<1>7. CASE Publish
  BY <1>7, PublishLedger
<1>8. CASE Close
  BY <1>1, <1>8 DEF Close, LedgerInv, MemoryExact, MemoryBehindFile, PendingIsFirst,
     DrainOrderStable, InOp, Running
<1>9. CASE StoreFailure
  <2>1. proc' = "down" /\ op' = Idle
    BY <1>9 DEF StoreFailure, Kill, PowerLoss, LoseMemory
  <2> QED BY <1>1, <2>1 DEF LedgerInv, MemoryExact, MemoryBehindFile, PendingIsFirst,
          DrainOrderStable, Running
<1> QED BY <1>2, <1>3, <1>4, <1>5, <1>6, <1>7, <1>8, <1>9 DEF StoreNext

------------------------------------------------------------------------------
(* The step refinement.                                                       *)

FileStatus == [k \in Key |-> Latest(file, k)]

(* The two specifications rank the statuses alike.                            *)
LEMMA LedgerRank == \A s : Ledger!Rank(s) = Rank(s)
  BY DEF Ledger!Rank, Rank

(* No call returned nil for a line of its own that the file does not have.    *)
LEMMA WrittenBehindFile ==
    ASSUME LedgerInv, "partial" \notin Faults, NEW k \in Key
    PROVE  /\ Rank(written[k]) <= Rank(Latest(file, k))
           /\ Latest(file, k) \in Status /\ written[k] \in Status
           /\ Latest(file, k) # "NONE" <=> \E i \in DOMAIN file : file[i].key = k
<1>1. /\ file \in Seq(Line) /\ AllLinesWhole(file) /\ NoRegressionIn(file)
      /\ LinesOf(file, k) = {i \in DOMAIN file : file[i].key = k}
  BY FileFacts, WholeLines DEF LedgerInv
<1>2. written[k] \in Status
  BY DEF LedgerInv, StoreInv, TypeOK
<1>3. Latest(file, k) \in Status /\ (Latest(file, k) # "NONE" <=> LinesOf(file, k) # {})
  BY <1>1, LatestStatus DEF Status
<1>4. Latest(file, k) # "NONE" <=> \E i \in DOMAIN file : file[i].key = k
  BY <1>1, <1>3
<1>5. Rank(Latest(file, k)) \in Nat
  BY <1>3, RankValues DEF Status, Recorded
<1>6. Rank(written[k]) <= Rank(Latest(file, k))
  <2>1. CASE written[k] = "NONE"
    BY <1>5, <2>1, RankValues
  <2>2. CASE written[k] # "NONE"
    <3>1. PICK i \in 1..synced : file[i].key = k /\ Normal(file[i].status) = written[k]
      BY <2>2 DEF LedgerInv, StoreInv, WrittenSynced
    <3>2. i \in DOMAIN file
      BY DEF LedgerInv, StoreInv, TypeOK
    <3>3. Rank(Normal(file[i].status)) <= Rank(Latest(file, k))
      BY <1>1, <3>1, <3>2, LatestCovers
    <3> QED BY <3>1, <3>3
  <2> QED BY <2>1, <2>2
<1> QED BY <1>2, <1>3, <1>4, <1>6

(* A first boot is an initial state of the ledger.                            *)
LEMMA InitRefines == StoreInit => Ledger!LedgerInit
<1> SUFFICES ASSUME StoreInit PROVE Ledger!LedgerInit
  OBVIOUS
<1>1. file \in Seq(Line) /\ written = [k \in Key |-> "NONE"]
  BY InitStoreInv DEF StoreInit, StoreInv, TypeOK, NoRecords
<1>2. ASSUME NEW k \in Key PROVE Latest(file, k) \in {"NONE", "PENDING"}
  <2>1. CASE LinesOf(file, k) = {}
    BY <1>1, <2>1, LatestStatus
  <2>2. CASE LinesOf(file, k) # {}
    <3>1. PICK m \in LinesOf(file, k) : Latest(file, k) = Normal(file[m].status)
      BY <1>1, <2>2, LatestStatus
    <3>2. file[m].status = ""
      BY InitFile DEF LinesOf
    <3> QED BY <3>1, <3>2 DEF Normal
  <2> QED BY <2>1, <2>2
<1>3. FileStatus \in [Key -> {"NONE", "PENDING"}]
  BY <1>2 DEF FileStatus
<1> QED BY <1>1, <1>3 DEF Ledger!LedgerInit, FileStatus

(* A line written for k moves the ledger's status of k to s and nothing else. *)
LEMMA WriteLineStatus ==
    ASSUME LedgerInv, "partial" \notin Faults, NEW k \in Key, NEW s \in Recorded,
           LineWritten(k, s)
    PROVE  /\ FileStatus' = [FileStatus EXCEPT ![k] = s]
           /\ FileStatus[k] = Latest(file, k)
           /\ UNCHANGED written
<1>1. file \in Seq(Line) /\ AllLinesWhole(file)
  BY FileFacts DEF LedgerInv
<1>2. file' = Append(file, NewLine(k, s)) /\ UNCHANGED written
  BY DEF LineWritten, WriteLine
<1>3. Latest(file', k) = s /\ \A j \in Key : j # k => Latest(file', j) = Latest(file, j)
  BY <1>1, <1>2, LatestAppend
<1> QED BY <1>2, <1>3 DEF FileStatus

(* Append is Record, or nothing when its write fails or an earlier Append of  *)
(* the key failed after its line was written.                                 *)
LEMMA AppendRefines ==
    ASSUME LedgerInv, "partial" \notin Faults, NEW k \in Key, AppendRecord(k)
    PROVE  Ledger!Record(k) \/ UNCHANGED <<FileStatus, written>>
<1>0. CASE NothingWritten(k)
  BY <1>0 DEF NothingWritten, FileStatus
<1> SUFFICES ASSUME LineWritten(k, "PENDING") PROVE Ledger!Record(k) \/ UNCHANGED <<FileStatus, written>>
  BY <1>0, WriteLineCases DEF AppendRecord, LedgerInv, StoreInv, Recorded
<1>1. records[k] = "NONE" /\ LineWritten(k, "PENDING") /\ Running
  BY DEF AppendRecord, LineWritten, WriteLine, Running
<1>2. /\ FileStatus' = [FileStatus EXCEPT ![k] = "PENDING"]
      /\ FileStatus[k] = Latest(file, k) /\ UNCHANGED written
  BY <1>1, WriteLineStatus DEF Recorded
<1>3. file \in Seq(Line) /\ AllLinesWhole(file)
  BY FileFacts DEF LedgerInv
<1>4. Latest(file, k) \in {"NONE", "PENDING"}
  <2>1. CASE LinesOf(file, k) = {}
    BY <1>3, <2>1, LatestStatus
  <2>2. CASE LinesOf(file, k) # {}
    <3>1. PICK m \in LinesOf(file, k) : Latest(file, k) = Normal(file[m].status)
      BY <1>3, <2>2, LatestStatus
    <3>2. m \in DOMAIN file /\ file[m].key = k /\ file[m].form # "fragment"
      BY DEF LinesOf, Parses
    <3>3. file[m].status # "DISPATCHED" /\ file[m] \in Line
      BY <3>2, <1>1, <1>3 DEF LedgerInv, StoreInv, FreshKeysUndispatched
    <3> QED BY <3>1, <3>3 DEF Normal, Line, Recorded
  <2> QED BY <2>1, <2>2
<1>5. CASE Latest(file, k) = "NONE"
  BY <1>2, <1>5 DEF Ledger!Record, FileStatus
<1>6. CASE Latest(file, k) = "PENDING"
  <2>1. FileStatus' = FileStatus
    BY <1>2, <1>6 DEF FileStatus
  <2> QED BY <2>1, <1>2
<1> QED BY <1>4, <1>5, <1>6

(* MarkDispatched is Dispatch, or nothing when it was already done, an        *)
(* earlier one failed after its line was written, or its own write fails.     *)
LEMMA MarkDispatchedRefines ==
    ASSUME LedgerInv, "partial" \notin Faults, NEW k \in Key, MarkDispatched(k)
    PROVE  Ledger!Dispatch(k) \/ UNCHANGED <<FileStatus, written>>
<1>1. CASE MarkDispatchedAgain(k)
  BY <1>1 DEF MarkDispatchedAgain, storeVars, FileStatus
<1>2. CASE records[k] = "PENDING" /\ LineWritten(k, "DISPATCHED")
  <2>1. /\ FileStatus' = [FileStatus EXCEPT ![k] = "DISPATCHED"]
        /\ FileStatus[k] = Latest(file, k) /\ UNCHANGED written /\ Running
    BY <1>2, WriteLineStatus DEF Recorded, LineWritten, WriteLine, Running
  <2>2. Latest(file, k) \in {"PENDING", "DISPATCHED"}
    <3>1. file \in Seq(Line)
      BY FileFacts DEF LedgerInv
    <3>2. LinesOf(file, k) # {}
      BY <1>2, <2>1, OrderedHaveLines
    <3> QED BY <3>1, <3>2, LatestStatus DEF Status, Recorded
  <2>3. CASE Latest(file, k) = "PENDING"
    BY <2>1, <2>3 DEF Ledger!Dispatch, FileStatus
  <2>4. CASE Latest(file, k) = "DISPATCHED"
    <3>1. FileStatus' = FileStatus
      BY <2>1, <2>4 DEF FileStatus
    <3> QED BY <3>1, <2>1
  <2> QED BY <2>2, <2>3, <2>4
<1>3. CASE NothingWritten(k)
  BY <1>3 DEF NothingWritten, FileStatus
<1>4. CASE records[k] = "PENDING" /\ WriteLine(k, "DISPATCHED")
  BY <1>2, <1>3, <1>4, WriteLineCases DEF LedgerInv, StoreInv, Recorded
<1> QED BY <1>1, <1>4 DEF MarkDispatched

(* Returning nil for a line is Acknowledge: the move happened and is new.     *)
LEMMA PublishRefines ==
    ASSUME LedgerInv, "partial" \notin Faults, Publish
    PROVE  Ledger!Acknowledge(op.key) /\ op.key \in Key
<1>1. /\ op # Idle /\ op.key \in Key /\ op.status \in Recorded /\ proc = "up"
      /\ op.status = "PENDING" => records[op.key] = "NONE"
      /\ op.status = "DISPATCHED" => records[op.key] = "PENDING"
      /\ written \in [Key -> Status]
  BY OpShape DEF Publish, Idle, LedgerInv, StoreInv, TypeOK, CallInProgress
<1>2. Latest(file, op.key) = op.status
  BY <1>1, OpLatest DEF LedgerInv
<1>3. Rank(written[op.key]) <= Rank(records[op.key])
  BY <1>1 DEF LedgerInv, StoreInv, ServesAllWritten
<1>4. Rank(written[op.key]) < Rank(op.status)
  <2>1. written[op.key] \in {"NONE", "PENDING", "DISPATCHED"}
    BY <1>1 DEF Status, Recorded
  <2> QED BY <2>1, <1>1, <1>3, RankValues DEF Recorded
<1>5. written' = [written EXCEPT ![op.key] = op.status] /\ UNCHANGED file
  BY DEF Publish
<1>6. FileStatus' = FileStatus /\ FileStatus[op.key] = op.status
  BY <1>1, <1>2, <1>5 DEF FileStatus
<1> QED BY <1>1, <1>4, <1>5, <1>6, LedgerRank DEF Ledger!Acknowledge, FileStatus

(* A power loss is Forget: it takes back moves, but none whose call returned.  *)
LEMMA PowerLossRefines ==
    ASSUME LedgerInv, "partial" \notin Faults, PowerLoss
    PROVE  Ledger!Forget
<1>1. /\ file \in Seq(Line) /\ AllLinesWhole(file) /\ NoRegressionIn(file)
      /\ synced \in 0..Len(file) /\ Len(file) \in Nat /\ written \in [Key -> Status]
  BY FileFacts DEF LedgerInv, StoreInv, TypeOK
<1>2. PICK n \in synced..Len(file) : file' = SubSeq(file, 1, n)
  BY DEF PowerLoss
<1>3. n \in 0..Len(file) /\ 1..synced \subseteq 1..n
  BY <1>1
<1>4. UNCHANGED written
  BY DEF PowerLoss, LoseMemory
<1>5. ASSUME NEW k \in Key
      PROVE  /\ Latest(file', k) \in Status
             /\ Rank(Latest(file', k)) <= Rank(Latest(file, k))
             /\ Rank(written[k]) <= Rank(Latest(file', k))
  <2>1. /\ file' \in Seq(Line)
        /\ Rank(Latest(file', k)) <= Rank(Latest(file, k))
        /\ \A i \in 1..n : file[i].key = k => Rank(Normal(file[i].status)) <= Rank(Latest(file', k))
    BY <1>1, <1>2, <1>3, LatestPrefix
  <2>2. Latest(file', k) \in {"NONE", "PENDING", "DISPATCHED"}
    BY <2>1, LatestStatus DEF Status, Recorded
  <2>3. CASE written[k] = "NONE"
    BY <2>1, <2>2, <2>3, RankValues DEF Status, Recorded
  <2>4. CASE written[k] # "NONE"
    <3>1. PICK i \in 1..synced : file[i].key = k /\ Normal(file[i].status) = written[k]
      BY <2>4 DEF LedgerInv, StoreInv, WrittenSynced
    <3>2. i \in 1..n
      BY <1>3
    <3> QED BY <2>1, <2>2, <3>1, <3>2 DEF Status, Recorded
  <2> QED BY <2>3, <2>4
<1>6. /\ FileStatus' \in [Key -> {"NONE", "PENDING", "DISPATCHED"}]
      /\ \A k \in Key : /\ Rank(written[k]) <= Rank(FileStatus'[k])
                        /\ Rank(FileStatus'[k]) <= Rank(FileStatus[k])
  BY <1>5 DEF FileStatus, Status, Recorded
<1> QED BY <1>4, <1>6, LedgerRank DEF Ledger!Forget, Ledger!Statuses, FileStatus

(* Every step of the store is a step of the ledger or changes nothing in it.  *)
LEMMA NextRefines ==
    ASSUME "partial" \notin Faults
    PROVE  LedgerInv /\ [StoreNext]_storeVars => [Ledger!LedgerNext]_(Ledger!ledgerVars)
<1> SUFFICES ASSUME LedgerInv, [StoreNext]_storeVars
             PROVE  Ledger!LedgerNext \/ UNCHANGED <<FileStatus, written>>
  BY DEF Ledger!ledgerVars, FileStatus
<1>1. CASE UNCHANGED <<file, written>>
  BY <1>1 DEF FileStatus
<1>2. CASE \E k \in Key : AppendRecord(k)
  BY <1>2, AppendRefines DEF Ledger!LedgerNext
<1>3. CASE \E k \in Key : MarkDispatched(k)
  BY <1>3, MarkDispatchedRefines DEF Ledger!LedgerNext
<1>4. CASE Publish
  BY <1>4, PublishRefines DEF Ledger!LedgerNext
<1>5. CASE PowerLoss
  BY <1>5, PowerLossRefines DEF Ledger!LedgerNext
<1>6. NewStore \/ SyncLine \/ Close \/ Kill \/ UNCHANGED storeVars => UNCHANGED <<file, written>>
  BY DEF NewStore, SyncLine, Close, Kill, LoseMemory, storeVars
<1> QED BY <1>1, <1>2, <1>3, <1>4, <1>5, <1>6 DEF StoreNext, StoreFailure

(* The stronger invariant holds in every reachable state.                     *)
THEOREM LedgerInvariant ==
    ASSUME "partial" \notin Faults
    PROVE  StoreSpec => []LedgerInv
  BY InitLedgerInv, NextLedgerInv, PTL DEF StoreSpec

(* Memory equals a reload of the file, but for keys whose write or fsync      *)
(* failed in this process and for the call in progress.                       *)
THEOREM StoreMemoryMatchesFile ==
    ASSUME "partial" \notin Faults
    PROVE  StoreSpec => []MemoryMatchesFile
<1>1. LedgerInv => MemoryMatchesFile
  BY DEF LedgerInv, MemoryExact, InOp, MemoryMatchesFile, Running
<1> QED BY <1>1, LedgerInvariant, PTL

(* The order the bouncer drains in lists the recorded keys once each, and is  *)
(* the one a restart would give as long as no call failed.                    *)
THEOREM StoreDrainOrderStable ==
    ASSUME "partial" \notin Faults
    PROVE  StoreSpec => []DrainOrderStable
<1>1. LedgerInv => DrainOrderStable
  BY DEF LedgerInv
<1> QED BY <1>1, LedgerInvariant, PTL

(* The store implements the ledger: a receipt only moves forward, the call    *)
(* that moves it returns nil after the move is durable, and a failure takes   *)
(* back only moves whose call had not returned nil.                           *)
THEOREM StoreImplementsLedger ==
    ASSUME "partial" \notin Faults
    PROVE  StoreSpec => ImplementsLedger
<1>1. StoreInit => Ledger!LedgerInit
  BY InitRefines
<1>2. LedgerInv /\ [StoreNext]_storeVars => [Ledger!LedgerNext]_(Ledger!ledgerVars)
  BY NextRefines
<1>3. StoreSpec => []LedgerInv
  BY LedgerInvariant
<1> QED BY <1>1, <1>2, <1>3, PTL DEF StoreSpec, ImplementsLedger, Ledger!LedgerSpec
=============================================================================
