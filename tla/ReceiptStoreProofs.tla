------------------------- MODULE ReceiptStoreProofs -------------------------
(***************************************************************************)
(* The safety of ReceiptStore for every set of keys, every set of failures   *)
(* and every bound on the file.                                              *)
(***************************************************************************)
EXTENDS ReceiptStore, TLAPS, WellFoundedInduction, FiniteSetTheorems

Running == proc \in {"up", "closed"}

(* Memory never lags so far behind that a dispatched receipt looks new: a key *)
(* that is not in records has no DISPATCHED line, so Append may write PENDING. *)
FreshKeysUndispatched ==
    Running => \A k \in Key : records[k] = "NONE" =>
        \A i \in DOMAIN file :
            file[i].key = k /\ file[i].form # "fragment" => file[i].status # "DISPATCHED"

(* The call inside the store wrote the last line, one step ahead of memory.  *)
CallInProgress ==
    op # Idle =>
        /\ proc = "up"
        /\ file # <<>> /\ file[Len(file)] = NewLine(op.key, op.status)
        /\ op.pc = "publish" => synced = Len(file)
        /\ op.status = "PENDING" => records[op.key] = "NONE"
        /\ op.status = "DISPATCHED" => records[op.key] = "PENDING"

(* What a call wrote and returned nil for is whole and on stable storage.    *)
WrittenSynced ==
    \A k \in Key : written[k] # "NONE" =>
        \E i \in 1..synced : /\ file[i].key = k /\ file[i].form = "whole"
                             /\ Normal(file[i].status) = written[k]

(* Without partial writes every line is whole.                               *)
AllWhole == "partial" \notin Faults => \A i \in DOMAIN file : file[i].form = "whole"

StoreInv ==
    /\ TypeOK
    /\ NoRegression
    /\ FreshKeysUndispatched
    /\ CallInProgress
    /\ WrittenSynced
    /\ ServesAllWritten
    /\ AllWhole

------------------------------------------------------------------------------
(* A nonempty set of naturals has a least element.                            *)
LEMMA MinExists ==
    ASSUME NEW S \in SUBSET Nat, S # {}
    PROVE  \E x \in S : \A y \in S : x <= y
<1> DEFINE R == {ss \in Nat \X Nat : ss[1] < ss[2]}
<1>1. IsWellFoundedOn(R, Nat)
  BY NatLessThanWellFounded DEF OpToRel
<1>2. PICK x \in S : \A y \in S : ~(<<y, x>> \in R)
  <2> HIDE DEF R
  <2> QED BY <1>1, WFMin
<1>3. \A y \in S : ~(y < x)
  BY <1>2
<1> QED BY <1>3

(* g is defined by recursion on 0..n.                                         *)
Recurses(g, n, S, base, next) ==
    g \in [0..n -> S] /\ g[0] = base /\ \A i \in 1..n : g[i] = next[i][g[i - 1]]

(* Such a function exists.                                                    *)
LEMMA RecursionExists ==
    ASSUME NEW n \in Nat, NEW S, NEW base \in S, NEW next \in [1..n -> [S -> S]]
    PROVE  \E g : Recurses(g, n, S, base, next)
<1> DEFINE Bad == {m \in 0..n : ~\E g : Recurses(g, m, S, base, next)}
<1>1. ASSUME Bad # {} PROVE FALSE
  <2>1. PICK m \in Bad : \A y \in Bad : m <= y
    <3>1. Bad \in SUBSET Nat
      OBVIOUS
    <3> HIDE DEF Bad
    <3> QED BY <1>1, <3>1, MinExists
  <2>2. m # 0
    <3>1. Recurses([i \in 0..0 |-> base], 0, S, base, next)
      BY DEF Recurses
    <3> QED BY <3>1
  <2>3. m \in 1..n /\ m - 1 \in 0..n /\ m - 1 \notin Bad
    <3>1. m \in 0..n
      OBVIOUS
    <3> HIDE DEF Bad
    <3> QED BY <2>1, <2>2, <3>1
  <2>4. PICK g : Recurses(g, m - 1, S, base, next)
    BY <2>3
  <2> USE DEF Recurses
  <2> DEFINE h == [i \in 0..m |-> IF i = m THEN next[m][g[m - 1]] ELSE g[i]]
  <2>5. g[m - 1] \in S /\ next[m][g[m - 1]] \in S
    <3>1. m - 1 \in 0..(m - 1)
      BY <2>3
    <3>2. g[m - 1] \in S
      BY <3>1, <2>4
    <3>3. next[m] \in [S -> S]
      BY <2>3
    <3> QED BY <3>2, <3>3
  <2>6. h \in [0..m -> S]
    <3> SUFFICES ASSUME NEW i \in 0..m PROVE h[i] \in S
      OBVIOUS
    <3>1. i # m => i \in 0..(m - 1)
      BY <2>3
    <3> QED BY <3>1, <2>4, <2>5
  <2>7. h[0] = base
    BY <2>3, <2>4
  <2>8. ASSUME NEW i \in 1..m PROVE h[i] = next[i][h[i - 1]]
    <3>1. i - 1 \in 0..m /\ i - 1 # m /\ h[i - 1] = g[i - 1]
      BY <2>3
    <3>2. CASE i = m
      BY <3>1, <3>2
    <3>3. CASE i # m
      <4>1. i \in 1..(m - 1) /\ h[i] = g[i]
        BY <3>3, <2>3
      <4>2. g[i] = next[i][g[i - 1]]
        BY <4>1, <2>4
      <4> QED BY <3>1, <4>1, <4>2
    <3> QED BY <3>2, <3>3
  <2>9. Recurses(h, m, S, base, next)
    BY <2>6, <2>7, <2>8
  <2> HIDE DEF Recurses, h
  <2> QED BY <2>1, <2>9
<1>2. n \in 0..n
  OBVIOUS
<1> QED BY <1>1, <1>2

(* A nonempty set of positions of a file has a last one, and Max finds it.    *)
LEMMA MaxPosition ==
    ASSUME NEW n \in Nat, NEW S \in SUBSET (1..n), S # {}
    PROVE  Max(S) \in S /\ \A y \in S : Max(S) >= y
<1> DEFINE D == {n - x : x \in S}
<1>1. D \in SUBSET Nat /\ D # {}
  <2>1. \A x \in S : x \in Nat /\ x <= n
    OBVIOUS
  <2>2. \A d \in D : d \in Nat
    BY <2>1
  <2>3. PICK x \in S : TRUE
    OBVIOUS
  <2>4. n - x \in D
    OBVIOUS
  <2> QED BY <2>2, <2>4
<1>2. PICK d \in D : \A y \in D : d <= y
  BY <1>1, MinExists
<1>3. PICK x \in S : d = n - x
  OBVIOUS
<1>4. \A y \in S : x >= y
  <2>1. TAKE y \in S
  <2>2. n - x <= n - y
    BY <1>2, <1>3
  <2> QED BY <2>2
<1>5. \E m \in S : \A y \in S : m >= y
  BY <1>4
<1> QED BY <1>5 DEF Max

(* What a reload puts into memory for a key, in terms of the lines of the     *)
(* file: NONE exactly when no line of the key parses, and DISPATCHED as soon  *)
(* as one does in a file without regressions.                                 *)
LEMMA LatestStatus ==
    ASSUME NEW f \in Seq(Line), NEW k \in Key
    PROVE  /\ Latest(f, k) \in Status
           /\ Latest(f, k) = "NONE" <=> LinesOf(f, k) = {}
           /\ LinesOf(f, k) # {} =>
                 \E m \in LinesOf(f, k) : /\ \A i \in LinesOf(f, k) : i <= m
                                          /\ Latest(f, k) = Normal(f[m].status)
<1>1. LinesOf(f, k) \in SUBSET (1..Len(f)) /\ Len(f) \in Nat
  BY DEF LinesOf
<1>2. \A m \in LinesOf(f, k) : Normal(f[m].status) \in Recorded
  <2>1. TAKE m \in LinesOf(f, k)
  <2>2. f[m] \in Line
    BY DEF LinesOf
  <2> QED BY <2>2 DEF Line, Normal, Recorded
<1>3. CASE LinesOf(f, k) = {}
  BY <1>3 DEF Latest, Status
<1>4. CASE LinesOf(f, k) # {}
  <2>1. /\ Max(LinesOf(f, k)) \in LinesOf(f, k)
        /\ \A y \in LinesOf(f, k) : Max(LinesOf(f, k)) >= y
    BY <1>1, <1>4, MaxPosition
  <2>2. Latest(f, k) = Normal(f[Max(LinesOf(f, k))].status)
    BY <1>4 DEF Latest
  <2>3. \A y \in LinesOf(f, k) : y <= Max(LinesOf(f, k))
    BY <2>1, <1>1
  <2> QED BY <2>1, <2>2, <2>3, <1>2, <1>4 DEF Status, Recorded
<1> QED BY <1>3, <1>4

------------------------------------------------------------------------------
(* How the two ways a file changes, a line more or a suffix less, look line   *)
(* by line.                                                                   *)
LEMMA FileAppend ==
    ASSUME NEW f \in Seq(Line), NEW l \in Line
    PROVE  /\ Append(f, l) \in Seq(Line)
           /\ Len(Append(f, l)) = Len(f) + 1
           /\ DOMAIN Append(f, l) = 1..(Len(f) + 1)
           /\ DOMAIN f = 1..Len(f) /\ Len(f) \in Nat
           /\ \A i \in 1..Len(f) : Append(f, l)[i] = f[i]
           /\ Append(f, l)[Len(f) + 1] = l
           /\ Append(f, l) # <<>>
  OBVIOUS

(* What a shorter file has, the longer one has.                               *)
LEMMA FilePrefix ==
    ASSUME NEW f \in Seq(Line), NEW n \in 0..Len(f)
    PROVE  /\ SubSeq(f, 1, n) \in Seq(Line)
           /\ Len(SubSeq(f, 1, n)) = n
           /\ DOMAIN SubSeq(f, 1, n) = 1..n
           /\ \A i \in 1..n : SubSeq(f, 1, n)[i] = f[i]
  OBVIOUS

(* NONE comes before PENDING, and PENDING before DISPATCHED.                  *)
LEMMA RankValues ==
    Rank("NONE") = 0 /\ Rank("PENDING") = 1 /\ Rank("DISPATCHED") = 2
  BY DEF Rank

(* The call in progress, with its line written.                               *)
LEMMA OpShape ==
    ASSUME TypeOK
    PROVE  /\ op = Idle <=> op.pc = "idle"
           /\ op # Idle => /\ op.key \in Key /\ op.status \in Recorded
                           /\ op.pc \in {"sync", "publish"}
  BY DEF TypeOK, Idle

(* file.Write failed and left nothing: the file is as it was.                  *)
NothingWritten(k) ==
    /\ failed' = failed \cup {k}
    /\ UNCHANGED <<proc, file, synced, records, order, op, written>>

(* It left the line, or a part of it.                                          *)
LineWritten(k, s) == WriteLine(k, s) /\ file' # file

(* A write leaves something or nothing.                                        *)
LEMMA WriteLineCases ==
    ASSUME TypeOK, NEW k \in Key, NEW s \in Recorded, WriteLine(k, s)
    PROVE  proc = "up" /\ op = Idle /\ (NothingWritten(k) \/ LineWritten(k, s))
<1>1. file \in Seq(Line) /\ NewLine(k, s) \in Line
  BY DEF TypeOK, NewLine, Line, Recorded
<1>2. \A cut \in {"unterminated", "fragment"} : [NewLine(k, s) EXCEPT !.form = cut] \in Line
  BY DEF NewLine, Line, Recorded
<1>3. \A l \in Line : Append(file, l) # file
  <2> SUFFICES ASSUME NEW l \in Line, Append(file, l) = file PROVE FALSE
    OBVIOUS
  <2>1. Len(Append(file, l)) = Len(file) + 1 /\ Len(file) \in Nat
    BY <1>1, FileAppend
  <2> QED BY <2>1
<1> QED BY <1>1, <1>2, <1>3 DEF WriteLine, NothingWritten, LineWritten

(* What a write leaves behind is one more line of the key and status written.  *)
LEMMA WriteLineAppends ==
    ASSUME TypeOK, NEW k \in Key, NEW s \in Recorded, LineWritten(k, s)
    PROVE  /\ \E l \in Line : file' = Append(file, l) /\ l.key = k /\ l.status = s
           /\ op = Idle /\ proc = "up" /\ UNCHANGED <<proc, synced, records, order, written>>
           /\ \/ op' = [key |-> k, status |-> s, pc |-> "sync"] /\ failed' = failed
              \/ op' = Idle /\ failed' = failed \cup {k}
<1>1. NewLine(k, s) \in Line /\ NewLine(k, s).key = k /\ NewLine(k, s).status = s
  BY DEF NewLine, Line, Recorded
<1>2. \A cut \in {"unterminated", "fragment"} :
         /\ [NewLine(k, s) EXCEPT !.form = cut] \in Line
         /\ [NewLine(k, s) EXCEPT !.form = cut].key = k
         /\ [NewLine(k, s) EXCEPT !.form = cut].status = s
  BY DEF NewLine, Line, Recorded
<1> QED BY <1>1, <1>2 DEF LineWritten, WriteLine

(* A failure leaves a first part of the file, with keys and statuses intact.  *)
LEMMA FailureCuts ==
    ASSUME TypeOK, StoreFailure
    PROVE  /\ file' \in Seq(Line) /\ Len(file') <= Len(file)
           /\ \A i \in DOMAIN file' : /\ i \in DOMAIN file
                                      /\ file'[i].key = file[i].key /\ file'[i].status = file[i].status
<1>1. file \in Seq(Line) /\ Len(file) \in Nat
  BY DEF TypeOK
<1>2. CASE Kill
  BY <1>1, <1>2 DEF Kill
<1>3. CASE PowerLoss
  <2>1. PICK n \in synced..Len(file) :
          \/ file' = SubSeq(file, 1, n)
          \/ /\ n < Len(file)
             /\ \E cut \in {"unterminated", "fragment"} :
                   file' = Append(SubSeq(file, 1, n), [file[n + 1] EXCEPT !.form = cut])
    BY <1>3 DEF PowerLoss
  <2>2. n \in 0..Len(file) /\ DOMAIN file = 1..Len(file) /\ Len(file) \in Nat
    BY <1>1 DEF TypeOK
  <2>3. CASE file' = SubSeq(file, 1, n)
    BY <1>1, <2>2, <2>3, FilePrefix
  <2>4. CASE /\ n < Len(file)
             /\ \E cut \in {"unterminated", "fragment"} :
                   file' = Append(SubSeq(file, 1, n), [file[n + 1] EXCEPT !.form = cut])
    <3>1. PICK cut \in {"unterminated", "fragment"} :
              file' = Append(SubSeq(file, 1, n), [file[n + 1] EXCEPT !.form = cut])
      BY <2>4
    <3> DEFINE l == [file[n + 1] EXCEPT !.form = cut]
               p == SubSeq(file, 1, n)
    <3>2. n + 1 \in DOMAIN file /\ file[n + 1] \in Line
      BY <1>1, <2>2, <2>4
    <3>3. l \in Line /\ l.key = file[n + 1].key /\ l.status = file[n + 1].status
      BY <3>2 DEF Line
    <3>4. p \in Seq(Line) /\ Len(p) = n /\ \A i \in 1..n : p[i] = file[i]
      BY <1>1, <2>2, FilePrefix
    <3> HIDE DEF l, p
    <3>5. /\ file' = Append(p, l) /\ DOMAIN file' = 1..(n + 1) /\ Len(file') = n + 1
          /\ file' \in Seq(Line)
          /\ \A i \in 1..n : file'[i] = p[i]
          /\ file'[n + 1] = l
      BY <3>1, <3>3, <3>4, FileAppend DEF l, p
    <3>6. Len(file') <= Len(file)
      BY <2>2, <2>4, <3>5
    <3> SUFFICES ASSUME NEW i \in 1..(n + 1)
                 PROVE  i \in DOMAIN file /\ file'[i].key = file[i].key
                        /\ file'[i].status = file[i].status
      BY <3>5, <3>6
    <3>7. i \in 1..n \/ i = n + 1
      BY <2>2
    <3>8. i \in DOMAIN file
      BY <2>2, <2>4
    <3> QED BY <3>3, <3>4, <3>5, <3>7, <3>8
  <2> QED BY <2>1, <2>3, <2>4
<1> QED BY <1>2, <1>3 DEF StoreFailure

(* The gateway's first boot.                                                  *)
LEMMA InitStoreInv == StoreInit => StoreInv
<1> SUFFICES ASSUME StoreInit PROVE StoreInv
  OBVIOUS
<1>0. /\ proc = "down" /\ synced = Len(file) /\ records = NoRecords /\ order = <<>>
      /\ op = Idle /\ failed = {} /\ written = NoRecords
  BY Zenon DEF StoreInit
<1>1. PICK old \in SUBSET Key :
           file \in {[i \in DOMAIN t |-> NewLine(t[i], "")] : t \in SetToSeqs(old)}
  BY DEF StoreInit
<1>t. PICK t \in SetToSeqs(old) : file = [i \in DOMAIN t |-> NewLine(t[i], "")]
  BY <1>1
<1>2. t \in [1..Cardinality(old) -> old] /\ Cardinality(old) \in Nat
  BY KeyAssumption, FS_Subset, FS_CardinalityType DEF SetToSeqs
<1>3. \A i \in DOMAIN t : NewLine(t[i], "") \in Line /\ NewLine(t[i], "").form = "whole"
                          /\ NewLine(t[i], "").status = ""
  BY <1>2 DEF NewLine, Line
<1>4. /\ file \in Seq(Line) /\ DOMAIN file = DOMAIN t
      /\ \A i \in DOMAIN file : file[i].form = "whole" /\ file[i].status = ""
  <2>1. DOMAIN file = 1..Cardinality(old) /\ DOMAIN file = DOMAIN t
    BY <1>t, <1>2
  <2>2. \A i \in DOMAIN file : file[i] = NewLine(t[i], "")
    BY <1>t
  <2>3. file \in [1..Cardinality(old) -> Line]
    BY <1>t, <1>2, <1>3
  <2>4. file \in Seq(Line)
    BY <2>3, <1>2
  <2> QED BY <2>1, <2>2, <2>4, <1>3
<1>5. TypeOK
  <2>0. file \in Seq(Line)
    BY <1>4
  <2>1. Len(file) \in Nat
    BY <2>0
  <2>2. synced \in 0..Len(file)
    BY <2>1, <1>0
  <2>3. order \in Seq(Key) /\ failed \in SUBSET Key
    BY <1>0
  <2>4. NoRecords \in [Key -> Status]
    BY DEF NoRecords, Status
  <2> QED BY <1>0, <2>0, <2>2, <2>3, <2>4 DEF TypeOK
<1>6. NoRegression /\ AllWhole
  BY <1>4 DEF NoRegression, AllWhole
<1>7. FreshKeysUndispatched /\ CallInProgress /\ ServesAllWritten
  BY <1>0 DEF FreshKeysUndispatched, CallInProgress, ServesAllWritten, Running
<1>8. WrittenSynced
  BY <1>0 DEF WrittenSynced, NoRecords
<1> QED BY <1>5, <1>6, <1>7, <1>8 DEF StoreInv

------------------------------------------------------------------------------
(* A boot: memory becomes what the file says.  NoRegression is what makes     *)
(* "latest line wins" agree with what was returned for before the crash.      *)
LEMMA NewStorePreserves == StoreInv /\ NewStore => StoreInv'
<1> SUFFICES ASSUME StoreInv, NewStore PROVE StoreInv'
  OBVIOUS
<1> USE DEF StoreInv
<1>0. /\ UNCHANGED <<file, synced, op, failed, written>>
      /\ file \in Seq(Line) /\ op = Idle
  BY DEF NewStore, CallInProgress, TypeOK
<1>1. CASE ~Loadable(file)
  BY <1>0, <1>1 DEF NewStore, TypeOK, NoRegression, FreshKeysUndispatched, CallInProgress,
     WrittenSynced, ServesAllWritten, AllWhole, Running
<1>2. CASE Loadable(file)
  <2>1. /\ proc' = "up"
        /\ records' = [k \in Key |-> Latest(file, k)]
        /\ order' \in SetToSeqs(KeysIn(file))
    BY <1>2 DEF NewStore
  <2>2. order' \in Seq(Key)
    <3>1. KeysIn(file) \subseteq Key
      BY DEF KeysIn
    <3>2. Cardinality(KeysIn(file)) \in Nat
      BY <3>1, KeyAssumption, FS_Subset, FS_CardinalityType
    <3>3. order' \in [1..Cardinality(KeysIn(file)) -> KeysIn(file)]
      BY <2>1 DEF SetToSeqs
    <3> QED BY <3>1, <3>2, <3>3
  <2>3. records' \in [Key -> Status]
    BY <2>1, <1>0, LatestStatus
  <2>4. TypeOK'
    BY <2>1, <2>2, <2>3, <1>0 DEF TypeOK
  <2>5. \A k \in Key : \A i \in DOMAIN file : file[i].key = k => i \in LinesOf(file, k)
    BY <1>2 DEF Loadable, LinesOf
  <2>6. FreshKeysUndispatched'
    BY <2>1, <2>5, <1>0, LatestStatus DEF FreshKeysUndispatched
  <2>7. ServesAllWritten'
    <3>1. SUFFICES ASSUME NEW k \in Key PROVE Rank(written[k]) <= Rank(Latest(file, k))
      BY <2>1, <1>0 DEF ServesAllWritten
    <3>2. written[k] \in Status /\ Latest(file, k) \in Status
      BY <1>0, LatestStatus DEF TypeOK
    <3>3. CASE written[k] = "NONE"
      BY <3>2, <3>3, RankValues DEF Status, Recorded
    <3>4. CASE written[k] # "NONE"
      <4>1. PICK i \in 1..synced : /\ file[i].key = k /\ file[i].form = "whole"
                                   /\ Normal(file[i].status) = written[k]
        BY <3>4 DEF WrittenSynced
      <4>2. i \in DOMAIN file
        BY <1>0 DEF TypeOK
      <4>3. i \in LinesOf(file, k)
        BY <4>1, <4>2, <2>5
      <4>4. PICK m \in LinesOf(file, k) : /\ i <= m
                                          /\ Latest(file, k) = Normal(file[m].status)
        BY <4>3, <1>0, LatestStatus
      <4>5. m \in DOMAIN file /\ file[m].key = k /\ file[m].form # "fragment"
        BY DEF LinesOf, Parses
      <4>6. file[m] \in Line /\ file[i] \in Line
        BY <4>2, <4>5, <1>0
      <4>7. file[i].status = "DISPATCHED" => file[m].status = "DISPATCHED"
        BY <4>1, <4>2, <4>4, <4>5, <1>0 DEF NoRegression
      <4>8. written[k] \in {"PENDING", "DISPATCHED"}
        BY <3>2, <3>4 DEF Status, Recorded
      <4>9. Latest(file, k) \in {"PENDING", "DISPATCHED"}
        BY <4>4, <4>6 DEF Normal, Line, Recorded
      <4>10. written[k] = "DISPATCHED" => Latest(file, k) = "DISPATCHED"
        BY <4>1, <4>4, <4>7 DEF Normal
      <4> QED BY <4>8, <4>9, <4>10, RankValues
    <3> QED BY <3>3, <3>4
  <2> QED BY <2>1, <2>4, <2>6, <2>7, <1>0 DEF NoRegression, CallInProgress, WrittenSynced,
             AllWhole, Idle
<1> QED BY <1>1, <1>2

(* A write, whole or short, of the line a legal call asked for.               *)
LEMMA LineWrittenPreserves ==
    ASSUME StoreInv, NEW k \in Key, NEW s \in Recorded, LineWritten(k, s),
           s = "PENDING" => records[k] = "NONE",
           s = "DISPATCHED" => records[k] = "PENDING"
    PROVE  StoreInv'
<1> USE DEF StoreInv
<1>0. /\ proc = "up" /\ op = Idle /\ file \in Seq(Line)
      /\ UNCHANGED <<proc, synced, records, order, written>>
  BY DEF LineWritten, WriteLine, TypeOK
<1>1. PICK l \in Line : /\ file' = Append(file, l)
                        /\ l.key = k /\ l.status = s
                        /\ l = NewLine(k, s) \/ ("partial" \in Faults /\ op' = Idle)
                        /\ op' = Idle \/ (op' = [key |-> k, status |-> s, pc |-> "sync"]
                                          /\ l = NewLine(k, s))
                        /\ failed' \in SUBSET Key
  <2>1. NewLine(k, s) \in Line
    BY DEF NewLine, Line
  <2>2. \A cut \in {"unterminated", "fragment"} :
           /\ [NewLine(k, s) EXCEPT !.form = cut] \in Line
           /\ [NewLine(k, s) EXCEPT !.form = cut].key = k
           /\ [NewLine(k, s) EXCEPT !.form = cut].status = s
    BY DEF NewLine, Line
  <2>3. NewLine(k, s).key = k /\ NewLine(k, s).status = s
    BY DEF NewLine
  <2>4. failed \in SUBSET Key
    BY DEF TypeOK
  <2>5. CASE /\ file' = Append(file, NewLine(k, s))
             /\ op' = [key |-> k, status |-> s, pc |-> "sync"]
             /\ UNCHANGED failed
    BY <2>1, <2>3, <2>4, <2>5
  <2>6. CASE /\ "partial" \in Faults
             /\ \E cut \in {"unterminated", "fragment"} :
                   file' = Append(file, [NewLine(k, s) EXCEPT !.form = cut])
             /\ failed' = failed \cup {k}
             /\ UNCHANGED op
    BY <2>2, <2>4, <2>6, <1>0
  <2> QED BY <2>5, <2>6 DEF LineWritten, WriteLine
<1>2. /\ file' \in Seq(Line)
      /\ Len(file') = Len(file) + 1
      /\ DOMAIN file' = 1..(Len(file) + 1)
      /\ DOMAIN file = 1..Len(file) /\ Len(file) \in Nat
      /\ \A i \in 1..Len(file) : file'[i] = file[i]
      /\ file'[Len(file) + 1] = l
      /\ file' # <<>>
  BY <1>0, <1>1, FileAppend
<1>3. TypeOK'
  <2>1. op' \in {Idle} \cup [key : Key, status : Recorded, pc : {"sync", "publish"}]
    BY <1>1
  <2>2. synced' \in 0..Len(file')
    BY <1>0, <1>2 DEF TypeOK
  <2> QED BY <1>0, <1>1, <1>2, <2>1, <2>2 DEF TypeOK
<1>4. NoRegression'
  <2>1. SUFFICES ASSUME NEW i \in DOMAIN file', NEW j \in DOMAIN file',
                        i < j, file'[i].key = file'[j].key,
                        file'[i].form # "fragment", file'[j].form # "fragment",
                        file'[i].status = "DISPATCHED"
                 PROVE  file'[j].status = "DISPATCHED"
    BY DEF NoRegression
  <2>2. i \in 1..Len(file) /\ file'[i] = file[i]
    BY <2>1, <1>2
  <2>3. CASE j \in 1..Len(file)
    BY <2>1, <2>2, <2>3, <1>2 DEF NoRegression
  <2>4. CASE j = Len(file) + 1
    <3>1. file[i].key = k
      BY <2>1, <2>2, <2>4, <1>1, <1>2
    <3>2. records[k] # "NONE"
      BY <3>1, <2>1, <2>2, <1>0, <1>2 DEF FreshKeysUndispatched, Running
    <3> QED BY <3>2, <2>4, <1>1, <1>2 DEF Recorded
  <2> QED BY <2>3, <2>4, <1>2
<1>5. FreshKeysUndispatched'
  BY <1>0, <1>1, <1>2 DEF FreshKeysUndispatched, Running, Recorded
<1>6. CallInProgress'
  <2>1. CASE op' = Idle
    BY <2>1 DEF CallInProgress
  <2>2. CASE op' = [key |-> k, status |-> s, pc |-> "sync"] /\ l = NewLine(k, s)
    BY <2>2, <1>0, <1>2 DEF CallInProgress
  <2> QED BY <2>1, <2>2, <1>1
<1>7. WrittenSynced'
  <2>1. \A i \in 1..synced : file'[i] = file[i]
    BY <1>2 DEF TypeOK
  <2> QED BY <1>0, <2>1 DEF WrittenSynced
<1>8. ServesAllWritten'
  BY <1>0 DEF ServesAllWritten
<1>9. AllWhole'
  BY <1>1, <1>2 DEF AllWhole, NewLine
<1> QED BY <1>3, <1>4, <1>5, <1>6, <1>7, <1>8, <1>9

(* A write that failed with nothing written changes nothing but failed.       *)
LEMMA NothingWrittenPreserves ==
    ASSUME StoreInv, NEW k \in Key, NothingWritten(k) PROVE StoreInv'
<1>1. failed' \in SUBSET Key
  BY DEF NothingWritten, StoreInv, TypeOK
<1> QED BY <1>1 DEF NothingWritten, StoreInv, TypeOK, NoRegression, FreshKeysUndispatched,
     CallInProgress, WrittenSynced, ServesAllWritten, AllWhole, Running

(* A write the way a legal call asks for it, done or failed.                  *)
LEMMA WriteLinePreserves ==
    ASSUME StoreInv, NEW k \in Key, NEW s \in Recorded, WriteLine(k, s),
           s = "PENDING" => records[k] = "NONE",
           s = "DISPATCHED" => records[k] = "PENDING"
    PROVE  StoreInv'
<1>1. NothingWritten(k) \/ LineWritten(k, s)
  BY WriteLineCases DEF StoreInv
<1> QED BY <1>1, NothingWrittenPreserves, LineWrittenPreserves

(* Append writes PENDING only for a key that memory does not have.            *)
LEMMA AppendRecordPreserves ==
    ASSUME StoreInv, NEW k \in Key, AppendRecord(k) PROVE StoreInv'
  BY WriteLinePreserves DEF AppendRecord, Recorded

(* MarkDispatched writes DISPATCHED only after PENDING.                       *)
LEMMA MarkDispatchedPreserves ==
    ASSUME StoreInv, NEW k \in Key, MarkDispatched(k) PROVE StoreInv'
<1>1. CASE records[k] = "PENDING" /\ WriteLine(k, "DISPATCHED")
  BY <1>1, WriteLinePreserves DEF Recorded
<1>2. CASE MarkDispatchedAgain(k)
  BY <1>2 DEF MarkDispatchedAgain, storeVars, StoreInv, TypeOK, NoRegression,
     FreshKeysUndispatched, CallInProgress, WrittenSynced, ServesAllWritten, AllWhole, Running
<1> QED BY <1>1, <1>2 DEF MarkDispatched

(* The fsync makes the line of the call in progress durable.                  *)
LEMMA SyncLinePreserves == StoreInv /\ SyncLine => StoreInv'
<1> SUFFICES ASSUME StoreInv, SyncLine PROVE StoreInv'
  OBVIOUS
<1> USE DEF StoreInv
<1>0. /\ op # Idle /\ op.key \in Key /\ op.status \in Recorded /\ op.pc = "sync"
      /\ UNCHANGED <<proc, file, records, order, written>>
      /\ file \in Seq(Line) /\ Len(file) \in Nat
  BY OpShape DEF SyncLine, Idle, TypeOK
<1>1. \/ /\ op' = [key |-> op.key, status |-> op.status, pc |-> "publish"]
         /\ synced' = Len(file) /\ UNCHANGED failed
      \/ op' = Idle /\ synced' = synced /\ failed' = failed \cup {op.key}
  BY <1>0 DEF SyncLine, TypeOK
<1>2. synced <= synced' /\ synced' \in 0..Len(file)
  BY <1>0, <1>1 DEF TypeOK
<1>3. TypeOK'
  <2>1. op' \in {Idle} \cup [key : Key, status : Recorded, pc : {"sync", "publish"}]
    BY <1>0, <1>1
  <2>2. failed' \in SUBSET Key
    BY <1>0, <1>1 DEF TypeOK
  <2> QED BY <1>0, <1>2, <2>1, <2>2 DEF TypeOK
<1>4. WrittenSynced'
  <2>1. 1..synced \subseteq 1..synced'
    BY <1>2 DEF TypeOK
  <2> QED BY <1>0, <2>1 DEF WrittenSynced
<1>5. CallInProgress'
  BY <1>0, <1>1 DEF CallInProgress, NewLine
<1> QED BY <1>0, <1>3, <1>4, <1>5 DEF NoRegression, FreshKeysUndispatched, ServesAllWritten,
           AllWhole, Running

(* The return of a call: its line, the last one, is synced by now.             *)
LEMMA PublishPreserves == StoreInv /\ Publish => StoreInv'
<1> SUFFICES ASSUME StoreInv, Publish PROVE StoreInv'
  OBVIOUS
<1> USE DEF StoreInv
<1>0. /\ op # Idle /\ op.key \in Key /\ op.status \in Recorded /\ op.pc = "publish"
      /\ op' = Idle /\ UNCHANGED <<proc, file, synced, failed>>
      /\ file \in Seq(Line) /\ Len(file) \in Nat /\ file # <<>>
      /\ proc = "up" /\ synced = Len(file)
      /\ file[Len(file)] = NewLine(op.key, op.status)
  BY OpShape DEF Publish, Idle, TypeOK, CallInProgress
<1>1. /\ records' = [records EXCEPT ![op.key] = op.status]
      /\ written' = [written EXCEPT ![op.key] = op.status]
      /\ order' = IF records[op.key] = "NONE" THEN Append(order, op.key) ELSE order
  BY DEF Publish
<1>2. records \in [Key -> Status] /\ written \in [Key -> Status] /\ order \in Seq(Key)
  BY DEF TypeOK
<1>3. TypeOK'
  <2>1. records' \in [Key -> Status] /\ written' \in [Key -> Status]
    BY <1>0, <1>1, <1>2 DEF Status
  <2>2. order' \in Seq(Key)
    BY <1>0, <1>1, <1>2
  <2> QED BY <1>0, <2>1, <2>2 DEF TypeOK
<1>4. FreshKeysUndispatched'
  <2>1. \A k \in Key : records'[k] = "NONE" => records[k] = "NONE"
    BY <1>0, <1>1, <1>2 DEF Recorded
  <2> QED BY <1>0, <2>1 DEF FreshKeysUndispatched, Running
<1>5. WrittenSynced'
  <2>1. SUFFICES ASSUME NEW k \in Key, written'[k] # "NONE"
                 PROVE  \E i \in 1..synced : /\ file[i].key = k /\ file[i].form = "whole"
                                             /\ Normal(file[i].status) = written'[k]
    BY <1>0 DEF WrittenSynced
  <2>2. CASE k = op.key
    <3>1. Len(file) \in 1..synced
      BY <1>0
    <3>2. written'[k] = op.status
      BY <1>1, <1>2, <2>2, <1>0
    <3>3. /\ file[Len(file)].key = k /\ file[Len(file)].form = "whole"
          /\ file[Len(file)].status = op.status
      BY <1>0, <2>2 DEF NewLine
    <3>4. Normal(op.status) = op.status
      BY <1>0 DEF Normal, Recorded
    <3> QED BY <3>1, <3>2, <3>3, <3>4
  <2>3. CASE k # op.key
    BY <2>1, <2>3, <1>1, <1>2 DEF WrittenSynced
  <2> QED BY <2>2, <2>3
<1>6. ServesAllWritten'
  <2>1. SUFFICES ASSUME NEW k \in Key PROVE Rank(written'[k]) <= Rank(records'[k])
    BY <1>0 DEF ServesAllWritten
  <2>2. CASE k = op.key
    <3>1. written'[k] = op.status /\ records'[k] = op.status
      BY <1>0, <1>1, <1>2, <2>2
    <3> QED BY <3>1, <1>0, RankValues DEF Recorded
  <2>3. CASE k # op.key
    BY <2>3, <1>0, <1>1, <1>2 DEF ServesAllWritten
  <2> QED BY <2>2, <2>3
<1> QED BY <1>0, <1>3, <1>4, <1>5, <1>6 DEF NoRegression, CallInProgress, AllWhole

(* Failures: memory is gone, the synced prefix is not.                         *)
LEMMA FailurePreserves == StoreInv /\ StoreFailure => StoreInv'
<1> SUFFICES ASSUME StoreInv, StoreFailure PROVE StoreInv'
  OBVIOUS
<1> USE DEF StoreInv
<1>0. /\ proc' = "down" /\ records' = NoRecords /\ order' = <<>> /\ op' = Idle
      /\ failed' = {} /\ UNCHANGED written
  BY DEF StoreFailure, Kill, PowerLoss, LoseMemory
<1>1. file \in Seq(Line) /\ synced \in 0..Len(file) /\ Len(file) \in Nat
      /\ DOMAIN file = 1..Len(file)
  BY DEF TypeOK
<1>2. NoRecords \in [Key -> Status]
  BY DEF NoRecords, Status
<1>3. FreshKeysUndispatched' /\ CallInProgress' /\ ServesAllWritten'
  BY <1>0 DEF FreshKeysUndispatched, CallInProgress, ServesAllWritten, Running
<1>4. /\ file' \in Seq(Line) /\ synced' \in 0..Len(file')
      /\ synced <= synced' /\ Len(file') \in Nat /\ Len(file') <= Len(file)
      /\ DOMAIN file' = 1..Len(file')
      /\ \A i \in 1..Len(file') :
            /\ file'[i].key = file[i].key /\ file'[i].status = file[i].status
            /\ file[i].form = "fragment" => file'[i].form = "fragment"
            /\ file'[i] = file[i] \/ "partial" \in Faults
      /\ \A i \in 1..synced : file'[i] = file[i]
  <2>1. CASE Kill
    BY <2>1, <1>1 DEF Kill
  <2>2. CASE PowerLoss
    <3>1. PICK n \in synced..Len(file) :
            \/ file' = SubSeq(file, 1, n)
            \/ /\ "partial" \in Faults /\ n < Len(file)
               /\ \E cut \in {"unterminated", "fragment"} :
                     /\ file[n + 1].form = "fragment" => cut = "fragment"
                     /\ file' = Append(SubSeq(file, 1, n), [file[n + 1] EXCEPT !.form = cut])
      BY <2>2 DEF PowerLoss
    <3>2. /\ n \in 0..Len(file) /\ n \in Nat /\ synced <= n /\ synced \in Nat
          /\ synced' = Len(file')
      BY <2>2, <1>1 DEF PowerLoss
    <3>3. CASE file' = SubSeq(file, 1, n)
      BY <3>2, <3>3, <1>1, FilePrefix
    <3>4. CASE /\ "partial" \in Faults /\ n < Len(file)
               /\ \E cut \in {"unterminated", "fragment"} :
                     /\ file[n + 1].form = "fragment" => cut = "fragment"
                     /\ file' = Append(SubSeq(file, 1, n), [file[n + 1] EXCEPT !.form = cut])
      <4>1. PICK cut \in {"unterminated", "fragment"} :
                     /\ file[n + 1].form = "fragment" => cut = "fragment"
                     /\ file' = Append(SubSeq(file, 1, n), [file[n + 1] EXCEPT !.form = cut])
        BY <3>4
      <4> DEFINE p == SubSeq(file, 1, n)
                 t == [file[n + 1] EXCEPT !.form = cut]
      <4>2. file[n + 1] \in Line /\ n + 1 \in 1..Len(file)
        BY <3>2, <3>4, <1>1
      <4>3. t \in Line /\ t.key = file[n + 1].key /\ t.status = file[n + 1].status
            /\ t.form = cut
        BY <4>2 DEF Line
      <4>4. p \in Seq(Line) /\ Len(p) = n /\ \A i \in 1..n : p[i] = file[i]
        BY <3>2, <1>1, FilePrefix
      <4> HIDE DEF p, t
      <4>5. /\ file' \in Seq(Line) /\ Len(file') = n + 1 /\ DOMAIN file' = 1..(n + 1)
            /\ \A i \in 1..n : file'[i] = file[i]
            /\ file'[n + 1] = t
        BY <4>1, <4>3, <4>4, FileAppend DEF p, t
      <4>6. \A i \in 1..(n + 1) : i \in 1..n \/ i = n + 1
        BY <3>2
      <4>7. \A i \in 1..synced : i \in 1..n
        BY <3>2
      <4>8. Len(file') \in Nat /\ Len(file') <= Len(file) /\ synced <= synced'
            /\ synced' \in 0..Len(file')
        BY <4>5, <3>2, <3>4, <1>1
      <4> QED BY <4>1, <4>3, <4>5, <4>6, <4>7, <4>8, <3>4
    <3> QED BY <3>1, <3>3, <3>4
  <2> QED BY <2>1, <2>2 DEF StoreFailure
<1>5. TypeOK'
  BY <1>0, <1>2, <1>4 DEF TypeOK
<1>6. NoRegression'
  <2>1. \A i \in DOMAIN file' : i \in DOMAIN file
    BY <1>1, <1>4
  <2> QED BY <1>4, <2>1 DEF NoRegression
<1>7. WrittenSynced'
  <2>1. 1..synced \subseteq 1..synced'
    BY <1>1, <1>4
  <2> QED BY <1>0, <1>4, <2>1 DEF WrittenSynced
<1>8. AllWhole'
  <2>1. \A i \in DOMAIN file' : i \in DOMAIN file
    BY <1>1, <1>4
  <2> QED BY <1>4, <2>1 DEF AllWhole
<1> QED BY <1>3, <1>5, <1>6, <1>7, <1>8

(* Every step of the store preserves its invariant.                            *)
LEMMA NextStoreInv == StoreInv /\ [StoreNext]_storeVars => StoreInv'
<1> SUFFICES ASSUME StoreInv, [StoreNext]_storeVars PROVE StoreInv'
  OBVIOUS
<1>1. CASE NewStore
  BY <1>1, NewStorePreserves
<1>2. CASE \E k \in Key : AppendRecord(k) \/ MarkDispatched(k)
  BY <1>2, AppendRecordPreserves, MarkDispatchedPreserves
<1>3. CASE SyncLine
  BY <1>3, SyncLinePreserves
<1>4. CASE Publish
  BY <1>4, PublishPreserves
<1>5. CASE Close
  BY <1>5 DEF Close, StoreInv, TypeOK, NoRegression, FreshKeysUndispatched, CallInProgress,
     WrittenSynced, ServesAllWritten, AllWhole, Running
<1>6. CASE StoreFailure
  BY <1>6, FailurePreserves
<1>7. CASE UNCHANGED storeVars
  BY <1>7 DEF storeVars, StoreInv, TypeOK, NoRegression, FreshKeysUndispatched, CallInProgress,
     WrittenSynced, ServesAllWritten, AllWhole, Running
<1> QED BY <1>1, <1>2, <1>3, <1>4, <1>5, <1>6, <1>7 DEF StoreNext

(* The inductive invariant holds in every reachable state.                     *)
THEOREM StoreInvariant == StoreSpec => []StoreInv
  BY InitStoreInv, NextStoreInv, PTL DEF StoreSpec

(* The variables of store.go's model keep their types.                         *)
THEOREM StoreTypeCorrect == StoreSpec => []TypeOK
<1>1. StoreInv => TypeOK
  BY DEF StoreInv
<1> QED BY <1>1, StoreInvariant, PTL

(* Append never writes a PENDING line behind a DISPATCHED one of the same key, *)
(* whatever fails and however often the gateway restarts.                      *)
THEOREM StoreNoRegression == StoreSpec => []NoRegression
<1>1. StoreInv => NoRegression
  BY DEF StoreInv
<1> QED BY <1>1, StoreInvariant, PTL

(* While the gateway serves, its memory holds every receipt at least as far    *)
(* along as a call wrote, fsynced and returned nil for it, under every failure *)
(* modelled.  Nil answers of MarkDispatched's early return are not included.   *)
THEOREM StoreServesAllWritten == StoreSpec => []ServesAllWritten
<1>1. StoreInv => ServesAllWritten
  BY DEF StoreInv
<1> QED BY <1>1, StoreInvariant, PTL

(* Without partial writes a line that a call wrote and returned nil for stays  *)
(* readable for ever: the promise of Store's doc comment, for such calls.      *)
THEOREM StoreWrittenSurvives ==
    ASSUME "partial" \notin Faults
    PROVE  StoreSpec => []WrittenSurvives
<1>1. StoreInv => WrittenSurvives
  <2> SUFFICES ASSUME StoreInv, NEW k \in Key, written[k] # "NONE"
               PROVE  \E i \in LinesOf(file, k) : Normal(file[i].status) = written[k]
    BY DEF WrittenSurvives
  <2>1. PICK i \in 1..synced : file[i].key = k /\ Normal(file[i].status) = written[k]
    BY DEF StoreInv, WrittenSynced
  <2>2. file \in Seq(Line) /\ i \in DOMAIN file
    BY DEF StoreInv, TypeOK
  <2>3. \A j \in DOMAIN file : file[j].form = "whole"
    BY DEF StoreInv, AllWhole
  <2>4. Parses(file, i)
    BY <2>2, <2>3 DEF Parses
  <2> QED BY <2>1, <2>2, <2>4 DEF LinesOf
<1> QED BY <1>1, StoreInvariant, PTL
=============================================================================
