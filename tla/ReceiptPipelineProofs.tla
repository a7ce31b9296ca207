----------------------- MODULE ReceiptPipelineProofs -----------------------
(***************************************************************************)
(* The safety of ReceiptPipeline for every set of settlements, every chain,  *)
(* every set of failures, partial writes included, and every bound.          *)
(***************************************************************************)
EXTENDS ReceiptPipeline, ReceiptLedgerProofs

------------------------------------------------------------------------------
(* The invariant.                                                             *)

(* A settlement is logged once: at one place of one block.                    *)
ChainShape ==
    /\ blocks \in Seq(Seq(Key))
    /\ \A m, n \in DOMAIN blocks : \A a \in DOMAIN blocks[m], b \in DOMAIN blocks[n] :
          blocks[m][a] = blocks[n][b] => m = n /\ a = b

(* Settlement k is logged before settlement l.                                *)
Before(k, l) ==
    \E m, n \in DOMAIN blocks : \E a \in DOMAIN blocks[m], b \in DOMAIN blocks[n] :
        /\ blocks[m][a] = k /\ blocks[n][b] = l
        /\ m < n \/ (m = n /\ a < b)

InBlocks(k, from, to) == \E n \in DOMAIN blocks : from <= n /\ n <= to /\ k \in ToSet(blocks[n])

WatcherShape ==
    /\ watcher \in {"off", "idle", "polling", "handling", "appending", "dead"}
    /\ watcher # "off" <=> proc = "up"
    /\ proc # "closed"
    /\ queue # <<>> <=> watcher \in {"handling", "appending"}
    /\ head \in 0..Len(blocks)
    /\ nextBlock \in 0..(Len(blocks) + 1)
    /\ queue \in Seq(Key)
    /\ seqCount \in 0..(SeqLimit - 1)
    /\ dropped \in SUBSET Key
    /\ failures \in 0..MaxFailures

(* The events in hand are the last ones behind the cursor, in chain order.    *)
QueueFollowsChain ==
    /\ \A i, j \in DOMAIN queue : i < j => Before(queue[i], queue[j])
    /\ \A k \in ToSet(queue) :
          /\ InBlocks(k, 1, nextBlock - 1)
          /\ \A l \in Key : InBlocks(l, 1, nextBlock - 1) /\ l \notin ToSet(queue) => Before(l, k)

(* Processor.Handle is done with k, or inside Append for it.                  *)
Done(k) ==
    /\ InBlocks(k, 1, nextBlock - 1)
    /\ k \in ToSet(queue) => watcher = "appending" /\ k = Head(queue)

(* The line an Append wrote, whether it was completed or not.                 *)
Receipt(i) == file[i].status # "DISPATCHED"
HasReceipt(k) == \E i \in DOMAIN file : file[i].key = k /\ Receipt(i)

(* Settlement k is another one than l, logged before it, or l came late       *)
(* because an Append of it had failed with nothing written.                   *)
Precedes(k, l) == k # l /\ (Before(k, l) \/ l \in dropped)

(* The receipts in the file are those of the first settlements of the chain,  *)
(* once each and in that order, but for the dropped ones, which may be missing *)
(* or late, and a DISPATCHED line comes after its receipt.                    *)
FileFollowsChain ==
    /\ \A i \in DOMAIN file : file[i].key \in Mined
    /\ \A i, j \in DOMAIN file : i < j /\ Receipt(i) /\ Receipt(j) => Precedes(file[i].key, file[j].key)
    /\ \A i \in DOMAIN file : Receipt(i) =>
          \A k \in Key \ dropped : Before(k, file[i].key) =>
             \E j \in DOMAIN file : j < i /\ file[j].key = k /\ Receipt(j)
    /\ \A j \in DOMAIN file : ~Receipt(j) =>
          \E i \in DOMAIN file : i < j /\ file[i].key = file[j].key /\ Receipt(i)

(* Memory and the file know each other's receipts, but for failed calls and    *)
(* the one in progress, which is the watcher's if it is an Append.            *)
MemoryFollowsFile ==
    /\ \A k \in Key : records[k] # "NONE" => HasReceipt(k)
    /\ proc = "up" => \A i \in DOMAIN file :
          \/ records[file[i].key] # "NONE" \/ file[i].key \in failed
          \/ op # Idle /\ file[i].key = op.key
    /\ op.status = "PENDING" => watcher = "appending" /\ op.key = Head(queue)
    /\ proc = "down" => failed = {}

Watching == watcher \in {"idle", "polling", "handling", "appending"}

(* The watcher never comes back to a settlement whose Append failed, and what  *)
(* it is done with has its line, unless this process failed to write any of it. *)
HandledOnce ==
    Watching => \A k \in Key :
        /\ k \in failed /\ records[k] = "NONE" => Done(k)
        /\ Done(k) => HasReceipt(k) \/ (k \in dropped /\ k \in failed)

OrderFollowsChain ==
    /\ \A i, j \in DOMAIN order : i < j => Precedes(order[i], order[j])
    /\ \A i \in DOMAIN order : records[order[i]] # "NONE"

PipelineInv ==
    /\ StoreInv
    /\ ChainShape
    /\ WatcherShape
    /\ QueueFollowsChain
    /\ FileFollowsChain
    /\ MemoryFollowsFile
    /\ HandledOnce
    /\ OrderFollowsChain

------------------------------------------------------------------------------
(* The order of the chain.                                                    *)

(* Where a key is in a block, as a block and a place in it.                   *)
LEMMA Places ==
    ASSUME ChainShape
    PROVE  /\ \A n \in DOMAIN blocks : n \in Nat /\ blocks[n] \in Seq(Key)
           /\ \A n \in DOMAIN blocks : \A a \in DOMAIN blocks[n] :
                 a \in Nat /\ blocks[n][a] \in Key /\ blocks[n][a] \in ToSet(blocks[n])
           /\ \A n \in DOMAIN blocks : \A k \in ToSet(blocks[n]) :
                 \E a \in DOMAIN blocks[n] : blocks[n][a] = k
<1>1. \A n \in DOMAIN blocks : n \in Nat /\ blocks[n] \in Seq(Key)
  BY DEF ChainShape
<1>2. \A n \in DOMAIN blocks : \A a \in DOMAIN blocks[n] :
         a \in Nat /\ blocks[n][a] \in Key /\ blocks[n][a] \in ToSet(blocks[n])
  BY <1>1 DEF ToSet
<1>3. \A n \in DOMAIN blocks : \A k \in ToSet(blocks[n]) : \E a \in DOMAIN blocks[n] : blocks[n][a] = k
  BY DEF ToSet
<1> QED BY <1>1, <1>2, <1>3

(* A settlement that is mined is in one block.                                *)
LEMMA OneBlock ==
    ASSUME ChainShape, NEW m \in DOMAIN blocks, NEW n \in DOMAIN blocks, NEW k,
           k \in ToSet(blocks[m]), k \in ToSet(blocks[n])
    PROVE  m = n
<1>1. PICK a \in DOMAIN blocks[m] : blocks[m][a] = k
  BY DEF ToSet
<1>2. PICK b \in DOMAIN blocks[n] : blocks[n][b] = k
  BY DEF ToSet
<1> QED BY <1>1, <1>2 DEF ChainShape

(* Before is a strict order that is total on what is mined.                   *)
LEMMA BeforeOrder ==
    ASSUME ChainShape, NEW k, NEW l
    PROVE  /\ Before(k, l) => k \in Mined /\ l \in Mined
           /\ ~(Before(k, l) /\ Before(l, k))
           /\ ~Before(k, k)
           /\ k \in Mined /\ l \in Mined => k = l \/ Before(k, l) \/ Before(l, k)
<1>1. Before(k, l) => k \in Mined /\ l \in Mined
  BY Places DEF Before, Mined
<1>2. ASSUME NEW x, NEW y, Before(x, y), Before(y, x) PROVE FALSE
  <2>1. PICK m \in DOMAIN blocks, n \in DOMAIN blocks :
           \E a \in DOMAIN blocks[m], b \in DOMAIN blocks[n] :
              /\ blocks[m][a] = x /\ blocks[n][b] = y
              /\ m < n \/ (m = n /\ a < b)
    BY <1>2 DEF Before
  <2>2. PICK a \in DOMAIN blocks[m], b \in DOMAIN blocks[n] :
              /\ blocks[m][a] = x /\ blocks[n][b] = y
              /\ m < n \/ (m = n /\ a < b)
    BY <2>1
  <2>3. PICK m2 \in DOMAIN blocks, n2 \in DOMAIN blocks :
           \E a2 \in DOMAIN blocks[m2], b2 \in DOMAIN blocks[n2] :
              /\ blocks[m2][a2] = y /\ blocks[n2][b2] = x
              /\ m2 < n2 \/ (m2 = n2 /\ a2 < b2)
    BY <1>2 DEF Before
  <2>4. PICK a2 \in DOMAIN blocks[m2], b2 \in DOMAIN blocks[n2] :
              /\ blocks[m2][a2] = y /\ blocks[n2][b2] = x
              /\ m2 < n2 \/ (m2 = n2 /\ a2 < b2)
    BY <2>3
  <2>5. m2 = n /\ a2 = b /\ n2 = m /\ b2 = a
    BY <2>2, <2>4 DEF ChainShape
  <2>6. m \in Nat /\ n \in Nat /\ a \in Nat /\ b \in Nat
    BY Places
  <2> QED BY <2>2, <2>4, <2>5, <2>6
<1>3. ASSUME k \in Mined, l \in Mined, k # l PROVE Before(k, l) \/ Before(l, k)
  <2>1. PICK m \in DOMAIN blocks : k \in ToSet(blocks[m])
    BY <1>3 DEF Mined
  <2>2. PICK n \in DOMAIN blocks : l \in ToSet(blocks[n])
    BY <1>3 DEF Mined
  <2>3. PICK a \in DOMAIN blocks[m] : blocks[m][a] = k
    BY <2>1, Places
  <2>4. PICK b \in DOMAIN blocks[n] : blocks[n][b] = l
    BY <2>2, Places
  <2>5. m \in Nat /\ n \in Nat /\ a \in Nat /\ b \in Nat
    BY Places
  <2>6. m < n \/ n < m \/ (m = n /\ a < b) \/ (n = m /\ b < a)
    BY <1>3, <2>3, <2>4, <2>5
  <2> QED BY <2>3, <2>4, <2>6 DEF Before
<1> QED BY <1>1, <1>2, <1>3

(* FlattenSeq appends one sequence after the other.                           *)
LEMMA FlattenSteps ==
    ASSUME NEW S, NEW seqs \in Seq(Seq(S)), Len(seqs) # 0
    PROVE  \E f : /\ f[1] = seqs[1]
                  /\ \A i \in 2..Len(seqs) : f[i] = f[i - 1] \o seqs[i]
                  /\ FlattenSeq(seqs) = f[Len(seqs)]
<1> DEFINE n == Len(seqs)
           next == [i \in 1..n |-> [s \in Seq(S) |-> s \o seqs[i]]]
           Def(f) == f = [i \in 1..n |-> IF i = 1 THEN seqs[i] ELSE f[i - 1] \o seqs[i]]
<1>1. n \in Nat /\ n >= 1 /\ \A i \in 1..n : seqs[i] \in Seq(S)
  OBVIOUS
<1>2. next \in [1..n -> [Seq(S) -> Seq(S)]] /\ <<>> \in Seq(S)
  BY <1>1
<1>3. PICK g : Recurses(g, n, Seq(S), <<>>, next)
  <2> HIDE DEF next, n
  <2> QED BY <1>1, <1>2, RecursionExists
<1>4. /\ g \in [0..n -> Seq(S)] /\ g[0] = <<>> /\ \A i \in 1..n : g[i] = next[i][g[i - 1]]
  BY <1>3 DEF Recurses
<1>5. \A i \in 1..n : g[i - 1] \in Seq(S) /\ g[i] = g[i - 1] \o seqs[i]
  <2> SUFFICES ASSUME NEW i \in 1..n PROVE g[i - 1] \in Seq(S) /\ g[i] = g[i - 1] \o seqs[i]
    OBVIOUS
  <2>1. i - 1 \in 0..n
    BY <1>1
  <2>2. g[i - 1] \in Seq(S)
    BY <1>4, <2>1
  <2> QED BY <1>4, <2>2
<1>6. g[1] = seqs[1]
  <2>1. 1 \in 1..n /\ 1 - 1 = 0
    BY <1>1
  <2>2. g[1] = <<>> \o seqs[1] /\ seqs[1] \in Seq(S)
    BY <1>1, <1>4, <1>5, <2>1
  <2> QED BY <2>2
<1> DEFINE e == [i \in 1..n |-> g[i]]
<1>7. Def(e)
  <2>1. \A i \in 1..n : e[i] = IF i = 1 THEN seqs[i] ELSE e[i - 1] \o seqs[i]
    <3> SUFFICES ASSUME NEW i \in 1..n PROVE e[i] = IF i = 1 THEN seqs[i] ELSE e[i - 1] \o seqs[i]
      OBVIOUS
    <3>1. i # 1 => i - 1 \in 1..n
      BY <1>1
    <3> QED BY <1>5, <1>6, <3>1
  <2> QED BY <2>1
<1>8. PICK f : Def(f) /\ FlattenSeq(seqs) = f[n]
  <2> DEFINE c == CHOOSE f : Def(f)
  <2>1. Def(c)
    <3> HIDE DEF e, Def
    <3> QED BY <1>7
  <2>2. FlattenSeq(seqs) = c[n]
    BY DEF FlattenSeq
  <2> QED BY <2>1, <2>2
<1>9. f[1] = seqs[1] /\ \A i \in 2..n : f[i] = f[i - 1] \o seqs[i]
  <2>1. \A i \in 1..n : f[i] = IF i = 1 THEN seqs[i] ELSE f[i - 1] \o seqs[i]
    BY <1>8
  <2>2. 1 \in 1..n /\ \A i \in 2..n : i \in 1..n /\ i # 1
    BY <1>1
  <2> QED BY <2>1, <2>2
<1> QED BY <1>8, <1>9

(* s lists the settlements of the blocks from..to in chain order.             *)
Lists(s, from, to) ==
    /\ s \in Seq(Key)
    /\ \A k \in Key : k \in ToSet(s) <=> InBlocks(k, from, to)
    /\ \A i, j \in DOMAIN s : i < j => Before(s[i], s[j])

(* A block lists its own.                                                     *)
LEMMA ListsOne ==
    ASSUME ChainShape, NEW n \in DOMAIN blocks
    PROVE  Lists(blocks[n], n, n)
<1>1. blocks[n] \in Seq(Key) /\ \A m \in DOMAIN blocks : m \in Nat
  BY Places
<1>2. \A k \in Key : k \in ToSet(blocks[n]) <=> InBlocks(k, n, n)
  <2>1. \A m \in DOMAIN blocks : n <= m /\ m <= n <=> m = n
    BY <1>1
  <2> QED BY <2>1 DEF InBlocks
<1>3. \A i, j \in DOMAIN blocks[n] : i < j => Before(blocks[n][i], blocks[n][j])
  BY DEF Before
<1> QED BY <1>1, <1>2, <1>3 DEF Lists

(* A block behind a list makes a list.                                        *)
LEMMA ListsAppend ==
    ASSUME ChainShape, NEW from \in Nat, NEW m \in Nat, NEW s, Lists(s, from, m),
           m + 1 \in DOMAIN blocks, from <= m + 1
    PROVE  Lists(s \o blocks[m + 1], from, m + 1)
<1> DEFINE t == blocks[m + 1]
           u == s \o t
<1>1. s \in Seq(Key) /\ t \in Seq(Key) /\ \A n \in DOMAIN blocks : n \in Nat
  BY Places DEF Lists
<1>2. /\ u \in Seq(Key) /\ Len(s) \in Nat /\ Len(t) \in Nat
      /\ DOMAIN s = 1..Len(s) /\ DOMAIN t = 1..Len(t) /\ DOMAIN u = 1..(Len(s) + Len(t))
      /\ \A i \in 1..Len(s) : u[i] = s[i]
      /\ \A i \in 1..Len(t) : u[Len(s) + i] = t[i]
  <2> HIDE DEF t
  <2>1. u \in Seq(Key) /\ Len(s) \in Nat /\ Len(t) \in Nat
        /\ DOMAIN s = 1..Len(s) /\ DOMAIN t = 1..Len(t) /\ DOMAIN u = 1..(Len(s) + Len(t))
    BY <1>1
  <2>2. \A i \in 1..Len(s) : u[i] = s[i]
    BY <1>1
  <2>3. \A i \in 1..Len(t) : u[Len(s) + i] = t[i]
    BY <1>1
  <2> QED BY <2>1, <2>2, <2>3
<1> HIDE DEF t, u
<1>3. \A i \in 1..(Len(s) + Len(t)) : i \in 1..Len(s) \/ \E j \in 1..Len(t) : i = Len(s) + j
  <2> SUFFICES ASSUME NEW i \in 1..(Len(s) + Len(t)), i \notin 1..Len(s)
               PROVE  \E j \in 1..Len(t) : i = Len(s) + j
    OBVIOUS
  <2>1. i - Len(s) \in 1..Len(t) /\ i = Len(s) + (i - Len(s))
    BY <1>2
  <2> QED BY <2>1
<1>4. \A i \in 1..Len(s) : i \in 1..(Len(s) + Len(t))
  BY <1>2
<1>5. \A i \in 1..Len(t) : Len(s) + i \in 1..(Len(s) + Len(t))
  BY <1>2
<1>6. ToSet(u) = ToSet(s) \cup ToSet(t)
  <2>1. \A x : x \in ToSet(u) => x \in ToSet(s) \cup ToSet(t)
    <3> SUFFICES ASSUME NEW i \in DOMAIN u PROVE u[i] \in ToSet(s) \cup ToSet(t)
      BY DEF ToSet
    <3>1. CASE i \in 1..Len(s)
      BY <1>2, <3>1 DEF ToSet
    <3>2. CASE i \notin 1..Len(s)
      <4>1. PICK j \in 1..Len(t) : i = Len(s) + j
        BY <1>2, <1>3, <3>2
      <4> QED BY <1>2, <4>1 DEF ToSet
    <3> QED BY <3>1, <3>2
  <2>2. \A x : x \in ToSet(s) => x \in ToSet(u)
    BY <1>2, <1>4 DEF ToSet
  <2>3. \A x : x \in ToSet(t) => x \in ToSet(u)
    BY <1>2, <1>5 DEF ToSet
  <2> QED BY <2>1, <2>2, <2>3
<1>7. \A k \in Key : k \in ToSet(u) <=> InBlocks(k, from, m + 1)
  <2>1. \A n \in DOMAIN blocks : (from <= n /\ n <= m + 1) <=> (from <= n /\ n <= m) \/ n = m + 1
    BY <1>1
  <2>2. \A k \in Key : InBlocks(k, from, m + 1) <=> InBlocks(k, from, m) \/ k \in ToSet(t)
    BY <2>1 DEF InBlocks, t
  <2> QED BY <1>6, <2>2 DEF Lists
<1>8. ASSUME NEW i \in DOMAIN u, NEW j \in DOMAIN u, i < j PROVE Before(u[i], u[j])
  <2>1. CASE j \in 1..Len(s)
    <3>1. i \in 1..Len(s)
      BY <1>2, <1>8, <2>1
    <3> QED BY <1>2, <1>8, <2>1, <3>1 DEF Lists
  <2>2. CASE i \notin 1..Len(s)
    <3>1. PICK a \in 1..Len(t) : i = Len(s) + a
      BY <1>2, <1>3, <2>2
    <3>2. j \notin 1..Len(s)
      BY <1>2, <1>8, <2>2
    <3>3. PICK b \in 1..Len(t) : j = Len(s) + b
      BY <1>2, <1>3, <3>2
    <3>4. a < b
      BY <1>2, <1>8, <3>1, <3>3
    <3>5. Before(t[a], t[b])
      BY <1>2, <3>4 DEF Before, t
    <3> QED BY <1>2, <3>1, <3>3, <3>5
  <2>3. CASE i \in 1..Len(s) /\ j \notin 1..Len(s)
    <3>1. PICK b \in 1..Len(t) : j = Len(s) + b
      BY <1>2, <1>3, <2>3
    <3>2. u[i] = s[i] /\ u[j] = t[b] /\ s[i] \in Key /\ s[i] \in ToSet(s)
      BY <1>1, <1>2, <2>3, <3>1 DEF ToSet
    <3>3. PICK n \in DOMAIN blocks : n <= m /\ s[i] \in ToSet(blocks[n])
      BY <3>2 DEF Lists, InBlocks
    <3>4. PICK a \in DOMAIN blocks[n] : blocks[n][a] = s[i]
      BY <3>3 DEF ToSet
    <3>5. n < m + 1
      BY <1>1, <3>3
    <3> QED BY <1>2, <3>2, <3>4, <3>5 DEF Before, t
  <2> QED BY <2>1, <2>2, <2>3
<1>9. Lists(u, from, m + 1)
  BY <1>2, <1>7, <1>8 DEF Lists
<1> QED BY <1>9 DEF u, t

(* FilterLogs answers with every log of the range, in chain order.            *)
LEMMA LogsListed ==
    ASSUME ChainShape, NEW from \in Nat, NEW to \in 0..Len(blocks)
    PROVE  Lists(LogsBetween(from, to), from, to)
<1> DEFINE f == IF from = 0 THEN 1 ELSE from
           s == SubSeq(blocks, f, to)
<1>1. f \in Nat /\ f >= 1 /\ blocks \in Seq(Seq(Key)) /\ Len(blocks) \in Nat
      /\ DOMAIN blocks = 1..Len(blocks) /\ to \in Nat /\ to <= Len(blocks)
  BY DEF ChainShape
<1>2. \A k : InBlocks(k, f, to) <=> InBlocks(k, from, to)
  BY <1>1 DEF InBlocks
<1>3. LogsBetween(from, to) = FlattenSeq(s)
  BY DEF LogsBetween
<1> HIDE DEF f
<1>4. CASE f > to
  <2>1. s = <<>>
    BY <1>1, <1>4
  <2>2. FlattenSeq(<<>>) = <<>>
    BY DEF FlattenSeq
  <2>3. \A k : ~InBlocks(k, f, to)
    BY <1>1, <1>4 DEF InBlocks
  <2>4. Lists(<<>>, from, to)
    BY <1>2, <2>3 DEF Lists, ToSet
  <2> QED BY <1>3, <2>1, <2>2, <2>4
<1>5. CASE f <= to
  <2> DEFINE n == to - f + 1
  <2>1. n \in Nat /\ n >= 1
    BY <1>1, <1>5
  <2>2. s \in Seq(Seq(Key)) /\ Len(s) = n
    BY <1>1, <1>5
  <2>3. \A i \in 1..n : s[i] = blocks[f + i - 1]
    BY <1>1, <1>5
  <2> HIDE DEF s, n
  <2>4. PICK g : /\ g[1] = s[1]
                 /\ \A i \in 2..n : g[i] = g[i - 1] \o s[i]
                 /\ FlattenSeq(s) = g[n]
    <3>1. Len(s) # 0
      BY <2>1, <2>2
    <3> QED BY <2>2, <3>1, FlattenSteps
  <2> DEFINE Good(i) == Lists(g[i], f, f + i - 1)
             Bad == {i \in 1..n : ~Good(i)}
  <2>5. Good(1)
    <3>1. 1 \in 1..n /\ f + 1 - 1 = f /\ f \in DOMAIN blocks
      BY <1>1, <1>5, <2>1
    <3> QED BY <2>3, <2>4, <3>1, ListsOne
  <2>6. ASSUME NEW i \in 2..n, Good(i - 1) PROVE Good(i)
    <3>1. i \in 1..n /\ f + (i - 1) - 1 \in Nat /\ (f + (i - 1) - 1) + 1 = f + i - 1
          /\ f + i - 1 \in DOMAIN blocks /\ f <= f + i - 1
      BY <1>1, <1>5, <2>1 DEF n
    <3>2. Lists(g[i - 1] \o blocks[f + i - 1], f, f + i - 1)
      BY <1>1, <2>6, <3>1, ListsAppend
    <3> QED BY <2>3, <2>4, <3>1, <3>2
  <2>7. Bad = {}
    <3> SUFFICES ASSUME Bad # {} PROVE FALSE
      OBVIOUS
    <3>1. Bad \in SUBSET Nat /\ \A i \in Bad : i \in 1..n /\ ~Good(i)
      OBVIOUS
    <3>2. \A i \in 1..n : i \notin Bad => Good(i)
      OBVIOUS
    <3> HIDE DEF Bad, Good
    <3>3. PICK i \in Bad : \A y \in Bad : i <= y
      BY <3>1, MinExists
    <3>4. i # 1 /\ i \in 1..n
      BY <2>5, <3>1
    <3>5. i \in 2..n /\ i - 1 \in 1..n /\ ~(i <= i - 1)
      BY <2>1, <3>4
    <3>6. Good(i - 1)
      BY <3>2, <3>3, <3>5
    <3> QED BY <2>6, <3>1, <3>5, <3>6
  <2>8. Good(n) /\ f + n - 1 = to
    <3>1. n \in 1..n /\ f + n - 1 = to
      BY <1>1, <1>5, <2>1 DEF n
    <3> QED BY <2>7, <3>1
  <2>9. Lists(FlattenSeq(s), f, to)
    BY <2>4, <2>8
  <2> QED BY <1>2, <1>3, <2>9 DEF Lists
<1> QED BY <1>1, <1>4, <1>5

------------------------------------------------------------------------------
(* The chain grows.                                                           *)

(* A new block holds settlements that were not logged before and comes last.  *)
LEMMA ChainGrows ==
    ASSUME ChainShape, MineBlock
    PROVE  /\ ChainShape' /\ Len(blocks') = Len(blocks) + 1
           /\ \A k \in Mined : k \in Mined'
           /\ \A k, l : Before(k, l) => Before(k, l)'
           /\ \A k, l : l \in Mined /\ Before(k, l)' => Before(k, l)
           /\ \A k : \A to \in Int : to <= Len(blocks) => (InBlocks(k, 1, to)' <=> InBlocks(k, 1, to))
<1>1. PICK S \in SUBSET (Key \ Mined) : \E logs \in SetToSeqs(S) : blocks' = Append(blocks, logs)
  BY DEF MineBlock
<1>2. PICK logs \in SetToSeqs(S) : blocks' = Append(blocks, logs)
  BY <1>1
<1>3. IsFiniteSet(S)
  BY KeyAssumption, FS_Subset
<1>4. IsInjective(logs) /\ ToSet(logs) = S /\ logs \in Seq(S)
  BY <1>3, SetToSeqsLists
<1>5. logs \in Seq(Key)
  BY <1>4
<1> DEFINE last == Len(blocks) + 1
<1>6. /\ blocks \in Seq(Seq(Key)) /\ Len(blocks) \in Nat /\ DOMAIN blocks = 1..Len(blocks)
      /\ blocks' \in Seq(Seq(Key)) /\ Len(blocks') = last /\ DOMAIN blocks' = 1..last
      /\ (\A n \in DOMAIN blocks : blocks'[n] = blocks[n]) /\ blocks'[last] = logs
  BY <1>2, <1>5 DEF ChainShape
<1>7. /\ \A n \in DOMAIN blocks' : n \in DOMAIN blocks \/ n = last
      /\ \A n \in DOMAIN blocks : n \in DOMAIN blocks' /\ n < last
  BY <1>6
<1> HIDE DEF last
<1>8. \A n \in DOMAIN blocks : \A a \in DOMAIN blocks[n], b \in DOMAIN logs : blocks[n][a] # logs[b]
  <2>1. \A n \in DOMAIN blocks : \A a \in DOMAIN blocks[n] : blocks[n][a] \in Mined
    BY Places DEF Mined
  <2>2. \A b \in DOMAIN logs : logs[b] \notin Mined
    BY <1>4
  <2> QED BY <2>1, <2>2
<1>9. \A a, b \in DOMAIN logs : logs[a] = logs[b] => a = b
  BY <1>4 DEF IsInjective
<1>10. ChainShape'
  <2> SUFFICES ASSUME NEW m \in DOMAIN blocks', NEW n \in DOMAIN blocks',
                      NEW a \in DOMAIN blocks'[m], NEW b \in DOMAIN blocks'[n],
                      blocks'[m][a] = blocks'[n][b]
               PROVE  m = n /\ a = b
    BY <1>6 DEF ChainShape
  <2>1. CASE m \in DOMAIN blocks /\ n \in DOMAIN blocks
    BY <1>6, <2>1 DEF ChainShape
  <2>2. CASE m = last /\ n = last
    BY <1>6, <1>9, <2>2
  <2>3. CASE m \in DOMAIN blocks /\ n = last
    BY <1>6, <1>8, <2>3
  <2>4. CASE m = last /\ n \in DOMAIN blocks
    BY <1>6, <1>8, <2>4
  <2> QED BY <1>7, <2>1, <2>2, <2>3, <2>4
<1>11. \A k \in Mined : k \in Mined'
  BY <1>6, <1>7 DEF Mined
<1>12. \A k, l : Before(k, l) => Before(k, l)'
  BY <1>6, <1>7 DEF Before
<1>13. ASSUME NEW k, NEW l, l \in Mined, Before(k, l)' PROVE Before(k, l)
  <2>1. PICK m \in DOMAIN blocks', n \in DOMAIN blocks' :
           \E a \in DOMAIN blocks'[m], b \in DOMAIN blocks'[n] :
              /\ blocks'[m][a] = k /\ blocks'[n][b] = l
              /\ m < n \/ (m = n /\ a < b)
    BY <1>13 DEF Before
  <2>2. PICK a \in DOMAIN blocks'[m], b \in DOMAIN blocks'[n] :
              /\ blocks'[m][a] = k /\ blocks'[n][b] = l
              /\ m < n \/ (m = n /\ a < b)
    BY <2>1
  <2>3. n # last
    BY <1>4, <1>6, <1>13, <2>2
  <2>4. n \in DOMAIN blocks /\ n \in Nat /\ m \in Nat
    BY <1>6, <1>7, <2>3
  <2>5. m # last
    BY <1>6, <1>7, <2>2, <2>4
  <2>6. m \in DOMAIN blocks
    BY <1>7, <2>5
  <2> QED BY <1>6, <2>2, <2>4, <2>6 DEF Before
<1>14. ASSUME NEW k, NEW to \in Int, to <= Len(blocks)
       PROVE  InBlocks(k, 1, to)' <=> InBlocks(k, 1, to)
  <2>1. \A n \in DOMAIN blocks' : n <= to => n \in DOMAIN blocks
    BY <1>6, <1>14 DEF last
  <2> QED BY <1>6, <1>7, <2>1 DEF InBlocks
<1> QED BY <1>6, <1>10, <1>11, <1>12, <1>13, <1>14 DEF last

(* What is behind the cursor is mined.                                        *)
LEMMA BehindMined ==
    ASSUME NEW k, NEW from, NEW to, InBlocks(k, from, to) PROVE k \in Mined
  BY DEF InBlocks, Mined

(* A block more leaves the pipeline's state as it relates to the chain.       *)
LEMMA MineBlockPreserves == PipelineInv /\ MineBlock => PipelineInv'
<1> SUFFICES ASSUME PipelineInv, MineBlock PROVE PipelineInv'
  OBVIOUS
<1>0. /\ UNCHANGED storeVars
      /\ UNCHANGED <<proc, file, records, order, op, failed, watcher, head, nextBlock, queue,
                     seqCount, dropped, failures>>
  BY DEF MineBlock, storeVars, watchVars
<1>1. StoreInv' /\ ChainShape
  BY <1>0, NextStoreInv DEF PipelineInv
<1>2. /\ ChainShape' /\ Len(blocks') = Len(blocks) + 1 /\ Len(blocks) \in Nat
      /\ \A k \in Mined : k \in Mined'
      /\ \A k, l : Before(k, l) => Before(k, l)'
      /\ \A k, l : l \in Mined /\ Before(k, l)' => Before(k, l)
      /\ \A k : InBlocks(k, 1, nextBlock - 1)' <=> InBlocks(k, 1, nextBlock - 1)
      /\ \A k, l : Precedes(k, l) => Precedes(k, l)'
  <2>1. nextBlock - 1 \in Int /\ nextBlock - 1 <= Len(blocks) /\ Len(blocks) \in Nat
    BY <1>1 DEF PipelineInv, WatcherShape, ChainShape
  <2>2. PICK to \in Int : to = nextBlock - 1
    BY <2>1
  <2>3. \A k : InBlocks(k, 1, nextBlock - 1)' <=> InBlocks(k, 1, to)'
    BY <1>0, <2>2 DEF InBlocks
  <2>4. \A k : InBlocks(k, 1, to)' <=> InBlocks(k, 1, to)
    BY <1>1, <2>1, <2>2, ChainGrows
  <2>5. \A k, l : Before(k, l) => Before(k, l)'
    BY <1>1, ChainGrows
  <2>6. \A k, l : Precedes(k, l) => Precedes(k, l)'
    BY <1>0, <2>5 DEF Precedes
  <2> QED BY <1>1, <2>1, <2>2, <2>3, <2>4, <2>6, ChainGrows
<1>3. WatcherShape'
  <2>1. head \in 0..Len(blocks') /\ nextBlock \in 0..(Len(blocks') + 1)
    BY <1>2 DEF PipelineInv, WatcherShape
  <2> QED BY <1>0, <2>1 DEF PipelineInv, WatcherShape
<1>4. QueueFollowsChain'
  BY <1>0, <1>2 DEF PipelineInv, QueueFollowsChain
<1>5. FileFollowsChain'
  <2>1. \A i : Receipt(i)' <=> Receipt(i)
    BY <1>0 DEF Receipt
  <2>2. \A i \in DOMAIN file : file[i].key \in Mined /\ file[i].key \in Mined'
    BY <1>2 DEF PipelineInv, FileFollowsChain
  <2>3. \A i \in DOMAIN file : Receipt(i) =>
          \A k \in Key \ dropped : Before(k, file[i].key)' =>
             \E j \in DOMAIN file : j < i /\ file[j].key = k /\ Receipt(j)
    <3> SUFFICES ASSUME NEW i \in DOMAIN file, Receipt(i), NEW k \in Key \ dropped, Before(k, file[i].key)'
                 PROVE  \E j \in DOMAIN file : j < i /\ file[j].key = k /\ Receipt(j)
      OBVIOUS
    <3>1. PICK l : l = file[i].key
      OBVIOUS
    <3>2. Before(k, l)'
      BY <1>0, <3>1
    <3>3. Before(k, l)
      BY <1>2, <2>2, <3>1, <3>2
    <3> QED BY <3>1, <3>3 DEF PipelineInv, FileFollowsChain
  <2>4. \A i, j \in DOMAIN file : i < j /\ Receipt(i) /\ Receipt(j) => Precedes(file[i].key, file[j].key)'
    <3> SUFFICES ASSUME NEW i \in DOMAIN file, NEW j \in DOMAIN file, i < j, Receipt(i), Receipt(j)
                 PROVE  Precedes(file[i].key, file[j].key)'
      OBVIOUS
    <3>1. PICK k, l : k = file[i].key /\ l = file[j].key
      OBVIOUS
    <3>2. Precedes(k, l)
      BY <3>1 DEF PipelineInv, FileFollowsChain
    <3> QED BY <1>0, <1>2, <3>1, <3>2
  <2>5. \A j \in DOMAIN file : ~Receipt(j) =>
          \E i \in DOMAIN file : i < j /\ file[i].key = file[j].key /\ Receipt(i)
    BY DEF PipelineInv, FileFollowsChain
  <2> QED BY <1>0, <2>1, <2>2, <2>3, <2>4, <2>5 DEF FileFollowsChain
<1>6. MemoryFollowsFile'
  BY <1>0 DEF PipelineInv, MemoryFollowsFile, HasReceipt, Receipt
<1>7. HandledOnce'
  <2>1. \A k : (Done(k)' <=> Done(k)) /\ (HasReceipt(k)' <=> HasReceipt(k))
    BY <1>0, <1>2 DEF Done, HasReceipt, Receipt
  <2> QED BY <1>0, <2>1 DEF PipelineInv, HandledOnce, Watching
<1>8. OrderFollowsChain'
  BY <1>0, <1>2 DEF PipelineInv, OrderFollowsChain
<1> QED BY <1>1, <1>2, <1>3, <1>4, <1>5, <1>6, <1>7, <1>8 DEF PipelineInv

------------------------------------------------------------------------------
(* The file.                                                                  *)

(* While no block is mined the chain's order stands.                          *)
LEMMA SameChain ==
    ASSUME blocks' = blocks
    PROVE  /\ \A k, l : Before(k, l)' <=> Before(k, l)
           /\ dropped \subseteq dropped' => \A k, l : Precedes(k, l) => Precedes(k, l)'
           /\ Mined' = Mined
           /\ \A k, from, to : InBlocks(k, from, to)' <=> InBlocks(k, from, to)
           /\ ChainShape => ChainShape'
<1>1. \A k, l : Before(k, l)' <=> Before(k, l)
  BY DEF Before
<1> QED BY <1>1 DEF Precedes, Mined, InBlocks, ChainShape

(* A line more leaves the others where they are.                              *)
LEMMA OneLineMore ==
    ASSUME file \in Seq(Line), NEW l \in Line, file' = Append(file, l)
    PROVE  \E last \in Nat :
              /\ DOMAIN file' = DOMAIN file \cup {last} /\ last \notin DOMAIN file
              /\ \A i \in DOMAIN file : /\ i < last /\ ~(last < i) /\ file'[i] = file[i]
                                        /\ Receipt(i)' <=> Receipt(i)
              /\ file'[last] = l /\ (Receipt(last)' <=> l.status # "DISPATCHED") /\ ~(last < last)
<1> DEFINE last == Len(file) + 1
<1>1. /\ DOMAIN file' = 1..last /\ DOMAIN file = 1..Len(file) /\ Len(file) \in Nat
      /\ (\A i \in 1..Len(file) : file'[i] = file[i]) /\ file'[last] = l
  BY FileAppend
<1>2. /\ last \in Nat /\ 1..last = (1..Len(file)) \cup {last} /\ last \notin 1..Len(file)
      /\ (\A i \in 1..Len(file) : i < last /\ ~(last < i)) /\ ~(last < last)
  BY <1>1
<1> HIDE DEF last
<1> QED BY <1>1, <1>2 DEF Receipt

(* A receipt for the first settlement without one keeps the file in order.    *)
LEMMA ReceiptAppended ==
    ASSUME FileFollowsChain, ChainShape, blocks' = blocks, dropped' = dropped, file \in Seq(Line),
           NEW l \in Line, file' = Append(file, l), l.status = "PENDING", l.key \in Mined,
           \A i \in DOMAIN file : Receipt(i) => Precedes(file[i].key, l.key),
           \A k \in Key \ dropped : Before(k, l.key) => HasReceipt(k)
    PROVE  FileFollowsChain' /\ (\A k : HasReceipt(k) => HasReceipt(k)') /\ HasReceipt(l.key)'
<1>1. PICK last \in Nat :
              /\ DOMAIN file' = DOMAIN file \cup {last} /\ last \notin DOMAIN file
              /\ \A i \in DOMAIN file : /\ i < last /\ ~(last < i) /\ file'[i] = file[i]
                                        /\ Receipt(i)' <=> Receipt(i)
              /\ file'[last] = l /\ (Receipt(last)' <=> l.status # "DISPATCHED") /\ ~(last < last)
  BY OneLineMore
<1>2. /\ Mined' = Mined /\ \A k, m : Before(k, m)' <=> Before(k, m)
      /\ \A k, m : Precedes(k, m) => Precedes(k, m)'
  BY SameChain
<1>3. (\A k : HasReceipt(k) => HasReceipt(k)') /\ HasReceipt(l.key)'
  BY <1>1 DEF HasReceipt
<1>4. \A i \in DOMAIN file' : file'[i].key \in Mined'
  BY <1>1, <1>2 DEF FileFollowsChain
<1>5. ASSUME NEW i \in DOMAIN file', NEW j \in DOMAIN file', i < j, Receipt(i)', Receipt(j)'
      PROVE  Precedes(file'[i].key, file'[j].key)
  BY <1>1, <1>5 DEF FileFollowsChain
<1>6. ASSUME NEW i \in DOMAIN file', Receipt(i)', NEW k \in Key \ dropped, Before(k, file'[i].key)
      PROVE  \E j \in DOMAIN file' : j < i /\ file'[j].key = k /\ Receipt(j)'
  <2>1. CASE i \in DOMAIN file
    <3>1. Before(k, file[i].key) /\ Receipt(i)
      BY <1>1, <1>6, <2>1
    <3>2. PICK j \in DOMAIN file : j < i /\ file[j].key = k /\ Receipt(j)
      BY <2>1, <3>1 DEF FileFollowsChain
    <3> QED BY <1>1, <3>2
  <2>2. CASE i = last
    <3>1. HasReceipt(k)
      BY <1>1, <1>6, <2>2
    <3>2. PICK j \in DOMAIN file : file[j].key = k /\ Receipt(j)
      BY <3>1 DEF HasReceipt
    <3> QED BY <1>1, <2>2, <3>2
  <2> QED BY <1>1, <2>1, <2>2
<1>7. ASSUME NEW j \in DOMAIN file', ~Receipt(j)'
      PROVE  \E i \in DOMAIN file' : i < j /\ file'[i].key = file'[j].key /\ Receipt(i)'
  <2>1. j \in DOMAIN file /\ ~Receipt(j) /\ file'[j] = file[j]
    BY <1>1, <1>7
  <2>2. PICK i \in DOMAIN file : i < j /\ file[i].key = file[j].key /\ Receipt(i)
    BY <2>1 DEF FileFollowsChain
  <2> QED BY <1>1, <2>1, <2>2
<1>8. \A i, j \in DOMAIN file' : i < j /\ Receipt(i)' /\ Receipt(j)' => Precedes(file[i].key, file[j].key)'
  <2> SUFFICES ASSUME NEW i \in DOMAIN file', NEW j \in DOMAIN file', i < j, Receipt(i)', Receipt(j)'
               PROVE  Precedes(file[i].key, file[j].key)'
    OBVIOUS
  <2>1. PICK k, m : k = file'[i].key /\ m = file'[j].key
    OBVIOUS
  <2>2. Precedes(k, m)
    BY <1>5, <2>1
  <2> QED BY <1>2, <2>1, <2>2
<1>9. \A i \in DOMAIN file' : Receipt(i)' => \A k \in Key \ dropped : Before(k, file[i].key)' =>
             \E j \in DOMAIN file' : j < i /\ file'[j].key = k /\ Receipt(j)'
  <2> SUFFICES ASSUME NEW i \in DOMAIN file', Receipt(i)', NEW k \in Key \ dropped, Before(k, file[i].key)'
               PROVE  \E j \in DOMAIN file' : j < i /\ file'[j].key = k /\ Receipt(j)'
    OBVIOUS
  <2>1. PICK m : m = file'[i].key
    OBVIOUS
  <2>2. Before(k, m)'
    BY <2>1
  <2> QED BY <1>2, <1>6, <2>1, <2>2
<1>10. FileFollowsChain'
  BY <1>4, <1>7, <1>8, <1>9 DEF FileFollowsChain
<1> QED BY <1>3, <1>10

(* So does a DISPATCHED line of a settlement that has its receipt.            *)
LEMMA DispatchAppended ==
    ASSUME FileFollowsChain, blocks' = blocks, dropped' = dropped, file \in Seq(Line),
           NEW l \in Line, file' = Append(file, l), l.status = "DISPATCHED", HasReceipt(l.key)
    PROVE  FileFollowsChain' /\ \A k : HasReceipt(k) => HasReceipt(k)'
<1>1. PICK last \in Nat :
              /\ DOMAIN file' = DOMAIN file \cup {last} /\ last \notin DOMAIN file
              /\ \A i \in DOMAIN file : /\ i < last /\ ~(last < i) /\ file'[i] = file[i]
                                        /\ Receipt(i)' <=> Receipt(i)
              /\ file'[last] = l /\ (Receipt(last)' <=> l.status # "DISPATCHED") /\ ~(last < last)
  BY OneLineMore
<1>2. /\ Mined' = Mined /\ \A k, m : Before(k, m)' <=> Before(k, m)
      /\ \A k, m : Precedes(k, m) => Precedes(k, m)'
  BY SameChain
<1>3. \A k : HasReceipt(k) => HasReceipt(k)'
  BY <1>1 DEF HasReceipt
<1>4. PICK r \in DOMAIN file : file[r].key = l.key /\ Receipt(r)
  BY DEF HasReceipt
<1>5. \A i \in DOMAIN file' : file'[i].key \in Mined'
  BY <1>1, <1>2, <1>4 DEF FileFollowsChain
<1>6. ASSUME NEW j \in DOMAIN file', ~Receipt(j)'
      PROVE  \E i \in DOMAIN file' : i < j /\ file'[i].key = file'[j].key /\ Receipt(i)'
  <2>1. CASE j = last
    BY <1>1, <1>4, <2>1
  <2>2. CASE j \in DOMAIN file
    <3>1. PICK i \in DOMAIN file : i < j /\ file[i].key = file[j].key /\ Receipt(i)
      BY <1>1, <1>6, <2>2 DEF FileFollowsChain
    <3> QED BY <1>1, <2>2, <3>1
  <2> QED BY <1>1, <2>1, <2>2
<1>7. \A i \in DOMAIN file' : Receipt(i)' => i \in DOMAIN file /\ Receipt(i) /\ file'[i] = file[i]
  BY <1>1
<1>8. ASSUME NEW i \in DOMAIN file', NEW j \in DOMAIN file', i < j, Receipt(i)', Receipt(j)'
      PROVE  Precedes(file[i].key, file[j].key)'
  <2>1. PICK k, m : k = file'[i].key /\ m = file'[j].key
    OBVIOUS
  <2>2. Precedes(k, m)
    BY <1>7, <1>8, <2>1 DEF FileFollowsChain
  <2> QED BY <1>2, <2>1, <2>2
<1>9. ASSUME NEW i \in DOMAIN file', Receipt(i)', NEW k \in Key \ dropped, Before(k, file[i].key)'
      PROVE  \E j \in DOMAIN file' : j < i /\ file'[j].key = k /\ Receipt(j)'
  <2>1. PICK m : m = file'[i].key
    OBVIOUS
  <2>2. Before(k, m)' /\ m = file[i].key
    BY <1>7, <1>9, <2>1
  <2>3. Before(k, file[i].key)
    BY <1>2, <2>2
  <2>4. PICK j \in DOMAIN file : j < i /\ file[j].key = k /\ Receipt(j)
    BY <1>7, <1>9, <2>3 DEF FileFollowsChain
  <2> QED BY <1>1, <2>4
<1>10. FileFollowsChain'
  BY <1>5, <1>6, <1>8, <1>9 DEF FileFollowsChain
<1> QED BY <1>3, <1>10

(* A failure cuts the file's end off, receipts and all; more may be dropped.  *)
LEMMA FileCut ==
    ASSUME FileFollowsChain, blocks' = blocks, dropped \subseteq dropped', file \in Seq(Line),
           file' \in Seq(Line), Len(file') <= Len(file),
           \A i \in DOMAIN file' : /\ i \in DOMAIN file
                                   /\ file'[i].key = file[i].key /\ file'[i].status = file[i].status
    PROVE  FileFollowsChain'
<1>1. /\ DOMAIN file = 1..Len(file) /\ DOMAIN file' = 1..Len(file')
      /\ Len(file) \in Nat /\ Len(file') \in Nat
  OBVIOUS
<1>2. \A i \in DOMAIN file' : \A j \in DOMAIN file : j < i => j \in DOMAIN file'
  BY <1>1
<1>3. \A i \in DOMAIN file' : Receipt(i)' <=> Receipt(i)
  BY DEF Receipt
<1>4. /\ Mined' = Mined /\ \A k, m : Before(k, m)' <=> Before(k, m)
      /\ \A k, m : Precedes(k, m) => Precedes(k, m)'
  BY SameChain
<1>5. \A i \in DOMAIN file' : file'[i].key \in Mined'
  BY <1>4 DEF FileFollowsChain
<1>6. ASSUME NEW j \in DOMAIN file', ~Receipt(j)'
      PROVE  \E i \in DOMAIN file' : i < j /\ file'[i].key = file'[j].key /\ Receipt(i)'
  <2>1. PICK i \in DOMAIN file : i < j /\ file[i].key = file[j].key /\ Receipt(i)
    BY <1>3, <1>6 DEF FileFollowsChain
  <2>2. i \in DOMAIN file'
    BY <1>2, <2>1
  <2> QED BY <1>3, <2>1, <2>2
<1>7. ASSUME NEW i \in DOMAIN file', NEW j \in DOMAIN file', i < j, Receipt(i)', Receipt(j)'
      PROVE  Precedes(file[i].key, file[j].key)'
  <2>1. PICK k, m : k = file'[i].key /\ m = file'[j].key
    OBVIOUS
  <2>2. Precedes(k, m)
    BY <1>3, <1>7, <2>1 DEF FileFollowsChain
  <2> QED BY <1>4, <2>1, <2>2
<1>8. ASSUME NEW i \in DOMAIN file', Receipt(i)', NEW k \in Key \ dropped', Before(k, file[i].key)'
      PROVE  \E j \in DOMAIN file' : j < i /\ file'[j].key = k /\ Receipt(j)'
  <2>1. PICK m : m = file'[i].key
    OBVIOUS
  <2>2. Before(k, m)' /\ m = file[i].key
    BY <1>8, <2>1
  <2>3. Before(k, file[i].key)
    BY <1>4, <2>2
  <2>4. PICK j \in DOMAIN file : j < i /\ file[j].key = k /\ Receipt(j)
    <3>1. k \in Key \ dropped
      BY <1>8
    <3> QED BY <1>3, <1>8, <2>3, <3>1 DEF FileFollowsChain
  <2>5. j \in DOMAIN file'
    BY <1>2, <2>4
  <2> QED BY <1>3, <2>4, <2>5
<1> QED BY <1>5, <1>6, <1>7, <1>8 DEF FileFollowsChain

------------------------------------------------------------------------------
(* The watcher's own steps.                                                   *)

(* A step of the watcher that leaves the store alone.                         *)
LEMMA WatchOnly ==
    ASSUME PipelineInv, UNCHANGED storeVars, blocks' = blocks, dropped' = dropped,
           WatcherShape', QueueFollowsChain', HandledOnce',
           op.status = "PENDING" => watcher' = "appending" /\ op.key = Head(queue')
    PROVE  PipelineInv'
<1>1. UNCHANGED <<proc, file, records, order, op, failed>>
  BY DEF storeVars
<1>2. StoreInv' /\ ChainShape'
  BY NextStoreInv, SameChain DEF PipelineInv
<1>3. Mined' = Mined /\ (\A k, m : Before(k, m)' <=> Before(k, m))
      /\ (\A i : Receipt(i)' <=> Receipt(i)) /\ (\A k : HasReceipt(k)' <=> HasReceipt(k))
      /\ \A k, m : Precedes(k, m) => Precedes(k, m)'
  BY <1>1, SameChain DEF Receipt, HasReceipt
<1>4. FileFollowsChain'
  BY <1>1, FileCut DEF PipelineInv, StoreInv, TypeOK
<1>5. MemoryFollowsFile'
  BY <1>1, <1>3 DEF PipelineInv, MemoryFollowsFile
<1>6. OrderFollowsChain'
  BY <1>1, <1>3 DEF PipelineInv, OrderFollowsChain
<1> QED BY <1>2, <1>4, <1>5, <1>6 DEF PipelineInv

(* BlockNumber, and a poll that fails.                                        *)
LEMMA PollPreserves == PipelineInv /\ (PollHead \/ PollFails) => PipelineInv'
<1> SUFFICES ASSUME PipelineInv, PollHead \/ PollFails PROVE PipelineInv'
  OBVIOUS
<1>1. /\ UNCHANGED storeVars /\ blocks' = blocks
      /\ UNCHANGED <<nextBlock, queue, seqCount, dropped, failures>>
      /\ watcher \in {"idle", "polling"} /\ watcher' \in {"polling", "dead"}
      /\ head' = head \/ head' = Len(blocks)
  BY DEF PollHead, PollFails
<1>2. UNCHANGED <<proc, file, records, order, op, failed>>
  BY <1>1 DEF storeVars
<1>3. queue = <<>>
  BY <1>1 DEF PipelineInv, WatcherShape
<1>4. WatcherShape'
  <2>1. Len(blocks) \in Nat /\ Len(blocks) \in 0..Len(blocks)
    BY DEF PipelineInv, ChainShape
  <2> QED BY <1>1, <1>2, <1>3, <2>1 DEF PipelineInv, WatcherShape
<1>5. QueueFollowsChain'
  BY <1>1, <1>3 DEF QueueFollowsChain, ToSet
<1>6. HandledOnce'
  <2>1. \A k : Done(k)' <=> Done(k)
    BY <1>1, <1>3 DEF Done, InBlocks, ToSet
  <2>2. \A k : HasReceipt(k)' <=> HasReceipt(k)
    BY <1>2 DEF HasReceipt, Receipt
  <2> QED BY <1>1, <1>2, <2>1, <2>2 DEF PipelineInv, HandledOnce, Watching
<1>7. op.status # "PENDING"
  BY <1>1 DEF PipelineInv, MemoryFollowsFile
<1> QED BY <1>1, <1>4, <1>5, <1>6, <1>7, WatchOnly

(* FilterLogs: the cursor moves behind the last block with a log, and every    *)
(* log before it is in hand.                                                  *)
LEMMA PollLogsPreserves == PipelineInv /\ PollLogs => PipelineInv'
<1> SUFFICES ASSUME PipelineInv, PollLogs PROVE PipelineInv'
  OBVIOUS
<1> DEFINE logs == LogsBetween(nextBlock, head)
<1>1. /\ UNCHANGED storeVars /\ blocks' = blocks /\ UNCHANGED <<head, seqCount, dropped, failures>>
      /\ watcher = "polling" /\ queue' = logs
      /\ nextBlock' = IF logs = <<>> THEN nextBlock ELSE BlockOf(logs[Len(logs)]) + 1
      /\ watcher' = IF logs = <<>> THEN "idle" ELSE "handling"
  BY DEF PollLogs
<1>2. UNCHANGED <<proc, file, records, order, op, failed>>
  BY <1>1 DEF storeVars
<1>3. queue = <<>> /\ ToSet(queue) = {} /\ op.status # "PENDING"
  BY <1>1 DEF PipelineInv, WatcherShape, MemoryFollowsFile, ToSet
<1>4. /\ nextBlock \in Nat /\ head \in 0..Len(blocks) /\ Len(blocks) \in Nat
      /\ nextBlock \in 0..(Len(blocks) + 1) /\ DOMAIN blocks = 1..Len(blocks)
  BY DEF PipelineInv, WatcherShape, ChainShape
<1>5. Lists(logs, nextBlock, head)
  BY <1>4, LogsListed DEF PipelineInv
<1>6. /\ logs \in Seq(Key)
      /\ \A k \in Key : k \in ToSet(logs) <=> InBlocks(k, nextBlock, head)
      /\ \A i, j \in DOMAIN logs : i < j => Before(logs[i], logs[j])
  BY <1>5 DEF Lists
<1> HIDE DEF logs
<1>7. /\ \A k, m : Before(k, m)' <=> Before(k, m)
      /\ \A k, from, to : InBlocks(k, from, to)' <=> InBlocks(k, from, to)
  BY <1>1, SameChain
<1>8. CASE logs = <<>>
  <2>1. UNCHANGED <<nextBlock, queue>> /\ watcher' = "idle"
    BY <1>1, <1>3, <1>8
  <2>2. WatcherShape'
    BY <1>1, <1>2, <1>3, <2>1 DEF PipelineInv, WatcherShape
  <2>3. QueueFollowsChain'
    BY <1>3, <2>1 DEF QueueFollowsChain, ToSet
  <2>4. HandledOnce'
    <3>1. \A k : Done(k)' <=> Done(k)
      BY <1>1, <1>3, <2>1 DEF Done, InBlocks
    <3>2. \A k : HasReceipt(k)' <=> HasReceipt(k)
      BY <1>2 DEF HasReceipt, Receipt
    <3> QED BY <1>1, <1>2, <2>1, <3>1, <3>2 DEF PipelineInv, HandledOnce, Watching
  <2> QED BY <1>1, <1>3, <2>2, <2>3, <2>4, WatchOnly
<1>9. CASE logs # <<>>
  <2>1. PICK z \in Key : z = logs[Len(logs)]
    BY <1>6, <1>9
  <2>2. Len(logs) \in DOMAIN logs /\ DOMAIN logs = 1..Len(logs) /\ Len(logs) \in Nat /\ z \in ToSet(logs)
    <3>1. Len(logs) \in DOMAIN logs /\ DOMAIN logs = 1..Len(logs) /\ Len(logs) \in Nat
      BY <1>6, <1>9
    <3> QED BY <2>1, <3>1 DEF ToSet
  <2>3. PICK c \in DOMAIN blocks : nextBlock <= c /\ c <= head /\ z \in ToSet(blocks[c])
    BY <1>6, <2>2 DEF InBlocks
  <2>4. BlockOf(z) = c
    <3>1. BlockOf(z) \in DOMAIN blocks /\ z \in ToSet(blocks[BlockOf(z)])
      BY <2>3 DEF BlockOf
    <3> QED BY <2>3, <3>1, OneBlock DEF PipelineInv
  <2>5. nextBlock' = c + 1 /\ c \in Nat /\ c >= 1
    BY <1>1, <1>4, <1>9, <2>1, <2>3, <2>4
  <2>6. \A k \in ToSet(logs) : k \in Key /\ (k = z \/ Before(k, z))
    <3> SUFFICES ASSUME NEW i \in DOMAIN logs PROVE logs[i] \in Key /\ (logs[i] = z \/ Before(logs[i], z))
      BY DEF ToSet
    <3>1. i = Len(logs) \/ i < Len(logs)
      BY <2>2
    <3> QED BY <1>6, <2>1, <2>2, <3>1
  <2>7. \A k \in Key : InBlocks(k, 1, nextBlock - 1)' <=> InBlocks(k, 1, c)
    BY <1>1, <2>5 DEF InBlocks
  <2>8. \A k \in Key : InBlocks(k, 1, c) <=> InBlocks(k, 1, nextBlock - 1) \/ k \in ToSet(logs)
    <3> SUFFICES ASSUME NEW k \in Key
                 PROVE  InBlocks(k, 1, c) <=> InBlocks(k, 1, nextBlock - 1) \/ k \in ToSet(logs)
      OBVIOUS
    <3>1. ASSUME NEW n \in DOMAIN blocks, 1 <= n, n <= c, k \in ToSet(blocks[n]), n >= nextBlock
          PROVE  k \in ToSet(logs)
      <4>1. n <= head
        BY <1>4, <2>3, <2>5, <3>1
      <4> QED BY <1>6, <3>1, <4>1 DEF InBlocks
    <3>2. \A n \in DOMAIN blocks : n >= nextBlock \/ n <= nextBlock - 1
      BY <1>4
    <3>3. InBlocks(k, 1, c) => InBlocks(k, 1, nextBlock - 1) \/ k \in ToSet(logs)
      BY <3>1, <3>2 DEF InBlocks
    <3>4. InBlocks(k, 1, nextBlock - 1) => InBlocks(k, 1, c)
      <4>1. \A n \in DOMAIN blocks : n <= nextBlock - 1 => n <= c
        BY <1>4, <2>3, <2>5
      <4> QED BY <4>1 DEF InBlocks
    <3>5. k \in ToSet(logs) => InBlocks(k, 1, c)
      <4> SUFFICES ASSUME k \in ToSet(logs), ~InBlocks(k, 1, c) PROVE FALSE
        OBVIOUS
      <4>1. PICK n \in DOMAIN blocks : nextBlock <= n /\ k \in ToSet(blocks[n])
        BY <1>6 DEF InBlocks
      <4>2. c < n /\ n \in Nat
        BY <1>4, <2>5, <4>1 DEF InBlocks
      <4>3. Before(z, k) /\ k # z
        <5>1. PICK a \in DOMAIN blocks[n] : blocks[n][a] = k
          BY <4>1 DEF ToSet
        <5>2. PICK b \in DOMAIN blocks[c] : blocks[c][b] = z
          BY <2>3 DEF ToSet
        <5>3. k # z
          BY <2>3, <2>5, <4>1, <4>2, OneBlock DEF PipelineInv
        <5> QED BY <4>2, <5>1, <5>2, <5>3 DEF Before
      <4> QED BY <2>6, <4>3, BeforeOrder DEF PipelineInv
    <3> QED BY <3>3, <3>4, <3>5
  <2>9. \A k \in ToSet(logs) : ~InBlocks(k, 1, nextBlock - 1)
    <3> SUFFICES ASSUME NEW k \in ToSet(logs), InBlocks(k, 1, nextBlock - 1) PROVE FALSE
      OBVIOUS
    <3>1. PICK n \in DOMAIN blocks : nextBlock <= n /\ k \in ToSet(blocks[n])
      BY <1>6, <2>6 DEF InBlocks
    <3>2. PICK m \in DOMAIN blocks : m <= nextBlock - 1 /\ k \in ToSet(blocks[m])
      BY DEF InBlocks
    <3>3. m = n
      BY <3>1, <3>2, OneBlock DEF PipelineInv
    <3> QED BY <1>4, <3>1, <3>2, <3>3
  <2>10. WatcherShape'
    <3>1. nextBlock' \in 0..(Len(blocks) + 1)
      BY <1>4, <2>3, <2>5
    <3> QED BY <1>1, <1>2, <1>4, <1>6, <1>9, <3>1 DEF PipelineInv, WatcherShape
  <2>11. QueueFollowsChain'
    <3>1. ASSUME NEW k \in ToSet(logs), NEW l \in Key, InBlocks(l, 1, nextBlock - 1) PROVE Before(l, k)
      <4>1. PICK n \in DOMAIN blocks : nextBlock <= n /\ k \in ToSet(blocks[n])
        BY <1>6, <2>6 DEF InBlocks
      <4>2. PICK m \in DOMAIN blocks : m <= nextBlock - 1 /\ l \in ToSet(blocks[m])
        BY <3>1 DEF InBlocks
      <4>3. m < n
        BY <1>4, <4>1, <4>2
      <4>4. PICK a \in DOMAIN blocks[n] : blocks[n][a] = k
        BY <4>1 DEF ToSet
      <4>5. PICK b \in DOMAIN blocks[m] : blocks[m][b] = l
        BY <4>2 DEF ToSet
      <4> QED BY <4>3, <4>4, <4>5 DEF Before
    <3>2. \A k \in ToSet(logs) : InBlocks(k, 1, nextBlock - 1)'
      BY <2>6, <2>7, <2>8
    <3>3. \A k \in ToSet(logs) : \A l \in Key :
             InBlocks(l, 1, nextBlock - 1)' /\ l \notin ToSet(logs) => Before(l, k)'
      BY <1>7, <2>7, <2>8, <3>1
    <3>4. \A i, j \in DOMAIN logs : i < j => Before(queue[i], queue[j])'
      <4> SUFFICES ASSUME NEW i \in DOMAIN logs, NEW j \in DOMAIN logs, i < j
                   PROVE  Before(queue[i], queue[j])'
        OBVIOUS
      <4>1. PICK k, m : k = logs[i] /\ m = logs[j]
        OBVIOUS
      <4>2. Before(k, m)'
        BY <1>6, <1>7, <4>1
      <4> QED BY <1>1, <4>1, <4>2
    <3> QED BY <1>1, <3>2, <3>3, <3>4 DEF QueueFollowsChain
  <2>12. HandledOnce'
    <3>1. \A k \in Key : Done(k)' <=> Done(k)
      <4>1. \A k : Done(k) <=> InBlocks(k, 1, nextBlock - 1)
        BY <1>3 DEF Done
      <4>2. watcher' = "handling" /\ ToSet(queue') = ToSet(logs)
        BY <1>1, <1>9
      <4>3. \A k : Done(k)' <=> InBlocks(k, 1, nextBlock - 1)' /\ k \notin ToSet(logs)
        BY <4>2 DEF Done
      <4> QED BY <2>7, <2>8, <2>9, <4>1, <4>3
    <3>2. \A k : HasReceipt(k)' <=> HasReceipt(k)
      BY <1>2 DEF HasReceipt, Receipt
    <3> QED BY <1>1, <1>2, <3>1, <3>2 DEF PipelineInv, HandledOnce, Watching
  <2> QED BY <1>1, <1>3, <2>10, <2>11, <2>12, WatchOnly
<1> QED BY <1>8, <1>9

(* The event in hand is the first of the queue in chain order, and everything  *)
(* before it on the chain has been handled.                                   *)
LEMMA QueueHead ==
    ASSUME PipelineInv, queue # <<>>
    PROVE  /\ Head(queue) \in Key /\ Head(queue) \in ToSet(queue) /\ Tail(queue) \in Seq(Key)
           /\ ToSet(queue) = {Head(queue)} \cup ToSet(Tail(queue))
           /\ Head(queue) \notin ToSet(Tail(queue))
           /\ \A k \in ToSet(Tail(queue)) : Before(Head(queue), k)
           /\ \A i, j \in DOMAIN Tail(queue) : i < j => Before(Tail(queue)[i], Tail(queue)[j])
           /\ InBlocks(Head(queue), 1, nextBlock - 1)
           /\ \A k \in Key : Before(k, Head(queue)) =>
                 k \notin ToSet(queue) /\ InBlocks(k, 1, nextBlock - 1)
<1>1. queue \in Seq(Key) /\ ChainShape /\ QueueFollowsChain
  BY DEF PipelineInv, WatcherShape
<1>2. /\ Len(queue) \in Nat /\ Len(queue) >= 1 /\ DOMAIN queue = 1..Len(queue) /\ Head(queue) = queue[1]
      /\ Tail(queue) \in Seq(Key) /\ DOMAIN Tail(queue) = 1..(Len(queue) - 1)
      /\ \A i \in 1..(Len(queue) - 1) : Tail(queue)[i] = queue[i + 1]
  BY <1>1
<1>3. \A i \in 1..(Len(queue) - 1) : i + 1 \in 1..Len(queue) /\ 1 < i + 1
  BY <1>2
<1>4. 1 \in 1..Len(queue)
  BY <1>2
<1>5. \A i, j \in 1..(Len(queue) - 1) : i < j => i + 1 < j + 1
  BY <1>2
<1>6. \A i \in 1..Len(queue) : i = 1 \/ (i - 1 \in 1..(Len(queue) - 1) /\ i = (i - 1) + 1)
  BY <1>2
<1>7. Head(queue) \in Key /\ Head(queue) \in ToSet(queue)
  BY <1>1, <1>2, <1>4 DEF ToSet
<1>8. \A k \in ToSet(Tail(queue)) : Before(Head(queue), k)
  BY <1>1, <1>2, <1>3, <1>4 DEF ToSet, QueueFollowsChain
<1>9. \A i, j \in DOMAIN Tail(queue) : i < j => Before(Tail(queue)[i], Tail(queue)[j])
  BY <1>1, <1>2, <1>3, <1>5 DEF QueueFollowsChain
<1>10. Head(queue) \notin ToSet(Tail(queue))
  BY <1>1, <1>8, BeforeOrder
<1>11. ToSet(queue) = {Head(queue)} \cup ToSet(Tail(queue))
  <2>1. \A x \in ToSet(queue) : x = Head(queue) \/ x \in ToSet(Tail(queue))
    <3> SUFFICES ASSUME NEW i \in 1..Len(queue), i # 1 PROVE queue[i] \in ToSet(Tail(queue))
      BY <1>2 DEF ToSet
    <3>1. PICK j \in 1..(Len(queue) - 1) : i = j + 1
      BY <1>6
    <3>2. Tail(queue)[j] = queue[i]
      BY <1>2, <3>1
    <3> QED BY <1>2, <3>2 DEF ToSet
  <2>2. \A x \in ToSet(Tail(queue)) : x \in ToSet(queue)
    BY <1>2, <1>3 DEF ToSet
  <2> QED BY <1>7, <2>1, <2>2
<1>12. InBlocks(Head(queue), 1, nextBlock - 1)
  BY <1>1, <1>7 DEF QueueFollowsChain
<1>13. ASSUME NEW k \in Key, Before(k, Head(queue))
       PROVE  k \notin ToSet(queue) /\ InBlocks(k, 1, nextBlock - 1)
  <2>1. k \notin ToSet(queue)
    BY <1>1, <1>8, <1>11, <1>13, BeforeOrder
  <2>2. PICK h : h = Head(queue)
    OBVIOUS
  <2>3. PICK c \in DOMAIN blocks : 1 <= c /\ c <= nextBlock - 1 /\ h \in ToSet(blocks[c])
    BY <1>12, <2>2 DEF InBlocks
  <2>4. PICK m \in DOMAIN blocks, n \in DOMAIN blocks :
           \E a \in DOMAIN blocks[m], b \in DOMAIN blocks[n] :
              /\ blocks[m][a] = k /\ blocks[n][b] = h
              /\ m < n \/ (m = n /\ a < b)
    BY <1>13, <2>2 DEF Before
  <2>5. k \in ToSet(blocks[m]) /\ h \in ToSet(blocks[n])
    BY <2>4 DEF ToSet
  <2>6. n = c
    BY <1>1, <2>3, <2>5, OneBlock
  <2>7. m \in Nat /\ c \in Nat /\ nextBlock \in Nat /\ 1 <= m
    <3>1. blocks \in Seq(Seq(Key)) /\ nextBlock \in Nat
      BY <1>1 DEF PipelineInv, WatcherShape, ChainShape
    <3>2. DOMAIN blocks = 1..Len(blocks) /\ Len(blocks) \in Nat
      BY <3>1
    <3> QED BY <3>1, <3>2
  <2>8. m <= nextBlock - 1
    BY <2>3, <2>4, <2>6, <2>7
  <2> QED BY <2>1, <2>5, <2>7, <2>8 DEF InBlocks
<1> QED BY <1>2, <1>7, <1>8, <1>9, <1>10, <1>11, <1>12, <1>13

(* Handle returns, and Run goes on to the next event.                         *)
LEMMA NextEventPreserves == PipelineInv /\ (HandleKnown \/ HandleReturns) => PipelineInv'
<1> SUFFICES ASSUME PipelineInv, HandleKnown \/ HandleReturns PROVE PipelineInv'
  OBVIOUS
<1>1. /\ UNCHANGED storeVars /\ blocks' = blocks /\ UNCHANGED <<head, nextBlock, seqCount, dropped, failures>>
      /\ watcher \in {"handling", "appending"} /\ queue' = Tail(queue)
      /\ watcher' = IF Tail(queue) = <<>> THEN "idle" ELSE "handling"
  BY DEF HandleKnown, HandleReturns, NextEvent
<1>2. UNCHANGED <<proc, file, records, order, op, failed>>
  BY <1>1 DEF storeVars
<1>3. queue # <<>>
  BY <1>1 DEF PipelineInv, WatcherShape
<1>4. PICK h \in Key : h = Head(queue)
  BY <1>3, QueueHead
<1>5. PICK t \in Seq(Key) : t = Tail(queue)
  BY <1>3, QueueHead
<1>6. /\ ToSet(queue) = {h} \cup ToSet(t) /\ h \notin ToSet(t)
      /\ \A k \in ToSet(t) : Before(h, k)
      /\ \A i, j \in DOMAIN t : i < j => Before(t[i], t[j])
      /\ InBlocks(h, 1, nextBlock - 1)
  BY <1>3, <1>4, <1>5, QueueHead
<1>7. op.status # "PENDING"
  <2>1. CASE HandleKnown
    BY <2>1 DEF HandleKnown, Idle
  <2>2. CASE HandleReturns
    BY <2>2 DEF HandleReturns, PipelineInv, MemoryFollowsFile
  <2> QED BY <2>1, <2>2
<1>8. WatcherShape'
  BY <1>1, <1>2, <1>5 DEF PipelineInv, WatcherShape
<1>9. /\ \A k, m : Before(k, m)' <=> Before(k, m)
      /\ \A k : InBlocks(k, 1, nextBlock - 1)' <=> InBlocks(k, 1, nextBlock - 1)
      /\ \A k : HasReceipt(k)' <=> HasReceipt(k)
  BY <1>1, <1>2, SameChain DEF HasReceipt, Receipt, InBlocks
<1>10. QueueFollowsChain'
  <2>1. \A k \in ToSet(t) : /\ InBlocks(k, 1, nextBlock - 1)
                            /\ \A l \in Key : InBlocks(l, 1, nextBlock - 1) /\ l \notin ToSet(t) => Before(l, k)
    BY <1>6 DEF PipelineInv, QueueFollowsChain
  <2>2. \A i, j \in DOMAIN t : i < j => Before(queue[i], queue[j])'
    <3> SUFFICES ASSUME NEW i \in DOMAIN t, NEW j \in DOMAIN t, i < j
                 PROVE  Before(queue[i], queue[j])'
      OBVIOUS
    <3>1. PICK k, m : k = t[i] /\ m = t[j]
      OBVIOUS
    <3>2. Before(k, m)'
      BY <1>6, <1>9, <3>1
    <3> QED BY <1>1, <1>5, <3>1, <3>2
  <2> QED BY <1>1, <1>5, <1>9, <2>1, <2>2 DEF QueueFollowsChain
<1>11. HandledOnce'
  <2>1. HasReceipt(h) \/ (h \in dropped /\ h \in failed)
    <3>1. CASE HandleKnown
      BY <1>4, <3>1 DEF HandleKnown, PipelineInv, MemoryFollowsFile
    <3>2. CASE HandleReturns
      <4>1. watcher = "appending" /\ Done(h)
        BY <1>4, <1>6, <3>2 DEF HandleReturns, Done
      <4> QED BY <4>1 DEF PipelineInv, HandledOnce, Watching
    <3> QED BY <3>1, <3>2
  <2>2. \A k : Done(k)' <=> Done(k) \/ k = h
    <3>1. \A k : Done(k)' <=> InBlocks(k, 1, nextBlock - 1) /\ k \notin ToSet(t)
      BY <1>1, <1>5, <1>9 DEF Done
    <3>2. \A k : Done(k) => InBlocks(k, 1, nextBlock - 1) /\ (k \in ToSet(queue) => k = h)
      BY <1>4 DEF Done
    <3>3. \A k : InBlocks(k, 1, nextBlock - 1) /\ k \notin ToSet(queue) => Done(k)
      BY DEF Done
    <3> QED BY <1>6, <3>1, <3>2, <3>3
  <2> QED BY <1>1, <1>2, <1>9, <2>1, <2>2 DEF PipelineInv, HandledOnce, Watching
<1> QED BY <1>1, <1>7, <1>8, <1>10, <1>11, WatchOnly

(* A failed write is one more failure.                                        *)
LEMMA FailedWriteCounted ==
    ASSUME NEW k, CountFailedWrite(k), failures \in 0..MaxFailures PROVE failures' \in 0..MaxFailures
  BY PipelineBounds DEF CountFailedWrite

(* Append writes the receipt of the first settlement that has none, or fails. *)
LEMMA HandleNewPreserves == PipelineInv /\ HandleNew => PipelineInv'
<1> SUFFICES ASSUME PipelineInv, HandleNew PROVE PipelineInv'
  OBVIOUS
<1>1. /\ watcher = "handling" /\ watcher' = "appending" /\ seqCount' = (seqCount + 1) % SeqLimit
      /\ blocks' = blocks /\ UNCHANGED <<head, nextBlock, queue>>
      /\ dropped' = IF file' = file THEN dropped \cup {Head(queue)} ELSE dropped
      /\ AppendRecord(Head(queue)) /\ CountFailedWrite(Head(queue))
  BY DEF HandleNew
<1>2. queue # <<>>
  BY <1>1 DEF PipelineInv, WatcherShape
<1>3. PICK h \in Key : h = Head(queue)
  BY <1>2, QueueHead
<1>4. /\ h \in ToSet(queue) /\ InBlocks(h, 1, nextBlock - 1)
      /\ \A k \in Key : Before(k, h) => k \notin ToSet(queue) /\ InBlocks(k, 1, nextBlock - 1)
  BY <1>2, <1>3, QueueHead
<1>5. records[h] = "NONE" /\ WriteLine(h, "PENDING")
  BY <1>1, <1>3 DEF AppendRecord
<1>6. StoreInv' /\ ChainShape'
  BY <1>1, <1>3, AppendRecordPreserves, SameChain DEF PipelineInv
<1>7. op = Idle /\ proc = "up" /\ (NothingWritten(h) \/ LineWritten(h, "PENDING"))
  BY <1>5, WriteLineCases DEF PipelineInv, StoreInv, Recorded
<1>8. file \in Seq(Line) /\ \A i \in DOMAIN file : file[i].key \in Key
  <2>1. file \in Seq(Line)
    BY DEF PipelineInv, StoreInv, TypeOK
  <2>2. \A i \in DOMAIN file : file[i] \in Line
    BY <2>1
  <2> QED BY <2>1, <2>2 DEF Line
<1>9. \A i \in DOMAIN file : file[i].key # h
  <2> SUFFICES ASSUME NEW i \in DOMAIN file, file[i].key = h PROVE FALSE
    OBVIOUS
  <2>1. h \in failed
    BY <1>5, <1>7 DEF PipelineInv, MemoryFollowsFile
  <2>2. Done(h)
    BY <1>1, <1>5, <2>1 DEF PipelineInv, HandledOnce, Watching
  <2> QED BY <1>1, <1>4, <2>2 DEF Done
<1>10. /\ \A k, m : Before(k, m)' <=> Before(k, m)
       /\ \A k : InBlocks(k, 1, nextBlock - 1)' <=> InBlocks(k, 1, nextBlock - 1)
  BY <1>1, SameChain DEF InBlocks
<1>11. QueueFollowsChain'
  BY <1>1, <1>10 DEF PipelineInv, QueueFollowsChain
<1>12. /\ proc' = proc /\ records' = records /\ order' = order
       /\ failed \subseteq failed' /\ failed' \subseteq failed \cup {h}
  <2>1. CASE NothingWritten(h)
    BY <2>1 DEF NothingWritten
  <2>2. CASE LineWritten(h, "PENDING")
    BY <2>2, WriteLineAppends DEF PipelineInv, StoreInv, Recorded
  <2> QED BY <1>7, <2>1, <2>2
<1>13. WatcherShape'
  <2>1. seqCount' \in 0..(SeqLimit - 1)
    BY <1>1, SeqModAssumption DEF PipelineInv, WatcherShape
  <2>2. failures' \in 0..MaxFailures
    BY <1>1, FailedWriteCounted DEF PipelineInv, WatcherShape
  <2>3. dropped' \in SUBSET Key /\ dropped \subseteq dropped'
    BY <1>1, <1>3 DEF PipelineInv, WatcherShape
  <2> QED BY <1>1, <1>2, <1>7, <1>12, <2>1, <2>2, <2>3 DEF PipelineInv, WatcherShape
<1>14. OrderFollowsChain'
  <2>1. \A k, m : Precedes(k, m) => Precedes(k, m)'
    BY <1>1, SameChain
  <2> QED BY <1>12, <2>1 DEF PipelineInv, OrderFollowsChain
<1>15. /\ \A k \in Key : Done(k)' <=> Done(k) \/ k = h
       /\ \A k \in Key : k \in failed' /\ records'[k] = "NONE" => Done(k)'
  <2>1. \A k \in Key : Done(k)' <=> Done(k) \/ k = h
    BY <1>1, <1>3, <1>4, <1>10 DEF Done
  <2> QED BY <1>1, <1>12, <2>1 DEF PipelineInv, HandledOnce, Watching
<1>16. CASE NothingWritten(h)
  <2>1. UNCHANGED <<file, op>> /\ h \in failed' /\ dropped' = dropped \cup {h}
    BY <1>1, <1>3, <1>16 DEF NothingWritten
  <2>2. FileFollowsChain'
    BY <1>1, <1>8, <2>1, FileCut DEF PipelineInv
  <2>3. \A k : HasReceipt(k)' <=> HasReceipt(k)
    BY <2>1 DEF HasReceipt, Receipt
  <2>4. op'.status # "PENDING"
    BY <1>7, <2>1 DEF Idle
  <2>5. MemoryFollowsFile'
    BY <1>7, <1>12, <2>1, <2>3, <2>4 DEF PipelineInv, MemoryFollowsFile
  <2>6. HandledOnce'
    BY <1>1, <1>12, <1>15, <2>1, <2>3 DEF PipelineInv, HandledOnce, Watching
  <2> QED BY <1>6, <1>11, <1>13, <1>14, <2>2, <2>5, <2>6 DEF PipelineInv
<1>17. CASE LineWritten(h, "PENDING")
  <2>1. dropped' = dropped
    BY <1>1, <1>17 DEF LineWritten
  <2>2. \/ op' = [key |-> h, status |-> "PENDING", pc |-> "sync"]
        \/ op' = Idle /\ h \in failed'
    BY <1>17, WriteLineAppends DEF PipelineInv, StoreInv, Recorded
  <2>3. PICK l \in Line : file' = Append(file, l) /\ l.key = h /\ l.status = "PENDING"
    BY <1>17, WriteLineAppends DEF PipelineInv, StoreInv, Recorded
  <2>4. h \in Mined /\ ChainShape /\ FileFollowsChain
    BY <1>4, BehindMined DEF PipelineInv
  <2>5. ASSUME NEW i \in DOMAIN file, Receipt(i) PROVE Precedes(file[i].key, h)
    <3>1. Before(h, file[i].key) => h \in dropped
      BY <1>9, <2>4, <2>5 DEF FileFollowsChain
    <3>2. file[i].key \in Mined
      BY <2>4 DEF FileFollowsChain
    <3> QED BY <1>9, <2>4, <3>1, <3>2, BeforeOrder DEF Precedes
  <2>6. \A k \in Key \ dropped : Before(k, h) => HasReceipt(k)
    <3> SUFFICES ASSUME NEW k \in Key \ dropped, Before(k, h) PROVE HasReceipt(k)
      OBVIOUS
    <3>1. Done(k)
      BY <1>4 DEF Done
    <3> QED BY <1>1, <3>1 DEF PipelineInv, HandledOnce, Watching
  <2>7. FileFollowsChain' /\ (\A k : HasReceipt(k) => HasReceipt(k)') /\ HasReceipt(h)'
    <3>1. \A i \in DOMAIN file : Receipt(i) => Precedes(file[i].key, l.key)
      BY <2>3, <2>5
    <3>2. \A k \in Key \ dropped : Before(k, l.key) => HasReceipt(k)
      BY <2>3, <2>6
    <3>3. FileFollowsChain' /\ (\A k : HasReceipt(k) => HasReceipt(k)') /\ HasReceipt(l.key)'
      BY <1>1, <1>8, <2>1, <2>3, <2>4, <3>1, <3>2, ReceiptAppended
    <3> QED BY <2>3, <3>3
  <2>8. MemoryFollowsFile'
    <3>1. \A k \in Key : records'[k] # "NONE" => HasReceipt(k)'
      BY <1>12, <2>7 DEF PipelineInv, MemoryFollowsFile
    <3>2. \A i \in DOMAIN file' : \/ records'[file'[i].key] # "NONE" \/ file'[i].key \in failed'
                                  \/ op' # Idle /\ file'[i].key = op'.key
      <4>1. PICK last \in Nat :
                /\ DOMAIN file' = DOMAIN file \cup {last}
                /\ \A i \in DOMAIN file : file'[i] = file[i]
                /\ file'[last] = l
        BY <1>8, <2>3, OneLineMore
      <4>2. h \in failed' \/ (op' # Idle /\ op'.key = h)
        BY <2>2 DEF Idle
      <4> QED BY <1>7, <1>12, <2>3, <4>1, <4>2 DEF PipelineInv, MemoryFollowsFile
    <3>3. op'.status = "PENDING" => watcher' = "appending" /\ op'.key = Head(queue')
      BY <1>1, <1>3, <2>2 DEF Idle
    <3> QED BY <1>7, <1>12, <3>1, <3>2, <3>3 DEF MemoryFollowsFile
  <2>9. HandledOnce'
    BY <1>1, <1>12, <1>15, <2>1, <2>7 DEF PipelineInv, HandledOnce, Watching
  <2> QED BY <1>6, <1>11, <1>13, <1>14, <2>7, <2>8, <2>9 DEF PipelineInv
<1> QED BY <1>7, <1>16, <1>17

------------------------------------------------------------------------------
(* The store's steps.                                                         *)

(* What a step of the store that keeps watcher and chain has to show.         *)
LEMMA StoreOnly ==
    ASSUME PipelineInv, UNCHANGED <<blocks, watchVars, dropped>>, proc' = proc,
           failures' \in 0..MaxFailures, failed \subseteq failed', StoreInv', FileFollowsChain',
           MemoryFollowsFile', OrderFollowsChain',
           \A k \in Key : HasReceipt(k) => HasReceipt(k)',
           \A k \in Key : k \in failed' /\ records'[k] = "NONE" =>
                             (k \in failed /\ records[k] = "NONE") \/ Done(k)
    PROVE  PipelineInv'
<1>1. UNCHANGED <<blocks, watcher, head, nextBlock, queue, seqCount, dropped>>
  BY DEF watchVars
<1>2. ChainShape' /\ WatcherShape' /\ QueueFollowsChain'
  <2>1. ChainShape'
    BY <1>1, SameChain DEF PipelineInv
  <2>2. WatcherShape'
    BY <1>1 DEF PipelineInv, WatcherShape
  <2>3. QueueFollowsChain'
    BY <1>1 DEF PipelineInv, QueueFollowsChain, InBlocks, Before
  <2> QED BY <2>1, <2>2, <2>3
<1>3. \A k : Done(k)' <=> Done(k)
  BY <1>1 DEF Done, InBlocks
<1>4. HandledOnce'
  BY <1>1, <1>3 DEF PipelineInv, HandledOnce, Watching
<1> QED BY <1>2, <1>4 DEF PipelineInv

(* fsync, done or failed.                                                     *)
LEMMA SyncPreserves ==
    ASSUME PipelineInv, SyncLine, UNCHANGED <<blocks, watchVars, dropped>>, failures' \in 0..MaxFailures
    PROVE  PipelineInv'
<1>1. /\ op # Idle /\ op.key \in Key /\ op.status \in Recorded
      /\ op \in [key : Key, status : Recorded, pc : {"sync", "publish"}]
      /\ UNCHANGED <<proc, file, records, order, written>>
  BY OpShape DEF SyncLine, PipelineInv, StoreInv, TypeOK, Idle
<1>2. \/ op' = [op EXCEPT !.pc = "publish"] /\ failed' = failed
      \/ op' = Idle /\ failed' = failed \cup {op.key}
  BY DEF SyncLine
<1>3. StoreInv' /\ UNCHANGED <<blocks, watcher, queue>>
  BY SyncLinePreserves DEF PipelineInv, watchVars
<1>4. FileFollowsChain'
  BY <1>1, FileCut DEF PipelineInv, StoreInv, TypeOK
<1>5. OrderFollowsChain'
  BY <1>1, <1>3 DEF PipelineInv, OrderFollowsChain, Precedes, Before
<1>6. \A k : HasReceipt(k)' <=> HasReceipt(k)
  BY <1>1 DEF HasReceipt, Receipt
<1>7. MemoryFollowsFile'
  <2>1. CASE op' = [op EXCEPT !.pc = "publish"] /\ failed' = failed
    <3>1. op'.key = op.key /\ op'.status = op.status /\ op' # Idle
      BY <1>1, <2>1 DEF Idle
    <3> QED BY <1>1, <1>3, <1>6, <2>1, <3>1 DEF PipelineInv, MemoryFollowsFile
  <2>2. CASE op' = Idle /\ failed' = failed \cup {op.key}
    <3>1. op'.status = "NONE" /\ proc = "up"
      BY <1>1, <2>2 DEF Idle, PipelineInv, StoreInv, CallInProgress
    <3> QED BY <1>1, <1>3, <1>6, <2>2, <3>1 DEF PipelineInv, MemoryFollowsFile
  <2> QED BY <1>2, <2>1, <2>2
<1>8. ASSUME NEW k \in Key, k \in failed', records'[k] = "NONE"
      PROVE  (k \in failed /\ records[k] = "NONE") \/ Done(k)
  <2> SUFFICES ASSUME k \notin failed PROVE Done(k)
    BY <1>1, <1>8
  <2>1. k = op.key /\ op.status = "PENDING"
    BY <1>1, <1>2, <1>8 DEF PipelineInv, StoreInv, CallInProgress, Recorded
  <2>2. watcher = "appending" /\ k = Head(queue) /\ queue # <<>>
    BY <2>1 DEF PipelineInv, MemoryFollowsFile, WatcherShape
  <2> QED BY <2>2, QueueHead DEF Done
<1>9. failed \subseteq failed'
  BY <1>2
<1> QED BY <1>1, <1>3, <1>4, <1>5, <1>6, <1>7, <1>8, <1>9, StoreOnly

(* Append and MarkDispatched publish to memory.                               *)
LEMMA PublishKeeps ==
    ASSUME PipelineInv, Publish, UNCHANGED <<blocks, watchVars, dropped>>, failures' \in 0..MaxFailures
    PROVE  PipelineInv'
<1>1. /\ op # Idle /\ op.key \in Key /\ op.status \in Recorded
      /\ op' = Idle /\ UNCHANGED <<proc, file, failed>>
      /\ records' = [records EXCEPT ![op.key] = op.status]
      /\ order' = IF records[op.key] = "NONE" THEN Append(order, op.key) ELSE order
      /\ records \in [Key -> Status] /\ order \in Seq(Key)
  BY OpShape DEF Publish, PipelineInv, StoreInv, TypeOK, Idle
<1>2. StoreInv' /\ UNCHANGED <<blocks, watcher, queue>>
  BY PublishPreserves DEF PipelineInv, watchVars
<1>3. /\ file # <<>> /\ file[Len(file)] = NewLine(op.key, op.status)
      /\ op.status = "PENDING" => records[op.key] = "NONE"
      /\ op.status = "DISPATCHED" => records[op.key] = "PENDING"
      /\ file \in Seq(Line)
  BY <1>1 DEF PipelineInv, StoreInv, TypeOK, CallInProgress
<1>4. Len(file) \in DOMAIN file /\ DOMAIN file = 1..Len(file) /\ Len(file) \in Nat
  BY <1>3
<1>5. HasReceipt(op.key)
  <2>1. CASE op.status = "PENDING"
    BY <1>3, <1>4, <2>1 DEF HasReceipt, Receipt, NewLine
  <2>2. CASE op.status = "DISPATCHED"
    BY <1>1, <1>3, <2>2 DEF PipelineInv, MemoryFollowsFile
  <2> QED BY <1>1, <2>1, <2>2 DEF Recorded
<1>6. \A k : HasReceipt(k)' <=> HasReceipt(k)
  BY <1>1 DEF HasReceipt, Receipt
<1>7. /\ \A k \in Key : records[k] # "NONE" => records'[k] # "NONE"
      /\ records'[op.key] # "NONE"
      /\ \A k \in Key : k # op.key => records'[k] = records[k]
  BY <1>1 DEF Recorded
<1>8. FileFollowsChain'
  BY <1>1, <1>2, FileCut DEF PipelineInv, StoreInv, TypeOK
<1>9. MemoryFollowsFile'
  <2>1. \A k \in Key : records'[k] # "NONE" => HasReceipt(k)'
    BY <1>5, <1>6, <1>7 DEF PipelineInv, MemoryFollowsFile
  <2>2. \A i \in DOMAIN file : file[i].key \in Key
    <3>1. \A i \in DOMAIN file : file[i] \in Line
      BY <1>3
    <3> QED BY <3>1 DEF Line
  <2>3. proc' = "up" => \A i \in DOMAIN file' :
          records'[file'[i].key] # "NONE" \/ file'[i].key \in failed'
    BY <1>1, <1>7, <2>2 DEF PipelineInv, MemoryFollowsFile
  <2>4. op'.status = "NONE"
    BY <1>1 DEF Idle
  <2> QED BY <1>1, <2>1, <2>3, <2>4 DEF PipelineInv, MemoryFollowsFile
<1>10. OrderFollowsChain'
  <2>1. \A k, m : Precedes(k, m) => Precedes(k, m)'
    BY <1>2, SameChain
  <2>2. \A i \in DOMAIN order : order[i] \in Key
    BY <1>1
  <2>3. CASE records[op.key] # "NONE"
    BY <1>1, <1>7, <2>1, <2>2, <2>3 DEF PipelineInv, OrderFollowsChain
  <2>4. CASE records[op.key] = "NONE"
    <3> DEFINE t == Append(order, op.key)
               last == Len(order) + 1
    <3>1. /\ DOMAIN t = DOMAIN order \cup {last}
          /\ \A m \in DOMAIN order : t[m] = order[m] /\ m < last /\ ~(last < m)
          /\ t[last] = op.key /\ ~(last < last)
      BY <1>1
    <3> HIDE DEF t, last
    <3>2. order' = t
      BY <1>1, <2>4 DEF t
    <3>3. op.status = "PENDING" /\ Receipt(Len(file))
      BY <1>1, <1>3, <2>4 DEF Recorded, Receipt, NewLine
    <3>4. ASSUME NEW m \in DOMAIN order PROVE Precedes(order[m], op.key)
      <4>1. records[order[m]] # "NONE"
        BY DEF PipelineInv, OrderFollowsChain
      <4>2. PICK i \in DOMAIN file : file[i].key = order[m] /\ Receipt(i)
        BY <2>2, <4>1 DEF PipelineInv, MemoryFollowsFile, HasReceipt
      <4>3. i # Len(file)
        BY <1>3, <2>4, <4>1, <4>2 DEF NewLine
      <4>4. i < Len(file)
        BY <1>4, <4>3
      <4>5. Precedes(file[i].key, file[Len(file)].key)
        BY <1>4, <3>3, <4>2, <4>4 DEF PipelineInv, FileFollowsChain
      <4> QED BY <1>3, <4>2, <4>5 DEF NewLine
    <3>5. \A i, j \in DOMAIN t : i < j => Precedes(t[i], t[j])
      BY <3>1, <3>4 DEF PipelineInv, OrderFollowsChain
    <3>6. \A i \in DOMAIN t : records'[t[i]] # "NONE"
      BY <1>7, <2>2, <3>1 DEF PipelineInv, OrderFollowsChain
    <3>7. \A i, j \in DOMAIN order' : i < j => Precedes(order[i], order[j])'
      <4> SUFFICES ASSUME NEW i \in DOMAIN order', NEW j \in DOMAIN order', i < j
                   PROVE  Precedes(order[i], order[j])'
        OBVIOUS
      <4>1. PICK k, m : k = t[i] /\ m = t[j]
        OBVIOUS
      <4>2. Precedes(k, m)'
        BY <2>1, <3>2, <3>5, <4>1
      <4> QED BY <3>2, <4>1, <4>2
    <3> QED BY <3>2, <3>6, <3>7 DEF OrderFollowsChain
  <2> QED BY <2>3, <2>4
<1>11. \A k \in Key : k \in failed' /\ records'[k] = "NONE" => k \in failed /\ records[k] = "NONE"
  BY <1>1, <1>7
<1> QED BY <1>1, <1>2, <1>6, <1>8, <1>9, <1>10, <1>11, StoreOnly

(* The bouncer's acknowledgement competes with the watcher for the store.     *)
LEMMA AcknowledgePreserves ==
    ASSUME PipelineInv, NEW k \in Key, Acknowledge(k)
    PROVE  PipelineInv'
<1>1. UNCHANGED <<blocks, watchVars, dropped>> /\ CountFailedWrite(k) /\ MarkDispatched(k)
  BY DEF Acknowledge
<1>2. UNCHANGED <<blocks, watcher, head, nextBlock, queue, seqCount, dropped>> /\ failures' \in 0..MaxFailures
  BY <1>1, FailedWriteCounted DEF watchVars, PipelineInv, WatcherShape
<1>3. StoreInv'
  BY <1>1, MarkDispatchedPreserves DEF PipelineInv
<1>4. CASE MarkDispatchedAgain(k)
  <2>1. UNCHANGED storeVars /\ UNCHANGED <<proc, file, records, order, op, failed>>
    BY <1>4 DEF MarkDispatchedAgain, storeVars
  <2>2. WatcherShape' /\ QueueFollowsChain' /\ HandledOnce'
    <3>1. WatcherShape'
      BY <1>1, <1>2, <2>1 DEF PipelineInv, WatcherShape
    <3>2. QueueFollowsChain'
      BY <1>2 DEF PipelineInv, QueueFollowsChain, InBlocks, Before
    <3>3. HandledOnce'
      BY <1>2, <2>1 DEF PipelineInv, HandledOnce, Watching, Done, InBlocks, HasReceipt, Receipt
    <3> QED BY <3>1, <3>2, <3>3
  <2> QED BY <1>2, <2>1, <2>2, WatchOnly DEF PipelineInv, MemoryFollowsFile
<1>5. CASE records[k] = "PENDING" /\ LineWritten(k, "DISPATCHED")
  <2>1. /\ op = Idle /\ proc = "up" /\ UNCHANGED <<proc, records, order>>
        /\ \/ op' = [key |-> k, status |-> "DISPATCHED", pc |-> "sync"] /\ failed' = failed
           \/ op' = Idle /\ failed' = failed \cup {k}
    BY <1>5, WriteLineAppends DEF PipelineInv, StoreInv, Recorded
  <2>2. PICK l \in Line : file' = Append(file, l) /\ l.key = k /\ l.status = "DISPATCHED"
    BY <1>5, WriteLineAppends DEF PipelineInv, StoreInv, Recorded
  <2>3. HasReceipt(l.key) /\ file \in Seq(Line) /\ FileFollowsChain
    BY <1>5, <2>2 DEF PipelineInv, MemoryFollowsFile, StoreInv, TypeOK
  <2>4. FileFollowsChain' /\ \A j : HasReceipt(j) => HasReceipt(j)'
    BY <1>2, <2>2, <2>3, DispatchAppended
  <2>5. OrderFollowsChain'
    BY <1>2, <2>1 DEF PipelineInv, OrderFollowsChain, Precedes, Before
  <2>6. MemoryFollowsFile'
    <3>1. \A j \in Key : records'[j] # "NONE" => HasReceipt(j)'
      BY <2>1, <2>4 DEF PipelineInv, MemoryFollowsFile
    <3>2. PICK last \in Nat :
              /\ DOMAIN file' = DOMAIN file \cup {last}
              /\ \A i \in DOMAIN file : file'[i] = file[i]
              /\ file'[last] = l
      BY <2>2, <2>3, OneLineMore
    <3>3. \A i \in DOMAIN file' : records'[file'[i].key] # "NONE" \/ file'[i].key \in failed'
      BY <1>5, <2>1, <2>2, <3>2 DEF PipelineInv, MemoryFollowsFile
    <3>4. op'.status # "PENDING"
      BY <2>1 DEF Idle
    <3> QED BY <2>1, <3>1, <3>3, <3>4 DEF MemoryFollowsFile
  <2>7. \A j \in Key : j \in failed' /\ records'[j] = "NONE" => j \in failed /\ records[j] = "NONE"
    BY <1>5, <2>1
  <2> QED BY <1>1, <1>2, <1>3, <2>1, <2>4, <2>5, <2>6, <2>7, StoreOnly
<1>6. CASE records[k] = "PENDING" /\ NothingWritten(k)
  <2>1. UNCHANGED <<proc, file, records, order, op>> /\ failed' = failed \cup {k} /\ proc = "up"
    BY <1>1, <1>6, WriteLineCases DEF NothingWritten, MarkDispatched, MarkDispatchedAgain,
       PipelineInv, StoreInv, Recorded
  <2>2. FileFollowsChain'
    BY <1>2, <2>1, FileCut DEF PipelineInv, StoreInv, TypeOK
  <2>3. OrderFollowsChain'
    BY <1>2, <2>1 DEF PipelineInv, OrderFollowsChain, Precedes, Before
  <2>4. \A j : HasReceipt(j)' <=> HasReceipt(j)
    BY <2>1 DEF HasReceipt, Receipt
  <2>5. MemoryFollowsFile'
    BY <1>2, <2>1, <2>4 DEF PipelineInv, MemoryFollowsFile
  <2>6. \A j \in Key : j \in failed' /\ records'[j] = "NONE" => j \in failed /\ records[j] = "NONE"
    BY <1>6, <2>1
  <2> QED BY <1>1, <1>2, <1>3, <2>1, <2>2, <2>3, <2>4, <2>5, <2>6, StoreOnly
<1>7. CASE records[k] = "PENDING" /\ WriteLine(k, "DISPATCHED")
  BY <1>5, <1>6, <1>7, WriteLineCases DEF PipelineInv, StoreInv, Recorded
<1> QED BY <1>1, <1>4, <1>7 DEF MarkDispatched

(* The gateway dies: memory, the watcher and the file's unsynced end are gone. *)
LEMMA CrashPreserves == PipelineInv /\ Crash => PipelineInv'
<1> SUFFICES ASSUME PipelineInv, Crash PROVE PipelineInv'
  OBVIOUS
<1>1. /\ StoreFailure /\ blocks' = blocks /\ watcher' = "off" /\ head' = 0 /\ nextBlock' = 0
      /\ queue' = <<>> /\ seqCount' = 0 /\ failures < MaxFailures /\ failures' = failures + 1
      /\ dropped' = dropped
  BY DEF Crash
<1>2. proc' = "down" /\ records' = NoRecords /\ order' = <<>> /\ op' = Idle /\ failed' = {}
  BY <1>1 DEF StoreFailure, Kill, PowerLoss, LoseMemory
<1>3. StoreInv' /\ ChainShape'
  BY <1>1, FailurePreserves, SameChain DEF PipelineInv
<1>4. FileFollowsChain'
  BY <1>1, FailureCuts, FileCut DEF PipelineInv, StoreInv, TypeOK
<1>5. WatcherShape'
  <2>1. /\ failures + 1 \in 0..MaxFailures /\ 0 \in 0..(SeqLimit - 1)
        /\ 0 \in 0..Len(blocks) /\ 0 \in 0..(Len(blocks) + 1)
    <3>1. Len(blocks) \in Nat
      BY DEF PipelineInv, ChainShape
    <3>2. failures \in 0..MaxFailures
      BY DEF PipelineInv, WatcherShape
    <3> QED BY <1>1, <3>1, <3>2, PipelineBounds, SeqModAssumption
  <2> QED BY <1>1, <1>2, <2>1 DEF PipelineInv, WatcherShape
<1>6. QueueFollowsChain' /\ OrderFollowsChain'
  BY <1>1, <1>2 DEF QueueFollowsChain, OrderFollowsChain, ToSet
<1>7. MemoryFollowsFile'
  <2>1. op'.status = "NONE" /\ \A k \in Key : records'[k] = "NONE"
    BY <1>2 DEF Idle, NoRecords
  <2> QED BY <1>2, <2>1 DEF MemoryFollowsFile
<1>8. HandledOnce'
  BY <1>1 DEF HandledOnce, Watching
<1> QED BY <1>3, <1>4, <1>5, <1>6, <1>7, <1>8 DEF PipelineInv

(* A settlement's first line that loadRecords reads is its receipt.           *)
LEMMA FirstLineIsReceipt ==
    ASSUME FileFollowsChain, file \in Seq(Line), Loadable(file), NEW k \in Key, LinesOf(file, k) # {}
    PROVE  /\ Min(LinesOf(file, k)) \in DOMAIN file
           /\ file[Min(LinesOf(file, k))].key = k /\ Receipt(Min(LinesOf(file, k)))
<1> DEFINE S == LinesOf(file, k)
<1>1. S = {i \in DOMAIN file : file[i].key = k}
  BY DEF LinesOf, Loadable
<1>2. S \in SUBSET Nat
  BY <1>1
<1>3. Min(S) \in S /\ \A y \in S : Min(S) <= y
  <2> HIDE DEF S
  <2> QED BY <1>2, MinPosition DEF S
<1>4. PICK m \in S : m = Min(S)
  BY <1>3
<1>5. Receipt(m)
  <2> SUFFICES ASSUME ~Receipt(m) PROVE FALSE
    OBVIOUS
  <2>1. PICK i \in DOMAIN file : i < m /\ file[i].key = file[m].key /\ Receipt(i)
    BY <1>1 DEF FileFollowsChain
  <2>2. i \in S /\ m <= i /\ i \in Nat /\ m \in Nat
    BY <1>1, <1>2, <1>3, <1>4, <2>1
  <2> QED BY <2>1, <2>2
<1> QED BY <1>1, <1>4, <1>5

(* NewStore reads the file back in chain order, and the watcher starts over.  *)
LEMMA BootPreserves == PipelineInv /\ Boot => PipelineInv'
<1> SUFFICES ASSUME PipelineInv, Boot PROVE PipelineInv'
  OBVIOUS
<1>1. /\ NewStore /\ blocks' = blocks /\ head' = 0 /\ nextBlock' = 0 /\ queue' = <<>>
      /\ seqCount' = 0 /\ failures' = failures /\ watcher' = IF proc' = "up" THEN "idle" ELSE "off"
      /\ proc = "down" /\ UNCHANGED <<file, op, failed, dropped>> /\ proc' \in {"up", "refused"}
  BY DEF Boot, NewStore
<1>2. op = Idle /\ op.status = "NONE" /\ failed = {}
  BY <1>1 DEF PipelineInv, StoreInv, CallInProgress, Idle, MemoryFollowsFile
<1>3. StoreInv' /\ ChainShape'
  BY <1>1, NewStorePreserves, SameChain DEF PipelineInv
<1>4. file \in Seq(Line) /\ FileFollowsChain
  BY DEF PipelineInv, StoreInv, TypeOK
<1>5. FileFollowsChain'
  BY <1>1, <1>4, FileCut
<1>6. WatcherShape'
  <2>1. 0 \in 0..(SeqLimit - 1) /\ 0 \in 0..Len(blocks) /\ 0 \in 0..(Len(blocks) + 1)
    <3>1. Len(blocks) \in Nat
      BY DEF PipelineInv, ChainShape
    <3> QED BY <3>1, SeqModAssumption
  <2> QED BY <1>1, <2>1 DEF PipelineInv, WatcherShape
<1>7. QueueFollowsChain'
  BY <1>1 DEF QueueFollowsChain, ToSet
<1>8. HandledOnce'
  <2>1. \A k : ~Done(k)'
    <3>1. \A n \in DOMAIN blocks : ~(1 <= n /\ n <= 0 - 1)
      BY DEF PipelineInv, ChainShape
    <3> QED BY <1>1, <3>1 DEF Done, InBlocks
  <2> QED BY <1>1, <1>2, <2>1 DEF HandledOnce
<1>9. \A k : HasReceipt(k)' <=> HasReceipt(k)
  BY <1>1 DEF HasReceipt, Receipt
<1>10. CASE ~Loadable(file)
  <2>1. proc' = "refused" /\ UNCHANGED <<records, order>>
    BY <1>1, <1>10 DEF NewStore
  <2>2. MemoryFollowsFile'
    BY <1>1, <1>2, <1>9, <2>1 DEF PipelineInv, MemoryFollowsFile
  <2>3. OrderFollowsChain'
    BY <1>1, <2>1 DEF PipelineInv, OrderFollowsChain, Precedes, Before
  <2> QED BY <1>3, <1>5, <1>6, <1>7, <1>8, <2>2, <2>3 DEF PipelineInv
<1>11. CASE Loadable(file)
  <2>1. /\ proc' = "up" /\ records' = [k \in Key |-> Latest(file, k)]
        /\ order' \in SetToSeqs(KeysIn(file)) /\ FirstSeenOrder(order', file)
    BY <1>1, <1>11 DEF NewStore
  <2>2. \A k \in Key : records'[k] # "NONE" <=> LinesOf(file, k) # {}
    BY <1>4, <2>1, LatestStatus
  <2>3. \A k \in Key : records'[k] # "NONE" => HasReceipt(k)'
    BY <1>4, <1>9, <1>11, <2>2, FirstLineIsReceipt DEF HasReceipt
  <2>4. \A i \in DOMAIN file : records'[file[i].key] # "NONE"
    <3> SUFFICES ASSUME NEW i \in DOMAIN file PROVE records'[file[i].key] # "NONE"
      OBVIOUS
    <3>1. file[i] \in Line
      BY <1>4
    <3>2. file[i].key \in Key /\ i \in LinesOf(file, file[i].key)
      BY <1>11, <3>1 DEF Line, LinesOf, Loadable
    <3> QED BY <2>2, <3>2
  <2>5. MemoryFollowsFile'
    BY <1>1, <1>2, <2>1, <2>3, <2>4 DEF MemoryFollowsFile
  <2>6. /\ \A i \in DOMAIN order' : order'[i] \in Key /\ LinesOf(file, order'[i]) # {}
    <3>1. IsFiniteSet(KeysIn(file))
      <4>1. KeysIn(file) \in SUBSET Key
        BY DEF KeysIn
      <4> QED BY <4>1, KeyAssumption, FS_Subset
    <3>2. order' \in Seq(KeysIn(file))
      BY <2>1, <3>1, SetToSeqsLists
    <3>3. \A i \in DOMAIN order' : order'[i] \in KeysIn(file)
      BY <3>2
    <3> QED BY <3>3 DEF KeysIn
  <2>7. ASSUME NEW i \in DOMAIN order', NEW j \in DOMAIN order', i < j
        PROVE  Precedes(order[i], order[j])'
    <3>1. PICK k \in Key, l \in Key : k = order'[i] /\ l = order'[j]
      BY <2>6
    <3>2. PICK m, n : m = Min(LinesOf(file, k)) /\ n = Min(LinesOf(file, l))
      OBVIOUS
    <3>3. /\ m \in DOMAIN file /\ file[m].key = k /\ Receipt(m)
          /\ n \in DOMAIN file /\ file[n].key = l /\ Receipt(n)
      BY <1>4, <1>11, <2>6, <3>1, <3>2, FirstLineIsReceipt
    <3>4. m < n
      BY <2>1, <2>7, <3>1, <3>2 DEF FirstSeenOrder
    <3>5. Precedes(k, l)
      BY <1>4, <3>3, <3>4 DEF FileFollowsChain
    <3> QED BY <1>1, <3>1, <3>5, SameChain
  <2>8. OrderFollowsChain'
    BY <2>2, <2>6, <2>7 DEF OrderFollowsChain
  <2> QED BY <1>3, <1>5, <1>6, <1>7, <1>8, <2>5, <2>8 DEF PipelineInv
<1> QED BY <1>10, <1>11

------------------------------------------------------------------------------
(* The theorems.                                                              *)

(* A first boot, on the file of an older release or on none.                  *)
LEMMA InitPipelineInv == PipelineInit => PipelineInv
<1> SUFFICES ASSUME PipelineInit PROVE PipelineInv
  OBVIOUS
<1>1. /\ StoreInit /\ blocks = IF file = <<>> THEN <<>> ELSE <<[i \in DOMAIN file |-> file[i].key]>>
      /\ watcher = "off" /\ head = 0 /\ nextBlock = 0 /\ queue = <<>> /\ seqCount = 0
      /\ dropped = {} /\ failures = 0
  BY DEF PipelineInit
<1>2. StoreInv
  BY <1>1, InitStoreInv
<1>3. proc = "down" /\ records = NoRecords /\ order = <<>> /\ op = Idle /\ failed = {}
  BY <1>1, Zenon DEF StoreInit
<1>4. PICK old \in SUBSET Key :
         file \in {[i \in DOMAIN t |-> NewLine(t[i], "")] : t \in SetToSeqs(old)}
  BY <1>1 DEF StoreInit
<1>5. PICK t \in SetToSeqs(old) : file = [i \in DOMAIN t |-> NewLine(t[i], "")]
  BY <1>4
<1>6. IsInjective(t) /\ t \in Seq(Key)
  <2>1. IsFiniteSet(old)
    BY KeyAssumption, FS_Subset
  <2>2. IsInjective(t) /\ t \in Seq(old)
    BY <2>1, SetToSeqsLists
  <2> QED BY <2>2
<1>7. /\ DOMAIN file = DOMAIN t /\ DOMAIN t = 1..Len(t) /\ Len(t) \in Nat
      /\ \A i \in DOMAIN t : file[i].key = t[i] /\ file[i].status = "" /\ t[i] \in Key
  <2>1. DOMAIN t = 1..Len(t) /\ Len(t) \in Nat /\ \A i \in DOMAIN t : t[i] \in Key
    BY <1>6
  <2>2. DOMAIN file = DOMAIN t /\ \A i \in DOMAIN t : file[i] = NewLine(t[i], "")
    BY <1>5
  <2>3. ASSUME NEW i \in DOMAIN t PROVE file[i].key = t[i] /\ file[i].status = ""
    <3>1. PICK k : k = t[i]
      OBVIOUS
    <3>2. PICK l : l = file[i]
      OBVIOUS
    <3>3. l = NewLine(k, "")
      BY <2>2, <2>3, <3>1, <3>2, Zenon
    <3>4. l.key = k /\ l.status = ""
      BY <3>3 DEF NewLine
    <3> QED BY <3>1, <3>2, <3>4, Zenon
  <2>4. DOMAIN file = DOMAIN t
    BY <2>2
  <2> QED BY <2>1, <2>3, <2>4, Zenon
<1>8. file \in Seq(Line)
  BY <1>2 DEF StoreInv, TypeOK
<1>9. ASSUME file = <<>> PROVE ChainShape /\ FileFollowsChain
  <2>1. blocks = <<>> /\ DOMAIN file = {}
    BY <1>1, <1>9
  <2>2. ChainShape /\ FileFollowsChain
    BY <2>1 DEF ChainShape, FileFollowsChain, Mined
  <2> QED BY <2>2
<1>10. ASSUME file # <<>> PROVE ChainShape /\ FileFollowsChain
  <2>1. [i \in DOMAIN file |-> file[i].key] = t
    <3>1. t = [i \in 1..Len(t) |-> t[i]]
      BY <1>6
    <3>2. [i \in DOMAIN file |-> file[i].key] = [i \in 1..Len(t) |-> t[i]]
      BY <1>7
    <3> QED BY <3>1, <3>2
  <2>2. blocks = <<t>>
    BY <1>1, <1>10, <2>1
  <2>3. blocks \in Seq(Seq(Key)) /\ DOMAIN blocks = {1} /\ blocks[1] = t
    BY <1>6, <2>2
  <2>4. ChainShape
    BY <1>6, <2>3 DEF ChainShape, IsInjective
  <2>5. \A i \in DOMAIN file : file[i].key \in Mined /\ Receipt(i)
    <3>1. SUFFICES ASSUME NEW i \in DOMAIN file PROVE file[i].key \in Mined /\ Receipt(i)
      OBVIOUS
    <3>2. Receipt(i)
      BY <1>7, <3>1 DEF Receipt
    <3>3. i \in DOMAIN t /\ file[i].key = t[i]
      BY <1>7, <3>1
    <3>4. file[i].key \in ToSet(blocks[1]) /\ 1 \in DOMAIN blocks
      BY <2>3, <3>3 DEF ToSet
    <3> QED BY <3>2, <3>4 DEF Mined
  <2>6. \A i, j \in DOMAIN file : i < j => Precedes(file[i].key, file[j].key)
    <3>1. \A i, j \in DOMAIN file : i < j => Before(file[i].key, file[j].key)
      BY <1>7, <2>3 DEF Before
    <3> QED BY <2>4, <3>1, BeforeOrder DEF Precedes
  <2>7. ASSUME NEW i \in DOMAIN file, NEW k \in Key, Before(k, file[i].key)
        PROVE  \E j \in DOMAIN file : j < i /\ file[j].key = k
    <3>1. PICK a \in DOMAIN t, b \in DOMAIN t : t[a] = k /\ t[b] = file[i].key /\ a < b
      BY <2>3, <2>7 DEF Before
    <3>2. b = i
      BY <1>6, <1>7, <3>1 DEF IsInjective
    <3> QED BY <1>7, <3>1, <3>2
  <2>8. FileFollowsChain
    BY <2>5, <2>6, <2>7 DEF FileFollowsChain
  <2> QED BY <2>4, <2>8
<1>11. ChainShape /\ FileFollowsChain
  BY <1>9, <1>10
<1>12. WatcherShape
  <2>1. Len(blocks) \in Nat
    BY <1>11 DEF ChainShape
  <2> QED BY <1>1, <1>3, <2>1, PipelineBounds, SeqModAssumption DEF WatcherShape
<1>13. QueueFollowsChain /\ OrderFollowsChain /\ HandledOnce
  BY <1>1, <1>3 DEF QueueFollowsChain, OrderFollowsChain, HandledOnce, Watching, ToSet
<1>14. MemoryFollowsFile
  BY <1>3 DEF MemoryFollowsFile, NoRecords, Idle
<1> QED BY <1>2, <1>11, <1>12, <1>13, <1>14 DEF PipelineInv

(* Every step of chain, watcher, processor, store and bouncer keeps it.       *)
LEMMA NextPipelineInv == PipelineInv /\ [Next]_vars => PipelineInv'
<1> SUFFICES ASSUME PipelineInv, [Next]_vars PROVE PipelineInv'
  OBVIOUS
<1>1. CASE StoreStep
  <2>1. UNCHANGED <<blocks, watchVars, dropped>> /\ failures' \in 0..MaxFailures
    <3>1. failures \in 0..MaxFailures /\ MaxFailures \in Nat
      BY PipelineBounds DEF PipelineInv, WatcherShape
    <3>2. UNCHANGED <<blocks, watchVars, dropped>>
          /\ (failures' = failures \/ (failures < MaxFailures /\ failures' = failures + 1))
      BY <1>1 DEF StoreStep
    <3> QED BY <3>1, <3>2
  <2> QED BY <1>1, <2>1, SyncPreserves, PublishKeeps DEF StoreStep
<1>2. CASE UNCHANGED vars
  <2>1. /\ UNCHANGED storeVars /\ UNCHANGED <<proc, file, records, order, op, failed>>
        /\ UNCHANGED <<blocks, watcher, head, nextBlock, queue, seqCount, dropped, failures>>
    BY <1>2 DEF vars, storeVars, watchVars
  <2>2. WatcherShape'
    BY <2>1 DEF PipelineInv, WatcherShape
  <2>3. QueueFollowsChain'
    BY <2>1 DEF PipelineInv, QueueFollowsChain, InBlocks, Before
  <2>4. HandledOnce'
    BY <2>1 DEF PipelineInv, HandledOnce, Watching, Done, InBlocks, HasReceipt, Receipt
  <2> QED BY <2>1, <2>2, <2>3, <2>4, WatchOnly DEF PipelineInv, MemoryFollowsFile
<1> QED BY <1>1, <1>2, MineBlockPreserves, BootPreserves, PollPreserves, PollLogsPreserves,
        NextEventPreserves, HandleNewPreserves, AcknowledgePreserves, CrashPreserves DEF Next, Watch

(* The invariant holds for every chain, failure and bound.                    *)
THEOREM PipelineInvariant == Spec => []PipelineInv
  BY InitPipelineInv, NextPipelineInv, PTL DEF Spec

(* Chain, watcher, processor and store keep their types: the cursor stays      *)
(* within a block of the chain, the sequence count within its 14 bits.        *)
THEOREM PipelineTypeCorrect == Spec => []PipelineTypeOK
<1>1. PipelineInv => PipelineTypeOK
  BY DEF PipelineInv, StoreInv, WatcherShape, ChainShape, PipelineTypeOK
<1> QED BY <1>1, PipelineInvariant, PTL

(* watcher.go's cursor never passes a settlement that is neither recorded, nor *)
(* in hand, nor failed.                                                       *)
THEOREM PipelineNothingSkipped == Spec => []NothingSkipped
<1>1. PipelineInv => NothingSkipped
  <2> SUFFICES ASSUME PipelineInv, Watching, NEW n \in DOMAIN blocks, n < nextBlock,
                      NEW k \in ToSet(blocks[n]), k \notin ToSet(queue)
               PROVE  records[k] # "NONE" \/ k \in failed
    BY DEF NothingSkipped, Watching
  <2>1. k \in Key /\ InBlocks(k, 1, nextBlock - 1)
    <3>1. PICK a \in DOMAIN blocks[n] : blocks[n][a] = k
      BY DEF ToSet
    <3>2. k \in Key
      BY <3>1, Places DEF PipelineInv
    <3>3. blocks \in Seq(Seq(Key)) /\ nextBlock \in Nat
      BY DEF PipelineInv, ChainShape, WatcherShape
    <3>4. 1 <= n /\ n <= nextBlock - 1
      BY <3>3
    <3> QED BY <3>2, <3>4 DEF InBlocks
  <2> SUFFICES ASSUME k \notin failed PROVE records[k] # "NONE"
    OBVIOUS
  <2>2. HasReceipt(k)
    BY <2>1 DEF PipelineInv, HandledOnce, Done
  <2>3. PICK i \in DOMAIN file : file[i].key = k
    BY <2>2 DEF HasReceipt
  <2>4. proc = "up"
    BY DEF PipelineInv, WatcherShape, Watching
  <2>5. CASE op # Idle /\ k = op.key
    <3>1. op.status # "PENDING"
      <4> SUFFICES ASSUME op.status = "PENDING" PROVE FALSE
        OBVIOUS
      <4>1. queue # <<>> /\ k = Head(queue)
        BY <2>5 DEF PipelineInv, MemoryFollowsFile, WatcherShape
      <4> QED BY <4>1, QueueHead
    <3>2. op.status = "DISPATCHED"
      BY <2>5, <3>1, OpShape DEF PipelineInv, StoreInv, Recorded
    <3> QED BY <2>5, <3>2 DEF PipelineInv, StoreInv, CallInProgress
  <2> QED BY <2>3, <2>4, <2>5 DEF PipelineInv, MemoryFollowsFile
<1> QED BY <1>1, PipelineInvariant, PTL

(* The file's receipts are of different settlements.                          *)
LEMMA OneReceiptEach == PipelineInv => OneReceiptPerSettlement
<1> SUFFICES ASSUME PipelineInv, NEW i \in DOMAIN file, NEW j \in DOMAIN file, i # j,
                    file[i].key = file[j].key, Receipt(i), Receipt(j)
             PROVE  FALSE
  BY DEF OneReceiptPerSettlement, Receipt
<1>1. i \in Nat /\ j \in Nat
  BY DEF PipelineInv, StoreInv, TypeOK
<1>2. i < j \/ j < i
  BY <1>1
<1> QED BY <1>2 DEF PipelineInv, FileFollowsChain, Precedes

(* No settlement ever has two receipts in the file, replays of the whole chain *)
(* after every restart and failed or partial writes included.                 *)
THEOREM PipelineOneReceiptPerSettlement == Spec => []OneReceiptPerSettlement
  BY OneReceiptEach, PipelineInvariant, PTL

(* The bouncer is offered receipts in the order of their settlements, but for  *)
(* those whose Append once failed in file.Write with nothing written.         *)
THEOREM PipelineDrainFollowsChain == Spec => []DrainFollowsChain
<1>1. PipelineInv => DrainFollowsChain
  <2> SUFFICES ASSUME PipelineInv PROVE DrainFollowsChain
    OBVIOUS
  <2> DEFINE logs == LogsBetween(0, Len(blocks))
             Position(k) == CHOOSE n \in DOMAIN logs : logs[n] = k
  <2>1. ChainShape /\ Len(blocks) \in Nat /\ DOMAIN blocks = 1..Len(blocks)
    BY DEF PipelineInv, ChainShape
  <2>2. Lists(logs, 0, Len(blocks))
    <3>1. Len(blocks) \in 0..Len(blocks) /\ 0 \in Nat
      BY <2>1
    <3> QED BY <2>1, <3>1, LogsListed
  <2> HIDE DEF logs
  <2>3. \A k \in Key : k \in Mined => \E n \in DOMAIN logs : logs[n] = k
    <3>1. \A k \in Key : k \in Mined => InBlocks(k, 0, Len(blocks))
      BY <2>1 DEF Mined, InBlocks
    <3>2. \A k \in Key : k \in Mined => k \in ToSet(logs)
      BY <2>2, <3>1 DEF Lists
    <3> QED BY <3>2 DEF ToSet
  <2>4. \A k \in Key : k \in Mined => Position(k) \in DOMAIN logs /\ logs[Position(k)] = k
    BY <2>3
  <2> HIDE DEF Position
  <2>5. ASSUME NEW i \in DOMAIN order, NEW j \in DOMAIN order, i < j, order[j] \notin dropped
        PROVE  Position(order[i]) < Position(order[j])
    <3>1. Before(order[i], order[j])
      BY <2>5 DEF PipelineInv, OrderFollowsChain, Precedes
    <3>2. order[i] \in Key /\ order[j] \in Key
      BY DEF PipelineInv, StoreInv, TypeOK
    <3>3. PICK k \in Key, l \in Key : k = order[i] /\ l = order[j]
      BY <3>2
    <3>4. k \in Mined /\ l \in Mined /\ Before(k, l)
      BY <2>1, <3>1, <3>3, BeforeOrder
    <3>5. PICK a \in DOMAIN logs, b \in DOMAIN logs :
             a = Position(k) /\ b = Position(l) /\ logs[a] = k /\ logs[b] = l
      BY <2>4, <3>4
    <3>6. a \in Nat /\ b \in Nat
      BY <2>2 DEF Lists
    <3>7. ~(b < a) /\ a # b
      BY <2>1, <2>2, <3>4, <3>5, BeforeOrder DEF Lists
    <3>8. a < b
      BY <3>6, <3>7
    <3> QED BY <3>3, <3>5, <3>8
  <2> QED BY <2>5 DEF DrainFollowsChain, logs, Position
<1> QED BY <1>1, PipelineInvariant, PTL
------------------------------------------------------------------------------
(* The store inside the pipeline.                                             *)

(* Chain, watcher and bouncer reach the store through its own operations only. *)
LEMMA StoreSteps ==
    ASSUME PipelineInv, [Next]_vars
    PROVE  [StoreNext]_storeVars
<1>1. CASE MineBlock \/ PollHead \/ PollLogs \/ PollFails \/ HandleKnown \/ HandleReturns \/ UNCHANGED vars
  BY <1>1 DEF MineBlock, PollHead, PollLogs, PollFails, HandleKnown, HandleReturns, vars
<1>2. CASE Boot \/ StoreStep \/ Crash
  BY <1>2 DEF Boot, StoreStep, Crash, StoreNext
<1>3. CASE HandleNew
  <2>1. queue # <<>>
    BY <1>3 DEF HandleNew, PipelineInv, WatcherShape
  <2>2. Head(queue) \in Key
    BY <2>1, QueueHead
  <2> QED BY <1>3, <2>2 DEF HandleNew, StoreNext
<1>4. CASE \E k \in Key : Acknowledge(k)
  BY <1>4 DEF Acknowledge, StoreNext
<1> QED BY <1>1, <1>2, <1>3, <1>4 DEF Next, Watch

(* A behaviour of the pipeline is one of the store, so everything proved of    *)
(* the store alone holds in the pipeline.                                      *)
THEOREM PipelineRunsStore == Spec => StoreSpec
<1>1. PipelineInit => StoreInit
  BY DEF PipelineInit
<1>2. PipelineInv /\ [Next]_vars => [StoreNext]_storeVars
  BY StoreSteps
<1> QED BY <1>1, <1>2, PipelineInvariant, PTL DEF Spec, StoreSpec
=============================================================================
