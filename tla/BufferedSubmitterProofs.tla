----------------------- MODULE BufferedSubmitterProofs -----------------------
(***************************************************************************)
(* The safety of BufferedSubmitter and Escrow for every set of intents,      *)
(* every assignment of nonces, every batch size and number of attempts, and  *)
(* every set of things the environment may do.                               *)
(***************************************************************************)
EXTENDS BufferedSubmitter, TLAPS

Fates == {"new", "ignored", "buffered", "submitting", "sent", "dropped", "lost"}

\* The intent left the buffer in a submit: nothing takes it back.
Taken == {"submitting", "sent", "dropped", "lost"}

CallSet == [batch : Seq(Intent), attempt : 1..SubmitRetries, acct : Int]

CallsAreRecords == calls \in SUBSET CallSet

(* Only intents that left the buffer are in the transactions of the node.    *)
PoolTaken == \A k \in DOMAIN pool : \A i \in BatchSet(pool[k]) : fate[i] \in Taken

Nonces == {NonceOf[i] : i \in Intent}

EventsAreNonces == events \in Seq(Nonces)

SubmitterInv ==
    /\ TypeOK
    /\ EventsAreNonces
    /\ CallsAreRecords
    /\ NoneStranded
    /\ OwnedOnce
    /\ BatchBounded
    /\ PoolTaken
    /\ SettledOnce

------------------------------------------------------------------------------
(* Lemmas about batches.                                                     *)

(* Enqueue's append adds one intent to the batch.                            *)
LEMMA BatchAppend ==
    ASSUME NEW s \in Seq(Intent), NEW i \in Intent
    PROVE  /\ Append(s, i) \in Seq(Intent)
           /\ Append(s, i) # <<>>
           /\ Len(Append(s, i)) = Len(s) + 1
           /\ Len(s) \in Nat
           /\ BatchSet(Append(s, i)) = BatchSet(s) \cup {i}
           /\ NoRepeats(s) /\ i \notin BatchSet(s) => NoRepeats(Append(s, i))
<1>1. /\ DOMAIN s = 1..Len(s) /\ Len(s) \in Nat
      /\ DOMAIN Append(s, i) = 1..(Len(s) + 1)
      /\ \A m \in 1..Len(s) : Append(s, i)[m] = s[m]
      /\ Append(s, i)[Len(s) + 1] = i
  OBVIOUS
<1>2. \A m : m \in 1..(Len(s) + 1) <=> (m \in 1..Len(s) \/ m = Len(s) + 1)
  BY <1>1
<1>3. BatchSet(Append(s, i)) = BatchSet(s) \cup {i}
  BY <1>1, <1>2 DEF BatchSet
<1>4. ASSUME NoRepeats(s), i \notin BatchSet(s) PROVE NoRepeats(Append(s, i))
  <2> SUFFICES ASSUME NEW m \in 1..(Len(s) + 1), NEW n \in 1..(Len(s) + 1),
                      Append(s, i)[m] = Append(s, i)[n]
               PROVE  m = n
    BY <1>1 DEF NoRepeats
  <2> QED BY <1>1, <1>2, <1>4 DEF NoRepeats, BatchSet
<1> QED BY <1>3, <1>4

(* A batch is empty exactly when it holds no intent.                         *)
LEMMA BatchEmpty ==
    ASSUME NEW s \in Seq(Intent)
    PROVE  /\ s = <<>> <=> BatchSet(s) = {}
           /\ s = <<>> <=> Len(s) = 0
           /\ BatchSet(s) \subseteq Intent
           /\ Len(s) \in Nat
<1>1. s = <<>> => BatchSet(s) = {}
  BY DEF BatchSet
<1>2. s # <<>> => BatchSet(s) # {}
  <2> SUFFICES ASSUME s # <<>> PROVE s[1] \in BatchSet(s)
    OBVIOUS
  <2>1. 1 \in DOMAIN s
    OBVIOUS
  <2> QED BY <2>1 DEF BatchSet
<1>3. BatchSet(s) \subseteq Intent
  BY DEF BatchSet
<1> QED BY <1>1, <1>2, <1>3

(* SetFate moves the intents of a batch and no other.                        *)
LEMMA SetFateValues ==
    ASSUME TypeOK, NEW s \in Seq(Intent), NEW f \in Fates
    PROVE  /\ SetFate(s, f) \in [Intent -> Fates]
           /\ \A i \in Intent : SetFate(s, f)[i] = IF i \in BatchSet(s) THEN f ELSE fate[i]
  BY DEF SetFate, TypeOK, Fates

------------------------------------------------------------------------------
(* What a step does to ownership: who holds which intent.                     *)

\* No step takes back what left the buffer.
FateKept == \A i \in Intent : fate[i] \in Taken => fate'[i] \in Taken

\* The parts of the invariant about buf, calls and fate, after the step.
OwnershipKept ==
    /\ fate' \in [Intent -> Fates]
    /\ CallsAreRecords'
    /\ OwnedOnce'
    /\ BatchBounded'
    /\ FateKept

(* stealLocked and submit: the whole buffer, with the intent that filled it,  *)
(* becomes one call.  The batch was in no call before.                        *)
LEMMA HandOver ==
    ASSUME SubmitterInv,
           NEW b \in Seq(Intent), Len(b) <= MaxBatch, NoRepeats(b),
           \A i \in BatchSet(b) : fate[i] \in {"new", "buffered"},
           BatchSet(buf) \subseteq BatchSet(b),
           Steal, StartSubmit(b)
    PROVE  OwnershipKept
<1> DEFINE d == [batch |-> b, attempt |-> 1, acct |-> NotPrepared]
<1>0. /\ buf' = <<>> /\ buf' \in Seq(Intent) /\ Len(buf') = 0
      /\ BatchSet(buf') = {} /\ NoRepeats(buf')
  BY DEF Steal, BatchSet, NoRepeats
<1>1. /\ fate \in [Intent -> Fates] /\ calls \in SUBSET CallSet
      /\ Len(buf') < MaxBatch /\ 1 \in 1..SubmitRetries
  BY <1>0, MaxBatchAssumption, RetriesAssumption
     DEF SubmitterInv, TypeOK, CallsAreRecords, Fates
<1>2. CASE b = <<>>
  <2>1. UNCHANGED <<calls, fate>> /\ BatchSet(b) = {}
    BY <1>2, BatchEmpty DEF StartSubmit
  <2>2. OwnedOnce'
    BY <2>1, <1>0 DEF SubmitterInv, OwnedOnce
  <2> QED BY <2>1, <2>2, <1>0, <1>1
       DEF OwnershipKept, CallsAreRecords, FateKept, SubmitterInv, BatchBounded
<1>3. CASE b # <<>>
  <2>1. /\ calls' = calls \cup {d}
        /\ fate' = SetFate(b, "submitting")
    BY <1>3 DEF StartSubmit
  <2>2. /\ fate' \in [Intent -> Fates]
        /\ \A i \in Intent : fate'[i] = IF i \in BatchSet(b) THEN "submitting" ELSE fate[i]
    BY <2>1, SetFateValues DEF SubmitterInv, Fates
  <2>3. d \in CallSet /\ d.batch = b
    BY <1>1 DEF CallSet, NotPrepared
  <2>4. BatchSet(b) \subseteq Intent /\ Len(b) \in 1..MaxBatch
    BY <1>3, BatchEmpty, MaxBatchAssumption
  <2>5. \A c \in calls : c.batch \in Seq(Intent) /\ BatchSet(c.batch) \subseteq Intent
    BY <1>1, BatchEmpty DEF CallSet
  <2>6. \A c \in calls : BatchSet(c.batch) \cap BatchSet(b) = {}
    BY <2>4, <2>5 DEF SubmitterInv, OwnedOnce
  <2> HIDE DEF d
  <2>7. OwnedOnce'
    <3>1. \A c, e \in calls' : c # e => BatchSet(c.batch) \cap BatchSet(e.batch) = {}
      BY <2>1, <2>3, <2>6 DEF SubmitterInv, OwnedOnce
    <3>2. \A c \in calls' : NoRepeats(c.batch)
      BY <2>1, <2>3 DEF SubmitterInv, OwnedOnce
    <3>3. \A i \in Intent : fate'[i] = "submitting" <=> \E c \in calls' : i \in BatchSet(c.batch)
      BY <2>1, <2>2, <2>3, <2>6 DEF SubmitterInv, OwnedOnce
    <3>4. \A i \in Intent : fate'[i] = "buffered" <=> i \in BatchSet(buf')
      BY <2>2, <1>0 DEF SubmitterInv, OwnedOnce
    <3> QED BY <3>1, <3>2, <3>3, <3>4, <1>0 DEF OwnedOnce
  <2>8. BatchBounded'
    BY <2>1, <2>3, <2>4, <1>1 DEF BatchBounded, SubmitterInv
  <2>9. FateKept
    BY <2>2 DEF FateKept, Taken
  <2> QED BY <2>1, <2>2, <2>3, <2>7, <2>8, <2>9, <1>1 DEF OwnershipKept, CallsAreRecords
<1> QED BY <1>2, <1>3

(* The next attempt, or the next half of one, holds the same intents.         *)
LEMMA CallRenewed ==
    ASSUME SubmitterInv, NEW c \in calls, NEW d \in CallSet, d.batch = c.batch,
           calls' = (calls \ {c}) \cup {d}, UNCHANGED <<buf, fate>>
    PROVE  OwnershipKept
<1>1. /\ fate \in [Intent -> Fates] /\ calls \in SUBSET CallSet
  BY DEF SubmitterInv, TypeOK, CallsAreRecords, Fates
<1>2. OwnedOnce'
  <2>1. \A e, g \in calls' : e # g => BatchSet(e.batch) \cap BatchSet(g.batch) = {}
    BY DEF SubmitterInv, OwnedOnce
  <2>2. \A e \in calls' : NoRepeats(e.batch)
    BY DEF SubmitterInv, OwnedOnce
  <2>3. \A i \in Intent : fate'[i] = "submitting" <=> \E e \in calls' : i \in BatchSet(e.batch)
    BY DEF SubmitterInv, OwnedOnce
  <2> QED BY <2>1, <2>2, <2>3 DEF SubmitterInv, OwnedOnce
<1>3. BatchBounded'
  BY DEF SubmitterInv, BatchBounded
<1> QED BY <1>1, <1>2, <1>3 DEF OwnershipKept, CallsAreRecords, FateKept

(* A submit ends: its intents leave all calls.                                *)
LEMMA CallEnds ==
    ASSUME SubmitterInv, NEW c \in calls, NEW f \in {"sent", "dropped"},
           calls' = calls \ {c}, fate' = SetFate(c.batch, f), UNCHANGED buf
    PROVE  OwnershipKept
<1>1. /\ fate \in [Intent -> Fates] /\ calls \in SUBSET CallSet /\ c.batch \in Seq(Intent)
  BY DEF SubmitterInv, TypeOK, CallsAreRecords, Fates
<1>2. /\ fate' \in [Intent -> Fates]
      /\ \A i \in Intent : fate'[i] = IF i \in BatchSet(c.batch) THEN f ELSE fate[i]
  BY <1>1, SetFateValues DEF SubmitterInv, Fates
<1>3. OwnedOnce'
  <2>1. \A e, g \in calls' : e # g => BatchSet(e.batch) \cap BatchSet(g.batch) = {}
    BY DEF SubmitterInv, OwnedOnce
  <2>2. \A e \in calls' : NoRepeats(e.batch)
    BY DEF SubmitterInv, OwnedOnce
  <2>3. \A i \in Intent : fate'[i] = "submitting" <=> \E e \in calls' : i \in BatchSet(e.batch)
    BY <1>2 DEF SubmitterInv, OwnedOnce
  <2>4. \A i \in Intent : fate'[i] = "buffered" <=> i \in BatchSet(buf')
    BY <1>2 DEF SubmitterInv, OwnedOnce
  <2> QED BY <2>1, <2>2, <2>3, <2>4 DEF SubmitterInv, OwnedOnce
<1>4. BatchBounded'
  BY DEF SubmitterInv, BatchBounded
<1>5. FateKept
  BY <1>2 DEF FateKept, Taken
<1> QED BY <1>1, <1>2, <1>3, <1>4, <1>5 DEF OwnershipKept, CallsAreRecords

(* submit's loop after an error keeps the ownership of every intent.          *)
LEMMA AttemptFailsKeeps ==
    ASSUME SubmitterInv, NEW c \in calls, AttemptFails(c), UNCHANGED buf
    PROVE  OwnershipKept
<1> DEFINE d == [batch |-> c.batch, attempt |-> c.attempt + 1, acct |-> NotPrepared]
<1>1. c.batch \in Seq(Intent) /\ c.attempt \in 1..SubmitRetries
  BY DEF SubmitterInv, TypeOK
<1>2. CASE c.attempt < SubmitRetries
  <2>1. d \in CallSet /\ d.batch = c.batch
    BY <1>1, <1>2, RetriesAssumption DEF CallSet, NotPrepared
  <2>2. calls' = (calls \ {c}) \cup {d} /\ UNCHANGED <<buf, fate>>
    BY <1>2 DEF AttemptFails
  <2> HIDE DEF d
  <2> QED BY <2>1, <2>2, CallRenewed
<1>3. CASE ~(c.attempt < SubmitRetries)
  BY <1>3, CallEnds DEF AttemptFails
<1> QED BY <1>2, <1>3

------------------------------------------------------------------------------
(* What a step does to the chain's side: the node's pool and the contract.    *)

(* A step that mines nothing keeps what settled settled once, and the pool    *)
(* gains at most a batch of intents that left the buffer.                     *)
LEMMA ChainKept ==
    ASSUME SubmitterInv, FateKept, UNCHANGED escrowVars,
           \/ UNCHANGED pool
           \/ \E b \in Seq(Intent) : /\ pool' = Append(pool, b)
                                     /\ \A i \in BatchSet(b) : fate[i] \in Taken
    PROVE  pool' \in Seq(Seq(Intent)) /\ PoolTaken' /\ SettledOnce'
<1>1. pool \in Seq(Seq(Intent)) /\ fate \in [Intent -> Fates]
  BY DEF SubmitterInv, TypeOK, Fates
<1>2. SettledOnce'
  <2>1. \A i \in Intent : fate[i] \notin {"new", "ignored", "buffered"} <=> fate[i] \in Taken
    BY <1>1 DEF Fates, Taken
  <2>2. \A i \in Intent : fate'[i] \in Taken => fate'[i] \notin {"new", "ignored", "buffered"}
    BY DEF Taken
  <2> QED BY <2>1, <2>2 DEF SubmitterInv, SettledOnce, FateKept, escrowVars
<1>3. CASE UNCHANGED pool
  <2>1. \A k \in DOMAIN pool : BatchSet(pool[k]) \subseteq Intent
    BY <1>1, BatchEmpty
  <2>2. PoolTaken'
    BY <2>1, <1>3 DEF SubmitterInv, PoolTaken, FateKept
  <2> QED BY <2>2, <1>1, <1>2, <1>3
<1>4. ASSUME NEW b \in Seq(Intent), pool' = Append(pool, b),
             \A i \in BatchSet(b) : fate[i] \in Taken
      PROVE  pool' \in Seq(Seq(Intent)) /\ PoolTaken'
  <2>1. /\ pool' \in Seq(Seq(Intent))
        /\ \A k \in DOMAIN pool' : pool'[k] = b \/ (k \in DOMAIN pool /\ pool'[k] = pool[k])
    BY <1>1, <1>4
  <2>2. \A k \in DOMAIN pool : BatchSet(pool[k]) \subseteq Intent
    BY <1>1, BatchEmpty
  <2>3. \A k \in DOMAIN pool' : \A i \in BatchSet(pool'[k]) : fate[i] \in Taken
    BY <2>1, <1>4 DEF SubmitterInv, PoolTaken
  <2>4. \A k \in DOMAIN pool' : BatchSet(pool'[k]) \subseteq Intent
    BY <2>1, <2>2, BatchEmpty
  <2> QED BY <2>1, <2>3, <2>4 DEF PoolTaken, FateKept
<1> QED BY <1>2, <1>3, <1>4

(* A log that grows by a sequence holds the entries of both, and has no       *)
(* repeats when neither part has any and they share nothing.                  *)
LEMMA LogGrows ==
    ASSUME NEW S, NEW s \in Seq(S), NEW t \in Seq(S)
    PROVE  /\ s \o t \in Seq(S)
           /\ BatchSet(s \o t) = BatchSet(s) \cup BatchSet(t)
           /\ NoRepeats(s) /\ NoRepeats(t) /\ BatchSet(s) \cap BatchSet(t) = {}
                 => NoRepeats(s \o t)
<1> DEFINE e == s \o t
           L == Len(s)
           K == Len(t)
<1>1. /\ e \in Seq(S) /\ DOMAIN e = 1..(L + K) /\ L \in Nat /\ K \in Nat
      /\ DOMAIN s = 1..L /\ DOMAIN t = 1..K
      /\ \A m \in 1..L : e[m] = s[m]
      /\ \A m \in 1..(L + K) : m > L => m - L \in 1..K /\ e[m] = t[m - L]
      /\ \A n \in 1..K : e[L + n] = t[n]
  OBVIOUS
<1> HIDE DEF e, L, K
<1>2. /\ \A m \in 1..(L + K) : m \in 1..L \/ m > L
      /\ 1..L \subseteq 1..(L + K)
      /\ \A n \in 1..K : L + n \in 1..(L + K)
  BY <1>1
<1>3. \A m \in 1..(L + K) : IF m \in 1..L THEN e[m] \in BatchSet(s) ELSE e[m] \in BatchSet(t)
  BY <1>1, <1>2 DEF BatchSet
<1>4. BatchSet(e) = BatchSet(s) \cup BatchSet(t)
  <2>1. \A x \in BatchSet(e) : x \in BatchSet(s) \cup BatchSet(t)
    BY <1>1, <1>3 DEF BatchSet
  <2>2. \A x \in BatchSet(s) : x \in BatchSet(e)
    BY <1>1, <1>2 DEF BatchSet
  <2>3. \A n \in 1..K : t[n] \in BatchSet(e)
    BY <1>1, <1>2 DEF BatchSet
  <2>4. \A x \in BatchSet(t) : x \in BatchSet(e)
    BY <2>3, <1>1 DEF BatchSet
  <2> QED BY <2>1, <2>2, <2>4
<1>5. ASSUME NoRepeats(s), NoRepeats(t), BatchSet(s) \cap BatchSet(t) = {}
      PROVE  NoRepeats(e)
  <2> SUFFICES ASSUME NEW m \in 1..(L + K), NEW n \in 1..(L + K), e[m] = e[n]
               PROVE  m = n
    BY <1>1 DEF NoRepeats
  <2>1. CASE m \in 1..L /\ n \in 1..L
    BY <2>1, <1>1, <1>5 DEF NoRepeats
  <2>2. CASE m > L /\ n > L
    <3>1. m - L \in DOMAIN t /\ n - L \in DOMAIN t /\ t[m - L] = t[n - L]
      BY <2>2, <1>1
    <3>2. m - L = n - L
      BY <3>1, <1>5 DEF NoRepeats
    <3> QED BY <3>2, <1>1
  <2> QED BY <2>1, <2>2, <1>2, <1>3, <1>5
<1> QED BY <1>1, <1>4, <1>5 DEF e

(* settleBatch on a batch that does not revert adds new nonces only, each     *)
(* once: the contract's own duplicate check makes the log free of repeats.    *)
LEMMA SettleBatchAdds ==
    ASSUME NEW b \in Seq(Intent), ~Reverts(b), SettleBatch(b),
           EventsAreNonces, NoRepeats(events), settlements = BatchSet(events)
    PROVE  /\ EventsAreNonces'
           /\ NoRepeats(events')
           /\ settlements' = BatchSet(events')
           /\ BatchSet(events') = BatchSet(events) \cup {NonceOf[i] : i \in BatchSet(b)}
<1> DEFINE ns == NoncesIn(b)
           K == Len(b)
<1>1. /\ settlements' = settlements \cup {NonceOf[b[n]] : n \in DOMAIN b}
      /\ events' = events \o ns
  BY DEF SettleBatch
<1>2. DOMAIN b = 1..K /\ K \in Nat /\ \A n \in 1..K : b[n] \in Intent
  OBVIOUS
<1>3. ns = [n \in 1..K |-> NonceOf[b[n]]]
  BY <1>2 DEF NoncesIn
<1>4. ns \in Seq(Nonces) /\ DOMAIN ns = 1..K /\ \A n \in 1..K : ns[n] = NonceOf[b[n]]
  <2>1. \A n \in 1..K : NonceOf[b[n]] \in Nonces
    BY <1>2 DEF Nonces
  <2> QED BY <1>2, <1>3, <2>1
<1>5. events \in Seq(Nonces)
  BY DEF EventsAreNonces
<1> HIDE DEF ns
<1>6. BatchSet(ns) = {NonceOf[b[n]] : n \in DOMAIN b}
      /\ BatchSet(ns) = {NonceOf[i] : i \in BatchSet(b)}
  BY <1>2, <1>4 DEF BatchSet
<1>7. \A n \in 1..K : /\ NonceOf[b[n]] \notin settlements
                      /\ \A j \in 1..(n - 1) : NonceOf[b[j]] # NonceOf[b[n]]
  BY <1>2 DEF Reverts
<1>8. NoRepeats(ns)
  <2> SUFFICES ASSUME NEW n \in 1..K, NEW j \in 1..K, NonceOf[b[j]] = NonceOf[b[n]]
               PROVE  n = j
    BY <1>4 DEF NoRepeats
  <2>1. j < n => j \in 1..(n - 1)
    BY <1>2
  <2>2. n < j => n \in 1..(j - 1)
    BY <1>2
  <2>3. j < n \/ n < j \/ j = n
    BY <1>2
  <2> QED BY <2>1, <2>2, <2>3, <1>7
<1>9. BatchSet(events) \cap BatchSet(ns) = {}
  BY <1>2, <1>6, <1>7
<1>10. /\ events \o ns \in Seq(Nonces)
       /\ BatchSet(events \o ns) = BatchSet(events) \cup BatchSet(ns)
       /\ NoRepeats(events \o ns)
  BY <1>4, <1>5, <1>8, <1>9, LogGrows
<1> QED BY <1>1, <1>6, <1>10 DEF EventsAreNonces

(* Mining the oldest transaction settles it or leaves the contract alone.     *)
LEMMA MineKeeps ==
    ASSUME SubmitterInv, Mine
    PROVE  pool' \in Seq(Seq(Intent)) /\ PoolTaken' /\ EventsAreNonces' /\ SettledOnce'
<1> DEFINE b == Head(pool)
<1>1. pool \in Seq(Seq(Intent)) /\ pool # <<>> /\ pool' = Tail(pool) /\ UNCHANGED fate
      /\ SettleBatch(b)
  BY DEF SubmitterInv, TypeOK, Mine
<1>2. /\ b \in Seq(Intent) /\ 1 \in DOMAIN pool /\ b = pool[1]
      /\ pool' \in Seq(Seq(Intent))
      /\ \A k \in DOMAIN pool' : k + 1 \in DOMAIN pool /\ pool'[k] = pool[k + 1]
  BY <1>1
<1>3. PoolTaken'
  BY <1>1, <1>2 DEF PoolTaken, SubmitterInv
<1>4. \A i \in BatchSet(b) : i \in Intent /\ fate[i] \notin {"new", "ignored", "buffered"}
  BY <1>2, BatchEmpty DEF SubmitterInv, PoolTaken, Taken
<1>5. EventsAreNonces' /\ SettledOnce'
  <2>1. CASE Reverts(b)
    <3>1. UNCHANGED <<settlements, events>>
      BY <1>1, <2>1 DEF SettleBatch, escrowVars
    <3> QED BY <1>1, <3>1 DEF SubmitterInv, SettledOnce, EventsAreNonces, NoRepeats
  <2>2. CASE ~Reverts(b)
    <3> HIDE DEF b
    <3>1. NoRepeats(events) /\ settlements = BatchSet(events) /\ EventsAreNonces
      BY DEF SubmitterInv, SettledOnce, BatchSet
    <3>2. /\ EventsAreNonces'
          /\ NoRepeats(events')
          /\ settlements' = BatchSet(events')
          /\ BatchSet(events') = BatchSet(events) \cup {NonceOf[i] : i \in BatchSet(b)}
      BY <1>1, <1>2, <2>2, <3>1, SettleBatchAdds
    <3>3. \A x \in BatchSet(events') : \E i \in Intent :
             NonceOf[i] = x /\ fate'[i] \notin {"new", "ignored", "buffered"}
      <4>1. \A x \in BatchSet(events) : \E i \in Intent :
               NonceOf[i] = x /\ fate[i] \notin {"new", "ignored", "buffered"}
        BY DEF SubmitterInv, SettledOnce, BatchSet
      <4> QED BY <4>1, <3>2, <1>1, <1>4
    <3>4. \A m \in DOMAIN events' : events'[m] \in BatchSet(events')
      BY DEF BatchSet
    <3>5. settlements' = {events'[m] : m \in DOMAIN events'}
      BY <3>2 DEF BatchSet
    <3> QED BY <3>2, <3>3, <3>4, <3>5 DEF SettledOnce
  <2> QED BY <2>1, <2>2
<1> QED BY <1>2, <1>3, <1>5

------------------------------------------------------------------------------
(* The invariant holds initially: nothing is buffered, sent or settled.       *)
LEMMA InitSubmitterInv == SubmitterInit => SubmitterInv
<1> SUFFICES ASSUME SubmitterInit PROVE SubmitterInv
  OBVIOUS
<1> USE DEF SubmitterInit, EscrowInit
<1>1. TypeOK
  <2>1. buf \in Seq(Intent) /\ pool \in Seq(Seq(Intent)) /\ firing \in Nat /\ sent \in Nat
    OBVIOUS
  <2>2. fate \in [Intent -> Fates]
    BY DEF Fates
  <2>3. closed \in BOOLEAN /\ timer \in {"nil", "running", "fired"} /\ calls = {}
    OBVIOUS
  <2> QED BY <2>1, <2>2, <2>3 DEF TypeOK, Fates
<1>2. NoneStranded /\ BatchBounded /\ CallsAreRecords /\ PoolTaken
  BY MaxBatchAssumption DEF NoneStranded, BatchBounded, CallsAreRecords, PoolTaken
<1>3. OwnedOnce
  BY DEF OwnedOnce, NoRepeats, BatchSet
<1>4. SettledOnce /\ EventsAreNonces
  <2>1. DOMAIN events = {} /\ events \in Seq(Nonces)
    OBVIOUS
  <2> QED BY <2>1 DEF SettledOnce, EventsAreNonces, NoRepeats
<1> QED BY <1>1, <1>2, <1>3, <1>4 DEF SubmitterInv

(* From its parts to the whole invariant, for the steps that do not mine.     *)
LEMMA Assemble ==
    ASSUME SubmitterInv, OwnershipKept, UNCHANGED escrowVars, NoneStranded',
           buf' \in Seq(Intent), timer' \in {"nil", "running", "fired"},
           firing' \in Nat, closed' \in BOOLEAN, sent' \in Nat,
           \/ UNCHANGED pool
           \/ \E b \in Seq(Intent) : /\ pool' = Append(pool, b)
                                     /\ \A i \in BatchSet(b) : fate[i] \in Taken
    PROVE  SubmitterInv'
<1>1. pool' \in Seq(Seq(Intent)) /\ PoolTaken' /\ SettledOnce'
  BY ChainKept DEF OwnershipKept
<1>2. EventsAreNonces'
  BY DEF SubmitterInv, EventsAreNonces, escrowVars
<1>3. \A c \in calls' : /\ c.batch \in Seq(Intent) /\ c.attempt \in 1..SubmitRetries
                        /\ c.acct \in Int
  BY DEF OwnershipKept, CallsAreRecords, CallSet
<1>4. TypeOK'
  BY <1>1, <1>3 DEF OwnershipKept, TypeOK, Fates
<1> QED BY <1>1, <1>2, <1>4 DEF SubmitterInv, OwnershipKept

(* Enqueue keeps the invariant.                                               *)
LEMMA EnqueueKeeps ==
    ASSUME SubmitterInv, NEW i \in Intent, Enqueue(i)
    PROVE  SubmitterInv'
<1> DEFINE filled == Append(buf, i)
<1>1. /\ buf \in Seq(Intent) /\ fate \in [Intent -> Fates] /\ closed \in BOOLEAN
      /\ timer \in {"nil", "running", "fired"} /\ firing \in Nat /\ sent \in Nat
      /\ calls \in SUBSET CallSet
  BY DEF SubmitterInv, TypeOK, Fates, CallsAreRecords
<1>2. fate[i] = "new" /\ UNCHANGED <<firing, closed, pool, sent, escrowVars>>
  BY DEF Enqueue
<1>3. i \notin BatchSet(buf) /\ \A c \in calls : i \notin BatchSet(c.batch)
  BY <1>2 DEF SubmitterInv, OwnedOnce
<1>4. /\ filled \in Seq(Intent) /\ filled # <<>> /\ Len(filled) = Len(buf) + 1
      /\ Len(buf) \in Nat /\ BatchSet(filled) = BatchSet(buf) \cup {i} /\ NoRepeats(filled)
  BY <1>1, <1>3, BatchAppend DEF SubmitterInv, OwnedOnce
<1>5. CASE closed
  <2>1. /\ fate' = [fate EXCEPT ![i] = "ignored"] /\ UNCHANGED <<buf, timer, calls>>
    BY <1>5 DEF Enqueue
  <2>2. OwnedOnce'
    BY <1>1, <1>2, <1>3, <2>1 DEF SubmitterInv, OwnedOnce
  <2>3. OwnershipKept
    BY <1>1, <1>2, <2>1, <2>2
       DEF SubmitterInv, OwnershipKept, CallsAreRecords, BatchBounded, FateKept, Fates, Taken
  <2>4. NoneStranded'
    BY <1>2, <2>1 DEF SubmitterInv, NoneStranded
  <2> QED BY <1>1, <1>2, <2>1, <2>3, <2>4, Assemble
<1>6. CASE ~closed /\ Len(filled) < MaxBatch
  <2>1. /\ buf' = filled /\ fate' = [fate EXCEPT ![i] = "buffered"] /\ UNCHANGED calls
        /\ timer' = IF Len(filled) = 1 THEN "running" ELSE timer
    BY <1>6 DEF Enqueue
  <2> HIDE DEF filled
  <2>2. OwnedOnce'
    <3>1. \A j \in Intent : fate'[j] = "buffered" <=> j \in BatchSet(buf')
      BY <1>1, <1>4, <2>1 DEF SubmitterInv, OwnedOnce
    <3>2. \A j \in Intent : fate'[j] = "submitting" <=> \E c \in calls' : j \in BatchSet(c.batch)
      BY <1>1, <1>2, <1>3, <2>1 DEF SubmitterInv, OwnedOnce
    <3> QED BY <1>4, <2>1, <3>1, <3>2 DEF SubmitterInv, OwnedOnce
  <2>3. OwnershipKept
    BY <1>1, <1>2, <1>6, <2>1, <2>2
       DEF SubmitterInv, OwnershipKept, CallsAreRecords, BatchBounded, FateKept, Fates, Taken
  <2>4. NoneStranded'
    <3>1. CASE buf = <<>>
      <4>1. Len(filled) = 1
        BY <3>1, <1>4
      <4> QED BY <4>1, <1>2, <1>4, <1>6, <2>1 DEF NoneStranded
    <3>2. CASE buf # <<>>
      <4>1. Len(filled) # 1
        BY <3>2, <1>1, <1>4, BatchEmpty
      <4> QED BY <4>1, <3>2, <1>2, <1>4, <1>6, <2>1 DEF SubmitterInv, NoneStranded
    <3> QED BY <3>1, <3>2
  <2> QED BY <1>1, <1>2, <1>4, <2>1, <2>3, <2>4, Assemble
<1>7. CASE ~closed /\ ~(Len(filled) < MaxBatch)
  <2>1. Steal /\ StartSubmit(filled)
    BY <1>7 DEF Enqueue
  <2>2. Len(filled) <= MaxBatch /\ BatchSet(buf) \subseteq BatchSet(filled)
        /\ \A j \in BatchSet(filled) : fate[j] \in {"new", "buffered"}
    BY <1>1, <1>2, <1>4, MaxBatchAssumption, BatchEmpty DEF SubmitterInv, BatchBounded, OwnedOnce
  <2> HIDE DEF filled
  <2>3. OwnershipKept
    BY <1>4, <2>1, <2>2, HandOver
  <2>4. buf' = <<>> /\ buf' \in Seq(Intent) /\ timer' = "nil"
    BY <2>1 DEF Steal
  <2>5. NoneStranded'
    BY <2>4 DEF NoneStranded
  <2> QED BY <1>1, <1>2, <2>3, <2>4, <2>5, Assemble
<1> QED BY <1>5, <1>6, <1>7

(* stealLocked from Flush, Stop or onTimer: the buffer goes to one submit.    *)
LEMMA StealKeeps ==
    ASSUME SubmitterInv, Steal, StartSubmit(buf),
           UNCHANGED <<pool, sent, escrowVars>>,
           firing' \in Nat, closed' \in BOOLEAN
    PROVE  SubmitterInv'
<1>1. /\ buf \in Seq(Intent) /\ sent \in Nat /\ Len(buf) \in Nat /\ Len(buf) <= MaxBatch
  BY MaxBatchAssumption DEF SubmitterInv, TypeOK, BatchBounded
<1>2. NoRepeats(buf) /\ \A i \in BatchSet(buf) : fate[i] \in {"new", "buffered"}
  BY <1>1, BatchEmpty DEF SubmitterInv, OwnedOnce
<1>3. OwnershipKept
  BY <1>1, <1>2, HandOver
<1>4. buf' = <<>> /\ buf' \in Seq(Intent) /\ timer' = "nil"
  BY DEF Steal
<1>5. NoneStranded'
  BY <1>4 DEF NoneStranded
<1> QED BY <1>1, <1>3, <1>4, <1>5, Assemble

(* A submit's steps keep the invariant: an RPC error, the gas estimation, and *)
(* the node's answer, accepted, refused or lost.                              *)
LEMMA SubmitStepKeeps ==
    ASSUME SubmitterInv, NEW c \in calls, SubmitStep(c)
    PROVE  SubmitterInv'
<1>1. /\ buf \in Seq(Intent) /\ closed \in BOOLEAN /\ timer \in {"nil", "running", "fired"}
      /\ firing \in Nat /\ sent \in Nat /\ c \in CallSet
      /\ c.batch \in Seq(Intent) /\ BatchSet(c.batch) \subseteq Intent
  BY BatchEmpty DEF SubmitterInv, TypeOK, CallsAreRecords
<1>2. /\ UNCHANGED <<buf, timer, firing, closed, escrowVars>>
      /\ sent' \in Nat
      /\ OwnershipKept
      /\ UNCHANGED pool \/ pool' = Append(pool, c.batch)
  <2>1. CASE Prepare(c)
    <3> DEFINE d == [c EXCEPT !.acct = sent]
    <3>1. CASE Reverts(c.batch)
      BY <2>1, <3>1, <1>1, AttemptFailsKeeps DEF Prepare
    <3>2. CASE ~Reverts(c.batch)
      <4>1. d \in CallSet /\ d.batch = c.batch
        BY <1>1 DEF CallSet
      <4>2. calls' = (calls \ {c}) \cup {d} /\ UNCHANGED <<buf, fate>>
        BY <2>1, <3>2 DEF Prepare
      <4> HIDE DEF d
      <4>3. OwnershipKept
        BY <4>1, <4>2, CallRenewed
      <4> QED BY <4>3, <2>1, <1>1 DEF Prepare
    <3> QED BY <3>1, <3>2
  <2>2. CASE Send(c)
    <3>1. CASE calls' = calls \ {c} /\ fate' = SetFate(c.batch, "sent")
      BY <2>2, <3>1, <1>1, CallEnds DEF Send
    <3>2. CASE AttemptFails(c)
      BY <2>2, <3>2, <1>1, AttemptFailsKeeps DEF Send
    <3> QED BY <2>2, <3>1, <3>2 DEF Send
  <2>3. CASE RpcError(c)
    BY <2>3, <1>1, AttemptFailsKeeps DEF RpcError
  <2> QED BY <2>1, <2>2, <2>3 DEF SubmitStep
<1>3. \A i \in BatchSet(c.batch) : fate[i] \in Taken
  BY <1>1 DEF SubmitterInv, OwnedOnce, Taken
<1>4. NoneStranded'
  BY <1>2 DEF SubmitterInv, NoneStranded
<1> QED BY <1>1, <1>2, <1>3, <1>4, Assemble

(* A restart forgets the buffer and the calls; what the node has stays there. *)
LEMMA KillKeeps ==
    ASSUME SubmitterInv, Kill
    PROVE  SubmitterInv'
<1>1. /\ buf' = <<>> /\ timer' = "nil" /\ firing' = 0 /\ closed' = FALSE /\ calls' = {}
      /\ UNCHANGED <<pool, sent, escrowVars>>
      /\ fate' = [i \in Intent |-> IF fate[i] \in {"buffered", "submitting"} THEN "lost"
                                                                            ELSE fate[i]]
  BY DEF Kill
<1>2. fate \in [Intent -> Fates] /\ sent \in Nat
  BY DEF SubmitterInv, TypeOK, Fates
<1>3. /\ fate' \in [Intent -> Fates]
      /\ \A i \in Intent : fate'[i] # "buffered" /\ fate'[i] # "submitting"
      /\ \A i \in Intent : fate[i] \in Taken => fate'[i] \in Taken
  BY <1>1, <1>2 DEF Fates, Taken
<1>4. OwnedOnce' /\ NoneStranded' /\ BatchBounded' /\ buf' \in Seq(Intent)
  BY <1>1, <1>3, MaxBatchAssumption DEF OwnedOnce, NoneStranded, BatchBounded, NoRepeats, BatchSet
<1>5. OwnershipKept
  BY <1>1, <1>3, <1>4 DEF OwnershipKept, CallsAreRecords, FateKept
<1> QED BY <1>1, <1>2, <1>4, <1>5, Assemble

(* Every step of the submitter and the chain preserves the invariant.         *)
LEMMA NextSubmitterInv == SubmitterInv /\ [Next]_vars => SubmitterInv'
<1> SUFFICES ASSUME SubmitterInv, [Next]_vars PROVE SubmitterInv'
  OBVIOUS
<1>0. /\ buf \in Seq(Intent) /\ closed \in BOOLEAN /\ timer \in {"nil", "running", "fired"}
      /\ firing \in Nat /\ sent \in Nat /\ fate \in [Intent -> Fates]
  BY DEF SubmitterInv, TypeOK, Fates
<1>1. UNCHANGED <<buf, calls, fate>> => OwnershipKept
  BY <1>0 DEF SubmitterInv, OwnershipKept, CallsAreRecords, OwnedOnce, BatchBounded, FateKept
<1>2. CASE \E i \in Intent : Enqueue(i)
  BY <1>2, EnqueueKeeps
<1>3. CASE TimerFires
  <2>1. NoneStranded'
    BY <1>0, <1>3 DEF TimerFires, SubmitterInv, NoneStranded
  <2> QED BY <1>0, <1>1, <1>3, <2>1, Assemble DEF TimerFires
<1>4. CASE OnTimer
  <2>1. firing' \in Nat
    BY <1>0, <1>4 DEF OnTimer
  <2>2. CASE closed \/ buf = <<>>
    <3>1. UNCHANGED <<buf, timer, calls, fate, closed>> /\ buf = <<>>
      BY <1>4, <2>2 DEF OnTimer, SubmitterInv, NoneStranded
    <3>2. NoneStranded'
      BY <3>1 DEF SubmitterInv, NoneStranded
    <3> QED BY <1>0, <1>1, <1>4, <2>1, <3>1, <3>2, Assemble DEF OnTimer
  <2>3. CASE ~(closed \/ buf = <<>>)
    BY <1>0, <1>4, <2>1, <2>3, StealKeeps DEF OnTimer
  <2> QED BY <2>2, <2>3
<1>5. CASE Flush
  BY <1>0, <1>5, StealKeeps DEF Flush
<1>6. CASE Stop
  BY <1>0, <1>6, StealKeeps DEF Stop
<1>7. CASE \E c \in calls : SubmitStep(c)
  BY <1>7, SubmitStepKeeps
<1>8. CASE Mine
  <2>1. UNCHANGED <<buf, timer, firing, closed, calls, fate, sent>>
    BY <1>8 DEF Mine
  <2>2. pool' \in Seq(Seq(Intent)) /\ PoolTaken' /\ EventsAreNonces' /\ SettledOnce'
    BY <1>8, MineKeeps
  <2>3. TypeOK'
    BY <2>1, <2>2 DEF SubmitterInv, TypeOK
  <2>4. NoneStranded' /\ OwnedOnce' /\ BatchBounded' /\ CallsAreRecords'
    BY <2>1 DEF SubmitterInv, NoneStranded, OwnedOnce, BatchBounded, CallsAreRecords
  <2> QED BY <2>2, <2>3, <2>4 DEF SubmitterInv
<1>9. CASE Kill
  BY <1>9, KillKeeps
<1>10. CASE UNCHANGED vars
  <2>1. NoneStranded'
    BY <1>10 DEF vars, submitVars, SubmitterInv, NoneStranded
  <2> QED BY <1>0, <1>1, <1>10, <2>1, Assemble DEF vars, submitVars
<1> QED BY <1>2, <1>3, <1>4, <1>5, <1>6, <1>7, <1>8, <1>9, <1>10 DEF Next

(* The inductive invariant holds in every reachable state.                    *)
THEOREM SubmitterInvariant == Spec => []SubmitterInv
  BY InitSubmitterInv, NextSubmitterInv, PTL DEF Spec

(* The variables of submitter.go's model keep their types.                    *)
THEOREM SubmitterTypeCorrect == Spec => []TypeOK
<1>1. SubmitterInv => TypeOK
  BY DEF SubmitterInv
<1> QED BY <1>1, SubmitterInvariant, PTL

(* No intent waits in the buffer without a timer or its goroutine to fetch    *)
(* it, whatever stale timers, flushes and Stop interleave.                    *)
THEOREM SubmitterNoneStranded == Spec => []NoneStranded
<1>1. SubmitterInv => NoneStranded
  BY DEF SubmitterInv
<1> QED BY <1>1, SubmitterInvariant, PTL

(* No intent is ever in two submits, or in a submit and in the buffer.        *)
THEOREM SubmitterOwnedOnce == Spec => []OwnedOnce
<1>1. SubmitterInv => OwnedOnce
  BY DEF SubmitterInv
<1> QED BY <1>1, SubmitterInvariant, PTL

(* No batch is larger than maxBatch, hence none larger than the contract's    *)
(* MAX_BATCH.                                                                 *)
THEOREM SubmitterBatchBounded == Spec => []BatchBounded
<1>1. SubmitterInv => BatchBounded
  BY DEF SubmitterInv
<1> QED BY <1>1, SubmitterInvariant, PTL

(* A payment settles at most once, and only after its frame was accepted,     *)
(* however its batch was resent and however many frames share its nonce.      *)
THEOREM SubmitterSettledOnce == Spec => []SettledOnce
<1>1. SubmitterInv => SettledOnce
  BY DEF SubmitterInv
<1> QED BY <1>1, SubmitterInvariant, PTL
=============================================================================
