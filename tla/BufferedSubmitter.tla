-------------------------- MODULE BufferedSubmitter --------------------------
(***************************************************************************)
(* gateway/internal/core/chain/submitter.go and client.go: intents gather in *)
(* a buffer under a mutex; whoever finds it full, the interval timer, Flush  *)
(* or Stop steals it and submits it outside the lock, so several submits run *)
(* at once.  Every step below is one stretch of code under the mutex or one  *)
(* RPC of a submit.                                                          *)
(***************************************************************************)
EXTENDS Escrow

CONSTANTS MaxBatch,       \* BufferedSubmitter.maxBatch
          SubmitRetries,  \* submitRetries: attempts per batch
          Environment     \* "rpc", "reply", "kill", "stop", "flush": what may come from outside

ASSUME MaxBatchAssumption == MaxBatch \in Nat \ {0} /\ MaxBatch <= EscrowMax
ASSUME RetriesAssumption == SubmitRetries \in Nat \ {0}
ASSUME EnvironmentAssumption == Environment \subseteq {"rpc", "reply", "kill", "stop", "flush"}

VARIABLES buf,     \* intents of the current batch
          timer,   \* s.timer: nil, running, or fired (Stop no longer helps)
          firing,  \* onTimer goroutines that have not got the mutex yet
          closed,  \* Stop was called
          calls,   \* submits in flight: [batch, attempt, acct]
          fate,    \* what became of each intent
          pool,    \* transactions the node accepted and has not mined, in nonce order
          sent     \* account nonce of the gateway's key: transactions accepted so far

submitVars == <<buf, timer, firing, closed, calls, fate, pool, sent>>
vars == <<submitVars, escrowVars>>

NotPrepared == -1

BatchSet(batch) == {batch[i] : i \in DOMAIN batch}

SetFate(batch, f) == [i \in Intent |-> IF i \in BatchSet(batch) THEN f ELSE fate[i]]

SubmitterInit ==
    /\ buf = <<>> /\ timer = "nil" /\ firing = 0 /\ closed = FALSE
    /\ calls = {} /\ pool = <<>> /\ sent = 0
    /\ fate = [i \in Intent |-> "new"]
    /\ EscrowInit

\* submit: a batch with anything in it starts its first attempt.
StartSubmit(batch) ==
    IF batch = <<>>
      THEN UNCHANGED <<calls, fate>>
      ELSE /\ calls' = calls \cup {[batch |-> batch, attempt |-> 1, acct |-> NotPrepared]}
           /\ fate' = SetFate(batch, "submitting")

\* Mutant of Steal: the buffer is handed out but not replaced.
StealShared == UNCHANGED buf /\ timer' = "nil"

\* Mutant of Steal: the timer is left as it is.
StealKeepsTimer == buf' = <<>> /\ UNCHANGED timer

\* stealLocked.  Stopping a timer that has fired does not stop its goroutine.
Steal == buf' = <<>> /\ timer' = "nil"

\* Mutant of Enqueue: the flush comes one intent late.
EnqueueLate(i) ==
    /\ fate[i] = "new" /\ ~closed
    /\ LET filled == Append(buf, i) IN
       IF Len(filled) <= MaxBatch
         THEN /\ buf' = filled
              /\ timer' = IF Len(filled) = 1 THEN "running" ELSE timer
              /\ fate' = [fate EXCEPT ![i] = "buffered"]
              /\ UNCHANGED calls
         ELSE Steal /\ StartSubmit(filled)
    /\ UNCHANGED <<firing, closed, pool, sent, escrowVars>>

\* Mutant of Enqueue: nobody starts the interval timer.
EnqueueUntimed(i) ==
    /\ fate[i] = "new" /\ ~closed
    /\ LET filled == Append(buf, i) IN
       IF Len(filled) < MaxBatch
         THEN /\ buf' = filled
              /\ fate' = [fate EXCEPT ![i] = "buffered"]
              /\ UNCHANGED <<timer, calls>>
         ELSE Steal /\ StartSubmit(filled)
    /\ UNCHANGED <<firing, closed, pool, sent, escrowVars>>

\* Enqueue, with the append, the timer and the flush of a full buffer.
Enqueue(i) ==
    /\ fate[i] = "new"
    /\ IF closed
         THEN fate' = [fate EXCEPT ![i] = "ignored"] /\ UNCHANGED <<buf, timer, calls>>
         ELSE LET filled == Append(buf, i) IN
              IF Len(filled) < MaxBatch
                THEN /\ buf' = filled
                     /\ timer' = IF Len(filled) = 1 THEN "running" ELSE timer
                     /\ fate' = [fate EXCEPT ![i] = "buffered"]
                     /\ UNCHANGED calls
                ELSE Steal /\ StartSubmit(filled)
    /\ UNCHANGED <<firing, closed, pool, sent, escrowVars>>

\* The interval elapses: AfterFunc starts a goroutine that waits for the mutex.
TimerFires ==
    /\ timer = "running"
    /\ timer' = "fired"
    /\ firing' = firing + 1
    /\ UNCHANGED <<buf, closed, calls, fate, pool, sent, escrowVars>>

\* onTimer, once it holds the mutex.
OnTimer ==
    /\ firing > 0
    /\ firing' = firing - 1
    /\ IF closed \/ buf = <<>>
         THEN UNCHANGED <<buf, timer, calls, fate>>
         ELSE Steal /\ StartSubmit(buf)
    /\ UNCHANGED <<closed, pool, sent, escrowVars>>

\* Flush and Stop are for tests and for a shutdown in which main returns.
Flush ==
    /\ "flush" \in Environment /\ ~closed /\ buf # <<>>
    /\ Steal /\ StartSubmit(buf)
    /\ UNCHANGED <<firing, closed, pool, sent, escrowVars>>

Stop ==
    /\ "stop" \in Environment /\ ~closed
    /\ closed' = TRUE
    /\ Steal /\ StartSubmit(buf)
    /\ UNCHANGED <<firing, pool, sent, escrowVars>>

\* Mutant of AttemptFails: one attempt too many.
AttemptFailsLate(c) ==
    IF c.attempt <= SubmitRetries
      THEN /\ calls' = (calls \ {c}) \cup
                       {[batch |-> c.batch, attempt |-> c.attempt + 1, acct |-> NotPrepared]}
           /\ UNCHANGED fate
      ELSE calls' = calls \ {c} /\ fate' = SetFate(c.batch, "dropped")

\* submit's loop after an error: the next attempt, or log and drop.
AttemptFails(c) ==
    IF c.attempt < SubmitRetries
      THEN /\ calls' = (calls \ {c}) \cup
                       {[batch |-> c.batch, attempt |-> c.attempt + 1, acct |-> NotPrepared]}
           /\ UNCHANGED fate
      ELSE calls' = calls \ {c} /\ fate' = SetFate(c.batch, "dropped")

\* First half of SettleBatch's Transact: gas estimation runs the call on the
\* present chain and fails if it reverts; then the account nonce is read.
Prepare(c) ==
    /\ c.acct = NotPrepared
    /\ IF Reverts(c.batch)
         THEN AttemptFails(c)
         ELSE /\ calls' = (calls \ {c}) \cup {[c EXCEPT !.acct = sent]}
              /\ UNCHANGED fate
    /\ UNCHANGED <<buf, timer, firing, closed, pool, sent, escrowVars>>

\* Mutant of Send: the node's refusal is not looked at.
SendUnchecked(c) ==
    /\ c.acct # NotPrepared
    /\ IF c.acct = sent
         THEN pool' = Append(pool, c.batch) /\ sent' = sent + 1
         ELSE UNCHANGED <<pool, sent>>
    /\ calls' = calls \ {c} /\ fate' = SetFate(c.batch, "sent")
    /\ UNCHANGED <<buf, timer, firing, closed, escrowVars>>

\* Second half: the node accepts a transaction with the next account nonce and
\* refuses one whose nonce another submit has used meanwhile.
Send(c) ==
    /\ c.acct # NotPrepared
    /\ IF c.acct = sent
         THEN /\ pool' = Append(pool, c.batch)
              /\ sent' = sent + 1
              /\ \/ calls' = calls \ {c} /\ fate' = SetFate(c.batch, "sent")
                 \/ "reply" \in Environment /\ AttemptFails(c)
         ELSE AttemptFails(c) /\ UNCHANGED <<pool, sent>>
    /\ UNCHANGED <<buf, timer, firing, closed, escrowVars>>

\* An RPC of the attempt fails before the node has the transaction.
RpcError(c) ==
    /\ "rpc" \in Environment
    /\ AttemptFails(c)
    /\ UNCHANGED <<buf, timer, firing, closed, pool, sent, escrowVars>>

\* The node mines the gateway's oldest transaction.
Mine ==
    /\ pool # <<>>
    /\ pool' = Tail(pool)
    /\ SettleBatch(Head(pool))
    /\ UNCHANGED <<buf, timer, firing, closed, calls, fate, sent>>

\* The gateway dies and restarts: nothing of the submitter is persisted.
Kill ==
    /\ "kill" \in Environment
    /\ buf' = <<>> /\ timer' = "nil" /\ firing' = 0 /\ closed' = FALSE /\ calls' = {}
    /\ fate' = [i \in Intent |-> IF fate[i] \in {"buffered", "submitting"} THEN "lost" ELSE fate[i]]
    /\ UNCHANGED <<pool, sent, escrowVars>>

SubmitStep(c) == Prepare(c) \/ Send(c) \/ RpcError(c)

Next ==
    \/ \E i \in Intent : Enqueue(i)
    \/ TimerFires \/ OnTimer \/ Flush \/ Stop
    \/ \E c \in calls : SubmitStep(c)
    \/ Mine
    \/ Kill

Spec == SubmitterInit /\ [][Next]_vars

\* The runtime fires timers and runs goroutines, RPCs end at submitTimeout at the
\* latest, and the chain keeps mining.  Nobody is obliged to Enqueue, Flush or Stop.
Fairness ==
    /\ WF_vars(TimerFires) /\ WF_vars(OnTimer) /\ WF_vars(Mine)
    /\ WF_vars(\E c \in calls : SubmitStep(c))

FairSpec == Spec /\ Fairness

------------------------------------------------------------------------------
TypeOK ==
    /\ buf \in Seq(Intent)
    /\ timer \in {"nil", "running", "fired"}
    /\ firing \in Nat
    /\ closed \in BOOLEAN
    /\ \A c \in calls : /\ c.batch \in Seq(Intent) /\ c.attempt \in 1..SubmitRetries
                        /\ c.acct \in Int
    /\ fate \in [Intent -> {"new", "ignored", "buffered", "submitting", "sent", "dropped", "lost"}]
    /\ pool \in Seq(Seq(Intent))
    /\ sent \in Nat

NoRepeats(s) == \A m, n \in DOMAIN s : s[m] = s[n] => m = n

(* No intent is stranded: while the buffer holds something, the interval      *)
(* timer is running or its goroutine is on its way, in spite of stale timers, *)
(* flushes and Stop (submitter.go:97-101, 150-172).                           *)
NoneStranded ==
    /\ buf # <<>> => ~closed /\ (timer = "running" \/ firing > 0)
    /\ timer # "nil" => buf # <<>>

(* Ownership: an intent is in the buffer or in exactly one submit, once, and  *)
(* never in two submits even when a late onTimer, a full Enqueue, Flush and   *)
(* Stop compete for the buffer.                                               *)
OwnedOnce ==
    /\ \A c, d \in calls : c # d => BatchSet(c.batch) \cap BatchSet(d.batch) = {}
    /\ \A c \in calls : NoRepeats(c.batch)
    /\ NoRepeats(buf)
    /\ \A i \in Intent : fate[i] = "submitting" <=> \E c \in calls : i \in BatchSet(c.batch)
    /\ \A i \in Intent : fate[i] = "buffered" <=> i \in BatchSet(buf)

(* Batches stay within what the contract takes, so none reverts for its size. *)
BatchBounded ==
    /\ Len(buf) < MaxBatch
    /\ \A c \in calls : Len(c.batch) \in 1..MaxBatch

(* A payment settles at most once, however often its batch is resent after an *)
(* answer that got lost, and only what was accepted settles.                  *)
SettledOnce ==
    /\ NoRepeats(events)
    /\ settlements = {events[m] : m \in DOMAIN events}
    /\ \A m \in DOMAIN events : \E i \in Intent :
          NonceOf[i] = events[m] /\ fate[i] \notin {"new", "ignored", "buffered"}

(* Every accepted intent leaves the buffer and its submit comes to an end:    *)
(* it was sent, it was dropped after the last attempt, or the gateway died.   *)
EveryIntentResolved ==
    \A i \in Intent : fate[i] = "buffered" ~> fate[i] \in {"sent", "dropped", "lost"}

(* No frame has been accepted twice so far.                                   *)
NoReplay ==
    \A i, j \in Intent :
        fate[i] # "new" /\ fate[j] # "new" /\ NonceOf[i] = NonceOf[j] => i = j

(* As long as no frame is replayed, what settlebatch.ok was logged for settles, *)
(* although submits overlap, race for the account nonce and are retried.       *)
SentSettles ==
    \A i \in Intent : fate[i] = "sent" ~> NonceOf[i] \in settlements \/ ~NoReplay

(* Submitter and chain are at rest.                                           *)
Quiet == buf = <<>> /\ calls = {} /\ pool = <<>>

(* Escrow.sol:32-34: replays of a frame collapse to a single entry.  Once     *)
(* everything is at rest, a frame that was submitted, once or twice, has its  *)
(* entry.                                                                     *)
ReplaysCollapse ==
    Quiet => \A i \in Payable : fate[i] \in {"sent", "dropped"} => NonceOf[i] \in settlements
=============================================================================
