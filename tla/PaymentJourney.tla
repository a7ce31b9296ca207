--------------------------- MODULE PaymentJourney ---------------------------
(***************************************************************************)
(* What the gateway promises about a payment from the frame it accepts to   *)
(* the receipt it hands to the ground station, without batches, blocks,     *)
(* files or processes: one stage after the other, a receipt only for what   *)
(* has settled, and a failure takes back only receipts and dispatches whose *)
(* call had not returned nil.  Gateway implements it.                       *)
(***************************************************************************)
EXTENDS Naturals

CONSTANT Payment  \* settlement nonces

VARIABLES stage,  \* stage[p]: how far the payment has come
          told    \* told[p]: how far its receipt has come by calls that returned nil

journeyVars == <<stage, told>>

New == 0
Accepted == 1
Settled == 2
Receipted == 3
Dispatched == 4

JourneyInit ==
    /\ stage = [p \in Payment |-> New]
    /\ told = [p \in Payment |-> New]

Accept(p) ==
    /\ stage[p] = New
    /\ stage' = [stage EXCEPT ![p] = Accepted]
    /\ UNCHANGED told

\* A batch settles as a whole, and an accepted payment may never settle.
Settle(batch) ==
    /\ batch # {} /\ \A p \in batch : stage[p] = Accepted
    /\ stage' = [p \in Payment |-> IF p \in batch THEN Settled ELSE stage[p]]
    /\ UNCHANGED told

Receipt(p) ==
    /\ stage[p] = Settled
    /\ stage' = [stage EXCEPT ![p] = Receipted]
    /\ UNCHANGED told

Dispatch(p) ==
    /\ stage[p] = Receipted
    /\ stage' = [stage EXCEPT ![p] = Dispatched]
    /\ UNCHANGED told

Tell(p) ==
    /\ stage[p] >= Receipted /\ told[p] < stage[p]
    /\ told' = [told EXCEPT ![p] = stage[p]]
    /\ UNCHANGED stage

PowerFails ==
    /\ stage' \in [Payment -> New..Dispatched]
    /\ \A p \in Payment :
          /\ stage'[p] # stage[p] => stage'[p] >= Settled
          /\ told[p] <= stage'[p] /\ stage'[p] <= stage[p]
    /\ UNCHANGED told

JourneyNext ==
    \/ \E p \in Payment : Accept(p) \/ Receipt(p) \/ Dispatch(p) \/ Tell(p)
    \/ \E batch \in SUBSET Payment : Settle(batch)
    \/ PowerFails

JourneySpec == JourneyInit /\ [][JourneyNext]_journeyVars
=============================================================================
