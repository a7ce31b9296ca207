-------------------------- MODULE PaymentLinkProofs --------------------------
(***************************************************************************)
(* The safety of PaymentLink for every number of invoices, commands, queue   *)
(* slots, clock ticks and failures, and for every set of failures.           *)
(***************************************************************************)
EXTENDS PaymentLink, TLAPS, FiniteSetTheorems

(* What may be where.  Everything behind the buyer's transmitter was sent,    *)
(* and everything on the operator's side was announced by the buyer.          *)
SentLine == [type : {"PACKET_B"}, pay : sent, sig : BOOLEAN]
AnnouncedLine == [type : {"INVOICE"}, inv : announced]
CommandLine == [type : {"ACK_BUY"}, seen : announced \cup {None}] \cup {PacketAckLine}
SettledIntent == [pay : sent, nonce : Nat, sig : {TRUE}]

DataFlow ==
    /\ toGround \in Seq(SentLine \cup AnnouncedLine)
    /\ toBuyer \in Seq(CommandLine)
    /\ seen \in announced \cup {None}
    /\ packetBin \in SentLine \cup {Free}
    /\ pushing \in SentLine \cup {Free}
    /\ inbox \in Seq(SentLine)
    /\ intents \in Seq(SettledIntent)
    /\ dropped \subseteq sent

(* Invoices pass the buyer in the order of their broadcast, each at most once: *)
(* the one in the radio is newer than all the buyer has announced, the pending *)
(* one is the newest announced and is not paid yet.                           *)
InvoiceOrder ==
    /\ radio.crc => radio.inv \in 1..offers /\ \A a \in announced : a < radio.inv
    /\ pending # None => /\ pending \in announced
                         /\ \A a \in announced : a <= pending
                         /\ \A p \in sent : p.inv # pending
    /\ announced \subseteq 1..offers
    /\ \A p \in sent : p.inv \in announced

(* The variables of single machines, and the room in the queues.              *)
Machines ==
    /\ offers \in 0..MaxOffers /\ uptime \in 0..MaxUptime
    /\ radio \in [inv : None..Garbled, crc : BOOLEAN]
    /\ pending \in None..MaxOffers /\ sent \subseteq Payment
    /\ Len(toBuyer) <= QueueLimit /\ Len(toGround) <= QueueLimit
    /\ acks \in 0..MaxAcks
    /\ gateway \in {"down", "offchain", "up"}
    /\ failures \in 0..MaxFailures

LinkInv ==
    /\ Machines
    /\ InvoiceOrder
    /\ DataFlow
    /\ InvoicePaidOnce
    /\ PaidNotOlder

------------------------------------------------------------------------------
(* Lemmas about sequences.                                                    *)

(* A sequence of lines stays one when more lines are possible.                *)
LEMMA SeqWiden ==
    ASSUME NEW S, NEW T, S \subseteq T, NEW s \in Seq(S)
    PROVE  s \in Seq(T)
  OBVIOUS

(* Reading the oldest line of a queue.                                        *)
LEMMA QueueRead ==
    ASSUME NEW S, NEW s \in Seq(S), s # <<>>
    PROVE  Head(s) \in S /\ Tail(s) \in Seq(S) /\ Len(Tail(s)) = Len(s) - 1 /\ Len(s) \in Nat
  OBVIOUS

(* Writing a line to a queue.                                                 *)
LEMMA QueueWrite ==
    ASSUME NEW S, NEW s \in Seq(S), NEW e \in S
    PROVE  Append(s, e) \in Seq(S) /\ Len(Append(s, e)) = Len(s) + 1 /\ Len(s) \in Nat
  OBVIOUS

(* Damaging the oldest line of a queue leaves the others alone.               *)
LEMMA QueueReplace ==
    ASSUME NEW S, NEW s \in Seq(S), s # <<>>, NEW e \in S
    PROVE  /\ <<e>> \o Tail(s) \in Seq(S) /\ Len(<<e>> \o Tail(s)) = Len(s)
           /\ Head(<<e>> \o Tail(s)) = e /\ Tail(<<e>> \o Tail(s)) = Tail(s)
<1> DEFINE t == Tail(s)
<1>1. t \in Seq(S) /\ Len(t) = Len(s) - 1 /\ Len(s) \in Nat
  OBVIOUS
<1>2. <<e>> \in Seq(S) /\ Len(<<e>>) = 1 /\ <<e>>[1] = e
  OBVIOUS
<1> HIDE DEF t
<1>3. <<e>> \o t \in Seq(S) /\ Len(<<e>> \o t) = Len(s) /\ (<<e>> \o t)[1] = e
  BY <1>1, <1>2
<1>4. Head(<<e>> \o t) = e
  BY <1>3
<1>5. Tail(<<e>> \o t) = t
  BY <1>1, <1>2, <1>3
<1> QED BY <1>3, <1>4, <1>5 DEF t

(* Serving the request at position n takes it out of the inbox.               *)
LEMMA QueueRemove ==
    ASSUME NEW S, NEW s \in Seq(S), NEW n \in DOMAIN s
    PROVE  /\ RemoveAt(s, n) \in Seq(S) /\ Len(RemoveAt(s, n)) = Len(s) - 1
           /\ s[n] \in S /\ Len(s) \in Nat /\ n \in 1..Len(s)
           /\ \A m \in 1..(Len(s) - 1) :
                 RemoveAt(s, n)[m] = IF m < n THEN s[m] ELSE s[m + 1]
<1> DEFINE a == SubSeq(s, 1, n - 1)
           b == SubSeq(s, n + 1, Len(s))
<1>1. n \in 1..Len(s) /\ Len(s) \in Nat /\ s[n] \in S
  OBVIOUS
<1>2. a \in Seq(S) /\ Len(a) = n - 1 /\ \A m \in 1..(n - 1) : a[m] = s[m]
  BY <1>1
<1>3. b \in Seq(S) /\ Len(b) = Len(s) - n /\ \A m \in 1..(Len(s) - n) : b[m] = s[m + n]
  BY <1>1
<1> HIDE DEF a, b
<1>4. /\ a \o b \in Seq(S) /\ Len(a \o b) = Len(s) - 1
      /\ \A m \in 1..(Len(s) - 1) : (a \o b)[m] = IF m <= Len(a) THEN a[m] ELSE b[m - Len(a)]
  BY <1>1, <1>2, <1>3, SMTT(30)
<1>5. \A m \in 1..(Len(s) - 1) : (a \o b)[m] = IF m < n THEN s[m] ELSE s[m + 1]
  <2> SUFFICES ASSUME NEW m \in 1..(Len(s) - 1)
               PROVE  (a \o b)[m] = IF m < n THEN s[m] ELSE s[m + 1]
    OBVIOUS
  <2>1. CASE m < n
    <3>1. m <= Len(a) /\ m \in 1..(n - 1)
      BY <2>1, <1>1, <1>2
    <3> QED BY <3>1, <2>1, <1>2, <1>4
  <2>2. CASE ~(m < n)
    <3>1. ~(m <= Len(a)) /\ m - (n - 1) \in 1..(Len(s) - n) /\ (m - (n - 1)) + n = m + 1
      BY <2>2, <1>1, <1>2
    <3>2. (a \o b)[m] = b[m - (n - 1)]
      BY <3>1, <1>2, <1>4
    <3> QED BY <3>1, <3>2, <2>2, <1>3
  <2> QED BY <2>1, <2>2
<1>6. RemoveAt(s, n) = a \o b
  BY DEF RemoveAt, a, b
<1> QED BY <1>1, <1>4, <1>5, <1>6

------------------------------------------------------------------------------
(* Steps.                                                                     *)

(* What was sent or announced stays so: every queue keeps its type.           *)
LEMMA Widen ==
    ASSUME DataFlow, sent \subseteq sent', announced \subseteq announced'
    PROVE  /\ toGround \in Seq(SentLine' \cup AnnouncedLine')
           /\ toBuyer \in Seq(CommandLine')
           /\ seen \in announced' \cup {None}
           /\ packetBin \in SentLine' \cup {Free}
           /\ pushing \in SentLine' \cup {Free}
           /\ inbox \in Seq(SentLine')
           /\ intents \in Seq(SettledIntent')
           /\ dropped \subseteq sent'
<1>1. SentLine \subseteq SentLine'
  BY DEF SentLine
<1>2. AnnouncedLine \subseteq AnnouncedLine'
  BY DEF AnnouncedLine
<1>3. CommandLine \subseteq CommandLine'
  BY DEF CommandLine
<1>4. SettledIntent \subseteq SettledIntent'
  BY DEF SettledIntent
<1>5. SentLine \cup AnnouncedLine \subseteq SentLine' \cup AnnouncedLine'
  BY <1>1, <1>2
<1>6. toGround \in Seq(SentLine' \cup AnnouncedLine')
  BY <1>5, SeqWiden DEF DataFlow
<1>7. toBuyer \in Seq(CommandLine') /\ inbox \in Seq(SentLine') /\ intents \in Seq(SettledIntent')
  BY <1>1, <1>3, <1>4, SeqWiden DEF DataFlow
<1>8. seen \in announced' \cup {None} /\ dropped \subseteq sent'
  BY DEF DataFlow
<1>9. packetBin \in SentLine' \cup {Free} /\ pushing \in SentLine' \cup {Free}
  <2>1. packetBin \in SentLine \cup {Free} /\ pushing \in SentLine \cup {Free}
    BY DEF DataFlow
  <2> HIDE DEF SentLine
  <2> QED BY <1>1, <2>1, Zenon
<1> QED BY <1>6, <1>7, <1>8, <1>9

(* The invoices of a step that neither hears, announces nor pays anything.    *)
LEMMA InvoicesKept ==
    ASSUME LinkInv, UNCHANGED <<offers, radio, pending, announced, sent>>
    PROVE  InvoiceOrder' /\ InvoicePaidOnce' /\ PaidNotOlder' /\ sent \subseteq sent'
           /\ announced \subseteq announced'
  BY DEF LinkInv, InvoiceOrder, InvoicePaidOnce, PaidNotOlder

(* Broadcasting, heard or not.                                                *)
LEMMA BroadcastKeeps ==
    ASSUME LinkInv, Broadcast \/ BroadcastDisturbed
    PROVE  LinkInv'
<1>1. /\ offers' = offers + 1 /\ offers < MaxOffers
      /\ radio' \in {radio, [inv |-> Garbled, crc |-> FALSE], [inv |-> offers', crc |-> TRUE]}
      /\ UNCHANGED <<uptime, pending, announced, sent, serialVars, groundVars, gatewayVars, dropped>>
      /\ failures' = failures \/ (failures < MaxFailures /\ failures' = failures + 1)
  BY DEF Broadcast, BroadcastDisturbed, Fault
<1>2. /\ offers \in Nat /\ MaxOffers \in Nat /\ failures \in Nat /\ MaxFailures \in Nat
  BY LinkBoundsAssumption DEF LinkInv, Machines
<1>3. radio' \in [inv : None..Garbled, crc : BOOLEAN]
  <2>1. offers' \in None..Garbled /\ Garbled \in None..Garbled
    BY <1>1, <1>2 DEF None, Garbled
  <2>2. radio \in [inv : None..Garbled, crc : BOOLEAN]
    BY DEF LinkInv, Machines
  <2>3. /\ [inv |-> Garbled, crc |-> FALSE] \in [inv : None..Garbled, crc : BOOLEAN]
        /\ [inv |-> offers', crc |-> TRUE] \in [inv : None..Garbled, crc : BOOLEAN]
    BY <2>1
  <2> QED BY <1>1, <2>2, <2>3
<1>4. Machines'
  <2>1. offers' \in 0..MaxOffers /\ failures' \in 0..MaxFailures
    BY <1>1, <1>2 DEF LinkInv, Machines
  <2> QED BY <1>1, <1>3, <2>1 DEF LinkInv, Machines, serialVars, groundVars, gatewayVars
<1>5. InvoiceOrder'
  <2>1. 1..offers \subseteq 1..offers' /\ offers' \in 1..offers' /\ \A a \in 1..offers : a < offers'
    BY <1>1, <1>2
  <2>2. announced \subseteq 1..offers
    BY DEF LinkInv, InvoiceOrder
  <2>3. radio'.crc => radio'.inv \in 1..offers' /\ \A a \in announced : a < radio'.inv
    <3>1. CASE radio' = radio
      BY <3>1, <2>1 DEF LinkInv, InvoiceOrder
    <3>2. CASE radio' = [inv |-> Garbled, crc |-> FALSE]
      BY <3>2
    <3>3. CASE radio' = [inv |-> offers', crc |-> TRUE]
      BY <3>3, <2>1, <2>2
    <3> QED BY <1>1, <3>1, <3>2, <3>3
  <2> QED BY <1>1, <2>1, <2>2, <2>3 DEF LinkInv, InvoiceOrder
<1>6. DataFlow'
  BY <1>1 DEF LinkInv, DataFlow, serialVars, groundVars, gatewayVars, SentLine, AnnouncedLine,
     CommandLine, SettledIntent
<1>7. InvoicePaidOnce' /\ PaidNotOlder'
  BY <1>1 DEF LinkInv, InvoicePaidOnce, PaidNotOlder
<1> QED BY <1>4, <1>5, <1>6, <1>7 DEF LinkInv

(* The buyer reads its radio.                                                 *)
LEMMA ReceiveInvoiceKeeps ==
    ASSUME LinkInv, ReceiveInvoice
    PROVE  LinkInv'
<1>1. /\ radio # NoFrame /\ Len(toGround) < QueueLimit /\ radio' = NoFrame
      /\ UNCHANGED <<offers, uptime, sent, toBuyer, groundVars, gatewayVars, dropped, failures>>
  BY DEF ReceiveInvoice
<1>2. NoFrame \in [inv : None..Garbled, crc : BOOLEAN] /\ NoFrame.crc = FALSE
  BY LinkBoundsAssumption DEF NoFrame, None, Garbled
<1>3. InvoicePaidOnce' /\ PaidNotOlder'
  BY <1>1 DEF LinkInv, InvoicePaidOnce, PaidNotOlder
<1>4. CASE ~radio.crc
  <2>1. UNCHANGED <<pending, announced, toGround>>
    BY <1>4 DEF ReceiveInvoice
  <2>2. Machines'
    BY <1>1, <1>2, <2>1 DEF LinkInv, Machines, groundVars, gatewayVars
  <2>3. InvoiceOrder'
    BY <1>1, <1>2, <2>1 DEF LinkInv, InvoiceOrder
  <2>4. DataFlow'
    BY <1>1, <2>1 DEF LinkInv, DataFlow, groundVars, gatewayVars, SentLine, AnnouncedLine,
       CommandLine, SettledIntent
  <2> QED BY <1>3, <2>2, <2>3, <2>4 DEF LinkInv
<1>5. CASE radio.crc
  <2>1. /\ pending' = radio.inv /\ announced' = announced \cup {radio.inv}
        /\ toGround' = Append(toGround, InvoiceLine(radio.inv))
    BY <1>5 DEF ReceiveInvoice
  <2>2. /\ radio.inv \in 1..offers /\ \A a \in announced : a < radio.inv
        /\ announced \subseteq 1..offers /\ offers \in 0..MaxOffers /\ MaxOffers \in Nat
    BY <1>5, LinkBoundsAssumption DEF LinkInv, InvoiceOrder, Machines
  <2>3. radio.inv \in 1..MaxOffers /\ radio.inv \in None..MaxOffers
    BY <2>2 DEF None
  <2>4. /\ toGround \in Seq(SentLine' \cup AnnouncedLine')
        /\ toBuyer \in Seq(CommandLine')
        /\ seen \in announced' \cup {None}
        /\ packetBin \in SentLine' \cup {Free}
        /\ pushing \in SentLine' \cup {Free}
        /\ inbox \in Seq(SentLine')
        /\ intents \in Seq(SettledIntent')
        /\ dropped \subseteq sent'
    BY <1>1, <2>1, Widen DEF LinkInv
  <2>5. InvoiceLine(radio.inv) \in SentLine' \cup AnnouncedLine'
    BY <2>1 DEF InvoiceLine, AnnouncedLine
  <2>6. /\ toGround' \in Seq(SentLine' \cup AnnouncedLine') /\ Len(toGround') = Len(toGround) + 1
        /\ Len(toGround) \in Nat
    BY <2>1, <2>4, <2>5, QueueWrite
  <2>7. Machines'
    <3>1. Len(toGround') <= QueueLimit
      BY <1>1, <2>6, LinkBoundsAssumption
    <3> QED BY <1>1, <1>2, <2>1, <2>3, <3>1 DEF LinkInv, Machines, groundVars, gatewayVars
  <2>8. InvoiceOrder'
    <3>1. \A a \in announced' : a <= pending'
      BY <2>1, <2>2
    <3>2. \A p \in sent : p.inv \in announced /\ p.inv # radio.inv
      BY <2>2 DEF LinkInv, InvoiceOrder
    <3> QED BY <1>1, <1>2, <2>1, <2>2, <3>1, <3>2 DEF InvoiceOrder
  <2>9. DataFlow'
    BY <1>1, <2>4, <2>6 DEF DataFlow, groundVars, gatewayVars
  <2> QED BY <1>3, <2>7, <2>8, <2>9 DEF LinkInv
<1> QED BY <1>4, <1>5

(* The buyer pays the invoice it holds: a payment of an invoice not paid yet,  *)
(* and not older than the one the 'ack' was typed for.                        *)
LEMMA BuyKeeps ==
    ASSUME LinkInv, Buy
    PROVE  LinkInv'
<1> DEFINE p == SignedPacketB(Head(toBuyer))
<1>1. /\ pending # None /\ toBuyer # <<>> /\ Head(toBuyer).type = "ACK_BUY"
      /\ toBuyer' = Tail(toBuyer) /\ Len(toGround) < QueueLimit /\ uptime < MaxUptime
      /\ sent' = sent \cup {p} /\ toGround' = Append(toGround, PacketBLine(p, TRUE))
      /\ pending' = None /\ radio' = NoFrame /\ uptime' = uptime + 1
      /\ UNCHANGED <<offers, announced, groundVars, gatewayVars, dropped, failures>>
  BY DEF Buy, NextCommand
<1>2. NoFrame \in [inv : None..Garbled, crc : BOOLEAN] /\ NoFrame.crc = FALSE
  BY LinkBoundsAssumption DEF NoFrame, None, Garbled
<1>3. /\ Head(toBuyer) \in CommandLine /\ Tail(toBuyer) \in Seq(CommandLine)
      /\ Len(Tail(toBuyer)) = Len(toBuyer) - 1 /\ Len(toBuyer) \in Nat
  BY <1>1, QueueRead DEF LinkInv, DataFlow
<1>4. Head(toBuyer).seen \in announced \cup {None}
  BY <1>1, <1>3 DEF CommandLine, PacketAckLine
<1>5. /\ pending \in announced /\ \A a \in announced : a <= pending
      /\ \A q \in sent : q.inv # pending /\ q.inv \in announced
      /\ announced \subseteq 1..offers /\ offers \in 0..MaxOffers /\ MaxOffers \in Nat
      /\ uptime \in 0..MaxUptime /\ MaxUptime \in Nat
  BY <1>1, LinkBoundsAssumption DEF LinkInv, InvoiceOrder, Machines
<1>6. /\ pending \in 1..Garbled /\ uptime \in 0..MaxUptime
      /\ Head(toBuyer).seen \in None..MaxOffers /\ Head(toBuyer).seen <= pending
  <2>1. pending \in 1..MaxOffers /\ pending \in 1..Garbled
    BY <1>5 DEF Garbled
  <2>2. \A x \in announced \cup {None} : x \in None..MaxOffers /\ x <= pending
    BY <1>5, <2>1 DEF None
  <2> QED BY <1>4, <1>5, <2>1, <2>2
<1>7. /\ p \in Payment /\ p.inv = pending /\ p.seen = Head(toBuyer).seen
  <2>1. p = [inv |-> pending, epoch |-> uptime, seen |-> Head(toBuyer).seen]
    BY DEF SignedPacketB, EpochMs
  <2>2. /\ [inv |-> pending, epoch |-> uptime, seen |-> Head(toBuyer).seen] \in Payment
    BY <1>6 DEF Payment
  <2> QED BY <2>1, <2>2
<1> HIDE DEF p
<1>8. /\ toGround \in Seq(SentLine' \cup AnnouncedLine')
      /\ toBuyer \in Seq(CommandLine')
      /\ seen \in announced' \cup {None}
      /\ packetBin \in SentLine' \cup {Free}
      /\ pushing \in SentLine' \cup {Free}
      /\ inbox \in Seq(SentLine')
      /\ intents \in Seq(SettledIntent')
      /\ dropped \subseteq sent'
  BY <1>1, Widen DEF LinkInv
<1>9. PacketBLine(p, TRUE) \in SentLine' \cup AnnouncedLine'
  BY <1>1 DEF PacketBLine, SentLine
<1>10. /\ toGround' \in Seq(SentLine' \cup AnnouncedLine') /\ Len(toGround') = Len(toGround) + 1
       /\ Len(toGround) \in Nat
  BY <1>1, <1>8, <1>9, QueueWrite
<1>11. toBuyer' \in Seq(CommandLine')
  BY <1>1, <1>8, QueueRead
<1>12. Machines'
  <2>1. Len(toGround') <= QueueLimit /\ Len(toBuyer') <= QueueLimit
    BY <1>1, <1>3, <1>10, LinkBoundsAssumption DEF LinkInv, Machines
  <2>2. uptime' \in 0..MaxUptime /\ pending' \in None..MaxOffers
    BY <1>1, <1>5 DEF None
  <2>3. sent' \subseteq Payment
    BY <1>1, <1>7 DEF LinkInv, Machines
  <2> QED BY <1>1, <1>2, <2>1, <2>2, <2>3 DEF LinkInv, Machines, groundVars, gatewayVars
<1>13. InvoiceOrder'
  BY <1>1, <1>2, <1>5, <1>7 DEF InvoiceOrder
<1>14. DataFlow'
  BY <1>1, <1>8, <1>10, <1>11 DEF DataFlow, groundVars, gatewayVars
<1>15. InvoicePaidOnce'
  BY <1>1, <1>5, <1>7 DEF LinkInv, InvoicePaidOnce
<1>16. PaidNotOlder'
  BY <1>1, <1>6, <1>7 DEF LinkInv, PaidNotOlder
<1> QED BY <1>12, <1>13, <1>14, <1>15, <1>16 DEF LinkInv

(* A step that leaves the buyer's invoices alone keeps the invariant if it     *)
(* keeps the machines and what may be where.                                  *)
LEMMA Elsewhere ==
    ASSUME LinkInv, UNCHANGED <<offers, radio, pending, announced, sent>>,
           uptime' \in 0..MaxUptime, Len(toBuyer') <= QueueLimit, Len(toGround') <= QueueLimit,
           acks' \in 0..MaxAcks, gateway' \in {"down", "offchain", "up"},
           failures' \in 0..MaxFailures,
           toGround' \in Seq(SentLine \cup AnnouncedLine), toBuyer' \in Seq(CommandLine),
           seen' \in announced \cup {None}, packetBin' \in SentLine \cup {Free},
           pushing' \in SentLine \cup {Free}, inbox' \in Seq(SentLine),
           intents' \in Seq(SettledIntent), dropped' \subseteq sent
    PROVE  LinkInv'
<1>1. /\ SentLine' = SentLine /\ AnnouncedLine' = AnnouncedLine
      /\ CommandLine' = CommandLine /\ SettledIntent' = SettledIntent
  BY DEF SentLine, AnnouncedLine, CommandLine, SettledIntent
<1>2. Machines'
  BY DEF LinkInv, Machines
<1>3. DataFlow'
  BY <1>1 DEF DataFlow
<1> QED BY <1>2, <1>3, InvoicesKept DEF LinkInv

(* What the invariant says of the variables such a step may leave alone.      *)
LEMMA Unmoved ==
    ASSUME LinkInv
    PROVE  /\ uptime \in 0..MaxUptime /\ Len(toBuyer) <= QueueLimit /\ Len(toGround) <= QueueLimit
           /\ acks \in 0..MaxAcks /\ gateway \in {"down", "offchain", "up"}
           /\ failures \in 0..MaxFailures
           /\ toGround \in Seq(SentLine \cup AnnouncedLine) /\ toBuyer \in Seq(CommandLine)
           /\ seen \in announced \cup {None} /\ packetBin \in SentLine \cup {Free}
           /\ pushing \in SentLine \cup {Free} /\ inbox \in Seq(SentLine)
           /\ intents \in Seq(SettledIntent) /\ dropped \subseteq sent
  BY DEF LinkInv, Machines, DataFlow

(* A failure is counted and stays within its bound.                           *)
LEMMA FaultCounted ==
    ASSUME LinkInv, NEW f, Fault(f)
    PROVE  failures' \in 0..MaxFailures /\ f \in LinkFaults /\ failures' = failures + 1
  BY LinkBoundsAssumption DEF Fault, LinkInv, Machines

(* The buyer's other steps: a command that does nothing, time, a reboot.      *)
LEMMA BuyerRestKeeps ==
    ASSUME LinkInv, IgnoreCommand \/ Elapse \/ BuyerReboots
    PROVE  LinkInv'
<1>1. CASE IgnoreCommand
  <2>1. /\ toBuyer # <<>> /\ toBuyer' = Tail(toBuyer)
        /\ UNCHANGED <<offers, buyerVars, toGround, groundVars, gatewayVars, dropped, failures>>
    BY <1>1 DEF IgnoreCommand, NextCommand
  <2>2. toBuyer' \in Seq(CommandLine) /\ Len(toBuyer') <= QueueLimit
    BY <2>1, QueueRead, Unmoved, LinkBoundsAssumption
  <2> QED BY <2>1, <2>2, Unmoved, Elsewhere DEF buyerVars, groundVars, gatewayVars
<1>2. CASE Elapse
  <2>1. uptime' \in 0..MaxUptime
    BY <1>2, LinkBoundsAssumption, Unmoved DEF Elapse
  <2> QED BY <1>2, <2>1, Unmoved, Elsewhere DEF Elapse, serialVars, groundVars, gatewayVars
<1>3. CASE BuyerReboots
  <2>1. /\ uptime' = 0 /\ radio' = NoFrame /\ pending' = None /\ toBuyer' = <<>>
        /\ UNCHANGED <<offers, announced, sent, toGround, groundVars, gatewayVars, dropped>>
    BY <1>3 DEF BuyerReboots
  <2>2. failures' \in 0..MaxFailures
    BY <1>3, FaultCounted DEF BuyerReboots
  <2>3. NoFrame \in [inv : None..Garbled, crc : BOOLEAN] /\ NoFrame.crc = FALSE
    BY LinkBoundsAssumption DEF NoFrame, None, Garbled
  <2>4. Machines'
    <3>1. Len(toBuyer') <= QueueLimit /\ uptime' \in 0..MaxUptime /\ pending' \in None..MaxOffers
      BY <2>1, LinkBoundsAssumption DEF None
    <3> QED BY <2>1, <2>2, <2>3, <3>1 DEF LinkInv, Machines, groundVars, gatewayVars
  <2>5. InvoiceOrder'
    BY <2>1, <2>3 DEF LinkInv, InvoiceOrder
  <2>6. DataFlow'
    <3>1. /\ SentLine' = SentLine /\ AnnouncedLine' = AnnouncedLine
          /\ CommandLine' = CommandLine /\ SettledIntent' = SettledIntent
      BY <2>1 DEF SentLine, AnnouncedLine, CommandLine, SettledIntent
    <3>2. toBuyer' \in Seq(CommandLine)
      BY <2>1
    <3> QED BY <2>1, <3>1, <3>2, Unmoved DEF DataFlow, groundVars, gatewayVars
  <2>7. InvoicePaidOnce' /\ PaidNotOlder'
    BY <2>1 DEF LinkInv, InvoicePaidOnce, PaidNotOlder
  <2> QED BY <2>4, <2>5, <2>6, <2>7 DEF LinkInv
<1> QED BY <1>1, <1>2, <1>3

(* The operator types, heard by the buyer or not.                             *)
LEMMA TypeKeeps ==
    ASSUME LinkInv, TypeAck \/ TypeAckLost
    PROVE  LinkInv'
<1>1. CASE TypeAck
  <2>1. /\ acks < MaxAcks /\ acks' = acks + 1 /\ Len(toBuyer) < QueueLimit
        /\ toBuyer' = Append(toBuyer, AckBuyLine(seen))
        /\ UNCHANGED <<offers, buyerVars, toGround, seen, packetBin, pushing, gatewayVars,
                       dropped, failures>>
    BY <1>1 DEF TypeAck
  <2>2. AckBuyLine(seen) \in CommandLine
    BY Unmoved DEF AckBuyLine, CommandLine
  <2>3. toBuyer' \in Seq(CommandLine) /\ Len(toBuyer') <= QueueLimit
    BY <2>1, <2>2, QueueWrite, Unmoved, LinkBoundsAssumption
  <2>4. acks' \in 0..MaxAcks
    BY <2>1, Unmoved, LinkBoundsAssumption
  <2> QED BY <2>1, <2>3, <2>4, Unmoved, Elsewhere DEF buyerVars, gatewayVars
<1>2. CASE TypeAckLost
  <2>1. /\ acks < MaxAcks /\ acks' = acks + 1
        /\ UNCHANGED <<offers, buyerVars, serialVars, seen, packetBin, pushing, gatewayVars, dropped>>
    BY <1>2 DEF TypeAckLost
  <2>2. acks' \in 0..MaxAcks /\ failures' \in 0..MaxFailures
    BY <1>2, <2>1, Unmoved, FaultCounted, LinkBoundsAssumption DEF TypeAckLost
  <2> QED BY <2>1, <2>2, Unmoved, Elsewhere DEF buyerVars, serialVars, gatewayVars
<1> QED BY <1>1, <1>2

(* The line the ground station reads is gone from the queue.                  *)
LEMMA LineRead ==
    ASSUME LinkInv, NEW t, NextLine(t)
    PROVE  /\ toGround # <<>> /\ toGround' = Tail(toGround) /\ pushing = Free
           /\ Head(toGround) \in SentLine \cup AnnouncedLine /\ Head(toGround).type = t
           /\ toGround' \in Seq(SentLine \cup AnnouncedLine) /\ Len(toGround') <= QueueLimit
  BY QueueRead, Unmoved, LinkBoundsAssumption DEF NextLine

(* A PACKET_B: line carries a payment that was sent; an INVOICE: line an       *)
(* invoice that was announced.                                                *)
LEMMA LineSays ==
    ASSUME NEW l \in SentLine \cup AnnouncedLine
    PROVE  /\ l.type = "PACKET_B" => l \in SentLine /\ l.pay \in sent /\ l.sig \in BOOLEAN
           /\ l.type = "INVOICE" => l \in AnnouncedLine /\ l.inv \in announced
           /\ l.type \in {"PACKET_B", "INVOICE"}
<1>1. CASE l \in SentLine
  <2>1. l.type = "PACKET_B" /\ l.pay \in sent /\ l.sig \in BOOLEAN
    BY <1>1 DEF SentLine
  <2> QED BY <1>1, <2>1
<1>2. CASE l \in AnnouncedLine
  <2>1. l.type = "INVOICE" /\ l.inv \in announced
    BY <1>2 DEF AnnouncedLine
  <2> QED BY <1>2, <2>1
<1> QED BY <1>1, <1>2

(* The invoice on the operator's screen was announced.                        *)
LEMMA ShowInvoiceKeeps ==
    ASSUME LinkInv, ShowInvoice
    PROVE  LinkInv'
<1>1. /\ NextLine("INVOICE") /\ seen' = Head(toGround).inv
      /\ UNCHANGED <<offers, buyerVars, toBuyer, acks, packetBin, pushing, gatewayVars,
                     dropped, failures>>
  BY DEF ShowInvoice
<1>2. seen' \in announced \cup {None}
  BY <1>1, LineRead, LineSays
<1> QED BY <1>1, <1>2, LineRead, Unmoved, Elsewhere DEF buyerVars, gatewayVars

(* The frame forwarded for a damaged line may be the one before it, and that   *)
(* one was sent too.                                                          *)
LEMMA FrameForwarded ==
    ASSUME LinkInv, AcceptPacketB
    PROVE  \E frame \in SentLine :
              /\ packetBin' = frame /\ pushing' = frame
              /\ Head(toGround) \in SentLine
              /\ frame = Head(toGround) \/ (frame = packetBin /\ Head(toGround).sig = FALSE)
              /\ dropped' = dropped \cup ({Head(toGround).pay} \ {frame.pay})
<1>1. Head(toGround) \in SentLine /\ Head(toGround).sig \in BOOLEAN
  BY LineRead, LineSays DEF AcceptPacketB
<1>2. PICK frame \in HexToBin(Head(toGround)) : Forward(frame)
  BY DEF AcceptPacketB
<1>3. frame = Head(toGround) \/ (frame = packetBin /\ frame # Free /\ Head(toGround).sig = FALSE)
  BY <1>1, <1>2 DEF HexToBin
<1>4. frame \in SentLine
  BY <1>1, <1>3, Unmoved
<1> QED BY <1>1, <1>2, <1>3, <1>4 DEF Forward

(* Accepting a PACKET_B: line.                                                *)
LEMMA AcceptKeeps ==
    ASSUME LinkInv, AcceptPacketB
    PROVE  LinkInv'
<1>1. PICK frame \in SentLine :
              /\ packetBin' = frame /\ pushing' = frame
              /\ Head(toGround) \in SentLine
              /\ dropped' = dropped \cup ({Head(toGround).pay} \ {frame.pay})
  BY FrameForwarded
<1>2. /\ NextLine("PACKET_B")
      /\ UNCHANGED <<offers, buyerVars, seen, acks, gatewayVars, failures>>
      /\ \/ Len(toBuyer) < QueueLimit /\ toBuyer' = Append(toBuyer, PacketAckLine)
         \/ UNCHANGED toBuyer
  BY DEF AcceptPacketB
<1>3. dropped' \subseteq sent
  <2>1. Head(toGround).pay \in sent
    BY <1>1 DEF SentLine
  <2> QED BY <1>1, <2>1, Unmoved
<1>4. toBuyer' \in Seq(CommandLine) /\ Len(toBuyer') <= QueueLimit
  <2>1. PacketAckLine \in CommandLine
    BY DEF CommandLine
  <2>2. CASE Len(toBuyer) < QueueLimit /\ toBuyer' = Append(toBuyer, PacketAckLine)
    BY <2>1, <2>2, QueueWrite, Unmoved, LinkBoundsAssumption
  <2>3. CASE UNCHANGED toBuyer
    BY <2>3, Unmoved
  <2> QED BY <1>2, <2>2, <2>3
<1>5. packetBin' \in SentLine \cup {Free} /\ pushing' \in SentLine \cup {Free}
  BY <1>1
<1> QED BY <1>2, <1>3, <1>4, <1>5, LineRead, Unmoved, Elsewhere DEF buyerVars, gatewayVars

(* A frame in hand is a line.                                                 *)
LEMMA FrameInHand ==
    ASSUME LinkInv, pushing # Free
    PROVE  pushing \in SentLine /\ pushing.pay \in sent
<1>1. pushing \in SentLine
  BY Unmoved
<1> QED BY <1>1 DEF SentLine

(* The push.                                                                  *)
LEMMA PushKeeps ==
    ASSUME LinkInv, PushToL2
    PROVE  LinkInv'
<1>1. /\ pushing # Free /\ pushing' = Free
      /\ UNCHANGED <<offers, buyerVars, serialVars, seen, acks, packetBin, gateway, intents,
                     failures>>
  BY DEF PushToL2
<1>2. inbox' \in Seq(SentLine) /\ dropped' \subseteq sent
  <2>1. CASE gateway = "down"
    BY <1>1, <2>1, FrameInHand, Unmoved DEF PushToL2
  <2>2. CASE gateway # "down"
    BY <1>1, <2>2, FrameInHand, QueueWrite, Unmoved DEF PushToL2
  <2> QED BY <2>1, <2>2
<1>3. pushing' \in SentLine \cup {Free}
  BY <1>1
<1> QED BY <1>1, <1>2, <1>3, Unmoved, Elsewhere DEF buyerVars, serialVars

(* The payments of lines that were sent were sent.                            *)
LEMMA PaymentsSent ==
    ASSUME NEW s \in Seq(SentLine \cup AnnouncedLine)
    PROVE  PaymentsIn(ToSet(s)) \subseteq sent
<1>1. \A l \in ToSet(s) : l \in SentLine \cup AnnouncedLine
  BY DEF ToSet
<1> QED BY <1>1, LineSays DEF PaymentsIn

(* The serial line and the ground station fail.                               *)
LEMMA GroundFailsKeeps ==
    ASSUME LinkInv, UsbGarbles \/ GroundRestarts
    PROVE  LinkInv'
<1>1. CASE UsbGarbles
  <2>1. /\ toGround # <<>>
        /\ UNCHANGED <<offers, buyerVars, toBuyer, groundVars, gatewayVars, dropped>>
        /\ failures' \in 0..MaxFailures
    BY <1>1, FaultCounted DEF UsbGarbles
  <2>2. /\ Head(toGround) \in SentLine \cup AnnouncedLine
        /\ Tail(toGround) \in Seq(SentLine \cup AnnouncedLine)
        /\ Len(Tail(toGround)) = Len(toGround) - 1 /\ Len(toGround) \in Nat
    BY <2>1, QueueRead, Unmoved
  <2>3. CASE Head(toGround).type = "PACKET_B"
    <3>1. toGround' = <<PacketBLine(Head(toGround).pay, FALSE)>> \o Tail(toGround)
      BY <1>1, <2>3 DEF UsbGarbles
    <3>2. Head(toGround).pay \in sent
      BY <2>2, <2>3, LineSays
    <3>3. PacketBLine(Head(toGround).pay, FALSE) \in SentLine \cup AnnouncedLine
      BY <3>2 DEF PacketBLine, SentLine
    <3>4. toGround' \in Seq(SentLine \cup AnnouncedLine) /\ Len(toGround') = Len(toGround)
      BY <2>1, <3>1, <3>3, QueueReplace, Unmoved
    <3> QED BY <2>1, <3>4, Unmoved, Elsewhere DEF buyerVars, groundVars, gatewayVars
  <2>4. CASE Head(toGround).type # "PACKET_B"
    <3>1. toGround' = Tail(toGround)
      BY <1>1, <2>4 DEF UsbGarbles
    <3>2. Len(toGround') <= QueueLimit
      BY <2>2, <3>1, Unmoved, LinkBoundsAssumption
    <3> QED BY <2>1, <2>2, <3>1, <3>2, Unmoved, Elsewhere DEF buyerVars, groundVars, gatewayVars
  <2> QED BY <2>3, <2>4
<1>2. CASE GroundRestarts
  <2>1. /\ toGround' = <<>> /\ packetBin' = Free /\ pushing' = Free /\ seen' = None
        /\ dropped' = dropped \cup PaymentsIn(ToSet(toGround))
                              \cup (IF pushing = Free THEN {} ELSE {pushing.pay})
        /\ UNCHANGED <<offers, buyerVars, toBuyer, acks, gatewayVars>>
        /\ failures' \in 0..MaxFailures
    BY <1>2, FaultCounted DEF GroundRestarts
  <2>2. dropped' \subseteq sent
    BY <2>1, PaymentsSent, FrameInHand, Unmoved
  <2>3. toGround' \in Seq(SentLine \cup AnnouncedLine) /\ Len(toGround') <= QueueLimit
    BY <2>1, LinkBoundsAssumption
  <2>4. packetBin' \in SentLine \cup {Free} /\ pushing' \in SentLine \cup {Free}
        /\ seen' \in announced \cup {None}
    BY <2>1
  <2> QED BY <2>1, <2>2, <2>3, <2>4, Unmoved, Elsewhere DEF buyerVars, gatewayVars
<1> QED BY <1>1, <1>2

(* The gateway enqueues a request only if its signature verifies.             *)
LEMMA IngestKeeps ==
    ASSUME LinkInv, NEW n \in DOMAIN inbox, IngestPacket(n)
    PROVE  LinkInv'
<1>1. /\ inbox' = RemoveAt(inbox, n) /\ HandlePayloadBody(inbox[n])
      /\ UNCHANGED <<offers, buyerVars, serialVars, groundVars, gateway, failures>>
  BY DEF IngestPacket
<1>2. inbox[n] \in SentLine /\ inbox' \in Seq(SentLine)
  BY <1>1, QueueRemove, Unmoved
<1>3. inbox[n].pay \in sent /\ inbox[n].sig \in BOOLEAN
  BY <1>2 DEF SentLine
<1>4. intents' \in Seq(SettledIntent) /\ dropped' \subseteq sent
  <2>1. CASE Verified(inbox[n]) /\ gateway = "up"
    <3>1. /\ intents' = Append(intents, [pay |-> inbox[n].pay, nonce |-> TxNonce(inbox[n].pay),
                                          sig |-> inbox[n].sig])
          /\ UNCHANGED dropped /\ inbox[n].sig = TRUE
      BY <1>1, <1>3, <2>1 DEF HandlePayloadBody, EnqueueSettlementIntent, Verified
    <3>2. TxNonce(inbox[n].pay) \in Nat
      <4>1. inbox[n].pay \in Payment
        BY <1>3 DEF LinkInv, Machines
      <4>2. \A q \in Payment : q.epoch \in 0..MaxUptime
        BY DEF Payment
      <4> QED BY <4>1, <4>2, LinkBoundsAssumption DEF TxNonce
    <3>3. [pay |-> inbox[n].pay, nonce |-> TxNonce(inbox[n].pay), sig |-> inbox[n].sig] \in SettledIntent
      BY <1>3, <3>1, <3>2 DEF SettledIntent
    <3> QED BY <3>1, <3>3, QueueWrite, Unmoved
  <2>2. CASE ~(Verified(inbox[n]) /\ gateway = "up")
    BY <1>1, <1>3, <2>2, Unmoved DEF HandlePayloadBody
  <2> QED BY <2>1, <2>2
<1> QED BY <1>1, <1>2, <1>4, Unmoved, Elsewhere DEF buyerVars, serialVars, groundVars

(* The gateway ends and starts.                                               *)
LEMMA GatewayProcessKeeps ==
    ASSUME LinkInv, GatewayDies \/ GatewayBoots
    PROVE  LinkInv'
<1>1. CASE GatewayDies
  <2>1. /\ gateway' = "down" /\ inbox' = <<>>
        /\ dropped' = dropped \cup PaymentsIn(ToSet(inbox))
        /\ UNCHANGED <<offers, buyerVars, serialVars, groundVars, intents>>
        /\ failures' \in 0..MaxFailures
    BY <1>1, FaultCounted DEF GatewayDies
  <2>2. inbox \in Seq(SentLine \cup AnnouncedLine)
    BY Unmoved, SeqWiden
  <2>3. dropped' \subseteq sent
    BY <2>1, <2>2, PaymentsSent, Unmoved
  <2>4. inbox' \in Seq(SentLine)
    BY <2>1
  <2> QED BY <2>1, <2>3, <2>4, Unmoved, Elsewhere DEF buyerVars, serialVars, groundVars
<1>2. CASE GatewayBoots
  <2>1. /\ gateway' \in {"down", "offchain", "up"}
        /\ UNCHANGED <<offers, buyerVars, serialVars, groundVars, inbox, intents, dropped, failures>>
    BY <1>2 DEF GatewayBoots
  <2> QED BY <2>1, Unmoved, Elsewhere DEF buyerVars, serialVars, groundVars
<1> QED BY <1>1, <1>2

(* Before the first step nothing was sent.                                    *)
LEMMA InitLinkInv ==
    ASSUME LinkInit
    PROVE  LinkInv
<1>1. /\ offers = 0 /\ uptime = 0 /\ radio = NoFrame /\ pending = None
      /\ announced = {} /\ sent = {}
      /\ toBuyer = <<>> /\ toGround = <<>>
      /\ seen = None /\ acks = 0 /\ packetBin = Free /\ pushing = Free
      /\ inbox = <<>> /\ gateway = "up" /\ intents = <<>>
      /\ dropped = {} /\ failures = 0
  BY DEF LinkInit
<1>2. NoFrame \in [inv : None..Garbled, crc : BOOLEAN] /\ NoFrame.crc = FALSE
  BY LinkBoundsAssumption DEF NoFrame, None, Garbled
<1>3. Machines
  BY <1>1, <1>2, LinkBoundsAssumption DEF Machines, None
<1>4. InvoiceOrder /\ InvoicePaidOnce /\ PaidNotOlder
  BY <1>1, <1>2 DEF InvoiceOrder, InvoicePaidOnce, PaidNotOlder
<1>5. DataFlow
  BY <1>1 DEF DataFlow
<1> QED BY <1>3, <1>4, <1>5 DEF LinkInv

(* Every step keeps the invariant.                                            *)
LEMMA NextLinkInv ==
    ASSUME LinkInv, [Next]_vars
    PROVE  LinkInv'
<1>1. CASE UNCHANGED vars
  BY <1>1, Unmoved, Elsewhere DEF vars, buyerVars, serialVars, groundVars, gatewayVars
<1>2. CASE Next
  BY <1>2, BroadcastKeeps, ReceiveInvoiceKeeps, BuyKeeps, BuyerRestKeeps, TypeKeeps,
     ShowInvoiceKeeps, AcceptKeeps, PushKeeps, GroundFailsKeeps, IngestKeeps, GatewayProcessKeeps
     DEF Next, Buyer, Ground, Gateway
<1> QED BY <1>1, <1>2

------------------------------------------------------------------------------
(* Theorems about what was sent.                                              *)

(* LinkInv is an inductive invariant of the link.                             *)
THEOREM LinkInvariant == Spec => []LinkInv
<1>1. LinkInit => LinkInv
  BY InitLinkInv
<1>2. LinkInv /\ [Next]_vars => LinkInv'
  BY NextLinkInv
<1> QED BY <1>1, <1>2, PTL DEF Spec

(* No invoice is paid twice, over any number of 'ack' commands, reboots and    *)
(* restarts: Buy clears invoice_pending, and an invoice is heard only once.   *)
THEOREM LinkInvoicePaidOnce == Spec => []InvoicePaidOnce
<1>1. LinkInv => InvoicePaidOnce
  BY DEF LinkInv
<1> QED BY <1>1, LinkInvariant, PTL

(* An 'ack' never buys an invoice older than the one on the operator's screen. *)
THEOREM LinkPaidNotOlder == Spec => []PaidNotOlder
<1>1. LinkInv => PaidNotOlder
  BY DEF LinkInv
<1> QED BY <1>1, LinkInvariant, PTL

(* The intents are signed payments that were sent.                            *)
LEMMA EnqueuedSent ==
    ASSUME LinkInv
    PROVE  \A i \in ToSet(intents) : i.sig = TRUE /\ i.pay \in sent
<1>1. \A i \in ToSet(intents) : i \in SettledIntent
  BY Unmoved DEF ToSet
<1> QED BY <1>1 DEF SettledIntent

(* An enqueued payment pays an invoice the seller broadcast and the buyer      *)
(* announced.                                                                 *)
THEOREM LinkPaidWasOffered == Spec => []PaidWasOffered
<1>1. LinkInv => PaidWasOffered
  <2> SUFFICES ASSUME LinkInv, NEW p \in Enqueued
               PROVE  p.inv <= offers /\ p.inv \in announced
    BY DEF PaidWasOffered
  <2>1. p \in sent
    BY EnqueuedSent DEF Enqueued
  <2>2. p.inv \in announced /\ announced \subseteq 1..offers /\ offers \in Nat
    BY <2>1, LinkBoundsAssumption DEF LinkInv, InvoiceOrder, Machines
  <2>3. p.inv \in 1..offers
    BY <2>2
  <2> QED BY <2>2, <2>3
<1> QED BY <1>1, LinkInvariant, PTL

(* Every variable keeps its type.                                             *)
THEOREM LinkTypeCorrect == Spec => []LinkTypeOK
<1>1. LinkInv => LinkTypeOK
  <2> SUFFICES ASSUME LinkInv PROVE LinkTypeOK
    OBVIOUS
  <2>1. /\ announced \subseteq 1..MaxOffers /\ announced \subseteq 1..Garbled
        /\ announced \cup {None} \subseteq None..MaxOffers
        /\ announced \cup {None} \subseteq None..Garbled
    <3>1. announced \subseteq 1..offers /\ offers \in 0..MaxOffers /\ MaxOffers \in Nat
      BY LinkBoundsAssumption DEF LinkInv, InvoiceOrder, Machines
    <3> QED BY <3>1 DEF None, Garbled
  <2>2. sent \subseteq Payment
    BY DEF LinkInv, Machines
  <2>3. SentLine \subseteq Line
    BY <2>2 DEF SentLine, Line
  <2>4. AnnouncedLine \subseteq Line
    BY <2>1 DEF AnnouncedLine, Line
  <2>5. CommandLine \subseteq Line
    BY <2>1 DEF CommandLine, Line
  <2>6. SettledIntent \subseteq [pay : Payment, nonce : Nat, sig : BOOLEAN]
    BY <2>2 DEF SettledIntent
  <2>7. SentLine \cup AnnouncedLine \subseteq Line
    BY <2>3, <2>4
  <2>8. toBuyer \in Seq(Line) /\ toGround \in Seq(Line) /\ inbox \in Seq(Line)
    BY <2>3, <2>5, <2>7, SeqWiden, Unmoved
  <2>9. intents \in Seq([pay : Payment, nonce : Nat, sig : BOOLEAN])
    BY <2>6, SeqWiden, Unmoved
  <2>10. packetBin \in Line \cup {Free} /\ pushing \in Line \cup {Free}
    BY <2>3, Unmoved
  <2>11. seen \in None..MaxOffers /\ dropped \subseteq Payment /\ announced \subseteq Offer
    BY <2>1, <2>2, Unmoved DEF Offer
  <2>12. /\ offers \in 0..MaxOffers /\ radio \in [inv : None..Garbled, crc : BOOLEAN]
         /\ pending \in None..MaxOffers
    BY DEF LinkInv, Machines
  <2> QED BY <2>2, <2>8, <2>9, <2>10, <2>11, <2>12, Unmoved DEF LinkTypeOK
<1> QED BY <1>1, LinkInvariant, PTL

------------------------------------------------------------------------------
(* How often a payment is on its way.                                         *)

Idx(s, A) == {n \in DOMAIN s : s[n] \in A}
Count(s, A) == Cardinality(Idx(s, A))

WireB == [type : {"PACKET_B"}, pay : Payment, sig : BOOLEAN]

(* The payments behind the buyer's transmitter, lost ones included, and the    *)
(* number of places that hold one that is not lost.                           *)
Paid(s) == {s[n].pay : n \in DOMAIN s}
InHand == IF pushing = Free THEN {} ELSE {pushing.pay}
WirePays(s) == {s[n].pay : n \in Idx(s, WireB)}
OnWire == WirePays(toGround)
Carried == ((Paid(intents) \cup Paid(inbox)) \cup (InHand \cup OnWire)) \cup dropped
Hand == IF pushing = Free THEN 0 ELSE 1
Copies == Len(intents) + Len(inbox) + Hand + Count(toGround, WireB)

(* A second copy of a payment is in a place that another payment lost: there   *)
(* are never more copies than payments.                                       *)
CopiesBounded == Copies <= Cardinality(Carried)

(* There are finitely many payments.                                          *)
LEMMA PaymentsFinite == IsFiniteSet(Payment)
<1> DEFINE A == 1..Garbled
           B == 0..MaxUptime
           C == None..MaxOffers
           f == [x \in (A \X B) \X C |-> [inv |-> x[1][1], epoch |-> x[1][2], seen |-> x[2]]]
<1>1. IsFiniteSet(A) /\ IsFiniteSet(B) /\ IsFiniteSet(C)
  BY LinkBoundsAssumption, FS_Interval DEF Garbled, None
<1>2. Payment = [inv : A, epoch : B, seen : C]
  BY DEF Payment
<1> HIDE DEF A, B, C
<1>3. IsFiniteSet(A \X B)
  BY <1>1, FS_Product
<1>4. IsFiniteSet((A \X B) \X C)
  BY <1>1, <1>3, FS_Product
<1>5. f \in Surjection((A \X B) \X C, Payment)
  <2>1. f \in [(A \X B) \X C -> Payment]
    BY <1>2
  <2>2. ASSUME NEW q \in Payment PROVE \E x \in (A \X B) \X C : f[x] = q
    <3> DEFINE x == <<<<q.inv, q.epoch>>, q.seen>>
    <3>1. x \in (A \X B) \X C /\ q = [inv |-> q.inv, epoch |-> q.epoch, seen |-> q.seen]
      BY <1>2
    <3>2. f[x] = q
      BY <3>1
    <3> QED BY <3>1, <3>2
  <2> HIDE DEF f
  <2> QED BY <2>1, <2>2 DEF Surjection
<1> QED BY <1>4, <1>5, FS_Surjection

(* Counting is finite.                                                        *)
LEMMA CountFinite ==
    ASSUME NEW S, NEW s \in Seq(S), NEW A
    PROVE  IsFiniteSet(Idx(s, A)) /\ Count(s, A) \in Nat
<1>1. IsFiniteSet(1..Len(s))
  BY FS_Interval
<1>2. Idx(s, A) \in SUBSET (1..Len(s))
  BY DEF Idx
<1>3. IsFiniteSet(Idx(s, A))
  BY <1>1, <1>2, FS_Subset
<1> QED BY <1>3, FS_CardinalityType DEF Count

(* A line more.                                                               *)
LEMMA CountAppend ==
    ASSUME NEW S, NEW s \in Seq(S), NEW A, NEW e \in S
    PROVE  Count(Append(s, e), A) = Count(s, A) + (IF e \in A THEN 1 ELSE 0)
<1>1. Len(s) + 1 \notin Idx(s, A)
  BY DEF Idx
<1>2. Idx(Append(s, e), A) = IF e \in A THEN Idx(s, A) \cup {Len(s) + 1} ELSE Idx(s, A)
  BY DEF Idx
<1>3. Cardinality(Idx(s, A) \cup {Len(s) + 1}) = Cardinality(Idx(s, A)) + 1
  BY <1>1, CountFinite, FS_AddElement
<1>4. Cardinality(Idx(s, A)) \in Nat
  BY CountFinite DEF Count
<1> QED BY <1>2, <1>3, <1>4 DEF Count

(* The oldest line less.                                                      *)
LEMMA CountTail ==
    ASSUME NEW S, NEW s \in Seq(S), s # <<>>, NEW A
    PROVE  Count(s, A) = Count(Tail(s), A) + (IF Head(s) \in A THEN 1 ELSE 0)
<1> DEFINE I == Idx(Tail(s), A)
           J == {n \in Idx(s, A) : n # 1}
           f == [m \in I |-> m + 1]
<1>1. /\ Tail(s) \in Seq(S) /\ Len(Tail(s)) = Len(s) - 1 /\ Len(s) \in Nat \ {0}
      /\ \A m \in 1..(Len(s) - 1) : Tail(s)[m] = s[m + 1]
  OBVIOUS
<1>2. I = {m \in 1..(Len(s) - 1) : s[m + 1] \in A}
  BY <1>1 DEF Idx
<1>3. J = {n \in 2..Len(s) : s[n] \in A}
  BY <1>1 DEF Idx
<1> HIDE DEF I, J
<1>4. f \in Bijection(I, J)
  <2>1. f \in [I -> J]
    BY <1>1, <1>2, <1>3
  <2>2. \A a, b \in I : f[a] = f[b] => a = b
    BY <1>2
  <2>3. \A n \in J : \E m \in I : f[m] = n
    <3> SUFFICES ASSUME NEW n \in J PROVE \E m \in I : f[m] = n
      OBVIOUS
    <3>1. n - 1 \in I /\ (n - 1) + 1 = n
      BY <1>1, <1>2, <1>3
    <3> QED BY <3>1
  <2> HIDE DEF f
  <2> QED BY <2>1, <2>2, <2>3 DEF Bijection, Injection, Surjection, IsInjective
<1>5. IsFiniteSet(I) /\ Cardinality(I) \in Nat
  BY <1>1, CountFinite DEF I, Count
<1>6. IsFiniteSet(J) /\ Cardinality(J) = Cardinality(I)
  <2>1. ExistsBijection(I, J)
    BY <1>4 DEF ExistsBijection
  <2> QED BY <1>5, <2>1, FS_Bijection
<1>7. Head(s) = s[1] /\ 1 \in 1..Len(s)
  BY <1>1
<1>8. CASE Head(s) \in A
  <2>1. Idx(s, A) = J \cup {1} /\ 1 \notin J
    BY <1>1, <1>7, <1>8 DEF J, Idx
  <2>2. Cardinality(Idx(s, A)) = Cardinality(J) + 1
    BY <1>6, <2>1, FS_AddElement
  <2> QED BY <1>5, <1>6, <1>8, <2>2 DEF Count, I
<1>9. CASE Head(s) \notin A
  <2>1. Idx(s, A) = J
    BY <1>1, <1>7, <1>9 DEF J, Idx
  <2> QED BY <1>5, <1>6, <1>9, <2>1 DEF Count, I
<1> QED BY <1>8, <1>9

(* As many places at least as payments in them.                               *)
LEMMA PlacesBound ==
    ASSUME NEW S, NEW s \in Seq(S), NEW A
    PROVE  /\ IsFiniteSet({s[n].pay : n \in Idx(s, A)})
           /\ Cardinality({s[n].pay : n \in Idx(s, A)}) <= Count(s, A)
<1> DEFINE T == {s[n].pay : n \in Idx(s, A)}
           f == [n \in Idx(s, A) |-> s[n].pay]
<1>1. f \in Surjection(Idx(s, A), T)
  BY DEF Surjection
<1> HIDE DEF T, f
<1>2. IsFiniteSet(T) /\ Cardinality(T) <= Count(s, A)
  BY <1>1, CountFinite, FS_Surjection DEF Count
<1> QED BY <1>2 DEF T

(* The same for a queue that holds nothing else.                              *)
LEMMA PaidBound ==
    ASSUME NEW S, NEW s \in Seq(S)
    PROVE  IsFiniteSet(Paid(s)) /\ Cardinality(Paid(s)) <= Len(s)
<1>1. Idx(s, S) = 1..Len(s) /\ Len(s) \in Nat
  BY DEF Idx
<1>2. Count(s, S) = Len(s)
  BY <1>1, FS_Interval DEF Count
<1>3. Paid(s) = {s[n].pay : n \in Idx(s, S)}
  BY <1>1 DEF Paid
<1> QED BY <1>2, <1>3, PlacesBound

(* Taking k places away loses at most k payments.                             *)
LEMMA LossBound ==
    ASSUME NEW D, NEW E, NEW R, IsFiniteSet(E), IsFiniteSet(R), D \subseteq E \cup R
    PROVE  /\ IsFiniteSet(D) /\ Cardinality(D) <= Cardinality(E) + Cardinality(R)
           /\ Cardinality(D) \in Nat /\ Cardinality(E) \in Nat /\ Cardinality(R) \in Nat
<1>1. IsFiniteSet(E \cup R)
      /\ Cardinality(E \cup R) = Cardinality(E) + Cardinality(R) - Cardinality(E \cap R)
  BY FS_Union
<1>2. IsFiniteSet(E \cap R)
  BY FS_Subset
<1>3. IsFiniteSet(D) /\ Cardinality(D) <= Cardinality(E \cup R)
  BY <1>1, FS_Subset
<1>4. /\ Cardinality(D) \in Nat /\ Cardinality(E) \in Nat /\ Cardinality(R) \in Nat
      /\ Cardinality(E \cap R) \in Nat
  BY <1>2, <1>3, FS_CardinalityType
<1> QED BY <1>1, <1>3, <1>4

(* Everything carried is finite and was sent.                                 *)
CarriedFacts ==
    /\ IsFiniteSet(Carried) /\ Cardinality(Carried) \in Nat /\ Carried \subseteq sent
    /\ IsFiniteSet(Paid(inbox)) /\ Cardinality(Paid(inbox)) <= Len(inbox)
    /\ IsFiniteSet(OnWire) /\ Cardinality(OnWire) <= Count(toGround, WireB)
    /\ IsFiniteSet(InHand) /\ Cardinality(InHand) = Hand
    /\ IsFiniteSet(Paid(intents))
    /\ Count(toGround, WireB) \in Nat
    /\ Len(inbox) \in Nat /\ Len(intents) \in Nat /\ Hand \in {0, 1}
    /\ IsFiniteSet(dropped)

(* Everything carried is finite and was sent, of every state of the invariant. *)
LEMMA CarriedFinite == LinkInv => CarriedFacts
<1> SUFFICES ASSUME LinkInv PROVE CarriedFacts
  OBVIOUS
<1>1. IsFiniteSet(Paid(inbox)) /\ Cardinality(Paid(inbox)) <= Len(inbox)
  BY Unmoved, PaidBound
<1>2. IsFiniteSet(Paid(intents))
  BY Unmoved, PaidBound
<1>3. IsFiniteSet(OnWire) /\ Cardinality(OnWire) <= Count(toGround, WireB)
  BY Unmoved, PlacesBound DEF OnWire, WirePays
<1>4. IsFiniteSet(InHand) /\ Cardinality(InHand) = Hand
  BY FS_EmptySet, FS_Singleton DEF InHand, Hand
<1>10. dropped \subseteq sent /\ IsFiniteSet(dropped)
  <2>1. dropped \subseteq sent /\ sent \subseteq Payment
    BY Unmoved DEF LinkInv, Machines
  <2> QED BY <2>1, PaymentsFinite, FS_Subset
<1>5. IsFiniteSet(Carried)
  <2>1. IsFiniteSet(Paid(intents) \cup Paid(inbox)) /\ IsFiniteSet(InHand \cup OnWire)
    BY <1>1, <1>2, <1>3, <1>4, FS_Union
  <2>2. IsFiniteSet((Paid(intents) \cup Paid(inbox)) \cup (InHand \cup OnWire))
    BY <2>1, FS_Union
  <2> QED BY <1>10, <2>2, FS_Union DEF Carried
<1>6. Cardinality(Carried) \in Nat
  BY <1>5, FS_CardinalityType
<1>7. Carried \subseteq sent
  <2>1. Paid(intents) \subseteq sent
    <3>1. \A n \in DOMAIN intents : intents[n] \in SettledIntent
      BY Unmoved
    <3> QED BY <3>1 DEF Paid, SettledIntent
  <2>2. Paid(inbox) \subseteq sent
    <3>1. \A n \in DOMAIN inbox : inbox[n] \in SentLine
      BY Unmoved
    <3> QED BY <3>1 DEF Paid, SentLine
  <2>3. InHand \subseteq sent
    BY FrameInHand DEF InHand
  <2>4. OnWire \subseteq sent
    <3> SUFFICES ASSUME NEW n \in Idx(toGround, WireB)
                 PROVE  toGround[n].pay \in sent
      BY DEF OnWire, WirePays
    <3>1. toGround[n] \in SentLine \cup AnnouncedLine
      BY Unmoved DEF Idx
    <3>2. toGround[n].type = "PACKET_B"
      BY DEF Idx, WireB
    <3> QED BY <3>1, <3>2, LineSays
  <2> QED BY <1>10, <2>1, <2>2, <2>3, <2>4 DEF Carried
<1>8. Count(toGround, WireB) \in Nat
  BY Unmoved, CountFinite
<1>9. Len(inbox) \in Nat /\ Len(intents) \in Nat /\ Hand \in {0, 1}
  BY Unmoved DEF Hand
<1> QED BY <1>1, <1>2, <1>3, <1>4, <1>5, <1>6, <1>7, <1>8, <1>9, <1>10 DEF CarriedFacts

(* A step that leaves every place alone.                                      *)
LEMMA PlacesKept ==
    ASSUME CopiesBounded, UNCHANGED <<toGround, pushing, inbox, intents, dropped>>
    PROVE  CopiesBounded'
<1>1. Copies' = Copies /\ Carried' = Carried
  BY DEF Copies, Carried, Count, Idx, Hand, InHand, OnWire, WirePays, Paid, WireB
<1> QED BY <1>1 DEF CopiesBounded

(* A step that forgets no payment and adds no copy.                           *)
LEMMA PlaceLost ==
    ASSUME LinkInv, LinkInv', CopiesBounded, Carried \subseteq Carried', Copies' <= Copies
    PROVE  CopiesBounded'
<1>1. /\ Copies \in Nat /\ Cardinality(Carried) \in Nat
  BY CarriedFinite DEF Copies, CarriedFacts
<1>2. /\ IsFiniteSet(Carried') /\ Cardinality(Carried') \in Nat
      /\ Len(inbox)' \in Nat /\ Len(intents)' \in Nat /\ Hand' \in {0, 1}
      /\ Count(toGround, WireB)' \in Nat
  <2>1. CarriedFacts'
    BY CarriedFinite, PTL
  <2> QED BY <2>1 DEF CarriedFacts
<1>3. Copies' \in Nat
  BY <1>2 DEF Copies
<1>4. Cardinality(Carried) <= Cardinality(Carried')
  BY <1>2, FS_Subset
<1> QED BY <1>1, <1>2, <1>3, <1>4 DEF CopiesBounded

(* The payments on the wire when a line is written and when one is read.      *)
LEMMA WireAppend ==
    ASSUME NEW S, NEW s \in Seq(S), NEW e \in S
    PROVE  WirePays(Append(s, e)) = WirePays(s) \cup (IF e \in WireB THEN {e.pay} ELSE {})
<1> DEFINE t == Append(s, e)
<1>1. /\ DOMAIN t = DOMAIN s \cup {Len(s) + 1} /\ Len(s) + 1 \notin DOMAIN s
      /\ \A n \in DOMAIN s : t[n] = s[n]
      /\ t[Len(s) + 1] = e
  OBVIOUS
<1> HIDE DEF t
<1>2. Idx(t, WireB) = Idx(s, WireB) \cup (IF e \in WireB THEN {Len(s) + 1} ELSE {})
  BY <1>1 DEF Idx
<1>3. \A n \in Idx(s, WireB) : t[n] = s[n]
  BY <1>1 DEF Idx
<1>4. WirePays(t) = WirePays(s) \cup (IF e \in WireB THEN {e.pay} ELSE {})
  BY <1>1, <1>2, <1>3, Zenon DEF WirePays
<1> QED BY <1>4 DEF t

(* The payments on the wire when the oldest line is read.                     *)
LEMMA WireTail ==
    ASSUME NEW S, NEW s \in Seq(S), s # <<>>
    PROVE  WirePays(s) = WirePays(Tail(s)) \cup (IF Head(s) \in WireB THEN {Head(s).pay} ELSE {})
<1>1. /\ Tail(s) \in Seq(S) /\ DOMAIN Tail(s) = 1..(Len(s) - 1) /\ Len(s) \in Nat \ {0}
      /\ \A m \in 1..(Len(s) - 1) : Tail(s)[m] = s[m + 1]
      /\ DOMAIN s = 1..Len(s) /\ Head(s) = s[1]
  OBVIOUS
<1>2. ASSUME NEW x \in WirePays(s)
      PROVE  x \in WirePays(Tail(s)) \cup (IF Head(s) \in WireB THEN {Head(s).pay} ELSE {})
  <2>1. PICK n \in Idx(s, WireB) : x = s[n].pay
    BY <1>2 DEF WirePays
  <2>2. n \in 1..Len(s) /\ s[n] \in WireB
    BY <1>1, <2>1 DEF Idx
  <2>3. CASE n = 1
    BY <1>1, <2>1, <2>2, <2>3
  <2>4. CASE n # 1
    <3>1. n - 1 \in 1..(Len(s) - 1) /\ Tail(s)[n - 1] = s[n]
      BY <1>1, <2>2, <2>4
    <3>2. n - 1 \in Idx(Tail(s), WireB)
      BY <1>1, <2>2, <3>1 DEF Idx
    <3> QED BY <2>1, <3>1, <3>2 DEF WirePays
  <2> QED BY <2>3, <2>4
<1>3. ASSUME NEW x \in WirePays(Tail(s))
      PROVE  x \in WirePays(s)
  <2>1. PICK m \in Idx(Tail(s), WireB) : x = Tail(s)[m].pay
    BY <1>3 DEF WirePays
  <2>2. m \in 1..(Len(s) - 1) /\ Tail(s)[m] \in WireB
    BY <1>1, <2>1 DEF Idx
  <2>3. m + 1 \in Idx(s, WireB) /\ s[m + 1] = Tail(s)[m]
    BY <1>1, <2>2 DEF Idx
  <2> QED BY <2>1, <2>3 DEF WirePays
<1>4. Head(s) \in WireB => Head(s).pay \in WirePays(s)
  <2> SUFFICES ASSUME Head(s) \in WireB PROVE Head(s).pay \in WirePays(s)
    OBVIOUS
  <2>1. 1 \in Idx(s, WireB)
    BY <1>1 DEF Idx
  <2> QED BY <1>1, <2>1 DEF WirePays
<1> QED BY <1>2, <1>3, <1>4

(* Which lines count.                                                         *)
LEMMA LineCounts ==
    ASSUME LinkInv, NEW l \in SentLine \cup AnnouncedLine
    PROVE  l \in WireB <=> l.type = "PACKET_B"
<1>1. sent \subseteq Payment
  BY DEF LinkInv, Machines
<1>2. l.type # "PACKET_B" => l \notin WireB
  BY DEF WireB
<1>3. ASSUME l.type = "PACKET_B" PROVE l \in WireB
  <2>1. l \in SentLine
    BY <1>3, LineSays
  <2> QED BY <1>1, <2>1 DEF SentLine, WireB
<1> QED BY <1>2, <1>3

(* An INVOICE: line written, or one read or lost.                             *)
LEMMA InvoiceLineFree ==
    ASSUME CopiesBounded, UNCHANGED <<pushing, inbox, intents, dropped>>,
           Count(toGround', WireB) = Count(toGround, WireB),
           WirePays(toGround') = WirePays(toGround)
    PROVE  CopiesBounded'
<1>1. Carried' = Carried
  BY DEF Carried, InHand, Paid, OnWire, WirePays, WireB, Idx
<1>2. Copies' = Copies
  BY DEF Copies, Hand, Count, WireB, Idx
<1> QED BY <1>1, <1>2 DEF CopiesBounded

(* The buyer's steps: only Buy adds a copy, of a payment nobody has.          *)
LEMMA BuyerCounts ==
    ASSUME LinkInv, LinkInv', CopiesBounded, ReceiveInvoice \/ Buy
    PROVE  CopiesBounded'
<1>1. CASE ReceiveInvoice
  <2>1. UNCHANGED <<pushing, inbox, intents, dropped>>
    BY <1>1 DEF ReceiveInvoice, groundVars, gatewayVars
  <2>2. CASE ~radio.crc
    BY <1>1, <2>1, <2>2, PlacesKept DEF ReceiveInvoice
  <2>3. CASE radio.crc
    <3> DEFINE e == InvoiceLine(radio.inv)
               S == SentLine \cup AnnouncedLine \cup {e}
    <3>1. toGround' = Append(toGround, e)
      BY <1>1, <2>3 DEF ReceiveInvoice
    <3>2. toGround \in Seq(S) /\ e \in S
      BY Unmoved, SeqWiden
    <3>3. e \notin WireB
      BY DEF InvoiceLine, WireB
    <3> HIDE DEF e, S
    <3>4. Count(toGround', WireB) = Count(toGround, WireB) + 0
      BY <3>1, <3>2, <3>3, CountAppend
    <3>7. WirePays(toGround') = WirePays(toGround) \cup {}
      BY <3>1, <3>2, <3>3, WireAppend
    <3>5. Count(toGround, WireB) \in Nat
      BY CarriedFinite DEF CarriedFacts
    <3>6. Count(toGround', WireB) = Count(toGround, WireB)
      BY <3>4, <3>5
    <3> QED BY <2>1, <3>6, <3>7, InvoiceLineFree
  <2> QED BY <2>2, <2>3
<1>2. CASE Buy
  <2> DEFINE p == SignedPacketB(Head(toBuyer))
             e == PacketBLine(p, TRUE)
             S == SentLine \cup AnnouncedLine \cup {e}
  <2>1. /\ toGround' = Append(toGround, e) /\ sent' = sent \cup {p} /\ pending # None
        /\ UNCHANGED <<pushing, inbox, intents, dropped>>
    BY <1>2 DEF Buy, groundVars, gatewayVars
  <2>2. p \notin sent
    <3>1. \A q \in sent : q.inv # pending
      BY <2>1 DEF LinkInv, InvoiceOrder
    <3>2. p.inv = pending
      BY DEF SignedPacketB
    <3> QED BY <3>1, <3>2
  <2>3. toGround \in Seq(S) /\ e \in S
    BY Unmoved, SeqWiden
  <2>4. e.pay = p
    BY DEF PacketBLine
  <2>5. e \in WireB
    <3>1. p \in Payment
      BY <2>1 DEF LinkInv, Machines
    <3> HIDE DEF p
    <3> QED BY <3>1 DEF PacketBLine, WireB
  <2> HIDE DEF p, e, S
  <2>6. /\ Count(toGround', WireB) = Count(toGround, WireB) + 1
        /\ WirePays(toGround') = WirePays(toGround) \cup {p}
    BY <2>1, <2>3, <2>4, <2>5, CountAppend, WireAppend
  <2>7. Carried' = Carried \cup {p}
    <3>1. OnWire' = OnWire \cup {p}
      BY <2>6 DEF OnWire, WirePays, WireB, Idx
    <3>2. InHand' = InHand /\ Paid(inbox)' = Paid(inbox) /\ Paid(intents)' = Paid(intents)
      BY <2>1 DEF InHand, Paid
    <3>3. dropped' = dropped
      BY <2>1
    <3> QED BY <3>1, <3>2, <3>3, Zenon DEF Carried
  <2>8. IsFiniteSet(Carried) /\ Cardinality(Carried) \in Nat /\ p \notin Carried
    BY <2>2, CarriedFinite DEF CarriedFacts
  <2>9. Cardinality(Carried') = Cardinality(Carried) + 1
    BY <2>7, <2>8, FS_AddElement
  <2>10. /\ Count(toGround, WireB) \in Nat /\ Len(inbox) \in Nat /\ Len(intents) \in Nat
         /\ Hand \in {0, 1}
    BY CarriedFinite DEF CarriedFacts
  <2>11. Copies' = Copies + 1 /\ Copies \in Nat
    <3>1. Count(toGround, WireB)' = Count(toGround, WireB) + 1 /\ Hand' = Hand
      BY <2>1, <2>6 DEF Count, WireB, Idx, Hand
    <3> QED BY <2>1, <2>10, <3>1 DEF Copies
  <2> QED BY <2>8, <2>9, <2>11 DEF CopiesBounded
<1> QED BY <1>1, <1>2

(* Reading a line, in terms of its head and the rest.                         *)
LEMMA HeadCounts ==
    ASSUME LinkInv, toGround # <<>>
    PROVE  LET h == Head(toGround)  t == Tail(toGround) IN
           /\ h \in SentLine \cup AnnouncedLine /\ t \in Seq(SentLine \cup AnnouncedLine)
           /\ Count(toGround, WireB) = Count(t, WireB) + (IF h \in WireB THEN 1 ELSE 0)
           /\ WirePays(toGround) = WirePays(t) \cup (IF h \in WireB THEN {h.pay} ELSE {})
           /\ Count(t, WireB) \in Nat
<1>1. toGround \in Seq(SentLine \cup AnnouncedLine)
  BY Unmoved
<1>2. /\ Head(toGround) \in SentLine \cup AnnouncedLine
      /\ Tail(toGround) \in Seq(SentLine \cup AnnouncedLine)
  BY <1>1, QueueRead
<1> QED BY <1>1, <1>2, CountTail, WireTail, CountFinite

(* What a primed count means.                                                 *)
LEMMA CountPrimed ==
    /\ Count(toGround, WireB)' = Count(toGround', WireB)
    /\ OnWire' = WirePays(toGround')
  BY DEF Count, WireB, Idx, OnWire, WirePays

(* The ground station's steps move a copy, drop one, or put the frame before   *)
(* it in the place of a damaged one, which is then dropped.                   *)
LEMMA GroundCounts ==
    ASSUME LinkInv, LinkInv', CopiesBounded, ShowInvoice \/ AcceptPacketB \/ PushToL2
    PROVE  CopiesBounded'
<1>0. /\ Count(toGround, WireB) \in Nat /\ Len(inbox) \in Nat /\ Len(intents) \in Nat
      /\ Hand \in {0, 1}
  BY CarriedFinite DEF CarriedFacts
<1>1. CASE ShowInvoice
  <2>1. /\ toGround # <<>> /\ toGround' = Tail(toGround) /\ Head(toGround).type = "INVOICE"
        /\ UNCHANGED <<pushing, inbox, intents, dropped>>
    BY <1>1 DEF ShowInvoice, NextLine, gatewayVars
  <2>2. Head(toGround) \notin WireB
    BY <2>1, HeadCounts, LineCounts
  <2>3. /\ Count(toGround, WireB) = Count(toGround', WireB) + 0
        /\ WirePays(toGround) = WirePays(toGround') \cup {}
        /\ Count(toGround', WireB) \in Nat
    BY <2>1, <2>2, HeadCounts
  <2> QED BY <2>1, <2>3, InvoiceLineFree
<1>2. CASE AcceptPacketB
  <2> DEFINE h == Head(toGround)
  <2>1. PICK frame \in SentLine :
              /\ packetBin' = frame /\ pushing' = frame
              /\ dropped' = dropped \cup ({h.pay} \ {frame.pay})
    BY <1>2, FrameForwarded
  <2>2. /\ toGround # <<>> /\ toGround' = Tail(toGround) /\ h.type = "PACKET_B" /\ pushing = Free
        /\ UNCHANGED <<inbox, intents>>
    BY <1>2 DEF AcceptPacketB, NextLine, gatewayVars
  <2>3. h \in WireB
    BY <2>2, HeadCounts, LineCounts
  <2>4. /\ Count(toGround, WireB) = Count(toGround', WireB) + 1
        /\ WirePays(toGround) = WirePays(toGround') \cup {h.pay}
        /\ Count(toGround', WireB) \in Nat
    BY <2>2, <2>3, HeadCounts
  <2>5. Hand = 0 /\ Hand' = 1 /\ InHand = {} /\ InHand' = {frame.pay}
    <3>1. frame # Free
      <4>1. frame.type = "PACKET_B" /\ DOMAIN frame = {"type", "pay", "sig"}
        BY DEF SentLine
      <4>2. DOMAIN Free = {"pay"}
        BY DEF Free
      <4> QED BY <4>1, <4>2
    <3> QED BY <2>1, <2>2, <3>1 DEF Hand, InHand
  <2>6. Copies' = Copies /\ Copies \in Nat
    BY <1>0, <2>2, <2>4, <2>5, CountPrimed DEF Copies
  <2>7. Paid(inbox)' = Paid(inbox) /\ Paid(intents)' = Paid(intents)
    BY <2>2 DEF Paid
  <2>8. OnWire = OnWire' \cup {h.pay}
    BY <2>4, CountPrimed DEF OnWire
  <2>9. Carried \subseteq Carried'
    <3>1. dropped \subseteq dropped' /\ h.pay \in dropped' \cup InHand'
      BY <2>1, <2>5
    <3> QED BY <2>5, <2>7, <2>8, <3>1 DEF Carried
  <2> QED BY <2>6, <2>9, PlaceLost
<1>3. CASE PushToL2
  <2>1. /\ pushing # Free /\ pushing' = Free /\ UNCHANGED <<toGround, intents>>
    BY <1>3 DEF PushToL2, serialVars
  <2>2. Hand = 1 /\ Hand' = 0 /\ InHand = {pushing.pay} /\ InHand' = {}
    BY <2>1 DEF Hand, InHand
  <2>3. /\ OnWire' = OnWire /\ Paid(intents)' = Paid(intents)
        /\ Count(toGround, WireB)' = Count(toGround, WireB)
    BY <2>1, CountPrimed DEF OnWire, Paid
  <2>5. CASE gateway = "down"
    <3>1. UNCHANGED inbox /\ dropped' = dropped \cup {pushing.pay}
      BY <1>3, <2>5 DEF PushToL2
    <3>2. Paid(inbox)' = Paid(inbox)
      BY <3>1 DEF Paid
    <3>3. Carried \subseteq Carried'
      BY <2>2, <2>3, <3>1, <3>2 DEF Carried
    <3>4. Copies' <= Copies
      BY <1>0, <2>1, <2>2, <2>3, <3>1 DEF Copies
    <3> QED BY <3>3, <3>4, PlaceLost
  <2>6. CASE gateway # "down"
    <3>1. inbox' = Append(inbox, pushing) /\ UNCHANGED dropped
      BY <1>3, <2>6 DEF PushToL2
    <3>2. inbox \in Seq(SentLine) /\ pushing \in SentLine
      BY <2>1, Unmoved, FrameInHand
    <3>3. Paid(inbox)' = Paid(inbox) \cup {pushing.pay} /\ Len(inbox)' = Len(inbox) + 1
      BY <3>1, <3>2 DEF Paid
    <3>4. Carried \subseteq Carried'
      BY <2>2, <2>3, <3>1, <3>3 DEF Carried
    <3>5. Copies' <= Copies
      BY <1>0, <2>1, <2>2, <2>3, <3>3 DEF Copies
    <3> QED BY <3>4, <3>5, PlaceLost
  <2> QED BY <2>5, <2>6
<1> QED BY <1>1, <1>2, <1>3

(* The payments of the PACKET_B: lines a process forgets.                     *)
LEMMA LostLines ==
    ASSUME NEW s \in Seq(SentLine \cup AnnouncedLine)
    PROVE  WirePays(s) \subseteq PaymentsIn(ToSet(s))
<1> SUFFICES ASSUME NEW n \in Idx(s, WireB)
             PROVE  s[n].pay \in PaymentsIn(ToSet(s))
  BY DEF WirePays
<1>1. s[n] \in ToSet(s) /\ s[n].type = "PACKET_B"
  BY DEF Idx, WireB, ToSet
<1> QED BY <1>1 DEF PaymentsIn

(* A damaged line stays where it is, and what a restart loses is dropped.     *)
LEMMA GroundFailsCounts ==
    ASSUME LinkInv, LinkInv', CopiesBounded, UsbGarbles \/ GroundRestarts
    PROVE  CopiesBounded'
<1>0. /\ Count(toGround, WireB) \in Nat /\ Len(inbox) \in Nat /\ Len(intents) \in Nat
      /\ Hand \in {0, 1}
  BY CarriedFinite DEF CarriedFacts
<1>1. CASE UsbGarbles
  <2> DEFINE h == Head(toGround)
             e == PacketBLine(h.pay, FALSE)
  <2>1. toGround # <<>> /\ UNCHANGED <<pushing, inbox, intents, dropped>>
    BY <1>1 DEF UsbGarbles, groundVars, gatewayVars
  <2>2. CASE h.type = "PACKET_B"
    <3>1. toGround' = <<e>> \o Tail(toGround)
      BY <1>1, <2>2 DEF UsbGarbles
    <3>2. h \in SentLine \cup AnnouncedLine
      BY <2>1, HeadCounts
    <3>3. h \in WireB /\ h.pay \in sent /\ sent \subseteq Payment
      BY <2>2, <3>2, LineCounts, LineSays DEF LinkInv, Machines
    <3>4. e \in WireB /\ e.pay = h.pay /\ e \in SentLine \cup AnnouncedLine
      BY <3>3 DEF PacketBLine, WireB, SentLine
    <3> HIDE DEF h, e
    <3>5. /\ toGround' \in Seq(SentLine \cup AnnouncedLine) /\ toGround' # <<>>
          /\ Head(toGround') = e /\ Tail(toGround') = Tail(toGround)
      <4>1. /\ toGround' \in Seq(SentLine \cup AnnouncedLine) /\ Len(toGround') = Len(toGround)
            /\ Head(toGround') = e /\ Tail(toGround') = Tail(toGround)
        BY <2>1, <3>1, <3>4, QueueReplace, Unmoved
      <4>2. Len(toGround) # 0
        BY <2>1, Unmoved
      <4> QED BY <4>1, <4>2
    <3>6. Count(toGround', WireB) = Count(Tail(toGround), WireB) + 1
      BY <3>4, <3>5, CountTail
    <3>7. WirePays(toGround') = WirePays(Tail(toGround)) \cup {h.pay}
      BY <3>4, <3>5, WireTail
    <3>8. /\ Count(toGround, WireB) = Count(Tail(toGround), WireB) + 1
          /\ WirePays(toGround) = WirePays(Tail(toGround)) \cup {h.pay}
      BY <2>1, <3>3, HeadCounts DEF h
    <3>9. /\ Count(toGround', WireB) = Count(toGround, WireB)
          /\ WirePays(toGround') = WirePays(toGround)
      BY <3>6, <3>7, <3>8
    <3> QED BY <2>1, <3>9, InvoiceLineFree
  <2>3. CASE h.type # "PACKET_B"
    <3>1. toGround' = Tail(toGround)
      BY <1>1, <2>3 DEF UsbGarbles
    <3>2. h \notin WireB
      BY <2>1, <2>3, HeadCounts, LineCounts
    <3>3. /\ Count(toGround, WireB) = Count(toGround', WireB) + 0
          /\ WirePays(toGround) = WirePays(toGround') \cup {}
          /\ Count(toGround', WireB) \in Nat
      BY <2>1, <3>1, <3>2, HeadCounts
    <3> QED BY <2>1, <3>3, InvoiceLineFree
  <2> QED BY <2>2, <2>3
<1>2. CASE GroundRestarts
  <2>1. /\ toGround' = <<>> /\ pushing' = Free /\ UNCHANGED <<inbox, intents>>
        /\ dropped' = (dropped \cup PaymentsIn(ToSet(toGround))) \cup InHand
    BY <1>2 DEF GroundRestarts, gatewayVars, InHand
  <2>2. OnWire \subseteq PaymentsIn(ToSet(toGround))
    BY Unmoved, LostLines DEF OnWire
  <2>3. Count(toGround', WireB) = 0
    <3>1. Idx(toGround', WireB) = {}
      BY <2>1 DEF Idx
    <3> QED BY <3>1, FS_EmptySet DEF Count
  <2>4. Hand' = 0 /\ Paid(inbox)' = Paid(inbox) /\ Paid(intents)' = Paid(intents)
    BY <2>1 DEF Hand, Paid
  <2>5. Carried \subseteq Carried'
    BY <2>1, <2>2, <2>4 DEF Carried
  <2>6. Copies' <= Copies
    BY <1>0, <2>1, <2>3, <2>4, CountPrimed DEF Copies
  <2> QED BY <2>5, <2>6, PlaceLost
<1> QED BY <1>1, <1>2

(* The gateway's steps move a copy from the inbox to the intents or drop it.   *)
LEMMA GatewayCounts ==
    ASSUME LinkInv, LinkInv', CopiesBounded,
           GatewayDies \/ \E n \in DOMAIN inbox : IngestPacket(n)
    PROVE  CopiesBounded'
<1>0. /\ Count(toGround, WireB) \in Nat /\ Len(inbox) \in Nat /\ Len(intents) \in Nat
      /\ Hand \in {0, 1}
  BY CarriedFinite DEF CarriedFacts
<1>1. CASE GatewayDies
  <2>1. /\ inbox' = <<>> /\ UNCHANGED <<toGround, pushing, intents>>
        /\ dropped' = dropped \cup PaymentsIn(ToSet(inbox))
    BY <1>1 DEF GatewayDies, serialVars, groundVars
  <2>2. Paid(inbox) \subseteq PaymentsIn(ToSet(inbox))
    <3> SUFFICES ASSUME NEW n \in DOMAIN inbox
                 PROVE  inbox[n].pay \in PaymentsIn(ToSet(inbox))
      BY DEF Paid
    <3>1. inbox[n] \in SentLine /\ inbox[n] \in ToSet(inbox)
      BY Unmoved DEF ToSet
    <3> QED BY <3>1 DEF SentLine, PaymentsIn
  <2>3. /\ OnWire' = OnWire /\ InHand' = InHand /\ Paid(intents)' = Paid(intents)
    BY <2>1, CountPrimed DEF InHand, Paid, OnWire
  <2>4. Carried \subseteq Carried'
    BY <2>1, <2>2, <2>3 DEF Carried
  <2>5. /\ Count(toGround, WireB)' = Count(toGround, WireB) /\ Hand' = Hand /\ Len(inbox)' = 0
    BY <2>1, CountPrimed DEF Hand
  <2>6. Copies' <= Copies
    BY <1>0, <2>1, <2>5 DEF Copies
  <2> QED BY <2>4, <2>6, PlaceLost
<1>2. ASSUME NEW n \in DOMAIN inbox, IngestPacket(n)
      PROVE  CopiesBounded'
  <2> DEFINE q == inbox[n].pay
  <2>1. /\ inbox' = RemoveAt(inbox, n) /\ HandlePayloadBody(inbox[n])
        /\ UNCHANGED <<toGround, pushing>>
    BY <1>2 DEF IngestPacket, serialVars, groundVars
  <2>2. /\ Len(inbox') = Len(inbox) - 1 /\ n \in 1..Len(inbox) /\ inbox' \in Seq(SentLine)
        /\ \A m \in 1..(Len(inbox) - 1) : inbox'[m] = IF m < n THEN inbox[m] ELSE inbox[m + 1]
    BY <2>1, QueueRemove, Unmoved, SMTT(30)
  <2>3. Paid(inbox) \subseteq Paid(inbox') \cup {q}
    <3> SUFFICES ASSUME NEW m \in DOMAIN inbox, m # n
                 PROVE  inbox[m].pay \in Paid(inbox')
      BY DEF Paid
    <3>1. m \in 1..Len(inbox) /\ DOMAIN inbox' = 1..(Len(inbox) - 1)
      BY <2>2, Unmoved
    <3>2. CASE m < n
      <4>1. m \in 1..(Len(inbox) - 1) /\ inbox'[m] = inbox[m]
        BY <1>0, <2>2, <3>1, <3>2
      <4> QED BY <3>1, <4>1 DEF Paid
    <3>3. CASE m > n
      <4>1. /\ m - 1 \in 1..(Len(inbox) - 1) /\ ~(m - 1 < n) /\ (m - 1) + 1 = m
        BY <1>0, <2>2, <3>1, <3>3
      <4>2. inbox'[m - 1] = inbox[m]
        BY <2>2, <4>1
      <4> QED BY <3>1, <4>1, <4>2 DEF Paid
    <3>4. m < n \/ m > n
      BY <2>2, <3>1
    <3> QED BY <3>2, <3>3, <3>4
  <2>4. OnWire' = OnWire /\ InHand' = InHand
    BY <2>1, CountPrimed DEF InHand, OnWire
  <2>5. Count(toGround, WireB)' = Count(toGround, WireB) /\ Hand' = Hand
    BY <2>1, CountPrimed DEF Hand
  <2>6. Paid(inbox)' = Paid(inbox') /\ Paid(intents)' = Paid(intents')
    BY DEF Paid
  <2>7. CASE Verified(inbox[n]) /\ gateway = "up"
    <3> DEFINE i == [pay |-> q, nonce |-> TxNonce(q), sig |-> inbox[n].sig]
    <3>1. intents' = Append(intents, i) /\ i.pay = q /\ UNCHANGED dropped
      BY <2>1, <2>7 DEF HandlePayloadBody, EnqueueSettlementIntent
    <3>2. intents \in Seq(SettledIntent \cup {i}) /\ i \in SettledIntent \cup {i}
      BY Unmoved, SeqWiden
    <3> HIDE DEF i
    <3>3. Paid(intents') = Paid(intents) \cup {q} /\ Len(intents') = Len(intents) + 1
      BY <3>1, <3>2 DEF Paid
    <3>4. Carried \subseteq Carried'
      BY <2>3, <2>4, <2>6, <3>1, <3>3 DEF Carried
    <3>5. Copies' <= Copies
      BY <1>0, <2>2, <2>5, <3>3 DEF Copies
    <3> QED BY <3>4, <3>5, PlaceLost
  <2>8. CASE ~(Verified(inbox[n]) /\ gateway = "up")
    <3>1. UNCHANGED intents /\ dropped' = dropped \cup {q}
      BY <2>1, <2>8 DEF HandlePayloadBody
    <3>2. Carried \subseteq Carried'
      BY <2>3, <2>4, <2>6, <3>1 DEF Carried
    <3>3. Copies' <= Copies
      BY <1>0, <2>2, <2>5, <3>1 DEF Copies
    <3> QED BY <3>2, <3>3, PlaceLost
  <2> QED BY <2>7, <2>8
<1> QED BY <1>1, <1>2

(* Every step keeps the bound.                                                *)
LEMMA NextCopiesBounded ==
    ASSUME LinkInv, LinkInv', CopiesBounded, [Next]_vars
    PROVE  CopiesBounded'
<1>1. CASE UNCHANGED vars
  BY <1>1, PlacesKept DEF vars, serialVars, groundVars, gatewayVars
<1>2. CASE Broadcast \/ BroadcastDisturbed
  BY <1>2, PlacesKept DEF Broadcast, BroadcastDisturbed, serialVars, groundVars, gatewayVars
<1>3. CASE IgnoreCommand \/ Elapse \/ BuyerReboots
  BY <1>3, PlacesKept DEF IgnoreCommand, Elapse, BuyerReboots, serialVars, groundVars,
     gatewayVars
<1>4. CASE TypeAck \/ TypeAckLost \/ GatewayBoots
  BY <1>4, PlacesKept DEF TypeAck, TypeAckLost, GatewayBoots, serialVars, groundVars,
     gatewayVars
<1> QED BY <1>1, <1>2, <1>3, <1>4, BuyerCounts, GroundCounts, GroundFailsCounts, GatewayCounts
        DEF Next, Buyer, Ground, Gateway

(* The gateway enqueues only what the buyer transmitted, and a frame that is   *)
(* enqueued again because a damaged serial line left it in packet_bin took the *)
(* place of a payment that is lost: there are never more intents than payments *)
(* enqueued or taken away.                                                    *)
THEOREM LinkEnqueuedWasSent == Spec => []EnqueuedWasSent
<1>1. LinkInit => CopiesBounded
  <2> SUFFICES ASSUME LinkInit PROVE CopiesBounded
    OBVIOUS
  <2>1. toGround = <<>> /\ pushing = Free /\ inbox = <<>> /\ intents = <<>>
    BY DEF LinkInit
  <2>2. Idx(toGround, WireB) = {}
    BY <2>1 DEF Idx
  <2>3. Count(toGround, WireB) = 0
    BY <2>2, FS_EmptySet DEF Count
  <2>4. Copies = 0
    BY <2>1, <2>3 DEF Copies, Hand
  <2>5. Cardinality(Carried) \in Nat
    BY InitLinkInv, CarriedFinite DEF CarriedFacts
  <2> QED BY <2>4, <2>5 DEF CopiesBounded
<1>2. LinkInv /\ LinkInv' /\ CopiesBounded /\ [Next]_vars => CopiesBounded'
  BY NextCopiesBounded
<1>3. LinkInv /\ CopiesBounded => EnqueuedWasSent
  <2> SUFFICES ASSUME LinkInv, CopiesBounded PROVE EnqueuedWasSent
    OBVIOUS
  <2> DEFINE E == Paid(intents) \cup dropped
             R == Paid(inbox) \cup (InHand \cup OnWire)
             k == Len(inbox) + Hand + Count(toGround, WireB)
  <2>1. CarriedFacts
    BY CarriedFinite
  <2>2. /\ Cardinality(R) <= k /\ k \in Nat /\ IsFiniteSet(R)
    <3>1. /\ IsFiniteSet(InHand \cup OnWire)
          /\ Cardinality(InHand \cup OnWire) <= Cardinality(InHand) + Cardinality(OnWire)
          /\ Cardinality(InHand \cup OnWire) \in Nat /\ Cardinality(InHand) \in Nat
          /\ Cardinality(OnWire) \in Nat
      BY <2>1, LossBound, FS_Union DEF CarriedFacts
    <3>2. /\ IsFiniteSet(R) /\ Cardinality(R) <= Cardinality(Paid(inbox)) + Cardinality(InHand \cup OnWire)
          /\ Cardinality(R) \in Nat /\ Cardinality(Paid(inbox)) \in Nat
      BY <2>1, <3>1, LossBound, FS_Union DEF CarriedFacts
    <3> QED BY <2>1, <3>1, <3>2 DEF CarriedFacts
  <2>3. Enqueued \cup dropped = E
    BY DEF Enqueued, Paid, ToSet
  <2>4. Carried \subseteq E \cup R /\ IsFiniteSet(E)
    BY <2>1, FS_Union DEF Carried, CarriedFacts
  <2> HIDE DEF E, R
  <2>5. /\ Cardinality(Carried) <= Cardinality(E) + Cardinality(R)
        /\ Cardinality(Carried) \in Nat /\ Cardinality(E) \in Nat /\ Cardinality(R) \in Nat
    BY <2>2, <2>4, LossBound
  <2>6. Len(intents) + k <= Cardinality(Carried)
    BY <2>1 DEF CopiesBounded, Copies, CarriedFacts
  <2>7. Len(intents) <= Cardinality(E)
    <3>1. Len(intents) \in Nat
      BY <2>1 DEF CarriedFacts
    <3> HIDE DEF k
    <3> QED BY <2>2, <2>5, <2>6, <3>1
  <2>8. \A i \in ToSet(intents) : i.sig /\ i.pay \in sent
    BY EnqueuedSent
  <2> QED BY <2>3, <2>7, <2>8 DEF EnqueuedWasSent
<1> QED BY <1>1, <1>2, <1>3, LinkInvariant, PTL DEF Spec
=============================================================================
