----------------------------- MODULE PaymentLink -----------------------------
(***************************************************************************)
(* The uplink of a payment in the alpha build: the seller broadcasts        *)
(* invoices (PacketA), the buyer holds the latest one and reports it over   *)
(* USB, the operator authorises, the buyer transmits a PacketB, the ground  *)
(* station acknowledges it and forwards it to the gateway, and the gateway  *)
(* verifies it and hands a settlement intent to its submitter.              *)
(*                                                                          *)
(* Invoices are numbered in the order of their broadcast.  Positions,       *)
(* amounts and the byte layout are left out; a CRC or a signature is a      *)
(* Boolean that says whether the bytes are as their sender wrote them.      *)
(***************************************************************************)
EXTENDS Naturals, FiniteSets, Sequences, SequencesExt

CONSTANTS LinkFaults,   \* subset of the failures below
          MaxOffers,    \* bound on the invoices broadcast
          MaxAcks,      \* bound on the operator's 'ack' commands
          MaxUptime,    \* bound on the buyer's clock
          QueueLimit,   \* lines a serial direction holds
          MaxFailures   \* bound on the number of failures

ASSUME LinkFaultsAssumption ==
    LinkFaults \subseteq {"air", "command", "usb", "buyer", "ground", "gateway"}
ASSUME LinkBoundsAssumption ==
    /\ MaxOffers \in Nat \ {0} /\ MaxAcks \in Nat /\ MaxUptime \in Nat
    /\ QueueLimit \in Nat \ {0} /\ MaxFailures \in Nat

Offer == 1..MaxOffers
None == 0                    \* no invoice
Garbled == MaxOffers + 1     \* what a frame damaged on the air says

\* A PacketB: what it pays and its epoch_ts; "seen" is not on the wire but
\* remembers the latest invoice on the operator's screen at its 'ack'.
Payment == [inv : 1..Garbled, epoch : 0..MaxUptime, seen : None..MaxOffers]

VARIABLES offers,     \* invoices broadcast so far
          uptime,     \* the buyer's millis() since its boot
          radio,      \* the frame in the buyer's radio, or NoFrame
          pending,    \* pending_invoice if invoice_pending, else None
          announced,  \* invoices the buyer printed an INVOICE: line for
          sent,       \* PacketBs the buyer transmitted
          toBuyer,    \* serial lines on their way to the buyer
          toGround,   \* serial lines on their way to the ground station
          seen,       \* latest invoice on the operator's screen
          acks,       \* 'ack' commands typed
          packetBin,  \* what the main loop's packet_bin holds, or Free
          pushing,    \* frame the ground station acknowledged and has not pushed, or Free
          inbox,      \* ingest requests under way
          gateway,    \* "down", "offchain" (handlers.Submitter is nil) or "up"
          intents,    \* intents enqueued, in order
          dropped,    \* payments a failure or an off-chain gateway took away
          failures    \* failures so far

buyerVars == <<uptime, radio, pending, announced, sent>>
serialVars == <<toBuyer, toGround>>
groundVars == <<seen, acks, packetBin, pushing>>
gatewayVars == <<inbox, gateway, intents>>
vars == <<offers, buyerVars, serialVars, groundVars, gatewayVars, dropped, failures>>

NoFrame == [inv |-> None, crc |-> FALSE]
Free == [pay |-> None]

\* Lines: INVOICE: and PACKET_B: to the ground, ACK_BUY and PACKET_ACK_TX: to the buyer.
InvoiceLine(i) == [type |-> "INVOICE", inv |-> i]
PacketBLine(p, sig) == [type |-> "PACKET_B", pay |-> p, sig |-> sig]
AckBuyLine(i) == [type |-> "ACK_BUY", seen |-> i]
PacketAckLine == [type |-> "PACKET_ACK_TX"]

Fault(f) == f \in LinkFaults /\ failures < MaxFailures /\ failures' = failures + 1

LinkInit ==
    /\ offers = 0 /\ uptime = 0 /\ radio = NoFrame /\ pending = None
    /\ announced = {} /\ sent = {}
    /\ toBuyer = <<>> /\ toGround = <<>>
    /\ seen = None /\ acks = 0 /\ packetBin = Free /\ pushing = Free
    /\ inbox = <<>> /\ gateway = "up" /\ intents = <<>>
    /\ dropped = {} /\ failures = 0

------------------------------------------------------------------------------
(* Seller and air *)

\* runSellerLoop broadcasts; the frame lands in the buyer's radio over an unread one.
Broadcast ==
    /\ offers < MaxOffers
    /\ offers' = offers + 1
    /\ radio' = [inv |-> offers', crc |-> TRUE]
    /\ UNCHANGED <<uptime, pending, announced, sent, serialVars, groundVars,
                   gatewayVars, dropped, failures>>

\* The buyer does not hear it, or hears damaged bytes.
BroadcastDisturbed ==
    /\ offers < MaxOffers
    /\ Fault("air")
    /\ offers' = offers + 1
    /\ radio' \in {radio, [inv |-> Garbled, crc |-> FALSE]}
    /\ UNCHANGED <<uptime, pending, announced, sent, serialVars, groundVars,
                   gatewayVars, dropped>>

------------------------------------------------------------------------------
(* Buyer *)

\* Mutant of ReceiveInvoice: the CRC is not compared.
ReceiveUnchecked ==
    /\ radio # NoFrame /\ Len(toGround) < QueueLimit
    /\ radio' = NoFrame
    /\ pending' = radio.inv
    /\ announced' = announced \cup {radio.inv}
    /\ toGround' = Append(toGround, InvoiceLine(radio.inv))
    /\ UNCHANGED <<offers, uptime, sent, toBuyer, groundVars, gatewayVars, dropped, failures>>

\* Mutant of ReceiveInvoice: the invoice is held but not announced.
ReceiveSilently ==
    /\ radio # NoFrame
    /\ radio' = NoFrame
    /\ pending' = IF radio.crc THEN radio.inv ELSE pending
    /\ UNCHANGED <<offers, uptime, announced, sent, serialVars, groundVars, gatewayVars,
                   dropped, failures>>

\* Mutant of ReceiveInvoice: an invoice that waits for its 'ack' is not replaced.
ReceiveKeepsFirst ==
    /\ radio # NoFrame /\ Len(toGround) < QueueLimit
    /\ radio' = NoFrame
    /\ IF radio.crc
         THEN /\ pending' = IF pending = None THEN radio.inv ELSE pending
              /\ announced' = announced \cup {radio.inv}
              /\ toGround' = Append(toGround, InvoiceLine(radio.inv))
         ELSE UNCHANGED <<pending, announced, toGround>>
    /\ UNCHANGED <<offers, uptime, sent, toBuyer, groundVars, gatewayVars, dropped, failures>>

\* The rx branch of runBuyerLoop: drop on a CRC mismatch, else hold and announce.
ReceiveInvoice ==
    /\ radio # NoFrame /\ Len(toGround) < QueueLimit
    /\ radio' = NoFrame
    /\ IF radio.crc
         THEN /\ pending' = radio.inv
              /\ announced' = announced \cup {radio.inv}
              /\ toGround' = Append(toGround, InvoiceLine(radio.inv))
         ELSE UNCHANGED <<pending, announced, toGround>>
    /\ UNCHANGED <<offers, uptime, sent, toBuyer, groundVars, gatewayVars, dropped, failures>>

\* GpsStub: a fixed epoch plus millis(); the base is left out.
EpochMs == uptime

\* encryptPacketB under VOID_ALPHA_PLAINTEXT: copies and signs, no guard.
SignedPacketB(ack) == [inv |-> pending, epoch |-> EpochMs, seen |-> ack.seen]

NextCommand(type) == toBuyer # <<>> /\ Head(toBuyer).type = type /\ toBuyer' = Tail(toBuyer)

\* Mutant of Buy: invoice_pending stays true.
BuyKeepsInvoice ==
    /\ pending # None /\ NextCommand("ACK_BUY")
    /\ Len(toGround) < QueueLimit /\ uptime < MaxUptime
    /\ sent' = sent \cup {SignedPacketB(Head(toBuyer))}
    /\ toGround' = Append(toGround, PacketBLine(SignedPacketB(Head(toBuyer)), TRUE))
    /\ radio' = NoFrame
    /\ uptime' = uptime + 1
    /\ UNCHANGED <<offers, pending, announced, groundVars, gatewayVars, dropped, failures>>

\* ACK_BUY with an invoice pending: build, sign, transmit, print PACKET_B:.  The
\* blocking transmit takes time and reuses the radio's buffer.
Buy ==
    /\ pending # None /\ NextCommand("ACK_BUY")
    /\ Len(toGround) < QueueLimit /\ uptime < MaxUptime
    /\ sent' = sent \cup {SignedPacketB(Head(toBuyer))}
    /\ toGround' = Append(toGround, PacketBLine(SignedPacketB(Head(toBuyer)), TRUE))
    /\ pending' = None
    /\ radio' = NoFrame
    /\ uptime' = uptime + 1
    /\ UNCHANGED <<offers, announced, groundVars, gatewayVars, dropped, failures>>

\* ACK_BUY without an invoice, and PACKET_ACK_TX:, which has no branch.
IgnoreCommand ==
    /\ \/ pending = None /\ NextCommand("ACK_BUY")
       \/ NextCommand("PACKET_ACK_TX")
    /\ UNCHANGED <<offers, buyerVars, toGround, groundVars, gatewayVars, dropped, failures>>

Elapse ==
    /\ uptime < MaxUptime
    /\ uptime' = uptime + 1
    /\ UNCHANGED <<offers, radio, pending, announced, sent, serialVars, groundVars,
                   gatewayVars, dropped, failures>>

\* Everything in RAM is gone, the clock starts again; the host keeps what it received.
BuyerReboots ==
    /\ Fault("buyer")
    /\ uptime' = 0 /\ radio' = NoFrame /\ pending' = None /\ toBuyer' = <<>>
    /\ UNCHANGED <<offers, announced, sent, toGround, groundVars, gatewayVars, dropped>>

------------------------------------------------------------------------------
(* Ground station *)

\* cli_listener: 'ack'.
TypeAck ==
    /\ acks < MaxAcks /\ Len(toBuyer) < QueueLimit
    /\ acks' = acks + 1
    /\ toBuyer' = Append(toBuyer, AckBuyLine(seen))
    /\ UNCHANGED <<offers, buyerVars, toGround, seen, packetBin, pushing, gatewayVars,
                   dropped, failures>>

\* The serial write is short or fails, which nobody looks at.
TypeAckLost ==
    /\ acks < MaxAcks
    /\ Fault("command")
    /\ acks' = acks + 1
    /\ UNCHANGED <<offers, buyerVars, serialVars, seen, packetBin, pushing, gatewayVars, dropped>>

NextLine(type) ==
    /\ pushing = Free
    /\ toGround # <<>> /\ Head(toGround).type = type
    /\ toGround' = Tail(toGround)

\* The main loop on INVOICE:.
ShowInvoice ==
    /\ NextLine("INVOICE")
    /\ seen' = Head(toGround).inv
    /\ UNCHANGED <<offers, buyerVars, toBuyer, acks, packetBin, pushing, gatewayVars,
                   dropped, failures>>

\* hex_to_bin writes as many bytes as the line has digits for and packet_bin is
\* not initialised: after a damaged line it may still hold the frame before it.
HexToBin(line) == {line} \cup (IF line.sig THEN {} ELSE {packetBin} \ {Free})

\* Bouncer::process_packet: the buffer always has the size of a PacketB, and
\* validate_signature and decrypt_payload are stubs that accept.
ProcessPacket(frame) == TRUE

\* A damaged line whose frame is not the one forwarded is lost.
Forward(frame) ==
    /\ ProcessPacket(frame)
    /\ packetBin' = frame /\ pushing' = frame
    /\ dropped' = dropped \cup ({Head(toGround).pay} \ {frame.pay})

\* Mutant of AcceptPacketB: a PacketAck that cannot be written ends the handling.
AcceptIfAcked ==
    /\ NextLine("PACKET_B")
    /\ \/ /\ Len(toBuyer) < QueueLimit
          /\ toBuyer' = Append(toBuyer, PacketAckLine)
          /\ \E frame \in HexToBin(Head(toGround)) : Forward(frame)
       \/ UNCHANGED <<toBuyer, packetBin, pushing, dropped>>
    /\ UNCHANGED <<offers, buyerVars, seen, acks, gatewayVars, failures>>

\* The main loop on PACKET_B:, up to the push.  Before the gateway is asked a
\* PacketAck goes out, or does not because the serial write came up short.
AcceptPacketB ==
    /\ NextLine("PACKET_B")
    /\ \E frame \in HexToBin(Head(toGround)) : Forward(frame)
    /\ \/ Len(toBuyer) < QueueLimit /\ toBuyer' = Append(toBuyer, PacketAckLine)
       \/ UNCHANGED toBuyer
    /\ UNCHANGED <<offers, buyerVars, seen, acks, gatewayVars, failures>>

\* Mutant of PushToL2: the frame is sent again because no answer came in time.
PushTwice ==
    /\ pushing # Free
    /\ pushing' = Free
    /\ IF gateway = "down"
         THEN dropped' = dropped \cup {pushing.pay} /\ UNCHANGED inbox
         ELSE inbox' = inbox \o <<pushing, pushing>> /\ UNCHANGED dropped
    /\ UNCHANGED <<offers, buyerVars, serialVars, seen, acks, packetBin, gateway, intents,
                   failures>>

\* push_to_l2: sends and closes, or cannot connect; either way it is not tried again.
PushToL2 ==
    /\ pushing # Free
    /\ pushing' = Free
    /\ IF gateway = "down"
         THEN dropped' = dropped \cup {pushing.pay} /\ UNCHANGED inbox
         ELSE inbox' = Append(inbox, pushing) /\ UNCHANGED dropped
    /\ UNCHANGED <<offers, buyerVars, serialVars, seen, acks, packetBin, gateway, intents,
                   failures>>

PaymentsIn(lines) == {l.pay : l \in {m \in lines : m.type = "PACKET_B"}}

\* The tty loses part of the oldest line while the main loop is busy.
UsbGarbles ==
    /\ Fault("usb")
    /\ toGround # <<>>
    /\ LET l == Head(toGround) IN
         IF l.type = "PACKET_B"
           THEN toGround' = <<PacketBLine(l.pay, FALSE)>> \o Tail(toGround)
           ELSE toGround' = Tail(toGround)
    /\ UNCHANGED <<offers, buyerVars, toBuyer, groundVars, gatewayVars, dropped>>

\* The process ends and is started again: unread lines and the frame in hand are gone.
GroundRestarts ==
    /\ Fault("ground")
    /\ toGround' = <<>> /\ packetBin' = Free /\ pushing' = Free /\ seen' = None
    /\ dropped' = dropped \cup PaymentsIn(ToSet(toGround))
                          \cup (IF pushing = Free THEN {} ELSE {pushing.pay})
    /\ UNCHANGED <<offers, buyerVars, toBuyer, acks, gatewayVars>>

------------------------------------------------------------------------------
(* Gateway *)

\* Mutant of Verified: the signature is not checked.
VerifiedAlways(f) == TRUE

\* VerifyPacketSignature with the key main has put into the registry.
Verified(f) == f.sig

\* DeriveTxNonce of sat_id and epoch_ts; there is one buyer.
TxNonce(p) == p.epoch

EnqueueSettlementIntent(f) ==
    intents' = Append(intents, [pay |-> f.pay, nonce |-> TxNonce(f.pay), sig |-> f.sig])

\* The PacketB case; the other packet types change nothing.
HandlePayloadBody(f) ==
    IF Verified(f) /\ gateway = "up"
      THEN EnqueueSettlementIntent(f) /\ UNCHANGED dropped
      ELSE dropped' = dropped \cup {f.pay} /\ UNCHANGED intents

\* Requests are served concurrently, in any order.
IngestPacket(n) ==
    /\ gateway # "down"
    /\ inbox' = RemoveAt(inbox, n)
    /\ HandlePayloadBody(inbox[n])
    /\ UNCHANGED <<offers, buyerVars, serialVars, groundVars, gateway, failures>>

\* The process ends with the requests it was serving.
GatewayDies ==
    /\ gateway # "down" /\ Fault("gateway")
    /\ gateway' = "down" /\ inbox' = <<>>
    /\ dropped' = dropped \cup PaymentsIn(ToSet(inbox))
    /\ UNCHANGED <<offers, buyerVars, serialVars, groundVars, intents>>

\* main: the registry and its key, then the submitter if VOID_ESCROW_ADDRESS is set.
GatewayBoots ==
    /\ gateway = "down"
    /\ gateway' \in {"offchain", "up"}
    /\ UNCHANGED <<offers, buyerVars, serialVars, groundVars, inbox, intents, dropped, failures>>

------------------------------------------------------------------------------
Buyer == ReceiveInvoice \/ Buy \/ IgnoreCommand

Ground == ShowInvoice \/ AcceptPacketB \/ PushToL2

Gateway == \E n \in DOMAIN inbox : IngestPacket(n)

Next ==
    \/ Broadcast \/ BroadcastDisturbed
    \/ Buyer \/ Elapse \/ BuyerReboots
    \/ TypeAck \/ TypeAckLost
    \/ Ground \/ UsbGarbles \/ GroundRestarts
    \/ Gateway \/ GatewayDies \/ GatewayBoots

Spec == LinkInit /\ [][Next]_vars

\* The loops of buyer and ground station run for ever and the gateway serves what
\* it accepted; nobody has to broadcast, type or restart anything.
FairSpec == Spec /\ WF_vars(Buyer) /\ WF_vars(Ground) /\ WF_vars(Gateway)

------------------------------------------------------------------------------
Line == [type : {"INVOICE"}, inv : 1..Garbled]
        \cup [type : {"PACKET_B"}, pay : Payment, sig : BOOLEAN]
        \cup [type : {"ACK_BUY"}, seen : None..Garbled]
        \cup {PacketAckLine}

LinkTypeOK ==
    /\ offers \in 0..MaxOffers /\ uptime \in 0..MaxUptime
    /\ radio \in [inv : None..Garbled, crc : BOOLEAN]
    /\ pending \in None..MaxOffers
    /\ announced \subseteq Offer /\ sent \subseteq Payment
    /\ toBuyer \in Seq(Line) /\ toGround \in Seq(Line)
    /\ Len(toBuyer) <= QueueLimit /\ Len(toGround) <= QueueLimit
    /\ seen \in None..MaxOffers /\ acks \in 0..MaxAcks
    /\ packetBin \in Line \cup {Free} /\ pushing \in Line \cup {Free}
    /\ inbox \in Seq(Line)
    /\ gateway \in {"down", "offchain", "up"}
    /\ intents \in Seq([pay : Payment, nonce : Nat, sig : BOOLEAN])
    /\ dropped \subseteq Payment /\ failures \in 0..MaxFailures

Enqueued == {i.pay : i \in ToSet(intents)}

(* The gateway enqueues a payment only if the buyer transmitted exactly that  *)
(* PacketB.  The ground station may forward a frame twice (main.cpp:275-278), *)
(* but only in the place of another one that is lost by it: there are never   *)
(* more intents than payments that were enqueued or taken away.               *)
EnqueuedWasSent ==
    /\ \A i \in ToSet(intents) : i.sig /\ i.pay \in sent
    /\ Len(intents) <= Cardinality(Enqueued \cup dropped)

(* An enqueued payment pays an invoice the seller broadcast and the buyer     *)
(* reported to the ground, whatever the air does to the frames.               *)
PaidWasOffered ==
    \A p \in Enqueued : p.inv <= offers /\ p.inv \in announced

(* No invoice is paid twice: two PacketBs differ in what they pay, over any   *)
(* number of 'ack' commands, reboots and restarts.                            *)
InvoicePaidOnce == \A p, q \in sent : p.inv = q.inv => p = q

(* The operator's 'ack' never buys an invoice older than the one it answers:  *)
(* the buyer may have replaced that one, but only by a later broadcast.       *)
PaidNotOlder == \A p \in sent : p.inv >= p.seen

(* A PacketB that was transmitted reaches the submitter, unless a failure or  *)
(* a gateway without a submitter takes it away: no handler loses it.          *)
SentResolved ==
    \A p \in [inv : Offer, epoch : 0..MaxUptime, seen : None..MaxOffers] :
        p \in sent ~> p \in Enqueued \cup dropped

(* docs/Protocol-spec-SNLP.md:113 and gps_stub.h:47-48: the buyer's epoch_ts  *)
(* is strictly monotonic; :159 and :161: the ground station rejects a packet  *)
(* whose epoch_ts it has accepted before and keeps a replay cache.  By either, *)
(* no two intents reach the submitter with one nonce, on which the contract   *)
(* would settle only one of them.                                             *)
NoncesDistinct ==
    \A m, n \in DOMAIN intents : intents[m].nonce = intents[n].nonce => m = n
=============================================================================
