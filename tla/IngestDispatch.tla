--------------------------- MODULE IngestDispatch ---------------------------
(***************************************************************************)
(* api/handlers/ingest.go with core/security/verifier.go, core/registry and  *)
(* void_protocol/crc.go: a frame is posted, on its way to the gateway bits    *)
(* flip and bytes get lost or appended, and IngestPacket bounces it or takes  *)
(* it.  Requests share nothing but the registry, which is only read after     *)
(* start-up, and the submitter, so one request at a time is enough.          *)
(*                                                                          *)
(* Signatures and CRCs are taken to hold exactly for the bytes their sender   *)
(* computed them over.  For a CRC32 over frames of this size that is a fact   *)
(* as long as fewer than five bits are flipped.                              *)
(***************************************************************************)
EXTENDS VoidFrame

CONSTANTS Sats,       \* the sat_ids PacketB frames carry
          SeqCounts,  \* sequence counts of the gateway's PacketC frames
          MaxFaults   \* flipped bits, and cuts or extensions, per frame

ASSUME IngestBounds == MaxFaults \in Nat /\ SeqCounts \subseteq Nat

VARIABLES frame,     \* the request's body, or NoFrame
          answer,    \* Pending, or the response: code, apid, tier; as is the type logged
          enqueued,  \* what this request handed to Submitter.Enqueue
          submitter  \* handlers.Submitter # nil: maybeInitChain found an escrow address

vars == <<frame, answer, enqueued, submitter>>

NoFrame == [size |-> 0, flips |-> {}]
NoRequest == [code |-> -1]
Pending == [code |-> 0]
Bounced(code) == [code |-> code]

------------------------------------------------------------------------------
(* The registry.  All senders sign with the demo seed.                        *)

DemoKey == "key of the demo seed"

Initialize ==
    [sat100 |-> [PubKeyHex |-> DemoKey, Wallet |-> "seller"],
     sat101 |-> [PubKeyHex |-> "another key", Wallet |-> "mule"],
     flatSat |-> [PubKeyHex |-> "", Wallet |-> "demo"]]

\* Mutant of LoadFlatSatDemoKey: the record is a copy and is not written back.
LoadNothing(db) == db

\* main ends the process when this fails, so the server runs with the key loaded.
LoadFlatSatDemoKey(db) == [db EXCEPT !.flatSat.PubKeyHex = DemoKey]

MockDB == LoadFlatSatDemoKey(Initialize)

------------------------------------------------------------------------------
(* Signatures and checksums.                                                  *)

\* The signed bytes of f: PacketB's include the header.
SignedFrom(f) == IF f.type = "PacketBBody" THEN 0 ELSE HeaderLen(f.tier)
SignedTo(f) == HeaderLen(f.tier) + Vector[f.type].sig

\* ed25519.Verify with the demo key: bytes lo up to hi as the message, the 64
\* bytes from at as the signature.
Ed25519Verify(f, lo, hi, at) ==
    /\ "sig" \in DOMAIN Vector[f.type]
    /\ lo = SignedFrom(f) /\ hi = SignedTo(f) /\ at = SignedTo(f)
    /\ AsSent(f, lo, hi) /\ AsSent(f, at, at + Ed25519Signature)

VerifyPacketSignature(sat, f, lo, hi, at) ==
    /\ sat \in DOMAIN MockDB
    /\ MockDB[sat].PubKeyHex = DemoKey
    /\ Ed25519Verify(f, lo, hi, at)

\* Mutant of ValidateFrameCRC32: the checksum is taken over the body only.
ValidateBodyCRC32(f, crcOffset) ==
    /\ crcOffset >= 0 /\ crcOffset + 4 <= f.size
    /\ "crc" \in DOMAIN Vector[f.type]
    /\ crcOffset = HeaderLen(f.tier) + Vector[f.type].crc
    /\ AsSent(f, HeaderLen(f.tier), crcOffset + 4)

ValidateFrameCRC32(f, crcOffset) ==
    /\ crcOffset >= 0 /\ crcOffset + 4 <= f.size
    /\ "crc" \in DOMAIN Vector[f.type]
    /\ crcOffset = HeaderLen(f.tier) + Vector[f.type].crc
    /\ AsSent(f, 0, crcOffset + 4)

------------------------------------------------------------------------------
(* The handler.                                                               *)

\* Is this field of the parsed body what the sender wrote into it?
FieldAsSent(f, p, t, name) ==
    /\ f.type = t /\ HeaderLen(f.tier) = p.hdr
    /\ AsSent(f, p.hdr + FieldSpan[t][name][1], p.hdr + FieldSpan[t][name][2])

SatIdOf(f, p) == IF FieldAsSent(f, p, "PacketBBody", "SatId") THEN f.sat ELSE "garbled"

\* PacketB: the signed part is found from the end of the request.
PacketBVerified(f, p) ==
    LET bodyStart == f.size - PacketBBodyLen IN
    /\ f.size >= PacketBBodyLen
    /\ VerifyPacketSignature(SatIdOf(f, p), f, 0, bodyStart + PacketBSigScopeBody,
                             p.hdr + FieldSpan["PacketBBody"]["Signature"][1])

\* PacketC: always against the key of satellite 100, the body only.
PacketCVerified(f, p) ==
    LET payloadStart == f.size - 98 IN
    VerifyPacketSignature("sat100", f, payloadStart, payloadStart + 26,
                          p.hdr + FieldSpan["PacketCBody"]["Signature"][1])

PacketDCrcOffsetFromEnd == 10
PacketAckCrcOffsetFromEnd == 4

\* handlePayloadBody: the status it leaves for a body of type t.
handlePayloadBody(t, f, p) ==
    CASE t \in {"HeartbeatBody", "PacketABody", "PacketHBody"} -> 200
      [] t = "PacketBBody" -> IF PacketBVerified(f, p) THEN 200 ELSE 400
      [] t = "PacketCBody" -> IF f.size < 98 THEN 400 ELSE IF PacketCVerified(f, p) THEN 200 ELSE 401
      [] t = "PacketDBody" ->
            IF /\ ByteAt(f, p.hdr) = MagicPacketD
               /\ ValidateFrameCRC32(f, f.size - PacketDCrcOffsetFromEnd) THEN 200 ELSE 400
      [] t \in {"PacketAckBodySnlp", "PacketAckBodyCcsds"} ->
            IF /\ ByteAt(f, p.hdr) = MagicPacketAck
               /\ ValidateFrameCRC32(f, f.size - PacketAckCrcOffsetFromEnd) THEN 200 ELSE 400

\* Mutant of enqueueSettlementIntent: the wallet is the hardcoded seller's.
enqueueForSeller(f, p) ==
    LET sat == SatIdOf(f, p) IN
    {[sat |-> sat, wallet |-> MockDB["sat100"].Wallet,
      paid |-> FieldAsSent(f, p, "PacketBBody", "EncPayload"),
      nonce |-> FieldAsSent(f, p, "PacketBBody", "EpochTs")]}

\* enqueueSettlementIntent: amount and asset come out of the 62 payload bytes,
\* the nonce out of sat_id and epoch_ts, the wallet out of the registry.
enqueueSettlementIntent(f, p) ==
    LET sat == SatIdOf(f, p) IN
    IF sat \in DOMAIN MockDB /\ MockDB[sat].Wallet # ""
      THEN {[sat |-> sat, wallet |-> MockDB[sat].Wallet,
             paid |-> FieldAsSent(f, p, "PacketBBody", "EncPayload"),
             nonce |-> FieldAsSent(f, p, "PacketBBody", "EpochTs")]}
      ELSE {}

IngestPacket ==
    /\ answer = Pending
    /\ LET p == Read(frame) IN
       IF p.err \/ p.version # 0 \/ p.body = {}
         THEN answer' = Bounced(400) /\ enqueued' = {}
         ELSE LET t == CHOOSE t \in p.body : TRUE
                  code == handlePayloadBody(t, frame, p)
              IN  IF code # 200
                    THEN answer' = Bounced(code) /\ enqueued' = {}
                    ELSE /\ answer' = [code |-> 200, apid |-> p.apid, as |-> t,
                                       tier |-> IF p.snlp THEN "snlp" ELSE "ccsds"]
                         /\ enqueued' = IF t = "PacketBBody" /\ submitter
                                          THEN enqueueSettlementIntent(frame, p) ELSE {}
    /\ UNCHANGED <<frame, submitter>>

------------------------------------------------------------------------------
(* Senders and the way to the gateway.                                        *)

Frames ==
    {Build(n) : n \in SeqCounts} \cup
    UNION {{Built(t, tier, sat, 0) : tier \in TiersOf(t),
                                     sat \in IF t = "PacketBBody" THEN Sats ELSE {"none"}} : t \in Type}

Init ==
    /\ frame = NoFrame
    /\ answer = NoRequest
    /\ enqueued = {}
    /\ submitter \in BOOLEAN

\* The next request, and the end of one.
Post ==
    /\ answer = NoRequest
    /\ frame' \in Frames
    /\ answer' = Pending
    /\ UNCHANGED <<enqueued, submitter>>

Finish ==
    /\ answer.code >= 200
    /\ frame' = NoFrame /\ answer' = NoRequest /\ enqueued' = {}
    /\ UNCHANGED submitter

Faults(f) == Cardinality(f.flips) + (IF f.size = BuiltSize(f) THEN 0 ELSE 1)

\* A bit flips on the radio or the serial line.
Flip ==
    /\ answer = Pending /\ Faults(frame) < MaxFaults
    /\ \E s \in FlipSites(frame) \ frame.flips :
          frame' = Flipped(frame, s)
    /\ UNCHANGED <<answer, enqueued, submitter>>

\* Bytes are cut off, within and around each part of the header and the body's
\* end, or appended.
Resize ==
    /\ answer = Pending /\ Faults(frame) < MaxFaults
    /\ frame.size = BuiltSize(frame)
    /\ \E n \in {0, 3, 5, 13, HeaderLen(frame.tier), BuiltSize(frame) - 8, BuiltSize(frame) - 1,
                 BuiltSize(frame) + 1, BuiltSize(frame) + 8} :
          frame' = [frame EXCEPT !.size = n]
    /\ UNCHANGED <<answer, enqueued, submitter>>

Next == Post \/ Finish \/ Flip \/ Resize \/ IngestPacket

Spec == Init /\ [][Next]_vars

------------------------------------------------------------------------------
IngestTypeOK ==
    /\ frame = NoFrame <=> answer = NoRequest
    /\ frame # NoFrame => /\ frame.size \in Nat /\ frame.flips \subseteq FlipSites(frame)
                          /\ Faults(frame) <= MaxFaults
    /\ answer.code \in {-1, 0, 200, 400, 401}
    /\ answer.code = 200 => answer.apid \in 0..2047 /\ answer.as \in Type
    /\ submitter \in BOOLEAN

Answered == answer.code >= 200

Accepted == answer.code = 200

(* A frame that arrives as it was built is taken for what it is, in its tier  *)
(* and with its APID, whatever shares its length or its magic; a PacketB is   *)
(* bounced exactly when its sat_id is not registered with the signer's key,   *)
(* and handed on whenever there is a submitter.  The gateway takes back the   *)
(* receipts it built itself.                                                  *)
IntactAccepted ==
    Answered /\ Faults(frame) = 0 =>
        LET known == frame.type = "PacketBBody" => frame.sat \in {"sat100", "flatSat"} IN
        /\ Accepted <=> known
        /\ Accepted => /\ answer.as = frame.type /\ answer.tier = frame.tier
                       /\ answer.apid = Vector[frame.type].apid
        /\ enqueued # {} <=> frame.type = "PacketBBody" /\ known /\ submitter

(* Types that carry a signature or have their CRC checked are accepted as     *)
(* such only from a frame built as that type, with everything the signature   *)
(* or the CRC covers as it was sent: neither a flipped length or magic nor a  *)
(* cut frame turns one into another (ingest.go:213-226, crc.go:11-18).        *)
AuthenticatedAsBuilt ==
    Accepted /\ answer.as \in Type \ {"HeartbeatBody", "PacketABody", "PacketHBody"} =>
        /\ answer.as = frame.type
        /\ IF "sig" \in DOMAIN Vector[frame.type]
             THEN AsSent(frame, SignedFrom(frame), SignedTo(frame) + Ed25519Signature)
             ELSE AsSent(frame, 0, HeaderLen(frame.tier) + Vector[frame.type].crc + 4)

(* What reaches the submitter is what a registered satellite signed: amount,  *)
(* asset and nonce come from undamaged fields, under an undamaged header, and *)
(* the money goes to the wallet of the sat_id that was signed.                *)
EnqueuedAsSigned ==
    \A intent \in enqueued :
        /\ submitter /\ Accepted /\ answer.as = "PacketBBody"
        /\ intent.paid /\ intent.nonce
        /\ intent.sat = frame.sat /\ intent.wallet = MockDB[frame.sat].Wallet
        /\ AsSent(frame, 0, HeaderLen(frame.tier) + PacketBSigScopeBody)

(* Bytes do not get lost or added unnoticed.  The handler looks for the        *)
(* signature or the CRC from the end of the request (ingest.go:157, :196,     *)
(* :236, :253), so a frame it takes for a type it checks has the length it    *)
(* was built with, whichever bits are flipped too; and a frame of any type    *)
(* that was only cut is bounced.  Only the unchecked types take bytes behind  *)
(* their end, and a flipped length bit can make a cut frame one of them.      *)
LengthAsBuilt ==
    Accepted =>
        /\ answer.as \notin {"HeartbeatBody", "PacketABody", "PacketHBody"}
             => frame.size = BuiltSize(frame)
        /\ frame.flips = {} => answer.as = frame.type /\ frame.size >= BuiltSize(frame)

(* ingest.go:234-235, crc.go:28-29: a PacketD or PacketAck with a flipped bit *)
(* inside the CRC-covered region, header included, is rejected.               *)
CrcCoveredFlipRejected ==
    /\ Answered
    /\ frame.type \in {"PacketDBody", "PacketAckBodySnlp", "PacketAckBodyCcsds"}
    /\ \E s \in frame.flips : s[1] < HeaderLen(frame.tier) + Vector[frame.type].crc
    => ~Accepted
=============================================================================
