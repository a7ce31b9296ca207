----------------------------- MODULE VoidFrame -----------------------------
(***************************************************************************)
(* The wire format.  Senders (the vector generator and receipt/builder.go)   *)
(* put frames together; the parser generated into void_protocol/protocol     *)
(* takes them apart.  A frame on the wire is the type and tier it was built  *)
(* as, its number of bytes, the values of the bytes that may steer the       *)
(* parser (a header of either kind and the byte behind it), and the bits     *)
(* flipped on the way, <<byte, bit>>; the rest is as sent or not.            *)
(***************************************************************************)
EXTENDS Integers, Sequences, FiniteSets

\* constants.go
CCSDSHeaderLen == 6
SNLPHeaderLen == 14
PacketBBodyLen == 178
PacketBSigScopeBody == 106

MagicPacketD == 208
MagicPacketAck == 172
SyncWord == <<29, 1, 165, 165>>

------------------------------------------------------------------------------
(* Bodies as the generated parser reads them: fields and their widths.        *)

Ed25519Signature == 64
X25519PublicKey == 32
RelayOps == 2 + 2 + 4 + 4
Vector3d == 3 * 8
Vector3f == 3 * 4

HeartbeatBody ==
    <<<<"PadHead", 2>>, <<"EpochTs", 8>>, <<"PressurePa", 4>>, <<"LatFixed", 4>>,
      <<"LonFixed", 4>>, <<"VbattMv", 2>>, <<"TempC", 2>>, <<"GpsSpeedCms", 2>>,
      <<"SysState", 1>>, <<"SatLock", 1>>, <<"Crc32", 4>>>>

PacketABody ==
    <<<<"PadHead", 2>>, <<"EpochTs", 8>>, <<"PosVec", Vector3d>>, <<"VelVec", Vector3f>>,
      <<"SatId", 4>>, <<"Amount", 8>>, <<"AssetId", 2>>, <<"PreCrc", 2>>, <<"Crc32", 4>>>>

PacketAckBodyCcsds ==
    <<<<"Magic", 1>>, <<"PadA", 1>>, <<"TargetTxId", 4>>, <<"Status", 1>>, <<"PadB", 1>>,
      <<"RelayOps", RelayOps>>, <<"EncTunnel", 88>>, <<"PadC", 2>>, <<"Crc32", 4>>>>

PacketAckBodySnlp ==
    <<<<"Magic", 1>>, <<"PadA", 1>>, <<"TargetTxId", 4>>, <<"Status", 1>>, <<"PadB", 1>>,
      <<"RelayOps", RelayOps>>, <<"EncTunnel", 96>>, <<"PadC", 2>>, <<"Crc32", 4>>>>

PacketBBody ==
    <<<<"PadHead", 2>>, <<"EpochTs", 8>>, <<"PosVec", Vector3d>>, <<"EncPayload", 62>>,
      <<"PreSat", 2>>, <<"SatId", 4>>, <<"PreSig", 4>>, <<"Signature", Ed25519Signature>>,
      <<"GlobalCrc", 4>>, <<"TailPad", 4>>>>

PacketCBody ==
    <<<<"PadHead", 2>>, <<"ExecTime", 8>>, <<"EncTxId", 8>>, <<"EncStatus", 1>>, <<"PadSig", 7>>,
      <<"Signature", Ed25519Signature>>, <<"Crc32", 4>>, <<"TailPad", 4>>>>

PacketDBody ==
    <<<<"Magic", 1>>, <<"PadHead", 1>>, <<"DownlinkTs", 8>>, <<"SatBId", 4>>, <<"Payload", 98>>,
      <<"GlobalCrc", 4>>, <<"Tail", 6>>>>

PacketHBody ==
    <<<<"SessionTtl", 2>>, <<"Timestamp", 8>>, <<"EphPubKey", X25519PublicKey>>,
      <<"Signature", Ed25519Signature>>>>

Layout == [HeartbeatBody |-> HeartbeatBody, PacketABody |-> PacketABody,
           PacketAckBodyCcsds |-> PacketAckBodyCcsds, PacketAckBodySnlp |-> PacketAckBodySnlp,
           PacketBBody |-> PacketBBody, PacketCBody |-> PacketCBody,
           PacketDBody |-> PacketDBody, PacketHBody |-> PacketHBody]

Type == DOMAIN Layout

\* The bytes of the first n fields.
Width(layout, n) ==
    LET sum[i \in 0..Len(layout)] == IF i = 0 THEN 0 ELSE sum[i - 1] + layout[i][2]
    IN  sum[n]

\* The body bytes of each field: first, and first after it.
FieldSpan ==
    [t \in Type |->
        LET L == Layout[t] IN
        [name \in {L[i][1] : i \in DOMAIN L} |->
            LET i == CHOOSE i \in DOMAIN L : L[i][1] = name
            IN  <<Width(L, i - 1), Width(L, i)>>]]

LayoutLen == [t \in Type |-> Width(Layout[t], Len(Layout[t]))]

------------------------------------------------------------------------------
(* Senders.                                                                   *)

apidSatA == 100
apidSatB == 101

\* What genPacketX writes: body length, APID, command bit, where the CRC stands,
\* and for the signed types how far the signed part of the body goes.
Vector ==
    [PacketABody |-> [len |-> 66, apid |-> apidSatA, cmd |-> 0, crc |-> 62],
     PacketBBody |-> [len |-> 178, apid |-> apidSatB, cmd |-> 0, crc |-> 170, sig |-> 106],
     PacketHBody |-> [len |-> 106, apid |-> apidSatB, cmd |-> 0, sig |-> 42],
     PacketCBody |-> [len |-> 98, apid |-> apidSatA, cmd |-> 0, crc |-> 90, sig |-> 26],
     PacketDBody |-> [len |-> 122, apid |-> apidSatB, cmd |-> 0, crc |-> 112],
     PacketAckBodyCcsds |-> [len |-> 114, apid |-> apidSatB, cmd |-> 1, crc |-> 110],
     PacketAckBodySnlp |-> [len |-> 122, apid |-> apidSatB, cmd |-> 1, crc |-> 118],
     HeartbeatBody |-> [len |-> 34, apid |-> apidSatB, cmd |-> 0, crc |-> 30]]

TiersOf(t) ==
    CASE t = "PacketAckBodyCcsds" -> {"ccsds"}
      [] t = "PacketAckBodySnlp" -> {"snlp"}
      [] OTHER -> {"ccsds", "snlp"}

HeaderLen(tier) == IF tier = "snlp" THEN SNLPHeaderLen ELSE CCSDSHeaderLen

PutU2be(w) == <<w \div 256, w % 256>>

\* buildHeader of the vector generator.
buildHeader(tier, payloadLen, apid, cmd) ==
    LET ccsds == PutU2be((cmd * 4096 + 2048) + (apid % 2048)) \o PutU2be(49152) \o PutU2be(payloadLen - 1)
    IN  IF tier = "snlp" THEN SyncWord \o ccsds \o <<0, 0, 0, 0>> ELSE ccsds

\* writeSNLPHeader of receipt/builder.go.
writeSNLPHeader(apid, seqCount, bodyLen) ==
    SyncWord \o PutU2be(2048 + (apid % 2048)) \o PutU2be(49152 + (seqCount % 16384))
             \o PutU2be(bodyLen - 1) \o <<0, 0, 0, 0>>

\* detEpochTsMs, the first seven of its bytes.
EpochBytes == <<160, 210, 242, 35, 142, 1, 0>>

\* Body offsets 0 to 8: the magic, SessionTtl = 900 or padding, and what follows.
BodyHead(t) ==
    CASE t = "PacketDBody" -> <<MagicPacketD, 0>> \o EpochBytes
      [] t \in {"PacketAckBodyCcsds", "PacketAckBodySnlp"} ->
            <<MagicPacketAck, 0, 190, 186, 254, 202, 1, 0, 180>>
      [] t = "PacketHBody" -> <<132, 3>> \o EpochBytes
      [] OTHER -> <<0, 0>> \o EpochBytes

HeaderBytes(t, tier, seqCount) ==
    IF t = "PacketCBody" /\ tier = "snlp"
      THEN writeSNLPHeader(apidSatA, seqCount, 98)
      ELSE buildHeader(tier, Vector[t].len, Vector[t].apid, Vector[t].cmd)

\* The bytes with a value: as many as an SNLP header has, and one more.
SentBytes(t, tier, seqCount) ==
    [i \in 1..(SNLPHeaderLen + 1) |->
        IF i <= HeaderLen(tier) THEN HeaderBytes(t, tier, seqCount)[i]
        ELSE BodyHead(t)[i - HeaderLen(tier)]]

\* A frame as its sender hands it over.  sat is the sat_id a PacketB carries.
Built(t, tier, sat, seqCount) ==
    [type |-> t, tier |-> tier, sat |-> sat, bytes |-> SentBytes(t, tier, seqCount),
     size |-> HeaderLen(tier) + Vector[t].len, flips |-> {}]

BuiltSize(f) == HeaderLen(f.tier) + Vector[f.type].len

\* receipt.Build: the gateway's own PacketC.
Build(seqCount) == Built("PacketCBody", "snlp", "none", seqCount)

------------------------------------------------------------------------------
(* The wire.                                                                  *)

Toggle(v, bit) == IF (v \div 2^bit) % 2 = 1 THEN v - 2^bit ELSE v + 2^bit

\* Bit s[2] of byte s[1] arrives flipped.
Flipped(f, s) ==
    [f EXCEPT !.flips = @ \cup {s},
              !.bytes = [i \in DOMAIN @ |-> IF i = s[1] + 1 THEN Toggle(@[i], s[2]) ELSE @[i]]]

ByteAt(f, i) == f.bytes[i + 1]

U2beAt(f, i) == 256 * ByteAt(f, i) + ByteAt(f, i + 1)

\* Bytes lo up to, not including, hi are there and are the sender's.
AsSent(f, lo, hi) ==
    /\ 0 <= lo /\ lo <= hi /\ hi <= f.size /\ hi <= BuiltSize(f)
    /\ \A s \in f.flips : ~(lo <= s[1] /\ s[1] < hi)

\* Bits a fault may flip: the header, body offset 0, and in each body field one.
FlipSites(f) ==
    LET hdr == HeaderLen(f.tier) IN
    ((0..hdr) \X (0..7)) \cup
    {<<hdr + FieldSpan[f.type][name][1], 0>> : name \in DOMAIN FieldSpan[f.type]}

------------------------------------------------------------------------------
(* The parser.                                                                *)

\* MagicPeek, IsSnlp: the first four bytes, as two words.
IsSnlp(f) == U2beAt(f, 0) = 7425 /\ U2beAt(f, 2) = 42405

\* CcsdsPrimaryHeader.Read from byte at on: the start of the frame, or behind the
\* sync word.
CcsdsPrimaryHeader(f, at) ==
    [VersionTypeFlagApid |-> U2beAt(f, at), PacketDataLength |-> U2beAt(f, at + 4)]

\* Mutant of Apid: one bit too many.
ApidWide(h) == h.VersionTypeFlagApid % 4096

Apid(h) == h.VersionTypeFlagApid % 2048

Version(h) == (h.VersionTypeFlagApid \div 8192) % 8

\* DataFieldLength, in 16 bits.
BodyLength(h) == (h.PacketDataLength + 1) % 65536

\* SnlpHeader.Read: sync word and CCSDS header, then an align_pad that must be 0.
SnlpHeaderValid(f) == U2beAt(f, 10) = 0 /\ U2beAt(f, 12) = 0

\* Dispatch122.Read: the type by the magic byte at body offset 0.
Dispatch122(magic) ==
    CASE magic = MagicPacketAck -> {"PacketAckBodySnlp"}
      [] magic = MagicPacketD -> {"PacketDBody"}
      [] OTHER -> {}

\* The switch of VoidProtocol.Read.
RootSwitch(length, magic) ==
    CASE length = 34 -> {"HeartbeatBody"}
      [] length = 66 -> {"PacketABody"}
      [] length = 98 -> {"PacketCBody"}
      [] length = 106 -> {"PacketHBody"}
      [] length = 114 -> {"PacketAckBodyCcsds"}
      [] length = 122 -> Dispatch122(magic)
      [] length = 178 -> {"PacketBBody"}
      [] OTHER -> {}

Malformed == [err |-> TRUE]

\* Mutant of Read: the end of the stream is not noticed in the body.
ReadPastEnd(f) ==
    LET snlp == f.size >= 4 /\ IsSnlp(f)
        hdr == HeaderLen(IF snlp THEN "snlp" ELSE "ccsds")
        h == CcsdsPrimaryHeader(f, IF snlp THEN 4 ELSE 0)
    IN  IF f.size < hdr \/ (snlp /\ ~SnlpHeaderValid(f)) THEN Malformed
        ELSE [err |-> FALSE, snlp |-> snlp, hdr |-> hdr, apid |-> Apid(h),
              version |-> Version(h), body |-> RootSwitch(BodyLength(h), ByteAt(f, hdr))]

\* VoidProtocol.Read.  Every read fails at the end of the stream, a body type
\* that wants more than BodyLength bytes included; a type with a magic byte wants
\* to find it.  body is the type read, if any.
Read(f) ==
    LET snlp == f.size >= 4 /\ IsSnlp(f)
        hdr == HeaderLen(IF snlp THEN "snlp" ELSE "ccsds")
        h == CcsdsPrimaryHeader(f, IF snlp THEN 4 ELSE 0)
        length == BodyLength(h)
        body == RootSwitch(length, ByteAt(f, hdr))
    IN  IF \/ f.size < hdr
           \/ snlp /\ ~SnlpHeaderValid(f)
           \/ f.size < hdr + length
           \/ \E t \in body : LayoutLen[t] > length
           \/ "PacketAckBodyCcsds" \in body /\ ByteAt(f, hdr) # MagicPacketAck
          THEN Malformed
          ELSE [err |-> FALSE, snlp |-> snlp, hdr |-> hdr, apid |-> Apid(h),
                version |-> Version(h), body |-> body]
=============================================================================
