------------------------ MODULE IngestDispatchProofs ------------------------
(***************************************************************************)
(* What IngestPacket takes and what it bounces, for every set of sat_ids,    *)
(* every sequence count of the gateway's receipts and any number of flipped   *)
(* bits.                                                                    *)
(***************************************************************************)
EXTENDS IngestDispatch, FiniteSetTheorems, NaturalsInduction, WellFoundedInduction, TLAPS

------------------------------------------------------------------------------
(* The layouts.  Width is computed field by field; here are its values.       *)

\* sums are the offsets at which the fields of layout begin, and its length.
OffsetsOf(layout, sums) ==
    /\ Len(layout) \in Nat /\ sums \in [1..(Len(layout) + 1) -> Nat] /\ sums[1] = 0
    /\ \A i \in 1..Len(layout) : sums[i + 1] = sums[i] + layout[i][2]

(* Offsets that add up are what Width computes.                               *)
LEMMA WidthSteps ==
    ASSUME NEW layout, NEW sums, OffsetsOf(layout, sums)
    PROVE  /\ Width(layout, 0) = 0
           /\ \A n \in 1..Len(layout) : Width(layout, n) = Width(layout, n - 1) + layout[n][2]
<1> DEFINE Def(f) == f = [i \in 0..Len(layout) |-> IF i = 0 THEN 0 ELSE f[i - 1] + layout[i][2]]
           w == CHOOSE f : Def(f)
<1>1. Len(layout) \in Nat
  BY DEF OffsetsOf
<1>2. Def([i \in 0..Len(layout) |-> sums[i + 1]])
  <2> SUFFICES ASSUME NEW i \in 0..Len(layout)
               PROVE  sums[i + 1] = IF i = 0 THEN 0
                                    ELSE [j \in 0..Len(layout) |-> sums[j + 1]][i - 1] + layout[i][2]
    OBVIOUS
  <2>1. CASE i = 0
    BY <2>1 DEF OffsetsOf
  <2>2. CASE i # 0
    <3>1. i \in 1..Len(layout) /\ i - 1 \in 0..Len(layout) /\ i - 1 + 1 = i
      BY <1>1, <2>2
    <3> QED BY <2>2, <3>1 DEF OffsetsOf
  <2> QED BY <2>1, <2>2
<1>3. Def(w)
  <2> HIDE DEF Def
  <2> QED BY <1>2
<1>4. \A n : Width(layout, n) = w[n]
  BY DEF Width
<1> HIDE DEF w
<1>5. w[0] = 0 /\ \A n \in 1..Len(layout) : w[n] = w[n - 1] + layout[n][2]
  BY <1>1, <1>3
<1> QED BY <1>4, <1>5

(* So Width returns them, by the least field for which it would not.          *)
LEMMA WidthIs ==
    ASSUME NEW layout, NEW sums, OffsetsOf(layout, sums)
    PROVE  \A n \in 0..Len(layout) : Width(layout, n) = sums[n + 1] /\ Width(layout, n) \in Nat
<1> DEFINE Bad == {n \in 0..Len(layout) : Width(layout, n) # sums[n + 1]}
           R == {ss \in Nat \X Nat : ss[1] < ss[2]}
<1>1. Len(layout) \in Nat /\ Bad \in SUBSET Nat
  BY DEF OffsetsOf
<1>2. ASSUME Bad # {} PROVE FALSE
  <2>1. IsWellFoundedOn(R, Nat)
    BY NatLessThanWellFounded DEF OpToRel
  <2>2. PICK m \in Bad : \A y \in Bad : ~(<<y, m>> \in R)
    <3> HIDE DEF R, Bad
    <3> QED BY <1>1, <1>2, <2>1, WFMin
  <2>3. m \in 0..Len(layout) /\ Width(layout, m) # sums[m + 1]
    OBVIOUS
  <2>4. m # 0
    BY <2>3, WidthSteps DEF OffsetsOf
  <2>5. m \in 1..Len(layout) /\ m - 1 \in 0..Len(layout) /\ <<m - 1, m>> \in R /\ m - 1 + 1 = m
    BY <1>1, <2>3, <2>4
  <2>6. Width(layout, m - 1) = sums[m]
    <3>1. m - 1 \notin Bad
      <4> HIDE DEF R, Bad
      <4> QED BY <2>2, <2>5
    <3> QED BY <2>5, <3>1
  <2>7. Width(layout, m) = Width(layout, m - 1) + layout[m][2] /\ sums[m + 1] = sums[m] + layout[m][2]
    BY <2>5, WidthSteps DEF OffsetsOf
  <2> QED BY <2>3, <2>6, <2>7
<1>3. ASSUME NEW n \in 0..Len(layout) PROVE sums[n + 1] \in Nat
  <2>1. n + 1 \in 1..(Len(layout) + 1)
    BY <1>1
  <2> QED BY <2>1 DEF OffsetsOf
<1> QED BY <1>2, <1>3

(* The offsets in a heartbeat.                                              *)
LEMMA HeartbeatWidths ==
    /\ Len(HeartbeatBody) = 11 /\ Width(HeartbeatBody, 11) = 34
    /\ \A n \in 0..Len(HeartbeatBody) : Width(HeartbeatBody, n) \in Nat
<1>1. /\ Len(HeartbeatBody) = 11
      /\ HeartbeatBody[1][2] = 2 /\ HeartbeatBody[2][2] = 8 /\ HeartbeatBody[3][2] = 4
      /\ HeartbeatBody[4][2] = 4 /\ HeartbeatBody[5][2] = 4 /\ HeartbeatBody[6][2] = 2
      /\ HeartbeatBody[7][2] = 2 /\ HeartbeatBody[8][2] = 2 /\ HeartbeatBody[9][2] = 1
      /\ HeartbeatBody[10][2] = 1 /\ HeartbeatBody[11][2] = 4
  BY DEF HeartbeatBody
<1>2. PICK sums : sums = <<0, 2, 10, 14, 18, 22, 24, 26, 28, 29, 30, 34>>
  OBVIOUS
<1>3. OffsetsOf(HeartbeatBody, sums)
  BY <1>1, <1>2 DEF OffsetsOf
<1>4. \A n \in 0..Len(HeartbeatBody) : Width(HeartbeatBody, n) = sums[n + 1] /\ Width(HeartbeatBody, n) \in Nat
  BY <1>3, WidthIs
<1>5. Len(HeartbeatBody) = 11
  BY <1>1
<1> QED BY <1>2, <1>4, <1>5

(* The offsets in a PacketA.                                                *)
LEMMA PacketAWidths ==
    /\ Len(PacketABody) = 9 /\ Width(PacketABody, 9) = 66
    /\ \A n \in 0..Len(PacketABody) : Width(PacketABody, n) \in Nat
<1>1. /\ Len(PacketABody) = 9
      /\ PacketABody[1][2] = 2 /\ PacketABody[2][2] = 8 /\ PacketABody[3][2] = 24
      /\ PacketABody[4][2] = 12 /\ PacketABody[5][2] = 4 /\ PacketABody[6][2] = 8
      /\ PacketABody[7][2] = 2 /\ PacketABody[8][2] = 2 /\ PacketABody[9][2] = 4
  BY DEF PacketABody, Vector3d, Vector3f
<1>2. PICK sums : sums = <<0, 2, 10, 34, 46, 50, 58, 60, 62, 66>>
  OBVIOUS
<1>3. OffsetsOf(PacketABody, sums)
  BY <1>1, <1>2 DEF OffsetsOf
<1>4. \A n \in 0..Len(PacketABody) : Width(PacketABody, n) = sums[n + 1] /\ Width(PacketABody, n) \in Nat
  BY <1>3, WidthIs
<1>5. Len(PacketABody) = 9
  BY <1>1
<1> QED BY <1>2, <1>4, <1>5

(* The offsets in a CCSDS ACK.                                              *)
LEMMA PacketAckCcsdsWidths ==
    /\ Len(PacketAckBodyCcsds) = 9 /\ Width(PacketAckBodyCcsds, 9) = 114
    /\ \A n \in 0..Len(PacketAckBodyCcsds) : Width(PacketAckBodyCcsds, n) \in Nat
<1>1. /\ Len(PacketAckBodyCcsds) = 9
      /\ PacketAckBodyCcsds[1][2] = 1 /\ PacketAckBodyCcsds[2][2] = 1 /\ PacketAckBodyCcsds[3][2] = 4
      /\ PacketAckBodyCcsds[4][2] = 1 /\ PacketAckBodyCcsds[5][2] = 1 /\ PacketAckBodyCcsds[6][2] = 12
      /\ PacketAckBodyCcsds[7][2] = 88 /\ PacketAckBodyCcsds[8][2] = 2 /\ PacketAckBodyCcsds[9][2] = 4
  BY DEF PacketAckBodyCcsds, RelayOps
<1>2. PICK sums : sums = <<0, 1, 2, 6, 7, 8, 20, 108, 110, 114>>
  OBVIOUS
<1>3. OffsetsOf(PacketAckBodyCcsds, sums)
  BY <1>1, <1>2 DEF OffsetsOf
<1>4. \A n \in 0..Len(PacketAckBodyCcsds) : Width(PacketAckBodyCcsds, n) = sums[n + 1] /\ Width(PacketAckBodyCcsds, n) \in Nat
  BY <1>3, WidthIs
<1>5. Len(PacketAckBodyCcsds) = 9
  BY <1>1
<1> QED BY <1>2, <1>4, <1>5

(* The offsets in an SNLP ACK.                                              *)
LEMMA PacketAckSnlpWidths ==
    /\ Len(PacketAckBodySnlp) = 9 /\ Width(PacketAckBodySnlp, 9) = 122
    /\ \A n \in 0..Len(PacketAckBodySnlp) : Width(PacketAckBodySnlp, n) \in Nat
<1>1. /\ Len(PacketAckBodySnlp) = 9
      /\ PacketAckBodySnlp[1][2] = 1 /\ PacketAckBodySnlp[2][2] = 1 /\ PacketAckBodySnlp[3][2] = 4
      /\ PacketAckBodySnlp[4][2] = 1 /\ PacketAckBodySnlp[5][2] = 1 /\ PacketAckBodySnlp[6][2] = 12
      /\ PacketAckBodySnlp[7][2] = 96 /\ PacketAckBodySnlp[8][2] = 2 /\ PacketAckBodySnlp[9][2] = 4
  BY DEF PacketAckBodySnlp, RelayOps
<1>2. PICK sums : sums = <<0, 1, 2, 6, 7, 8, 20, 116, 118, 122>>
  OBVIOUS
<1>3. OffsetsOf(PacketAckBodySnlp, sums)
  BY <1>1, <1>2 DEF OffsetsOf
<1>4. \A n \in 0..Len(PacketAckBodySnlp) : Width(PacketAckBodySnlp, n) = sums[n + 1] /\ Width(PacketAckBodySnlp, n) \in Nat
  BY <1>3, WidthIs
<1>5. Len(PacketAckBodySnlp) = 9
  BY <1>1
<1> QED BY <1>2, <1>4, <1>5

(* The offsets in a PacketB.                                                *)
LEMMA PacketBWidths ==
    /\ Len(PacketBBody) = 10 /\ Width(PacketBBody, 1) = 2 /\ Width(PacketBBody, 2) = 10
    /\ Width(PacketBBody, 3) = 34 /\ Width(PacketBBody, 4) = 96 /\ Width(PacketBBody, 5) = 98
    /\ Width(PacketBBody, 6) = 102 /\ Width(PacketBBody, 7) = 106 /\ Width(PacketBBody, 8) = 170
    /\ Width(PacketBBody, 10) = 178
    /\ \A n \in 0..Len(PacketBBody) : Width(PacketBBody, n) \in Nat
<1>1. /\ Len(PacketBBody) = 10
      /\ PacketBBody[1][2] = 2 /\ PacketBBody[2][2] = 8 /\ PacketBBody[3][2] = 24
      /\ PacketBBody[4][2] = 62 /\ PacketBBody[5][2] = 2 /\ PacketBBody[6][2] = 4
      /\ PacketBBody[7][2] = 4 /\ PacketBBody[8][2] = 64 /\ PacketBBody[9][2] = 4
      /\ PacketBBody[10][2] = 4
  BY DEF PacketBBody, Vector3d, Ed25519Signature
<1>2. PICK sums : sums = <<0, 2, 10, 34, 96, 98, 102, 106, 170, 174, 178>>
  OBVIOUS
<1>3. OffsetsOf(PacketBBody, sums)
  BY <1>1, <1>2 DEF OffsetsOf
<1>4. \A n \in 0..Len(PacketBBody) : Width(PacketBBody, n) = sums[n + 1] /\ Width(PacketBBody, n) \in Nat
  BY <1>3, WidthIs
<1>5. Len(PacketBBody) = 10
  BY <1>1
<1> QED BY <1>2, <1>4, <1>5

(* The offsets in a PacketC.                                                *)
LEMMA PacketCWidths ==
    /\ Len(PacketCBody) = 8 /\ Width(PacketCBody, 5) = 26 /\ Width(PacketCBody, 6) = 90
    /\ Width(PacketCBody, 8) = 98
    /\ \A n \in 0..Len(PacketCBody) : Width(PacketCBody, n) \in Nat
<1>1. /\ Len(PacketCBody) = 8
      /\ PacketCBody[1][2] = 2 /\ PacketCBody[2][2] = 8 /\ PacketCBody[3][2] = 8
      /\ PacketCBody[4][2] = 1 /\ PacketCBody[5][2] = 7 /\ PacketCBody[6][2] = 64
      /\ PacketCBody[7][2] = 4 /\ PacketCBody[8][2] = 4
  BY DEF PacketCBody, Ed25519Signature
<1>2. PICK sums : sums = <<0, 2, 10, 18, 19, 26, 90, 94, 98>>
  OBVIOUS
<1>3. OffsetsOf(PacketCBody, sums)
  BY <1>1, <1>2 DEF OffsetsOf
<1>4. \A n \in 0..Len(PacketCBody) : Width(PacketCBody, n) = sums[n + 1] /\ Width(PacketCBody, n) \in Nat
  BY <1>3, WidthIs
<1>5. Len(PacketCBody) = 8
  BY <1>1
<1> QED BY <1>2, <1>4, <1>5

(* The offsets in a PacketD.                                                *)
LEMMA PacketDWidths ==
    /\ Len(PacketDBody) = 7 /\ Width(PacketDBody, 7) = 122
    /\ \A n \in 0..Len(PacketDBody) : Width(PacketDBody, n) \in Nat
<1>1. /\ Len(PacketDBody) = 7
      /\ PacketDBody[1][2] = 1 /\ PacketDBody[2][2] = 1 /\ PacketDBody[3][2] = 8
      /\ PacketDBody[4][2] = 4 /\ PacketDBody[5][2] = 98 /\ PacketDBody[6][2] = 4
      /\ PacketDBody[7][2] = 6
  BY DEF PacketDBody
<1>2. PICK sums : sums = <<0, 1, 2, 10, 14, 112, 116, 122>>
  OBVIOUS
<1>3. OffsetsOf(PacketDBody, sums)
  BY <1>1, <1>2 DEF OffsetsOf
<1>4. \A n \in 0..Len(PacketDBody) : Width(PacketDBody, n) = sums[n + 1] /\ Width(PacketDBody, n) \in Nat
  BY <1>3, WidthIs
<1>5. Len(PacketDBody) = 7
  BY <1>1
<1> QED BY <1>2, <1>4, <1>5

(* The offsets in a PacketH.                                                *)
LEMMA PacketHWidths ==
    /\ Len(PacketHBody) = 4 /\ Width(PacketHBody, 4) = 106
    /\ \A n \in 0..Len(PacketHBody) : Width(PacketHBody, n) \in Nat
<1>1. /\ Len(PacketHBody) = 4
      /\ PacketHBody[1][2] = 2 /\ PacketHBody[2][2] = 8 /\ PacketHBody[3][2] = 32
      /\ PacketHBody[4][2] = 64
  BY DEF PacketHBody, Ed25519Signature, X25519PublicKey
<1>2. PICK sums : sums = <<0, 2, 10, 42, 106>>
  OBVIOUS
<1>3. OffsetsOf(PacketHBody, sums)
  BY <1>1, <1>2 DEF OffsetsOf
<1>4. \A n \in 0..Len(PacketHBody) : Width(PacketHBody, n) = sums[n + 1] /\ Width(PacketHBody, n) \in Nat
  BY <1>3, WidthIs
<1>5. Len(PacketHBody) = 4
  BY <1>1
<1> QED BY <1>2, <1>4, <1>5

(* The types of body.                                                         *)
LEMMA Types ==
    Type = {"HeartbeatBody", "PacketABody", "PacketAckBodyCcsds", "PacketAckBodySnlp",
            "PacketBBody", "PacketCBody", "PacketDBody", "PacketHBody"}
  BY DEF Type, Layout

(* The parser's layouts are as long as the bodies the senders write.          *)
LEMMA LayoutLens == \A t \in Type : LayoutLen[t] = Vector[t].len /\ Vector[t].len \in Nat
<1>1. \A t \in Type : LayoutLen[t] = Width(Layout[t], Len(Layout[t]))
  BY DEF LayoutLen
<1>2. /\ Layout["HeartbeatBody"] = HeartbeatBody /\ Layout["PacketABody"] = PacketABody
      /\ Layout["PacketAckBodyCcsds"] = PacketAckBodyCcsds /\ Layout["PacketAckBodySnlp"] = PacketAckBodySnlp
      /\ Layout["PacketBBody"] = PacketBBody /\ Layout["PacketCBody"] = PacketCBody
      /\ Layout["PacketDBody"] = PacketDBody /\ Layout["PacketHBody"] = PacketHBody
  BY DEF Layout
<1>3. /\ Width(HeartbeatBody, Len(HeartbeatBody)) = 34 /\ Width(PacketABody, Len(PacketABody)) = 66
      /\ Width(PacketAckBodyCcsds, Len(PacketAckBodyCcsds)) = 114
      /\ Width(PacketAckBodySnlp, Len(PacketAckBodySnlp)) = 122
      /\ Width(PacketBBody, Len(PacketBBody)) = 178 /\ Width(PacketCBody, Len(PacketCBody)) = 98
      /\ Width(PacketDBody, Len(PacketDBody)) = 122 /\ Width(PacketHBody, Len(PacketHBody)) = 106
  BY HeartbeatWidths, PacketAWidths, PacketAckCcsdsWidths, PacketAckSnlpWidths, PacketBWidths,
     PacketCWidths, PacketDWidths, PacketHWidths
<1>4. /\ Vector["HeartbeatBody"].len = 34 /\ Vector["PacketABody"].len = 66
      /\ Vector["PacketAckBodyCcsds"].len = 114 /\ Vector["PacketAckBodySnlp"].len = 122
      /\ Vector["PacketBBody"].len = 178 /\ Vector["PacketCBody"].len = 98
      /\ Vector["PacketDBody"].len = 122 /\ Vector["PacketHBody"].len = 106
  BY DEF Vector
<1> QED BY <1>1, <1>2, <1>3, <1>4, Types, SMTT(30)

(* Where the fields stand that the handler takes out of a PacketB.            *)
LEMMA PacketBSpans ==
    /\ FieldSpan["PacketBBody"]["EpochTs"] = <<2, 10>>
    /\ FieldSpan["PacketBBody"]["EncPayload"] = <<34, 96>>
    /\ FieldSpan["PacketBBody"]["SatId"] = <<98, 102>>
    /\ FieldSpan["PacketBBody"]["Signature"] = <<106, 170>>
<1> DEFINE L == PacketBBody
           At(name) == CHOOSE i \in DOMAIN L : L[i][1] = name
<1>1. /\ DOMAIN L = 1..10
      /\ L[1][1] = "PadHead" /\ L[2][1] = "EpochTs" /\ L[3][1] = "PosVec" /\ L[4][1] = "EncPayload"
      /\ L[5][1] = "PreSat" /\ L[6][1] = "SatId" /\ L[7][1] = "PreSig" /\ L[8][1] = "Signature"
      /\ L[9][1] = "GlobalCrc" /\ L[10][1] = "TailPad"
  BY DEF PacketBBody
<1>2. ASSUME NEW name \in {L[i][1] : i \in DOMAIN L}
      PROVE  FieldSpan["PacketBBody"][name] = <<Width(L, At(name) - 1), Width(L, At(name))>>
  <2>1. "PacketBBody" \in Type /\ Layout["PacketBBody"] = L
    BY Types DEF Layout
  <2> HIDE DEF L
  <2> QED BY <2>1 DEF FieldSpan
<1> HIDE DEF L
<1>3. At("EpochTs") = 2 /\ At("EncPayload") = 4 /\ At("SatId") = 6 /\ At("Signature") = 8
  <2>1. /\ \A i \in 1..10 : L[i][1] = "EpochTs" <=> i = 2
        /\ \A i \in 1..10 : L[i][1] = "EncPayload" <=> i = 4
        /\ \A i \in 1..10 : L[i][1] = "SatId" <=> i = 6
        /\ \A i \in 1..10 : L[i][1] = "Signature" <=> i = 8
    BY <1>1
  <2> QED BY <1>1, <2>1
<1>4. {"EpochTs", "EncPayload", "SatId", "Signature"} \subseteq {L[i][1] : i \in DOMAIN L}
  BY <1>1
<1> HIDE DEF At
<1>5. /\ Width(L, 2 - 1) = 2 /\ Width(L, 2) = 10 /\ Width(L, 4 - 1) = 34 /\ Width(L, 4) = 96
      /\ Width(L, 6 - 1) = 98 /\ Width(L, 6) = 102 /\ Width(L, 8 - 1) = 106 /\ Width(L, 8) = 170
  BY PacketBWidths DEF L
<1> QED BY <1>2, <1>3, <1>4, <1>5

(* And where the signature of a PacketC stands.                               *)
LEMMA PacketCSpan == FieldSpan["PacketCBody"]["Signature"] = <<26, 90>>
<1> DEFINE L == PacketCBody
           At(name) == CHOOSE i \in DOMAIN L : L[i][1] = name
<1>1. /\ DOMAIN L = 1..8
      /\ L[1][1] = "PadHead" /\ L[2][1] = "ExecTime" /\ L[3][1] = "EncTxId" /\ L[4][1] = "EncStatus"
      /\ L[5][1] = "PadSig" /\ L[6][1] = "Signature" /\ L[7][1] = "Crc32" /\ L[8][1] = "TailPad"
  BY DEF PacketCBody
<1>2. ASSUME NEW name \in {L[i][1] : i \in DOMAIN L}
      PROVE  FieldSpan["PacketCBody"][name] = <<Width(L, At(name) - 1), Width(L, At(name))>>
  <2>1. "PacketCBody" \in Type /\ Layout["PacketCBody"] = L
    BY Types DEF Layout
  <2> HIDE DEF L
  <2> QED BY <2>1 DEF FieldSpan
<1> HIDE DEF L
<1>3. At("Signature") = 6
  <2>1. \A i \in 1..8 : L[i][1] = "Signature" <=> i = 6
    BY <1>1
  <2> QED BY <1>1, <2>1
<1>4. "Signature" \in {L[i][1] : i \in DOMAIN L}
  BY <1>1
<1> HIDE DEF At
<1>5. Width(L, 6 - 1) = 26 /\ Width(L, 6) = 90
  BY PacketCWidths DEF L
<1> QED BY <1>2, <1>3, <1>4, <1>5

(* Fields begin at a byte.                                                    *)
LEMMA SpansTyped ==
    ASSUME NEW t \in Type, NEW name \in DOMAIN FieldSpan[t]
    PROVE  FieldSpan[t][name][1] \in Nat
<1> DEFINE Names == {Layout[t][i][1] : i \in DOMAIN Layout[t]}
           at == CHOOSE i \in DOMAIN Layout[t] : Layout[t][i][1] = name
<1>1. FieldSpan[t] = [m \in Names |->
                        LET i == CHOOSE i \in DOMAIN Layout[t] : Layout[t][i][1] = m
                        IN  <<Width(Layout[t], i - 1), Width(Layout[t], i)>>]
  BY DEF FieldSpan
<1>2. name \in Names
  BY <1>1
<1>3. FieldSpan[t][name][1] = Width(Layout[t], at - 1)
  BY <1>1, <1>2
<1>4. at \in DOMAIN Layout[t]
  BY <1>2
<1>5. /\ DOMAIN Layout[t] = 1..Len(Layout[t]) /\ Len(Layout[t]) \in Nat
      /\ \A n \in 0..Len(Layout[t]) : Width(Layout[t], n) \in Nat
  <2>1. /\ Layout["HeartbeatBody"] = HeartbeatBody /\ Layout["PacketABody"] = PacketABody
        /\ Layout["PacketAckBodyCcsds"] = PacketAckBodyCcsds /\ Layout["PacketAckBodySnlp"] = PacketAckBodySnlp
        /\ Layout["PacketBBody"] = PacketBBody /\ Layout["PacketCBody"] = PacketCBody
        /\ Layout["PacketDBody"] = PacketDBody /\ Layout["PacketHBody"] = PacketHBody
    BY DEF Layout
  <2>2. \A n \in 0..Len(Layout[t]) : Width(Layout[t], n) \in Nat
    BY <2>1, Types, HeartbeatWidths, PacketAWidths, PacketAckCcsdsWidths, PacketAckSnlpWidths,
       PacketBWidths, PacketCWidths, PacketDWidths, PacketHWidths, ZenonT(40)
  <2>3. /\ DOMAIN HeartbeatBody = 1..Len(HeartbeatBody) /\ Len(HeartbeatBody) \in Nat
        /\ DOMAIN PacketABody = 1..Len(PacketABody) /\ Len(PacketABody) \in Nat
        /\ DOMAIN PacketAckBodyCcsds = 1..Len(PacketAckBodyCcsds) /\ Len(PacketAckBodyCcsds) \in Nat
        /\ DOMAIN PacketAckBodySnlp = 1..Len(PacketAckBodySnlp) /\ Len(PacketAckBodySnlp) \in Nat
    BY DEF HeartbeatBody, PacketABody, PacketAckBodyCcsds, PacketAckBodySnlp
  <2>4. /\ DOMAIN PacketBBody = 1..Len(PacketBBody) /\ Len(PacketBBody) \in Nat
        /\ DOMAIN PacketCBody = 1..Len(PacketCBody) /\ Len(PacketCBody) \in Nat
        /\ DOMAIN PacketDBody = 1..Len(PacketDBody) /\ Len(PacketDBody) \in Nat
        /\ DOMAIN PacketHBody = 1..Len(PacketHBody) /\ Len(PacketHBody) \in Nat
    BY DEF PacketBBody, PacketCBody, PacketDBody, PacketHBody
  <2> QED BY <2>1, <2>2, <2>3, <2>4, Types
<1> HIDE DEF at
<1>6. at - 1 \in 0..Len(Layout[t])
  BY <1>4, <1>5
<1> QED BY <1>3, <1>5, <1>6

------------------------------------------------------------------------------
(* What senders write, byte by byte.                                          *)

\* The first word of the CCSDS header.
IdField(t) == 4096 * Vector[t].cmd + 2048 + Vector[t].apid

\* Body offset 0, the byte by which Dispatch122 and the handler tell types apart.
Magic(t) == BodyHead(t)[1]

(* The table of bodies.                                                       *)
LEMMA VectorTyped ==
    ASSUME NEW t \in Type
    PROVE  /\ Vector[t].len \in 34..178 /\ Vector[t].apid \in {100, 101} /\ Vector[t].cmd \in {0, 1}
           /\ IdField(t) \in 2048..6245 /\ IdField(t) \in Nat
<1>1. /\ Vector["HeartbeatBody"].len = 34 /\ Vector["HeartbeatBody"].apid = 101 /\ Vector["HeartbeatBody"].cmd = 0
      /\ Vector["PacketABody"].len = 66 /\ Vector["PacketABody"].apid = 100 /\ Vector["PacketABody"].cmd = 0
      /\ Vector["PacketAckBodyCcsds"].len = 114 /\ Vector["PacketAckBodyCcsds"].apid = 101 /\ Vector["PacketAckBodyCcsds"].cmd = 1
      /\ Vector["PacketAckBodySnlp"].len = 122 /\ Vector["PacketAckBodySnlp"].apid = 101 /\ Vector["PacketAckBodySnlp"].cmd = 1
      /\ Vector["PacketBBody"].len = 178 /\ Vector["PacketBBody"].apid = 101 /\ Vector["PacketBBody"].cmd = 0
      /\ Vector["PacketCBody"].len = 98 /\ Vector["PacketCBody"].apid = 100 /\ Vector["PacketCBody"].cmd = 0
      /\ Vector["PacketDBody"].len = 122 /\ Vector["PacketDBody"].apid = 101 /\ Vector["PacketDBody"].cmd = 0
      /\ Vector["PacketHBody"].len = 106 /\ Vector["PacketHBody"].apid = 101 /\ Vector["PacketHBody"].cmd = 0
  BY DEF Vector, apidSatA, apidSatB
<1>2. Vector[t].len \in 34..178 /\ Vector[t].apid \in {100, 101} /\ Vector[t].cmd \in {0, 1}
  BY <1>1, Types
<1> DEFINE cmd == Vector[t].cmd
           apid == Vector[t].apid
<1>3. IdField(t) = 4096 * cmd + 2048 + apid
  BY DEF IdField
<1>4. cmd \in {0, 1} /\ apid \in {100, 101}
  BY <1>2
<1> HIDE DEF cmd, apid
<1>5. 4096 * cmd \in {0, 4096}
  BY <1>4
<1>6. IdField(t) \in 2048..6245 /\ IdField(t) \in Nat
  BY <1>3, <1>4, <1>5
<1> QED BY <1>2, <1>6

(* One sequence of bytes after the other.                                     *)
LEMMA Joined ==
    ASSUME NEW u \in Seq(Int), NEW v \in Seq(Int)
    PROVE  /\ u \o v \in Seq(Int) /\ Len(u \o v) = Len(u) + Len(v)
           /\ \A i \in 1..Len(u) : (u \o v)[i] = u[i]
           /\ \A i \in 1..Len(v) : (u \o v)[Len(u) + i] = v[i]
<1>1. Len(u) \in Nat /\ Len(v) \in Nat
  OBVIOUS
<1>2. u \o v \in Seq(Int) /\ Len(u \o v) = Len(u) + Len(v)
  OBVIOUS
<1>3. \A i \in 1..Len(u) : (u \o v)[i] = u[i]
  OBVIOUS
<1>4. \A i \in 1..Len(v) : (u \o v)[Len(u) + i] = v[i]
  BY <1>1
<1> QED BY <1>2, <1>3, <1>4

(* The first nine bytes of a body.                                            *)
LEMMA BodyHeads ==
    ASSUME NEW t \in Type
    PROVE  /\ \A i \in 1..9 : BodyHead(t)[i] \in Int
           /\ t = "PacketDBody" => Magic(t) = 208
           /\ t \in {"PacketAckBodyCcsds", "PacketAckBodySnlp"} => Magic(t) = 172
<1> DEFINE E == EpochBytes
<1>1. ASSUME NEW a \in Int, NEW b \in Int
      PROVE  (<<a, b>> \o E)[1] = a /\ \A i \in 1..9 : (<<a, b>> \o E)[i] \in Int
  <2>1. E \in Seq(Int) /\ Len(E) = 7
    BY DEF EpochBytes
  <2> HIDE DEF E
  <2>2. <<a, b>> \in Seq(Int) /\ Len(<<a, b>>) = 2 /\ <<a, b>>[1] = a
    OBVIOUS
  <2>3. PICK u : u = <<a, b>>
    OBVIOUS
  <2>4. PICK j : j = u \o E
    OBVIOUS
  <2>5. /\ j \in Seq(Int) /\ Len(j) = Len(u) + Len(E)
        /\ \A i \in 1..Len(u) : j[i] = u[i]
    BY <2>1, <2>2, <2>3, <2>4, Joined
  <2>6. Len(u) = 2 /\ u[1] = a /\ Len(E) = 7
    BY <2>1, <2>2, <2>3, Zenon
  <2>7. Len(j) = 9 /\ 1 \in 1..Len(u)
    BY <2>5, <2>6
  <2>8. \A i \in 1..Len(j) : j[i] \in Int
    BY <2>5
  <2>9. j[1] = a /\ \A i \in 1..9 : j[i] \in Int
    BY <2>5, <2>6, <2>7, <2>8, Zenon
  <2> QED BY <2>3, <2>4, <2>9, Zenon
<1> HIDE DEF E
<1>2. CASE t = "PacketDBody"
  <2>1. BodyHead(t) = <<208, 0>> \o E
    BY <1>2 DEF BodyHead, MagicPacketD, E
  <2>2. (<<208, 0>> \o E)[1] = 208 /\ \A i \in 1..9 : (<<208, 0>> \o E)[i] \in Int
    <3>1. 208 \in Int /\ 0 \in Int
      OBVIOUS
    <3> QED BY <1>1, <3>1, ZenonT(40)
  <2>3. BodyHead(t)[1] = 208 /\ \A i \in 1..9 : BodyHead(t)[i] \in Int
    BY <2>1, <2>2, ZenonT(40)
  <2> QED BY <1>2, <2>3 DEF Magic
<1>3. CASE t \in {"PacketAckBodyCcsds", "PacketAckBodySnlp"}
  <2>1. BodyHead(t) = <<172, 0, 190, 186, 254, 202, 1, 0, 180>>
    BY <1>3 DEF BodyHead, MagicPacketAck
  <2> QED BY <1>3, <2>1 DEF Magic
<1>4. CASE t = "PacketHBody"
  <2>1. BodyHead(t) = <<132, 3>> \o E
    BY <1>4 DEF BodyHead, E
  <2> QED BY <1>1, <1>4, <2>1, 132 \in Int, 3 \in Int, ZenonT(40)
<1>5. CASE t \notin {"PacketDBody", "PacketAckBodyCcsds", "PacketAckBodySnlp", "PacketHBody"}
  <2>1. BodyHead(t) = <<0, 0>> \o E
    BY <1>5 DEF BodyHead, E
  <2> QED BY <1>1, <1>5, <2>1, 0 \in Int
<1> QED BY <1>2, <1>3, <1>4, <1>5

\* What the parser reads in the six bytes of a CCSDS header, and in the
\* fourteen of an SNLP header.
IsCcsdsHeader(h, id, len) ==
    /\ \A i \in 1..6 : h[i] \in Int
    /\ 256 * h[1] + h[2] = id /\ 256 * h[5] + h[6] = len

IsSnlpHeader(h, id, len) ==
    /\ \A i \in 1..14 : h[i] \in Int
    /\ 256 * h[1] + h[2] = 7425 /\ 256 * h[3] + h[4] = 42405
    /\ 256 * h[5] + h[6] = id /\ 256 * h[9] + h[10] = len
    /\ 256 * h[11] + h[12] = 0 /\ 256 * h[13] + h[14] = 0

(* Identification, sequence word and length make a CCSDS header.              *)
LEMMA CcsdsBytes ==
    ASSUME NEW id \in Nat, NEW seq \in Nat, NEW len \in Nat,
           NEW h, h = PutU2be(id) \o PutU2be(seq) \o PutU2be(len)
    PROVE  h \in Seq(Int) /\ Len(h) = 6 /\ IsCcsdsHeader(h, id, len)
<1>1. \A w \in Nat : w \div 256 \in Int /\ w % 256 \in Int /\ 256 * (w \div 256) + (w % 256) = w
  OBVIOUS
<1>2. /\ h \in Seq(Int) /\ Len(h) = 6
      /\ h[1] = id \div 256 /\ h[2] = id % 256 /\ h[3] = seq \div 256 /\ h[4] = seq % 256
      /\ h[5] = len \div 256 /\ h[6] = len % 256
  <2>1. PICK a, b, c : a = PutU2be(id) /\ b = PutU2be(seq) /\ c = PutU2be(len)
    OBVIOUS
  <2>2. /\ a \in Seq(Int) /\ Len(a) = 2 /\ a[1] = id \div 256 /\ a[2] = id % 256
        /\ b \in Seq(Int) /\ Len(b) = 2 /\ b[1] = seq \div 256 /\ b[2] = seq % 256
        /\ c \in Seq(Int) /\ Len(c) = 2 /\ c[1] = len \div 256 /\ c[2] = len % 256
    <3>1. ASSUME NEW w \in Nat, NEW x, x = PutU2be(w)
          PROVE  x \in Seq(Int) /\ Len(x) = 2 /\ x[1] = w \div 256 /\ x[2] = w % 256
      BY <3>1 DEF PutU2be
    <3> QED BY <2>1, <3>1
  <2>3. PICK d : d = a \o b
    OBVIOUS
  <2>4. /\ d \in Seq(Int) /\ Len(d) = 4
        /\ d[1] = a[1] /\ d[2] = a[2] /\ d[3] = b[1] /\ d[4] = b[2]
    <3>1. /\ d \in Seq(Int) /\ Len(d) = Len(a) + Len(b) /\ \A i \in 1..Len(a) : d[i] = a[i]
          /\ \A i \in 1..Len(b) : d[Len(a) + i] = b[i]
      <4>1. a \in Seq(Int) /\ b \in Seq(Int)
        BY <2>2
      <4>2. /\ a \o b \in Seq(Int) /\ Len(a \o b) = Len(a) + Len(b)
            /\ \A i \in 1..Len(a) : (a \o b)[i] = a[i]
            /\ \A i \in 1..Len(b) : (a \o b)[Len(a) + i] = b[i]
        BY <4>1, Joined
      <4> QED BY <4>2, <2>3, Zenon
    <3>2. Len(a) = 2 /\ Len(b) = 2
      BY <2>2
    <3>3. /\ Len(d) = 2 + 2 /\ \A i \in 1..2 : d[i] = a[i]
          /\ \A i \in 1..2 : d[2 + i] = b[i]
      BY <3>1, <3>2, Zenon
    <3>4. 1 \in 1..2 /\ 2 \in 1..2 /\ 2 + 1 = 3 /\ 2 + 2 = 4
      OBVIOUS
    <3>5. Len(d) = 4 /\ d[1] = a[1] /\ d[2] = a[2]
      BY <3>3, <3>4, Zenon
    <3>6. d[2 + 1] = b[1] /\ d[2 + 2] = b[2]
      BY <3>3, <3>4, Zenon
    <3>7. d[3] = b[1] /\ d[4] = b[2]
      BY <3>4, <3>6, Zenon
    <3> QED BY <3>1, <3>5, <3>7, Zenon
  <2>5. h = d \o c
    BY <2>1, <2>3, Zenon
  <2>6. /\ h \in Seq(Int) /\ Len(h) = 6
        /\ h[1] = d[1] /\ h[2] = d[2] /\ h[3] = d[3] /\ h[4] = d[4] /\ h[5] = c[1] /\ h[6] = c[2]
    <3>1. /\ h \in Seq(Int) /\ Len(h) = Len(d) + Len(c) /\ \A i \in 1..Len(d) : h[i] = d[i]
          /\ \A i \in 1..Len(c) : h[Len(d) + i] = c[i]
      <4>1. d \in Seq(Int) /\ c \in Seq(Int)
        BY <2>2, <2>4
      <4>2. /\ d \o c \in Seq(Int) /\ Len(d \o c) = Len(d) + Len(c)
            /\ \A i \in 1..Len(d) : (d \o c)[i] = d[i]
            /\ \A i \in 1..Len(c) : (d \o c)[Len(d) + i] = c[i]
        BY <4>1, Joined
      <4> QED BY <4>2, <2>5, Zenon
    <3>2. Len(d) = 4 /\ Len(c) = 2
      BY <2>2, <2>4
    <3>3. /\ Len(h) = 4 + 2 /\ \A i \in 1..4 : h[i] = d[i]
          /\ \A i \in 1..2 : h[4 + i] = c[i]
      BY <3>1, <3>2, Zenon
    <3>4. /\ 1 \in 1..4 /\ 2 \in 1..4 /\ 3 \in 1..4 /\ 4 \in 1..4
          /\ 1 \in 1..2 /\ 2 \in 1..2 /\ 4 + 1 = 5 /\ 4 + 2 = 6
      OBVIOUS
    <3>5. Len(h) = 6 /\ h[1] = d[1] /\ h[2] = d[2] /\ h[3] = d[3] /\ h[4] = d[4]
      BY <3>3, <3>4, Zenon
    <3>6. h[4 + 1] = c[1] /\ h[4 + 2] = c[2]
      BY <3>3, <3>4, Zenon
    <3>7. h[5] = c[1] /\ h[6] = c[2]
      BY <3>4, <3>6, Zenon
    <3> QED BY <3>1, <3>5, <3>7, Zenon
  <2> QED BY <2>2, <2>4, <2>6, ZenonT(40)
<1>3. h[1] \in Int /\ h[2] \in Int /\ h[3] \in Int /\ h[4] \in Int /\ h[5] \in Int /\ h[6] \in Int
  <2>1. /\ id \div 256 \in Int /\ id % 256 \in Int /\ seq \div 256 \in Int /\ seq % 256 \in Int
        /\ len \div 256 \in Int /\ len % 256 \in Int
    BY <1>1, ZenonT(40)
  <2> QED BY <1>2, <2>1, ZenonT(40)
<1>4. \A i \in 1..6 : i = 1 \/ i = 2 \/ i = 3 \/ i = 4 \/ i = 5 \/ i = 6
  OBVIOUS
<1>5. \A i \in 1..6 : h[i] \in Int
  BY <1>3, <1>4, Zenon
<1>6. 256 * h[1] + h[2] = id /\ 256 * h[5] + h[6] = len
  <2>1. 256 * (id \div 256) + (id % 256) = id /\ 256 * (len \div 256) + (len % 256) = len
    BY <1>1, Zenon
  <2> QED BY <1>2, <2>1, ZenonT(40)
<1> QED BY <1>2, <1>5, <1>6, Zenon DEF IsCcsdsHeader

(* The sync word and the padding around it make an SNLP header.               *)
LEMMA SnlpBytes ==
    ASSUME NEW id, NEW len, NEW c \in Seq(Int), Len(c) = 6, IsCcsdsHeader(c, id, len),
           NEW h, h = SyncWord \o c \o <<0, 0, 0, 0>>
    PROVE  IsSnlpHeader(h, id, len)
<1> DEFINE S == SyncWord
           Z == <<0, 0, 0, 0>>
<1>1. /\ S \in Seq(Int) /\ Len(S) = 4 /\ S[1] = 29 /\ S[2] = 1 /\ S[3] = 165 /\ S[4] = 165
      /\ Z \in Seq(Int) /\ Len(Z) = 4 /\ Z[1] = 0 /\ Z[2] = 0 /\ Z[3] = 0 /\ Z[4] = 0
  BY DEF SyncWord
<1> HIDE DEF S, Z
<1> DEFINE d == S \o c
<1>2. /\ d \in Seq(Int) /\ Len(d) = 10 /\ \A i \in 1..4 : d[i] = S[i]
      /\ \A i \in 1..6 : d[4 + i] = c[i]
  <2>1. /\ d \in Seq(Int) /\ Len(d) = Len(S) + Len(c) /\ \A i \in 1..Len(S) : d[i] = S[i]
        /\ \A i \in 1..Len(c) : d[Len(S) + i] = c[i]
    <3>1. S \in Seq(Int) /\ c \in Seq(Int)
      BY <1>1
    <3> QED BY <3>1, Joined
  <2>2. Len(S) = 4 /\ Len(c) = 6
    BY <1>1
  <2> HIDE DEF d
  <2> QED BY <2>1, <2>2
<1> HIDE DEF d
<1> DEFINE e == d \o Z
<1>3. /\ \A i \in 1..10 : e[i] = d[i]
      /\ \A i \in 1..4 : e[10 + i] = Z[i]
  <2>1. /\ \A i \in 1..Len(d) : e[i] = d[i]
        /\ \A i \in 1..Len(Z) : e[Len(d) + i] = Z[i]
    <3>1. d \in Seq(Int) /\ Z \in Seq(Int)
      BY <1>1, <1>2
    <3> QED BY <3>1, Joined
  <2>2. Len(d) = 10 /\ Len(Z) = 4
    BY <1>1, <1>2
  <2> HIDE DEF e
  <2> QED BY <2>1, <2>2
<1>4. h = e
  BY DEF S, Z, d, e
<1> HIDE DEF e
<1>5. e[1] = 29 /\ e[2] = 1 /\ e[3] = 165 /\ e[4] = 165
  BY <1>1, <1>2, <1>3
<1>6. e[5] = c[1] /\ e[6] = c[2] /\ e[7] = c[3] /\ e[8] = c[4] /\ e[9] = c[5] /\ e[10] = c[6]
  <2>1. \A i \in 1..6 : 4 + i \in 1..10
    OBVIOUS
  <2>2. \A i \in 1..6 : e[4 + i] = c[i]
    BY <1>2, <1>3, <2>1, Zenon
  <2>3. /\ e[4 + 1] = c[1] /\ e[4 + 2] = c[2] /\ e[4 + 3] = c[3]
        /\ e[4 + 4] = c[4] /\ e[4 + 5] = c[5] /\ e[4 + 6] = c[6]
    BY <2>2
  <2> QED BY <2>3
<1>7. e[11] = 0 /\ e[12] = 0 /\ e[13] = 0 /\ e[14] = 0
  <2>1. e[10 + 1] = Z[1] /\ e[10 + 2] = Z[2] /\ e[10 + 3] = Z[3] /\ e[10 + 4] = Z[4]
    BY <1>3
  <2>2. Z[1] = 0 /\ Z[2] = 0 /\ Z[3] = 0 /\ Z[4] = 0
    BY <1>1
  <2> QED BY <2>1, <2>2
<1>8. ASSUME \A i \in 1..6 : c[i] \in Int, 256 * c[1] + c[2] = id, 256 * c[5] + c[6] = len
      PROVE  IsSnlpHeader(e, id, len)
  <2>1. PICK g : g = e
    OBVIOUS
  <2>2. \A i \in 1..14 : \/ i = 1 \/ i = 2 \/ i = 3 \/ i = 4 \/ i = 5 \/ i = 6 \/ i = 7
                        \/ i = 8 \/ i = 9 \/ i = 10 \/ i = 11 \/ i = 12 \/ i = 13 \/ i = 14
    OBVIOUS
  <2>3. /\ c[1] \in Int /\ c[2] \in Int /\ c[3] \in Int /\ c[4] \in Int /\ c[5] \in Int /\ c[6] \in Int
        /\ 0 \in Int /\ 29 \in Int /\ 1 \in Int /\ 165 \in Int
    BY <1>8
  <2>4. \A i \in 1..14 : e[i] \in Int
    <3>1. /\ e[1] \in Int /\ e[2] \in Int /\ e[3] \in Int /\ e[4] \in Int /\ e[5] \in Int
          /\ e[6] \in Int /\ e[7] \in Int /\ e[8] \in Int /\ e[9] \in Int /\ e[10] \in Int
          /\ e[11] \in Int /\ e[12] \in Int /\ e[13] \in Int /\ e[14] \in Int
      BY <1>5, <1>6, <1>7, <2>3, ZenonT(40)
    <3> QED BY <2>2, <3>1, Zenon
  <2>5. /\ 256 * e[1] + e[2] = 7425 /\ 256 * e[3] + e[4] = 42405
        /\ 256 * e[11] + e[12] = 0 /\ 256 * e[13] + e[14] = 0
    BY <1>5, <1>7
  <2>6. 256 * e[5] + e[6] = id /\ 256 * e[9] + e[10] = len
    BY <1>6, <1>8, Zenon
  <2> QED BY <2>4, <2>5, <2>6 DEF IsSnlpHeader
<1>9. IsSnlpHeader(e, id, len)
  BY <1>8 DEF IsCcsdsHeader
<1> QED BY <1>4, <1>9

(* The two functions that write SNLP headers agree on what the parser reads.  *)
LEMMA HeaderBytesAre ==
    ASSUME NEW t \in Type, NEW tier \in {"ccsds", "snlp"}, NEW n \in Nat
    PROVE  \E seq \in Nat :
             LET c == PutU2be(IdField(t)) \o PutU2be(seq) \o PutU2be(Vector[t].len - 1) IN
             HeaderBytes(t, tier, n) = IF tier = "snlp" THEN SyncWord \o c \o <<0, 0, 0, 0>> ELSE c
<1>1. /\ Vector[t].len \in 34..178 /\ Vector[t].apid \in {100, 101} /\ Vector[t].cmd \in {0, 1}
      /\ IdField(t) = (Vector[t].cmd * 4096 + 2048) + (Vector[t].apid % 2048)
  <2>1. Vector[t].len \in 34..178 /\ Vector[t].apid \in {100, 101} /\ Vector[t].cmd \in {0, 1}
    BY VectorTyped
  <2> QED BY <2>1 DEF IdField
<1>2. CASE t = "PacketCBody" /\ tier = "snlp"
  <2>1. IdField(t) = 2048 + (100 % 2048) /\ Vector[t].len = 98
    BY <1>2 DEF IdField, Vector, apidSatA
  <2> DEFINE seq == 49152 + (n % 16384)
  <2>2. seq \in Nat
    OBVIOUS
  <2>3. HeaderBytes(t, tier, n)
          = SyncWord \o PutU2be(IdField(t)) \o PutU2be(seq) \o PutU2be(Vector[t].len - 1) \o <<0, 0, 0, 0>>
    BY <1>2, <2>1 DEF HeaderBytes, writeSNLPHeader, apidSatA
  <2> HIDE DEF seq
  <2>4. SyncWord \o PutU2be(IdField(t)) \o PutU2be(seq) \o PutU2be(Vector[t].len - 1)
          = SyncWord \o (PutU2be(IdField(t)) \o PutU2be(seq) \o PutU2be(Vector[t].len - 1))
    BY <1>1, <2>2, VectorTyped DEF PutU2be, SyncWord
  <2> QED BY <1>2, <2>2, <2>3, <2>4, Zenon
<1>3. CASE ~(t = "PacketCBody" /\ tier = "snlp")
  <2>1. HeaderBytes(t, tier, n) = buildHeader(tier, Vector[t].len, Vector[t].apid, Vector[t].cmd)
    BY <1>3 DEF HeaderBytes
  <2> QED BY <1>1, <2>1 DEF buildHeader
<1> QED BY <1>2, <1>3

(* So the parser finds identification and length in either.                   *)
LEMMA HeadersAre ==
    ASSUME NEW t \in Type, NEW n \in Nat
    PROVE  /\ IsCcsdsHeader(HeaderBytes(t, "ccsds", n), IdField(t), Vector[t].len - 1)
           /\ IsSnlpHeader(HeaderBytes(t, "snlp", n), IdField(t), Vector[t].len - 1)
<1>1. PICK id \in Nat, len \in Nat : id = IdField(t) /\ len = Vector[t].len - 1
  BY VectorTyped
<1>2. IsCcsdsHeader(HeaderBytes(t, "ccsds", n), id, len)
  <2>1. PICK seq \in Nat : HeaderBytes(t, "ccsds", n) = PutU2be(id) \o PutU2be(seq) \o PutU2be(len)
    BY <1>1, HeaderBytesAre
  <2> QED BY <2>1, CcsdsBytes
<1>3. IsSnlpHeader(HeaderBytes(t, "snlp", n), id, len)
  <2>1. PICK seq \in Nat :
          HeaderBytes(t, "snlp", n) = SyncWord \o (PutU2be(id) \o PutU2be(seq) \o PutU2be(len)) \o <<0, 0, 0, 0>>
    BY <1>1, HeaderBytesAre
  <2>2. PICK c : c = PutU2be(id) \o PutU2be(seq) \o PutU2be(len)
    OBVIOUS
  <2>3. c \in Seq(Int) /\ Len(c) = 6 /\ IsCcsdsHeader(c, id, len)
    BY <2>2, CcsdsBytes
  <2> QED BY <2>1, <2>2, <2>3, SnlpBytes
<1> QED BY <1>1, <1>2, <1>3

(* A frame of the CCSDS tier as it leaves its sender.                         *)
LEMMA SentCcsds ==
    ASSUME NEW t \in Type, NEW n \in Nat, NEW b, b = SentBytes(t, "ccsds", n)
    PROVE  /\ b \in [1..15 -> Int]
           /\ 256 * b[1] + b[2] = IdField(t) /\ 256 * b[5] + b[6] = Vector[t].len - 1
           /\ b[7] = Magic(t)
<1>3. PICK h : h = HeaderBytes(t, "ccsds", n)
  OBVIOUS
<1>4. /\ \A i \in 1..6 : h[i] \in Int
      /\ 256 * h[1] + h[2] = IdField(t) /\ 256 * h[5] + h[6] = Vector[t].len - 1
  BY <1>3, HeadersAre DEF IsCcsdsHeader
<1>5. b = [i \in 1..15 |-> IF i <= 6 THEN h[i] ELSE BodyHead(t)[i - 6]]
  BY <1>3 DEF SentBytes, HeaderLen, CCSDSHeaderLen, SNLPHeaderLen
<1>6. b \in [1..15 -> Int]
  <2>2. \A i \in 1..6 : h[i] \in Int
    BY <1>4
  <2>3. \A i \in 1..9 : BodyHead(t)[i] \in Int
    BY BodyHeads
  <2>4. ASSUME NEW i \in 1..15 PROVE (IF i <= 6 THEN h[i] ELSE BodyHead(t)[i - 6]) \in Int
    <3>1. i \in 1..6 \/ (~(i <= 6) /\ i - 6 \in 1..9)
      OBVIOUS
    <3> QED BY <2>2, <2>3, <3>1
  <2> QED BY <1>5, <2>4
<1>7. b[1] = h[1] /\ b[2] = h[2] /\ b[5] = h[5] /\ b[6] = h[6] /\ b[7] = BodyHead(t)[1]
  BY <1>5
<1> QED BY <1>4, <1>6, <1>7 DEF Magic

(* And one of the SNLP tier.                                                  *)
LEMMA SentSnlp ==
    ASSUME NEW t \in Type, NEW n \in Nat, NEW b, b = SentBytes(t, "snlp", n)
    PROVE  /\ b \in [1..15 -> Int]
           /\ 256 * b[1] + b[2] = 7425 /\ 256 * b[3] + b[4] = 42405
           /\ 256 * b[5] + b[6] = IdField(t) /\ 256 * b[9] + b[10] = Vector[t].len - 1
           /\ 256 * b[11] + b[12] = 0 /\ 256 * b[13] + b[14] = 0
           /\ b[15] = Magic(t)
<1>4. PICK h : h = HeaderBytes(t, "snlp", n)
  OBVIOUS
<1>5. /\ \A i \in 1..14 : h[i] \in Int
      /\ 256 * h[1] + h[2] = 7425 /\ 256 * h[3] + h[4] = 42405
      /\ 256 * h[5] + h[6] = IdField(t) /\ 256 * h[9] + h[10] = Vector[t].len - 1
      /\ 256 * h[11] + h[12] = 0 /\ 256 * h[13] + h[14] = 0
  BY <1>4, HeadersAre DEF IsSnlpHeader
<1>6. b = [i \in 1..15 |-> IF i <= 14 THEN h[i] ELSE BodyHead(t)[i - 14]]
  BY <1>4 DEF SentBytes, HeaderLen, CCSDSHeaderLen, SNLPHeaderLen
<1>7. b \in [1..15 -> Int]
  <2>2. \A i \in 1..14 : h[i] \in Int
    BY <1>5
  <2>3. BodyHead(t)[1] \in Int
    BY BodyHeads
  <2>4. ASSUME NEW i \in 1..15 PROVE (IF i <= 14 THEN h[i] ELSE BodyHead(t)[i - 14]) \in Int
    <3>1. i \in 1..14 \/ (~(i <= 14) /\ i - 14 = 1)
      OBVIOUS
    <3> QED BY <2>2, <2>3, <3>1
  <2> QED BY <1>6, <2>4
<1>8. /\ b[1] = h[1] /\ b[2] = h[2] /\ b[3] = h[3] /\ b[4] = h[4] /\ b[5] = h[5] /\ b[6] = h[6]
      /\ b[9] = h[9] /\ b[10] = h[10] /\ b[11] = h[11] /\ b[12] = h[12] /\ b[13] = h[13] /\ b[14] = h[14]
      /\ b[15] = BodyHead(t)[1]
  BY <1>6
<1> QED BY <1>5, <1>7, <1>8 DEF Magic

------------------------------------------------------------------------------
(* What the parser returns.                                                   *)

\* A frame on the wire: built by one of the senders, bits flipped within the
\* bound, every byte without a flip as it was sent.
FrameTyped(f) ==
    f \in [type : Type, tier : {"ccsds", "snlp"}, sat : Sats \cup {"none"},
           bytes : [1..15 -> Int], size : Nat, flips : SUBSET (Nat \X (0..7))]

BytesAsSent(f) ==
    \E n \in Nat : \A i \in 1..15 :
        (\A s \in f.flips : s[1] # i - 1) => f.bytes[i] = SentBytes(f.type, f.tier, n)[i]

FrameOK(f) ==
    /\ FrameTyped(f)
    /\ f.tier \in TiersOf(f.type)
    /\ IsFiniteSet(f.flips) /\ f.flips \subseteq FlipSites(f)
    /\ BytesAsSent(f)
    /\ Faults(f) \in 0..MaxFaults

(* The switch finds one type of body, of the length in the header, or none.   *)
LEMMA RootShape ==
    ASSUME NEW length \in Int, NEW magic
    PROVE  \/ RootSwitch(length, magic) = {}
           \/ \E t \in Type : RootSwitch(length, magic) = {t}
<1>1. /\ "HeartbeatBody" \in Type /\ "PacketABody" \in Type /\ "PacketAckBodyCcsds" \in Type
      /\ "PacketAckBodySnlp" \in Type /\ "PacketBBody" \in Type /\ "PacketCBody" \in Type
      /\ "PacketDBody" \in Type /\ "PacketHBody" \in Type
  BY Types
<1>2. Dispatch122(magic) = {} \/ Dispatch122(magic) = {"PacketAckBodySnlp"} \/ Dispatch122(magic) = {"PacketDBody"}
  BY DEF Dispatch122
<1>3. \/ RootSwitch(length, magic) = {"HeartbeatBody"} \/ RootSwitch(length, magic) = {"PacketABody"}
      \/ RootSwitch(length, magic) = {"PacketCBody"} \/ RootSwitch(length, magic) = {"PacketHBody"}
      \/ RootSwitch(length, magic) = {"PacketAckBodyCcsds"} \/ RootSwitch(length, magic) = Dispatch122(magic)
      \/ RootSwitch(length, magic) = {"PacketBBody"} \/ RootSwitch(length, magic) = {}
  BY DEF RootSwitch
<1> QED BY <1>1, <1>2, <1>3, Zenon

(* The words the parser reads are numbers.                                    *)
LEMMA WordsTyped ==
    ASSUME NEW f, FrameTyped(f), NEW at \in 0..13
    PROVE  U2beAt(f, at) \in Int
<1>1. f.bytes \in [1..15 -> Int]
  BY DEF FrameTyped
<1>2. at + 1 \in 1..15 /\ at + 1 + 1 \in 1..15
  OBVIOUS
<1>3. f.bytes[at + 1] \in Int /\ f.bytes[at + 1 + 1] \in Int
  BY <1>1, <1>2
<1> QED BY <1>3 DEF U2beAt, ByteAt

(* A frame that is read holds the whole body it is read as.                   *)
LEMMA ReadShape ==
    ASSUME NEW f, FrameTyped(f), NEW p, p = Read(f), ~p.err
    PROVE  /\ p.snlp \in BOOLEAN /\ p.hdr = IF p.snlp THEN 14 ELSE 6
           /\ p.apid \in 0..2047
           /\ p.body = {} \/ \E t \in Type : p.body = {t}
           /\ \A t \in p.body : f.size >= p.hdr + LayoutLen[t]
<1> DEFINE snlp == f.size >= 4 /\ IsSnlp(f)
           hdr == HeaderLen(IF snlp THEN "snlp" ELSE "ccsds")
           at == IF snlp THEN 4 ELSE 0
           h == CcsdsPrimaryHeader(f, at)
           length == BodyLength(h)
           body == RootSwitch(length, ByteAt(f, hdr))
<1>1. hdr = IF snlp THEN 14 ELSE 6
  BY DEF HeaderLen, SNLPHeaderLen, CCSDSHeaderLen
<1>2. at \in 0..13 /\ at + 4 \in 0..13
  OBVIOUS
<1>3. snlp \in BOOLEAN
  BY DEF IsSnlp
<1> HIDE DEF snlp, at
<1>4. U2beAt(f, at) \in Int /\ U2beAt(f, at + 4) \in Int
  BY <1>2, WordsTyped
<1>5. Apid(h) \in 0..2047 /\ length \in Nat
  <2>1. h.VersionTypeFlagApid = U2beAt(f, at) /\ h.PacketDataLength = U2beAt(f, at + 4)
    BY DEF CcsdsPrimaryHeader
  <2> HIDE DEF h
  <2> QED BY <1>4, <2>1 DEF Apid, BodyLength
<1>6. body = {} \/ \E t \in Type : body = {t}
  BY <1>5, RootShape
<1>7. p = IF \/ f.size < hdr
             \/ snlp /\ ~SnlpHeaderValid(f)
             \/ f.size < hdr + length
             \/ \E t \in body : LayoutLen[t] > length
             \/ "PacketAckBodyCcsds" \in body /\ ByteAt(f, hdr) # MagicPacketAck
          THEN Malformed
          ELSE [err |-> FALSE, snlp |-> snlp, hdr |-> hdr, apid |-> Apid(h),
                version |-> Version(h), body |-> body]
  BY DEF Read, snlp, at
<1> HIDE DEF h, hdr, length, body
<1>8. /\ ~(f.size < hdr + length) /\ ~\E t \in body : LayoutLen[t] > length
      /\ p = [err |-> FALSE, snlp |-> snlp, hdr |-> hdr, apid |-> Apid(h),
              version |-> Version(h), body |-> body]
  <2>1. Malformed.err
    BY DEF Malformed
  <2> QED BY <1>7, <2>1
<1>9. p.snlp = snlp /\ p.hdr = hdr /\ p.apid = Apid(h) /\ p.body = body
  BY <1>8
<1>10. ASSUME NEW t \in p.body PROVE f.size >= p.hdr + LayoutLen[t]
  <2>1. t \in Type
    BY <1>6, <1>9
  <2>2. LayoutLen[t] \in Nat
    BY <2>1, LayoutLens
  <2>3. f.size \in Nat /\ hdr \in Nat
    BY <1>1 DEF FrameTyped
  <2> QED BY <1>5, <1>8, <1>9, <2>2, <2>3
<1>11. p.snlp \in BOOLEAN /\ p.hdr = IF p.snlp THEN 14 ELSE 6
  BY <1>1, <1>3, <1>9, Zenon
<1>12. p.apid \in 0..2047 /\ (p.body = {} \/ \E t \in Type : p.body = {t})
  BY <1>5, <1>6, <1>9
<1> QED BY <1>10, <1>11, <1>12

\* What IngestPacket makes of a frame.
Decided(f, sub, a, e) ==
    LET p == Read(f) IN
    IF p.err \/ p.version # 0 \/ p.body = {}
      THEN a = Bounced(400) /\ e = {}
      ELSE LET t == CHOOSE t \in p.body : TRUE
               code == handlePayloadBody(t, f, p)
           IN  IF code # 200
                 THEN a = Bounced(code) /\ e = {}
                 ELSE /\ a = [code |-> 200, apid |-> p.apid, as |-> t,
                              tier |-> IF p.snlp THEN "snlp" ELSE "ccsds"]
                      /\ e = IF t = "PacketBBody" /\ sub THEN enqueueSettlementIntent(f, p) ELSE {}

\* The frame was read as p, of type t, and taken.
Taken(f, sub, a, e, p, t) ==
    /\ p = Read(f) /\ ~p.err /\ p.version = 0 /\ p.body = {t}
    /\ handlePayloadBody(t, f, p) = 200
    /\ a = [code |-> 200, apid |-> p.apid, as |-> t, tier |-> IF p.snlp THEN "snlp" ELSE "ccsds"]
    /\ e = IF t = "PacketBBody" /\ sub THEN enqueueSettlementIntent(f, p) ELSE {}

(* The statuses the handlers leave.                                           *)
LEMMA Statuses ==
    ASSUME NEW t \in Type, NEW f, NEW p
    PROVE  handlePayloadBody(t, f, p) \in {200, 400, 401}
<1>1. CASE t \in {"HeartbeatBody", "PacketABody", "PacketHBody"}
  BY <1>1 DEF handlePayloadBody
<1>2. CASE t = "PacketBBody"
  BY <1>2 DEF handlePayloadBody
<1>3. CASE t = "PacketCBody"
  BY <1>3 DEF handlePayloadBody
<1>4. CASE t = "PacketDBody"
  BY <1>4 DEF handlePayloadBody
<1>5. CASE t \in {"PacketAckBodySnlp", "PacketAckBodyCcsds"}
  BY <1>5 DEF handlePayloadBody
<1> QED BY <1>1, <1>2, <1>3, <1>4, <1>5, Types

(* A decided frame is bounced, with nothing enqueued, or taken as one type.   *)
LEMMA Outcomes ==
    ASSUME NEW f, FrameTyped(f), NEW sub, NEW a, NEW e, Decided(f, sub, a, e)
    PROVE  \/ (a = [code |-> 400] \/ a = [code |-> 401]) /\ e = {}
           \/ \E t \in Type : Taken(f, sub, a, e, Read(f), t)
<1>1. PICK p : p = Read(f)
  OBVIOUS
<1>2. CASE p.err \/ p.version # 0 \/ p.body = {}
  BY <1>1, <1>2 DEF Decided, Bounced
<1>3. CASE ~(p.err \/ p.version # 0 \/ p.body = {})
  <2>1. PICK t \in Type : p.body = {t}
    BY <1>1, <1>3, ReadShape
  <2>2. t = CHOOSE u \in p.body : TRUE
    BY <2>1
  <2>3. PICK code : code = handlePayloadBody(t, f, p)
    OBVIOUS
  <2>4. IF code # 200
          THEN a = Bounced(code) /\ e = {}
          ELSE /\ a = [code |-> 200, apid |-> p.apid, as |-> t,
                       tier |-> IF p.snlp THEN "snlp" ELSE "ccsds"]
               /\ e = IF t = "PacketBBody" /\ sub THEN enqueueSettlementIntent(f, p) ELSE {}
    BY <1>1, <1>3, <2>2, <2>3 DEF Decided
  <2>5. CASE code # 200
    <3>1. code \in {400, 401}
      BY <2>3, <2>5, Statuses
    <3> QED BY <2>4, <2>5, <3>1 DEF Bounced
  <2>6. CASE code = 200
    <3>1. ~p.err /\ p.version = 0
      BY <1>3, Zenon
    <3>2. Taken(f, sub, a, e, p, t)
      BY <1>1, <2>1, <2>3, <2>4, <2>6, <3>1 DEF Taken
    <3> QED BY <1>1, <2>1, <3>2
  <2> QED BY <2>5, <2>6
<1> QED BY <1>2, <1>3

(* An undamaged byte is what its sender put there.                            *)
LEMMA SentByte ==
    ASSUME NEW f, FrameTyped(f), NEW n,
           \A i \in 1..15 : (\A s \in f.flips : s[1] # i - 1) => f.bytes[i] = SentBytes(f.type, f.tier, n)[i],
           NEW hi \in 1..15, AsSent(f, 0, hi)
    PROVE  \A i \in 1..hi : f.bytes[i] = SentBytes(f.type, f.tier, n)[i]
<1> SUFFICES ASSUME NEW i \in 1..hi PROVE f.bytes[i] = SentBytes(f.type, f.tier, n)[i]
  OBVIOUS
<1>1. i \in 1..15 /\ 0 <= i - 1 /\ i - 1 < hi
  OBVIOUS
<1>2. \A s \in f.flips : s[1] # i - 1
  BY <1>1 DEF AsSent
<1> QED BY <1>1, <1>2

(* In the switch the length and the magic of each body lead to its type.      *)
LEMMA RootFinds ==
    ASSUME NEW t \in Type
    PROVE  RootSwitch(Vector[t].len, Magic(t)) = {t}
<1>1. CASE t = "PacketDBody"
  <2>1. Vector[t].len = 122 /\ Magic(t) = 208
    BY <1>1, BodyHeads DEF Vector
  <2> QED BY <1>1, <2>1 DEF RootSwitch, Dispatch122, MagicPacketD, MagicPacketAck
<1>2. CASE t = "PacketAckBodySnlp"
  <2>1. Vector[t].len = 122 /\ Magic(t) = 172
    BY <1>2, BodyHeads DEF Vector
  <2> QED BY <1>2, <2>1 DEF RootSwitch, Dispatch122, MagicPacketD, MagicPacketAck
<1>3. CASE t \notin {"PacketDBody", "PacketAckBodySnlp"}
  <2>1. /\ Vector["HeartbeatBody"].len = 34 /\ Vector["PacketABody"].len = 66
        /\ Vector["PacketAckBodyCcsds"].len = 114 /\ Vector["PacketBBody"].len = 178
        /\ Vector["PacketCBody"].len = 98 /\ Vector["PacketHBody"].len = 106
    BY DEF Vector
  <2> QED BY <1>3, <2>1, Types DEF RootSwitch
<1> QED BY <1>1, <1>2, <1>3

(* The identification word carries the APID, and version 0.                   *)
LEMMA IdReads ==
    ASSUME NEW t \in Type
    PROVE  IdField(t) % 2048 = Vector[t].apid /\ (IdField(t) \div 8192) % 8 = 0 /\ IdField(t) # 7425
<1>1. Vector[t].apid \in {100, 101} /\ Vector[t].cmd \in {0, 1}
  BY VectorTyped
<1>2. PICK a \in {100, 101}, c \in {0, 1} : a = Vector[t].apid /\ c = Vector[t].cmd
  BY <1>1
<1>3. \/ (IdField(t) = 2148 /\ a = 100)
      \/ (IdField(t) = 2149 /\ a = 101)
      \/ (IdField(t) = 6244 /\ a = 100)
      \/ (IdField(t) = 6245 /\ a = 101)
  <2>1. a = 100 \/ a = 101
    OBVIOUS
  <2>2. c = 0 \/ c = 1
    OBVIOUS
  <2>3. IdField(t) = 4096 * c + 2048 + a
    BY <1>2 DEF IdField
  <2> QED BY <2>1, <2>2, <2>3
<1> QED BY <1>2, <1>3

\* What Read makes of a frame whose header and first body byte are as sent.
ReadAsBuilt(f, p) ==
    /\ ~p.err
    /\ p.snlp = (f.tier = "snlp") /\ p.hdr = HeaderLen(f.tier)
    /\ p.apid = Vector[f.type].apid /\ p.version = 0
    /\ p.body = {f.type}

(* With its header and the byte behind it undamaged, a frame is rejected or   *)
(* read as the type it was built as, in its tier; and not rejected unless it  *)
(* was cut.                                                                   *)
LEMMA ReadIntact ==
    ASSUME NEW f, FrameOK(f), AsSent(f, 0, HeaderLen(f.tier) + 1), NEW p, p = Read(f)
    PROVE  /\ p.err \/ ReadAsBuilt(f, p)
           /\ f.size >= BuiltSize(f) => ReadAsBuilt(f, p)
           /\ ByteAt(f, HeaderLen(f.tier)) = Magic(f.type)
<1>1. /\ FrameTyped(f) /\ f.type \in Type /\ f.tier \in {"ccsds", "snlp"} /\ f.size \in Nat
      /\ f.bytes \in [1..15 -> Int]
  BY DEF FrameOK, FrameTyped
<1>2. PICK n \in Nat : \A i \in 1..15 :
        (\A s \in f.flips : s[1] # i - 1) => f.bytes[i] = SentBytes(f.type, f.tier, n)[i]
  BY DEF FrameOK, BytesAsSent
<1> DEFINE H == HeaderLen(f.tier)
           snlp == f.size >= 4 /\ IsSnlp(f)
           hdr == HeaderLen(IF snlp THEN "snlp" ELSE "ccsds")
           h == CcsdsPrimaryHeader(f, IF snlp THEN 4 ELSE 0)
           length == BodyLength(h)
           body == RootSwitch(length, ByteAt(f, hdr))
<1>3. H = (IF f.tier = "snlp" THEN 14 ELSE 6) /\ f.size >= H + 1
  BY <1>1 DEF HeaderLen, SNLPHeaderLen, CCSDSHeaderLen, AsSent
<1>4. \A i \in 1..(H + 1) : f.bytes[i] = SentBytes(f.type, f.tier, n)[i]
  <2>1. H + 1 \in 1..15
    BY <1>1, <1>3
  <2> QED BY <1>1, <1>2, <2>1, SentByte
<1>5. /\ snlp = (f.tier = "snlp")
      /\ U2beAt(f, IF snlp THEN 4 ELSE 0) = IdField(f.type)
      /\ U2beAt(f, (IF snlp THEN 4 ELSE 0) + 4) = Vector[f.type].len - 1
      /\ snlp => SnlpHeaderValid(f)
      /\ ByteAt(f, H) = Magic(f.type)
  <2>1. CASE f.tier = "ccsds"
    <3>1. PICK b : b = SentBytes(f.type, "ccsds", n)
      OBVIOUS
    <3>2. 256 * b[1] + b[2] = IdField(f.type) /\ 256 * b[5] + b[6] = Vector[f.type].len - 1 /\ b[7] = Magic(f.type)
      BY <1>1, <3>1, SentCcsds
    <3>3. \A i \in 1..7 : f.bytes[i] = b[i]
      BY <1>3, <1>4, <2>1, <3>1
    <3>4. /\ 256 * f.bytes[1] + f.bytes[2] = IdField(f.type)
          /\ 256 * f.bytes[5] + f.bytes[6] = Vector[f.type].len - 1 /\ f.bytes[7] = Magic(f.type)
      <4>1. /\ f.bytes[1] = b[1] /\ f.bytes[2] = b[2] /\ f.bytes[5] = b[5] /\ f.bytes[6] = b[6]
            /\ f.bytes[7] = b[7]
        BY <3>3
      <4> QED BY <3>2, <4>1, Zenon
    <3>5. /\ U2beAt(f, 0) = IdField(f.type) /\ U2beAt(f, 4) = Vector[f.type].len - 1
          /\ ByteAt(f, 6) = Magic(f.type)
      BY <3>4 DEF U2beAt, ByteAt
    <3>6. ~IsSnlp(f)
      BY <1>1, <3>5, IdReads DEF IsSnlp
    <3>7. ~snlp /\ f.tier # "snlp" /\ H = 6 /\ 0 + 4 = 4
      BY <1>3, <2>1, <3>6
    <3>8. snlp = (f.tier = "snlp")
      BY <3>7, Zenon
    <3> HIDE DEF snlp, H
    <3>9. (IF snlp THEN 4 ELSE 0) = 0 /\ (IF snlp THEN 4 ELSE 0) + 4 = 4
      BY <3>7
    <3> QED BY <3>5, <3>7, <3>8, <3>9, Zenon
  <2>2. CASE f.tier = "snlp"
    <3>1. PICK b : b = SentBytes(f.type, "snlp", n)
      OBVIOUS
    <3>2. /\ 256 * b[1] + b[2] = 7425 /\ 256 * b[3] + b[4] = 42405
          /\ 256 * b[5] + b[6] = IdField(f.type) /\ 256 * b[9] + b[10] = Vector[f.type].len - 1
          /\ 256 * b[11] + b[12] = 0 /\ 256 * b[13] + b[14] = 0 /\ b[15] = Magic(f.type)
      BY <1>1, <3>1, SentSnlp
    <3>3. \A i \in 1..15 : f.bytes[i] = b[i]
      BY <1>3, <1>4, <2>2, <3>1
    <3>4. /\ 256 * f.bytes[1] + f.bytes[2] = 7425 /\ 256 * f.bytes[3] + f.bytes[4] = 42405
          /\ 256 * f.bytes[5] + f.bytes[6] = IdField(f.type)
          /\ 256 * f.bytes[9] + f.bytes[10] = Vector[f.type].len - 1
          /\ 256 * f.bytes[11] + f.bytes[12] = 0 /\ 256 * f.bytes[13] + f.bytes[14] = 0
          /\ f.bytes[15] = Magic(f.type)
      <4>1. b \in [1..15 -> Int]
        BY <1>1, <3>1, SentSnlp
      <4>2. f.bytes = b
        BY <1>1, <3>3, <4>1
      <4> QED BY <3>2, <4>2
    <3>5. /\ U2beAt(f, 0) = 7425 /\ U2beAt(f, 2) = 42405 /\ U2beAt(f, 4) = IdField(f.type)
          /\ U2beAt(f, 8) = Vector[f.type].len - 1 /\ U2beAt(f, 10) = 0 /\ U2beAt(f, 12) = 0
          /\ ByteAt(f, 14) = Magic(f.type)
      BY <3>4 DEF U2beAt, ByteAt
    <3>6. IsSnlp(f) /\ SnlpHeaderValid(f)
      BY <3>5 DEF IsSnlp, SnlpHeaderValid
    <3>7. snlp /\ H = 14 /\ 4 + 4 = 8
      BY <1>1, <1>3, <2>2, <3>6
    <3>8. snlp = (f.tier = "snlp")
      BY <2>2, <3>7, Zenon
    <3> HIDE DEF snlp, H
    <3>9. (IF snlp THEN 4 ELSE 0) = 4 /\ (IF snlp THEN 4 ELSE 0) + 4 = 8
      BY <3>7
    <3>10. U2beAt(f, IF snlp THEN 4 ELSE 0) = IdField(f.type)
      BY <3>5, <3>9
    <3>11. U2beAt(f, (IF snlp THEN 4 ELSE 0) + 4) = Vector[f.type].len - 1
      BY <3>5, <3>9
    <3>12. ByteAt(f, H) = Magic(f.type)
      BY <3>5, <3>7
    <3> QED BY <3>6, <3>8, <3>10, <3>11, <3>12, Zenon
  <2> QED BY <1>1, <2>1, <2>2
<1>6. hdr = H
  BY <1>1, <1>5 DEF HeaderLen
<1>7. Apid(h) = Vector[f.type].apid /\ Version(h) = 0 /\ length = Vector[f.type].len
  <2> DEFINE at == IF snlp THEN 4 ELSE 0
  <2>1. h.VersionTypeFlagApid = U2beAt(f, at) /\ h.PacketDataLength = U2beAt(f, at + 4)
    BY DEF CcsdsPrimaryHeader
  <2>2. h.VersionTypeFlagApid = IdField(f.type) /\ h.PacketDataLength = Vector[f.type].len - 1
    <3> HIDE DEF snlp, h
    <3> QED BY <1>5, <2>1, Zenon
  <2> HIDE DEF h
  <2>3. Apid(h) = Vector[f.type].apid /\ Version(h) = 0
    BY <1>1, <2>2, IdReads DEF Apid, Version
  <2>4. Vector[f.type].len \in 34..178
    BY <1>1, VectorTyped
  <2> QED BY <2>2, <2>3, <2>4 DEF BodyLength
<1>8. body = {f.type}
  <2>1. length = Vector[f.type].len /\ ByteAt(f, hdr) = Magic(f.type)
    BY <1>5, <1>6, <1>7
  <2> HIDE DEF length, hdr
  <2> QED BY <1>1, <2>1, RootFinds
<1>9. p = IF \/ f.size < hdr
             \/ snlp /\ ~SnlpHeaderValid(f)
             \/ f.size < hdr + length
             \/ \E t \in body : LayoutLen[t] > length
             \/ "PacketAckBodyCcsds" \in body /\ ByteAt(f, hdr) # MagicPacketAck
          THEN Malformed
          ELSE [err |-> FALSE, snlp |-> snlp, hdr |-> hdr, apid |-> Apid(h),
                version |-> Version(h), body |-> body]
  BY DEF Read
<1>10. BuiltSize(f) = H + length
  BY <1>7 DEF BuiltSize
<1>11. LayoutLen[f.type] = length /\ length \in Nat
  BY <1>1, <1>7, LayoutLens
<1>12. "PacketAckBodyCcsds" = f.type => ByteAt(f, H) = MagicPacketAck
  BY <1>1, <1>5, BodyHeads DEF MagicPacketAck
<1> HIDE DEF snlp, hdr, h, length, body, H
<1>13. p = Malformed \/ p = [err |-> FALSE, snlp |-> snlp, hdr |-> hdr, apid |-> Apid(h),
                             version |-> Version(h), body |-> body]
  BY <1>9
<1>14. ASSUME f.size >= BuiltSize(f)
       PROVE  p = [err |-> FALSE, snlp |-> snlp, hdr |-> hdr, apid |-> Apid(h),
                   version |-> Version(h), body |-> body]
  <2>1. /\ ~(f.size < hdr) /\ ~(f.size < hdr + length)
    BY <1>1, <1>3, <1>6, <1>10, <1>11, <1>14
  <2>2. ~\E t \in body : LayoutLen[t] > length
    BY <1>8, <1>11
  <2>3. ~("PacketAckBodyCcsds" \in body /\ ByteAt(f, hdr) # MagicPacketAck)
    BY <1>6, <1>8, <1>12
  <2> QED BY <1>5, <1>9, <2>1, <2>2, <2>3
<1>15. ASSUME p = [err |-> FALSE, snlp |-> snlp, hdr |-> hdr, apid |-> Apid(h),
                   version |-> Version(h), body |-> body]
       PROVE  ReadAsBuilt(f, p)
  <2>1. /\ p.err = FALSE /\ p.snlp = snlp /\ p.hdr = hdr /\ p.apid = Apid(h) /\ p.version = Version(h)
        /\ p.body = body
    BY <1>15
  <2>2. p.snlp = (f.tier = "snlp") /\ ~p.err
    BY <1>5, <2>1, Zenon
  <2>3. p.hdr = HeaderLen(f.tier)
    BY <1>6, <2>1 DEF H
  <2> QED BY <1>7, <1>8, <2>1, <2>2, <2>3, Zenon DEF ReadAsBuilt
<1>16. Malformed.err
  BY DEF Malformed
<1>17. ByteAt(f, HeaderLen(f.tier)) = Magic(f.type)
  BY <1>5 DEF H
<1> QED BY <1>13, <1>14, <1>15, <1>16, <1>17

------------------------------------------------------------------------------
(* The invariant: a frame on the wire is one of FrameOK, and a request that   *)
(* was answered was answered as IngestPacket decides on the frame it has.     *)

IngestInv ==
    /\ submitter \in BOOLEAN
    /\ \/ frame = NoFrame /\ answer = NoRequest /\ enqueued = {}
       \/ FrameOK(frame) /\ answer = Pending /\ enqueued = {}
       \/ FrameOK(frame) /\ Decided(frame, submitter, answer, enqueued)

(* The size a frame was built with.                                           *)
LEMMA BuiltSizes ==
    ASSUME NEW f, FrameTyped(f)
    PROVE  /\ HeaderLen(f.tier) \in Nat /\ HeaderLen(f.tier) = IF f.tier = "snlp" THEN 14 ELSE 6
           /\ BuiltSize(f) = HeaderLen(f.tier) + Vector[f.type].len
           /\ BuiltSize(f) \in Nat /\ BuiltSize(f) >= HeaderLen(f.tier) + 34
<1>1. f.type \in Type /\ f.tier \in {"ccsds", "snlp"}
  BY DEF FrameTyped
<1>2. Vector[f.type].len \in 34..178
  BY <1>1, VectorTyped
<1>3. HeaderLen(f.tier) \in Nat /\ HeaderLen(f.tier) = IF f.tier = "snlp" THEN 14 ELSE 6
  BY DEF HeaderLen, SNLPHeaderLen, CCSDSHeaderLen
<1> QED BY <1>2, <1>3 DEF BuiltSize

(* Every frame a sender hands over is one.                                    *)
LEMMA BuiltOK ==
    ASSUME NEW t \in Type, NEW tier \in TiersOf(t), NEW sat \in Sats \cup {"none"}, NEW n \in Nat
    PROVE  FrameOK(Built(t, tier, sat, n))
<1>1. PICK f : f = Built(t, tier, sat, n)
  OBVIOUS
<1>2. tier \in {"ccsds", "snlp"}
  BY DEF TiersOf
<1>3. SentBytes(t, tier, n) \in [1..15 -> Int]
  BY <1>2, SentCcsds, SentSnlp
<1>4. HeaderLen(tier) + Vector[t].len \in Nat
  BY VectorTyped DEF HeaderLen, SNLPHeaderLen, CCSDSHeaderLen
<1>5. /\ f.type = t /\ f.tier = tier /\ f.bytes = SentBytes(t, tier, n) /\ f.flips = {}
      /\ f.size = HeaderLen(tier) + Vector[t].len
  BY <1>1 DEF Built
<1>6. FrameTyped(f)
  BY <1>1, <1>2, <1>3, <1>4 DEF FrameTyped, Built
<1>7. BytesAsSent(f)
  BY <1>5 DEF BytesAsSent
<1>8. IsFiniteSet(f.flips) /\ Cardinality(f.flips) = 0
  BY <1>5, FS_EmptySet
<1>9. Faults(f) \in 0..MaxFaults
  BY <1>5, <1>8, IngestBounds DEF Faults, BuiltSize
<1> QED BY <1>1, <1>5, <1>6, <1>7, <1>8, <1>9 DEF FrameOK

(* So every frame that is posted is.                                          *)
LEMMA FramesOK == \A f \in Frames : FrameOK(f)
<1> SUFFICES ASSUME NEW f \in Frames PROVE FrameOK(f)
  OBVIOUS
<1>1. CASE f \in {Build(n) : n \in SeqCounts}
  <2>1. PICK n \in SeqCounts : f = Built("PacketCBody", "snlp", "none", n)
    BY <1>1 DEF Build
  <2>2. "PacketCBody" \in Type /\ "snlp" \in TiersOf("PacketCBody") /\ n \in Nat
    BY Types, IngestBounds DEF TiersOf
  <2> QED BY <2>1, <2>2, BuiltOK
<1>2. CASE f \notin {Build(n) : n \in SeqCounts}
  <2> DEFINE From(t) == {Built(t, tier, sat, 0) : tier \in TiersOf(t),
                                sat \in IF t = "PacketBBody" THEN Sats ELSE {"none"}}
  <2>1. f \in UNION {From(t) : t \in Type}
    BY <1>2 DEF Frames
  <2> HIDE DEF From
  <2>2. PICK t \in Type : f \in From(t)
    BY <2>1, Zenon
  <2>3. PICK tier \in TiersOf(t), sat \in (IF t = "PacketBBody" THEN Sats ELSE {"none"}) :
          f = Built(t, tier, sat, 0)
    BY <2>2 DEF From
  <2>4. sat \in Sats \cup {"none"} /\ 0 \in Nat
    OBVIOUS
  <2> QED BY <2>3, <2>4, BuiltOK
<1> QED BY <1>1, <1>2

(* The sites at which bits flip.                                              *)
LEMMA SitesTyped ==
    ASSUME NEW f, FrameTyped(f), NEW s \in FlipSites(f)
    PROVE  s \in Nat \X (0..7)
<1>1. f.type \in Type /\ HeaderLen(f.tier) \in Nat
  BY BuiltSizes DEF FrameTyped
<1>2. CASE s \in (0..HeaderLen(f.tier)) \X (0..7)
  BY <1>1, <1>2
<1>3. CASE s \notin (0..HeaderLen(f.tier)) \X (0..7)
  <2>1. PICK name \in DOMAIN FieldSpan[f.type] : s = <<HeaderLen(f.tier) + FieldSpan[f.type][name][1], 0>>
    BY <1>3 DEF FlipSites
  <2>2. FieldSpan[f.type][name][1] \in Nat
    BY <1>1, SpansTyped
  <2> QED BY <1>1, <2>1, <2>2
<1> QED BY <1>2, <1>3

(* A flipped bit leaves a frame on the wire.                                  *)
LEMMA FlipOK ==
    ASSUME NEW f, FrameOK(f), Faults(f) < MaxFaults, NEW s \in FlipSites(f), s \notin f.flips
    PROVE  FrameOK(Flipped(f, s))
<1>1. PICK g : g = Flipped(f, s)
  OBVIOUS
<1>2. FrameTyped(f) /\ s \in Nat \X (0..7)
  BY SitesTyped DEF FrameOK
<1>3. PICK b : b = [i \in DOMAIN f.bytes |-> IF i = s[1] + 1 THEN Toggle(f.bytes[i], s[2]) ELSE f.bytes[i]]
  OBVIOUS
<1>4. g = [f EXCEPT !.flips = f.flips \cup {s}, !.bytes = b]
  BY <1>1, <1>3 DEF Flipped
<1>5. f.bytes \in [1..15 -> Int] /\ DOMAIN f.bytes = 1..15
  BY <1>2 DEF FrameTyped
<1>6. b \in [1..15 -> Int]
  <2>1. \A k \in 0..7 : 2^k \in Int
    OBVIOUS
  <2>2. ASSUME NEW v \in Int PROVE Toggle(v, s[2]) \in Int
    <3>1. s[2] \in 0..7
      BY <1>2
    <3>2. PICK w \in Int : w = 2^(s[2])
      BY <2>1, <3>1
    <3> QED BY <3>2 DEF Toggle
  <2>3. ASSUME NEW i \in 1..15 PROVE (IF i = s[1] + 1 THEN Toggle(f.bytes[i], s[2]) ELSE f.bytes[i]) \in Int
    BY <1>5, <2>2
  <2> QED BY <1>3, <1>5, <2>3
<1>7. /\ g.type = f.type /\ g.tier = f.tier /\ g.size = f.size /\ g.sat = f.sat
      /\ g.flips = f.flips \cup {s} /\ g.bytes = b
  BY <1>2, <1>4 DEF FrameTyped
<1>8. FrameTyped(g)
  BY <1>2, <1>4, <1>6 DEF FrameTyped
<1>9. BytesAsSent(g)
  <2>1. PICK n \in Nat : \A i \in 1..15 :
          (\A r \in f.flips : r[1] # i - 1) => f.bytes[i] = SentBytes(f.type, f.tier, n)[i]
    BY DEF FrameOK, BytesAsSent
  <2>2. ASSUME NEW i \in 1..15, \A r \in g.flips : r[1] # i - 1
        PROVE  g.bytes[i] = SentBytes(g.type, g.tier, n)[i]
    <3>1. s[1] \in Nat /\ s[1] # i - 1 /\ \A r \in f.flips : r[1] # i - 1
      BY <1>2, <1>7, <2>2
    <3>2. i # s[1] + 1
      BY <3>1
    <3>3. b[i] = f.bytes[i]
      BY <1>3, <1>5, <3>2
    <3> QED BY <1>7, <2>1, <3>1, <3>3
  <2> QED BY <2>2 DEF BytesAsSent
<1>10. /\ IsFiniteSet(g.flips) /\ Cardinality(g.flips) = Cardinality(f.flips) + 1
       /\ Cardinality(f.flips) \in Nat
  BY <1>7, FS_AddElement, FS_CardinalityType DEF FrameOK
<1>11. BuiltSize(g) = BuiltSize(f) /\ FlipSites(g) = FlipSites(f) /\ g.tier \in TiersOf(g.type)
  BY <1>7 DEF BuiltSize, FlipSites, FrameOK
<1>12. Faults(g) \in 0..MaxFaults
  BY <1>7, <1>10, <1>11, IngestBounds DEF Faults
<1>13. g.flips \subseteq FlipSites(g)
  BY <1>7, <1>11 DEF FrameOK
<1> QED BY <1>1, <1>8, <1>9, <1>10, <1>11, <1>12, <1>13 DEF FrameOK

(* So does a cut or an extension.                                             *)
LEMMA ResizeOK ==
    ASSUME NEW f, FrameOK(f), Faults(f) < MaxFaults, f.size = BuiltSize(f), NEW n \in Nat
    PROVE  FrameOK([f EXCEPT !.size = n])
<1>1. PICK g : g = [f EXCEPT !.size = n]
  OBVIOUS
<1>2. FrameTyped(f) /\ Cardinality(f.flips) \in Nat
  BY FS_CardinalityType DEF FrameOK
<1>3. /\ g.type = f.type /\ g.tier = f.tier /\ g.size = n /\ g.flips = f.flips /\ g.bytes = f.bytes
      /\ FrameTyped(g)
  BY <1>1, <1>2 DEF FrameTyped
<1>4. BuiltSize(g) = BuiltSize(f) /\ FlipSites(g) = FlipSites(f) /\ (BytesAsSent(f) => BytesAsSent(g))
  BY <1>3 DEF BuiltSize, FlipSites, BytesAsSent
<1>5. Faults(g) \in 0..MaxFaults
  BY <1>2, <1>3, IngestBounds DEF Faults
<1> QED BY <1>1, <1>3, <1>4, <1>5 DEF FrameOK

(* While a request is pending its frame is on the wire and nothing enqueued.  *)
LEMMA PendingNow ==
    ASSUME IngestInv, answer = Pending
    PROVE  FrameOK(frame) /\ enqueued = {}
<1>1. CASE FrameOK(frame) /\ Decided(frame, submitter, answer, enqueued)
  <2>1. answer # [code |-> 400] /\ answer # [code |-> 401]
    BY DEF Pending
  <2>2. PICK t : Taken(frame, submitter, answer, enqueued, Read(frame), t)
    BY <1>1, <2>1, Outcomes DEF FrameOK
  <2>3. answer.code = 200
    BY <2>2 DEF Taken
  <2> QED BY <2>3 DEF Pending
<1>2. answer # NoRequest
  BY DEF Pending, NoRequest
<1> QED BY <1>1, <1>2 DEF IngestInv

(* Each step keeps the invariant.                                             *)
LEMMA NextIngestInv == IngestInv /\ [Next]_vars => IngestInv'
<1> SUFFICES ASSUME IngestInv, [Next]_vars PROVE IngestInv'
  OBVIOUS
<1>1. CASE Post
  <2>1. FrameOK(frame') /\ answer' = Pending /\ submitter' = submitter
    BY <1>1, FramesOK DEF Post
  <2>2. enqueued' = {}
    <3>1. answer = NoRequest /\ enqueued' = enqueued
      BY <1>1 DEF Post
    <3>2. CASE Decided(frame, submitter, answer, enqueued) /\ FrameOK(frame)
      <4>1. answer # [code |-> 400] /\ answer # [code |-> 401]
        BY <3>1 DEF NoRequest
      <4>2. PICK t : Taken(frame, submitter, answer, enqueued, Read(frame), t)
        BY <3>2, <4>1, Outcomes DEF FrameOK
      <4>3. answer.code = 200
        BY <4>2 DEF Taken
      <4> QED BY <3>1, <4>3 DEF NoRequest
    <3> QED BY <3>1, <3>2 DEF IngestInv
  <2> QED BY <2>1, <2>2 DEF IngestInv
<1>2. CASE Finish
  BY <1>2 DEF Finish, IngestInv
<1>3. CASE Flip
  <2>1. FrameOK(frame) /\ enqueued = {}
    BY <1>3, PendingNow DEF Flip
  <2>2. PICK s \in FlipSites(frame) \ frame.flips : frame' = Flipped(frame, s)
    BY <1>3 DEF Flip
  <2>3. FrameOK(frame')
    BY <1>3, <2>1, <2>2, FlipOK DEF Flip
  <2> QED BY <1>3, <2>1, <2>3 DEF Flip, IngestInv
<1>4. CASE Resize
  <2>1. FrameOK(frame) /\ enqueued = {}
    BY <1>4, PendingNow DEF Resize
  <2>2. PICK n : /\ n \in {0, 3, 5, 13, HeaderLen(frame.tier), BuiltSize(frame) - 8, BuiltSize(frame) - 1,
                           BuiltSize(frame) + 1, BuiltSize(frame) + 8}
                 /\ frame' = [frame EXCEPT !.size = n]
    BY <1>4 DEF Resize
  <2>3. n \in Nat
    <3>1. BuiltSize(frame) \in Nat /\ HeaderLen(frame.tier) \in Nat /\ BuiltSize(frame) >= HeaderLen(frame.tier) + 34
      BY <2>1, BuiltSizes DEF FrameOK
    <3> QED BY <2>2, <3>1
  <2>4. FrameOK(frame')
    BY <1>4, <2>1, <2>2, <2>3, ResizeOK DEF Resize
  <2> QED BY <1>4, <2>1, <2>4 DEF Resize, IngestInv
<1>5. CASE IngestPacket
  <2>1. FrameOK(frame)
    BY <1>5, PendingNow DEF IngestPacket
  <2>2. Decided(frame, submitter, answer', enqueued') /\ frame' = frame /\ submitter' = submitter
    BY <1>5 DEF IngestPacket, Decided
  <2> QED BY <2>1, <2>2 DEF IngestInv
<1>6. CASE UNCHANGED vars
  BY <1>6 DEF vars, IngestInv
<1> QED BY <1>1, <1>2, <1>3, <1>4, <1>5, <1>6 DEF Next

(* The frame on the wire satisfies FrameOK, and a request that was answered   *)
(* was answered as the code decides on that frame (ingest.go:IngestPacket).   *)
THEOREM IngestInvariant == Spec => []IngestInv
<1>1. Init => IngestInv
  BY DEF Init, IngestInv
<1> QED BY <1>1, NextIngestInv, PTL DEF Spec

------------------------------------------------------------------------------
(* What follows from it.                                                      *)

(* An accepted request was taken, as exactly one type.                        *)
LEMMA AcceptedTaken ==
    ASSUME IngestInv, Accepted
    PROVE  /\ FrameOK(frame)
           /\ \E t \in Type : Taken(frame, submitter, answer, enqueued, Read(frame), t)
<1>1. answer # NoRequest /\ answer # Pending /\ answer # [code |-> 400] /\ answer # [code |-> 401]
  BY DEF Accepted, NoRequest, Pending
<1>2. FrameOK(frame) /\ Decided(frame, submitter, answer, enqueued)
  BY <1>1 DEF IngestInv
<1> QED BY <1>1, <1>2, Outcomes DEF FrameOK

(* What an accepted answer says.                                              *)
LEMMA TakenAnswer ==
    ASSUME NEW f, NEW sub, NEW a, NEW e, NEW p, NEW t, Taken(f, sub, a, e, p, t)
    PROVE  /\ a.code = 200 /\ a.apid = p.apid /\ a.as = t
           /\ a.tier = IF p.snlp THEN "snlp" ELSE "ccsds"
  BY DEF Taken

(* Types, and the bound on what happens to one frame.                         *)
LEMMA TypeFromInv == IngestInv => IngestTypeOK
<1> SUFFICES ASSUME IngestInv PROVE IngestTypeOK
  OBVIOUS
<1>1. ASSUME FrameOK(frame)
      PROVE  /\ frame # NoFrame /\ frame.size \in Nat /\ frame.flips \subseteq FlipSites(frame)
             /\ Faults(frame) <= MaxFaults
  <2>1. frame.size \in Nat /\ "type" \in DOMAIN frame
    BY <1>1 DEF FrameOK, FrameTyped
  <2>2. "type" \notin DOMAIN NoFrame
    BY DEF NoFrame
  <2>3. frame.flips \subseteq FlipSites(frame) /\ Faults(frame) \in 0..MaxFaults
    BY <1>1 DEF FrameOK
  <2> QED BY <2>1, <2>2, <2>3, IngestBounds
<1>2. CASE frame = NoFrame /\ answer = NoRequest /\ enqueued = {}
  <2>1. answer.code = -1
    BY <1>2 DEF NoRequest
  <2> QED BY <1>2, <2>1 DEF IngestTypeOK, IngestInv
<1>3. CASE FrameOK(frame) /\ answer = Pending
  <2>1. answer.code = 0 /\ answer # NoRequest
    BY <1>3 DEF Pending, NoRequest
  <2> QED BY <1>1, <1>3, <2>1 DEF IngestTypeOK, IngestInv
<1>4. CASE FrameOK(frame) /\ Decided(frame, submitter, answer, enqueued)
  <2>1. CASE answer = [code |-> 400] \/ answer = [code |-> 401]
    <3>1. answer.code \in {400, 401} /\ answer # NoRequest
      BY <2>1 DEF NoRequest
    <3> QED BY <1>1, <1>4, <3>1 DEF IngestTypeOK, IngestInv
  <2>2. CASE \E t \in Type : Taken(frame, submitter, answer, enqueued, Read(frame), t)
    <3>1. PICK t \in Type : Taken(frame, submitter, answer, enqueued, Read(frame), t)
      BY <2>2
    <3>2. answer.code = 200 /\ answer.apid = Read(frame).apid /\ answer.as = t
      BY <3>1, TakenAnswer
    <3>3. Read(frame).apid \in 0..2047
      BY <1>4, <3>1, ReadShape DEF FrameOK, Taken
    <3>4. answer # NoRequest
      BY <3>2 DEF NoRequest
    <3> QED BY <1>1, <1>4, <3>2, <3>3, <3>4 DEF IngestTypeOK, IngestInv
  <2> QED BY <1>4, <2>1, <2>2, Outcomes DEF FrameOK
<1> QED BY <1>2, <1>3, <1>4 DEF IngestInv

(* Types, and the bound on what happens to one frame.                         *)
THEOREM IngestTypeCorrect == Spec => []IngestTypeOK
  BY IngestInvariant, TypeFromInv, PTL

(* The types with a signature, and how much of the body it covers.            *)
LEMMA Signed ==
    ASSUME NEW t \in Type, "sig" \in DOMAIN Vector[t]
    PROVE  \/ t = "PacketBBody" /\ Vector[t].sig = 106
           \/ t = "PacketHBody" /\ Vector[t].sig = 42
           \/ t = "PacketCBody" /\ Vector[t].sig = 26
<1>1. /\ "sig" \notin DOMAIN Vector["HeartbeatBody"] /\ "sig" \notin DOMAIN Vector["PacketABody"]
      /\ "sig" \notin DOMAIN Vector["PacketAckBodyCcsds"] /\ "sig" \notin DOMAIN Vector["PacketAckBodySnlp"]
      /\ "sig" \notin DOMAIN Vector["PacketDBody"]
      /\ Vector["PacketBBody"].sig = 106 /\ Vector["PacketHBody"].sig = 42 /\ Vector["PacketCBody"].sig = 26
  BY DEF Vector
<1> QED BY <1>1, Types

(* The types the handler tells by a CRC have one and no signature.            *)
LEMMA Checked ==
    /\ "sig" \notin DOMAIN Vector["PacketDBody"] /\ Vector["PacketDBody"].crc = 112
    /\ "sig" \notin DOMAIN Vector["PacketAckBodySnlp"] /\ Vector["PacketAckBodySnlp"].crc = 118
    /\ "sig" \notin DOMAIN Vector["PacketAckBodyCcsds"] /\ Vector["PacketAckBodyCcsds"].crc = 110
    /\ \A t \in Type : "crc" \in DOMAIN Vector[t] => Vector[t].crc \in Nat
<1>1. /\ "crc" \notin DOMAIN Vector["PacketHBody"] /\ Vector["HeartbeatBody"].crc = 30
      /\ Vector["PacketABody"].crc = 62 /\ Vector["PacketBBody"].crc = 170 /\ Vector["PacketCBody"].crc = 90
      /\ Vector["PacketDBody"].crc = 112 /\ Vector["PacketAckBodySnlp"].crc = 118
      /\ Vector["PacketAckBodyCcsds"].crc = 110
  BY DEF Vector
<1>2. /\ "sig" \notin DOMAIN Vector["PacketDBody"] /\ "sig" \notin DOMAIN Vector["PacketAckBodySnlp"]
      /\ "sig" \notin DOMAIN Vector["PacketAckBodyCcsds"]
  BY DEF Vector
<1> QED BY <1>1, <1>2, Types

(* A part of undamaged bytes is undamaged; two adjacent parts make one.       *)
LEMMA Undamaged ==
    ASSUME NEW f, FrameTyped(f), NEW lo \in Int, NEW mid \in Int, NEW hi \in Int
    PROVE  /\ AsSent(f, lo, mid) /\ AsSent(f, mid, hi) => AsSent(f, lo, hi)
           /\ \A l, u \in Int : AsSent(f, lo, hi) /\ lo <= l /\ l <= u /\ u <= hi => AsSent(f, l, u)
<1>1. f.size \in Nat /\ BuiltSize(f) \in Nat /\ \A s \in f.flips : s[1] \in Nat
  BY BuiltSizes DEF FrameTyped
<1>2. AsSent(f, lo, mid) /\ AsSent(f, mid, hi) => AsSent(f, lo, hi)
  BY <1>1 DEF AsSent
<1>3. ASSUME NEW l \in Int, NEW u \in Int, AsSent(f, lo, hi), lo <= l, l <= u, u <= hi
      PROVE  AsSent(f, l, u)
  BY <1>1, <1>3 DEF AsSent
<1> QED BY <1>2, <1>3

(* A verified signature is over what its sender signed, and stands undamaged. *)
LEMMA VerifiedSpan ==
    ASSUME NEW f, FrameTyped(f), NEW lo \in Int, NEW hi \in Int, NEW at \in Int, Ed25519Verify(f, lo, hi, at)
    PROVE  /\ "sig" \in DOMAIN Vector[f.type] /\ Vector[f.type].sig \in Nat
           /\ lo = SignedFrom(f) /\ hi = SignedTo(f) /\ at = SignedTo(f)
           /\ SignedTo(f) = HeaderLen(f.tier) + Vector[f.type].sig
           /\ AsSent(f, SignedFrom(f), SignedTo(f) + Ed25519Signature)
<1>1. "sig" \in DOMAIN Vector[f.type] /\ lo = SignedFrom(f) /\ hi = SignedTo(f) /\ at = SignedTo(f)
  BY DEF Ed25519Verify
<1>2. AsSent(f, lo, hi) /\ AsSent(f, hi, hi + Ed25519Signature)
  BY <1>1 DEF Ed25519Verify
<1>3. hi + Ed25519Signature \in Int
  BY DEF Ed25519Signature
<1>4. AsSent(f, lo, hi + Ed25519Signature)
  BY <1>2, <1>3, Undamaged
<1>5. Vector[f.type].sig \in Nat
  BY <1>1, Signed DEF FrameTyped
<1> QED BY <1>1, <1>4, <1>5 DEF SignedTo

(* A PacketB that is taken was built as one and is undamaged from the first   *)
(* byte of its header to the end of its signature.                            *)
LEMMA TakenB ==
    ASSUME NEW f, FrameOK(f), NEW p, p = Read(f), ~p.err, PacketBVerified(f, p)
    PROVE  /\ f.type = "PacketBBody" /\ p.hdr = HeaderLen(f.tier)
           /\ AsSent(f, SignedFrom(f), SignedTo(f) + Ed25519Signature)
           /\ SignedFrom(f) = 0 /\ SignedTo(f) = HeaderLen(f.tier) + 106
           /\ SatIdOf(f, p) \in DOMAIN MockDB
           /\ f.size = HeaderLen(f.tier) + 178
<1>1. FrameTyped(f) /\ f.type \in Type /\ f.size \in Nat
  BY DEF FrameOK, FrameTyped
<1>2. HeaderLen(f.tier) \in Nat /\ HeaderLen(f.tier) >= 6
  BY <1>1, BuiltSizes
<1>3. p.hdr \in Nat
  BY <1>1, ReadShape
<1> DEFINE hi == f.size - PacketBBodyLen + PacketBSigScopeBody
           at == p.hdr + 106
<1>4. hi \in Int /\ at \in Int /\ 0 \in Int
  BY <1>1, <1>3 DEF PacketBBodyLen, PacketBSigScopeBody
<1>5. FieldSpan["PacketBBody"]["Signature"][1] = 106
  BY PacketBSpans
<1>6. SatIdOf(f, p) \in DOMAIN MockDB /\ Ed25519Verify(f, 0, hi, at)
  BY <1>5 DEF PacketBVerified, VerifyPacketSignature
<1> HIDE DEF hi, at
<1>7. /\ "sig" \in DOMAIN Vector[f.type] /\ Vector[f.type].sig \in Nat
      /\ 0 = SignedFrom(f) /\ hi = SignedTo(f) /\ at = SignedTo(f) /\ SignedTo(f) = HeaderLen(f.tier) + Vector[f.type].sig
      /\ AsSent(f, SignedFrom(f), SignedTo(f) + Ed25519Signature)
  BY <1>1, <1>4, <1>6, VerifiedSpan
<1>8. f.type = "PacketBBody"
  BY <1>2, <1>7 DEF SignedFrom
<1>9. Vector[f.type].sig = 106
  BY <1>1, <1>7, <1>8, Signed
<1>10. p.hdr = HeaderLen(f.tier)
  BY <1>2, <1>3, <1>7, <1>9 DEF at
<1>11. f.size = HeaderLen(f.tier) + 178
  BY <1>1, <1>2, <1>7, <1>9 DEF hi, PacketBBodyLen, PacketBSigScopeBody
<1> QED BY <1>6, <1>7, <1>8, <1>9, <1>10, <1>11

(* A PacketC that is taken was built as one.                                  *)
LEMMA TakenC ==
    ASSUME NEW f, FrameOK(f), NEW p, p = Read(f), ~p.err, PacketCVerified(f, p)
    PROVE  /\ f.type = "PacketCBody"
           /\ AsSent(f, SignedFrom(f), SignedTo(f) + Ed25519Signature)
           /\ f.size = HeaderLen(f.tier) + 98
<1>1. FrameTyped(f) /\ f.type \in Type /\ f.size \in Nat
  BY DEF FrameOK, FrameTyped
<1>2. HeaderLen(f.tier) \in Nat
  BY <1>1, BuiltSizes
<1>3. p.hdr \in Nat
  BY <1>1, ReadShape
<1> DEFINE lo == f.size - 98
           hi == f.size - 98 + 26
           at == p.hdr + FieldSpan["PacketCBody"]["Signature"][1]
<1>4. lo \in Int /\ hi \in Int /\ at \in Int /\ hi - lo = 26
  BY <1>1, <1>3, PacketCSpan
<1>5. Ed25519Verify(f, lo, hi, at)
  BY DEF PacketCVerified, VerifyPacketSignature
<1> HIDE DEF lo, hi, at
<1>6. /\ "sig" \in DOMAIN Vector[f.type] /\ Vector[f.type].sig \in Nat
      /\ lo = SignedFrom(f) /\ hi = SignedTo(f) /\ SignedTo(f) = HeaderLen(f.tier) + Vector[f.type].sig
      /\ AsSent(f, SignedFrom(f), SignedTo(f) + Ed25519Signature)
  BY <1>1, <1>4, <1>5, VerifiedSpan
<1>7. f.type # "PacketBBody"
  <2>1. ASSUME f.type = "PacketBBody" PROVE FALSE
    <3>1. Vector[f.type].sig = 106 /\ lo = 0
      BY <1>1, <1>6, <2>1, Signed DEF SignedFrom
    <3> QED BY <1>2, <1>4, <1>6, <3>1
  <2> QED BY <2>1
<1>8. Vector[f.type].sig = 26
  BY <1>2, <1>4, <1>6, <1>7 DEF SignedFrom
<1>9. f.size = HeaderLen(f.tier) + 98
  BY <1>1, <1>2, <1>6, <1>7 DEF lo, SignedFrom
<1> QED BY <1>1, <1>6, <1>7, <1>8, <1>9, Signed

(* A frame whose CRC is accepted was built as the type it is read as.         *)
LEMMA TakenChecked ==
    ASSUME NEW f, FrameOK(f), NEW p, p = Read(f), ~p.err, NEW t, p.body = {t},
           NEW off \in Int, ValidateFrameCRC32(f, off)
    PROVE  /\ f.type = t
           /\ AsSent(f, 0, HeaderLen(f.tier) + Vector[f.type].crc + 4)
<1>1. FrameTyped(f) /\ f.type \in Type
  BY DEF FrameOK, FrameTyped
<1>2. HeaderLen(f.tier) \in Nat
  BY <1>1, BuiltSizes
<1>3. Vector[f.type].crc \in Nat /\ off = HeaderLen(f.tier) + Vector[f.type].crc /\ AsSent(f, 0, off + 4)
  BY <1>1, Checked DEF ValidateFrameCRC32
<1>4. AsSent(f, 0, HeaderLen(f.tier) + 1)
  <2>1. off + 4 \in Int /\ HeaderLen(f.tier) + 1 \in Int /\ HeaderLen(f.tier) + 1 <= off + 4 /\ 0 \in Int
    BY <1>2, <1>3
  <2> QED BY <1>1, <1>2, <1>3, <2>1, Undamaged
<1>5. p.body = {f.type}
  BY <1>4, ReadIntact DEF ReadAsBuilt
<1> QED BY <1>3, <1>5

(* What a signature or a CRC vouches for is taken only as what it was built.  *)
LEMMA BuiltAsTaken == IngestInv => AuthenticatedAsBuilt
<1> SUFFICES ASSUME IngestInv, Accepted,
                    answer.as \in Type \ {"HeartbeatBody", "PacketABody", "PacketHBody"}
             PROVE  /\ answer.as = frame.type
                    /\ IF "sig" \in DOMAIN Vector[frame.type]
                         THEN AsSent(frame, SignedFrom(frame), SignedTo(frame) + Ed25519Signature)
                         ELSE AsSent(frame, 0, HeaderLen(frame.tier) + Vector[frame.type].crc + 4)
  BY DEF AuthenticatedAsBuilt
<1>1. FrameOK(frame)
  BY AcceptedTaken
<1>2. PICK t \in Type : Taken(frame, submitter, answer, enqueued, Read(frame), t)
  BY AcceptedTaken
<1>3. PICK p : p = Read(frame)
  OBVIOUS
<1>4. answer.as = t /\ ~p.err /\ p.body = {t} /\ handlePayloadBody(t, frame, p) = 200
  BY <1>2, <1>3, TakenAnswer DEF Taken
<1>5. frame.size \in Nat
  BY <1>1 DEF FrameOK, FrameTyped
<1>6. CASE t = "PacketBBody"
  <2>1. PacketBVerified(frame, p)
    BY <1>4, <1>6 DEF handlePayloadBody
  <2>2. frame.type = t /\ AsSent(frame, SignedFrom(frame), SignedTo(frame) + Ed25519Signature)
    BY <1>1, <1>3, <1>4, <1>6, <2>1, TakenB
  <2>3. "sig" \in DOMAIN Vector["PacketBBody"]
    BY DEF Vector
  <2> QED BY <1>4, <1>6, <2>2, <2>3
<1>7. CASE t = "PacketCBody"
  <2>1. PacketCVerified(frame, p)
    BY <1>4, <1>7 DEF handlePayloadBody
  <2>2. frame.type = t /\ AsSent(frame, SignedFrom(frame), SignedTo(frame) + Ed25519Signature)
    BY <1>1, <1>3, <1>4, <1>7, <2>1, TakenC
  <2>3. "sig" \in DOMAIN Vector["PacketCBody"]
    BY DEF Vector
  <2> QED BY <1>4, <1>7, <2>2, <2>3
<1>8. CASE t \in {"PacketDBody", "PacketAckBodySnlp", "PacketAckBodyCcsds"}
  <2>1. PICK off \in Int : ValidateFrameCRC32(frame, off)
    <3>1. CASE t = "PacketDBody"
      <4>1. ValidateFrameCRC32(frame, frame.size - PacketDCrcOffsetFromEnd)
        BY <1>4, <3>1 DEF handlePayloadBody
      <4>2. frame.size - PacketDCrcOffsetFromEnd \in Int
        BY <1>5 DEF PacketDCrcOffsetFromEnd
      <4> QED BY <4>1, <4>2
    <3>2. CASE t \in {"PacketAckBodySnlp", "PacketAckBodyCcsds"}
      <4>1. ValidateFrameCRC32(frame, frame.size - PacketAckCrcOffsetFromEnd)
        BY <1>4, <3>2 DEF handlePayloadBody
      <4>2. frame.size - PacketAckCrcOffsetFromEnd \in Int
        BY <1>5 DEF PacketAckCrcOffsetFromEnd
      <4> QED BY <4>1, <4>2
    <3> QED BY <1>8, <3>1, <3>2
  <2>2. frame.type = t /\ AsSent(frame, 0, HeaderLen(frame.tier) + Vector[frame.type].crc + 4)
    BY <1>1, <1>3, <1>4, <2>1, TakenChecked
  <2>3. "sig" \notin DOMAIN Vector[t]
    BY <1>8, Checked
  <2> QED BY <1>4, <2>2, <2>3
<1> QED BY <1>4, <1>6, <1>7, <1>8, Types

(* ingest.go:213-226, crc.go:11-18: for any number of flipped bits, wherever  *)
(* they fall, and any cut, a signed or CRC-checked type is accepted only from *)
(* a frame built as it, with everything the signature or CRC covers as sent.  *)
THEOREM IngestAuthenticatedAsBuilt == Spec => []AuthenticatedAsBuilt
  BY IngestInvariant, BuiltAsTaken, PTL

(* An accepted frame of a checked type has its length, and one with no bit     *)
(* flipped is not shorter than it was built.                                  *)
LEMMA LengthKept == IngestInv => LengthAsBuilt
<1> SUFFICES ASSUME IngestInv, Accepted
             PROVE  /\ answer.as \notin {"HeartbeatBody", "PacketABody", "PacketHBody"}
                         => frame.size = BuiltSize(frame)
                    /\ frame.flips = {} => answer.as = frame.type /\ frame.size >= BuiltSize(frame)
  BY DEF LengthAsBuilt
<1>10. FrameOK(frame)
  BY AcceptedTaken
<1>1. FrameOK(frame) /\ FrameTyped(frame) /\ frame.size \in Nat /\ frame.type \in Type
  BY AcceptedTaken DEF FrameOK, FrameTyped
<1>2. PICK t \in Type : Taken(frame, submitter, answer, enqueued, Read(frame), t)
  BY AcceptedTaken
<1>3. PICK p : p = Read(frame)
  OBVIOUS
<1>4. answer.as = t /\ ~p.err /\ p.body = {t} /\ handlePayloadBody(t, frame, p) = 200
  BY <1>2, <1>3, TakenAnswer DEF Taken
<1>5. PICK H \in Nat : H = HeaderLen(frame.tier) /\ H <= 14 /\ BuiltSize(frame) = H + Vector[frame.type].len
  <2>1. /\ HeaderLen(frame.tier) \in Nat /\ HeaderLen(frame.tier) <= 14
        /\ BuiltSize(frame) = HeaderLen(frame.tier) + Vector[frame.type].len
    BY <1>1, BuiltSizes
  <2> QED BY <2>1
<1>6. CASE t = "PacketBBody"
  <2>1. PacketBVerified(frame, p)
    BY <1>4, <1>6 DEF handlePayloadBody
  <2>2. frame.type = t /\ frame.size = H + 178
    BY <1>1, <1>3, <1>4, <1>5, <1>6, <2>1, TakenB
  <2>3. Vector["PacketBBody"].len = 178
    BY DEF Vector
  <2> QED BY <1>1, <1>4, <1>5, <1>6, <2>2, <2>3
<1>7. CASE t = "PacketCBody"
  <2>1. PacketCVerified(frame, p)
    BY <1>4, <1>7 DEF handlePayloadBody
  <2>2. frame.type = t /\ frame.size = H + 98
    BY <1>1, <1>3, <1>4, <1>5, <1>7, <2>1, TakenC
  <2>3. Vector["PacketCBody"].len = 98
    BY DEF Vector
  <2> QED BY <1>1, <1>4, <1>5, <1>7, <2>2, <2>3
<1>8. CASE t \in {"PacketDBody", "PacketAckBodySnlp", "PacketAckBodyCcsds"}
  <2>1. PICK k \in Nat : /\ ValidateFrameCRC32(frame, frame.size - k)
                         /\ Vector[t].crc + k = Vector[t].len /\ Vector[t].crc \in Nat
    <3>1. CASE t = "PacketDBody"
      <4>1. ValidateFrameCRC32(frame, frame.size - 10)
        BY <1>4, <3>1 DEF handlePayloadBody, PacketDCrcOffsetFromEnd
      <4>2. Vector["PacketDBody"].crc = 112 /\ Vector["PacketDBody"].len = 122
        BY DEF Vector
      <4> QED BY <3>1, <4>1, <4>2
    <3>2. CASE t \in {"PacketAckBodySnlp", "PacketAckBodyCcsds"}
      <4>1. ValidateFrameCRC32(frame, frame.size - 4)
        BY <1>4, <3>2 DEF handlePayloadBody, PacketAckCrcOffsetFromEnd
      <4>2. /\ Vector["PacketAckBodySnlp"].crc = 118 /\ Vector["PacketAckBodySnlp"].len = 122
            /\ Vector["PacketAckBodyCcsds"].crc = 110 /\ Vector["PacketAckBodyCcsds"].len = 114
        BY DEF Vector
      <4> QED BY <3>2, <4>1, <4>2
    <3> QED BY <1>8, <3>1, <3>2
  <2>2. PICK off \in Int : off = frame.size - k
    BY <1>1
  <2>3. frame.type = t
    <3>1. ValidateFrameCRC32(frame, off) /\ p.body = {t} /\ ~p.err
      BY <1>4, <2>1, <2>2
    <3> QED BY <1>3, <1>10, <3>1, TakenChecked
  <2>4. frame.size - k = H + Vector[t].crc
    BY <1>5, <2>1, <2>3 DEF ValidateFrameCRC32
  <2>5. frame.size = BuiltSize(frame)
    BY <1>1, <1>5, <2>1, <2>3, <2>4
  <2> QED BY <1>1, <1>4, <2>3, <2>5
<1>9. CASE t \in {"HeartbeatBody", "PacketABody", "PacketHBody"}
  <2> SUFFICES ASSUME frame.flips = {} PROVE t = frame.type /\ frame.size >= BuiltSize(frame)
    BY <1>4, <1>9
  <2>1. /\ p.hdr \in Nat /\ p.hdr >= 6 /\ frame.size >= p.hdr + Vector[t].len /\ Vector[t].len \in 34..178
    BY <1>1, <1>3, <1>4, ReadShape, LayoutLens, VectorTyped
  <2>2. 0 <= H + 1 /\ H + 1 <= frame.size /\ H + 1 <= BuiltSize(frame)
    <3>1. Vector[frame.type].len \in 34..178
      BY <1>1, VectorTyped
    <3> QED BY <1>1, <1>5, <2>1, <3>1
  <2>3. AsSent(frame, 0, HeaderLen(frame.tier) + 1)
    BY <1>5, <2>2 DEF AsSent
  <2>4. p.body = {frame.type} /\ p.hdr = H
    <3>1. ReadAsBuilt(frame, p)
      BY <1>3, <1>4, <1>10, <2>3, ReadIntact
    <3> QED BY <1>5, <3>1 DEF ReadAsBuilt
  <2> QED BY <1>4, <1>5, <2>1, <2>4
<1> QED BY <1>6, <1>7, <1>8, <1>9, Types

(* Neither flipped bits nor cuts get a frame of the wrong length past the      *)
(* offsets from the end (ingest.go:157, :196, :236, :253), for any number of  *)
(* faults; a frame that was only cut is bounced whatever its type.            *)
THEOREM IngestLengthAsBuilt == Spec => []LengthAsBuilt
  BY IngestInvariant, LengthKept, PTL

(* The registry, with the demo key loaded.                                    *)
LEMMA Registry ==
    /\ DOMAIN MockDB = {"sat100", "sat101", "flatSat"}
    /\ MockDB["sat100"].PubKeyHex = DemoKey /\ MockDB["sat100"].Wallet = "seller"
    /\ MockDB["sat101"].PubKeyHex # DemoKey
    /\ MockDB["flatSat"].PubKeyHex = DemoKey /\ MockDB["flatSat"].Wallet = "demo"
  BY DEF MockDB, LoadFlatSatDemoKey, Initialize, DemoKey

(* Under an undamaged header and body the fields of a PacketB are as sent.    *)
LEMMA FieldsAsSent ==
    ASSUME NEW f, FrameTyped(f), NEW p, f.type = "PacketBBody", p.hdr = HeaderLen(f.tier),
           AsSent(f, 0, HeaderLen(f.tier) + 106)
    PROVE  /\ FieldAsSent(f, p, "PacketBBody", "EpochTs") /\ FieldAsSent(f, p, "PacketBBody", "EncPayload")
           /\ FieldAsSent(f, p, "PacketBBody", "SatId")
<1>1. PICK H \in Nat : H = HeaderLen(f.tier)
  BY BuiltSizes
<1>2. AsSent(f, H + 2, H + 10) /\ AsSent(f, H + 34, H + 96) /\ AsSent(f, H + 98, H + 102)
  <2>1. \A l, u \in Int : 0 <= l /\ l <= u /\ u <= H + 106 => AsSent(f, l, u)
    <3>1. AsSent(f, 0, H + 106) /\ 0 \in Int /\ H + 106 \in Int
      BY <1>1
    <3> QED BY <3>1, Undamaged
  <2>2. /\ H + 2 \in Int /\ H + 10 \in Int /\ H + 34 \in Int /\ H + 96 \in Int /\ H + 98 \in Int /\ H + 102 \in Int
        /\ 0 <= H + 2 /\ H + 2 <= H + 10 /\ H + 10 <= H + 106
        /\ 0 <= H + 34 /\ H + 34 <= H + 96 /\ H + 96 <= H + 106
        /\ 0 <= H + 98 /\ H + 98 <= H + 102 /\ H + 102 <= H + 106
    OBVIOUS
  <2> QED BY <2>1, <2>2
<1>3. /\ FieldSpan["PacketBBody"]["EpochTs"][1] = 2 /\ FieldSpan["PacketBBody"]["EpochTs"][2] = 10
      /\ FieldSpan["PacketBBody"]["EncPayload"][1] = 34 /\ FieldSpan["PacketBBody"]["EncPayload"][2] = 96
      /\ FieldSpan["PacketBBody"]["SatId"][1] = 98 /\ FieldSpan["PacketBBody"]["SatId"][2] = 102
  BY PacketBSpans
<1> QED BY <1>1, <1>2, <1>3 DEF FieldAsSent

(* What is enqueued comes out of a PacketB that was verified.                 *)
LEMMA SignedEnqueued == IngestInv => EnqueuedAsSigned
<1> SUFFICES ASSUME IngestInv, NEW intent \in enqueued
             PROVE  /\ submitter /\ Accepted /\ answer.as = "PacketBBody"
                    /\ intent.paid /\ intent.nonce
                    /\ intent.sat = frame.sat /\ intent.wallet = MockDB[frame.sat].Wallet
                    /\ AsSent(frame, 0, HeaderLen(frame.tier) + PacketBSigScopeBody)
  BY DEF EnqueuedAsSigned
<1>1. FrameOK(frame) /\ Decided(frame, submitter, answer, enqueued)
  BY DEF IngestInv
<1>2. PICK t \in Type : Taken(frame, submitter, answer, enqueued, Read(frame), t)
  BY <1>1, Outcomes DEF FrameOK
<1>3. PICK p : p = Read(frame)
  OBVIOUS
<1>4. answer.code = 200 /\ answer.as = t /\ ~p.err /\ handlePayloadBody(t, frame, p) = 200
  BY <1>2, <1>3, TakenAnswer DEF Taken
<1>5. t = "PacketBBody" /\ submitter /\ intent \in enqueueSettlementIntent(frame, p)
  BY <1>2, <1>3 DEF Taken
<1>6. PacketBVerified(frame, p)
  BY <1>4, <1>5 DEF handlePayloadBody
<1>7. /\ frame.type = "PacketBBody" /\ p.hdr = HeaderLen(frame.tier)
      /\ AsSent(frame, 0, HeaderLen(frame.tier) + 106 + Ed25519Signature)
      /\ SatIdOf(frame, p) \in DOMAIN MockDB
  BY <1>1, <1>3, <1>4, <1>6, TakenB
<1>8. AsSent(frame, 0, HeaderLen(frame.tier) + 106)
  <2>1. PICK H \in Nat : H = HeaderLen(frame.tier)
    BY <1>1, BuiltSizes DEF FrameOK
  <2>2. /\ H + 106 \in Int /\ H + 106 + Ed25519Signature \in Int /\ 0 \in Int
        /\ 0 <= H + 106 /\ H + 106 <= H + 106 + Ed25519Signature /\ 0 <= 0
    BY DEF Ed25519Signature
  <2>3. FrameTyped(frame)
    BY <1>1 DEF FrameOK
  <2> QED BY <1>7, <2>1, <2>2, <2>3, Undamaged
<1>9. /\ FieldAsSent(frame, p, "PacketBBody", "EpochTs") /\ FieldAsSent(frame, p, "PacketBBody", "EncPayload")
      /\ FieldAsSent(frame, p, "PacketBBody", "SatId")
  BY <1>1, <1>7, <1>8, FieldsAsSent DEF FrameOK
<1>10. SatIdOf(frame, p) = frame.sat
  BY <1>9 DEF SatIdOf
<1>11. intent = [sat |-> frame.sat, wallet |-> MockDB[frame.sat].Wallet,
                 paid |-> FieldAsSent(frame, p, "PacketBBody", "EncPayload"),
                 nonce |-> FieldAsSent(frame, p, "PacketBBody", "EpochTs")]
  BY <1>5, <1>10 DEF enqueueSettlementIntent
<1>12. intent.paid /\ intent.nonce /\ intent.sat = frame.sat /\ intent.wallet = MockDB[frame.sat].Wallet
  BY <1>9, <1>11
<1> QED BY <1>4, <1>5, <1>8, <1>12 DEF Accepted, PacketBSigScopeBody

(* ingest.go:enqueueSettlementIntent: what reaches the submitter is what a    *)
(* registered satellite signed, whatever happens to the frames on their way.  *)
THEOREM IngestEnqueuedAsSigned == Spec => []EnqueuedAsSigned
  BY IngestInvariant, SignedEnqueued, PTL

(* An undisturbed frame.                                                      *)
LEMMA NoFaults ==
    ASSUME NEW f, FrameOK(f), Faults(f) = 0
    PROVE  /\ f.flips = {} /\ f.size = BuiltSize(f)
           /\ \A lo, hi \in Int : 0 <= lo /\ lo <= hi /\ hi <= f.size => AsSent(f, lo, hi)
<1>1. FrameTyped(f) /\ IsFiniteSet(f.flips)
  BY DEF FrameOK
<1>2. Cardinality(f.flips) \in Nat
  BY <1>1, FS_CardinalityType
<1>3. Cardinality(f.flips) = 0 /\ f.size = BuiltSize(f)
  BY <1>2 DEF Faults
<1>4. f.flips = {}
  BY <1>1, <1>3, FS_EmptySet
<1> QED BY <1>3, <1>4 DEF AsSent

(* An intact PacketB passes when its sat_id is registered with the demo key.  *)
LEMMA IntactB ==
    ASSUME NEW f, FrameOK(f), Faults(f) = 0, NEW p, ReadAsBuilt(f, p), f.type = "PacketBBody"
    PROVE  /\ SatIdOf(f, p) = f.sat
           /\ PacketBVerified(f, p) <=> f.sat \in {"sat100", "flatSat"}
<1>1. FrameTyped(f)
  BY DEF FrameOK
<1>2. PICK H \in Nat : H = HeaderLen(f.tier)
  BY <1>1, BuiltSizes
<1>3. Vector[f.type].len = 178 /\ Vector[f.type].sig = 106 /\ "sig" \in DOMAIN Vector[f.type]
  BY DEF Vector
<1>4. f.size = H + 178 /\ \A lo, hi \in Int : 0 <= lo /\ lo <= hi /\ hi <= f.size => AsSent(f, lo, hi)
  BY <1>2, <1>3, NoFaults DEF BuiltSize
<1>5. AsSent(f, 0, H + 106) /\ AsSent(f, H + 106, H + 106 + 64)
  <2>1. /\ 0 \in Int /\ H + 106 \in Int /\ H + 106 + 64 \in Int /\ 0 <= 0 /\ 0 <= H + 106
        /\ H + 106 <= H + 106 + 64 /\ H + 106 <= f.size /\ H + 106 + 64 <= f.size
    BY <1>4
  <2> QED BY <1>4, <2>1
<1>6. p.hdr = H
  BY <1>2 DEF ReadAsBuilt
<1>7. SatIdOf(f, p) = f.sat
  BY <1>1, <1>2, <1>5, <1>6, FieldsAsSent DEF SatIdOf
<1>8. SignedFrom(f) = 0 /\ SignedTo(f) = H + 106
  BY <1>2, <1>3 DEF SignedFrom, SignedTo
<1>9. FieldSpan["PacketBBody"]["Signature"][1] = 106
  BY PacketBSpans
<1>10. f.size - PacketBBodyLen + PacketBSigScopeBody = H + 106 /\ f.size >= PacketBBodyLen
  BY <1>4 DEF PacketBBodyLen, PacketBSigScopeBody
<1>11. Ed25519Verify(f, 0, H + 106, H + 106)
  BY <1>3, <1>5, <1>8 DEF Ed25519Verify, Ed25519Signature
<1>12. PacketBVerified(f, p) <=> VerifyPacketSignature(f.sat, f, 0, H + 106, H + 106)
  BY <1>6, <1>7, <1>9, <1>10 DEF PacketBVerified
<1>13. PacketBVerified(f, p) <=> f.sat \in DOMAIN MockDB /\ MockDB[f.sat].PubKeyHex = DemoKey
  BY <1>11, <1>12 DEF VerifyPacketSignature
<1> QED BY <1>7, <1>13, Registry

(* An intact PacketC passes.                                                  *)
LEMMA IntactC ==
    ASSUME NEW f, FrameOK(f), Faults(f) = 0, NEW p, ReadAsBuilt(f, p), f.type = "PacketCBody"
    PROVE  f.size >= 98 /\ PacketCVerified(f, p)
<1>1. FrameTyped(f)
  BY DEF FrameOK
<1>2. PICK H \in Nat : H = HeaderLen(f.tier)
  BY <1>1, BuiltSizes
<1>3. Vector[f.type].len = 98 /\ Vector[f.type].sig = 26 /\ "sig" \in DOMAIN Vector[f.type]
  BY DEF Vector
<1>4. f.size = H + 98 /\ \A lo, hi \in Int : 0 <= lo /\ lo <= hi /\ hi <= f.size => AsSent(f, lo, hi)
  BY <1>2, <1>3, NoFaults DEF BuiltSize
<1>5. AsSent(f, H, H + 26) /\ AsSent(f, H + 26, H + 26 + 64)
  <2>1. /\ H \in Int /\ H + 26 \in Int /\ H + 26 + 64 \in Int /\ 0 <= H /\ 0 <= H + 26 /\ H <= H + 26
        /\ H + 26 <= H + 26 + 64 /\ H + 26 <= f.size /\ H + 26 + 64 <= f.size
    BY <1>4
  <2> QED BY <1>4, <2>1
<1>6. p.hdr = H /\ f.size - 98 = H /\ f.size >= 98
  BY <1>2, <1>4 DEF ReadAsBuilt
<1>7. SignedFrom(f) = H /\ SignedTo(f) = H + 26
  BY <1>2, <1>3 DEF SignedFrom, SignedTo
<1>8. FieldSpan["PacketCBody"]["Signature"][1] = 26
  BY PacketCSpan
<1>9. Ed25519Verify(f, H, H + 26, H + 26)
  BY <1>3, <1>5, <1>7 DEF Ed25519Verify, Ed25519Signature
<1>10. VerifyPacketSignature("sat100", f, H, H + 26, H + 26)
  BY <1>9, Registry DEF VerifyPacketSignature
<1> QED BY <1>6, <1>8, <1>10 DEF PacketCVerified

(* So do an intact PacketD and an intact ACK.                                 *)
LEMMA IntactChecked ==
    ASSUME NEW f, FrameOK(f), Faults(f) = 0, NEW p, ReadAsBuilt(f, p),
           f.type \in {"PacketDBody", "PacketAckBodySnlp", "PacketAckBodyCcsds"}
    PROVE  handlePayloadBody(f.type, f, p) = 200
<1>1. FrameTyped(f) /\ f.type \in Type
  BY Types DEF FrameOK
<1>2. PICK H \in Nat : H = HeaderLen(f.tier)
  BY <1>1, BuiltSizes
<1>3. f.size = H + Vector[f.type].len /\ \A lo, hi \in Int : 0 <= lo /\ lo <= hi /\ hi <= f.size => AsSent(f, lo, hi)
  BY <1>2, NoFaults DEF BuiltSize
<1>4. p.hdr = H
  BY <1>2 DEF ReadAsBuilt
<1>5. ByteAt(f, H) = Magic(f.type)
  <2>1. Vector[f.type].len \in 34..178
    BY <1>1, VectorTyped
  <2>2. 0 \in Int /\ H + 1 \in Int /\ 0 <= 0 /\ 0 <= H + 1 /\ H + 1 <= f.size
    BY <1>3, <2>1, SMTT(30)
  <2>3. AsSent(f, 0, H + 1)
    BY <1>3, <2>2
  <2> QED BY <1>2, <2>3, ReadIntact
<1>6. ASSUME NEW k \in Nat, k >= 4, Vector[f.type].crc + k = Vector[f.type].len,
             Vector[f.type].crc \in Nat, "crc" \in DOMAIN Vector[f.type]
      PROVE  ValidateFrameCRC32(f, f.size - k)
  <2>1. f.size - k = H + Vector[f.type].crc /\ f.size - k >= 0 /\ f.size - k + 4 <= f.size
    BY <1>3, <1>6
  <2>2. 0 \in Int /\ f.size - k + 4 \in Int /\ 0 <= 0 /\ 0 <= f.size - k + 4
    BY <1>3, <1>6
  <2>3. AsSent(f, 0, f.size - k + 4)
    BY <1>3, <2>1, <2>2
  <2> QED BY <1>2, <1>6, <2>1, <2>3 DEF ValidateFrameCRC32
<1>7. CASE f.type = "PacketDBody"
  <2>1. /\ Vector[f.type].crc = 112 /\ Vector[f.type].len = 122 /\ "crc" \in DOMAIN Vector[f.type]
    BY <1>7 DEF Vector
  <2>2. ValidateFrameCRC32(f, f.size - 10)
    BY <1>6, <2>1
  <2>3. ByteAt(f, p.hdr) = 208
    BY <1>1, <1>4, <1>5, <1>7, BodyHeads
  <2> QED BY <1>7, <2>2, <2>3 DEF handlePayloadBody, MagicPacketD, PacketDCrcOffsetFromEnd
<1>8. CASE f.type \in {"PacketAckBodySnlp", "PacketAckBodyCcsds"}
  <2>1. /\ Vector["PacketAckBodySnlp"].crc = 118 /\ Vector["PacketAckBodySnlp"].len = 122
        /\ Vector["PacketAckBodyCcsds"].crc = 110 /\ Vector["PacketAckBodyCcsds"].len = 114
        /\ "crc" \in DOMAIN Vector["PacketAckBodySnlp"] /\ "crc" \in DOMAIN Vector["PacketAckBodyCcsds"]
    BY DEF Vector
  <2>2. ValidateFrameCRC32(f, f.size - 4)
    BY <1>6, <1>8, <2>1
  <2>3. ByteAt(f, p.hdr) = 172
    BY <1>1, <1>4, <1>5, <1>8, BodyHeads
  <2> QED BY <1>8, <2>2, <2>3 DEF handlePayloadBody, MagicPacketAck, PacketAckCrcOffsetFromEnd
<1> QED BY <1>7, <1>8

(* What IngestPacket makes of an intact frame.                                *)
LEMMA AcceptsIntact == IngestInv => IntactAccepted
<1> DEFINE known == frame.type = "PacketBBody" => frame.sat \in {"sat100", "flatSat"}
<1> SUFFICES ASSUME IngestInv, Answered, Faults(frame) = 0
             PROVE  /\ Accepted <=> known
                    /\ Accepted => /\ answer.as = frame.type /\ answer.tier = frame.tier
                                   /\ answer.apid = Vector[frame.type].apid
                    /\ enqueued # {} <=> frame.type = "PacketBBody" /\ known /\ submitter
  BY DEF IntactAccepted
<1>1. FrameOK(frame) /\ Decided(frame, submitter, answer, enqueued)
  BY DEF IngestInv, Answered, NoRequest, Pending
<1>2. FrameTyped(frame) /\ frame.type \in Type /\ frame.tier \in {"ccsds", "snlp"}
  BY <1>1 DEF FrameOK, FrameTyped
<1>3. PICK p : p = Read(frame)
  OBVIOUS
<1>4. PICK t : t = frame.type
  OBVIOUS
<1>5. ReadAsBuilt(frame, p)
  <2>1. /\ frame.size = BuiltSize(frame) /\ BuiltSize(frame) \in Nat /\ HeaderLen(frame.tier) \in Nat
        /\ BuiltSize(frame) >= HeaderLen(frame.tier) + 34
        /\ \A lo, hi \in Int : 0 <= lo /\ lo <= hi /\ hi <= frame.size => AsSent(frame, lo, hi)
    BY <1>1, <1>2, NoFaults, BuiltSizes
  <2>2. /\ 0 \in Int /\ HeaderLen(frame.tier) + 1 \in Int /\ 0 <= 0 /\ 0 <= HeaderLen(frame.tier) + 1
        /\ HeaderLen(frame.tier) + 1 <= frame.size /\ frame.size >= BuiltSize(frame)
    BY <2>1
  <2>3. AsSent(frame, 0, HeaderLen(frame.tier) + 1)
    BY <2>1, <2>2
  <2> QED BY <1>1, <1>3, <2>2, <2>3, ReadIntact
<1>6. handlePayloadBody(t, frame, p) = 200 <=> known
  <2>1. CASE t = "PacketBBody"
    <3>1. PacketBVerified(frame, p) <=> known
      BY <1>1, <1>4, <1>5, <2>1, IntactB
    <3> HIDE DEF known
    <3> QED BY <2>1, <3>1 DEF handlePayloadBody
  <2>2. CASE t = "PacketCBody"
    <3>1. frame.size >= 98 /\ PacketCVerified(frame, p) /\ frame.size \in Nat
      BY <1>1, <1>2, <1>4, <1>5, <2>2, IntactC DEF FrameTyped
    <3>2. ~(frame.size < 98) /\ known
      BY <1>4, <2>2, <3>1
    <3> HIDE DEF known
    <3> QED BY <2>2, <3>1, <3>2 DEF handlePayloadBody
  <2>3. CASE t \in {"PacketDBody", "PacketAckBodySnlp", "PacketAckBodyCcsds"}
    <3>1. known
      BY <1>4, <2>3
    <3> HIDE DEF known
    <3> QED BY <1>1, <1>4, <1>5, <2>3, <3>1, IntactChecked
  <2>4. CASE t \in {"HeartbeatBody", "PacketABody", "PacketHBody"}
    BY <1>4, <2>4 DEF handlePayloadBody
  <2> QED BY <1>2, <1>4, <2>1, <2>2, <2>3, <2>4, Types
<1>7. t = "PacketBBody" /\ known => enqueueSettlementIntent(frame, p) # {}
  <2> SUFFICES ASSUME t = "PacketBBody", known PROVE enqueueSettlementIntent(frame, p) # {}
    OBVIOUS
  <2>1. SatIdOf(frame, p) = frame.sat /\ frame.sat \in {"sat100", "flatSat"}
    BY <1>1, <1>4, <1>5, IntactB
  <2>2. frame.sat \in DOMAIN MockDB /\ MockDB[frame.sat].Wallet # ""
    BY <2>1, Registry
  <2> QED BY <2>1, <2>2 DEF enqueueSettlementIntent
<1>8. ~p.err /\ p.version = 0 /\ p.body = {t} /\ p.snlp = (frame.tier = "snlp") /\ p.apid = Vector[t].apid
  BY <1>4, <1>5 DEF ReadAsBuilt
<1> HIDE DEF known
<1>9. CASE (answer = [code |-> 400] \/ answer = [code |-> 401]) /\ enqueued = {}
  <2>1. ~Accepted
    BY <1>9 DEF Accepted
  <2>2. t = CHOOSE u \in p.body : TRUE
    BY <1>8
  <2>3. handlePayloadBody(t, frame, p) # 200
    <3>1. SUFFICES ASSUME handlePayloadBody(t, frame, p) = 200 PROVE FALSE
      OBVIOUS
    <3>2. answer = [code |-> 200, apid |-> p.apid, as |-> t, tier |-> IF p.snlp THEN "snlp" ELSE "ccsds"]
      BY <1>1, <1>3, <1>8, <2>2, <3>1 DEF Decided
    <3>3. answer.code = 200
      BY <3>2
    <3> QED BY <2>1, <3>3 DEF Accepted
  <2> QED BY <1>6, <1>9, <2>1, <2>3
<1>10. CASE \E u \in Type : Taken(frame, submitter, answer, enqueued, Read(frame), u)
  <2>1. PICK u \in Type : Taken(frame, submitter, answer, enqueued, p, u)
    BY <1>3, <1>10
  <2>2. u = t
    BY <1>8, <2>1 DEF Taken
  <2>3. Accepted /\ known
    BY <1>6, <2>1, <2>2, TakenAnswer DEF Taken, Accepted
  <2>4. answer.as = t /\ answer.apid = Vector[t].apid /\ answer.tier = IF p.snlp THEN "snlp" ELSE "ccsds"
    BY <1>8, <2>1, <2>2, TakenAnswer
  <2>5. answer.tier = frame.tier
    BY <1>2, <1>8, <2>4
  <2>6. enqueued = IF t = "PacketBBody" /\ submitter THEN enqueueSettlementIntent(frame, p) ELSE {}
    BY <2>1, <2>2 DEF Taken
  <2> QED BY <1>4, <1>7, <2>3, <2>4, <2>5, <2>6
<1> QED BY <1>1, <1>2, <1>9, <1>10, Outcomes

(* A frame that arrives as it was built is taken for what it is, a PacketB    *)
(* exactly when its sat_id is registered with the signer's key, and handed on *)
(* whenever there is a submitter (ingest.go, void_protocol.go).               *)
THEOREM IngestIntactAccepted == Spec => []IntactAccepted
  BY IngestInvariant, AcceptsIntact, PTL
=============================================================================
