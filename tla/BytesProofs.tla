---------------------------- MODULE BytesProofs ----------------------------
(***************************************************************************)
(* The code below the protocol, for every value of its constants: what was *)
(* packed is what is unpacked, wherever a frame is cut; the streaming of a *)
(* digest loses no byte and pads as FIPS 180-4 does; and the tree's claims *)
(* are told apart.                                                         *)
(***************************************************************************)
EXTENDS FrameCodec, Sha256Stream, SeederConstruct, MerkleClaims, MerkleProofs

-----------------------------------------------------------------------------
(* Frames.                                                                   *)

\* The bytes are the beginning of those that were sent.
FrameInv ==
  /\ header \in Headers /\ info \in Infos
  /\ wire \in Seq(UInt8) /\ Len(wire) <= Len(Sent)
  /\ \A k \in 1..Len(wire) : wire[k] = Sent[k]

-----------------------------------------------------------------------------
(* Numbers.                                                                  *)

\* A part of a sequence.
LEMMA PartOfSeq ==
  ASSUME NEW S, NEW s \in Seq(S), NEW m \in Nat, NEW n \in Nat, 1 <= m, m <= n + 1, n <= Len(s)
  PROVE  /\ SubSeq(s, m, n) \in Seq(S) /\ Len(SubSeq(s, m, n)) = n + 1 - m
         /\ \A k \in 1..(n + 1 - m) : SubSeq(s, m, n)[k] = s[m + k - 1]
<1>1. \A k \in m..n : s[k] \in S
  OBVIOUS
<1>. QED
  BY <1>1

\* Two bytes are a word.
LEMMA Word16 ==
  ASSUME NEW v \in UInt16
  PROVE  Lo(v) \in UInt8 /\ Hi(v) \in UInt8 /\ get16(Lo(v), Hi(v)) = v
BY DEF Lo, Hi, get16, UInt8, UInt16

\* Two words are a long.
LEMMA Word32 ==
  ASSUME NEW v \in UInt32
  PROVE  /\ Low(v) \in UInt16 /\ High(v) \in UInt16
         /\ Lo(Low(v)) \in UInt8 /\ Hi(Low(v)) \in UInt8 /\ Lo(High(v)) \in UInt8 /\ Hi(High(v)) \in UInt8
         /\ get32(Lo(Low(v)), Hi(Low(v)), Lo(High(v)), Hi(High(v))) = v
<1>1. Low(v) \in UInt16 /\ High(v) \in UInt16 /\ v = Low(v) + 65536 * High(v)
  BY DEF Low, High, UInt32, UInt16
<1>2. /\ Lo(Low(v)) \in UInt8 /\ Hi(Low(v)) \in UInt8
      /\ get16(Lo(Low(v)), Hi(Low(v))) = Low(v)
  BY <1>1, Word16
<1>3. /\ Lo(High(v)) \in UInt8 /\ Hi(High(v)) \in UInt8
      /\ get16(Lo(High(v)), Hi(High(v))) = High(v)
  BY <1>1, Word16
<1>. QED
  BY <1>1, <1>2, <1>3 DEF get32

-----------------------------------------------------------------------------
(* The three layouts.                                                        *)

\* A header is eight bytes, and they are unpacked to what it was.
LEMMA HeaderSurvives ==
  ASSUME NEW h \in Headers
  PROVE  /\ frame_header_pack(h) \in Seq(UInt8) /\ Len(frame_header_pack(h)) = 8
         /\ frame_header_unpack(frame_header_pack(h)) = h
<1>1. /\ h = [type |-> h.type, session |-> h.session, index |-> h.index, off |-> h.off, total |-> h.total]
      /\ h.type \in UInt8 /\ h.session \in UInt8
      /\ h.index \in UInt16 /\ h.off \in UInt16 /\ h.total \in UInt16
  BY HeadersFitTheirFields DEF OtaFrameHeader
<1>2. /\ Lo(h.index) \in UInt8 /\ Hi(h.index) \in UInt8 /\ get16(Lo(h.index), Hi(h.index)) = h.index
      /\ Lo(h.off) \in UInt8 /\ Hi(h.off) \in UInt8 /\ get16(Lo(h.off), Hi(h.off)) = h.off
      /\ Lo(h.total) \in UInt8 /\ Hi(h.total) \in UInt8 /\ get16(Lo(h.total), Hi(h.total)) = h.total
  BY <1>1, Word16
<1>3. /\ frame_header_pack(h) \in Seq(UInt8) /\ Len(frame_header_pack(h)) = 8
  BY <1>1, <1>2 DEF frame_header_pack
<1>4. frame_header_unpack(frame_header_pack(h)) =
        [type |-> h.type, session |-> h.session, index |-> h.index, off |-> h.off, total |-> h.total]
  BY <1>2, <1>3 DEF frame_header_unpack, frame_header_pack, kFrameHeaderLen
<1>. QED
  BY <1>1, <1>3, <1>4

\* The geometry is twelve.
LEMMA StartSurvives ==
  ASSUME NEW s \in OtaStartInfo
  PROVE  /\ start_info_pack(s) \in Seq(UInt8) /\ Len(start_info_pack(s)) = 12
         /\ start_info_unpack(start_info_pack(s)) = s
<1>1. /\ s = [block_size |-> s.block_size, block_count |-> s.block_count,
               payload_length |-> s.payload_length, manifest_len |-> s.manifest_len, sig_len |-> s.sig_len]
      /\ s.block_size \in UInt16 /\ s.block_count \in UInt16 /\ s.payload_length \in UInt32
      /\ s.manifest_len \in UInt16 /\ s.sig_len \in UInt16
  BY DEF OtaStartInfo
<1>2. /\ Lo(s.block_size) \in UInt8 /\ Hi(s.block_size) \in UInt8
      /\ get16(Lo(s.block_size), Hi(s.block_size)) = s.block_size
      /\ Lo(s.block_count) \in UInt8 /\ Hi(s.block_count) \in UInt8
      /\ get16(Lo(s.block_count), Hi(s.block_count)) = s.block_count
      /\ Lo(s.manifest_len) \in UInt8 /\ Hi(s.manifest_len) \in UInt8
      /\ get16(Lo(s.manifest_len), Hi(s.manifest_len)) = s.manifest_len
      /\ Lo(s.sig_len) \in UInt8 /\ Hi(s.sig_len) \in UInt8
      /\ get16(Lo(s.sig_len), Hi(s.sig_len)) = s.sig_len
  BY <1>1, Word16
<1>. DEFINE n == s.payload_length
<1>3. /\ Lo(Low(n)) \in UInt8 /\ Hi(Low(n)) \in UInt8 /\ Lo(High(n)) \in UInt8 /\ Hi(High(n)) \in UInt8
      /\ get32(Lo(Low(n)), Hi(Low(n)), Lo(High(n)), Hi(High(n))) = n
  BY <1>1, Word32
<1>4. /\ start_info_pack(s) \in Seq(UInt8) /\ Len(start_info_pack(s)) = 12
  BY <1>1, <1>2, <1>3 DEF start_info_pack
<1>5. start_info_unpack(start_info_pack(s)) =
        [block_size |-> s.block_size, block_count |-> s.block_count, payload_length |-> n,
         manifest_len |-> s.manifest_len, sig_len |-> s.sig_len]
  BY <1>2, <1>3, <1>4 DEF start_info_unpack, start_info_pack, kStartInfoLen
<1>. QED
  BY <1>1, <1>4, <1>5

\* The place of a chunk is eight.
LEMMA LoadSurvives ==
  ASSUME NEW l \in OtaLoadInfo
  PROVE  /\ load_info_pack(l) \in Seq(UInt8) /\ Len(load_info_pack(l)) = 8
         /\ load_info_unpack(load_info_pack(l)) = l
<1>. DEFINE n == l.total_len
            o == l.offset
<1>1. l = [total_len |-> n, offset |-> o] /\ n \in UInt32 /\ o \in UInt32
  BY DEF OtaLoadInfo
<1>2. /\ Lo(Low(n)) \in UInt8 /\ Hi(Low(n)) \in UInt8 /\ Lo(High(n)) \in UInt8 /\ Hi(High(n)) \in UInt8
      /\ get32(Lo(Low(n)), Hi(Low(n)), Lo(High(n)), Hi(High(n))) = n
  BY <1>1, Word32
<1>3. /\ Lo(Low(o)) \in UInt8 /\ Hi(Low(o)) \in UInt8 /\ Lo(High(o)) \in UInt8 /\ Hi(High(o)) \in UInt8
      /\ get32(Lo(Low(o)), Hi(Low(o)), Lo(High(o)), Hi(High(o))) = o
  BY <1>1, Word32
<1>4. /\ load_info_pack(l) \in Seq(UInt8) /\ Len(load_info_pack(l)) = 8
  BY <1>1, <1>2, <1>3 DEF load_info_pack
<1>5. load_info_unpack(load_info_pack(l)) = [total_len |-> n, offset |-> o]
  BY <1>2, <1>3, <1>4 DEF load_info_unpack, load_info_pack, kLoadInfoLen
<1>. QED
  BY <1>1, <1>4, <1>5

-----------------------------------------------------------------------------
(* What is read depends on the first bytes only.                             *)

\* A header is read from the first eight.
LEMMA HeaderPrefix ==
  ASSUME NEW p \in Seq(UInt8), NEW q \in Seq(UInt8), Len(p) >= 8, Len(q) >= 8,
         \A k \in 1..8 : p[k] = q[k]
  PROVE  frame_header_unpack(p) = frame_header_unpack(q)
BY DEF frame_header_unpack, kFrameHeaderLen

\* A geometry from the first twelve.
LEMMA StartPrefix ==
  ASSUME NEW p \in Seq(UInt8), NEW q \in Seq(UInt8), Len(p) >= 12, Len(q) >= 12,
         \A k \in 1..12 : p[k] = q[k]
  PROVE  start_info_unpack(p) = start_info_unpack(q)
BY DEF start_info_unpack, kStartInfoLen

\* The place of a chunk from the first eight.
LEMMA LoadPrefix ==
  ASSUME NEW p \in Seq(UInt8), NEW q \in Seq(UInt8), Len(p) >= 8, Len(q) >= 8,
         \A k \in 1..8 : p[k] = q[k]
  PROVE  load_info_unpack(p) = load_info_unpack(q)
BY DEF load_info_unpack, kLoadInfoLen

\* The bytes of a frame, the header's and the info's.
LEMMA SentBytes ==
  ASSUME header \in Headers, info \in Infos
  PROVE  /\ InfoBytes(info) \in Seq(UInt8)
         /\ Sent \in Seq(UInt8) /\ Len(Sent) = 8 + Len(InfoBytes(info))
         /\ \A k \in 1..8 : Sent[k] = frame_header_pack(header)[k]
         /\ \A k \in 1..Len(InfoBytes(info)) : Sent[8 + k] = InfoBytes(info)[k]
<1>1. InfoBytes(info) \in Seq(UInt8)
  <2>1. CASE info.kind = "start" /\ info.start \in OtaStartInfo
    BY <2>1, StartSurvives DEF InfoBytes
  <2>2. CASE info.kind = "load" /\ info.load \in OtaLoadInfo
    BY <2>2, LoadSurvives DEF InfoBytes
  <2>3. CASE info.kind = "data" /\ info.data \in Seq(UInt8)
    BY <2>3 DEF InfoBytes
  <2>. QED
    BY <2>1, <2>2, <2>3, InfosFitTheirFields
<1>. DEFINE a == frame_header_pack(header)
            b == InfoBytes(info)
<1>2. a \in Seq(UInt8) /\ Len(a) = 8
  BY HeaderSurvives
<1>0. b \in Seq(UInt8)
  BY <1>1
<1>. HIDE DEF a, b
<1>3. /\ a \o b \in Seq(UInt8) /\ Len(a \o b) = 8 + Len(b)
      /\ \A k \in 1..(8 + Len(b)) : (a \o b)[k] = IF k <= 8 THEN a[k] ELSE b[k - 8]
  <2>1. /\ a \o b \in Seq(UInt8) /\ Len(a \o b) = Len(a) + Len(b)
        /\ \A k \in 1..(Len(a) + Len(b)) : (a \o b)[k] = IF k <= Len(a) THEN a[k] ELSE b[k - Len(a)]
    BY <1>0, <1>2, ConcatProperties, Zenon
  <2>. QED
    BY <1>2, <2>1
<1>4. Sent = a \o b
  BY DEF Sent, a, b
<1>5. Len(b) \in Nat
  BY <1>0
<1>6. \A k \in 1..8 : (a \o b)[k] = a[k]
  BY <1>3, <1>5
<1>7. \A k \in 1..Len(b) : (a \o b)[8 + k] = b[k]
  BY <1>3, <1>5
<1>. QED
  BY <1>1, <1>3, <1>4, <1>6, <1>7 DEF a, b

-----------------------------------------------------------------------------
(* The invariant.                                                            *)

\* It holds at first, and a cut keeps it.
LEMMA InitFrameInv == WireInit => FrameInv
BY SentBytes DEF WireInit, FrameInv

LEMMA NextFrameInv == FrameInv /\ [CutFrame]_wireVars => FrameInv'
<1>. SUFFICES ASSUME FrameInv, [CutFrame]_wireVars PROVE FrameInv'
  OBVIOUS
<1>1. CASE CutFrame
  <2>1. /\ Len(wire) \in Nat /\ Len(wire) > 0 /\ wire \in Seq(UInt8)
    BY <1>1 DEF CutFrame, FrameInv
  <2>2. /\ wire' \in Seq(UInt8) /\ Len(wire') = Len(wire) - 1
        /\ \A k \in 1..Len(wire') : wire'[k] = wire[k]
    <3>1. wire' = SubSeq(wire, 1, Len(wire) - 1)
      BY <1>1 DEF CutFrame
    <3>. QED
      <4>1. 1 \in Nat /\ Len(wire) - 1 \in Nat /\ 1 <= 1 /\ 1 <= Len(wire) - 1 + 1 /\ Len(wire) - 1 <= Len(wire)
        BY <2>1
      <4>2. /\ SubSeq(wire, 1, Len(wire) - 1) \in Seq(UInt8)
            /\ Len(SubSeq(wire, 1, Len(wire) - 1)) = Len(wire) - 1 + 1 - 1
            /\ \A k \in 1..(Len(wire) - 1 + 1 - 1) :
                 SubSeq(wire, 1, Len(wire) - 1)[k] = wire[1 + k - 1]
        BY <2>1, <4>1, PartOfSeq, ZenonT(90)
      <4>3. Len(wire) - 1 + 1 - 1 = Len(wire) - 1 /\ \A k \in 1..(Len(wire) - 1) : 1 + k - 1 = k
        BY <2>1
      <4>. QED
        BY <3>1, <4>2, <4>3
  <2>3. Sent' = Sent
    BY <1>1 DEF CutFrame, Sent, InfoBytes
  <2>4. Len(Sent) \in Nat
    BY SentBytes DEF FrameInv
  <2>. QED
    BY <1>1, <2>1, <2>2, <2>3, <2>4 DEF FrameInv, CutFrame
<1>2. CASE UNCHANGED wireVars
  BY <1>2 DEF FrameInv, wireVars, Sent, InfoBytes
<1>. QED
  BY <1>1, <1>2

\* What is left of a frame is its beginning.
THEOREM WireIsPrefix == WireSpec => []FrameInv
BY InitFrameInv, NextFrameInv, PTL DEF WireSpec

\* A header is heard as it was sent or not at all, for every value of its fields
\* (transport.cpp:30-47).
THEOREM HeaderHeard == WireSpec => []HeaderIsHeard
<1>1. ASSUME FrameInv PROVE HeaderIsHeard
  <2>1. CASE Len(wire) < 8
    BY <2>1 DEF HeaderIsHeard, frame_header_unpack, kFrameHeaderLen
  <2>2. CASE ~(Len(wire) < 8)
    <3>0. Len(wire) \in Nat /\ Len(wire) >= 8
      BY <1>1, <2>2 DEF FrameInv
    <3>1. \A k \in 1..8 : wire[k] = frame_header_pack(header)[k]
      <4>1. \A k \in 1..8 : k \in 1..Len(wire)
        BY <3>0
      <4>2. \A k \in 1..Len(wire) : wire[k] = Sent[k]
        BY <1>1 DEF FrameInv
      <4>3. \A k \in 1..8 : Sent[k] = frame_header_pack(header)[k]
        BY <1>1, SentBytes, Zenon DEF FrameInv
      <4>. QED
        BY <4>1, <4>2, <4>3, Zenon
    <3>2. frame_header_unpack(wire) = frame_header_unpack(frame_header_pack(header))
      <4>1. header \in Headers /\ wire \in Seq(UInt8)
        BY <1>1 DEF FrameInv
      <4>2. frame_header_pack(header) \in Seq(UInt8) /\ Len(frame_header_pack(header)) = 8
        BY <4>1, HeaderSurvives, Zenon
      <4>3. ASSUME NEW q \in Seq(UInt8), Len(q) = 8, \A k \in 1..8 : wire[k] = q[k]
            PROVE  frame_header_unpack(wire) = frame_header_unpack(q)
        <5>1. Len(q) >= 8
          BY <4>3
        <5>. QED
          BY <3>0, <4>1, <4>3, <5>1, HeaderPrefix, Zenon
      <4>. QED
        BY <3>1, <4>2, <4>3, Zenon
    <3>. QED
      BY <1>1, <2>2, <3>2, HeaderSurvives DEF FrameInv, HeaderIsHeard, kFrameHeaderLen
  <2>. QED
    BY <2>1, <2>2
<1>. QED
  BY <1>1, WireIsPrefix, PTL

\* So are the geometry of a START and the place of a LOAD chunk, for every value of
\* theirs (transport.cpp:49-78).
THEOREM InfoHeard == WireSpec => []InfoIsHeard
<1>1. ASSUME FrameInv PROVE InfoIsHeard
  <2>. SUFFICES ASSUME Len(wire) >= 8
       PROVE  /\ info.kind = "start" =>
                   start_info_unpack(FramePayload) = IF Len(FramePayload) < 12 THEN Refused ELSE info.start
              /\ info.kind = "load" =>
                   load_info_unpack(FramePayload) = IF Len(FramePayload) < 8 THEN Refused ELSE info.load
    BY DEF InfoIsHeard, kFrameHeaderLen, kStartInfoLen, kLoadInfoLen
  <2>0. /\ Len(wire) \in Nat /\ wire \in Seq(UInt8) /\ Len(wire) <= 8 + Len(InfoBytes(info))
        /\ Len(InfoBytes(info)) \in Nat /\ InfoBytes(info) \in Seq(UInt8)
    BY <1>1, SentBytes DEF FrameInv
  <2>1. /\ FramePayload \in Seq(UInt8) /\ Len(FramePayload) = Len(wire) - 8
        /\ \A k \in 1..Len(FramePayload) : FramePayload[k] = wire[8 + k]
    <3>1. FramePayload = SubSeq(wire, 9, Len(wire))
      BY DEF FramePayload, kFrameHeaderLen
    <3>. QED
      <4>0. PICK m \in Nat : m = 9
        OBVIOUS
      <4>1. Len(wire) \in Nat /\ 1 <= m /\ m <= Len(wire) + 1 /\ Len(wire) <= Len(wire)
        BY <2>0, <4>0
      <4>2. /\ SubSeq(wire, m, Len(wire)) \in Seq(UInt8)
            /\ Len(SubSeq(wire, m, Len(wire))) = Len(wire) + 1 - m
            /\ \A k \in 1..(Len(wire) + 1 - m) : SubSeq(wire, m, Len(wire))[k] = wire[m + k - 1]
        BY <2>0, <4>1, PartOfSeq, ZenonT(90)
      <4>3. Len(wire) + 1 - m = Len(wire) - 8 /\ \A k \in 1..(Len(wire) - 8) : m + k - 1 = 8 + k
        BY <2>0, <4>0
      <4>. QED
        BY <3>1, <4>0, <4>2, <4>3
  <2>2. \A k \in 1..Len(FramePayload) : FramePayload[k] = InfoBytes(info)[k]
    <3>. SUFFICES ASSUME NEW k \in 1..Len(FramePayload) PROVE FramePayload[k] = InfoBytes(info)[k]
      OBVIOUS
    <3>1. 8 + k \in 1..Len(wire) /\ k \in 1..Len(InfoBytes(info))
      BY <2>0, <2>1
    <3>. QED
      BY <1>1, <2>1, <3>1, SentBytes DEF FrameInv
  <2>3. CASE info.kind = "start" /\ info.start \in OtaStartInfo
    <3>1. Len(FramePayload) < 12 => start_info_unpack(FramePayload) = Refused
      BY DEF start_info_unpack, kStartInfoLen
    <3>2. ASSUME ~(Len(FramePayload) < 12) PROVE start_info_unpack(FramePayload) = info.start
      <4>1. InfoBytes(info) = start_info_pack(info.start)
        BY <2>3 DEF InfoBytes
      <4>2. Len(FramePayload) >= 12 /\ \A k \in 1..12 : FramePayload[k] = start_info_pack(info.start)[k]
        <5>1. Len(FramePayload) \in Nat /\ Len(FramePayload) >= 12
          BY <2>0, <2>1, <3>2
        <5>2. \A k \in 1..12 : k \in 1..Len(FramePayload)
          BY <5>1
        <5>. QED
          BY <2>2, <4>1, <5>1, <5>2
      <4>3. start_info_unpack(FramePayload) = start_info_unpack(start_info_pack(info.start))
        <5>1. start_info_pack(info.start) \in Seq(UInt8) /\ Len(start_info_pack(info.start)) >= 12
          <6>1. Len(start_info_pack(info.start)) = 12 /\ start_info_pack(info.start) \in Seq(UInt8)
            BY <2>3, StartSurvives, Zenon
          <6>. QED
            BY <6>1
        <5>. QED
          BY <2>1, <4>2, <5>1, StartPrefix
      <4>. QED
        BY <2>3, <4>3, StartSurvives
    <3>. QED
      BY <2>3, <3>1, <3>2
  <2>4. CASE info.kind = "load" /\ info.load \in OtaLoadInfo
    <3>1. Len(FramePayload) < 8 => load_info_unpack(FramePayload) = Refused
      BY DEF load_info_unpack, kLoadInfoLen
    <3>2. ASSUME ~(Len(FramePayload) < 8) PROVE load_info_unpack(FramePayload) = info.load
      <4>1. InfoBytes(info) = load_info_pack(info.load)
        BY <2>4 DEF InfoBytes
      <4>2. Len(FramePayload) >= 8 /\ \A k \in 1..8 : FramePayload[k] = load_info_pack(info.load)[k]
        <5>1. Len(FramePayload) \in Nat /\ Len(FramePayload) >= 8
          BY <2>0, <2>1, <3>2
        <5>2. \A k \in 1..8 : k \in 1..Len(FramePayload)
          BY <5>1
        <5>. QED
          BY <2>2, <4>1, <5>1, <5>2
      <4>3. load_info_unpack(FramePayload) = load_info_unpack(load_info_pack(info.load))
        <5>1. Len(load_info_pack(info.load)) = 8 /\ load_info_pack(info.load) \in Seq(UInt8)
          BY <2>4, LoadSurvives, Zenon
        <5>2. Len(load_info_pack(info.load)) >= 8
          BY <5>1
        <5>. QED
          BY <2>1, <4>2, <5>1, <5>2, LoadPrefix
      <4>. QED
        BY <2>4, <4>3, LoadSurvives
    <3>. QED
      BY <2>4, <3>1, <3>2
  <2>5. CASE info.kind = "data"
    BY <2>5
  <2>. QED
    BY <1>1, <2>3, <2>4, <2>5, InfosFitTheirFields DEF FrameInv
<1>. QED
  BY <1>1, WireIsPrefix, PTL

\* A frame is heard as it was sent or not at all, whatever its fields and wherever
\* the radio cuts it (transport.cpp:30-78).
THEOREM FrameHeard == WireSpec => []FrameIsHeard
<1>1. HeaderIsHeard /\ InfoIsHeard => FrameIsHeard
  BY DEF FrameIsHeard
<1>. QED
  BY <1>1, HeaderHeard, InfoHeard, PTL

-----------------------------------------------------------------------------
(* The streaming of a digest.                                                *)

\* No padding is counted before there is any, and nothing is left to take after it.
PhaseBounds == /\ phase = "open" => zeros = 0
               /\ phase = "done" => rest = <<>>

StreamInv == ShaTypeOK /\ Absorbed /\ PhaseBounds

-----------------------------------------------------------------------------
\* The mark and the zeros are bytes.
LEMMA PadBytes == <<Mark>> \in Seq(Byte) /\ <<0>> \in Seq(Byte)
<1>1. Mark \in Byte /\ 0 \in Byte
  BY PadIsBytes
<1>. QED
  BY <1>1

\* Byte strings in a row need no brackets.
LEMMA Brackets ==
  ASSUME NEW s \in Seq(Byte), NEW t \in Seq(Byte), NEW u \in Seq(Byte)
  PROVE  (s \o t) \o u = s \o (t \o u)
<1>. DEFINE x == (s \o t) \o u
            y == s \o (t \o u)
<1>1. /\ s \o t \in Seq(Byte) /\ Len(s \o t) = Len(s) + Len(t)
      /\ \A i \in 1..(Len(s) + Len(t)) : (s \o t)[i] = IF i <= Len(s) THEN s[i] ELSE t[i - Len(s)]
  BY ConcatProperties
<1>2. /\ t \o u \in Seq(Byte) /\ Len(t \o u) = Len(t) + Len(u)
      /\ \A i \in 1..(Len(t) + Len(u)) : (t \o u)[i] = IF i <= Len(t) THEN t[i] ELSE u[i - Len(t)]
  BY ConcatProperties
<1>3. /\ x \in Seq(Byte) /\ Len(x) = Len(s) + Len(t) + Len(u)
      /\ \A i \in 1..Len(x) : x[i] = IF i <= Len(s \o t) THEN (s \o t)[i] ELSE u[i - Len(s \o t)]
  BY <1>1, ConcatProperties
<1>4. /\ y \in Seq(Byte) /\ Len(y) = Len(s) + Len(t) + Len(u)
      /\ \A i \in 1..Len(y) : y[i] = IF i <= Len(s) THEN s[i] ELSE (t \o u)[i - Len(s)]
  BY <1>2, ConcatProperties
<1>5. Len(s) \in Nat /\ Len(t) \in Nat /\ Len(u) \in Nat
  OBVIOUS
<1>. HIDE DEF x, y
<1>6. \A i \in 1..Len(x) : x[i] = y[i]
  <2>. SUFFICES ASSUME NEW i \in 1..Len(x) PROVE x[i] = y[i]
    OBVIOUS
  <2>0. i \in Nat /\ 1 <= i /\ i <= Len(s) + Len(t) + Len(u) /\ i \in 1..Len(y)
    BY <1>3, <1>4, <1>5
  <2>1. CASE i <= Len(s)
    <3>1. i <= Len(s \o t) /\ i \in 1..(Len(s) + Len(t))
      BY <1>1, <1>5, <2>0, <2>1
    <3>2. x[i] = (s \o t)[i] /\ (s \o t)[i] = s[i]
      BY <1>1, <1>3, <2>1, <3>1
    <3>3. y[i] = s[i]
      BY <1>4, <2>0, <2>1
    <3>. QED
      BY <3>2, <3>3
  <2>2. CASE i > Len(s) /\ i <= Len(s) + Len(t)
    <3>1. x[i] = t[i - Len(s)]
      BY <1>1, <1>3, <1>5, <2>0, <2>2
    <3>2. i - Len(s) \in 1..Len(t)
      BY <1>5, <2>0, <2>2
    <3>. QED
      BY <1>2, <1>4, <1>5, <2>0, <2>2, <3>1, <3>2
  <2>3. CASE i > Len(s) + Len(t)
    <3>1. x[i] = u[i - Len(s) - Len(t)]
      BY <1>1, <1>3, <1>5, <2>0, <2>3
    <3>2. i - Len(s) \in 1..(Len(t) + Len(u)) /\ i - Len(s) > Len(t) /\ ~(i <= Len(s))
      BY <1>5, <2>0, <2>3
    <3>3. (t \o u)[i - Len(s)] = u[i - Len(s) - Len(t)]
      BY <1>2, <1>5, <3>2
    <3>4. y[i] = (t \o u)[i - Len(s)]
      BY <1>4, <2>0, <3>2
    <3>. QED
      BY <3>1, <3>3, <3>4
  <2>. QED
    BY <1>5, <2>0, <2>1, <2>2, <2>3
<1>7. x = y
  BY <1>3, <1>4, <1>6, SeqEqual
<1>. QED
  BY <1>7 DEF x, y

\* So are strings of zeros, and one more zero goes at the end.
LEMMA ZeroString ==
  ASSUME NEW n \in Nat
  PROVE  Zeros(n) \in Seq(Byte) /\ Zeros(n) \o <<0>> = Zeros(n + 1)
<1>1. 0 \in Byte
  BY PadIsBytes
<1>2. Zeros(n) \in Seq(Byte) /\ Len(Zeros(n)) = n
  BY <1>1 DEF Zeros
<1>3. Zeros(n + 1) \in Seq(Byte) /\ Len(Zeros(n + 1)) = n + 1
  BY <1>1 DEF Zeros
<1>4. /\ Zeros(n) \o <<0>> \in Seq(Byte)
      /\ Len(Zeros(n) \o <<0>>) = n + 1
      /\ \A i \in 1..(n + 1) : (Zeros(n) \o <<0>>)[i] = IF i <= n THEN Zeros(n)[i] ELSE <<0>>[i - n]
  BY <1>2, PadBytes, ConcatProperties
<1>5. \A i \in 1..(n + 1) : (Zeros(n) \o <<0>>)[i] = Zeros(n + 1)[i]
  BY <1>4 DEF Zeros
<1>. QED
  BY <1>2, <1>3, <1>4, <1>5, SeqEqual

\* The length field is bytes.
LEMMA LengthBytes ==
  ASSUME NEW n \in 0..(Word - 1)
  PROVE  BigEndian(n) \in Seq(Byte)
<1>1. BigEndian(n) \in [1..LenLen -> Byte]
  BY LengthIsBytes
<1>2. LenLen \in Nat
  BY Sizes
<1>. QED
  BY <1>1, <1>2

\* Counting the bits keeps the counter's width.
LEMMA Counted ==
  ASSUME NEW n \in Nat, NEW b \in 0..(Word - 1)
  PROVE  (b + 8 * n) % Word \in 0..(Word - 1)
BY Sizes

-----------------------------------------------------------------------------
(* One turn of update()'s loop.                                              *)

\* What is taken fits the buffer, and is of what there is.
LEMMA TakenFits ==
  ASSUME ShaTypeOK
  PROVE  Taken \in 0..Len(rest) /\ Len(buf) + Taken <= BlockLen
<1>1. Len(buf) \in Nat /\ Len(rest) \in Nat /\ Len(buf) < BlockLen /\ BlockLen \in Nat
  BY Sizes DEF ShaTypeOK
<1>. QED
  BY <1>1 DEF Taken, Room

\* The two parts of the data are the data.
LEMMA TakenAndLeft ==
  ASSUME ShaTypeOK
  PROVE  /\ SubSeq(rest, 1, Taken) \in Seq(Byte) /\ Left \in Seq(Byte)
         /\ Len(SubSeq(rest, 1, Taken)) = Taken
         /\ SubSeq(rest, 1, Taken) \o Left = rest
<1>1. rest \in Seq(Byte) /\ Taken \in 0..Len(rest) /\ Len(rest) \in Nat
  BY TakenFits DEF ShaTypeOK
<1>2. /\ SubSeq(rest, 1, Taken) \in Seq(Byte)
      /\ Len(SubSeq(rest, 1, Taken)) = Taken
      /\ \A i \in 1..Taken : SubSeq(rest, 1, Taken)[i] = rest[i]
  <2>1. \A i \in 1..Taken : rest[i] \in Byte
    BY <1>1
  <2>. QED
    BY <1>1, <2>1
<1>3. /\ Left \in Seq(Byte)
      /\ Len(Left) = Len(rest) - Taken
      /\ \A i \in 1..(Len(rest) - Taken) : Left[i] = rest[Taken + i]
  <2>1. \A i \in (Taken + 1)..Len(rest) : rest[i] \in Byte
    BY <1>1
  <2>. QED
    BY <1>1, <2>1 DEF Left
<1>4. /\ SubSeq(rest, 1, Taken) \o Left \in Seq(Byte)
      /\ Len(SubSeq(rest, 1, Taken) \o Left) = Len(rest)
      /\ \A i \in 1..Len(rest) : (SubSeq(rest, 1, Taken) \o Left)[i] =
           IF i <= Taken THEN SubSeq(rest, 1, Taken)[i] ELSE Left[i - Taken]
  BY <1>1, <1>2, <1>3, ConcatProperties
<1>5. \A i \in 1..Len(rest) : (SubSeq(rest, 1, Taken) \o Left)[i] = rest[i]
  BY <1>1, <1>2, <1>3, <1>4
<1>. QED
  BY <1>1, <1>2, <1>3, <1>4, <1>5, SeqEqual

\* A turn moves bytes on and keeps the string.
LEMMA TakeKeepsText ==
  ASSUME ShaTypeOK, Take
  PROVE  /\ hashed' \in Seq(Byte) /\ buf' \in Seq(Byte) /\ rest' \in Seq(Byte)
         /\ Len(buf') < BlockLen
         /\ (hashed' \o buf') \o rest' = (hashed \o buf) \o rest
<1>. DEFINE part == SubSeq(rest, 1, Taken)
            filled == buf \o part
<1>1. hashed \in Seq(Byte) /\ buf \in Seq(Byte) /\ BlockLen \in Nat /\ BlockLen > 0
  BY Sizes DEF ShaTypeOK
<1>2. part \in Seq(Byte) /\ Left \in Seq(Byte) /\ part \o Left = rest /\ Len(part) = Taken
  BY TakenAndLeft
<1>3. filled \in Seq(Byte) /\ Len(filled) = Len(buf) + Taken
  BY <1>1, <1>2, ConcatProperties
<1>4. Len(filled) \in Nat /\ Len(filled) <= BlockLen
  BY <1>1, <1>3, TakenFits
<1>5. IF Len(filled) = BlockLen THEN hashed' = hashed \o filled /\ buf' = <<>>
                               ELSE hashed' = hashed /\ buf' = filled
  BY DEF Take
<1>6. rest' = Left
  BY DEF Take
<1>7. <<>> \in Seq(Byte) /\ hashed \o filled \in Seq(Byte)
  BY <1>1, <1>3, ConcatProperties
<1>8. hashed' \o buf' = hashed \o filled
  BY <1>5, <1>7, ConcatEmptySeq
<1>9. (hashed \o filled) \o Left = (hashed \o buf) \o rest
  <2>1. hashed \o filled = (hashed \o buf) \o part
    BY <1>1, <1>2, Brackets, Zenon
  <2>2. hashed \o buf \in Seq(Byte)
    BY <1>1, ConcatProperties
  <2>3. ((hashed \o buf) \o part) \o Left = (hashed \o buf) \o (part \o Left)
    BY <1>2, <2>2, Brackets, Zenon
  <2>. QED
    BY <1>2, <2>1, <2>3, Zenon
<1>10. Len(buf') < BlockLen
  <2>1. CASE Len(filled) = BlockLen
    BY <1>1, <1>5, <2>1
  <2>2. CASE Len(filled) # BlockLen
    <3>0. \A m, n \in Nat : m <= n /\ m # n => m < n
      OBVIOUS
    <3>1. Len(filled) < BlockLen
      BY <1>1, <1>4, <2>2, <3>0, Zenon
    <3>2. buf' = filled
      BY <1>5, <2>2
    <3>. QED
      BY <3>1, <3>2, Zenon
  <2>. QED
    BY <2>1, <2>2
<1>11. hashed' \in Seq(Byte) /\ buf' \in Seq(Byte)
  BY <1>1, <1>3, <1>5, <1>7
<1>. QED
  BY <1>2, <1>6, <1>8, <1>9, <1>10, <1>11

-----------------------------------------------------------------------------
(* The invariant.                                                            *)

\* It holds at first.
LEMMA InitStreamInv == ShaInit => StreamInv
<1>. SUFFICES ASSUME ShaInit PROVE StreamInv
  OBVIOUS
<1>1. <<>> \in Seq(Byte) /\ Len(<<>>) = 0
  OBVIOUS
<1>2. ShaTypeOK
  BY <1>1, Sizes DEF ShaInit, ShaTypeOK
<1>3. Absorbed
  BY <1>1, ConcatEmptySeq DEF ShaInit, Absorbed
<1>. QED
  BY <1>2, <1>3 DEF StreamInv, ShaInit, PhaseBounds

\* What enters an empty update() is appended to the string.
LEMMA EnterKeepsText ==
  ASSUME ShaTypeOK, NEW data \in Seq(Byte), Enter(data), UNCHANGED <<hashed, buf>>
  PROVE  /\ rest' \in Seq(Byte) /\ bitlen' \in 0..(Word - 1)
         /\ (hashed' \o buf') \o rest' = ((hashed \o buf) \o rest) \o data
<1>1. hashed \o buf \in Seq(Byte) /\ rest = <<>> /\ rest' = data
  BY ConcatProperties DEF ShaTypeOK, Enter
<1>2. (hashed \o buf) \o rest = hashed \o buf
  BY <1>1, ConcatEmptySeq
<1>3. bitlen' \in 0..(Word - 1)
  <2>1. Len(data) \in Nat /\ bitlen \in 0..(Word - 1)
    BY DEF ShaTypeOK
  <2>2. bitlen' = (bitlen + 8 * Len(data)) % Word
    BY DEF Enter
  <2>. QED
    BY <2>1, <2>2, Counted, Zenon
<1>. QED
  BY <1>1, <1>2, <1>3

\* Every step keeps it.
LEMMA NextStreamInv == StreamInv /\ [ShaNext]_shaVars => StreamInv'
<1>. SUFFICES ASSUME StreamInv, [ShaNext]_shaVars PROVE StreamInv'
  OBVIOUS
<1>0. /\ ShaTypeOK /\ Absorbed /\ PhaseBounds
      /\ message \in Seq(Byte) /\ zeros \in Nat /\ Zeros(zeros) \in Seq(Byte)
  BY ZeroString DEF StreamInv, ShaTypeOK
<1>1. CASE Reset
  <2>1. ShaInit'
    BY <1>1 DEF Reset, ShaInit
  <2>2. <<>> \in Seq(Byte) /\ Len(<<>>) = 0
    OBVIOUS
  <2>3. ShaTypeOK'
    BY <1>1, <2>2, Sizes DEF Reset, ShaTypeOK
  <2>4. Absorbed'
    BY <1>1, <2>2, ConcatEmptySeq DEF Reset, Absorbed
  <2>. QED
    BY <1>1, <2>3, <2>4 DEF StreamInv, Reset, PhaseBounds
<1>2. ASSUME NEW data \in Updates, Update(data)
      PROVE  StreamInv'
  <2>1. data \in Seq(Byte)
    BY UpdatesAssumption
  <2>2. /\ rest' \in Seq(Byte) /\ bitlen' \in 0..(Word - 1)
        /\ (hashed' \o buf') \o rest' = ((hashed \o buf) \o rest) \o data
    BY <1>0, <1>2, <2>1, EnterKeepsText DEF Update
  <2>3. (hashed' \o buf') \o rest' = message'
    BY <1>0, <1>2, <2>2 DEF Update, Absorbed
  <2>4. message' \in Seq(Byte)
    BY <1>0, <1>2, <2>1, ConcatProperties DEF Update
  <2>5. ShaTypeOK'
    BY <1>0, <1>2, <2>2, <2>4 DEF Update, ShaTypeOK
  <2>6. Absorbed'
    BY <1>2, <2>3 DEF Update, Absorbed
  <2>. QED
    BY <1>0, <1>2, <2>5, <2>6 DEF StreamInv, Update, PhaseBounds
<1>3. CASE Take
  <2>1. /\ hashed' \in Seq(Byte) /\ buf' \in Seq(Byte) /\ rest' \in Seq(Byte)
        /\ Len(buf') < BlockLen
        /\ (hashed' \o buf') \o rest' = (hashed \o buf) \o rest
    BY <1>0, <1>3, TakeKeepsText
  <2>2. phase # "done"
    BY <1>0, <1>3 DEF Take, PhaseBounds
  <2>. QED
    BY <1>0, <1>3, <2>1, <2>2 DEF StreamInv, Take, ShaTypeOK, Absorbed, PhaseBounds, Zeros
<1>4. CASE Finish
  <2>1. /\ rest' \in Seq(Byte) /\ bitlen' \in 0..(Word - 1)
        /\ (hashed' \o buf') \o rest' = ((hashed \o buf) \o rest) \o <<Mark>>
    BY <1>0, <1>4, PadBytes, EnterKeepsText DEF Finish
  <2>2. message \o <<Mark>> \in Seq(Byte)
    BY <1>0, PadBytes, ConcatProperties
  <2>3. zeros' = 0 /\ Zeros(0) = <<>>
    BY <1>0, <1>4 DEF Finish, PhaseBounds, Zeros
  <2>4. (message \o <<Mark>>) \o Zeros(0) = message \o <<Mark>>
    BY <2>2, <2>3, ConcatEmptySeq
  <2>5. Absorbed'
    <3>1. message' = message /\ phase' = "padding" /\ phase = "open"
      BY <1>4 DEF Finish
    <3>2. Zeros(zeros)' = Zeros(0)
      BY <2>3 DEF Zeros
    <3>. QED
      BY <1>0, <2>1, <2>4, <3>1, <3>2 DEF Absorbed
  <2>6. ShaTypeOK'
    BY <1>0, <1>4, <2>1 DEF Finish, ShaTypeOK
  <2>. QED
    BY <1>4, <2>5, <2>6 DEF StreamInv, Finish, PhaseBounds
<1>5. CASE PadZero
  <2>1. /\ rest' \in Seq(Byte) /\ bitlen' \in 0..(Word - 1)
        /\ (hashed' \o buf') \o rest' = ((hashed \o buf) \o rest) \o <<0>>
    BY <1>0, <1>5, PadBytes, EnterKeepsText DEF PadZero
  <2>2. message \o <<Mark>> \in Seq(Byte)
    BY <1>0, PadBytes, ConcatProperties
  <2>3. ((message \o <<Mark>>) \o Zeros(zeros)) \o <<0>> = (message \o <<Mark>>) \o (Zeros(zeros) \o <<0>>)
    <3>1. \A s, t, u \in Seq(Byte) : (s \o t) \o u = s \o (t \o u)
      BY Brackets, Zenon
    <3>2. Zeros(zeros) \in Seq(Byte) /\ <<0>> \in Seq(Byte)
      BY <1>0, PadBytes, Zenon
    <3>. QED
      BY <2>2, <3>1, <3>2, Zenon
  <2>4. Zeros(zeros) \o <<0>> = Zeros(zeros + 1)
    BY <1>0, ZeroString
  <2>5. Absorbed'
    <3>1. message' = message /\ phase' = "padding" /\ phase = "padding" /\ zeros' = zeros + 1
      BY <1>5 DEF PadZero
    <3>2. Zeros(zeros)' = Zeros(zeros + 1)
      BY <3>1 DEF Zeros
    <3>. QED
      BY <1>0, <2>1, <2>3, <2>4, <3>1, <3>2 DEF Absorbed
  <2>6. ShaTypeOK'
    BY <1>0, <1>5, <2>1 DEF PadZero, ShaTypeOK
  <2>. QED
    BY <1>5, <2>5, <2>6 DEF StreamInv, PadZero, PhaseBounds
<1>6. CASE Close
  <2>1. hashed \o buf \in Seq(Byte) /\ rest = <<>>
    BY <1>0, <1>6, ConcatProperties DEF Close, ShaTypeOK
  <2>2. hashed \o buf = (message \o <<Mark>>) \o Zeros(zeros)
    BY <1>0, <1>6, <2>1, ConcatEmptySeq DEF Close, Absorbed
  <2>3. SubSeq(buf, 1, PadFull) = buf
    BY <1>0, <1>6, SubSeqFull DEF Close, PadsOn, ShaTypeOK
  <2>4. hashed' = (hashed \o buf) \o BigEndian(bits)
    BY <1>6, <2>3 DEF Close, LengthField
  <2>5. bits \in 0..(Word - 1) /\ BigEndian(bits) \in Seq(Byte)
    BY <1>0, LengthBytes DEF ShaTypeOK
  <2>6. hashed' \in Seq(Byte)
    BY <2>1, <2>4, <2>5, ConcatProperties
  <2>7. ShaTypeOK'
    BY <1>0, <1>6, <2>6 DEF Close, ShaTypeOK
  <2>8. Absorbed'
    <3>1. message' = message /\ phase' = "done" /\ zeros' = zeros /\ bits' = bits
      BY <1>6 DEF Close
    <3>2. Zeros(zeros)' = Zeros(zeros) /\ BigEndian(bits)' = BigEndian(bits)
      BY <3>1 DEF Zeros, BigEndian
    <3>. QED
      BY <2>2, <2>4, <3>1, <3>2 DEF Absorbed
  <2>. QED
    BY <1>6, <2>7, <2>8 DEF StreamInv, Close, PhaseBounds
<1>7. CASE UNCHANGED shaVars
  BY <1>0, <1>7 DEF StreamInv, shaVars, ShaTypeOK, Absorbed, PhaseBounds, Zeros, BigEndian
<1>. QED
  BY <1>1, <1>2, <1>3, <1>4, <1>5, <1>6, <1>7 DEF ShaNext

-----------------------------------------------------------------------------
\* Every behaviour of update and finish keeps the invariant.
THEOREM Sha256Invariant == ShaSpec => []StreamInv
BY InitStreamInv, NextStreamInv, PTL DEF ShaSpec

\* However a message is cut into updates, the string that is compressed is the
\* message and its padding, whole and in order (sha256.cpp:84-115).
THEOREM Sha256LosesNoByte == ShaSpec => []Absorbed
<1>1. StreamInv => Absorbed
  BY DEF StreamInv
<1>. QED
  BY <1>1, Sha256Invariant, PTL

\* The buffer keeps room for a byte between any two steps (sha256.cpp:94-97).
THEOREM Sha256TypeCorrect == ShaSpec => []ShaTypeOK
<1>1. StreamInv => ShaTypeOK
  BY DEF StreamInv
<1>. QED
  BY <1>1, Sha256Invariant, PTL

-----------------------------------------------------------------------------
(* The padding.                                                              *)

\* Whole blocks are compressed, the length is the message's, and no more zeros are
\* added than the padding has.
PadInv ==
  /\ Len(hashed) % BlockLen = 0
  /\ phase = "open" => bitlen = (8 * Len(message)) % Word
  /\ phase # "open" => bits = (8 * Len(message)) % Word
  /\ zeros <= PadLen(message)
  /\ phase = "done" => zeros = PadLen(message)

\* Division with remainder, and that there is one way to do it.
LEMMA Division ==
  ASSUME NEW n \in Nat, NEW d \in Nat \ {0}
  PROVE  /\ n \div d \in Nat /\ n % d \in Nat /\ n % d < d
         /\ n = d * (n \div d) + (n % d)
BY SMT

LEMMA NoMultipleBetween ==
  ASSUME NEW d \in Nat \ {0}, NEW p \in Int, NEW q \in Int, NEW r \in Nat, NEW s \in Nat,
         r < d, s < d, d * p + r = d * q + s
  PROVE  p = q /\ r = s
<1>1. CASE p < q
  <2>1. d * q >= d * p + d
    BY <1>1, SMT
  <2> QED
    BY <2>1
<1>2. CASE q < p
  <2>1. d * p >= d * q + d
    BY <1>2, SMT
  <2> QED
    BY <2>1
<1>3. CASE p = q
  BY <1>3
<1> QED
  BY <1>1, <1>2, <1>3

LEMMA RemainderIs ==
  ASSUME NEW d \in Nat \ {0}, NEW q \in Nat, NEW r \in Nat, r < d
  PROVE  (d * q + r) % d = r
<1> DEFINE n == d * q + r
           p == n \div d
           t == n % d
<1>1. n \in Nat
  <2>1. d * q \in Nat
    BY SMT
  <2> QED
    BY <2>1
<1>2. p \in Nat /\ t \in Nat /\ t < d /\ n = d * p + t
  BY <1>1, Division
<1>3. d * q + r = d * p + t /\ p \in Int /\ q \in Int
  BY <1>2
<1> HIDE DEF p, t
<1>4. r = t
  BY <1>2, <1>3, NoMultipleBetween
<1> QED
  BY <1>4 DEF t

LEMMA RemainderOfSum ==
  ASSUME NEW d \in Nat \ {0}, NEW n \in Nat, NEW k \in Nat
  PROVE  ((n % d) + k) % d = (n + k) % d
<1> DEFINE a == n \div d
           r == n % d
           b == (r + k) \div d
           s == (r + k) % d
<1>1. a \in Nat /\ r \in Nat /\ n = d * a + r
  BY Division
<1>2. b \in Nat /\ s \in Nat /\ s < d /\ r + k = d * b + s
  BY <1>1, Division
<1> HIDE DEF a, r, b, s
<1>3. n + k = d * (a + b) + s
  <2>1. d * (a + b) = d * a + d * b
    BY <1>1, <1>2, SMT
  <2>2. d * a \in Int /\ d * b \in Int
    BY <1>1, <1>2
  <2> QED
    BY <1>1, <1>2, <2>1, <2>2
<1>4. (n + k) % d = s
  <2>1. a + b \in Nat
    BY <1>1, <1>2
  <2>2. (d * (a + b) + s) % d = s
    BY <1>2, <2>1, RemainderIs, Zenon
  <2> QED
    BY <1>3, <2>2
<1> QED
  BY <1>4 DEF r, s

\* The mark, the zeros and the length fill the message's last block, and no other number
\* of zeros below a block does.
LEMMA PadFills ==
  ASSUME NEW m \in Seq(Byte)
  PROVE  /\ PadLen(m) \in Nat /\ PadLen(m) < BlockLen
         /\ (Len(m) + 1 + PadLen(m)) % BlockLen = PadFull
<1> DEFINE d == BlockLen
           r == Len(m) % d
           a == Len(m) \div d
           x == 2 * d - LenLen - 1 - r
<1>1. d \in Nat \ {0} /\ LenLen \in Nat \ {0} /\ LenLen < d /\ Len(m) \in Nat
  BY Sizes
<1>2. a \in Nat /\ r \in Nat /\ r < d /\ Len(m) = d * a + r
  BY <1>1, Division
<1> HIDE DEF d, r, a
<1>3. x \in Nat /\ x < 2 * d
  BY <1>1, <1>2
<1>4. PadLen(m) = x % d
  BY DEF PadLen, d, r
<1>5. PadFull = d - LenLen /\ d - LenLen \in Nat /\ d - LenLen < d
  BY <1>1 DEF PadFull, d
<1>6. CASE x < d
  <2>1. PadLen(m) = x
    <3>1. (d * 0 + x) % d = x
      BY <1>1, <1>3, <1>6, RemainderIs
    <3>2. d * 0 + x = x
      BY <1>1, <1>3
    <3> QED
      BY <1>4, <3>1, <3>2
  <2>2. Len(m) + 1 + x = d * (a + 1) + (d - LenLen)
    <3>1. d * (a + 1) = d * a + d
      BY <1>1, <1>2, SMT
    <3>2. d * a \in Int
      BY <1>1, <1>2
    <3> QED
      BY <1>1, <1>2, <3>1, <3>2
  <2>3. (d * (a + 1) + (d - LenLen)) % d = d - LenLen
    <3>1. a + 1 \in Nat
      BY <1>2
    <3> QED
      BY <1>1, <1>5, <3>1, RemainderIs, Zenon
  <2> QED
    BY <1>3, <1>5, <1>6, <2>1, <2>2, <2>3 DEF d
<1>7. CASE ~(x < d)
  <2>1. PadLen(m) = x - d /\ x - d \in Nat /\ x - d < d
    <3>1. x - d \in Nat /\ x - d < d
      BY <1>1, <1>3, <1>7
    <3>2. (d * 1 + (x - d)) % d = x - d
      BY <1>1, <3>1, RemainderIs
    <3>3. d * 1 + (x - d) = x
      BY <1>1, <1>3
    <3> QED
      BY <1>4, <3>1, <3>2, <3>3
  <2>2. Len(m) + 1 + (x - d) = d * a + (d - LenLen)
    <3>1. d * a \in Int
      BY <1>1, <1>2
    <3> QED
      BY <1>1, <1>2, <3>1
  <2>3. (d * a + (d - LenLen)) % d = d - LenLen
    BY <1>1, <1>2, <1>5, RemainderIs, Zenon
  <2> QED
    BY <1>5, <2>1, <2>2, <2>3 DEF d
<1> QED
  BY <1>6, <1>7

LEMMA OnePadding ==
  ASSUME NEW d \in Nat \ {0}, NEW n \in Nat, NEW y \in Nat, NEW z \in Nat, y < d, z < d,
         (n + y) % d = (n + z) % d
  PROVE  y = z
<1> DEFINE p == (n + y) \div d
           q == (n + z) \div d
           t == (n + y) % d
<1>1. p \in Nat /\ t \in Nat /\ n + y = d * p + t
  BY Division
<1>2. q \in Nat /\ n + z = d * q + t
  BY Division
<1> HIDE DEF p, q, t
<1>3. CASE y <= z
  <2>1. d * q + 0 = d * p + (z - y)
    <3>1. d * p \in Int /\ d * q \in Int
      BY <1>1, <1>2
    <3> QED
      BY <1>1, <1>2, <3>1
  <2>2. z - y \in Nat /\ z - y < d /\ 0 \in Nat /\ 0 < d /\ p \in Int /\ q \in Int
    BY <1>1, <1>2, <1>3
  <2>3. 0 = z - y
    BY <2>1, <2>2, NoMultipleBetween
  <2> QED
    BY <2>3
<1>4. CASE z <= y
  <2>1. d * p + 0 = d * q + (y - z)
    <3>1. d * p \in Int /\ d * q \in Int
      BY <1>1, <1>2
    <3> QED
      BY <1>1, <1>2, <3>1
  <2>2. y - z \in Nat /\ y - z < d /\ 0 \in Nat /\ 0 < d /\ p \in Int /\ q \in Int
    BY <1>1, <1>2, <1>4
  <2>3. 0 = y - z
    BY <2>1, <2>2, NoMultipleBetween
  <2> QED
    BY <2>3
<1> QED
  BY <1>3, <1>4

LEMMA ThreeInARow ==
  ASSUME NEW s \in Seq(Byte), NEW t \in Seq(Byte), NEW u \in Seq(Byte)
  PROVE  Len((s \o t) \o u) = Len(s) + Len(t) + Len(u)
<1>1. s \o t \in Seq(Byte) /\ Len(s \o t) = Len(s) + Len(t)
  BY ConcatProperties
<1>2. Len((s \o t) \o u) = Len(s \o t) + Len(u)
  BY <1>1, ConcatProperties
<1> QED
  BY <1>1, <1>2

\* How long the padded message is so far.
LEMMA PaddedSoFar ==
  ASSUME StreamInv, phase = "padding"
  PROVE  Len(hashed) + Len(buf) + Len(rest) = Len(message) + 1 + zeros
<1>1. /\ hashed \in Seq(Byte) /\ buf \in Seq(Byte) /\ rest \in Seq(Byte)
      /\ message \in Seq(Byte) /\ zeros \in Nat
      /\ (hashed \o buf) \o rest = (message \o <<Mark>>) \o Zeros(zeros)
  BY DEF StreamInv, ShaTypeOK, Absorbed
<1>2. Zeros(zeros) \in Seq(Byte) /\ Len(Zeros(zeros)) = zeros
  <2>1. 0 \in Byte
    BY PadIsBytes
  <2> QED
    BY <1>1, <2>1 DEF Zeros
<1>3. Len(<<Mark>>) = 1 /\ <<Mark>> \in Seq(Byte)
  BY PadBytes
<1>4. Len((hashed \o buf) \o rest) = Len(hashed) + Len(buf) + Len(rest)
  BY <1>1, ThreeInARow
<1>5. Len((message \o <<Mark>>) \o Zeros(zeros)) = Len(message) + 1 + zeros
  <2>1. Len((message \o <<Mark>>) \o Zeros(zeros)) = Len(message) + Len(<<Mark>>) + Len(Zeros(zeros))
    <3>1. message \in Seq(Byte) /\ <<Mark>> \in Seq(Byte) /\ Zeros(zeros) \in Seq(Byte)
      BY <1>1, <1>2, <1>3
    <3> QED
      BY <3>1, ThreeInARow
  <2> QED
    BY <1>2, <1>3, <2>1, Zenon
<1> QED
  BY <1>1, <1>4, <1>5

\* With nothing to take, the buffer tells where the padding is in its block.
LEMMA BufferIsRemainder ==
  ASSUME StreamInv, PadInv, phase = "padding", rest = <<>>
  PROVE  (Len(message) + 1 + zeros) % BlockLen = Len(buf)
<1> DEFINE d == BlockLen
           q == Len(hashed) \div d
<1>1. /\ d \in Nat \ {0} /\ Len(hashed) \in Nat /\ Len(buf) \in Nat /\ Len(buf) < d
      /\ Len(rest) = 0
  BY Sizes DEF StreamInv, ShaTypeOK
<1>2. q \in Nat /\ Len(hashed) = d * q + (Len(hashed) % d)
  BY <1>1, Division
<1>3. Len(hashed) % d = 0
  BY DEF PadInv
<1>4. Len(message) + 1 + zeros = Len(hashed) + Len(buf)
  BY <1>1, PaddedSoFar
<1> HIDE DEF d, q
<1>5. Len(message) + 1 + zeros = d * q + Len(buf)
  <2>1. d * q \in Int
    BY <1>1, <1>2
  <2>2. Len(hashed) = d * q
    BY <1>2, <1>3, <2>1
  <2> QED
    BY <1>4, <2>2
<1>6. (d * q + Len(buf)) % d = Len(buf)
  BY <1>1, <1>2, RemainderIs
<1> QED
  BY <1>5, <1>6 DEF d

LEMMA InitPadInv == ShaInit => PadInv
<1> SUFFICES ASSUME ShaInit PROVE PadInv
  OBVIOUS
<1>1. <<>> \in Seq(Byte) /\ Len(<<>>) = 0
  OBVIOUS
<1>2. 0 % BlockLen = 0 /\ (8 * 0) % Word = 0 /\ BlockLen \in Nat \ {0}
  BY Sizes
<1>3. PadLen(<<>>) \in Nat
  BY <1>1, PadFills
<1> QED
  BY <1>1, <1>2, <1>3 DEF ShaInit, PadInv

LEMMA NextPadInv == StreamInv /\ PadInv /\ [ShaNext]_shaVars => PadInv'
<1> SUFFICES ASSUME StreamInv, PadInv, [ShaNext]_shaVars PROVE PadInv'
  OBVIOUS
<1>0. /\ BlockLen \in Nat \ {0} /\ LenLen \in Nat \ {0} /\ LenLen < BlockLen /\ Word \in Nat \ {0}
      /\ message \in Seq(Byte) /\ Len(message) \in Nat /\ zeros \in Nat
      /\ PadLen(message) \in Nat
      /\ hashed \in Seq(Byte) /\ Len(hashed) \in Nat
  <2>1. message \in Seq(Byte) /\ hashed \in Seq(Byte) /\ zeros \in Nat
    BY DEF StreamInv, ShaTypeOK
  <2>2. PadLen(message) \in Nat
    BY <2>1, PadFills
  <2> QED
    BY <2>1, <2>2, Sizes
<1>1. CASE Reset
  <2>1. ShaInit'
    BY <1>1 DEF Reset, ShaInit
  <2>2. <<>> \in Seq(Byte) /\ Len(<<>>) = 0
    OBVIOUS
  <2>3. 0 % BlockLen = 0 /\ (8 * 0) % Word = 0
    BY <1>0
  <2>4. PadLen(<<>>) \in Nat
    BY <2>2, PadFills
  <2>5. PadLen(message)' = PadLen(<<>>)
    BY <1>1 DEF Reset, PadLen
  <2> QED
    BY <1>1, <2>2, <2>3, <2>4, <2>5 DEF Reset, PadInv
<1>2. ASSUME NEW data \in Updates, Update(data)
      PROVE  PadInv'
  <2>1. data \in Seq(Byte) /\ Len(data) \in Nat
    BY UpdatesAssumption
  <2>2. message' \in Seq(Byte) /\ Len(message') = Len(message) + Len(data)
    BY <1>0, <1>2, <2>1, ConcatProperties DEF Update
  <2>3. PadLen(message') \in Nat
    BY <2>2, PadFills
  <2>4. bitlen' = (((8 * Len(message)) % Word) + 8 * Len(data)) % Word
    BY <1>2 DEF Update, Enter, PadInv
  <2>5. bitlen' = (8 * Len(message')) % Word
    <3>1. 8 * Len(message) \in Nat /\ 8 * Len(data) \in Nat
      BY <1>0, <2>1
    <3>2. bitlen' = (8 * Len(message) + 8 * Len(data)) % Word
      BY <1>0, <2>4, <3>1, RemainderOfSum
    <3>3. 8 * Len(message) + 8 * Len(data) = 8 * Len(message')
      BY <1>0, <2>1, <2>2
    <3> QED
      BY <3>2, <3>3
  <2>6. zeros = 0 /\ phase = "open"
    BY <1>2 DEF Update, StreamInv, PhaseBounds
  <2>7. PadLen(message)' = PadLen(message')
    BY DEF PadLen
  <2> QED
    BY <1>2, <2>3, <2>5, <2>6, <2>7 DEF Update, PadInv
<1>3. CASE Take
  <2>1. Len(hashed') % BlockLen = 0
    <3> DEFINE filled == buf \o SubSeq(rest, 1, Taken)
    <3>1. IF Len(filled) = BlockLen THEN hashed' = hashed \o filled ELSE hashed' = hashed
      BY <1>3 DEF Take
    <3>2. filled \in Seq(Byte)
      BY TakenAndLeft, ConcatProperties DEF StreamInv, ShaTypeOK
    <3> HIDE DEF filled
    <3>3. CASE hashed' = hashed
      BY <3>3 DEF PadInv
    <3>4. CASE Len(filled) = BlockLen /\ hashed' = hashed \o filled
      <4>1. Len(hashed') = Len(hashed) + BlockLen
        BY <1>0, <3>2, <3>4, ConcatProperties
      <4>2. ((Len(hashed) % BlockLen) + BlockLen) % BlockLen = (Len(hashed) + BlockLen) % BlockLen
        BY <1>0, RemainderOfSum
      <4>3. (BlockLen * 1 + 0) % BlockLen = 0
        BY <1>0, RemainderIs
      <4>4. BlockLen * 1 + 0 = 0 + BlockLen
        BY <1>0
      <4> QED
        BY <4>1, <4>2, <4>3, <4>4 DEF PadInv
    <3> QED
      BY <3>1, <3>3, <3>4
  <2>2. PadLen(message)' = PadLen(message)
    BY <1>3 DEF Take, PadLen
  <2> QED
    BY <1>3, <2>1, <2>2 DEF Take, PadInv
<1>4. CASE Finish
  <2>1. PadLen(message)' = PadLen(message)
    BY <1>4 DEF Finish, PadLen
  <2> QED
    BY <1>4, <2>1 DEF Finish, PadInv
<1>5. CASE PadZero
  <2>1. Len(buf) # PadFull /\ rest = <<>> /\ phase = "padding"
    BY <1>5 DEF PadZero, PadsOn, Enter
  <2>2. zeros # PadLen(message)
    BY <1>0, <2>1, BufferIsRemainder, PadFills
  <2>3. zeros + 1 <= PadLen(message)
    BY <1>0, <2>2 DEF PadInv
  <2>4. PadLen(message)' = PadLen(message)
    BY <1>5 DEF PadZero, PadLen
  <2> QED
    BY <1>5, <2>1, <2>3, <2>4 DEF PadZero, PadInv
<1>6. CASE Close
  <2>1. Len(buf) = PadFull /\ rest = <<>> /\ phase = "padding"
    BY <1>6 DEF Close, PadsOn
  <2>2. zeros = PadLen(message)
    <3> DEFINE n == Len(message) + 1
    <3>1. (n + zeros) % BlockLen = (n + PadLen(message)) % BlockLen
      BY <1>0, <2>1, BufferIsRemainder, PadFills
    <3>2. n \in Nat /\ PadLen(message) < BlockLen /\ zeros < BlockLen
      <4>1. n \in Nat
        BY <1>0
      <4>2. PadLen(message) < BlockLen
        BY <1>0, PadFills
      <4>3. zeros <= PadLen(message)
        BY DEF PadInv
      <4> HIDE DEF n
      <4> QED
        BY <1>0, <4>1, <4>2, <4>3
    <3> HIDE DEF n
    <3> QED
      BY <1>0, <3>1, <3>2, OnePadding
  <2>3. Len(hashed') % BlockLen = 0
    <3> DEFINE tail == SubSeq(buf, 1, PadFull)
    <3>1. tail = buf /\ buf \in Seq(Byte)
      BY <2>1, SubSeqFull DEF StreamInv, ShaTypeOK
    <3>2. BigEndian(bits) \in Seq(Byte) /\ Len(BigEndian(bits)) = LenLen
      <4>1. bits \in 0..(Word - 1)
        BY DEF StreamInv, ShaTypeOK
      <4> QED
        BY <1>0, <4>1, LengthBytes DEF BigEndian
    <3>3. hashed' = (hashed \o buf) \o BigEndian(bits)
      BY <1>6, <3>1 DEF Close, LengthField
    <3>4. Len(hashed') = Len(hashed) + Len(buf) + LenLen
      <4>1. Len((hashed \o buf) \o BigEndian(bits)) = Len(hashed) + Len(buf) + Len(BigEndian(bits))
        BY <1>0, <3>1, <3>2, ThreeInARow, Zenon
      <4> QED
        BY <3>2, <3>3, <4>1, Zenon
    <3>5. Len(hashed') = Len(hashed) + BlockLen
      BY <1>0, <2>1, <3>4 DEF PadFull
    <3>6. ((Len(hashed) % BlockLen) + BlockLen) % BlockLen = (Len(hashed) + BlockLen) % BlockLen
      BY <1>0, RemainderOfSum
    <3>7. (BlockLen * 1 + 0) % BlockLen = 0
      BY <1>0, RemainderIs
    <3>8. BlockLen * 1 + 0 = 0 + BlockLen
      BY <1>0
    <3> QED
      BY <3>5, <3>6, <3>7, <3>8 DEF PadInv
  <2>4. PadLen(message)' = PadLen(message)
    BY <1>6 DEF Close, PadLen
  <2> QED
    BY <1>6, <2>1, <2>2, <2>3, <2>4 DEF Close, PadInv
<1>7. CASE UNCHANGED shaVars
  BY <1>7 DEF shaVars, PadInv, PadLen
<1> QED
  BY <1>1, <1>2, <1>3, <1>4, <1>5, <1>6, <1>7 DEF ShaNext

\* What is compressed is the padded message of FIPS 180-4, at every length of message,
\* block and length field, and the loop of finish() makes no more zeros than that
\* (sha256.cpp:101-115).
THEOREM Sha256PadsRight == ShaSpec => []DigestIsOfPadded
<1>1. ShaSpec => [](StreamInv /\ PadInv)
  BY InitStreamInv, NextStreamInv, InitPadInv, NextPadInv, PTL DEF ShaSpec
<1>2. StreamInv /\ PadInv => DigestIsOfPadded
  <2> SUFFICES ASSUME StreamInv, PadInv PROVE DigestIsOfPadded
    OBVIOUS
  <2>1. zeros < BlockLen
    <3>1. message \in Seq(Byte) /\ zeros \in Nat /\ zeros <= PadLen(message)
      BY DEF StreamInv, ShaTypeOK, PadInv
    <3> QED
      BY <3>1, PadFills, Sizes
  <2>2. ASSUME phase = "done" PROVE hashed = Padded(message)
    BY <2>2 DEF StreamInv, Absorbed, PadInv, Padded
  <2> QED
    BY <2>1, <2>2 DEF DigestIsOfPadded
<1> QED
  BY <1>1, <1>2, PTL

-----------------------------------------------------------------------------
(* Claims about a tree.                                                      *)

\* A claim is made of an index and digests, about a payload of one block at least.
SomeBlocks == payload \in {[i \in 1..n |-> <<[atom |-> i]>>] : n \in Nat \ {0}}

ClaimInv == SomeBlocks /\ index \in Nat /\ Digests(proof)

LEMMA LeavesOfPayload ==
  ASSUME SomeBlocks
  PROVE  /\ Len(payload) \in Nat \ {0}
         /\ Digests(LeavesOf(payload)) /\ LeavesOf(payload) # <<>>
         /\ Len(LeavesOf(payload)) = Len(payload)
         /\ \A i \in 1..Len(payload) : LeavesOf(payload)[i] = hash_leaf(payload[i])
<1> DEFINE n == Len(payload)
           l == LeavesOf(payload)
<1>1. n \in Nat \ {0}
  <2>1. PICK k \in Nat \ {0} : payload = [i \in 1..k |-> <<[atom |-> i]>>]
    BY DEF SomeBlocks
  <2>2. Len(payload) = k
    BY <2>1
  <2> QED
    BY <2>2
<1> HIDE DEF n
<1>2. l = [i \in 1..n |-> hash_leaf(payload[i])]
  BY DEF LeavesOf, n
<1> HIDE DEF l
<1>3. Len(l) = n /\ \A i \in 1..n : l[i] = hash_leaf(payload[i])
  BY <1>1, <1>2
<1>4. l = [i \in 1..n |-> l[i]]
  BY <1>2
<1>5. \A i \in 1..n : IsDigest(l[i])
  BY <1>3, ShaIsDigest DEF hash_leaf
<1>6. Digests(l) /\ l # <<>>
  BY <1>1, <1>3, <1>4, <1>5, EmptyIsDigests DEF Digests
<1> QED
  BY <1>1, <1>3, <1>6 DEF n, l

\* The nodes a claim is altered with are digests too.
LEMMA NodesAreDigests ==
  ASSUME SomeBlocks
  PROVE  \A h \in Nodes : IsDigest(h)
<1> SUFFICES ASSUME NEW k \in 0..Len(payload), NEW i \in 1..Len(Levels(LeavesOf(payload))[k])
             PROVE  IsDigest(Levels(LeavesOf(payload))[k][i])
  BY DEF Nodes
<1>1. Digests(Levels(LeavesOf(payload))[k])
  BY LeavesOfPayload, LevelFields
<1> QED
  BY <1>1 DEF Digests

\* So are the nodes of a leaf's proof.
LEMMA ProofIsDigests ==
  ASSUME SomeBlocks, NEW i \in 0..(Len(payload) - 1)
  PROVE  Digests(merkle_proof(LeavesOf(payload), i))
<1> DEFINE l == LeavesOf(payload)
           n == Len(payload)
<1>1. Digests(l) /\ l # <<>> /\ Len(l) = n /\ n \in Nat \ {0}
  BY LeavesOfPayload
<1>2. i \in 0..(Len(l) - 1) /\ ~(i >= Len(l))
  BY <1>1
<1> HIDE DEF l, n
<1>3. Together(l, i, Sha256(<<>>), <<>>, Len(l))
  BY <1>1, <1>2, LoopsTogether, ShaIsDigest, EmptyIsDigests
<1>4. Digests(ProofLoop(l, i)[Len(l)].proof)
  BY <1>3 DEF Together
<1> QED
  BY <1>2, <1>4 DEF merkle_proof, l

LEMMA InitClaimInv == ClaimInit => ClaimInv
<1> SUFFICES ASSUME ClaimInit PROVE ClaimInv
  OBVIOUS
<1>1. SomeBlocks
  BY ClaimBounds DEF ClaimInit, Payloads, SomeBlocks
<1>2. index \in 0..(Len(payload) - 1) /\ proof = merkle_proof(LeavesOf(payload), index)
  BY DEF ClaimInit
<1>3. Digests(proof)
  BY <1>1, <1>2, ProofIsDigests
<1>4. index \in Nat
  BY <1>1, <1>2, LeavesOfPayload
<1> QED
  BY <1>1, <1>3, <1>4 DEF ClaimInv

\* A part of a sequence of digests is one.
LEMMA PartOfDigests ==
  ASSUME NEW s, Digests(s), NEW a \in Nat \ {0}, NEW b \in Nat, b <= Len(s), a <= b + 1
  PROVE  Digests(SubSeq(s, a, b))
<1> DEFINE S == {s[i] : i \in 1..Len(s)}
           t == SubSeq(s, a, b)
<1>1. Len(s) \in Nat /\ s = [i \in 1..Len(s) |-> s[i]] /\ \A i \in 1..Len(s) : IsDigest(s[i])
  BY DEF Digests
<1>2. s \in Seq(S)
  <2>1. \A i \in 1..Len(s) : s[i] \in S
    OBVIOUS
  <2> HIDE DEF S
  <2> QED
    BY <1>1, <2>1, FunctionIsSequence
<1> HIDE DEF S
<1>3. /\ t \in Seq(S) /\ Len(t) = b + 1 - a
      /\ \A k \in 1..(b + 1 - a) : t[k] = s[a + k - 1]
  BY <1>1, <1>2, PartOfSeq
<1> HIDE DEF t
<1>4. t = [k \in 1..Len(t) |-> t[k]] /\ Len(t) \in Nat
  BY <1>3, LenProperties
<1>5. ASSUME NEW k \in 1..Len(t) PROVE IsDigest(t[k])
  <2>1. k \in Nat /\ 1 <= k /\ k <= b + 1 - a
    BY <1>3
  <2>2. a + k - 1 \in 1..Len(s)
    BY <1>1, <2>1
  <2>3. t[k] = s[a + k - 1]
    BY <1>3, <2>1
  <2> QED
    BY <1>1, <2>2, <2>3
<1> QED
  BY <1>4, <1>5 DEF Digests, t

LEMMA NextClaimInv == ClaimInv /\ [ClaimNext]_claimVars => ClaimInv'
<1> SUFFICES ASSUME ClaimInv, [ClaimNext]_claimVars PROVE ClaimInv'
  OBVIOUS
<1>1. SomeBlocks /\ index \in Nat /\ Digests(proof)
  BY DEF ClaimInv
<1>2. Len(payload) \in Nat
  BY <1>1, LeavesOfPayload
<1>3. Len(proof) \in Nat /\ proof = [i \in 1..Len(proof) |-> proof[i]]
      /\ \A i \in 1..Len(proof) : IsDigest(proof[i])
  BY <1>1 DEF Digests
<1>4. \A h \in Nodes : IsDigest(h)
  BY <1>1, NodesAreDigests
<1>5. CASE OtherBlock
  BY <1>1, <1>5 DEF OtherBlock, ClaimInv, SomeBlocks
<1>6. CASE OtherIndex
  BY <1>1, <1>2, <1>6 DEF OtherIndex, ClaimInv, SomeBlocks
<1>7. CASE OtherNode
  <2>1. PICK i \in 1..Len(proof), h \in Nodes : proof' = [proof EXCEPT ![i] = h]
    BY <1>7 DEF OtherNode
  <2>2. proof' = [j \in 1..Len(proof) |-> IF j = i THEN h ELSE proof[j]]
    BY <1>3, <2>1
  <2>3. Len(proof') = Len(proof)
    BY <1>3, <2>2
  <2>4. Digests(proof')
    BY <1>3, <1>4, <2>2, <2>3 DEF Digests
  <2> QED
    BY <1>1, <1>7, <2>4 DEF OtherNode, ClaimInv, SomeBlocks
<1>8. CASE LongerProof
  <2>1. Digests(proof')
    BY <1>1, <1>4, <1>8, AppendDigest DEF LongerProof
  <2> QED
    BY <1>1, <1>8, <2>1 DEF LongerProof, ClaimInv, SomeBlocks
<1>9. CASE ShorterProof
  <2>1. proof # <<>> /\ proof' \in {Tail(proof), SubSeq(proof, 1, Len(proof) - 1)}
    BY <1>9 DEF ShorterProof
  <2>2. Len(proof) >= 1
    BY <1>3, <2>1
  <2>3. Tail(proof) = SubSeq(proof, 2, Len(proof))
    <3>1. proof \in Seq({proof[i] : i \in 1..Len(proof)})
      <4> DEFINE S == {proof[i] : i \in 1..Len(proof)}
      <4>1. \A i \in 1..Len(proof) : proof[i] \in S
        OBVIOUS
      <4> HIDE DEF S
      <4>2. proof \in Seq(S)
        BY <1>3, <4>1, FunctionIsSequence
      <4> QED
        BY <4>2 DEF S
    <3> QED
      BY <2>1, <3>1, TailIsSubSeq
  <2>4. Digests(SubSeq(proof, 2, Len(proof))) /\ Digests(SubSeq(proof, 1, Len(proof) - 1))
    <3>1. /\ 2 \in Nat \ {0} /\ Len(proof) <= Len(proof) /\ 2 <= Len(proof) + 1
          /\ 1 \in Nat \ {0} /\ Len(proof) - 1 \in Nat /\ Len(proof) - 1 <= Len(proof)
          /\ 1 <= Len(proof) - 1 + 1 /\ Len(proof) \in Nat
      BY <1>3, <2>2
    <3>2. Digests(SubSeq(proof, 2, Len(proof)))
      BY <1>1, <3>1, PartOfDigests, Zenon
    <3>3. Digests(SubSeq(proof, 1, Len(proof) - 1))
      BY <1>1, <3>1, PartOfDigests, Zenon
    <3> QED
      BY <3>2, <3>3
  <2>5. Digests(proof')
    BY <2>1, <2>3, <2>4
  <2> QED
    BY <1>1, <1>9, <2>5 DEF ShorterProof, ClaimInv, SomeBlocks
<1>10. CASE UNCHANGED claimVars
  BY <1>1, <1>10 DEF claimVars, ClaimInv, SomeBlocks
<1> QED
  BY <1>5, <1>6, <1>7, <1>8, <1>9, <1>10 DEF ClaimNext

\* However a claim is altered, it is accepted if and only if it is the block that the
\* signed root holds at that index with that leaf's own proof, for payloads and
\* alterations of any number (merkle.cpp:72-100).
THEOREM ClaimsAreExact == ClaimSpec => []VerifyIsExact
<1>1. ClaimSpec => []ClaimInv
  BY InitClaimInv, NextClaimInv, PTL DEF ClaimSpec
<1>2. ClaimInv => VerifyIsExact
  <2> SUFFICES ASSUME ClaimInv PROVE VerifyIsExact
    OBVIOUS
  <2> DEFINE l == LeavesOf(payload)
             n == Len(payload)
  <2>1. /\ n \in Nat /\ index \in Nat /\ Digests(l) /\ l # <<>> /\ Len(l) = n /\ Digests(proof)
        /\ \A i \in 1..n : l[i] = hash_leaf(payload[i])
    BY LeavesOfPayload DEF ClaimInv
  <2>2. Accepted <=> merkle_verify(hash_leaf(block), index, n, proof, merkle_root(l))
    BY DEF Accepted, merkle_verify_block, RootOf
  <2> HIDE DEF l, n
  <2>3. Accepted <=> /\ index < n /\ hash_leaf(block) = l[index + 1]
                     /\ proof = merkle_proof(l, index)
    <3>1. IsDigest(hash_leaf(block))
      BY ShaIsDigest DEF hash_leaf
    <3> QED
      BY <2>1, <2>2, <3>1, VerifyIsExactForAll
  <2>4. ASSUME index < n PROVE hash_leaf(block) = l[index + 1] <=> block = payload[index + 1]
    <3>1. l[index + 1] = hash_leaf(payload[index + 1])
      BY <2>1, <2>4
    <3> QED
      BY <3>1, ShaIsInjective DEF hash_leaf
  <2> QED
    BY <2>3, <2>4 DEF VerifyIsExact, l, n
<1> QED
  BY <1>1, <1>2, PTL

-----------------------------------------------------------------------------
(* The tree is the reference tree: node i of level k is the hash of leaves   *)
(* From(k, i)..To(k, i, n), and a proof the path from a leaf to its top.     *)

\* A function that says the first n powers of two.
PowersTo(f, n) ==
  /\ f = [j \in 0..n |-> f[j]]
  /\ f[0] = 1
  /\ \A j \in 1..n : f[j] = 2 * f[j - 1]

LEMMA PowersExist ==
  ASSUME NEW n \in Nat
  PROVE  \E f : PowersTo(f, n)
<1> DEFINE Bad == {k \in 0..n : ~ \E f : PowersTo(f, k)}
<1>1. 0 \notin Bad
  <2>1. PowersTo([j \in 0..0 |-> 1], 0)
    BY DEF PowersTo
  <2> QED
    BY <2>1
<1>2. SUFFICES ASSUME Bad # {} PROVE FALSE
  OBVIOUS
<1>3. PICK k \in 1..n : k \in Bad /\ k - 1 \in 0..n /\ k - 1 \notin Bad
  <2>1. Bad \subseteq 0..n
    OBVIOUS
  <2> HIDE DEF Bad
  <2> QED
    BY <1>1, <1>2, <2>1, FirstRound
<1>4. PICK f : PowersTo(f, k - 1)
  BY <1>3
<1> DEFINE last == 2 * f[k - 1]
           g == [j \in 0..k |-> IF j = k THEN last ELSE f[j]]
<1>5. PowersTo(g, k)
  <2>1. g = [j \in 0..k |-> g[j]]
    OBVIOUS
  <2>2. g[0] = 1
    BY <1>4 DEF PowersTo
  <2>3. ASSUME NEW j \in 1..k PROVE g[j] = 2 * g[j - 1]
    <3>1. j \in 0..k /\ j - 1 \in 0..k /\ j - 1 # k
      OBVIOUS
    <3>2. g[j - 1] = f[j - 1]
      BY <3>1
    <3>3. CASE j = k
      BY <3>1, <3>2, <3>3
    <3>4. CASE j # k
      <4>1. j \in 1..(k - 1)
        BY <3>4
      <4>2. f[j] = 2 * f[j - 1]
        BY <1>4, <4>1 DEF PowersTo
      <4>3. g[j] = f[j]
        BY <3>1, <3>4
      <4> HIDE DEF g
      <4> QED
        BY <3>2, <4>2, <4>3
    <3> QED
      BY <3>3, <3>4
  <2> HIDE DEF g
  <2> QED
    BY <2>1, <2>2, <2>3 DEF PowersTo
<1> QED
  BY <1>3, <1>5

LEMMA PowersAgree ==
  ASSUME NEW m \in Nat, NEW n \in Nat, m <= n, NEW f, NEW g, PowersTo(f, m), PowersTo(g, n)
  PROVE  f[m] = g[m]
<1> DEFINE Bad == {k \in 0..m : f[k] # g[k]}
<1>1. 0 \notin Bad
  BY DEF PowersTo
<1>2. SUFFICES ASSUME Bad # {} PROVE FALSE
  OBVIOUS
<1>3. PICK k \in 1..m : k \in Bad /\ k - 1 \in 0..m /\ k - 1 \notin Bad
  <2>1. Bad \subseteq 0..m
    OBVIOUS
  <2> HIDE DEF Bad
  <2> QED
    BY <1>1, <1>2, <2>1, FirstRound
<1>4. k \in 1..n /\ f[k] # g[k] /\ f[k - 1] = g[k - 1]
  BY <1>3
<1> QED
  BY <1>4 DEF PowersTo

LEMMA PowersAre ==
  /\ PowerOfTwo[0] = 1
  /\ \A k \in Nat : PowerOfTwo[k + 1] = 2 * PowerOfTwo[k]
<1> DEFINE To(n) == CHOOSE f : PowersTo(f, n)
           IsPower(f) == f = [e \in Nat |-> IF e = 0 THEN 1 ELSE 2 * f[e - 1]]
           P == [n \in Nat |-> To(n)[n]]
           C == CHOOSE f : IsPower(f)
<1>1. \A n \in Nat : PowersTo(To(n), n)
  BY PowersExist
<1>2. PowerOfTwo = C
  BY DEF PowerOfTwo
<1> HIDE DEF To
<1>3. ASSUME NEW e \in Nat PROVE P[e] = IF e = 0 THEN 1 ELSE 2 * P[e - 1]
  <2>1. CASE e = 0
    BY <1>1, <2>1 DEF PowersTo
  <2>2. CASE e # 0
    <3>1. e \in 1..e /\ e - 1 \in Nat /\ e - 1 <= e
      BY <2>2
    <3>2. To(e)[e] = 2 * To(e)[e - 1]
      BY <1>1, <3>1 DEF PowersTo
    <3>3. To(e - 1)[e - 1] = To(e)[e - 1]
      BY <1>1, <3>1, PowersAgree
    <3> QED
      BY <2>2, <3>1, <3>2, <3>3
  <2> QED
    BY <2>1, <2>2
<1>4. IsPower(P)
  <2>1. P = [n \in Nat |-> P[n]]
    OBVIOUS
  <2> HIDE DEF P
  <2> QED
    BY <1>3, <2>1, Zenon
<1>5. IsPower(C)
  <2> HIDE DEF IsPower, P
  <2> QED
    BY <1>4
<1> HIDE DEF C
<1> QED
  BY <1>2, <1>5

LEMMA PowersGrow ==
  ASSUME NEW n \in Nat
  PROVE  /\ PowerOfTwo[n] \in Nat /\ PowerOfTwo[n] >= n + 1
         /\ \A k \in 0..n : k < n => PowerOfTwo[k] \in Nat /\ 2 * PowerOfTwo[k] <= PowerOfTwo[n]
<1> DEFINE P == PowerOfTwo
<1>1. ASSUME NEW m \in Nat PROVE P[m] \in Nat /\ P[m] >= m + 1
  <2> DEFINE Bad == {k \in 0..m : ~(P[k] \in Nat /\ P[k] >= k + 1)}
  <2>1. 0 \notin Bad
    BY PowersAre
  <2>2. SUFFICES ASSUME Bad # {} PROVE FALSE
    OBVIOUS
  <2>3. PICK k \in 1..m : k \in Bad /\ k - 1 \in 0..m /\ k - 1 \notin Bad
    <3>1. Bad \subseteq 0..m
      OBVIOUS
    <3> HIDE DEF Bad
    <3> QED
      BY <2>1, <2>2, <3>1, FirstRound
  <2>4. k - 1 \in Nat /\ (k - 1) + 1 = k
    OBVIOUS
  <2>5. P[k] = 2 * P[k - 1]
    BY <2>4, PowersAre
  <2> QED
    BY <2>3, <2>4, <2>5
<1> HIDE DEF P
<1>2. ASSUME NEW k \in 0..n, k < n PROVE 2 * P[k] <= P[n]
  <2> DEFINE Bad == {j \in 0..n : ~(k < j => 2 * P[k] <= P[j])}
  <2>1. 0 \notin Bad
    OBVIOUS
  <2>2. SUFFICES ASSUME Bad # {} PROVE FALSE
    BY <1>2
  <2>3. PICK j \in 1..n : j \in Bad /\ j - 1 \in 0..n /\ j - 1 \notin Bad
    <3>1. Bad \subseteq 0..n
      OBVIOUS
    <3> HIDE DEF Bad
    <3> QED
      BY <2>1, <2>2, <3>1, FirstRound
  <2>4. j - 1 \in Nat /\ (j - 1) + 1 = j /\ k \in Nat
    OBVIOUS
  <2>5. P[j] = 2 * P[j - 1] /\ P[j - 1] \in Nat /\ P[k] \in Nat
    BY <1>1, <2>4, PowersAre DEF P
  <2>6. k < j /\ ~(2 * P[k] <= P[j]) /\ (k < j - 1 => 2 * P[k] <= P[j - 1])
    BY <2>3
  <2> HIDE DEF Bad
  <2> QED
    BY <2>4, <2>5, <2>6
<1> QED
  BY <1>1, <1>2 DEF P

\* The largest power of two below m.
LEMMA SplitIs ==
  ASSUME NEW m \in Nat, NEW k \in Nat, PowerOfTwo[k] < m, m <= 2 * PowerOfTwo[k]
  PROVE  SplitAt(m) = PowerOfTwo[k]
<1> DEFINE P == PowerOfTwo
           Is(x) == (\E e \in 0..m : x = P[e]) /\ 2 * x >= m
           s == CHOOSE x \in 1..(m - 1) : Is(x)
<1>1. \A e \in Nat : P[e] \in Nat /\ P[e] >= e + 1
  BY PowersGrow
<1>2. \A e, d \in Nat : d < e => 2 * P[d] <= P[e]
  <2> TAKE e, d \in Nat
  <2>1. d < e => d \in 0..e
    OBVIOUS
  <2> QED
    BY <2>1, PowersGrow
<1> HIDE DEF P
<1>3. P[k] < m /\ m <= 2 * P[k]
  BY DEF P
<1>4. P[k] \in 1..(m - 1) /\ Is(P[k])
  BY <1>1, <1>3
<1>5. s \in 1..(m - 1) /\ Is(s)
  <2> HIDE DEF Is
  <2> QED
    BY <1>4
<1>6. PICK e \in 0..m : s = P[e]
  BY <1>5
<1>7. P[e] < m /\ m <= 2 * P[e]
  <2>1. s \in 1..(m - 1) /\ 2 * s >= m
    BY <1>5
  <2> HIDE DEF s
  <2> QED
    BY <1>6, <2>1
<1>8. e \in Nat /\ ~(e < k) /\ ~(k < e)
  BY <1>1, <1>2, <1>3, <1>7
<1>9. s = P[k]
  BY <1>6, <1>8
<1> HIDE DEF s
<1> QED
  BY <1>9 DEF SplitAt, s, P

LEMMA SplitExists ==
  ASSUME NEW m \in Nat, m > 1
  PROVE  SplitAt(m) \in 1..(m - 1)
<1> DEFINE P == PowerOfTwo
           X == {e \in Nat : m <= 2 * P[e]}
<1>1. \A e \in Nat : P[e] \in Nat /\ P[e] >= e + 1
  BY PowersGrow
<1>2. m \in X /\ X \subseteq Nat
  BY <1>1
<1>3. PICK k \in X : \A e \in X : k <= e
  <2> HIDE DEF X
  <2> QED
    BY <1>2, LeastMember
<1>4. P[k] < m
  <2>1. CASE k = 0
    BY <2>1, PowersAre
  <2>2. CASE k # 0
    <3>1. k - 1 \in Nat /\ (k - 1) + 1 = k /\ ~(k <= k - 1)
      BY <2>2
    <3>2. k - 1 \notin X
      BY <1>3, <3>1
    <3>3. P[k] = 2 * P[k - 1]
      BY <3>1, PowersAre
    <3> QED
      BY <1>1, <3>1, <3>2, <3>3
  <2> QED
    BY <2>1, <2>2
<1>5. SplitAt(m) = P[k]
  BY <1>3, <1>4, SplitIs
<1> QED
  BY <1>1, <1>4, <1>5

-----------------------------------------------------------------------------
\* What the hash of a span is, given those of the spans within.
HashOf(hash, digests, from, to) ==
  IF from >= to THEN digests[from]
  ELSE hash_pair(hash[<<from, Mid(from, to)>>], hash[<<Mid(from, to) + 1, to>>])

LEMMA SpanOf ==
  ASSUME NEW digests, NEW from \in 1..Len(digests), NEW to \in 1..Len(digests)
  PROVE  <<from, to>> \in Spans(digests) /\ <<from, to>>[1] = from /\ <<from, to>>[2] = to
BY DEF Spans

LEMMA SpanEnds ==
  ASSUME NEW digests, NEW s \in Spans(digests)
  PROVE  s[1] \in 1..Len(digests) /\ s[2] \in 1..Len(digests) /\ s = <<s[1], s[2]>>
BY DEF Spans

\* The halves of a span are spans, and shorter.
LEMMA MidIsWithin ==
  ASSUME NEW digests, Len(digests) \in Nat,
         NEW from \in 1..Len(digests), NEW to \in 1..Len(digests), from < to
  PROVE  LET mid == Mid(from, to)
         IN  /\ mid \in from..(to - 1) /\ mid \in 1..Len(digests) /\ mid + 1 \in 1..Len(digests)
             /\ <<from, mid>> \in Spans(digests) /\ <<mid + 1, to>> \in Spans(digests)
<1> DEFINE mid == Mid(from, to)
<1>1. to - from + 1 \in Nat /\ to - from + 1 > 1
  OBVIOUS
<1>2. SplitAt(to - from + 1) \in 1..(to - from)
  BY <1>1, SplitExists
<1>3. mid \in from..(to - 1)
  BY <1>2 DEF Mid
<1> HIDE DEF mid
<1>4. mid \in 1..Len(digests) /\ mid + 1 \in 1..Len(digests)
  BY <1>3
<1> QED
  BY <1>3, <1>4, SpanOf DEF mid

\* A function that hashes the spans of at most d + 1 digests.
HashTo(f, d, digests) ==
  \A s \in Spans(digests) : s[2] - s[1] <= d => f[s] = HashOf(f, digests, s[1], s[2])

LEMMA HashesExist ==
  ASSUME NEW digests, Len(digests) \in Nat, NEW n \in Nat
  PROVE  \E f : HashTo(f, n, digests)
<1> DEFINE N == Len(digests)
           S == Spans(digests)
           Bad == {d \in 0..n : ~ \E f : HashTo(f, d, digests)}
<1>1. 0 \notin Bad
  <2> DEFINE g == [s \in S |-> digests[s[1]]]
  <2>1. ASSUME NEW s \in S, s[2] - s[1] <= 0
        PROVE  g[s] = HashOf(g, digests, s[1], s[2])
    <3>1. s[1] >= s[2]
      BY <2>1, SpanEnds
    <3>2. g[s] = digests[s[1]]
      OBVIOUS
    <3> QED
      BY <3>1, <3>2 DEF HashOf
  <2>2. HashTo(g, 0, digests)
    BY <2>1 DEF HashTo
  <2> QED
    BY <2>2
<1>2. SUFFICES ASSUME Bad # {} PROVE FALSE
  <2>1. n \in 0..n
    OBVIOUS
  <2> QED
    BY <2>1, Zenon
<1>3. PICK d \in 1..n : d \in Bad /\ d - 1 \in 0..n /\ d - 1 \notin Bad
  <2>1. Bad \subseteq 0..n
    OBVIOUS
  <2> HIDE DEF Bad
  <2> QED
    BY <1>1, <1>2, <2>1, FirstRound
<1>4. PICK f : HashTo(f, d - 1, digests)
  BY <1>3
<1> DEFINE g == [s \in S |-> HashOf(f, digests, s[1], s[2])]
<1>5. ASSUME NEW s \in S
      PROVE  /\ g[s] = HashOf(f, digests, s[1], s[2])
             /\ s[2] - s[1] <= d - 1 => g[s] = f[s]
  <2>1. g[s] = HashOf(f, digests, s[1], s[2])
    OBVIOUS
  <2> QED
    BY <1>4, <2>1 DEF HashTo
<1> HIDE DEF g
<1>6. ASSUME NEW s \in S, s[2] - s[1] <= d
      PROVE  g[s] = HashOf(g, digests, s[1], s[2])
  <2> DEFINE from == s[1]
             to == s[2]
             mid == Mid(from, to)
  <2>1. from \in 1..N /\ to \in 1..N
    BY SpanEnds
  <2>2. CASE from >= to
    BY <1>5, <2>2 DEF HashOf
  <2>3. CASE ~(from >= to)
    <3>1. from < to
      BY <2>1, <2>3
    <3>2. /\ mid \in from..(to - 1) /\ mid \in 1..N /\ mid + 1 \in 1..N
          /\ <<from, mid>> \in S /\ <<mid + 1, to>> \in S
      BY <2>1, <3>1, MidIsWithin
    <3>3. to - from <= d
      BY <1>6
    <3> HIDE DEF mid, from, to
    <3>4. mid - from <= d - 1 /\ to - (mid + 1) <= d - 1
      BY <2>1, <3>2, <3>3
    <3>5. <<from, mid>>[2] - <<from, mid>>[1] <= d - 1 /\ <<mid + 1, to>>[2] - <<mid + 1, to>>[1] <= d - 1
      BY <3>4
    <3>6. g[<<from, mid>>] = f[<<from, mid>>] /\ g[<<mid + 1, to>>] = f[<<mid + 1, to>>]
      BY <1>5, <3>2, <3>5
    <3>7. g[s] = HashOf(f, digests, from, to)
      BY <1>5 DEF from, to
    <3>8. HashOf(f, digests, from, to) = HashOf(g, digests, from, to)
      BY <3>6 DEF HashOf, mid
    <3> QED
      BY <3>7, <3>8 DEF from, to
  <2> QED
    BY <2>2, <2>3
<1>7. HashTo(g, d, digests)
  BY <1>6 DEF HashTo
<1> QED
  BY <1>3, <1>7

LEMMA TreeHashIs ==
  ASSUME NEW digests, Len(digests) \in Nat,
         NEW from \in 1..Len(digests), NEW to \in 1..Len(digests)
  PROVE  TreeHash(digests)[<<from, to>>] = HashOf(TreeHash(digests), digests, from, to)
<1> DEFINE N == Len(digests)
           S == Spans(digests)
           IsHash(f) == f = [s \in S |-> HashOf(f, digests, s[1], s[2])]
           H == CHOOSE f : IsHash(f)
<1>1. TreeHash(digests) = H
  BY DEF TreeHash, HashOf
<1>2. PICK g : HashTo(g, N, digests)
  BY HashesExist
<1> DEFINE h == [s \in S |-> g[s]]
<1>3. ASSUME NEW s \in S
      PROVE  h[s] = HashOf(h, digests, s[1], s[2])
  <2>1. \A r \in S : h[r] = g[r]
    OBVIOUS
  <2>2. s[1] \in 1..N /\ s[2] \in 1..N /\ s[2] - s[1] <= N
    BY SpanEnds
  <2>3. g[s] = HashOf(g, digests, s[1], s[2])
    BY <1>2, <2>2 DEF HashTo
  <2> HIDE DEF h
  <2>4. CASE s[1] >= s[2]
    BY <2>1, <2>3, <2>4 DEF HashOf
  <2>5. CASE ~(s[1] >= s[2])
    <3>1. s[1] < s[2]
      BY <2>2, <2>5
    <3>2. <<s[1], Mid(s[1], s[2])>> \in S /\ <<Mid(s[1], s[2]) + 1, s[2]>> \in S
      BY <2>2, <3>1, MidIsWithin
    <3> QED
      BY <2>1, <2>3, <2>5, <3>2 DEF HashOf
  <2> QED
    BY <2>4, <2>5
<1>4. IsHash(h)
  <2>1. h = [s \in S |-> h[s]]
    OBVIOUS
  <2> HIDE DEF h, S
  <2> QED
    BY <1>3, <2>1, Zenon
<1>5. IsHash(H)
  <2> HIDE DEF IsHash, h
  <2> QED
    BY <1>4
<1> HIDE DEF H
<1>6. <<from, to>> \in S /\ <<from, to>>[1] = from /\ <<from, to>>[2] = to
  BY SpanOf
<1> HIDE DEF S
<1>7. H[<<from, to>>] = HashOf(H, digests, <<from, to>>[1], <<from, to>>[2])
  BY <1>5, <1>6
<1> QED
  BY <1>1, <1>6, <1>7

\* The span of the i-th node of level k, of n digests.
From(k, i) == (i - 1) * PowerOfTwo[k] + 1
To(k, i, n) == IF i * PowerOfTwo[k] <= n THEN i * PowerOfTwo[k] ELSE n

\* A node one level up spans what two neighbours span, split where the reference splits.
LEMMA SpanHalves ==
  ASSUME NEW n \in Nat, NEW k \in Nat, NEW i \in Nat \ {0}
  PROVE  /\ From(k + 1, i) = From(k, 2 * i - 1)
         /\ From(k, 2 * i) <= To(k, 2 * i, n) =>
              /\ To(k, 2 * i - 1, n) + 1 = From(k, 2 * i)
              /\ To(k + 1, i, n) = To(k, 2 * i, n)
              /\ Mid(From(k + 1, i), To(k + 1, i, n)) = To(k, 2 * i - 1, n)
         /\ n <= (2 * i - 1) * PowerOfTwo[k] => To(k + 1, i, n) = To(k, 2 * i - 1, n)
<1> DEFINE w == PowerOfTwo[k]
           a == (i - 1) * PowerOfTwo[k + 1]
<1>1. w \in Nat /\ w >= 1 /\ PowerOfTwo[k + 1] = 2 * w
  BY PowersGrow, PowersAre
<1> HIDE DEF w
<1>2. /\ a = (2 * i - 2) * w /\ a \in Nat
      /\ (2 * i - 1) * w = a + w
      /\ (2 * i) * w = a + 2 * w
      /\ i * PowerOfTwo[k + 1] = a + 2 * w
  <2>1. (i - 1) * (2 * w) = (2 * i - 2) * w /\ (i - 1) * (2 * w) \in Nat
    BY <1>1
  <2>2. (2 * i - 1) * w = (2 * i - 2) * w + w
    BY <1>1
  <2>3. (2 * i) * w = (2 * i - 2) * w + 2 * w
    BY <1>1
  <2>4. i * (2 * w) = (2 * i) * w
    BY <1>1
  <2> QED
    BY <1>1, <2>1, <2>2, <2>3, <2>4
<1> HIDE DEF a
<1>3. /\ From(k + 1, i) = a + 1
      /\ To(k + 1, i, n) = IF a + 2 * w <= n THEN a + 2 * w ELSE n
  BY <1>2 DEF From, To, a
<1>4. /\ From(k, 2 * i - 1) = a + 1
      /\ To(k, 2 * i - 1, n) = IF a + w <= n THEN a + w ELSE n
  <2>1. (2 * i - 1) - 1 = 2 * i - 2
    OBVIOUS
  <2> QED
    BY <1>2, <2>1 DEF From, To, w
<1>5. /\ From(k, 2 * i) = (a + w) + 1
      /\ To(k, 2 * i, n) = IF a + 2 * w <= n THEN a + 2 * w ELSE n
  BY <1>2 DEF From, To, w
<1>6. ASSUME From(k, 2 * i) <= To(k, 2 * i, n)
      PROVE  Mid(From(k + 1, i), To(k + 1, i, n)) = To(k, 2 * i - 1, n)
             /\ To(k, 2 * i - 1, n) = a + w
  <2> DEFINE to == To(k + 1, i, n)
             m == to - (a + 1) + 1
  <2>1. to \in Nat /\ a + w < to /\ to <= a + 2 * w /\ a + w <= n
    BY <1>1, <1>2, <1>3, <1>5, <1>6
  <2> HIDE DEF to
  <2>2. m \in Nat /\ w < m /\ m <= 2 * w
    BY <1>1, <1>2, <2>1
  <2>3. SplitAt(m) = w
    BY <2>2, SplitIs DEF w
  <2>4. (a + 1) + w - 1 = a + w
    BY <1>1, <1>2
  <2> HIDE DEF m
  <2>5. Mid(a + 1, to) = a + w
    BY <2>3, <2>4 DEF Mid, m
  <2> QED
    BY <1>3, <1>4, <2>1, <2>5 DEF to
<1>7. n <= (2 * i - 1) * w => To(k + 1, i, n) = To(k, 2 * i - 1, n)
  BY <1>1, <1>2, <1>3, <1>4
<1> QED
  BY <1>3, <1>4, <1>5, <1>6, <1>7 DEF w

\* Every node of every level is the hash of what it spans.
NodesTo(digests, k) ==
  LET n == Len(digests)
      level == Levels(digests)[k]
  IN  /\ n <= Len(level) * PowerOfTwo[k]
      /\ \A i \in 1..Len(level) :
           /\ From(k, i) \in 1..n /\ To(k, i, n) \in 1..n /\ From(k, i) <= To(k, i, n)
           /\ level[i] = TreeHash(digests)[<<From(k, i), To(k, i, n)>>]

LEMMA NodesUp ==
  ASSUME NEW digests, Digests(digests), digests # <<>>, NEW k \in Nat, k < Len(digests),
         NodesTo(digests, k)
  PROVE  NodesTo(digests, k + 1)
<1> DEFINE n == Len(digests)
           level == Levels(digests)[k]
           up == Levels(digests)[k + 1]
           c == Len(level)
           w == PowerOfTwo[k]
           hash == TreeHash(digests)
<1>1. n \in Nat /\ w \in Nat /\ PowerOfTwo[k + 1] = 2 * w
  BY PowersAre, PowersGrow DEF Digests
<1>2. k \in 0..n /\ k + 1 \in 1..n /\ (k + 1) - 1 = k
  BY <1>1
<1>3. up = reduce_level(level)
  BY <1>1, <1>2, LevelsAre DEF LevelsTo
<1>4. Digests(level) /\ c \in Nat \ {0}
  BY <1>2, LevelFields
<1>5. Len(up) = (c + 1) \div 2
  BY <1>3, <1>4, ReducedLevel
<1>6. Len(up) \in Nat /\ c <= 2 * Len(up) /\ 2 * Len(up) <= c + 1
  <2>1. c \in Nat /\ Len(up) = (c + 1) \div 2
    BY <1>4, <1>5
  <2> HIDE DEF c, up
  <2> QED
    BY <2>1, Half
<1>7. /\ n <= c * w
      /\ \A i \in 1..c :
           /\ From(k, i) \in 1..n /\ To(k, i, n) \in 1..n /\ From(k, i) <= To(k, i, n)
           /\ level[i] = hash[<<From(k, i), To(k, i, n)>>]
  BY DEF NodesTo
<1>8. \A i \in 1..Len(up) : up[i] = IF 2 * i <= c THEN hash_pair(level[2 * i - 1], level[2 * i])
                                    ELSE level[2 * i - 1]
  BY <1>3, <1>5 DEF reduce_level
<1> HIDE DEF level, up, c, w, n, hash
<1>9. n <= Len(up) * PowerOfTwo[k + 1]
  <2>1. Len(up) * (2 * w) = (2 * Len(up)) * w
    BY <1>1, <1>6
  <2>2. c * w <= (2 * Len(up)) * w
    <3> DEFINE d == 2 * Len(up)
    <3>1. d \in Nat /\ c \in Nat /\ (d = c \/ d = c + 1)
      BY <1>4, <1>6
    <3> HIDE DEF d
    <3>2. (c + 1) * w = c * w + w /\ c * w \in Nat
      BY <1>1, <3>1
    <3>3. c * w <= d * w
      BY <1>1, <3>1, <3>2
    <3> QED
      BY <3>3 DEF d
  <2>3. c * w \in Nat /\ (2 * Len(up)) * w \in Nat
    BY <1>1, <1>4, <1>6
  <2> QED
    BY <1>1, <1>7, <2>1, <2>2, <2>3
<1>10. ASSUME NEW i \in 1..Len(up)
       PROVE  /\ From(k + 1, i) \in 1..n /\ To(k + 1, i, n) \in 1..n
              /\ From(k + 1, i) <= To(k + 1, i, n)
              /\ up[i] = hash[<<From(k + 1, i), To(k + 1, i, n)>>]
  <2>1. i \in Nat \ {0} /\ 2 * i - 1 \in 1..c
    BY <1>4, <1>6
  <2>2. /\ From(k + 1, i) = From(k, 2 * i - 1)
        /\ From(k, 2 * i) <= To(k, 2 * i, n) =>
             /\ To(k, 2 * i - 1, n) + 1 = From(k, 2 * i)
             /\ To(k + 1, i, n) = To(k, 2 * i, n)
             /\ Mid(From(k + 1, i), To(k + 1, i, n)) = To(k, 2 * i - 1, n)
        /\ n <= (2 * i - 1) * w => To(k + 1, i, n) = To(k, 2 * i - 1, n)
    BY <1>1, <2>1, SpanHalves DEF w
  <2>3. CASE 2 * i <= c
    <3> DEFINE from == From(k + 1, i)
               to == To(k + 1, i, n)
               mid == Mid(from, to)
    <3>1. 2 * i \in 1..c
      BY <2>1, <2>3
    <3>2. /\ from = From(k, 2 * i - 1) /\ to = To(k, 2 * i, n)
          /\ mid = To(k, 2 * i - 1, n) /\ mid + 1 = From(k, 2 * i)
      BY <1>7, <2>2, <3>1
    <3>3. /\ from \in 1..n /\ to \in 1..n /\ mid \in 1..n /\ from <= mid /\ mid + 1 <= to
      BY <1>7, <2>1, <3>1, <3>2
    <3>4. level[2 * i - 1] = hash[<<from, mid>>] /\ level[2 * i] = hash[<<mid + 1, to>>]
      BY <1>7, <2>1, <3>1, <3>2
    <3>5. up[i] = hash_pair(level[2 * i - 1], level[2 * i])
      BY <1>8, <2>3
    <3> HIDE DEF from, to
    <3>6. hash[<<from, to>>] = HashOf(hash, digests, from, to)
      BY <1>1, <3>3, TreeHashIs DEF hash, n
    <3>7. ~(from >= to)
      BY <3>3
    <3>8. up[i] = hash[<<from, to>>]
      BY <3>4, <3>5, <3>6, <3>7 DEF HashOf
    <3>9. from <= to
      BY <3>3
    <3> QED
      BY <3>3, <3>8, <3>9 DEF from, to
  <2>4. CASE ~(2 * i <= c)
    <3>1. 2 * i - 1 = c
      BY <1>4, <1>6, <2>1, <2>4
    <3>2. up[i] = level[2 * i - 1]
      BY <1>8, <2>4
    <3>3. From(k + 1, i) = From(k, c) /\ To(k + 1, i, n) = To(k, c, n)
      BY <1>7, <2>2, <3>1
    <3> QED
      BY <1>7, <2>1, <3>1, <3>2, <3>3
  <2> QED
    BY <2>3, <2>4
<1> QED
  BY <1>9, <1>10 DEF NodesTo, level, up, c, w, n, hash

LEMMA NodesAreHashes ==
  ASSUME NEW digests, Digests(digests), digests # <<>>
  PROVE  \A k \in 0..Len(digests) : NodesTo(digests, k)
<1> DEFINE n == Len(digests)
           Bad == {k \in 0..n : ~NodesTo(digests, k)}
<1>1. n \in Nat
  BY DEF Digests
<1>2. NodesTo(digests, 0)
  <2>1. Levels(digests)[0] = digests /\ PowerOfTwo[0] = 1
    BY <1>1, LevelsAre, PowersAre DEF LevelsTo
  <2>2. ASSUME NEW i \in 1..n
        PROVE  /\ From(0, i) = i /\ To(0, i, n) = i
               /\ digests[i] = TreeHash(digests)[<<i, i>>]
    <3>1. From(0, i) = i /\ To(0, i, n) = i
      BY <1>1, <2>1 DEF From, To
    <3>2. TreeHash(digests)[<<i, i>>] = HashOf(TreeHash(digests), digests, i, i)
      BY <1>1, TreeHashIs
    <3>3. i >= i
      OBVIOUS
    <3> QED
      BY <3>1, <3>2, <3>3 DEF HashOf
  <2>3. n <= n * PowerOfTwo[0]
    BY <1>1, <2>1
  <2>4. ASSUME NEW i \in 1..n
        PROVE  /\ From(0, i) \in 1..n /\ To(0, i, n) \in 1..n /\ From(0, i) <= To(0, i, n)
               /\ digests[i] = TreeHash(digests)[<<From(0, i), To(0, i, n)>>]
    <3>1. i \in 1..n /\ i <= i
      OBVIOUS
    <3>2. From(0, i) = i /\ To(0, i, n) = i /\ digests[i] = TreeHash(digests)[<<i, i>>]
      BY <2>2
    <3> QED
      BY <3>1, <3>2, Zenon
  <2> QED
    BY <2>1, <2>3, <2>4, Zenon DEF NodesTo
<1>3. SUFFICES ASSUME Bad # {} PROVE FALSE
  OBVIOUS
<1>4. PICK k \in 1..n : k \in Bad /\ k - 1 \in 0..n /\ k - 1 \notin Bad
  <2>1. Bad \subseteq 0..n /\ 0 \notin Bad
    BY <1>2
  <2> HIDE DEF Bad
  <2> QED
    BY <1>1, <1>3, <2>1, FirstRound
<1>5. NodesTo(digests, k - 1) /\ ~NodesTo(digests, k)
  BY <1>4
<1>6. k - 1 \in Nat /\ k - 1 < n /\ (k - 1) + 1 = k
  BY <1>1
<1>7. NodesTo(digests, (k - 1) + 1)
  BY <1>5, <1>6, NodesUp
<1> QED
  BY <1>5, <1>6, <1>7

LEMMA RootIsHash ==
  ASSUME NEW digests, Digests(digests), digests # <<>>
  PROVE  merkle_root(digests) = TreeHash(digests)[<<1, Len(digests)>>]
<1> DEFINE n == Len(digests)
<1>1. n \in Nat \ {0} /\ n \in 0..n
  BY DEF Digests
<1>2. Len(Levels(digests)[n]) = 1
  BY <1>1, LevelFields
<1>3. PowerOfTwo[n] \in Nat /\ PowerOfTwo[n] >= n + 1
  BY <1>1, PowersGrow
<1>4. From(n, 1) = 1 /\ To(n, 1, n) = n
  BY <1>1, <1>3 DEF From, To
<1>5. Levels(digests)[n][1] = TreeHash(digests)[<<From(n, 1), To(n, 1, n)>>]
  BY <1>1, <1>2, NodesAreHashes DEF NodesTo
<1> QED
  BY <1>4, <1>5 DEF merkle_root

-----------------------------------------------------------------------------
\* The audit path of a span, given those of the spans within.
PathOf(path, digests, m, from, to) ==
  IF from >= to THEN <<>>
  ELSE IF m <= Mid(from, to)
  THEN Append(path[<<from, Mid(from, to)>>], TreeHash(digests)[<<Mid(from, to) + 1, to>>])
  ELSE Append(path[<<Mid(from, to) + 1, to>>], TreeHash(digests)[<<from, Mid(from, to)>>])

\* A function that makes the paths of the spans of at most d + 1 digests.
PathTo(f, d, digests, m) ==
  \A s \in Spans(digests) : s[2] - s[1] <= d => f[s] = PathOf(f, digests, m, s[1], s[2])

LEMMA PathsExist ==
  ASSUME NEW digests, Len(digests) \in Nat, NEW m, NEW n \in Nat
  PROVE  \E f : PathTo(f, n, digests, m)
<1> DEFINE N == Len(digests)
           S == Spans(digests)
           Bad == {d \in 0..n : ~ \E f : PathTo(f, d, digests, m)}
<1>1. 0 \notin Bad
  <2> DEFINE g == [s \in S |-> <<>>]
  <2>1. ASSUME NEW s \in S, s[2] - s[1] <= 0
        PROVE  g[s] = PathOf(g, digests, m, s[1], s[2])
    <3>1. s[1] >= s[2]
      BY <2>1, SpanEnds
    <3>2. g[s] = <<>>
      OBVIOUS
    <3> QED
      BY <3>1, <3>2 DEF PathOf
  <2>2. PathTo(g, 0, digests, m)
    BY <2>1 DEF PathTo
  <2> QED
    BY <2>2
<1>2. SUFFICES ASSUME Bad # {} PROVE FALSE
  <2>1. n \in 0..n
    OBVIOUS
  <2> QED
    BY <2>1, Zenon
<1>3. PICK d \in 1..n : d \in Bad /\ d - 1 \in 0..n /\ d - 1 \notin Bad
  <2>1. Bad \subseteq 0..n
    OBVIOUS
  <2> HIDE DEF Bad
  <2> QED
    BY <1>1, <1>2, <2>1, FirstRound
<1>4. PICK f : PathTo(f, d - 1, digests, m)
  BY <1>3
<1> DEFINE g == [s \in S |-> PathOf(f, digests, m, s[1], s[2])]
<1>5. ASSUME NEW s \in S
      PROVE  /\ g[s] = PathOf(f, digests, m, s[1], s[2])
             /\ s[2] - s[1] <= d - 1 => g[s] = f[s]
  <2>1. g[s] = PathOf(f, digests, m, s[1], s[2])
    OBVIOUS
  <2> QED
    BY <1>4, <2>1 DEF PathTo
<1> HIDE DEF g
<1>6. ASSUME NEW s \in S, s[2] - s[1] <= d
      PROVE  g[s] = PathOf(g, digests, m, s[1], s[2])
  <2> DEFINE from == s[1]
             to == s[2]
             mid == Mid(from, to)
  <2>1. from \in 1..N /\ to \in 1..N
    BY SpanEnds
  <2>2. CASE from >= to
    BY <1>5, <2>2 DEF PathOf
  <2>3. CASE ~(from >= to)
    <3>1. from < to
      BY <2>1, <2>3
    <3>2. /\ mid \in from..(to - 1) /\ mid \in 1..N /\ mid + 1 \in 1..N
          /\ <<from, mid>> \in S /\ <<mid + 1, to>> \in S
      BY <2>1, <3>1, MidIsWithin
    <3>3. to - from <= d
      BY <1>6
    <3> HIDE DEF mid, from, to
    <3>4. mid - from <= d - 1 /\ to - (mid + 1) <= d - 1
      BY <2>1, <3>2, <3>3
    <3>5. <<from, mid>>[2] - <<from, mid>>[1] <= d - 1 /\ <<mid + 1, to>>[2] - <<mid + 1, to>>[1] <= d - 1
      BY <3>4
    <3>6. g[<<from, mid>>] = f[<<from, mid>>] /\ g[<<mid + 1, to>>] = f[<<mid + 1, to>>]
      BY <1>5, <3>2, <3>5
    <3>7. g[s] = PathOf(f, digests, m, from, to)
      BY <1>5 DEF from, to
    <3>8. PathOf(f, digests, m, from, to) = PathOf(g, digests, m, from, to)
      BY <3>6 DEF PathOf, mid
    <3> QED
      BY <3>7, <3>8 DEF from, to
  <2> QED
    BY <2>2, <2>3
<1>7. PathTo(g, d, digests, m)
  BY <1>6 DEF PathTo
<1> QED
  BY <1>3, <1>7

LEMMA AuditPathsAre ==
  ASSUME NEW digests, Len(digests) \in Nat, NEW m,
         NEW from \in 1..Len(digests), NEW to \in 1..Len(digests)
  PROVE  AuditPaths(digests, m)[<<from, to>>] = PathOf(AuditPaths(digests, m), digests, m, from, to)
<1> DEFINE N == Len(digests)
           S == Spans(digests)
           ArePaths(f) == f = [s \in S |-> PathOf(f, digests, m, s[1], s[2])]
           P == CHOOSE f : ArePaths(f)
<1>1. AuditPaths(digests, m) = P
  BY DEF AuditPaths, PathOf
<1>2. PICK g : PathTo(g, N, digests, m)
  BY PathsExist
<1> DEFINE h == [s \in S |-> g[s]]
<1>3. ASSUME NEW s \in S
      PROVE  h[s] = PathOf(h, digests, m, s[1], s[2])
  <2>1. \A r \in S : h[r] = g[r]
    OBVIOUS
  <2>2. s[1] \in 1..N /\ s[2] \in 1..N /\ s[2] - s[1] <= N
    BY SpanEnds
  <2>3. g[s] = PathOf(g, digests, m, s[1], s[2])
    BY <1>2, <2>2 DEF PathTo
  <2> HIDE DEF h
  <2>4. CASE s[1] >= s[2]
    BY <2>1, <2>3, <2>4 DEF PathOf
  <2>5. CASE ~(s[1] >= s[2])
    <3>1. s[1] < s[2]
      BY <2>2, <2>5
    <3>2. <<s[1], Mid(s[1], s[2])>> \in S /\ <<Mid(s[1], s[2]) + 1, s[2]>> \in S
      BY <2>2, <3>1, MidIsWithin
    <3> QED
      BY <2>1, <2>3, <2>5, <3>2 DEF PathOf
  <2> QED
    BY <2>4, <2>5
<1>4. ArePaths(h)
  <2>1. h = [s \in S |-> h[s]]
    OBVIOUS
  <2> HIDE DEF h, S
  <2> QED
    BY <1>3, <2>1, Zenon
<1>5. ArePaths(P)
  <2> HIDE DEF ArePaths, h
  <2> QED
    BY <1>4
<1> HIDE DEF P
<1>6. <<from, to>> \in S /\ <<from, to>>[1] = from /\ <<from, to>>[2] = to
  BY SpanOf
<1> HIDE DEF S
<1>7. P[<<from, to>>] = PathOf(P, digests, m, <<from, to>>[1], <<from, to>>[2])
  BY <1>5, <1>6
<1> QED
  BY <1>1, <1>6, <1>7

\* After k rounds the loop stands at the node of level k that spans the leaf, and has
\* the reference's path of that span.
PathIsAt(digests, m, k) ==
  LET n == Len(digests)
      s == ProofLoop(digests, m - 1)[k]
      i == s.idx + 1
  IN  /\ s.idx \in Nat /\ s.idx < Len(Levels(digests)[k])
      /\ From(k, i) <= m /\ m <= To(k, i, n)
      /\ s.proof = AuditPaths(digests, m)[<<From(k, i), To(k, i, n)>>]

LEMMA PathUp ==
  ASSUME NEW digests, Digests(digests), digests # <<>>, NEW m \in 1..Len(digests),
         NEW k \in Nat, k < Len(digests), PathIsAt(digests, m, k)
  PROVE  PathIsAt(digests, m, k + 1)
<1> DEFINE n == Len(digests)
           level == Levels(digests)[k]
           up == Levels(digests)[k + 1]
           c == Len(level)
           w == PowerOfTwo[k]
           s == ProofLoop(digests, m - 1)[k]
           t == ProofLoop(digests, m - 1)[k + 1]
           path == AuditPaths(digests, m)
           hash == TreeHash(digests)
<1>1. n \in Nat /\ w \in Nat /\ m \in 1..n /\ PowerOfTwo[k + 1] = 2 * w
  BY PowersAre, PowersGrow DEF Digests
<1>2. k \in 0..n /\ k + 1 \in 1..n /\ k + 1 \in 0..n /\ (k + 1) - 1 = k
  BY <1>1
<1>3. up = reduce_level(level)
  BY <1>1, <1>2, LevelsAre DEF LevelsTo
<1>4. Digests(level) /\ c \in Nat \ {0}
  BY <1>2, LevelFields
<1>5. /\ Len(up) = (c + 1) \div 2
      /\ Len(up) \in Nat /\ c <= 2 * Len(up) /\ 2 * Len(up) <= c + 1
  <2>1. c \in Nat /\ Len(up) = (c + 1) \div 2
    BY <1>3, <1>4, ReducedLevel
  <2> HIDE DEF c, up
  <2> QED
    BY <2>1, Half
<1>6. t = ProofRound(s, level)
  BY <1>1, <1>2, ProofLoopIs DEF ProofTo
<1>7. /\ n <= c * w
      /\ \A i \in 1..c :
           /\ From(k, i) \in 1..n /\ To(k, i, n) \in 1..n /\ From(k, i) <= To(k, i, n)
           /\ level[i] = hash[<<From(k, i), To(k, i, n)>>]
  BY <1>2, NodesAreHashes DEF NodesTo
<1>8. /\ n <= Len(up) * PowerOfTwo[k + 1]
      /\ \A i \in 1..Len(up) :
           From(k + 1, i) \in 1..n /\ To(k + 1, i, n) \in 1..n
  BY <1>2, NodesAreHashes DEF NodesTo
<1>9. /\ s.idx \in Nat /\ s.idx < c
      /\ From(k, s.idx + 1) <= m /\ m <= To(k, s.idx + 1, n)
      /\ s.proof = path[<<From(k, s.idx + 1), To(k, s.idx + 1, n)>>]
  BY DEF PathIsAt
<1> HIDE DEF level, up, c, w, n, s, t, path, hash
<1>10. SUFFICES /\ t.idx \in Nat /\ t.idx < Len(up)
                /\ From(k + 1, t.idx + 1) <= m /\ m <= To(k + 1, t.idx + 1, n)
                /\ t.proof = path[<<From(k + 1, t.idx + 1), To(k + 1, t.idx + 1, n)>>]
  BY DEF PathIsAt, up, n, t, path
<1>11. CASE c <= 1
  <2>1. c = 1 /\ s.idx = 0 /\ t = s
    <3>1. c = 1
      BY <1>4, <1>11
    <3>2. s.idx = 0
      BY <1>9, <3>1
    <3>3. t = s
      BY <1>6, <1>11 DEF ProofRound, c
    <3> QED
      BY <3>1, <3>2, <3>3
  <2>2. Len(up) = 1
    BY <1>5, <2>1
  <2>3. n <= w /\ n <= 2 * w
    BY <1>1, <1>7, <2>1
  <2>4. From(k, 1) = 1 /\ From(k + 1, 1) = 1 /\ To(k, 1, n) = n /\ To(k + 1, 1, n) = n
    BY <1>1, <2>3 DEF From, To, w
  <2> QED
    BY <1>9, <2>1, <2>2, <2>4
<1>12. CASE ~(c <= 1)
  <2> DEFINE i == s.idx \div 2 + 1
  <2>1. /\ t.idx = s.idx \div 2
        /\ t.proof = IF IsPromoted(s.idx, c) THEN s.proof
                     ELSE Append(s.proof, level[Sibling(s.idx) + 1])
    BY <1>6, <1>12 DEF ProofRound, c
  <2>2. s.idx = 2 * (s.idx \div 2) \/ s.idx = 2 * (s.idx \div 2) + 1
    BY <1>9, Half
  <2>3. t.idx \in Nat /\ t.idx + 1 = i /\ i \in Nat \ {0}
    BY <1>9, <2>1, Half
  <2>4. s.idx = 2 * i - 2 \/ s.idx = 2 * i - 1
    BY <1>9, <2>2, Half
  <2> HIDE DEF i
  <2>5. /\ From(k + 1, i) = From(k, 2 * i - 1)
        /\ From(k, 2 * i) <= To(k, 2 * i, n) =>
             /\ To(k, 2 * i - 1, n) + 1 = From(k, 2 * i)
             /\ To(k + 1, i, n) = To(k, 2 * i, n)
             /\ Mid(From(k + 1, i), To(k + 1, i, n)) = To(k, 2 * i - 1, n)
        /\ n <= (2 * i - 1) * w => To(k + 1, i, n) = To(k, 2 * i - 1, n)
    <3>1. n \in Nat /\ k \in Nat /\ i \in Nat \ {0}
      BY <1>1, <2>3
    <3> QED
      BY <3>1, SpanHalves DEF w
  <2>6. i <= Len(up) /\ i \in 1..Len(up)
    <3> DEFINE x == s.idx
    <3>1. x \in Nat /\ x < c /\ (x = 2 * i - 2 \/ x = 2 * i - 1)
      BY <1>9, <2>4
    <3> HIDE DEF x
    <3> QED
      BY <1>4, <1>5, <2>3, <3>1
  <2>7. t.idx < Len(up)
    BY <1>4, <1>5, <2>3, <2>6, Half
  <2> DEFINE from == From(k + 1, i)
             to == To(k + 1, i, n)
             mid == Mid(from, to)
  <2>8. from \in 1..n /\ to \in 1..n
    BY <1>8, <2>6
  <2>9. path[<<from, to>>] = PathOf(path, digests, m, from, to)
    BY <1>1, <2>8, AuditPathsAre DEF path, n
  <2>10. CASE 2 * i <= c
    <3>1. 2 * i \in 1..c /\ 2 * i - 1 \in 1..c
      BY <1>4, <2>3, <2>10
    <3>2. /\ from = From(k, 2 * i - 1) /\ to = To(k, 2 * i, n)
          /\ mid = To(k, 2 * i - 1, n) /\ mid + 1 = From(k, 2 * i)
          /\ mid \in 1..n /\ from <= mid /\ mid + 1 <= to
      BY <1>7, <2>5, <3>1
    <3>3. level[2 * i - 1] = hash[<<from, mid>>] /\ level[2 * i] = hash[<<mid + 1, to>>]
      BY <1>7, <3>1, <3>2
    <3> HIDE DEF from, to, mid
    <3>4. ~(from >= to)
      BY <1>1, <2>8, <3>2
    <3>5. CASE s.idx = 2 * i - 2
      <4>1. s.idx + 1 = 2 * i - 1 /\ Sibling(s.idx) + 1 = 2 * i /\ ~IsPromoted(s.idx, c)
        BY <1>4, <2>3, <2>10, <3>5 DEF Sibling, IsPromoted
      <4>2. from <= m /\ m <= mid /\ s.proof = path[<<from, mid>>]
        BY <1>9, <3>2, <4>1
      <4>3. t.proof = Append(path[<<from, mid>>], hash[<<mid + 1, to>>])
        BY <2>1, <3>3, <4>1, <4>2
      <4>4. path[<<from, to>>] = Append(path[<<from, mid>>], hash[<<mid + 1, to>>])
        BY <2>9, <3>4, <4>2 DEF PathOf, hash, mid
      <4>5. m <= to
        BY <1>1, <2>8, <3>2, <4>2
      <4> QED
        BY <2>3, <2>7, <4>2, <4>3, <4>4, <4>5 DEF from, to
    <3>6. CASE s.idx = 2 * i - 1
      <4>1. s.idx + 1 = 2 * i /\ Sibling(s.idx) + 1 = 2 * i - 1 /\ ~IsPromoted(s.idx, c)
        BY <1>4, <2>3, <2>10, <3>6 DEF Sibling, IsPromoted
      <4>2. mid + 1 <= m /\ m <= to /\ s.proof = path[<<mid + 1, to>>]
        BY <1>9, <3>2, <4>1
      <4>3. t.proof = Append(path[<<mid + 1, to>>], hash[<<from, mid>>])
        BY <2>1, <3>3, <4>1, <4>2
      <4>4. ~(m <= mid) /\ from <= m
        BY <1>1, <2>8, <3>2, <4>2
      <4>5. path[<<from, to>>] = Append(path[<<mid + 1, to>>], hash[<<from, mid>>])
        BY <2>9, <3>4, <4>4 DEF PathOf, hash, mid
      <4> QED
        BY <2>3, <2>7, <4>2, <4>3, <4>4, <4>5 DEF from, to
    <3> QED
      BY <2>4, <3>5, <3>6
  <2>11. CASE ~(2 * i <= c)
    <3>1. 2 * i - 1 = c /\ s.idx + 1 = c /\ s.idx = 2 * i - 2
      <4> DEFINE x == s.idx
      <4>1. x \in Nat /\ x < c /\ (x = 2 * i - 2 \/ x = 2 * i - 1)
        BY <1>9, <2>4
      <4> HIDE DEF x
      <4>2. 2 * i - 1 = c /\ x + 1 = c /\ x = 2 * i - 2
        BY <1>4, <2>3, <2>11, <4>1
      <4> QED
        BY <4>2 DEF x
    <3>2. IsPromoted(s.idx, c)
      BY <1>4, <2>3, <3>1 DEF IsPromoted
    <3>3. from = From(k, c) /\ to = To(k, c, n)
      BY <1>7, <2>5, <3>1
    <3> QED
      BY <1>9, <2>1, <2>3, <2>7, <3>1, <3>2, <3>3
  <2> QED
    BY <2>10, <2>11
<1> QED
  BY <1>11, <1>12

LEMMA ProofIsPath ==
  ASSUME NEW digests, Digests(digests), digests # <<>>, NEW m \in 1..Len(digests)
  PROVE  merkle_proof(digests, m - 1) = AuditPaths(digests, m)[<<1, Len(digests)>>]
<1> DEFINE n == Len(digests)
           Bad == {k \in 0..n : ~PathIsAt(digests, m, k)}
<1>1. n \in Nat \ {0} /\ n \in 0..n /\ m - 1 \in Nat /\ m - 1 < n
  BY DEF Digests
<1>2. PathIsAt(digests, m, 0)
  <2>1. Levels(digests)[0] = digests /\ PowerOfTwo[0] = 1
    BY <1>1, LevelsAre, PowersAre DEF LevelsTo
  <2>2. ProofLoop(digests, m - 1)[0] = [idx |-> m - 1, proof |-> <<>>]
    BY <1>1, ProofLoopIs DEF ProofTo
  <2>3. From(0, (m - 1) + 1) = m /\ To(0, (m - 1) + 1, n) = m
    BY <1>1, <2>1 DEF From, To
  <2>4. AuditPaths(digests, m)[<<m, m>>] = <<>>
    <3>1. AuditPaths(digests, m)[<<m, m>>] = PathOf(AuditPaths(digests, m), digests, m, m, m)
      BY <1>1, AuditPathsAre
    <3>2. m >= m
      OBVIOUS
    <3> QED
      BY <3>1, <3>2 DEF PathOf
  <2>5. m <= m
    OBVIOUS
  <2> QED
    BY <1>1, <2>1, <2>2, <2>3, <2>4, <2>5 DEF PathIsAt
<1>3. PathIsAt(digests, m, n)
  <2>1. SUFFICES ASSUME Bad # {} PROVE FALSE
    BY <1>1
  <2>2. PICK k \in 1..n : k \in Bad /\ k - 1 \in 0..n /\ k - 1 \notin Bad
    <3>1. Bad \subseteq 0..n /\ 0 \notin Bad
      BY <1>2
    <3> HIDE DEF Bad
    <3> QED
      BY <1>1, <2>1, <3>1, FirstRound
  <2>3. PathIsAt(digests, m, k - 1) /\ ~PathIsAt(digests, m, k)
    BY <2>2
  <2>4. k - 1 \in Nat /\ k - 1 < n /\ (k - 1) + 1 = k
    BY <1>1
  <2>5. PathIsAt(digests, m, (k - 1) + 1)
    BY <2>3, <2>4, PathUp
  <2> QED
    BY <2>3, <2>4, <2>5
<1>4. Len(Levels(digests)[n]) = 1
  BY <1>1, LevelFields
<1>5. PowerOfTwo[n] \in Nat /\ PowerOfTwo[n] >= n + 1
  BY <1>1, PowersGrow
<1>6. From(n, 1) = 1 /\ To(n, 1, n) = n
  BY <1>1, <1>5 DEF From, To
<1> DEFINE s == ProofLoop(digests, m - 1)[n]
<1>7. s.idx \in Nat /\ s.idx < 1
      /\ s.proof = AuditPaths(digests, m)[<<From(n, s.idx + 1), To(n, s.idx + 1, n)>>]
  BY <1>3, <1>4 DEF PathIsAt
<1>8. s.idx = 0 /\ s.idx + 1 = 1
  BY <1>7
<1>9. merkle_proof(digests, m - 1) = s.proof
  BY <1>1 DEF merkle_proof
<1> QED
  BY <1>6, <1>7, <1>8, <1>9

\* The root that reducing level by level gives, with promotion, is the root of the
\* reference tree, for payloads of every size (merkle.cpp:39-49).
THEOREM RootsAreTreeHashes == ClaimSpec => []RootIsTreeHash
<1>1. ClaimSpec => []ClaimInv
  BY InitClaimInv, NextClaimInv, PTL DEF ClaimSpec
<1>2. ClaimInv => RootIsTreeHash
  <2> SUFFICES ASSUME ClaimInv PROVE RootIsTreeHash
    OBVIOUS
  <2> DEFINE l == LeavesOf(payload)
  <2>1. Digests(l) /\ l # <<>> /\ Len(l) = Len(payload)
    BY LeavesOfPayload DEF ClaimInv
  <2> HIDE DEF l
  <2>2. merkle_root(l) = TreeHash(l)[<<1, Len(l)>>]
    BY <2>1, RootIsHash
  <2> QED
    BY <2>1, <2>2 DEF RootIsTreeHash, RootOf, l
<1> QED
  BY <1>1, <1>2, PTL

\* The proof of every leaf is its audit path in the reference tree: no level is skipped
\* but those where its ancestor is promoted, for payloads of every size
\* (merkle.cpp:51-70).
THEOREM ProofsAreAuditPaths == ClaimSpec => []ProofIsAuditPath
<1>1. ClaimSpec => []ClaimInv
  BY InitClaimInv, NextClaimInv, PTL DEF ClaimSpec
<1>2. ClaimInv => ProofIsAuditPath
  <2> SUFFICES ASSUME ClaimInv, NEW i \in 1..Len(payload)
               PROVE  merkle_proof(LeavesOf(payload), i - 1) =
                        AuditPaths(LeavesOf(payload), i)[<<1, Len(payload)>>]
    BY DEF ProofIsAuditPath
  <2> DEFINE l == LeavesOf(payload)
  <2>1. Digests(l) /\ l # <<>> /\ Len(l) = Len(payload)
    BY LeavesOfPayload DEF ClaimInv
  <2> HIDE DEF l
  <2>2. merkle_proof(l, i - 1) = AuditPaths(l, i)[<<1, Len(l)>>]
    BY <2>1, ProofIsPath
  <2> QED
    BY <2>1, <2>2 DEF l
<1> QED
  BY <1>1, <1>2, PTL

-----------------------------------------------------------------------------
(* The leaves a seeder makes.                                                *)

\* The loop is at the end of its last leaf, which began inside the payload.
ConstructInv ==
  /\ manifest_block_size \in BlockSizes /\ payload_len \in Lengths
  /\ Len(leaves) \in Nat /\ leaves = [k \in 1..Len(leaves) |-> leaves[k]]
  /\ off = Len(leaves) * manifest_block_size
  /\ Len(leaves) # 0 => (Len(leaves) - 1) * manifest_block_size < payload_len
  /\ \A k \in 1..Len(leaves) :
       leaves[k] = [at  |-> (k - 1) * manifest_block_size,
                    len |-> IF k * manifest_block_size <= payload_len THEN manifest_block_size
                            ELSE payload_len - (k - 1) * manifest_block_size]
  /\ valid => off >= payload_len

\* A block begins inside a payload if and only if it is one of its blocks.
LEMMA BlocksBegin ==
  ASSUME NEW n \in Nat, NEW d \in Nat \ {0}, NEW k \in Nat
  PROVE  /\ (n + d - 1) \div d \in Nat
         /\ k <= (n + d - 1) \div d <=> k = 0 \/ (k - 1) * d < n
<1> DEFINE m == n + d - 1
           c == m \div d
           r == m % d
<1>1. m \in Nat
  OBVIOUS
<1>2. c \in Nat /\ r \in Nat /\ r < d /\ m = d * c + r
  BY <1>1, Division
<1> HIDE DEF c, r
<1>3. n = d * c + r - d + 1 /\ d * c \in Nat
  <2>1. d * c \in Nat
    BY <1>2, SMT
  <2> QED
    BY <1>2, <2>1
<1>4. CASE k <= c /\ k # 0
  <2>1. (k - 1) * d <= d * c - d
    BY <1>2, <1>4, SMT
  <2>2. (k - 1) * d \in Int
    BY SMT
  <2>3. (k - 1) * d < n
    BY <1>2, <1>3, <2>1, <2>2
  <2> QED
    BY <1>2, <1>4, <2>3 DEF c
<1>5. CASE k > c
  <2>1. (k - 1) * d >= d * c
    BY <1>2, <1>5, SMT
  <2>2. (k - 1) * d \in Int
    BY SMT
  <2>3. ~((k - 1) * d < n) /\ k # 0
    BY <1>2, <1>3, <1>5, <2>1, <2>2
  <2> QED
    BY <1>2, <1>5, <2>3 DEF c
<1>6. CASE k = 0
  BY <1>2, <1>6 DEF c
<1> QED
  BY <1>2, <1>4, <1>5, <1>6

\* What is below the word keeps its value in it.
LEMMA BelowItsWord == ASSUME NEW w \in Nat, NEW n \in Nat, n < w PROVE n % w = n
OBVIOUS

LEMMA InitConstructInv == ConstructInit => ConstructInv
<1> SUFFICES ASSUME ConstructInit PROVE ConstructInv
  OBVIOUS
<1>1. /\ manifest_block_size \in BlockSizes /\ manifest_block_size \in Nat
      /\ payload_len \in Lengths
  BY SizesFit DEF ConstructInit
<1>2. Len(<<>>) = 0 /\ <<>> = [k \in 1..0 |-> <<>>[k]] /\ 0 * manifest_block_size = 0
  BY <1>1
<1> QED
  BY <1>1, <1>2 DEF ConstructInit, ConstructInv

LEMMA NextConstructInv == ConstructInv /\ [ConstructNext]_constructVars => ConstructInv'
<1> SUFFICES ASSUME ConstructInv, [ConstructNext]_constructVars PROVE ConstructInv'
  OBVIOUS
<1> DEFINE n == payload_len
           d == manifest_block_size
           c == Len(leaves)
<1>1. /\ n \in Nat /\ d \in Nat \ {0} /\ c \in Nat
      /\ d < U16 /\ U16 \in Nat /\ n + d <= U32 /\ U32 \in Nat
  BY SizesFit DEF ConstructInv
<1>2. CASE HashLeaf
  <2> DEFINE leaf == [at |-> off, len |-> LeafLen]
  <2>1. ~valid /\ off < n /\ leaves' = Append(leaves, leaf) /\ off' = EndOfBlock
        /\ UNCHANGED <<manifest_block_size, payload_len, valid>>
    BY <1>2 DEF HashLeaf
  <2>2. block_size = d
    BY <1>1 DEF block_size
  <2>3. leaves' = [k \in 1..(c + 1) |-> IF k = c + 1 THEN leaf ELSE leaves[k]]
        /\ Len(leaves') = c + 1
    <3>1. leaves = [k \in 1..c |-> leaves[k]]
      BY DEF ConstructInv
    <3> DEFINE S == {leaves[k] : k \in 1..c} \cup {leaf}
    <3>2. \A k \in 1..c : leaves[k] \in S
      OBVIOUS
    <3>3. leaf \in S
      OBVIOUS
    <3> HIDE DEF S, leaf, c
    <3>4. leaves \in Seq(S) /\ Len(leaves) = c
      BY <1>1, <3>1, <3>2, FunctionIsSequence
    <3>5. /\ Append(leaves, leaf) \in Seq(S) /\ Len(Append(leaves, leaf)) = c + 1
          /\ \A k \in 1..c : Append(leaves, leaf)[k] = leaves[k]
          /\ Append(leaves, leaf)[c + 1] = leaf
      BY <3>3, <3>4, AppendProperties
    <3>6. Append(leaves, leaf) = [k \in 1..(c + 1) |-> Append(leaves, leaf)[k]]
      BY <3>5, LenProperties
    <3> QED
      BY <1>1, <2>1, <3>5, <3>6
  <2>4. off = c * d /\ (c + 1) * d = c * d + d /\ c * d \in Nat
    <3>1. off = c * d
      BY DEF ConstructInv
    <3>2. (c + 1) * d = c * d + d /\ c * d \in Nat
      BY <1>1, SMT
    <3> QED
      BY <3>1, <3>2
  <2>5. EndOfBlock = (c + 1) * d
    <3>1. off + d < U32 /\ off + d \in Nat
      BY <1>1, <2>1, <2>4
    <3>2. (off + d) % U32 = off + d
      BY <1>1, <3>1, BelowItsWord
    <3> QED
      BY <2>2, <2>4, <3>2 DEF EndOfBlock
  <2>10. leaf = [at |-> c * d, len |-> IF (c + 1) * d <= n THEN d ELSE n - c * d]
    BY <2>2, <2>4, <2>5 DEF LeafLen
  <2> HIDE DEF leaf
  <2>6. (c + 1) - 1 = c /\ c + 1 # 0 /\ c + 1 \in Nat
    BY <1>1
  <2>7. \A k \in 1..(c + 1) :
          leaves'[k] = [at  |-> (k - 1) * d, len |-> IF k * d <= n THEN d ELSE n - (k - 1) * d]
    <3> SUFFICES ASSUME NEW k \in 1..(c + 1)
                 PROVE  leaves'[k] = [at  |-> (k - 1) * d,
                                      len |-> IF k * d <= n THEN d ELSE n - (k - 1) * d]
      OBVIOUS
    <3>1. CASE k = c + 1
      BY <2>3, <2>10, <2>6, <3>1
    <3>2. CASE k # c + 1
      <4>1. k \in 1..c
        BY <1>1, <3>2
      <4>2. leaves'[k] = leaves[k]
        BY <2>3, <3>2
      <4> QED
        BY <4>1, <4>2 DEF ConstructInv
    <3> QED
      BY <3>1, <3>2
  <2>8. leaves' = [k \in 1..Len(leaves') |-> leaves'[k]]
    BY <2>3
  <2>9. off' = (c + 1) * d /\ c * d < n
    BY <2>1, <2>4, <2>5
  <2> QED
    BY <1>1, <2>1, <2>3, <2>6, <2>7, <2>8, <2>9 DEF ConstructInv
<1>3. CASE EndLoop
  BY <1>3 DEF EndLoop, ConstructInv
<1>4. CASE UNCHANGED constructVars
  BY <1>4 DEF constructVars, ConstructInv
<1> QED
  BY <1>2, <1>3, <1>4 DEF ConstructNext

\* The seeder's constructor makes the leaves the manifest's root was made of, and no
\* others, for every block size that keeps its value and every length
\* (transport.cpp:405-416).
THEOREM SeederMakesTheLeaves == ConstructSpec => []LeavesAreTheManifests
<1>1. ConstructSpec => []ConstructInv
  BY InitConstructInv, NextConstructInv, PTL DEF ConstructSpec
<1>2. ConstructInv => LeavesAreTheManifests
  <2> SUFFICES ASSUME ConstructInv PROVE LeavesAreTheManifests
    OBVIOUS
  <2> DEFINE n == payload_len
             d == manifest_block_size
             c == Len(leaves)
             all == (n + d - 1) \div d
  <2>1. n \in Nat /\ d \in Nat \ {0} /\ c \in Nat
    BY SizesFit DEF ConstructInv
  <2>2. all \in Nat
    BY <2>1, BlocksBegin
  <2>3. c <= all
    <3>1. c = 0 \/ (c - 1) * d < n
      BY DEF ConstructInv
    <3> QED
      BY <2>1, <3>1, BlocksBegin
  <2>4. ASSUME valid PROVE c = all
    <3>1. c * d >= n
      BY <2>4 DEF ConstructInv
    <3>2. ~(((c + 1) - 1) * d < n) /\ c + 1 \in Nat /\ c + 1 # 0
      <4>1. (c + 1) - 1 = c /\ c * d \in Int
        BY <2>1
      <4> QED
        BY <2>1, <3>1, <4>1
    <3>3. ~(c + 1 <= all)
      BY <2>1, <3>2, BlocksBegin
    <3> HIDE DEF all, c
    <3> QED
      BY <2>1, <2>2, <2>3, <3>3
  <2>5. LeavesFor(n, d) =
          [k \in 1..all |->
             [at |-> (k - 1) * d, len |-> IF k * d <= n THEN d ELSE n - (k - 1) * d]]
    BY DEF LeavesFor
  <2>6. /\ leaves = [k \in 1..c |-> leaves[k]]
        /\ \A k \in 1..c :
             leaves[k] = [at |-> (k - 1) * d, len |-> IF k * d <= n THEN d ELSE n - (k - 1) * d]
    BY DEF ConstructInv
  <2> HIDE DEF all, c
  <2>7. \A k \in 1..c : k \in 1..all
    BY <2>1, <2>2, <2>3
  <2>8. DOMAIN leaves = 1..c
    BY <2>6
  <2>9. valid => leaves = LeavesFor(n, d)
    BY <2>4, <2>5, <2>6
  <2> QED
    BY <2>5, <2>6, <2>7, <2>8, <2>9 DEF LeavesAreTheManifests
<1> QED
  BY <1>1, <1>2, PTL
=============================================================================
