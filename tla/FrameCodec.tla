----------------------------- MODULE FrameCodec -----------------------------
(***************************************************************************)
(* The byte layout of frames (transport.cpp:9-78) on a radio that may cut  *)
(* a frame short.  OtaFrame's records stand for what is unpacked here.     *)
(***************************************************************************)
EXTENDS Integers, Sequences

CONSTANTS
  Headers,  \* the frame headers that are sent
  Infos     \* what follows them: the info of a START or a LOAD, or other data

UInt8 == {n \in Nat : n < 256}
UInt16 == {n \in Nat : n < 65536}
UInt32 == {n \in Nat : n \div 65536 < 65536}
OtaFrameHeader == [type : UInt8, session : UInt8, index : UInt16, off : UInt16, total : UInt16]
OtaStartInfo ==
  [block_size : UInt16, block_count : UInt16, payload_length : UInt32, manifest_len : UInt16, sig_len : UInt16]
OtaLoadInfo == [total_len : UInt32, offset : UInt32]

ASSUME HeadersFitTheirFields == Headers \subseteq OtaFrameHeader
ASSUME InfosFitTheirFields ==
  \A i \in Infos : \/ i.kind = "start" /\ i.start \in OtaStartInfo
                   \/ i.kind = "load" /\ i.load \in OtaLoadInfo
                   \/ i.kind = "data" /\ i.data \in Seq(UInt8)

kFrameHeaderLen == 8
kStartInfoLen == 12
kLoadInfoLen == 8
Refused == <<>>

-----------------------------------------------------------------------------
(* Little-endian numbers: the two bytes of a word, the two words of a long.  *)

Lo(v) == v % 256
Hi(v) == (v \div 256) % 256
Low(v) == v % 65536
High(v) == v \div 65536

get16_BigEndian(a, b) == 256 * a + b
get16(a, b) == a + 256 * b
get32(a, b, c, d) == get16(a, b) + 65536 * get16(c, d)

frame_header_pack(h) ==
  <<h.type, h.session, Lo(h.index), Hi(h.index), Lo(h.off), Hi(h.off), Lo(h.total), Hi(h.total)>>

frame_header_unpack(p) ==
  IF Len(p) < kFrameHeaderLen THEN Refused
  ELSE [type |-> p[1], session |-> p[2], index |-> get16(p[3], p[4]),
        off |-> get16(p[5], p[6]), total |-> get16(p[7], p[8])]

start_info_pack(s) ==
  <<Lo(s.block_size), Hi(s.block_size), Lo(s.block_count), Hi(s.block_count),
    Lo(Low(s.payload_length)), Hi(Low(s.payload_length)),
    Lo(High(s.payload_length)), Hi(High(s.payload_length)),
    Lo(s.manifest_len), Hi(s.manifest_len), Lo(s.sig_len), Hi(s.sig_len)>>

start_info_unpack(p) ==
  IF Len(p) < kStartInfoLen THEN Refused
  ELSE [block_size |-> get16(p[1], p[2]), block_count |-> get16(p[3], p[4]),
        payload_length |-> get32(p[5], p[6], p[7], p[8]),
        manifest_len |-> get16(p[9], p[10]), sig_len |-> get16(p[11], p[12])]

load_info_pack(s) ==
  <<Lo(Low(s.total_len)), Hi(Low(s.total_len)), Lo(High(s.total_len)), Hi(High(s.total_len)),
    Lo(Low(s.offset)), Hi(Low(s.offset)), Lo(High(s.offset)), Hi(High(s.offset))>>

load_info_unpack(p) ==
  IF Len(p) < kLoadInfoLen THEN Refused
  ELSE [total_len |-> get32(p[1], p[2], p[3], p[4]), offset |-> get32(p[5], p[6], p[7], p[8])]

-----------------------------------------------------------------------------
VARIABLES
  header,  \* the header and the info of the frame that was sent
  info,
  wire     \* what is left of its bytes

wireVars == <<header, info, wire>>

InfoBytes(i) ==
  CASE i.kind = "start" -> start_info_pack(i.start)
    [] i.kind = "load" -> load_info_pack(i.load)
    [] OTHER -> i.data

Sent == frame_header_pack(header) \o InfoBytes(info)

WireInit == header \in Headers /\ info \in Infos /\ wire = Sent

\* The radio loses the end of the frame.
CutFrame ==
  /\ wire # <<>>
  /\ wire' = SubSeq(wire, 1, Len(wire) - 1)
  /\ UNCHANGED <<header, info>>

WireSpec == WireInit /\ [][CutFrame]_wireVars

\* What on_frame hands to the handlers.
FramePayload == SubSeq(wire, kFrameHeaderLen + 1, Len(wire))

-----------------------------------------------------------------------------
\* A frame is heard with the header it was sent with, or not at all: no field is
\* swapped, shifted or cut, and none is read past the end (transport.cpp:30-47).
HeaderIsHeard ==
  frame_header_unpack(wire) = IF Len(wire) < kFrameHeaderLen THEN Refused ELSE header

\* So are the geometry of a START and the place of a LOAD chunk, at all their
\* lengths (transport.cpp:49-78).
InfoIsHeard ==
  Len(wire) >= kFrameHeaderLen =>
    /\ info.kind = "start" =>
         start_info_unpack(FramePayload) = IF Len(FramePayload) < kStartInfoLen THEN Refused ELSE info.start
    /\ info.kind = "load" =>
         load_info_unpack(FramePayload) = IF Len(FramePayload) < kLoadInfoLen THEN Refused ELSE info.load

\* A frame that the radio cut short is never heard with a field of its own making,
\* in its header or in its info (transport.cpp:30-78).
FrameIsHeard == HeaderIsHeard /\ InfoIsHeard
=============================================================================
