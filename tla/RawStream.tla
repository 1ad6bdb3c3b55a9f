----------------------------- MODULE RawStream -----------------------------
(***************************************************************************)
(* Payloads of RTMP and FLV from raw frames: SrsRawH264Stream and          *)
(* SrsRawAacStream of srs_raw_avc.cpp.                                     *)
(*                                                                         *)
(* A payload is a sequence of bytes.  Lengths and times are written with   *)
(* digits to the base Base, which stands for 256, so that a short NALU has *)
(* a length of two digits; the other bytes are what they are.              *)
(***************************************************************************)
EXTENDS Integers, SequencesExt

CONSTANT Base

ASSUME BaseAssumption == Base \in 4 .. 256 /\ Base % 2 = 0

Digits(n, k) == [i \in 1 .. k |-> (n \div Base ^ (k - i)) % Base]
Number(s) == FoldLeft(LAMBDA n, digit : n * Base + digit, 0, s)

\* As many bits of a number in its byte: value >> low, of width bits.
Bits(byte, low, width) == (byte \div 2 ^ low) % 2 ^ width

----------------------------------------------------------------------------
(* H.264. *)

NalType(byte) == byte % 32
IDR == 5

AVC == 7
KeyFrame == 1
InterFrame == 2
SequenceHeader == 0
NaluPacket == 1

\* NAL_unit_length of 3: lengths of four bytes.
MuxSequenceHeader(sps, pps) ==
    << 1, sps[2], 0, sps[4], 3 >>
      \o <<1>> \o Digits(Len(sps), 2) \o sps
      \o <<1>> \o Digits(Len(pps), 2) \o pps

MuxIpbFrame(nalu) == Digits(Len(nalu), 4) \o nalu

MuxAvc2Flv(video, frame_type, avc_packet_type, cts) ==
    << frame_type * 16 + AVC, avc_packet_type >> \o Digits(cts % Base ^ 3, 3) \o video

----------------------------------------------------------------------------
(* AAC. *)

AAC == 10
MP3 == 2
RawData == 1

StartsWithAdts(s) == Len(s) >= 2 /\ s[1] = 255 /\ Bits(s[2], 4, 4) = 15

\* srs_codec_aac_ts2rtmp: object type of a profile, 0 for the reserved one.
ObjectOf(profile) == IF profile < 3 THEN profile + 1 ELSE 0

\* The FLV rate of a sampling frequency index; 5512 has the index 0.
RateOf(index) == CASE index \in 11 .. 12 -> 0 [] index \in 8 .. 10 -> 1
                   [] index \in 5 .. 7 -> 2 [] OTHER -> 3

AdtsError == [result |-> "error"]
AdtsAbort == [result |-> "abort"]

\* One frame: its raw data, its codec, and the rest of the stream.  require() asserts
\* that what it is asked for is more than nothing.
AdtsDemux(s) ==
    IF Len(s) < 7 \/ ~ StartsWithAdts(s) THEN AdtsError
    ELSE LET protection_absent == Bits(s[2], 0, 1)
             header == IF protection_absent = 1 THEN 7 ELSE 9
             frame_length == Bits(s[4], 0, 2) * 2048 + s[5] * 8 + Bits(s[6], 5, 3)
             raw_data_size == frame_length - header
             index == Bits(s[3], 2, 4)
             channels == Bits(s[3], 0, 1) * 4 + Bits(s[4], 6, 2)
         IN  IF Len(s) < header THEN AdtsError
             ELSE IF raw_data_size <= 0 THEN AdtsAbort
             ELSE IF Len(s) - header < raw_data_size THEN AdtsError
             ELSE [result |-> "success",
                   codec |-> [object |-> ObjectOf(Bits(s[3], 6, 2)), index |-> index,
                              channels |-> channels, format |-> AAC, rate |-> RateOf(index),
                              size |-> 1, type |-> IF channels > 1 THEN 1 ELSE 0],
                   frame |-> SubSeq(s, header + 1, frame_length),
                   rest |-> SubSeq(s, frame_length + 1, Len(s))]

\* The AudioSpecificConfig, empty for an error.
MuxAacSequenceHeader(codec) ==
    IF codec.object = 0 \/ codec.index = 15 THEN <<>>
    ELSE << codec.object * 8 + codec.index \div 2, (codec.index % 2) * 128 + codec.channels * 8 >>

MuxAac2Flv(frame, codec, aac_packet_type) ==
    << codec.format * 16 + codec.rate * 4 + codec.size * 2 + codec.type >>
      \o (IF codec.format = AAC THEN <<aac_packet_type>> ELSE <<>>) \o frame

\* srs_aac_adts_frame_size, by which a caller cuts its file.
AdtsFrameSize(s) ==
    IF ~ StartsWithAdts(s) \/ Len(s) <= 7 THEN -1
    ELSE Bits(s[4], 0, 2) * 2048 + s[5] * 8 + Bits(s[6], 5, 3)
============================================================================
