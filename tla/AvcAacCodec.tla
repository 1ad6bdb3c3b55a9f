---------------------------- MODULE AvcAacCodec ----------------------------
(***************************************************************************)
(* SrsAvcAacCodec and SrsFlvCodec of srs_kernel_codec.cpp: from payloads   *)
(* of audio and video tags to the samples in them.  The result of a demux  *)
(* is the codec behind it, the sample, and what it returned.               *)
(*                                                                         *)
(* A bit of an SPS behind its level has a byte of its own, Zero or One,    *)
(* and no SPS has bytes to unescape.                                       *)
(***************************************************************************)
EXTENDS RawStream

CONSTANT MaxCodecSample    \* SRS_SRS_MAX_CODEC_SAMPLE

VideoInfoFrame == 5
UnsetRate == 15

NoCodec == [avc_extra |-> FALSE, aac_extra |-> FALSE, NAL_unit_length |-> 0,
            sps |-> <<>>, pps |-> <<>>, width |-> 0, height |-> 0, payload_format |-> "Guess",
            aac_object |-> 0, aac_sample_rate |-> UnsetRate, aac_channels |-> 0]
NoSample == [units |-> <<>>, cts |-> 0, idr |-> FALSE, rate |-> 0]

Returns(codec, sample, ret) == [codec |-> codec, sample |-> sample, ret |-> ret]
Fails(codec) == Returns(codec, NoSample, "error")
Aborts(codec) == Returns(codec, NoSample, "abort")
Ignored(codec) == Returns(codec, NoSample, "success")

\* add_sample_unit for each of some units; what it adds before it fails stays.
Added(codec, sample, units) ==
    Returns(codec,
            [sample EXCEPT !.units = SubSeq(units, 1, IF Len(units) < MaxCodecSample
                                                      THEN Len(units) ELSE MaxCodecSample)],
            IF Len(units) > MaxCodecSample THEN "error" ELSE "success")

----------------------------------------------------------------------------
(* SrsFlvCodec. *)

FrameType(data) == data[1] \div 16
VideoIsKeyframe(data) == Len(data) >= 1 /\ FrameType(data) = KeyFrame
VideoIsH264(data) == Len(data) >= 1 /\ data[1] % 16 = AVC
VideoIsSequenceHeader(data) ==
    Len(data) >= 2 /\ VideoIsH264(data) /\ VideoIsKeyframe(data) /\ data[2] = SequenceHeader
AudioIsSequenceHeader(data) ==
    Len(data) >= 2 /\ data[1] \div 16 = AAC /\ data[2] = SequenceHeader

----------------------------------------------------------------------------
(* The SPS: numbers of Exp-Golomb codes, read from a place on.  The place  *)
(* behind the end stands for an error.                                     *)

Zero == 128
One == 255
Bad == [at |-> 0, value |-> -1]

Bit(bits, p) ==
    IF p.at = 0 \/ p.at > Len(bits) THEN Bad
    ELSE [at |-> p.at + 1, value |-> IF bits[p.at] = One THEN 1 ELSE 0]

\* srs_avc_nalu_read_uev: every bit behind the leading one has the weight of the first.
Uev(bits, p) ==
    IF p.at = 0 \/ ~ \E i \in p.at .. Len(bits) : bits[i] = One THEN Bad
    ELSE LET one == CHOOSE i \in p.at .. Len(bits) :
                        bits[i] = One /\ \A j \in p.at .. i - 1 : bits[j] = Zero
             zeros == one - p.at
             ones == {i \in one + 1 .. one + zeros : i <= Len(bits) /\ bits[i] = One}
         IN  [at |-> one + zeros + 1,
              value |-> 2 ^ zeros - 1 + Cardinality(ones) * (IF zeros = 0 THEN 0 ELSE 2 ^ (zeros - 1))]

HighProfiles == {100, 110, 122, 244, 44, 83, 86, 118, 128}

\* chroma_format_idc to the scaling matrix, which no SPS it takes has entries of.
HighFields(bits, p) ==
    LET chroma == Uev(bits, p)
        plane == IF chroma.value = 3 THEN Bit(bits, chroma) ELSE chroma
        bypass == Bit(bits, Uev(bits, Uev(bits, plane)))
        matrix == Bit(bits, bypass)
        entries == IF chroma.value = 3 THEN 12 ELSE 8
    IN  IF matrix.value # 1 THEN matrix
        ELSE IF matrix.at + entries - 1 > Len(bits)
                \/ \E i \in matrix.at .. matrix.at + entries - 1 : bits[i] = One THEN Bad
        ELSE [at |-> matrix.at + entries, value |-> 0]

OrderFields(bits, p) ==
    LET type == Uev(bits, p)
        cycle == Uev(bits, Uev(bits, Uev(bits, Bit(bits, type))))
    IN  CASE type.value = 0 -> Uev(bits, type)
          [] type.value = 1 -> IF cycle.value = 0 THEN cycle ELSE Bad
          [] OTHER -> type

\* avc_demux_sps: what is behind the level, where no byte is one to unescape.
Rbsp(sps) == SubSeq(sps, 5, Len(sps))

\* The first four bytes, and the id behind them.
GoodSps(sps) ==
    /\ sps[1] < 128 /\ Bits(sps[1], 5, 2) # 0 /\ NalType(sps[1]) = 7
    /\ Len(sps) >= 4 /\ sps[2] # 0 /\ sps[3] % 4 = 0 /\ sps[4] # 0
SpsId(sps) == Uev(Rbsp(sps), [at |-> 1, value |-> 0])

\* avc_demux_sps_rbsp: width and height, none for an error.
PictureSize(sps) ==
    LET bits == Rbsp(sps)
        high == IF sps[2] \in HighProfiles THEN HighFields(bits, SpsId(sps)) ELSE SpsId(sps)
        gaps == Bit(bits, Uev(bits, OrderFields(bits, Uev(bits, high))))
        wide == Uev(bits, gaps)
        tall == Uev(bits, wide)
    IN  IF ~ GoodSps(sps) \/ tall.at = 0 THEN {}
        ELSE {[width |-> (wide.value + 1) * 16, height |-> (tall.value + 1) * 16]}

----------------------------------------------------------------------------
(* avc_demux_sps_pps.  What is remembered before an error stays. *)

\* A parameter set of the body from at on, with the place behind it.
ParameterSet(body, at) ==
    IF Len(body) < at + 2 \/ body[at] % 32 # 1 THEN [ret |-> "error"]
    ELSE LET length == Number(SubSeq(body, at + 1, at + 2))
         IN  IF length = 0 THEN [ret |-> "abort"]
             ELSE IF Len(body) < at + 2 + length THEN [ret |-> "error"]
             ELSE [ret |-> "success", set |-> SubSeq(body, at + 3, at + 2 + length),
                   next |-> at + 3 + length]

DemuxSpsPps(codec, body) ==
    LET extra == [codec EXCEPT !.avc_extra = (Len(body) > 0)]
        sized == [extra EXCEPT !.NAL_unit_length = body[5] % 4]
        sps == ParameterSet(body, 6)
        known == [sized EXCEPT !.sps = sps.set]
        pps == ParameterSet(body, sps.next)
        whole == [known EXCEPT !.pps = pps.set]
    IN  CASE Len(body) < 6 -> Fails(extra)
          [] sized.NAL_unit_length = 2 -> Fails(sized)
          [] sps.ret # "success" -> Returns(sized, NoSample, sps.ret)
          [] pps.ret # "success" -> Returns(known, NoSample, pps.ret)
          [] PictureSize(sps.set) = {} -> Fails(whole)
          [] OTHER -> Ignored([whole EXCEPT !.width = (CHOOSE s \in PictureSize(sps.set) : TRUE).width,
                                            !.height = (CHOOSE s \in PictureSize(sps.set) : TRUE).height])

----------------------------------------------------------------------------
(* NALUs, by start codes or by lengths. *)

\* srs_avc_startswith_annexb at i: N zeros, N >= 2, and a one.
StartCodeEnds(s, i) ==
    {e \in i + 2 .. Len(s) : s[e] = 1 /\ \A j \in i .. e - 1 : s[j] = 0}
StartsWithAnnexb(s) == StartCodeEnds(s, 1) # {}

\* avc_demux_annexb_format: what is between the start codes, unless it is empty.
AnnexbUnits(s) ==
    LET starts == {i \in 1 .. Len(s) : StartCodeEnds(s, i) # {}}
        ends == SetToSortSeq(UNION {StartCodeEnds(s, i) : i \in starts}, <)
        until(e) == IF \E i \in starts : i > e
                    THEN (CHOOSE i \in starts : i > e /\ \A j \in starts : j > e => i <= j) - 1
                    ELSE Len(s)
    IN  SelectSeq([k \in DOMAIN ends |-> SubSeq(s, ends[k] + 1, until(ends[k]))],
                  LAMBDA unit : unit # <<>>)

\* avc_demux_ibmf_format: a length of NAL_unit_length + 1 bytes before each unit, of four
\* bytes a signed one.
RECURSIVE IbmfUnits(_, _, _)
IbmfUnits(codec, units, s) ==
    LET bytes == codec.NAL_unit_length + 1
        length == Number(SubSeq(s, 1, bytes))
    IN  CASE s = <<>> -> [units |-> units, ret |-> "success"]
          [] Len(s) < bytes -> [units |-> units, ret |-> "error"]
          [] length = 0 -> [units |-> units, ret |-> "abort"]
          [] \/ bytes = 4 /\ length >= Base ^ 4 \div 2
             \/ Len(s) - bytes < length
             \/ Len(units) = MaxCodecSample -> [units |-> units, ret |-> "error"]
          [] OTHER -> IbmfUnits(codec, Append(units, SubSeq(s, bytes + 1, bytes + length)),
                                SubSeq(s, bytes + length + 1, Len(s)))

WithUnits(sample, units) ==
    [sample EXCEPT !.units = units, !.idr = \E i \in DOMAIN units : NalType(units[i][1]) = IDR]

DemuxAnnexb(codec, sample, body) ==
    LET added == Added(codec, sample, AnnexbUnits(body))
    IN  [added EXCEPT !.sample = WithUnits(@, @.units)]
DemuxIbmf(codec, sample, body) ==
    LET read == IbmfUnits(codec, <<>>, body)
    IN  IF codec.NAL_unit_length = 2 THEN Aborts(codec)
        ELSE Returns(codec, WithUnits(sample, read.units), read.ret)

As(format, r) == IF r.ret = "success" THEN [r EXCEPT !.codec.payload_format = format] ELSE r

\* Mutant: what was found out is not remembered.
GuessAgain(codec, sample, body) ==
    IF StartsWithAnnexb(body) THEN As("AnnexB", DemuxAnnexb(codec, sample, body))
    ELSE As("Guess", DemuxIbmf(codec, sample, body))
\* The format is guessed, at first and as long as it is AnnexB; Ibmf stays.
DemuxNalus(codec, sample, body) ==
    IF codec.payload_format # "Ibmf" /\ StartsWithAnnexb(body)
    THEN As("AnnexB", DemuxAnnexb(codec, sample, body))
    ELSE As("Ibmf", DemuxIbmf(codec, sample, body))

VideoAvcDemux(codec, data) ==
    LET sample == [NoSample EXCEPT !.cts = Number(SubSeq(data, 3, 5))]
        body == SubSeq(data, 6, Len(data))
    IN  CASE data = <<>> -> Ignored(codec)
          [] FrameType(data) = VideoInfoFrame -> Ignored(codec)
          [] data[1] % 16 # AVC \/ Len(data) < 5 -> Fails(codec)
          [] data[2] = SequenceHeader -> DemuxSpsPps(codec, body)
          [] data[2] = NaluPacket /\ codec.avc_extra -> DemuxNalus(codec, sample, body)
          [] OTHER -> Ignored(codec)

----------------------------------------------------------------------------
(* audio_aac_demux, and audio_mp3_demux where it leads there. *)

\* audio_aac_sequence_header_demux.
DemuxAacHeader(codec, body) ==
    LET object == Bits(body[1], 3, 5)
        read == [codec EXCEPT !.aac_extra = TRUE, !.aac_object = object,
                              !.aac_sample_rate = Bits(body[1], 0, 3) * 2 + Bits(body[2], 7, 1),
                              !.aac_channels = Bits(body[2], 3, 4)]
    IN  CASE body = <<>> -> Ignored([codec EXCEPT !.aac_extra = FALSE])
          [] Len(body) < 2 -> Fails([codec EXCEPT !.aac_extra = TRUE])
          [] object = 0 -> Fails(read)
          [] OTHER -> Ignored(read)

\* The three rates FLV knows replace the one of the tag.
SampleRate(codec, rate) ==
    CASE codec.aac_sample_rate = 10 -> 1 [] codec.aac_sample_rate = 7 -> 2
      [] codec.aac_sample_rate = 4 -> 3 [] OTHER -> rate

AudioDemux(codec, data) ==
    LET body == SubSeq(data, 3, Len(data))
        sample == [NoSample EXCEPT !.rate = Bits(data[1], 2, 2)]
        Rated(r) == IF r.ret = "success"
                    THEN [r EXCEPT !.sample.rate = SampleRate(r.codec, sample.rate)] ELSE r
    IN  CASE data = <<>> -> Ignored(codec)
          [] data[1] \div 16 = MP3 -> IF Len(data) = 1 THEN Ignored(codec)
                                      ELSE Added(codec, sample, << Tail(data) >>)
          [] data[1] \div 16 # AAC \/ Len(data) < 2 -> Fails(codec)
          [] data[2] = SequenceHeader -> Rated(DemuxAacHeader(codec, body))
          [] data[2] = RawData /\ codec.aac_extra -> Rated(Added(codec, sample, << body >>))
          [] data[2] = RawData -> Returns(codec, sample, "success")
          [] OTHER -> Rated(Ignored(codec))
============================================================================
