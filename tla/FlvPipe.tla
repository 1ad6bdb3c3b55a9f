------------------------------ MODULE FlvPipe ------------------------------
(***************************************************************************)
(* A stream on its way through a file: an encoder publishes with the raw   *)
(* API of srs_librtmp.cpp, or one of another make does; srs_rtmp_dump.c    *)
(* writes the messages it receives as the tags of an FLV file, and may be  *)
(* killed; srs_flv_injecter.c, which is to add the places of the key      *)
(* frames, leaves its output empty (Inject);                               *)
(* srs_ingest_flv.c reads the file tag by tag, and what it publishes is    *)
(* demuxed by an SrsAvcAacCodec.                                           *)
(*                                                                         *)
(* SrsFileWriter::write puts everything to stdout: the file that a program *)
(* opens for writing stays empty.  The file here is the one that the       *)
(* stdout of the recorder goes to, which has room for it; its trace comes  *)
(* there as well.                                                          *)
(*                                                                         *)
(* The connections deliver what they are given, in order (ChunkLink).      *)
(***************************************************************************)
EXTENDS FlvFile, AvcAacCodec

CONSTANTS
    Pictures,      \* parameter sets: [sps, pps, width, height]
    NaluLists,     \* the NALUs one video message may hold
    AdtsBuffers,   \* what one call of the audio API may be given, as bytes
    Steps,         \* the milliseconds that may lie between two messages
    MaxMessages, MaxInjections    \* bounds

ASSUME PipeAssumption ==
    /\ \A p \in Pictures : Len(p.sps) >= 4 /\ Len(p.pps) > 0
    /\ \A nalus \in NaluLists : nalus # <<>> /\ <<>> \notin ToSet(nalus)

VARIABLES
    make,                  \* "raw", or the lengths another encoder writes: 1, 2, 4, "AnnexB"
    now,                   \* the time of the last message
    h264_sps_pps_sent, aac_specific_config,    \* Context, of the raw API
    aac_raw_stream,        \* what a call has not demuxed, with the time and the call
    sent,                  \* messages on the way to the recorder
    messages,              \* how many were published
    last_video_timestamp, is_I_frame,          \* main() of the recorder
    file,                  \* what the recorder has printed; when it is over, what the disk has
    tags,                  \* history: the messages of which it has the tags
    phase,                 \* live, closed, reading, done; "aborted" behind an assertion
    injections,            \* how often the injecter ran
    pos, got, codec, samples    \* of the reader: its place, the tags, and what they hold

pipeVars == <<make, now, h264_sps_pps_sent, aac_specific_config, aac_raw_stream, sent, messages,
              last_video_timestamp, is_I_frame, file, tags, phase, injections,
              pos, got, codec, samples>>
recorder == <<last_video_timestamp, is_I_frame, file, tags>>
reader == <<injections, pos, got, codec, samples>>

OnMetaData == 201
OtherData == 203
NoCall == [bytes |-> <<>>, aac |-> FALSE]

Init ==
    /\ make \in {"raw", "1", "2", "4", "AnnexB"}
    /\ now = 0
    /\ h264_sps_pps_sent = FALSE /\ aac_specific_config = <<>> /\ aac_raw_stream = NoCall
    /\ sent = <<>> /\ messages = 0
    /\ last_video_timestamp = 0 /\ is_I_frame = 0
    /\ file = <<>> /\ tags = <<>>
    /\ phase = "live" /\ injections = 0
    /\ pos = 0 /\ got = <<>> /\ codec = NoCodec /\ samples = <<>>

----------------------------------------------------------------------------
(* The encoder.  A message tells, for the properties, what it is and the   *)
(* units in it.                                                            *)

Message(type, time, data, kind, units) ==
    [type |-> type, time |-> time, data |-> data, kind |-> kind, units |-> units]

\* Nothing asks whether another message than video has the time of the last.
Publishes(type) ==
    /\ phase = "live" /\ file # <<>> /\ sent = <<>> /\ aac_raw_stream = NoCall
    /\ messages < MaxMessages
    /\ messages' = messages + 1
    /\ now' \in {now + step : step \in IF type = Video THEN Steps ELSE {Max(Steps)}} /\ now' < Base ^ 4
    /\ UNCHANGED <<make, recorder, phase, reader>>

\* The length of the lengths of other makes in their sequence header.
LengthBytes == CASE make = "1" -> 1 [] make = "2" -> 2 [] OTHER -> 4

\* srs_write_h264_sps_pps.
PublishParameters ==
    /\ Publishes(Video)
    /\ \E p \in Pictures :
        sent' = << Message(Video, now',
                           MuxAvc2Flv([MuxSequenceHeader(p.sps, p.pps) EXCEPT ![5] = LengthBytes - 1],
                                      KeyFrame, SequenceHeader, 0),
                           "parameters", <<p.sps, p.pps>>) >>
    /\ h264_sps_pps_sent' = TRUE
    /\ UNCHANGED <<aac_specific_config, aac_raw_stream>>

\* The NALUs of another make.
OthersNalus(nalus) ==
    FoldLeft(LAMBDA bytes, nalu :
                 bytes \o (IF make = "AnnexB" THEN (IF bytes = <<>> THEN <<0, 0, 0, 1>> ELSE <<0, 0, 1>>)
                           ELSE Digits(Len(nalu), LengthBytes)) \o nalu,
             <<>>, nalus)

\* srs_write_h264_ipb_frame, one NALU for each message; dts and pts may be apart.
PublishNalus ==
    /\ Publishes(Video)
    /\ \E nalus \in NaluLists :
        /\ make = "raw" => Len(nalus) = 1 /\ h264_sps_pps_sent
        /\ make = "1" => \A i \in DOMAIN nalus : Len(nalus[i]) < Base
        /\ LET key == \E i \in DOMAIN nalus : NalType(nalus[i][1]) = IDR
           IN  sent' = << Message(Video, now',
                                  MuxAvc2Flv(IF make = "raw" THEN MuxIpbFrame(nalus[1]) ELSE OthersNalus(nalus),
                                             IF key THEN KeyFrame ELSE InterFrame, NaluPacket, 1),
                                  "nalus", nalus) >>
    /\ UNCHANGED <<h264_sps_pps_sent, aac_specific_config, aac_raw_stream>>

\* srs_rtmp_write_packet of metadata, or of other data.
PublishData ==
    /\ Publishes(Script)
    /\ \E name \in {OnMetaData, OtherData} :
        sent' = << Message(Script, now', <<name, 0>>, "data", <<>>) >>
    /\ UNCHANGED <<h264_sps_pps_sent, aac_specific_config, aac_raw_stream>>

\* srs_audio_write_raw_frame of audio that is not AAC; of the others only MP3 is demuxed.
\* The raw API is the only one to send audio: that of other makes is the same.
PublishOtherAudio ==
    /\ Publishes(Audio) /\ make = "raw"
    /\ \E format \in {1, MP3} :
        sent' = << Message(Audio, now',
                           MuxAac2Flv(<<99>>, [format |-> format, rate |-> 3, size |-> 1, type |-> 1], 0),
                           IF format = MP3 THEN "frame" ELSE "refused", <<<<99>>>>) >>
    /\ UNCHANGED <<h264_sps_pps_sent, aac_specific_config, aac_raw_stream>>

\* read_audio_frame of srs_aac_raw_publish.c: the first frame of what is left of a file.
FirstFrames ==
    {SubSeq(buffer, 1, AdtsFrameSize(buffer)) :
        buffer \in {b \in AdtsBuffers : AdtsFrameSize(b) \in 1 .. Len(b)}}

\* srs_audio_write_raw_frame of AAC, and srs_aac_write_raw_frame: the call begins.
WriteRawFrame ==
    /\ Publishes(Audio) /\ make = "raw"
    /\ \E buffer \in AdtsBuffers \union FirstFrames, aac \in BOOLEAN :
        aac_raw_stream' = IF StartsWithAdts(buffer)
                          THEN [bytes |-> buffer, size |-> Len(buffer), aac |-> aac] ELSE NoCall
    /\ UNCHANGED <<sent, h264_sps_pps_sent, aac_specific_config>>

\* srs_write_aac_adts_frame: the message, behind the sequence header that goes before
\* the first.  The codec of the tags is the caller's in one call and ADTS's in the other.
AdtsMessages(frame, adts, config) ==
    (IF aac_specific_config = <<>>
     THEN << Message(Audio, now, MuxAac2Flv(config, adts, SequenceHeader), "aac config", <<>>) >>
     ELSE <<>>)
      \o << Message(Audio, now, MuxAac2Flv(frame, adts, RawData), "aac frame", <<frame>>) >>

\* One frame of the call.  srs_aac_write_raw_frame asserts that its buffer held this one
\* frame behind a header of 7 bytes.
WriteAdtsFrame ==
    /\ phase = "live" /\ aac_raw_stream # NoCall /\ sent = <<>>
    /\ LET r == AdtsDemux(aac_raw_stream.bytes)
           config == MuxAacSequenceHeader(r.codec)
           adts == IF aac_raw_stream.aac THEN r.codec ELSE [r.codec EXCEPT !.rate = 2, !.type = 1]
       IN  CASE r.result = "abort" -> /\ phase' = "aborted"
                                      /\ UNCHANGED <<sent, aac_specific_config, aac_raw_stream>>
             [] \/ r.result = "error"
                \/ aac_specific_config = <<>> /\ config = <<>> ->
                  /\ aac_raw_stream' = NoCall
                  /\ UNCHANGED <<phase, sent, aac_specific_config>>
             [] OTHER ->
                  /\ sent' = AdtsMessages(r.frame, adts, config)
                  /\ aac_specific_config' = IF aac_specific_config = <<>> THEN config
                                            ELSE aac_specific_config
                  /\ aac_raw_stream' = IF r.rest = <<>> THEN NoCall ELSE [aac_raw_stream EXCEPT !.bytes = r.rest]
                  /\ phase' = IF aac_raw_stream.aac /\ aac_raw_stream.size - 7 # Len(r.frame)
                              THEN "aborted" ELSE phase
    /\ UNCHANGED <<make, now, h264_sps_pps_sent, messages, recorder, reader>>

----------------------------------------------------------------------------
(* The recorder: main() of srs_rtmp_dump.c, with its stdout in the file. *)

encoder == <<make, now, h264_sps_pps_sent, aac_specific_config, aac_raw_stream, messages>>

\* SrsFileWriter::write, whatever was opened; it succeeds always.
Printed(bytes) == file \o bytes

WriteHeader ==
    /\ phase = "live" /\ file = <<>>
    /\ file' = Printed(FlvHeader)
    /\ UNCHANGED <<encoder, sent, last_video_timestamp, is_I_frame, tags, phase, reader>>

\* A video message with the time of the last, other than 0, is taken the first time
\* that this happens, for the sequence header and its key frame, and never again.
Repeats(m) == m.type = Video /\ m.time > 0 /\ m.time = last_video_timestamp
Recorded(m) ==
    IF m.type = Script THEN m.data[1] = OnMetaData ELSE ~ Repeats(m) \/ is_I_frame = 0

TagOf(m) == WriteTag(m.type, m.time, m.data)

Record ==
    /\ phase \in {"live", "aborted"} /\ sent # <<>>
    /\ LET m == Head(sent)
       IN  /\ IF Recorded(m) THEN file' = Printed(TagOf(m)) /\ tags' = Append(tags, m)
                             ELSE UNCHANGED <<file, tags>>
           /\ is_I_frame' = IF Repeats(m) THEN 1 ELSE is_I_frame
           /\ last_video_timestamp' = IF m.type = Video /\ m.time > 0 THEN m.time
                                      ELSE last_video_timestamp
    /\ sent' = Tail(sent)
    /\ UNCHANGED <<encoder, phase, reader>>

\* srs_human_trace("completed"): what a tag header would be begins with "[201" of the date.
Completed == << 91, 50, 48, 49 >> \o [i \in 1 .. TagHeaderSize |-> 48]

\* The stream ends, by the encoder's end or its assertion.
Close ==
    /\ phase \in {"live", "aborted"} /\ file # <<>> /\ sent = <<>>
    /\ phase = "live" => aac_raw_stream = NoCall
    /\ file' = file \o Completed
    /\ phase' = "closed"
    /\ UNCHANGED <<encoder, sent, last_video_timestamp, is_I_frame, tags, reader>>

\* The place of the i-th tag, and of the one behind the last.
Place(ts, i) ==
    FoldLeft(LAMBDA place, m : place + SizeTag(Len(m.data)), Len(FlvHeader), SubSeq(ts, 1, i - 1))

\* One cut in each part of a tag, and of the header: the reader tells no others apart.
Cuts ==
    {0, 2, Len(FlvHeader) - 1, Len(file)}
      \union UNION {LET next == Place(tags, i + 1)
                    IN  {Place(tags, i) + n : n \in {0, 1, TagHeaderSize, TagHeaderSize + 1}}
                          \union {next - PreviousTagSize, next - 1} : i \in DOMAIN tags}

\* The recorder is killed, with any part of what it has printed in the buffer of stdout.
\* One byte behind the data of a tag is enough to read it.
Crash ==
    /\ phase \in {"live", "aborted"}
    /\ \E n \in {cut \in Cuts : cut <= Len(file)} :
        /\ file' = SubSeq(file, 1, n)
        /\ tags' = SubSeq(tags, 1, Cardinality({i \in DOMAIN tags :
                                         Place(tags, i + 1) - PreviousTagSize < n}))
    /\ phase' = "closed" /\ sent' = <<>>
    /\ UNCHANGED <<encoder, last_video_timestamp, is_I_frame, reader>>

----------------------------------------------------------------------------
(* srs_flv_injecter.c, run on the closed file with the same file as its    *)
(* output.  Its stdout has the tags of the output, but they are mixed with *)
(* its trace from the first line on, and nothing here reads them.          *)

\* Every tag from pos on, and how the reading of them ended.
RECURSIVE AllTags(_, _, _)
AllTags(f, at, before) ==
    UNION {IF r.result = "success" THEN AllTags(f, r.next, Append(before, r))
           ELSE {[tags |-> before, end |-> r.result]} : r \in ReadTag(f, at)}

KeyframeTag(t) == t.type = Video /\ VideoIsKeyframe(t.data) /\ ~ VideoIsSequenceHeader(t.data)

\* build_keyframes: a key frame before the first metadata is appended to an array that is
\* not there, which ends the process.
Metadatas(ts) == {i \in DOMAIN ts : ts[i].type = Script}
NoArray(ts) ==
    \E i \in DOMAIN ts : KeyframeTag(ts[i]) /\ \A j \in Metadatas(ts) : j > i

\* The first pass, and the second, which writes; a header that is cut has the size that
\* nobody wrote in each of them.
BuildsKeyframes(a) == ReadHeader(file) /\ a.end # "error" /\ ~ NoArray(a.tags)
CopiesTags(a) == a.end # "error"

\* What was opened for the output, and has nothing, takes the place of the file when both
\* passes end well.
Inject ==
    /\ phase = "closed" /\ injections < MaxInjections
    /\ injections' = injections + 1
    /\ \E first, second \in AllTags(file, Len(FlvHeader), <<>>) :
        IF BuildsKeyframes(first) /\ CopiesTags(second)
        THEN file' = <<>> /\ tags' = <<>>
        ELSE UNCHANGED <<file, tags>>
    /\ UNCHANGED <<encoder, sent, last_video_timestamp, is_I_frame, phase, pos, got, codec, samples>>

----------------------------------------------------------------------------
(* proxy() and do_proxy() of srs_ingest_flv.c, with the codec at the end.  *)

OpenRead ==
    /\ phase = "closed"
    /\ phase' = IF ReadHeader(file) THEN "reading" ELSE "done"
    /\ pos' = Len(FlvHeader)
    /\ UNCHANGED <<encoder, sent, recorder, injections, got, codec, samples>>

Demuxed(t) ==
    CASE t.type = Video -> VideoAvcDemux(codec, t.data)
      [] t.type = Audio -> AudioDemux(codec, t.data)
      [] OTHER -> Ignored(codec)

ReadNext ==
    /\ phase = "reading"
    /\ \E r \in ReadTag(file, pos) :
        IF r.result # "success"
        THEN phase' = "done" /\ UNCHANGED <<pos, got, codec, samples>>
        ELSE \E d \in {Demuxed(r)} :
                /\ got' = Append(got, [type |-> r.type, time |-> r.time, data |-> r.data])
                /\ pos' = r.next
                /\ codec' = d.codec
                /\ samples' = Append(samples, [ret |-> d.ret, units |-> d.sample.units,
                                               cts |-> d.sample.cts, idr |-> d.sample.idr])
                /\ phase' = phase
    /\ UNCHANGED <<encoder, sent, recorder, injections>>

Next ==
    \/ PublishParameters \/ PublishNalus \/ PublishData \/ PublishOtherAudio
    \/ WriteRawFrame \/ WriteAdtsFrame
    \/ WriteHeader \/ Record \/ Close \/ Crash
    \/ Inject \/ OpenRead \/ ReadNext

Spec == Init /\ [][Next]_pipeVars

----------------------------------------------------------------------------
(* Properties. *)

\* What the reader of a file gets are the tags that were written, each with its type,
\* its data and the 31 bits of its time that a tag has room for, in their order; at the
\* end it has all that are complete and nothing of one that a crash cut, or of the trace
\* behind the last.
TagsAsWritten ==
    LET written == [i \in DOMAIN tags |->
                       [type |-> tags[i].type, data |-> tags[i].data,
                        time |-> IF tags[i].type = Script THEN 0 ELSE tags[i].time % TimeRange]]
    IN  /\ IsPrefix(got, written)
        /\ phase = "done" => got = written

\* The file ends behind a tag, or with the trace.
Uncut ==
    \E text \in {<<>>, Completed} :
        /\ Len(file) = Place(tags, Len(tags) + 1) + Len(text)
        /\ SubSeq(file, Len(file) - Len(text) + 1, Len(file)) = text

\* In a file without a tag that was cut, the summary of the sequence headers reaches from
\* the first audio or video tag to the end of the last before one of a kind comes again;
\* there is none when no kind does.
SummaryAsWritten ==
    phase = "closed" /\ Uncut =>
        LET media == {i \in DOMAIN tags : tags[i].type # Script}
            again == {i \in media : \E j \in media : j < i /\ tags[j].type = tags[i].type}
            headers == {i \in media : again # {} /\ i < Min(again)}
            summary == Summary(file, Len(FlvHeader), NoSummary)
        IN  IF again = {} THEN summary = NoSummary
            ELSE /\ summary.start = Place(tags, Min(headers))
                 /\ summary.end = Place(tags, Max(headers) + 1)

\* A file is read as it was written, tag by tag by the ingester and in summary by the
\* server's decoder (srs_flv_read_tag_header, read_sequence_header_summary), over
\* messages the recorder left out, the trace behind the last tag, a crash with any part
\* of the file unwritten, and an injecter that leaves the file or has emptied it.
ReadAsWritten == TagsAsWritten /\ SummaryAsWritten

\* With lengths of four bytes, 1 and from Base to twice that look like a start code.
LooksLikeAnnexb(nalus) ==
    make \in {"raw", "4"} /\ (Len(nalus[1]) = 1 \/ Len(nalus[1]) \div Base = 1)

Before(kind, i) == \E j \in 1 .. i - 1 : tags[j].kind = kind
ReadAsLengths(i) ==
    \E j \in 1 .. i - 1 : /\ tags[j].kind = "nalus" /\ Before("parameters", j)
                          /\ samples[j].ret = "success" /\ ~ LooksLikeAnnexb(tags[j].units)

\* What a consumer finds in the i-th tag.
SampleAsGiven(i) ==
    LET m == tags[i]
        sample == samples[i]
        Found(units) == sample.units = units /\ sample.ret = "success"
    IN  CASE m.kind = "nalus" /\ ~ Before("parameters", i) -> Found(<<>>)
          [] m.kind = "nalus" /\ LooksLikeAnnexb(m.units) /\ ~ ReadAsLengths(i) -> TRUE
          [] m.kind = "nalus" /\ Len(m.units) > MaxCodecSample -> sample.ret = "error"
          [] m.kind = "nalus" -> /\ Found(m.units) /\ sample.cts = 1
                                 /\ sample.idr <=> VideoIsKeyframe(m.data)
          [] m.kind = "aac frame" -> Found(IF Before("aac config", i) THEN m.units ELSE <<>>)
          [] m.kind = "frame" -> Found(m.units)
          [] m.kind = "refused" -> sample.ret = "error"
          [] OTHER -> Found(<<>>)

\* The codec has the parameters of the last header read.  A width or height of more than
\* four macroblocks may be wrong (Uev).
CodecAsGiven ==
    LET headers == {i \in DOMAIN got : tags[i].kind = "parameters"}
    IN  headers # {} =>
            \E p \in Pictures :
                /\ tags[Max(headers)].units = <<p.sps, p.pps>>
                /\ codec.sps = p.sps /\ codec.pps = p.pps
                /\ codec.NAL_unit_length = LengthBytes - 1
                /\ p.width <= 64 => codec.width = p.width
                /\ p.height <= 64 => codec.height = p.height

\* Behind the sequence headers, what a consumer demuxes from a recorded stream are the
\* NALUs and frames the encoder gave, whichever of the messages around them were left
\* out, whether lengths or start codes are between the NALUs, and with the parameters of
\* the last sequence header.  The first NALUs may be taken for another format; when they
\* were not, no later ones are.
SamplesAsGiven == (\A i \in DOMAIN samples : SampleAsGiven(i)) /\ CodecAsGiven
============================================================================
