------------------------------ MODULE FlvFile ------------------------------
(***************************************************************************)
(* An FLV file as a sequence of bytes: SrsFlvEncoder, SrsFlvDecoder and    *)
(* SrsFlvVodStreamDecoder of srs_kernel_flv.cpp, on SrsFileReader.  The    *)
(* bytes are those of RawStream; a file may end in the middle of a tag.    *)
(***************************************************************************)
EXTENDS RawStream

Audio == 8
Video == 9
Script == 18
TagHeaderSize == 11
PreviousTagSize == 4

\* write_header and the previous tag size behind it; the flags do not matter.
FlvHeader == << 70, 76, 86, 1, 5, 0, 0, 0, 9 >> \o Digits(0, PreviousTagSize)

----------------------------------------------------------------------------
(* Writing. *)

\* A time has 31 bits, of which the upper eight come last.
TimeRange == Base ^ 4 \div 2
WriteTime(time) == Digits((time % TimeRange) % Base ^ 3, 3) \o << (time % TimeRange) \div Base ^ 3 >>

SizeTag(data_size) == TagHeaderSize + data_size + PreviousTagSize

\* write_audio, write_video, write_metadata; metadata has no time.
WriteTag(type, time, data) ==
    <<type>> \o Digits(Len(data), 3) \o WriteTime(IF type = Script THEN 0 ELSE time)
      \o Digits(0, 3) \o data \o Digits(TagHeaderSize + Len(data), PreviousTagSize)

----------------------------------------------------------------------------
(* Reading, from a place that counts from 0. *)

Left(file, pos) == IF pos < Len(file) THEN Len(file) - pos ELSE 0

\* read(): what is left when it is less than count, and an error when nothing is.
Read(file, pos, count) ==
    SubSeq(file, pos + 1, pos + (IF count < Left(file, pos) THEN count ELSE Left(file, pos)))

TagSize(header) == Number(SubSeq(header, 2, 4))
TagTime(header) == header[8] * Base ^ 3 + Number(SubSeq(header, 5, 7))

\* Mutant: the size behind a tag is not looked for.
TrailerLooseFound(file, pos) == TRUE
\* read_previous_tag_size: one byte of it is enough.
TrailerFound(file, pos) == Left(file, pos) > 0

\* srs_flv_read_tag_header, then srs_flv_read_tag_data: a tag and the place behind it,
\* or why there is none.  A header that is cut has a size nobody wrote, which is 0 or
\* leads to the end of the file.
ReadTag(file, pos) ==
    LET header == Read(file, pos, TagHeaderSize)
    IN  IF header = <<>> THEN {[result |-> "eof"]}
        ELSE IF Len(header) < TagHeaderSize THEN {[result |-> "invalid"], [result |-> "error"]}
        ELSE IF TagSize(header) = 0 THEN {[result |-> "invalid"]}
        ELSE LET data == Read(file, pos + TagHeaderSize, TagSize(header))
                 end == pos + TagHeaderSize + TagSize(header)
             IN  IF data = <<>> \/ ~ TrailerFound(file, end) THEN {[result |-> "error"]}
                 ELSE {[result |-> "success", type |-> header[1] % 32, time |-> TagTime(header),
                        data |-> data, offset |-> pos, next |-> end + PreviousTagSize]}

\* srs_flv_read_header: the 9 bytes, of which three count, and the size behind them.
ReadHeader(file) == Read(file, 0, 3) = << 70, 76, 86 >> /\ Left(file, 9) > 0

----------------------------------------------------------------------------
(* read_sequence_header_summary: where the sequence headers are, under the *)
(* assumption that the first video and the first audio tag are.            *)

NoSummary == [start |-> -1, end |-> -1, audio |-> FALSE, video |-> FALSE]

\* Mutant: the end is that of the data.
EndOfData(pos, header) == pos + TagHeaderSize + TagSize(header)
EndOfTag(pos, header) == pos + TagHeaderSize + TagSize(header) + PreviousTagSize

\* From pos on, until a second tag of a kind, of which the first byte is enough; an
\* error at the end of the file.
RECURSIVE Summary(_, _, _)
Summary(file, pos, found) ==
    LET header == Read(file, pos, TagHeaderSize)
        next == pos + SizeTag(TagSize(header))
        end == EndOfTag(pos, header)
        start == IF found.start < 0 THEN pos ELSE found.start
        again == \/ header[1] = Video /\ found.video
                 \/ header[1] = Audio /\ found.audio
    IN  IF header = <<>> THEN NoSummary
        ELSE IF again THEN found
        ELSE IF Len(header) < TagHeaderSize THEN NoSummary
        ELSE CASE header[1] = Video ->
                     Summary(file, next, [found EXCEPT !.video = TRUE, !.start = start, !.end = end])
               [] header[1] = Audio ->
                     Summary(file, next, [found EXCEPT !.audio = TRUE, !.start = start, !.end = end])
               [] OTHER -> Summary(file, next, found)
============================================================================
