------------------------------ MODULE MCTsLink ------------------------------
(* Bounds and constants for model checking TsLink. *)
EXTENDS TsLink

Unit(size) == [size |-> size, type |-> "slice"]
Video(idr, cts, slices) ==
    [codec |-> "AVC", cts |-> cts, key |-> idr, idr |-> idr,
     units |-> (IF idr THEN << [size |-> 9, type |-> "AUD"] >> ELSE <<>>) \o slices]
Audio(codec, size) ==
    [codec |-> codec, cts |-> 0, key |-> FALSE, idr |-> FALSE, units |-> << Unit(size) >>]

\* A key frame whose length does not fit with its header, a bad one, a frame
\* of 14 packets that brings the counter to its wrap, and audio of which two of
\* a kind fill one packet or two, and two kinds leave room for a byte of
\* stuffing, so that one byte is for a second packet.
MCFrames ==
    { Video(TRUE, 40, << Unit(360) >>), Video(FALSE, 0, << Unit(0) >>),
      Video(FALSE, 0, << Unit(2553) >>), Audio("AAC", 53), Audio("MP3", 109) }

\* A null packet, one that was cut, one that is all adaptation field, an empty
\* table, a table that tells streams of another encoder, and a message of one of
\* them in one packet, with a header of many parts.
Null == EncodePacket(CreatePesContinue("NULL", 0), NoData)
Cutoff == [Null EXCEPT !.sync = FALSE]
Filler ==
    EncodePacket([CreatePesContinue("AVC", 0) EXCEPT
                    !.control = AdaptationOnly,
                    !.adaptation = [parts |-> {"opcr", "splice", "private"}, clock |-> 0,
                                    reserved |-> 184 - 10]], NoData)
Empty == [EncodePacket(CreatePat("PMT"), NoData) EXCEPT !.payload.section = 0]
OtherTable == EncodePacket(CreatePmt("PMT", "MPEG4", "AC3"), NoData)
OtherMessage ==
    LET p == [CreatePesFirst("AC3", "PrivateStream1", 7, -1, 5, 5, 90) EXCEPT
                !.payload.parts = {"pts", "escr", "rate", "trick", "copy", "crc", "extension",
                                   "private", "counter", "buffer"}]
    IN  EncodePacket(Padding(p, 184 - 90 - PesSize(p.payload)), [NoData EXCEPT !.n = 90])
Paddings ==
    LET p == [CreatePesFirst("MPEG4", "PaddingStream", 3, -1, 5, 5, 178) EXCEPT !.payload.parts = {}]
    IN  EncodePacket(p, [NoData EXCEPT !.n = 178])
MCOthers == { <<Null, Cutoff, Filler, Empty>>, <<OtherTable, Paddings, OtherMessage>> }
=============================================================================
