------------------------------- MODULE TsDemux -------------------------------
(***************************************************************************)
(* The demuxing half of srs_kernel_ts.cpp: SrsTsContext::decode is given a *)
(* packet at a time and decodes it until nothing is left of it, so that a  *)
(* packet that ends a message and begins another is decoded twice.  The    *)
(* message under way of a channel is put together in `partial'.            *)
(***************************************************************************)
EXTENDS TsPacket

CONSTANT Pid      \* the PIDs of the channels a PMT may tell

VARIABLES
    packet,      \* the packet that is decoded, or NoPacket
    pids,        \* SrsTsContext::pids: what each channel that was told applies to
    pure_audio,  \* SrsTsContext::pure_audio
    partial,     \* per channel: the message under way
    delivered    \* history: the messages on_ts_message got

demuxVars == <<packet, pids, pure_audio, partial, delivered>>

NoPacket == [pid |-> "none"]

\* A message with no payload is fresh, whether the channel has it or not.
Fresh == [cc |-> 0, length |-> 0, size |-> 0, dts |-> 0, pts |-> 0, pieces |-> <<>>]

DemuxInit ==
    /\ packet = NoPacket /\ pids = <<>> /\ pure_audio = FALSE
    /\ partial = [c \in Pid |-> Fresh] /\ delivered = <<>>

\* SrsTsMessage::completed.
Completed(m, start) == IF m.length = 0 THEN start ELSE m.size >= m.length

\* SrsTsContext::set, of several channels, and get.
SetAll(applied) == pids' = applied @@ pids
Applies(pid, to) == pid \in DOMAIN pids /\ pids[pid] = to

----------------------------------------------------------------------------

Arrived == packet # NoPacket

\* What a packet is refused for.
Refused(w) == ~w.sync \/ (HasAdaptation(w) /\ AdaptationFails(w))

\* A packet of another program, or without a payload, is left; so is one that is refused.
Leave ==
    /\ Arrived
    /\ \/ Refused(packet)
       \/ ~HasPayload(packet)
       \/ /\ packet.pid # "PAT"
          /\ \A to \in {"PMT", "Video", "Audio"} : ~Applies(packet.pid, to)
    /\ packet' = NoPacket
    /\ UNCHANGED <<pids, pure_audio, partial, delivered>>

Section == Arrived /\ ~Refused(packet) /\ HasPayload(packet)

\* An empty section; the rest of the packet is then no packet.
DecodeEmpty ==
    /\ Section /\ (packet.pid = "PAT" \/ Applies(packet.pid, "PMT"))
    /\ packet.payload.section = 0
    /\ packet' = NoPacket
    /\ UNCHANGED <<pids, pure_audio, partial, delivered>>

\* The channels of the PMTs; whether the stream is audio is asked here.  The checksum
\* is verified behind this, so that a table that fails it is in force all the same.
DecodePat ==
    /\ Section /\ packet.pid = "PAT" /\ packet.payload.section > 0
    /\ SetAll([p \in {"PAT"} \cup ToSet(ProgramsRead(packet)) |->
                  IF p = "PAT" THEN "PAT" ELSE "PMT"])
    /\ pure_audio' = ("Video" \notin Range(pids'))
    /\ packet' = NoPacket
    /\ UNCHANGED <<partial, delivered>>

VideoStreams == {"AVC", "MPEG4"}
AudioStreams == {"AAC", "AC3", "DTS", "MP3"}

\* A stream of another type is left out.
DecodePmt ==
    /\ Section /\ Applies(packet.pid, "PMT") /\ packet.payload.section > 0
    /\ LET infos == {i \in ToSet(InfosRead(packet)) : i.stream \in VideoStreams \cup AudioStreams}
           told == [p \in {i.pid : i \in infos} |->
                      IF \E i \in infos : i.pid = p /\ i.stream \in VideoStreams
                      THEN "Video" ELSE "Audio"]
       IN  SetAll((packet.pid :> "PMT") @@ told)
    /\ packet' = NoPacket
    /\ UNCHANGED <<pure_audio, partial, delivered>>

----------------------------------------------------------------------------
(* SrsTsPayloadPES::decode: its ways out, in the order of the code. *)

Pes ==
    /\ Arrived /\ ~Refused(packet) /\ HasPayload(packet)
    /\ packet.pid # "PAT" /\ (Applies(packet.pid, "Video") \/ Applies(packet.pid, "Audio"))
Msg == partial[packet.pid]
IsFresh == Msg.size = 0

\* A unit starts before the end of the message under way.
Cut == ~IsFresh /\ Msg.length > 0 /\ ~Completed(Msg, packet.start) /\ packet.start

\* The counter is of a packet that came before, or twice.
Late == ~IsFresh /\ Msg.cc >= packet.cc /\ (Msg.cc + 1) % 16 > packet.cc

\* Mutant: a gap is seen in a message whose length is known only.
GapIfDeclared == ~IsFresh /\ Msg.length > 0 /\ (Msg.cc + 1) % 16 # packet.cc

Gap == ~IsFresh /\ (Msg.cc + 1) % 16 # packet.cc

\* The unit that starts ends a message of unknown length.
Ended == ~IsFresh /\ Completed(Msg, packet.start)

Consumed == packet' = NoPacket /\ UNCHANGED <<pids, pure_audio>>
Again == UNCHANGED <<packet, pids, pure_audio>>
Becomes(m) == partial' = [partial EXCEPT ![packet.pid] = m]

Reaped(m) == [codec |-> packet.pid, length |-> m.length, dts |-> m.dts, pts |-> m.pts,
              pieces |-> m.pieces]

\* An error: the caller hears of it, and the message stays fresh.
FreshWithoutStart ==
    /\ Pes /\ IsFresh /\ ~packet.start
    /\ Consumed /\ UNCHANGED <<partial, delivered>>

DropLate ==
    /\ Pes /\ ~Cut /\ Late
    /\ Consumed /\ UNCHANGED <<partial, delivered>>

\* The message is dropped, and the packet is decoded again.
DropMessage ==
    /\ Pes /\ (Cut \/ (~Late /\ Gap))
    /\ Becomes(Fresh) /\ Again /\ delivered' = delivered

\* The message of unknown length is reaped, and the packet is decoded again.
ReapPrevious ==
    /\ Pes /\ ~Cut /\ ~Late /\ ~Gap /\ Ended
    /\ delivered' = Append(delivered, Reaped(Msg))
    /\ Becomes(Fresh) /\ Again

(***************************************************************************)
(* SrsTsMessage::dump behind the header, up to the length, when the packet *)
(* is of a stream that has data.  A message whose length was told is       *)
(* reaped when it is complete, one of unknown length never by its own      *)
(* packets.                                                                *)
(***************************************************************************)
Dumped(m) ==
    LET told == packet.start
        headed == [m EXCEPT !.cc = packet.cc,
                            !.length = IF told THEN LengthRead(packet) ELSE @,
                            !.dts = IF told THEN DtsRead(packet) ELSE @,
                            !.pts = IF told THEN PtsRead(packet) ELSE @]
        n == IF headed.length > 0 THEN Min({DataRead(packet), headed.length - m.size})
             ELSE DataRead(packet)
    IN  IF told /\ packet.payload.sid = "PaddingStream" THEN [m EXCEPT !.cc = packet.cc]
        ELSE [headed EXCEPT !.size = @ + n, !.pieces = Append(@, [packet.data EXCEPT !.n = n])]

Dump ==
    /\ Pes /\ ~Cut /\ ~Late /\ ~Gap /\ ~Ended /\ (IsFresh => packet.start)
    /\ LET m == Dumped(Msg)
       IN  IF m.length > 0 /\ Completed(m, packet.start)
           THEN delivered' = Append(delivered, Reaped(m)) /\ Becomes(Fresh)
           ELSE Becomes(m) /\ delivered' = delivered
    /\ Consumed

Demux == Leave \/ DecodeEmpty \/ DecodePat \/ DecodePmt \/ FreshWithoutStart \/ DropLate
         \/ DropMessage \/ ReapPrevious \/ Dump
=============================================================================
