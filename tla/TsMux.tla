-------------------------------- MODULE TsMux --------------------------------
(***************************************************************************)
(* The muxing half of srs_kernel_ts.cpp: SrsTsEncoder caches a frame in    *)
(* SrsTsCache and flushes it as one PES packet (SrsTSMuxer,                *)
(* SrsTsContext::encode) that it cuts into packets of PacketSize.  A frame *)
(* is a number, and its bytes are told apart by where they are in the PES  *)
(* packet.  The writer is the caller's and may fail.                       *)
(***************************************************************************)
EXTENDS TsPacket

CONSTANTS
    AudioCacheSize,  \* SRS_AUTO_HLS_AUDIO_CACHE_SIZE
    AudioDelay,      \* SRS_CONF_DEFAULT_AAC_DELAY
    AacSizeMax,      \* 0x1fff
    SpsSize, PpsSize,    \* the lengths of the parameters the sequence header told
    Frames,          \* what may be written: see below
    Steps,           \* the milliseconds that may lie between two frames
    MaxFrames, MaxOpens, MaxFaults    \* bounds

(***************************************************************************)
(* A frame, demuxed by SrsAvcAacCodec: its codec, its cts, whether it is a *)
(* key frame and holds an IDR, and its sample units, of which the type     *)
(* matters for H.264: "slice" or one of the types that are left out.       *)
(***************************************************************************)
Codecs == {"AVC", "AAC", "MP3"}
ASSUME MuxAssumption ==
    /\ {SpsSize, PpsSize, AacSizeMax} \subseteq Nat /\ Steps \subseteq Nat
    /\ \A f \in Frames : /\ f.codec \in Codecs /\ f.cts \in Nat
                         /\ {f.key, f.idr} \subseteq BOOLEAN
                         /\ f.units \in Seq(ToSet(f.units))
                         /\ \A u \in ToSet(f.units) : u.size \in Nat

VARIABLES
    encoder,   \* "closed", "open"; "aborted" behind an assertion or a NULL message
    now,       \* the time of the last frame
    frames,    \* how many frames were given
    cache,     \* SrsTsCache: per stream, "audio" and "video", the message
    acodec,    \* SrsTSMuxer::acodec; vcodec stays AVC
    tables,    \* SrsTsContext::acodec, of the tables written last; vcodec with it
    counters,  \* SrsTsContext::pids: the continuity counters of the channels, by codec
    stream,    \* the packets written and not yet carried off
    units,     \* history: the PES packets, by number
    opens,     \* how often it was initialized
    faults     \* how often a write failed, or a packet was lost or repeated

muxVars == <<encoder, now, frames, cache, acodec, tables, counters, stream, units, opens, faults>>

\* A message is from the first frame that was cached behind the last flush.
None == [start |-> 0, frames |-> <<>>, size |-> 0, key |-> FALSE, dts |-> 0, pts |-> 0,
         sid |-> "none"]

MuxInit ==
    /\ encoder = "closed" /\ now = 0 /\ frames = 0
    /\ cache = [s \in {"audio", "video"} |-> None]
    /\ acodec = "AAC" /\ tables = "none"
    /\ counters = <<>> /\ stream = <<>> /\ units = <<>>
    /\ opens = 0 /\ faults = 0

----------------------------------------------------------------------------
(* A PES packet in packets of PacketSize. *)

(***************************************************************************)
(* One round of encode_pes: the packet made for the bytes at `from', with  *)
(* its room stuffed when less is left.  A single byte of stuffing costs a  *)
(* byte of the data when the adaptation field is made for it.              *)
(***************************************************************************)
MadeFor(m, pid, from) ==
    LET p == IF from = 0
             THEN CreatePesFirst(pid, m.sid, 0, IF m.key THEN m.dts ELSE -1, m.dts, m.pts, m.size)
             ELSE CreatePesContinue(pid, 0)
        room == PacketSize - SizeOfPacket(p)
        stuffing == room - Min({m.size - from, room})
    IN  IF stuffing > 0 THEN Padding(p, stuffing) ELSE p
Taken(m, p, from) == Min({m.size - from, PacketSize - SizeOfPacket(p)})

\* Mutant: the counter begins anew with each PES packet.
NumberedAnew(counter, i) == i
\* The counter of a channel is a byte.
Numbered(counter, i) == (counter + i) % 256

\* The packets of message m as PES packet `unit'.
PesPackets(m, unit, pid, counter) ==
    LET cut[from \in 0..m.size] ==
            IF from = m.size THEN <<>>
            ELSE LET p == MadeFor(m, pid, from)
                     n == Taken(m, p, from)
                 IN  << [made |-> p, data |-> [unit |-> unit, from |-> from, n |-> n]] >>
                     \o cut[from + n]
        pieces == cut[0]
    IN  [i \in DOMAIN pieces |->
            EncodePacket([pieces[i].made EXCEPT !.cc = Numbered(counter, i - 1)], pieces[i].data)]

Tables(audio) ==
    << EncodePacket(CreatePat("PMT"), NoData), EncodePacket(CreatePmt("PMT", "AVC", audio), NoData) >>

----------------------------------------------------------------------------

\* Mutant: what was written stays in the cache.
NotFreed(s, cached) == cached
Freed(s, cached) == [cached EXCEPT ![s] = None]

\* The tables, when the codec of the muxer changed, and the counters behind them.
TablesDue == IF tables = acodec' THEN <<>> ELSE Tables(acodec')
Told ==
    IF TablesDue = <<>> THEN counters
    ELSE [c \in {"AVC", acodec'} \ DOMAIN counters |-> 0] @@ counters
Channel(m) == IF m.sid = "VideoCommon" THEN "AVC" ELSE acodec'
PacketsOf(m) ==
    IF m.size > 0 /\ Channel(m) \in DOMAIN Told
    THEN PesPackets(m, Len(units) + 1, Channel(m), Told[Channel(m)])
    ELSE <<>>

(***************************************************************************)
(* SrsTsContext::encode of the cached message of s: the tables, then the   *)
(* PES packet on the channel of its codec.  fails is the write that fails, *)
(* or 0.  The codec is remembered before the tables are written, a channel *)
(* is made by the table that tells it and a counter advances before the    *)
(* write.  The message goes when all is written.                           *)
(***************************************************************************)
Encode(s, cached) ==
    LET m == cached[s]
        pid == Channel(m)
        psi == TablesDue
        told == Told
    IN  \E pes \in {PacketsOf(m)} :
          \E fails \in 0..(IF faults < MaxFaults THEN Len(psi) + Len(pes) ELSE 0) :
            LET reached == fails = 0 \/ fails > Len(psi)
                written == IF fails = 0 THEN psi \o pes ELSE SubSeq(psi \o pes, 1, fails - 1)
                created == IF fails = 0 THEN Len(pes) ELSE fails - Len(psi)
                channels == IF fails = 1 THEN counters ELSE told
            IN  /\ stream' = stream \o written
                /\ IF reached /\ pes # <<>>
                   THEN /\ counters' = [channels EXCEPT ![pid] = Numbered(@, created)]
                        /\ units' = Append(units,
                             [codec |-> pid, frames |-> m.frames, size |-> m.size,
                              dts |-> m.dts, pts |-> m.pts, declared |-> pes[1].payload.length,
                              packets |-> Len(pes), written |-> Len(written) - Len(psi),
                              cc |-> pes[1].cc])
                   ELSE counters' = channels /\ units' = units
                /\ encoder' = IF reached /\ m.size > 0 /\ pid \notin DOMAIN told
                              THEN "aborted" ELSE encoder
                /\ cache' = IF fails > 0 THEN cached ELSE Freed(s, cached)
                /\ faults' = IF fails > 0 THEN faults + 1 ELSE faults
                /\ tables' = acodec'

\* flush_audio and flush_video: a message that is missing is a NULL to encode.
Flush(s, cached) ==
    IF cached[s] = None
    THEN /\ encoder' = "aborted" /\ cache' = cached
         /\ UNCHANGED <<tables, counters, stream, units, faults>>
    ELSE Encode(s, cached)

(***************************************************************************)
(* What do_cache_aac, do_cache_mp3 and do_cache_avc append for a sample    *)
(* unit: a header of ADTS, nothing, or a start code; what they append      *)
(* before the first, the delimiter and for an IDR the parameters; and the  *)
(* units they refuse, behind which they append no more.                    *)
(***************************************************************************)
AdtsHeader == 7
LeftOut == {"SPS", "PPS", "AUD"}

UnitBytes(f, u) ==
    CASE f.codec = "AAC" -> AdtsHeader + u.size
      [] f.codec = "MP3" -> u.size
      [] OTHER           -> IF u.type \in LeftOut THEN 0 ELSE 3 + u.size

Parameters == (IF SpsSize > 0 THEN 4 + SpsSize ELSE 0) + (IF PpsSize > 0 THEN 3 + PpsSize ELSE 0)
Ahead(f) ==
    IF f.codec # "AVC" THEN 0 ELSE 4 + 2 + (IF f.idr THEN Parameters ELSE 0)

Unfit(f, u) ==
    \/ f.codec # "MP3" /\ u.size = 0
    \/ f.codec = "AAC" /\ u.size > AacSizeMax

Accepted(f) ==
    LET unfit == {i \in DOMAIN f.units : Unfit(f, f.units[i])}
    IN  IF unfit = {} THEN f.units ELSE SubSeq(f.units, 1, Min(unfit) - 1)
Appended(f) ==
    LET total[i \in 0..Len(Accepted(f))] ==
            IF i = 0 THEN Ahead(f) ELSE total[i - 1] + UnitBytes(f, Accepted(f)[i])
    IN  total[Len(Accepted(f))]
Bad(f) == Len(Accepted(f)) < Len(f.units)

Ticks(milliseconds) == 90 * milliseconds

\* cache_audio and cache_video.
Cached(m, f) ==
    [start |-> IF m = None THEN Ticks(now') ELSE m.start,
     frames |-> Append(m.frames, frames'), size |-> m.size + Appended(f),
     key |-> IF m = None THEN f.key ELSE m.key,
     dts |-> Ticks(now'), pts |-> Ticks(now') + Ticks(f.cts),
     sid |-> IF f.codec = "AVC" THEN "VideoCommon" ELSE "AudioCommon"]

Given(f) ==
    /\ encoder = "open" /\ frames < MaxFrames
    /\ frames' = frames + 1 /\ \E step \in Steps : now' = now + step
    /\ opens' = opens

Keep(cached) ==
    cache' = cached /\ UNCHANGED <<encoder, tables, counters, stream, units, faults>>

----------------------------------------------------------------------------

\* A muxer is made for AAC, and its open resets the codecs of the context; the channels stay.
Open == encoder' = "open" /\ acodec' = "AAC" /\ tables' = "none"

Initialize ==
    /\ encoder \in {"closed", "open"} /\ opens < MaxOpens
    /\ Open /\ opens' = opens + 1
    /\ UNCHANGED <<now, frames, cache, counters, stream, units, faults>>

WriteAudio ==
    \E f \in Frames :
        /\ f.codec # "AVC" /\ Given(f)
        /\ acodec' = f.codec
        /\ \E cached \in {[cache EXCEPT !["audio"] = Cached(@, f)]} :
              LET full == cached["audio"].size > AudioCacheSize
                  due == Ticks(now') - cached["audio"].start > Ticks(AudioDelay)
              IN  \/ (Bad(f) \/ (~full /\ ~due)) /\ Keep(cached)
                  \/ ~Bad(f) /\ full /\ Flush("video", cached)
                  \/ ~Bad(f) /\ ~full /\ due /\ Flush("audio", cached)

WriteVideo ==
    \E f \in Frames :
        /\ f.codec = "AVC" /\ Given(f)
        /\ acodec' = acodec
        /\ \E cached \in {[cache EXCEPT !["video"] = Cached(@, f)]} :
              IF Bad(f) THEN Keep(cached) ELSE Flush("video", cached)

Mux == Initialize \/ WriteAudio \/ WriteVideo
=============================================================================
