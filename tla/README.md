# A TLA+ development of camera2hls

camera2hls puts IP cameras on the web. A camera's SDK hands H.264 packets to
`camera2hls`, which publishes them with srs-librtmp to an RTMP server; `iroom`
is the HTTP service that starts, watches and stops these publishers. srs-librtmp
(`src/librtmp/src`) is the large part: the RTMP protocol with everything around
it, handshake and sessions, AMF0, FLV, codecs and MPEG-TS. This directory holds
TLA+ models of the parts that are hard to test, the TLC runs that check them on
small instances, and theorems about them that TLAPS checks for all values of the
constants.

`tlc -config X.cfg M` runs a check, `tlapm M.tla` checks the proofs of `M`.
`PROJECT.json` lists components, runs, the mutants that show each property can
fail, the source lines behind each definition, hazards, findings and theorems.

## 1. The system

                     HTTP                  ps, kill, fork, log file
      web client ───────────> iroom.py ──> start.py / stop.py ──> camera2hls
                                                                     │ callback of the SDK
           IRoom                                                     v
                                             srs_h264_write_raw_frames  (H264Publish, CameraPusher)
      other encoders ── RawStream, FlvPipe ──────────┐               │
                                                     v               v
                                             srs_rtmp_*, SrsRtmpClient  (Handshake, RtmpSession)
                                                     │ packets           (Amf0, RtmpPackets, PacketCodec)
                                                     v
                                             SrsProtocol: writer, reader (ChunkWriter, SendIovs, ChunkReader)
                                                     │ SrsFastBuffer     (FastBuffer)
                                                     v
                                             socket ──────────> RTMP server (ChunkLink, PeerLink)
                                                                     │
                          recorder, injecter, ingester (FlvFile, AvcAacCodec, FlvPipe)
                          MPEG-TS encoder and decoder (TsMux, TsDemux, TsLink)

| component | state | operations | what is hard | what makes it correct |
|---|---|---|---|---|
| chunk reader, `SrsProtocol::recv_message` | chunk streams by cid with the last header and the open message, receive buffer, chunk size, acknowledgement window, queue of manual responses | read basic header, message header, extended timestamp, payload; the hook for control messages | compressed headers of interleaved streams; a chunk size that changes inside a message; extended timestamps that may be missing; everything arrives in pieces | no write outside of a payload; messages entire, once, in order; pings answered, acknowledgements grow |
| chunk writer, `SrsProtocol::do_simple_send`, `do_send_messages` | chunk size, iovec array, header cache | cut a message, send it, change the chunk size afterwards | batches with array and cache at their limit; a writev that fails between two others | the reader's view of the above; a batch is what the simple writer writes |
| receive buffer, `SrsFastBuffer` | allocation, `p`, `end` | `set_buffer`, `grow`, `read_slice`, `skip` | data moves while the parser holds positions; the merged-read handler calls `set_buffer` inside `grow` | contents are the stream; reads stay inside |
| handshake | C0 to C2, S0 to S2 | complex, then simple | the simple one starts with bytes the complex one has read; two schemas, offsets that are sums of bytes | no byte read twice or lost; the digests are those the peer would look for |
| requests, `expect_message` | request names by transaction id | send a command, drop messages until the answer | stale ids, dropped messages | the answer belongs to the request |
| RTMP session, `SrsRtmpClient`, `SrsRtmpServer`, `srs_rtmp_*` | stream id, what is identified, queue of parts of an aggregate | handshake, connect, create stream, play, publish, bandwidth test, read, write | clients with other orders of calls; both sides wait for each other; a failure at each step | both mean the same stream; both get there or end |
| AMF0 and packet classes | values, properties in order | build, size, encode, decode | sizes and bytes are two walks; an answer is decoded by the request it names | what is read is what was meant |
| MPEG-TS | audio and video cache; continuity counters; the message under way of each channel | write a frame, flush, cut in packets; decode packet by packet | lengths that do not fit the header, counters and times that wrap, lost, repeated and foreign packets, a write that fails in the middle | messages entire, timed, in order; one fault costs little |
| FLV files and codecs | a file that may end anywhere; SPS, PPS, AAC config, guessed format of NALUs | record, inject, read, demux | a file cut in a tag, or with a trace behind the last; formats that are guessed once and kept; an output that nothing is written to | what is read is what was written; samples are what was given |
| publisher, `srs_h264_write_raw_frames`, `test.cpp` | SPS, PPS, what changed, what was sent; timestamp | cut a packet in NALUs, send header and slices | parameters that come apart, change, repeat or come late; an error in the middle of a call | a player decodes what the camera gave |
| live service, `iroom.py`, `start.py`, `stop.py` | processes, log files | request, watch, stop | scripts know each other by `ps`; time passes between a look and what is done about it | one camera process each, ended at its limit |
| TCP gateway, `srs_h264_raw_publish.c` | a static receive buffer with sizes | republish what a TCP client sends | sizes survive the client | not modelled |
| on-demand conversion, HTTP mux, statistics, RTSP/RTP, log, alarm receiver, vendored SDK headers | | | | not modelled, section 7 |

Components interact by calls on one thread, with three exceptions: the SDK calls
`RealDataCallBack_V2` on a thread of its own, one call at a time, while `main`
sleeps; the merged-read handler of a server may call `set_buffer` while `grow`
is reading; and the iroom scripts are processes that share `ps` and log files.

## 2. Modules

| module | models | with |
|---|---|---|
| `ChunkWire` | tokens and messages on a connection, the extended timestamp, byte decoding | |
| `ChunkReader` | receiving half of `SrsProtocol`, over any wire | ChunkWire |
| `ChunkWriter` | sending half, as `do_simple_send` has it | ChunkWire |
| `MessageChannel` | the abstract promise of a connection: a FIFO queue | |
| `ChunkLink` | writer and reader joined; implements `MessageChannel!Spec` | ChunkReader, ChunkWriter |
| `PeerLink` | foreign peers and the reader | ChunkReader |
| `SendIovs` | `do_send_messages` and `srs_write_large_iovs`; implements `ChunkWriter` | ChunkWire, ChunkWriter |
| `FastBuffer` | `SrsFastBuffer` with the calls `SrsProtocol` makes | |
| `HandshakeDigest` | keys and digests in C1, S1, C2, S2 | |
| `Handshake` | simple and complex handshake of both sides, and the choice | HandshakeDigest |
| `RtmpSession` | `SrsRtmpClient`, `SrsRtmpServer`, the `srs_rtmp_*` calls, aggregates | Handshake |
| `SessionOrder` | the order of a client's calls that the server counts on | RtmpSession |
| `Amf0` | AMF0 values, their sizes, writers and readers | |
| `RtmpPackets` | the packet classes and `do_decode_message` | Amf0 |
| `PacketCodec` | values built, sent in packets and decoded by the other side | RtmpPackets |
| `TsPacket` | TS packets, PAT, PMT, PES: made, sized, written, read | |
| `TsMux`, `TsDemux` | `SrsTsEncoder` with its caches; `SrsTsContext::decode` | TsPacket |
| `TsLink` | a transport stream that loses, repeats and mixes packets | TsMux, TsDemux |
| `RawStream` | raw H.264 and AAC to payloads of tags | |
| `FlvFile` | `SrsFlvEncoder`, `SrsFlvDecoder`, the summary of sequence headers | RawStream |
| `AvcAacCodec` | `SrsAvcAacCodec`: from payloads to samples | RawStream |
| `FlvPipe` | publish, record, crash, inject, ingest, demux | FlvFile, AvcAacCodec |
| `H264Publish` | H.264 half of the raw API, and a player at the far end | |
| `CameraPusher` | the callback of the camera SDK | H264Publish |
| `IRoom` | handlers, scripts, processes, logs and time | |
| `ChunkReaderProofs`, `ChunkLinkProofs`, `PeerLinkProofs`, `BufferProofs` (FastBuffer and SendIovs), `IRoomProofs`, `CameraPusherProofs`, `RtmpSessionProofs`, `TsLinkProofs` | the theorems of section 5 | |
| `MC*` | bounds and constants for TLC | |

### Chunks: ChunkWire, ChunkReader, ChunkWriter, ChunkLink, PeerLink

A *token* stands for the bytes the parser takes in one step: a basic header, a
message header without it, the parts of an extended timestamp, a byte of
payload. Numbers shrink: `Extended` is the 24-bit threshold of a timestamp,
`Mask` the 31-bit mask (`% Mask`), `Raw` the range of 32 bits, `ExtWidth` the
length of the extended timestamp. What stays exact is the control: every early
return, the order in which fields are assigned, and the guess whether the bytes
behind a continued header are an extended timestamp or payload, which takes
`ExtWidth` tokens and compares them, whatever kind they are.

- `in_buffer`, `recv_bytes`, `chunks`, `in_chunk_size`, `in_ack_size`, `queue`
  are the members of `SrsProtocol` (or of its buffer and socket); `cur`, `msg`
  and `pc` are the locals and the place of `recv_message`; `delivered` is what
  the caller got. `wire` is what the peer has written and nobody has read.
- `recv_bytes` is `get_recv_bytes()`, which acknowledgements are made of.
  `srs_hijack_io_read_fully` counts what it reads twice, once in each
  `srs_hijack_io_read` (srs_lib_simple_socket.cpp:159) and again at its end (:249). Both
  sides read the handshake with it, 3073 bytes (`HandshakeBytes`), and nothing behind it:
  `recv_bytes` starts at twice that number and is ahead of the history `read_bytes` from
  then on. The number that goes out is cut to 32 bits (`% Raw`), as
  `response_acknowledgement_message` casts it; `acked_size` is not cut.
- `Receive` is a step of `recv_interlaced_message` or of `recv_message`: a
  socket read of any length when the buffer has less than the parser requires,
  then `read_basic_header`, `read_message_header`, the extended timestamp,
  `read_message_payload`, and the hook `on_recv_message` with the answer it
  sends or queues. A failed step ends in `pc = "failed"`.
- `Feed` puts anything on the wire (ChunkReader alone); `Send` is
  `do_simple_send` with `on_send_packet` (ChunkWriter); `PeerStart` and
  `PeerContinue` are the peers that the comments of `srs_rtmp_stack.cpp` describe. A
  peer that waits takes the difference of the acknowledgement and of what it has sent, the
  handshake included, in 32 bits (`Unacknowledged`).
- With `AutoResponse` off (ChunkReader, ChunkLink) the caller calls
  `manual_response_flush` at any time; in PeerLink answers go out at once.

Assumed: chunk sizes on the wire are positive (conforming peers), the connection
stays up in ChunkLink and PeerLink, messages on a connection are numbered so that
two of them are never equal (this makes loss and repetition visible).

### Batches: SendIovs

The state is that of `do_send_messages`: the header cache (`cache`, from a place
to the header written there, and `cache_index`), the array of iovecs with its
size, the place in the batch (`pos`), and the writev under way (`writev`).
`DescribeChunk` describes one chunk, or finds the cache dry and begins to write;
the array grows by `IovsMax` when it is full. `WriteIov` is an iovec taken by the kernel,
`WritevReturns` and `WritevFails` the results `srs_hijack_io_writev` makes of it,
`Break` the end of the connection. A header takes a byte of the cache per token.
The socket blocks: only a broken connection makes a writev write a part, and the
hijack layer counts that as a success, so that the next call is the first to tell.

### Receive buffer: FastBuffer

The cells of the allocation hold the numbers of the stream's bytes, so that
`Contents` can say which byte is where. `Resize` and `SetBuffer` are
`set_buffer`; `GrowInPlace`, `GrowByMove` and `GrowAborts` are the ways
through `grow` up to its loop, `Read` and `ReadFails` a round of the loop;
`SetBuffer` is enabled inside the loop as well, where the merged-read handler
sleeps. The sizes asked for follow the parser: header, then an extended
timestamp, then a payload as far as the chunk has them. After an error the
caller may call again at a header.

### Sessions: HandshakeDigest, Handshake, RtmpSession, SessionOrder

Bytes of the handshake are taken in blocks (C0, C1, C2 and their answers), as
`read_fully` takes them; what a block of 1536 bytes holds is `HandshakeDigest`,
with a cell for a digest or an offset and `KeySize` cells for a key. Offsets are
sums of bytes there as in the code; HMAC-SHA256 and Diffie-Hellman are symbolic.
`hs` is `SrsHandshakeBytes`, which remembers what was read when the complex
handshake gives up; `stage` is the part a side handles next.

A side of a session is a straight sequence of calls with an early return at each
error. `todo` is what it has still to do: packets to send, answers to expect, and
its loops (identify, read, write, serve, record). `requests` and `tid` are those
of `SrsProtocol`, `stream_id`, `identified` and `msgs` those of the client, the
server and the context of srs-librtmp. A packet is what `decode_message` tells
apart: name, transaction id, stream id, kind of its last value. The *make* of a
client says what it sends and under which handshake and build; nine of the fourteen are
programs over srs-librtmp, the others are flash players and encoders as the
comments of `SrsRtmpServer` describe them. A part of an aggregate has a type, a time
and a stream id of its own (`SubMessage`), which `srs_rtmp_on_aggregate` reads and keeps.
The application above `SrsRtmpServer` is
not in the repository; it calls the functions in the order their comments give.
`Crash` ends a side anywhere, and a side that is over has closed its end.

`SrsRtmpServer` has no table of what a client may say: it takes messages one by one,
drops those it does not wait for, and what becomes of a client follows from the order of
its calls. `SessionOrder` states the orders that work. `Reached` follows what the server
waits for along the script of a make, as `connect_app`, `identify_client`,
`identify_create_stream_client` and `start_fmle_publish` go on behind each message;
`Orderly` asks that media come only when the server is to record, or behind a refusal,
when nobody reads any more; that a player waits for no answer behind `play`; that the
call by which the server decides what a client is comes from a client that means it; that
the answer to `createStream` is awaited before media; and that an own client speaks in
names the decoder knows, with one name for a transaction id. The programs over
srs-librtmp and the foreign clients of the run are all `Orderly`; TLC evaluates the
assumption on each of the fourteen.

`SRS_AUTO_SSL` is `#undef`'d in `objs/srs_auto_headers.hpp:24`: this build has
no complex handshake. Makes with and without it, on either side, are all in the run.

### AMF0 and packets: Amf0, RtmpPackets, PacketCodec

A value is a record with one field for its kind; the properties of an object are a
sequence of pairs (`SrsUnSortedHashtable`). Bytes are exact but for texts and
doubles, which are names with a `Spelling` and `Bits`; lengths, counts, markers
and the object end are written and looked for byte by byte, so that a reader that
takes three bytes for an object end does so in the model. `Amf0Assumption`
excludes doubles whose first bytes look like an object end. A reader gives the
set of its results, empty for an error. `RtmpPackets` has `get_size`,
`encode_packet` and `decode` of each class and the choice `do_decode_message`
makes; `PacketCodec` composes values with the `srs_amf0_*` calls, sends packets of
clients and servers, and decodes them with the requests of the receiver.

### MPEG-TS: TsPacket, TsMux, TsDemux, TsLink

A packet on the wire is the record of the fields `encode()` writes; its data is a
run of bytes of a PES packet, told apart by where they lie. Sizes are those of the
code (188, the adaptation field, stuffing, PES headers); lengths, times, the
cache limits and the bits of the clock reference shrink. `WriteAudio` and
`WriteVideo` are `write_audio` and `write_video` with the caches and what
flushes them, `Initialize` is `initialize`; a write of a packet may fail.
`TsDemux` decodes one packet until nothing is left of it. `TsLink` carries
packets, loses one, repeats one, or has packets of another muxer come between;
what is written is carried off before the encoder writes again, which hides
nothing, as the encoder does not see the decoder. Nothing in the repository calls
`SrsTsEncoder` or `SrsTsContext::decode`; the link is how a server and a player use them.

### FLV and codecs: RawStream, FlvFile, AvcAacCodec, FlvPipe

Files and payloads are sequences of bytes; lengths and times are written with
digits to the base `Base` in place of 256, so that a NALU of 9 bytes has a length of
two digits. A bit of an SPS behind its level has a byte of its own. `FlvPipe` follows a
stream through four programs: an encoder (the raw API of srs-librtmp, or one of
another make), `srs_rtmp_dump.c`, `srs_flv_injecter.c` and `srs_ingest_flv.c`, with an
`SrsAvcAacCodec` at the end. `tags` is the history of what is in the file,
`got` and `samples` are what the reader and the codec made of it.

`SrsFileWriter::write` puts all it is given to stdout (srs_kernel_file.cpp:143; its
`::write` is a comment), and a file that is opened for writing is emptied and stays
so. `file` is therefore what the stdout of the recorder is redirected to, on a disk
that has room. `srs_human_trace` prints there as well: `Close` puts the line that
says "completed" behind the last tag, of which a reader would take the first eleven
bytes for a tag header; the recorder has no other trace but for a header that fails,
and none does. stdout is buffered, so that `Crash`, a kill, leaves any part of what
was printed; one cut in each part of each tag stands for all, as the reader tells no
others apart. `Inject` runs the two passes of the injecter over the file; when both
end well, `rename` puts the empty output in the place of the file, and when a pass
fails the file stays. What the injecter prints, tags between lines of trace, is read
by nothing here.

### Publisher: H264Publish, CameraPusher

NALUs are abstract: an SPS, an SPS of less than 4 bytes, a PPS, a slice, nothing
between two start codes. `PublishPacket` is a call of
the callback up to the loop of `srs_h264_write_raw_frames`; each further
action is one round of the loop; `Return` is what the callback makes of the
result. `config` and `shown` are a decoder that uses the last sequence header
it got; `last`, `given` and `dropped` are history. A write may fail at every
message; then the connection is down for good (`up`), as the program never
connects again. What is written on a connection that is up arrives, in order:
ChunkLink is about that.

### Live service: IRoom

`GetArrives`, `Poll` and `StopArrives` are the handlers of `iroom.py` in the
four workers of gunicorn; `Check`, `Look`, `Fork`, `ReapLook`, `ReapKill` the
steps of `start.py` between two of which other processes run; `StopLook` and
`StopKill` those of `stop.py`; `Stream` and `CameraExits` the camera process;
`Second` a second of one request. `Matches` is what the greps for ip, port and name
find, which may be more than the camera asked for.

`os.system('./start.py ... &')` and `Popen` with a shell return at once. A camera is
therefore in `running` from the fork of its shell on, as for `ps` and `kill` the shell and the
camera it becomes are one process, and `OpenLog` is the shell that opens, and by that
empties, the log, which may come at any time later. Nothing makes the handler wait for it
but `sleep(1)` (iroom.py:38), and nothing `start.py` but its own sleeps; a second passes for each
request on its own, so that a handler may look ahead of the shell, and a `start.py` that slept
may be late by any time. Three variables are history: `backed`, whether a process of its
camera that has printed a `time` has run since a request came; `raced`, the
requests whose handler looked ahead of the shell that empties the log, or whose shell was
killed before it did; and `doubled`, the cameras of which two processes have run at once.

## 3. Runs

| run | module, cfg | instance | checks |
|---|---|---|---|
| `reader_any_wire` | MCChunkReader | two chunk streams, every wire of up to 6 tokens, lengths to 4, chunk sizes 1 and 2 | types; no `memcpy` outside of the payload; no message left entire or closed between chunks |
| `chunk_link` | MCChunkLink | up to 3 messages out of 8, over 3 chunk streams; chunk size 2 to 1 or 3; timestamps below, at and above the threshold and with bit 31 set; 6 tokens in flight; manual responses | framing, pings, acknowledgements, refinement of `MessageChannel!Spec` with its liveness |
| `peer_link` | MCPeerLink | up to 3 messages of three makes of peers, streams interleaved, all header formats; 3 tokens in flight; automatic responses | order on each stream, and arrival with peers that repeat extended timestamps |
| `sends` | MCSendIovs | up to 5 messages in batches of 1 to 4, of one chunk and several, empty ones, of another stream; a cache of 9 bytes, an array of 4 iovecs, 3 to a writev; a connection that breaks anywhere | no header overwritten, loss reported by the next call, refinement of `ChunkWriter` |
| `fast_buffer` | MCFastBuffer | buffers of 5 to 7, requests of 1 to 6, 12 bytes | contents, reads inside, requests of up to half of the buffer fit |
| `session` | MCRtmpSession | 14 makes of clients, two media messages of five kinds (three are aggregates: in time, behind and before their first part), blocks of 6 cells, keys of 2; a crash at any step | handshakes agree, the server serves what is meant, nobody fails, no media is lost to a waiting call, everyone gets there, nobody waits forever |
| `packets` | MCPacketCodec | four steps: up to three calls that build values, up to four packets; a property with an empty name and one whose bytes are an object end | what is decoded is what is meant, the buffer is filled to its last byte |
| `ts` | MCTsLink | 3 frames out of 5 (a length that does not fit with its header, a bad one, 14 packets, audio of two kinds), times that wrap at 8192 ticks, two calls of `initialize`, one fault | messages entire and timed, packets sound, frames in order, only what is hit is lost |
| `flv` | MCFlvPipe | 5 makes of encoder, 2 pictures, 5 lists of NALUs, 3 buffers of ADTS, 3 messages, times on either side of the 24 bits (two steps), one crash, one injection | read as written, samples as given |
| `iroom` | MCIRoom | two start requests, or one and a stop, two cameras, limits 1 and 2, one look into the log | one camera process each, orphans only after a stop, YES is not from an old process, killed only at a limit, every request leads to a process, every stream ends |
| `camera` | MCCameraPusher | 10 kinds of video packets, one without a start code and one that is not video; 4 packets that take time, and any number that fail, two SPS, two PPS | the player decodes what was given, drops are reported, times advance |
| `camera_abort` | MCCameraPusher, MCCameraAbort | the same | *fails*: a PPS and a slice before any SPS, or behind an SPS of less than 4 bytes, end the process instead of being ignored (`findings` in `PROJECT.json`) |

Bounds are named: `MaxBytes`, `MaxMessages`, `Capacity` (tokens in flight),
`MaxReceived`, `MaxTime`, `MaxRequests`, `Polls` (looks into the log, 25 in the code), `MaxMedia`,
`MaxSteps`, `MaxFrames`, `MaxOpens`, `MaxFaults`, `MaxInjections`. They are
enough in this sense:

- Links: three messages are the least with which one stream can be
  interrupted by another, the chunk size change in between, and a header be
  compressed against a compressed one; 6 tokens hold a message that is cut in two
  by another. `HandshakeBytes` is 1 or 2, less than a window, so that an acknowledgement
  that is ahead by it does not make the next one needless.
- `sends`: the cache runs dry in the middle of a message and between two; the
  array doubles; a batch needs up to three writevs.
- `session`: the second of two media messages is behind an aggregate or in front of
  one; more media repeats the loops. The offsets take the digest to different
  places of both schemas.
- `ts`: the frame of 14 packets brings the counter to its wrap with the next frame. `PesLengthMax` lies between the size of one
  frame and that frame with its header. A second fault would need a property that
  counts faults; one is what `OnlyHitAreLost` speaks of.
- `packets`: three calls are the least that put a value with properties into a value
  and then change the outer one; four packets have answers behind two requests.
- `flv`: one injection empties the file or leaves it, and a second finds it so. Three
  messages are a header, a NALU and one that is compared with the
  latter's time. With `Base` 8 the NALUs of 1 and 9 bytes have lengths that look like
  a start code, those of 2 and 3 do not.
- `iroom`: two requests with unequal limits, or one and a stop, give every pair of scripts
  in every order (`MaxRequests`); of any number of them the theorems speak. `MCInit` of
  MCIRoom gives the request that names the first camera a limit of one second, the other
  one of two: the longer one outlives the shorter by one round of `start.py`, whichever of
  them forked the camera. Requests and cameras are otherwise interchangeable.

Every passing property has a mutant, a plausible bug of the code, that makes its
run fail within the same bounds.

`CHECK_DEADLOCK FALSE` is said where the system may stop: nobody has to send
(links, batches, packets), the bounds are reached, `grow` ends in an overflow, the
publisher or the muxer aborts. In `iroom` time passes forever, and in `session`
only settled sides may `Stay`: there deadlock is checked.

What the properties do not claim:

- `YesIsCurrent`, `EveryGetServed` and `EveryStreamEnds` hold *without* a stop
  request that matches. With one, `start.py` may find the `stop.py` or be killed,
  and YES can be from an old log.
- `YesIsCurrent` does not say that the camera streams, or that it has streamed since the
  request came: a process that printed a `time` long ago, runs and has stalled is
  answered YES (iroom.py:42), and the handler has no way to tell. What it says is that the
  line is of a process that has run since the request came, and not of one that was
  gone by then.
- `YesIsCurrent` also excepts a request whose handler was ahead of the shell that empties
  the log, or whose shell was killed first (`raced`), a camera that another one passes
  for (`Confused`), and one that has had two processes at once (`doubled`, section 6).
- `EveryGetServed` needs camera names that do not contain each other, as in the
  run: with `cam1` and `cam10` the process of the second passes for one of the first.
- A second request for a running camera leaves it to the limit of the first one;
  `PulledForALimit` says that *some* request is over.
- `HalfFits` is about requests of up to half the buffer. Larger ones may overflow
  although they would fit: `grow` compares the whole request with the room
  *behind* the bytes it has, not with what is missing.
- `DeliveredEntire` and `OnlyHitAreLost` except, for messages of unknown length, what
  follows the loss of a packet with counter 15 (section 6).
- `SamplesAsGiven` says nothing of a first frame that looks like a start code.
- `ReadAsMeant` spells out what is *not* read: see `Meant`.
- `EveryoneGetsThere` is about clients the application accepts and the server can
  talk to, while no side crashes.

## 4. Fairness

- ChunkLink: the reader (a program calls `recv_message` again and again) and the
  writer's loop over the chunks of a message. Nobody has to begin a message, and
  nobody has to flush.
- PeerLink: the same; the peer goes on with what it has begun. A peer that waits
  announces its window first and waits with a slack of one message, otherwise it
  gets nothing (section 6).
- RtmpSession: each side is a thread that goes on while it can: weak fairness of
  the handshake, of each side's steps, and of the end of a publisher's media when
  it has more to do. Nobody has to send media or to crash.
- IRoom: the scripts run and time passes for each request. Requests need not come,
  handlers need not poll, shells need not open the log, cameras need not stream.
- The other modules state no fairness; nothing is claimed of their progress.

## 5. Proofs

All theorems hold for every value of the constants that the `ASSUME`s of the modules
allow; the assumptions say that sizes are numbers, that sets of NALUs are distinct, that
a camera's grep finds its own processes, that messages sent have a payload that fits the
header, that the calls of a client come in the order of `SessionOrder`, that an
aggregate and no other message has parts, whose times do not go back, that control
messages are as long as `on_recv_message` requires, that a peer announces no chunk
size of 0, that the frames given to the TS encoder come in order of their times, and that
packets of other muxers are not packets of the encoder. Each one follows from an inductive invariant, checked first with TLC; each
action has a lemma.

- **ReaderInv** (ChunkReader): types; `ChunkOK`, which relates the length of the
  header, the allocation and the bytes copied; and which chunk may be open at
  which `pc`. Types alone are not inductive, as the payload is allocated at the
  first payload read and not with the header, and the header of an open message
  may be changed in between. It gives `ReaderTypeCorrect`, `PayloadNeverOverrun`
  and `NothingLingers`.
- **AnswersInv** (ChunkReader): which answers are on the way: of the pings handled,
  in order, those sent come first and those queued are the rest; each acknowledgement is
  `recv_bytes` cut to 32 bits, which is what was read then and the bytes of the
  handshake once more; and the last is what `acked_size` keeps. It gives
  `PingsStayAnswered` and `AcksKeepAdvancing`, over any wire.
- **LinkInv** (ChunkLink): what is on the wire and in the buffer is the chunking of
  what is sent and not delivered. To say so without induction over the tokens, each
  token in flight has a label: its message, how much of the payload the chunk
  starts with, its place in the chunk, and the size of chunks then. A label says
  what the token is, where its chunk ends and which label follows; the first one
  agrees with what the reader is parsing, the last one with what the writer has
  `left`. A read of the socket or of the parser moves the border between the labels
  of the wire, of the buffer and of the header being parsed, and a chunk written
  adds the labels of its tokens. It gives `FramingKept`; `ChannelSafety` (the
  hook appends the next message sent, so every step of the link is a step of
  `MessageChannel` or a stutter); and, with AnswersInv, `LinkPingsAnswered` and
  `LinkAcksAdvance`.
- **PeerInv** (PeerLink): a label per token does not do for peers that interleave
  streams: what a token means depends on all that its stream carried before. The
  invariant instead follows the chunks the peer has written, one after another: a
  sequence of states of the peer (`History`: what it keeps of each stream, its chunk
  size, the messages that are done) and the chunk written in each. What is in flight
  is the tokens of those chunks from some position on; the chunks of the reader are
  what the peer kept before the chunk that it is parsing (`ParsesAt`); and it has
  delivered the messages that were done by then (`GaveTo`). A step of the reader moves
  the position, and at the end of a payload to the next chunk; a chunk written makes the
  history longer. It gives `PeerFramed` (no part of a chunk is taken for another, none
  is refused, the hook never fails) and `PeerHeardInOrder`, both for peers that are
  `Understood`: they never use deltas at the extended threshold or above it, as
  `read_message_header` takes an extended timestamp for an absolute one
  (srs_rtmp_stack.cpp:1356); and when they leave the extended timestamp out of the
  chunks that continue a message, it is not 0 in its 31 bits and no payload looks like
  it, as the reader can tell the two apart only by their values. All peers of the run are
  of this kind. `PeerPingsAnswered` and `PeerAcksAdvance` hold for any other peer as well.
- **BufferInv** (FastBuffer): `p`, `end`, the bytes received and parsed, and the
  relation of `nb_free_space` to the buffer during `grow`. It gives
  `ParserSeesTheStream`, `ReadStaysInside` and `HalfAlwaysFits`.
- **ServiceInv** (IRoom): a `start.py` about to fork has no camera, its last `ps`
  shows all of its own, and whoever is in the victims of a stop has been asked to
  stop. It gives `AtMostOneCameraEach` and `LimitEndsTheRest`.
- **AgeInv** (IRoom): the rounds a `start.py` has left and the seconds since its
  request add up to no less than its limit, and to the limit when it reaps. It gives
  `OnlyPulledForALimit`.
- **CurrentInv** (IRoom): what a log with a `time` in it says. Processes of one camera
  are one unless it is `doubled`; who has printed a `time` backs every request that
  waits; a log with a `time` whose shell has opened it is of the process that runs;
  and once the `start.py` of a request has found its camera or forked it, or a second has
  passed, a log with a `time` is of a process that backs the request, or the handler
  still has its sleep before it and the shell its opening, or the request is excused. It
  gives `YesStaysCurrent`. Like the other theorems of IRoom, it needs no assumption
  on `Matches` and `LogOf` but that a camera's grep finds its own processes.
- **IovsInv** (SendIovs): the iovecs go in pairs, a header and its payload, that
  follow one another in the batch; the place of each header lies in the cache, apart from
  those of the other pairs not yet written; and what the kernel has taken says how far
  the message on the wire is. It gives `CacheAlwaysHolds`, `SuccessIsWritten`, and
  `ImplementsTheWriter`: the first header of a message the kernel takes is the
  `SendMessage` of ChunkWriter, each payload its `WriteChunk`, and all the rest stutters.
  It assumes what the code says of its callers: the messages of
  a batch have one stream id (`SrsSharedPtrMessage::check`), and shared messages are
  media.
- **PusherInv** (CameraPusher): the strings are what the camera gave last, the
  player has them or a header is due, and nothing is dropped once there is an SPS.
  It gives `PusherTypeCorrect`, `PlayerDecodesTheCamera`, `EveryDropIsReported`
  and `PacketsNeverShareATime`.
- **HandshakeInv** (RtmpSession): what each side has written is determined by the make
  and by the handshakes tried, and until the server has read C2 the wire holds what the
  other side has not yet read of it, also when the complex handshake gives up and the
  simple one starts over with the same C0C1. Lemmas about `HandshakeDigest` say the rest:
  a block written in either schema parses back, for every `BlockSize`, `KeySize` and
  offset; a C1 of schema 1 has nothing where schema 0 looks for its digest, and random
  bytes have none in either. It gives `HandshakesAgree`, for whatever the two sides say
  to each other behind the handshake. HMAC and Diffie-Hellman stay symbolic: that random
  bytes never are a digest is what makes them so.
- **SessionInv** (RtmpSession, SessionOrder): HandshakeInv and, behind it, where both
  sides are. The client is at a place of its script (`Pos`), and `Reached` says what the
  server will wait for when it has heard all before that place (`Mode`). The server waits
  for something earlier (`Waits`: its `todo` is what is left of its calls there), and the
  messages on their way to it lead from the one to the other, each of them one that the
  server takes, answers or drops there (`Chained`). This is what makes the properties
  inductive: that a server waits for `publish` says nothing unless what is on its way
  brings it there. On the way back (`Answering`) are answers to requests the client
  remembers, of the kind it can decode, and media only to a player that is past its last
  `expect_message`. Of the media (`Arrived`), what has been read, with what is queued in
  `Context::msgs`, is the parts of a first few of those sent, and those on their way are
  the next. SessionInv gives `FailuresOfHandshakesOnly`, `ServedAsMeantAlways` and `MediaJoinedAlways`, for
  every set of orderly makes of any length, every medium and every number of them. That
  an aggregate and nothing else has parts is how the code tells them apart by type; a
  time that went back within an aggregate would make `srs_rtmp_on_aggregate` choose its
  distance anew (srs_librtmp.cpp:873), and FLV tags, which aggregates carry, are in
  order of their times.
- **LinkInv** (TsLink): every packet on the way, and the one that arrived, is sound, and
  the messages in the cache have sizes and times that are numbers and a stream id of
  their kind. The packets of a message come from a recursive function
  of the byte to cut from. `CutExists` shows, from the end of the message backwards,
  that this function exists: every round takes at least a byte, as the headers never
  fill a packet longer than 40 bytes. `CutSound` then shows of each round what
  `FilledUp` says of one packet: when less is left than the room, `padding` fills
  it, also when a single byte has to be made up for and the adaptation field made for it
  costs one of the data. `TimeIsTold` is about the times: what is written of them in 33
  bits is read back as the remainder, and `ClockIsBehind` bounds what the mask of the clock
  drops. It gives `PacketsSoundAlways`, for frames, times, caches and
  codecs of every kind, and wherever a write fails.
- **Induction over sequences.** The theorems of the library about induction take an
  operator and cannot be used, but `WFMin` on the finite subsets of the numbers can: a
  set of numbers that has 0, and with each number the next, has them all (`Counting`). It
  gives what `Reached` and `FlattenSeq` compute for scripts and lists of any length
  (`ReachedIs`, `FlatIs`), what a cached frame adds to its message (`AppendedIs`), and the
  packets of a message.

Only model-checked: the delivery that `ImplementsChannel` promises under fairness, all
of `packets` and `flv`, of `ts` what the decoder makes of the packets (`DeliveredEntire`,
`FramesInOrder`, `OnlyHitAreLost`), and everything temporal (`ArrivesIfRepeated`,
`EveryGetServed`, `EveryStreamEnds`, `EveryoneGetsThere`, `EverySessionSettles`).
Liveness under fairness and ENABLED are out of the prover's reach, and so is what rests
on a RECURSIVE operator: the writers and readers of AMF0 values, lists of FLV tags, and
NALUs behind lengths.

## 6. Observations

What modelling showed of the code, beyond the finding of `camera_abort`. The
models have all of it; the properties are stated around it.

Chunks and buffer
- Acknowledgements are ahead of what was read by the 3073 bytes of the handshake, which
  `srs_hijack_io_read_fully` counts twice: the first window is over that much early, and a
  peer is told of bytes it may not have sent.
- The reader acknowledges when *more* than a window has come, and only at the end of a
  message; a peer that waits at the window without slack gets nothing.
- With a peer that does not repeat the extended timestamp, the guess needs four
  bytes that may not come: the last message stays unread.
- An extended timestamp of format 1 or 2 is a delta and is stored as the time.
- The assertion `nb_exists_bytes < nb_buffer` (srs_protocol_buffer.cpp:163) comes before
  the overflow error it makes unreachable: a full buffer aborts.

Sessions
- The parts of an aggregate keep the stream ids they carry (srs_librtmp.cpp:898), whatever
  that of the message: FLV tags carry 0.
- A client of the complex handshake built without `SRS_AUTO_SSL`, and one that asks for
  encryption, are the only ones to fail.

Packets
- `_error` answers never decode, and `CallRes` has no class at the receiver;
  `onStatus` and `onBWDone` are read as calls; data of `onStatus` and `|RtmpSampleAccess`
  is dropped; the data of a bandwidth packet is read only for `stopPlay`, `startPublish`
  and `finished`.
- Texts of 32768 bytes or more are read as empty; the count of an ecma array is
  written as 0 unless it was read; an object may end with the stream.

MPEG-TS
- The mask of the clock reference (`0x1FFFFFFFF000000`) drops its low 9 bits: the clock is
  up to 511 ticks behind.
- `pure_audio` is always false when encoding, so that an audio-only stream has no clock
  reference; when decoding it is asked at the PAT and not at the PMT.
- A PAT or PMT whose write fails is not written again; the next frame reaches an assertion
  on the channel. A full audio cache without video aborts, or flushes the video that is there.
- The checksum of a table is verified after its programs are applied.
- A PES packet of one packet that is repeated is delivered twice. Behind a lost
  packet of a message of unknown length, packets 0 to 14 are taken for late ones and 15
  goes on with the message.
- AAC that is cached when MP3 comes is sent in one message with it.

FLV and codecs
- `SrsFileWriter::write` puts everything to stdout and never fails: every file that is
  opened for writing stays empty. The recorder makes an FLV file only by a redirect
  of its stdout, and only when `-o` names a file that it can open: without `-o` it
  writes nothing (srs_rtmp_dump.c:233), where its usage says stdout (:156). The
  injecter puts an empty file in the place of its output, or of its input, and says that
  it is complete.
- The trace behind the last tag of a recording that ended well is a tag header to a
  reader, with a length that the file does not have: the injecter gives up on such a file,
  and the ingester ends with an error in place of the end.
- `do_inject_flv` asks the closed reader of its output for a place: every place of a key
  frame in the tag that it prints is 14 short.
- The injecter takes a file with a key frame and without metadata to a NULL array;
  it drops video with the time of the video before it. The recorder's `is_I_frame` is
  never reset.
- A first NALU with a length of 1, or of 256 to 511, is taken for a start code; once
  `Ibmf` was found, annexb is never tried again.
- `lengthSizeMinusOne` of 2 is an error and stays set; the next NALU reaches an assertion.
- `srs_avc_nalu_read_uev` weighs bits other than its comment (srs_kernel_utility.cpp:63):
  sizes above four macroblocks may be wrong.
- The AAC sequence header is sent once and never again when the configuration changes.
- `SrsFileReader::read` takes a short read for a success.

Publisher and service
- `stop.py` whose `ps` comes between `ps` and fork of `start.py` leaves the new camera
  process to nobody.
- A camera that has stalled answers YES until its limit, from what it printed before.
- `sleep(1)` (iroom.py:38) is all that keeps the handler from looking ahead of the shell
  that empties the log (start.py:31); a slow `start.py` gives YES from an old log.
- Two requests for a camera may fork it twice. The second process truncates the log, the
  first one writes to it and ends, and the second need not stream: a third request finds
  it running and is answered YES from what the first has left. This takes three requests;
  a proof of `YesStaysCurrent` found it, and the run has two.

## 7. Not modelled

`PROJECT.json` names each part with its reason.

- Nothing in the repository calls the HTTP mux, `SrsKbps`, the RTSP and RTP classes,
  `SrsMessageArray` and the copies of shared messages, or the seeking of
  `SrsFlvVodStreamDecoder`: they belong to the server srs-librtmp is cut from.
- The on-demand conversion is one `ffmpeg` call; the alarm receiver prints; the encoders
  of `.aac` and `.mp3` files write headers in a row; `main` of camera2hls is straight.
- The TCP gateway `srs_h264_raw_publish.c`; the
  numbers the bandwidth test measures; timeouts of the socket layer, which reads ignore; logging;
  third-party headers.

## 8. Plan

Theorems: the frames of TsLink, `FramesInOrder` before `DeliveredEntire`, from the packets
that `TsLinkProofs` knows to be sound; with `Counting`, the lists of FlvPipe once their
readers are recursive functions.

Models: the gateway with `H264Publish`, whose client may leave inside a frame;
the HTTP mux, `SrsKbps` and RTP reassembly, once something calls them.
