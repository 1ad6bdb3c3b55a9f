---------------------------- MODULE ChunkReader ----------------------------
(***************************************************************************)
(* The receiving half of SrsProtocol (srs_rtmp_stack.cpp): the bytes of a  *)
(* TCP connection are read into in_buffer, cut into RTMP chunks, the       *)
(* chunks of the interleaved chunk streams are joined into messages, and   *)
(* every entire message goes through the hook on_recv_message before       *)
(* recv_message gives it to the caller.                                    *)
(*                                                                         *)
(* Nothing is assumed of the wire: Feed puts any token on it.              *)
(***************************************************************************)
EXTENDS ChunkWire

CONSTANTS
    ControlSize,      \* bytes the decoder of a control packet requires
    AutoResponse,     \* auto_response_when_recv
    HandshakeBytes    \* bytes of the handshake a side reads, 3073 in the code

ASSUME ReaderAssumption ==
    /\ ControlSize \in Nat /\ AutoResponse \in BOOLEAN
    /\ HandshakeBytes \in Nat

VARIABLES
    in_buffer,      \* SrsFastBuffer: bytes read from the socket, not parsed
    recv_bytes,     \* skt->get_recv_bytes()
    read_bytes,     \* history: the bytes of the connection that were read
    chunks,         \* chunk_streams / cs_cache: the SrsChunkStream of each cid
    cur,            \* locals of recv_interlaced_message: fmt, cid, first chunk?
    msg,            \* the entire message recv_message holds, for the hook
    pc,             \* where recv_message stands
    in_chunk_size,
    in_ack_size,    \* [window, acked] : AckWindowSize
    queue,          \* manual_response_queue
    responses,      \* acks and ping responses written to the socket
    delivered       \* messages recv_message returned

stream == <<wire, in_buffer, recv_bytes, read_bytes>>
control == <<in_chunk_size, in_ack_size, queue, responses>>
readerVars == <<wire, in_buffer, recv_bytes, read_bytes, chunks, cur, msg, pc,
                in_chunk_size, in_ack_size, queue, responses, delivered>>

Chunk == [fresh : BOOLEAN,          \* msg_count = 0
          extended : BOOLEAN,       \* extended_timestamp
          delta : 0..Extended,      \* header.timestamp_delta
          ts : 0..(Mask + Extended), len : 0..MaxLength,
          type : Types, sid : Sids,  \* header
          open : BOOLEAN,           \* msg # NULL
          alloc : Nat \cup {NULL},  \* bytes of msg->payload
          data : Seq(Token)]        \* what was copied into msg->payload

\* read: history, read_bytes when the response was made
Response == [kind : {"Ack", "Pong"}, value : Nat, read : Nat]

\* The number an extended timestamp field read at s gives.
ExtValue(s) ==
    IF Head(s).k = "ext" /\ s = ExtField(Head(s).ts) THEN Head(s).ts ELSE Value(Head(s))

----------------------------------------------------------------------------

NewChunk == [fresh |-> TRUE, extended |-> FALSE, delta |-> 0, ts |-> 0, len |-> 0,
             type |-> "Media", sid |-> 0, open |-> FALSE, alloc |-> NULL, data |-> <<>>]

\* The handshake was read with srs_hijack_io_read_fully, which counts the bytes
\* that srs_hijack_io_read has counted already.
ReaderInit ==
    /\ wire = <<>> /\ in_buffer = <<>>
    /\ read_bytes = HandshakeBytes /\ recv_bytes = HandshakeBytes + HandshakeBytes
    /\ chunks = [c \in Cids |-> NewChunk]
    /\ cur = [cid |-> ProtocolControl, fmt |-> 0, first |-> TRUE]
    /\ msg = <<>>
    /\ pc = "basic"
    /\ in_chunk_size = DefaultChunkSize
    /\ in_ack_size = [window |-> 0, acked |-> 0]
    /\ queue = <<>> /\ responses = <<>> /\ delivered = <<>>

\* The peer, or anything else, puts a token on the wire.
Feed == \E t \in Token :
    /\ wire' = Append(wire, t)
    /\ UNCHANGED <<in_buffer, recv_bytes, read_bytes, chunks, cur, msg, pc, control, delivered>>

\* The chunk the current step works on.
This == chunks[cur.cid]

\* Mutant: what was copied already is not counted.
WholePayloadSize == Smaller(This.len, in_chunk_size)

\* read_message_payload: the bytes of the message in this chunk.
PayloadSize == Smaller(This.len - Len(This.data), in_chunk_size)

\* Mutant: a byte more than the chunk has.
RequiredOneMore == CASE pc \in {"basic", "header"} -> 1
                     [] pc = "ext"                 -> ExtWidth
                     [] pc = "payload"             -> PayloadSize + 1
                     [] OTHER                      -> 0

\* The size the pending grow() requires.
Required == CASE pc \in {"basic", "header"} -> 1
              [] pc = "ext"                 -> ExtWidth
              [] pc = "payload"             -> IF This.len = 0 THEN 0 ELSE PayloadSize
              [] OTHER                      -> 0

\* One read() of the loop of grow(): it returns any part of what has arrived.
SocketRead ==
    /\ Len(in_buffer) < Required
    /\ \E n \in 1..Len(wire) :
          /\ in_buffer' = in_buffer \o SubSeq(wire, 1, n)
          /\ wire' = SubSeq(wire, n + 1, Len(wire))
          /\ recv_bytes' = recv_bytes + n
          /\ read_bytes' = read_bytes + n
    /\ UNCHANGED <<chunks, cur, msg, pc, control, delivered>>

\* grow() has returned: what the parser reads is in the buffer.
Grown == Len(in_buffer) >= Required

Consume(n) ==
    /\ in_buffer' = SubSeq(in_buffer, n + 1, Len(in_buffer))
    /\ UNCHANGED <<wire, recv_bytes, read_bytes>>

\* Mutant: the timestamp grows past 31 bits.
CountedUnmasked(c) == [c EXCEPT !.fresh = FALSE]

\* The end of read_message_header: 31 bits of timestamp, the stream not fresh.
Counted(c) == [c EXCEPT !.ts = @ % Mask, !.fresh = FALSE]

\* Mutant: a chunk of fmt 3 never moves the timestamp.
ContinuedNever(c) == c

\* A chunk of fmt 3: a new message repeats the delta of the one before it.
Continued(c) == IF ~c.open /\ ~c.extended THEN [c EXCEPT !.ts = @ + c.delta] ELSE c

\* A fresh stream starts with fmt 0, but for the ping of librtmp; fmt 0 never
\* continues a message.
ChunkStartOk(fmt, cid) ==
    /\ chunks[cid].fresh => fmt = 0 \/ (cid = ProtocolControl /\ fmt = 1)
    /\ chunks[cid].open => fmt # 0

\* read_basic_header, and read_message_header up to its grow().
ReadBasicHeader ==
    /\ pc = "basic" /\ Grown
    /\ Head(in_buffer) \in BasicHeader
    /\ LET fmt == Head(in_buffer).fmt
           cid == Head(in_buffer).cid
           c   == chunks[cid]
       IN  /\ ChunkStartOk(fmt, cid)
           /\ cur' = [cid |-> cid, fmt |-> fmt, first |-> ~c.open]
           /\ \/ /\ fmt <= 2
                 /\ pc' = "header"
                 /\ chunks' = [chunks EXCEPT ![cid].open = TRUE]
              \/ /\ fmt = 3 /\ c.extended
                 /\ pc' = "ext"
                 /\ chunks' = [chunks EXCEPT ![cid].open = TRUE]
              \/ /\ fmt = 3 /\ ~c.extended
                 /\ pc' = "payload"
                 /\ chunks' = [chunks EXCEPT ![cid] =
                                  [Counted(Continued(c)) EXCEPT !.open = TRUE]]
    /\ Consume(1)
    /\ UNCHANGED <<msg, control, delivered>>

\* ERROR_RTMP_CHUNK_START: recv_message returns the error.
RejectChunkStart ==
    /\ pc = "basic" /\ Grown
    /\ Head(in_buffer) \in BasicHeader
    /\ ~ChunkStartOk(Head(in_buffer).fmt, Head(in_buffer).cid)
    /\ pc' = "failed"
    /\ Consume(1)
    /\ UNCHANGED <<chunks, cur, msg, control, delivered>>

\* The timestamp field of a fmt 0, 1 or 2 header h.
Timed(c, fmt, h) ==
    LET extended == h.ts >= Extended
    IN  [c EXCEPT !.delta = h.ts,
                  !.extended = extended,
                  !.ts = IF extended THEN @ ELSE IF fmt = 0 THEN h.ts ELSE @ + h.ts]

\* The length, type and stream id fields, as far as the fmt has them.
Described(c, fmt, h) ==
    [c EXCEPT !.len  = IF fmt <= 1 THEN h.len ELSE @,
              !.type = IF fmt <= 1 THEN h.type ELSE @,
              !.sid  = IF fmt = 0 THEN h.sid ELSE @]

\* Mutant: a continued message may change its length.
LengthMayChange(h) == FALSE

\* A continued message cannot change its length.
LengthChanged(h) == cur.fmt <= 1 /\ ~cur.first /\ h.len # This.len

ReadMessageHeader ==
    /\ pc = "header" /\ Grown
    /\ Head(in_buffer) \in MessageHeader
    /\ LET h == Head(in_buffer)
           c == Described(Timed(This, cur.fmt, h), cur.fmt, h)
       IN  /\ ~LengthChanged(h)
           /\ pc' = IF c.extended THEN "ext" ELSE "payload"
           /\ chunks' = [chunks EXCEPT ![cur.cid] = IF c.extended THEN c ELSE Counted(c)]
    /\ Consume(1)
    /\ UNCHANGED <<cur, msg, control, delivered>>

\* ERROR_RTMP_PACKET_SIZE: the timestamp has been changed already.
RejectLengthChange ==
    /\ pc = "header" /\ Grown
    /\ Head(in_buffer) \in MessageHeader
    /\ LengthChanged(Head(in_buffer))
    /\ chunks' = [chunks EXCEPT ![cur.cid] = Timed(This, cur.fmt, Head(in_buffer))]
    /\ pc' = "failed"
    /\ Consume(1)
    /\ UNCHANGED <<cur, msg, control, delivered>>

\* In a continued chunk the field is taken for payload, and given back with
\* skip(-4), when it differs from the timestamp of the message.
ExtAbsent(t) == ~cur.first /\ This.ts > 0 /\ This.ts # t

ReadExtendedTimestamp ==
    /\ pc = "ext" /\ Grown
    /\ LET t == ExtValue(SubSeq(in_buffer, 1, ExtWidth)) % Mask
       IN  \/ /\ ExtAbsent(t)
              /\ chunks' = [chunks EXCEPT ![cur.cid] = Counted(This)]
              /\ Consume(0)
           \/ /\ ~ExtAbsent(t)
              /\ chunks' = [chunks EXCEPT ![cur.cid] = Counted([This EXCEPT !.ts = t])]
              /\ Consume(ExtWidth)
    /\ pc' = "payload"
    /\ UNCHANGED <<cur, msg, control, delivered>>

\* Mutant: the payload of the message stays behind.
ClosedKeepingPayload(c) == [c EXCEPT !.open = FALSE]

\* chunk->msg = NULL, the next chunk of the stream opens a new message.
Closed(c) == [c EXCEPT !.open = FALSE, !.alloc = NULL, !.data = <<>>]

\* recv_message drops an empty message before the hook sees it.
IgnoreEmptyMessage ==
    /\ pc = "payload" /\ This.len = 0
    /\ chunks' = [chunks EXCEPT ![cur.cid] = Closed(@)]
    /\ pc' = "basic"
    /\ UNCHANGED <<stream, cur, msg, control, delivered>>

ReadMessagePayload ==
    /\ pc = "payload" /\ This.len > 0 /\ Grown
    /\ LET data == This.data \o SubSeq(in_buffer, 1, PayloadSize)
       IN  \/ /\ Len(data) = This.len
              /\ msg' = [cid |-> cur.cid, type |-> This.type, sid |-> This.sid,
                         ts |-> This.ts, data |-> data]
              /\ chunks' = [chunks EXCEPT ![cur.cid] = Closed(@)]
              /\ pc' = "hook"
           \/ /\ Len(data) # This.len
              /\ chunks' = [chunks EXCEPT
                     ![cur.cid].data = data,
                     ![cur.cid].alloc = IF @ = NULL THEN This.len ELSE @]
              /\ pc' = "basic"
              /\ UNCHANGED msg
    /\ Consume(PayloadSize)
    /\ UNCHANGED <<cur, control, delivered>>

\* The bytes are not of the kind the parser takes them for: framing is lost,
\* and what the code makes of them is not modelled.
Desynchronize ==
    /\ pc \in {"basic", "header"} /\ Grown
    /\ Head(in_buffer) \notin (IF pc = "basic" THEN BasicHeader ELSE MessageHeader)
    /\ pc' = "desync"
    /\ UNCHANGED <<stream, chunks, cur, msg, control, delivered>>

----------------------------------------------------------------------------
(* on_recv_message *)

\* Mutant: wait for a second window.
AckAfterTwoWindows == /\ in_ack_size.window > 0
                      /\ recv_bytes - in_ack_size.acked > 2 * in_ack_size.window

\* More than a window was received since the last acknowledgement.
AckRequired == /\ in_ack_size.window > 0
               /\ recv_bytes - in_ack_size.acked > in_ack_size.window

DecodeFails == msg.type \in ControlTypes /\ Len(msg.data) < ControlSize

\* The sequence number of an acknowledgement, (int32_t)get_recv_bytes(): the
\* four bytes it is written with hold it modulo 2^32.
Ack == [kind |-> "Ack", value |-> recv_bytes % Raw, read |-> read_bytes]

Pong == [kind |-> "Pong", value |-> Decode(msg.data), read |-> read_bytes]

\* Mutant: a ping is not answered when an acknowledgement is.
AnswersAtMostOne ==
    IF AckRequired THEN <<Ack>>
    ELSE IF msg.type = "Ping" /\ ~DecodeFails THEN <<Pong>> ELSE <<>>

\* What the hook answers: response_acknowledgement_message, then
\* response_ping_message.
Answers == (IF AckRequired THEN <<Ack>> ELSE <<>>)
           \o (IF msg.type = "Ping" /\ ~DecodeFails THEN <<Pong>> ELSE <<>>)

NewWindow == IF /\ msg.type = "WindowAckSize"
                /\ ~DecodeFails
                /\ Decode(msg.data) > 0
             THEN Decode(msg.data) ELSE in_ack_size.window

\* Mutant: acked_size is not moved.
AckedForgotten == in_ack_size.acked

\* acked_size, as response_acknowledgement_message leaves it.
Acked == IF AckRequired THEN recv_bytes ELSE in_ack_size.acked

OnRecvMessage ==
    /\ pc = "hook"
    /\ IF AutoResponse
       THEN responses' = responses \o Answers /\ UNCHANGED queue
       ELSE queue' = queue \o Answers /\ UNCHANGED responses
    /\ in_ack_size' = [window |-> NewWindow, acked |-> Acked]
    /\ in_chunk_size' = IF msg.type = "SetChunkSize" /\ ~DecodeFails
                        THEN Decode(msg.data) ELSE in_chunk_size
    /\ IF DecodeFails
       THEN pc' = "failed" /\ UNCHANGED delivered
       ELSE pc' = "basic" /\ delivered' = Append(delivered, msg)
    /\ msg' = <<>>
    /\ UNCHANGED <<stream, chunks, cur>>

\* manual_response_flush, after the caller has sent something itself.
ManualResponseFlush ==
    /\ queue # <<>>
    /\ responses' = responses \o queue
    /\ queue' = <<>>
    /\ UNCHANGED <<stream, chunks, cur, msg, pc, in_chunk_size, in_ack_size, delivered>>

Receive ==
    \/ SocketRead
    \/ ReadBasicHeader \/ RejectChunkStart
    \/ ReadMessageHeader \/ RejectLengthChange
    \/ ReadExtendedTimestamp
    \/ IgnoreEmptyMessage \/ ReadMessagePayload
    \/ Desynchronize
    \/ OnRecvMessage

ReaderNext == Feed \/ Receive \/ ManualResponseFlush

ReaderSpec == ReaderInit /\ [][ReaderNext]_readerVars

----------------------------------------------------------------------------

\* Every variable has the type of the field it stands for.
ReaderTypeOK ==
    /\ wire \in Seq(Token) /\ in_buffer \in Seq(Token)
    /\ recv_bytes \in Nat /\ read_bytes \in Nat
    /\ chunks \in [Cids -> Chunk]
    /\ cur \in [cid : Cids, fmt : 0..3, first : BOOLEAN]
    /\ pc \in {"basic", "header", "ext", "payload", "hook", "failed", "desync"}
    /\ msg \in (IF pc = "hook" THEN Message ELSE {<<>>})
    /\ in_chunk_size \in Nat
    /\ in_ack_size \in [window : Nat, acked : Nat]
    /\ queue \in Seq(Response) /\ responses \in Seq(Response)
    /\ delivered \in Seq(Message)

(***************************************************************************)
(* The reader never takes one part of a chunk for another and never        *)
(* refuses a chunk, however the reads cut the bytes and however often the  *)
(* chunk size changes.  It is claimed where the peer is a known one:       *)
(* ChunkLink and PeerLink.                                                 *)
(***************************************************************************)
Framing == pc \notin {"desync", "failed"}

\* A message as recv_message gives it: 31 bits of the 32-bit timestamp.
Stamped(m) == [m EXCEPT !.ts = @ % Mask]

(***************************************************************************)
(* Whatever the peer sends, memcpy in read_message_payload never writes    *)
(* past the payload create_payload allocated: what was copied fits the     *)
(* allocation, and so does what the pending copy adds.                     *)
(***************************************************************************)
NoOverrun ==
    /\ \A c \in Cids : chunks[c].alloc # NULL => Len(chunks[c].data) <= chunks[c].alloc
    /\ pc = "payload" /\ This.alloc # NULL
          => Len(This.data) + PayloadSize <= This.alloc

\* A stream with nothing in it yet, or closed, holds no payload; an entire
\* message never waits in a chunk stream for the chunk after it.
NoLingeringMessage ==
    \A c \in Cids :
        /\ ~chunks[c].open => chunks[c].alloc = NULL /\ chunks[c].data = <<>>
        /\ pc \in {"basic", "hook"} /\ chunks[c].open
              => Len(chunks[c].data) < chunks[c].len

\* The answers of the hook, those that still wait for a flush behind those written.
Answered == responses \o queue

(***************************************************************************)
(* Whatever the peer sends, every ping the reader delivered is answered    *)
(* once, with the timestamp it carried and in order, whether the answers   *)
(* go out at once or wait for manual_response_flush: the pings and the     *)
(* answers correspond one to one.                                          *)
(***************************************************************************)
PingsAnswered ==
    LET pings == {i \in DOMAIN delivered : delivered[i].type = "Ping"}
        pongs == {i \in DOMAIN Answered : Answered[i].kind = "Pong"}
    IN  \E answer \in [pings -> pongs] :
           /\ \A j \in pongs : \E i \in pings : answer[i] = j
           /\ \A i \in pings : Answered[answer[i]].value = Decode(delivered[i].data)
           /\ \A i, k \in pings : i < k => answer[i] < answer[k]

(***************************************************************************)
(* Whatever the peer sends, an acknowledgement stands for the bytes read   *)
(* when it was made, and is ahead of them by no more than the handshake,   *)
(* which is counted twice (its 4 bytes wrap at 2^32); every                *)
(* acknowledgement is made of more bytes than the one before it; and the   *)
(* last one is what acked_size remembers, so that the next window counts   *)
(* from it.                                                                *)
(***************************************************************************)
AcksAdvance ==
    LET acks == {i \in DOMAIN Answered : Answered[i].kind = "Ack"}
        read(i) == Answered[i].read
    IN  \A i \in acks :
           /\ Answered[i].value = (read(i) + HandshakeBytes) % Raw
           /\ read(i) <= read_bytes
           /\ \A k \in acks : i < k => read(i) < read(k)
           /\ (\A k \in acks : k <= i) => in_ack_size.acked = read(i) + HandshakeBytes

(***************************************************************************)
(* The inductive invariant behind NoOverrun and NoLingeringMessage.        *)
(***************************************************************************)

\* What create_payload allocated is the length of the header, and the chunks
\* read so far do not fill it.
ChunkOK(c) ==
    /\ ~c.open => c.alloc = NULL
    /\ c.alloc = NULL => c.data = <<>>
    /\ c.alloc # NULL => c.alloc = c.len /\ Len(c.data) < c.len

MidChunk == pc \in {"header", "ext", "payload"}

ReaderInv ==
    /\ ReaderTypeOK
    /\ pc # "failed" => \A c \in Cids : chunks[c].ts < Mask
    /\ \A c \in Cids : ChunkOK(chunks[c])
    \* only the chunk that is read now may be open without a payload
    /\ \A c \in Cids : chunks[c].open /\ chunks[c].alloc = NULL
                           => pc \notin {"basic", "hook"} /\ c = cur.cid
    /\ MidChunk => This.open
    /\ pc = "header" /\ cur.first => This.alloc = NULL
    /\ pc = "hook" => msg.data # <<>>
=============================================================================
