------------------------------ MODULE SendIovs ------------------------------
(***************************************************************************)
(* SrsProtocol::send_and_free_messages and do_send_messages                *)
(* (srs_rtmp_stack.cpp): a batch of messages is described by pairs of      *)
(* iovecs, a chunk header in the cache c0c3 and a piece of payload, and    *)
(* written with writev in groups of at most IovLimit iovecs.  When the     *)
(* cache is dry, or the batch ends, what is described is written and the   *)
(* cache is used again from its start.  A header takes a byte of the cache *)
(* per token.  The kernel takes one iovec after the other; a writev that   *)
(* has written anything when the connection breaks counts as a success     *)
(* (srs_hijack_io_writev); the socket blocks, so that only a connection    *)
(* that breaks makes it write a part.                                      *)
(***************************************************************************)
EXTENDS ChunkWire

CONSTANTS
    Batches,      \* what the caller may send at once: sequences of Outgoing
    Outgoing,     \* messages: [cid, type, sid, ts, size, value]
    StreamId,     \* the stream they are sent on
    MaxMessages,  \* bound: messages sent in a behaviour
    HeadersMax,   \* SRS_CONSTS_C0C3_HEADERS_MAX
    MaxFmt0,      \* SRS_CONSTS_RTMP_MAX_FMT0_HEADER_SIZE
    IovsMax,      \* SRS_CONSTS_IOVS_MAX
    IovLimit      \* sysconf(_SC_IOV_MAX)

ASSUME SendAssumption ==
    /\ MaxFmt0 = 2 + ExtWidth /\ HeadersMax \in Nat /\ HeadersMax >= MaxFmt0
    /\ IovsMax \in Nat /\ IovsMax >= 2 /\ IovsMax % 2 = 0
    /\ IovLimit \in Nat \ {0}
    /\ DefaultChunkSize > 0 /\ MaxMessages \in Nat

(***************************************************************************)
(* Shared messages are audio, video or data of 1 to MaxLength bytes; the   *)
(* chunk size is only changed by packets.                                  *)
(***************************************************************************)
ASSUME OutgoingAssumption ==
    \A m \in Outgoing :
       /\ m.cid \in Cids /\ m.type \in Types \ {"SetChunkSize"} /\ m.sid \in Sids
       /\ m.ts \in 0..(Raw - 1) /\ m.size \in 1..MaxLength
       /\ \A n \in 1..MaxMessages, i \in 1..m.size :
             [k |-> "data", byte |-> [msg |-> n, i |-> i, value |-> m.value]] \in DataToken

WithStream(m) == [m EXCEPT !.sid = StreamId]

\* "we assume that the stream_id in a group must be the same": check().
ASSUME BatchAssumption ==
    \A b \in Batches :
       /\ Len(b) \in Nat /\ DOMAIN b = 1..Len(b)
       /\ \A i \in DOMAIN b :
             /\ b[i].sid = b[1].sid
             /\ b[i].size > 0 =>
                   (IF b[i].sid = StreamId THEN b[i] ELSE WithStream(b[i])) \in Outgoing

VARIABLES
    sent,         \* history: the messages of all calls, without the empty ones
    pos,          \* what is described next: [msg, p], p bytes of it already are
    cache,        \* the headers in out_c0c3_caches, by the place they start at
    cache_index,
    out_iovs,     \* the pairs of iovecs described: [msg, from, len, place]
    nb_out_iovs,  \* and how many iovecs there is room for
    writev,       \* [from, taken]: iovecs of earlier writevs, those written
    pc,           \* "idle", "describe", "write"; "aborted" behind an assertion
    broken,       \* whether the connection is
    rets,         \* history: [ret, upto] of the calls that send, upto in sent
    out           \* history: [n, left, header] of the message on the wire

sendVars == <<wire, sent, pos, cache, cache_index, out_iovs, nb_out_iovs, writev, pc,
              broken, rets, out>>

\* ChunkWriter, which writes a chunk at a time: a header alone is not written yet.
Writer == INSTANCE ChunkWriter WITH
    wire <- SubSeq(wire, 1, Len(wire) - Len(out.header)),
    sent <- SubSeq(sent, 1, out.n),
    left <- out.left,
    out_chunk_size <- DefaultChunkSize,
    Capacity <- MaxMessages * (MaxLength * (1 + MaxFmt0)) + 1

Init ==
    /\ wire = <<>> /\ sent = <<>> /\ rets = <<>>
    /\ pos = [msg |-> 1, p |-> 0]
    /\ cache = <<>> /\ cache_index = 0
    /\ out_iovs = <<>> /\ nb_out_iovs = IovsMax
    /\ writev = [from |-> 0, taken |-> 0]
    /\ pc = "idle" /\ broken = FALSE
    /\ out = [n |-> 0, left |-> <<>>, header |-> <<>>]

----------------------------------------------------------------------------

\* Mutant: check() changes nothing of a message that has a stream id.
CheckedIfUnset(batch) == [i \in DOMAIN batch |-> IF batch[i].sid = 0
                                                THEN WithStream(batch[i]) ELSE batch[i]]

\* SrsSharedPtrMessage::check for each, until one has the stream id already.
Checked(batch) ==
    [i \in DOMAIN batch |->
        IF \E j \in 1..i : batch[j].sid = StreamId THEN batch[i] ELSE WithStream(batch[i])]

\* place[i] is where the ith message with a payload is in the batch.
Kept(batch, place) ==
    /\ {place[i] : i \in DOMAIN place} = {i \in DOMAIN batch : batch[i].size > 0}
    /\ \A i, j \in DOMAIN place : i < j => place[i] < place[j]

\* A call; NULL and empty messages are ignored, and with nothing else it returns.
SendAndFreeMessages ==
    /\ pc = "idle"
    /\ rets # <<>> => rets[Len(rets)].ret = "success"
    /\ \E b \in Batches : \E n \in 0..Len(b) : \E place \in [1..n -> DOMAIN b] :
          /\ Kept(b, place)
          /\ Len(sent) + n <= MaxMessages
          /\ sent' = sent \o [i \in 1..n |-> Writer!Numbered(Checked(b)[place[i]], Len(sent) + i)]
          /\ pc' = IF n = 0 THEN "idle" ELSE "describe"
    /\ UNCHANGED <<wire, pos, cache, cache_index, out_iovs, nb_out_iovs, writev, broken,
                   rets, out>>

\* chunk_header at a place of the cache: what is there is overwritten.
WithHeader(place, header) ==
    LET over == {o \in DOMAIN cache : o < place + Len(header) /\ place < o + Len(cache[o])}
    IN  [o \in (DOMAIN cache \ over) \cup {place} |-> IF o = place THEN header ELSE cache[o]]

Room(index) == IF index >= nb_out_iovs - 2 THEN nb_out_iovs + IovsMax ELSE nb_out_iovs

Dry(index) == HeadersMax - index < MaxFmt0

\* Mutant: the next header is put over the extended timestamp of this one.
NextPlaceWithoutExt(header) == cache_index + Smaller(Len(header), 2)
NextPlace(header) == cache_index + Len(header)

\* The header of the chunk with the payload from p.
Header(m, p) == IF p = 0 THEN Writer!HeaderC0(m) ELSE Writer!HeaderC3(m)

\* One round of the loop over the payload.
DescribeChunk ==
    /\ pc = "describe"
    /\ LET m == sent[pos.msg]
           header == Header(m, pos.p)
           needed == IF pos.p = 0 THEN MaxFmt0 ELSE 1 + ExtWidth
           n == Smaller(DefaultChunkSize, Len(m.data) - pos.p)
           index == NextPlace(header)
       IN  IF HeadersMax - cache_index < needed
           THEN /\ pc' = "aborted"
                /\ UNCHANGED <<cache, cache_index, out_iovs, nb_out_iovs, pos>>
           ELSE /\ cache' = WithHeader(cache_index, header)
                /\ out_iovs' = Append(out_iovs, [msg |-> pos.msg, from |-> pos.p,
                                                len |-> n, place |-> cache_index])
                /\ nb_out_iovs' = Room(2 * Len(out_iovs))
                /\ cache_index' = index
                /\ pos' = IF pos.p + n = Len(m.data) THEN [msg |-> pos.msg + 1, p |-> 0]
                          ELSE [msg |-> pos.msg, p |-> pos.p + n]
                /\ pc' = IF Dry(index) \/ pos'.msg > Len(sent) THEN "write" ELSE "describe"
    /\ UNCHANGED <<wire, sent, writev, broken, rets, out>>

----------------------------------------------------------------------------
(* do_iovs_send, srs_write_large_iovs *)

IovIndex == 2 * Len(out_iovs)

\* Where this writev ends: everything below the limit, else a group of it.
GroupEnd == IF IovIndex < IovLimit THEN IovIndex
            ELSE Smaller(IovIndex, writev.from + IovLimit)

\* The kernel takes the first iovec of a pair, the header ...
TakeHeader(pair) ==
    LET header == IF pair.place \in DOMAIN cache THEN cache[pair.place] ELSE <<>>
    IN  /\ wire' = wire \o header
        /\ out' = [n |-> pair.msg, header |-> header,
                   left |-> IF pair.from = 0 THEN sent[pair.msg].data ELSE out.left]

\* ... and the second one, the payload.
TakePayload(pair) ==
    /\ wire' = wire \o SubSeq(sent[pair.msg].data, pair.from + 1, pair.from + pair.len)
    /\ out' = [n |-> out.n, header |-> <<>>,
               left |-> SubSeq(out.left, pair.len + 1, Len(out.left))]

WriteIov ==
    /\ pc = "write" /\ ~broken
    /\ writev.taken < GroupEnd
    /\ LET pair == out_iovs[writev.taken \div 2 + 1]
       IN  IF writev.taken % 2 = 0 THEN TakeHeader(pair) ELSE TakePayload(pair)
    /\ writev' = [writev EXCEPT !.taken = @ + 1]
    /\ UNCHANGED <<sent, pos, cache, cache_index, out_iovs, nb_out_iovs, pc, broken, rets>>

Returns(ret) == rets' = Append(rets, [ret |-> ret, upto |-> Len(sent)])

\* A writev that has written anything is a success; behind the last group the
\* iovecs and the cache are used again.
WritevReturns ==
    /\ pc = "write"
    /\ writev.taken = GroupEnd \/ (broken /\ writev.taken > writev.from)
    /\ IF GroupEnd < IovIndex
       THEN /\ writev' = [from |-> GroupEnd, taken |-> GroupEnd]
            /\ UNCHANGED <<out_iovs, cache_index, pc, rets>>
       ELSE /\ writev' = [from |-> 0, taken |-> 0]
            /\ out_iovs' = <<>> /\ cache_index' = 0
            /\ IF pos.msg <= Len(sent) THEN pc' = "describe" /\ UNCHANGED rets
               ELSE pc' = "idle" /\ Returns("success")
    /\ UNCHANGED <<wire, sent, pos, cache, nb_out_iovs, broken, out>>

\* Mutant: the result of writev is not looked at.
WritevFailsUnseen ==
    /\ pc = "write" /\ broken
    /\ writev.taken = writev.from
    /\ pc' = "idle" /\ Returns("success")
    /\ UNCHANGED <<wire, sent, pos, cache, cache_index, out_iovs, nb_out_iovs, writev,
                   broken, out>>
WritevFails ==
    /\ pc = "write" /\ broken
    /\ writev.taken = writev.from
    /\ pc' = "idle" /\ Returns("error")
    /\ UNCHANGED <<wire, sent, pos, cache, cache_index, out_iovs, nb_out_iovs, writev,
                   broken, out>>

\* The peer or the network ends the connection.
Break ==
    /\ ~broken /\ broken' = TRUE
    /\ UNCHANGED <<wire, sent, pos, cache, cache_index, out_iovs, nb_out_iovs, writev, pc,
                   rets, out>>

Next == SendAndFreeMessages \/ DescribeChunk \/ WriteIov \/ WritevReturns \/ WritevFails
        \/ Break

Spec == Init /\ [][Next]_sendVars

----------------------------------------------------------------------------

(***************************************************************************)
(* What is described fits the array and the cache, so that the assertion   *)
(* of do_send_messages never fails, and no header is overwritten before it *)
(* is written: each iovec not yet taken still points to the header of its  *)
(* chunk, when the cache is used again and when a batch needs it several   *)
(* times.                                                                  *)
(***************************************************************************)
CacheHolds ==
    /\ pc # "aborted"
    /\ IovIndex <= nb_out_iovs
    /\ \A o \in DOMAIN cache : o + Len(cache[o]) <= HeadersMax
    /\ \A i \in DOMAIN out_iovs :
           2 * i - 1 > writev.taken =>
              /\ out_iovs[i].place \in DOMAIN cache
              /\ cache[out_iovs[i].place] = Header(sent[out_iovs[i].msg], out_iovs[i].from)

(***************************************************************************)
(* What batches put on the wire is what the chunk writer puts there: every *)
(* chunk of every message once and in order, each message on the stream    *)
(* of the call, however the batch is cut into writevs and wherever the     *)
(* connection breaks.                                                      *)
(***************************************************************************)
ImplementsWriter ==
    /\ Writer!WriterInit /\ wire = <<>>
    /\ [][Writer!Send]_<<Writer!writerVars, SubSeq(wire, 1, Len(wire) - Len(out.header))>>

\* The first upto messages are on the wire, entire.
Written(upto) == out.n >= upto /\ (out.n = upto => out.left = <<>>)

(***************************************************************************)
(* A call that returns success has written all its messages, but for the   *)
(* last one that does before the connection is found broken: of the loss   *)
(* in a writev that counts as a success, the next call tells.              *)
(***************************************************************************)
ReportedIsWritten ==
    \A i \in DOMAIN rets :
       /\ rets[i].ret = "success"
       /\ ~broken \/ \E j \in DOMAIN rets : j > i /\ rets[j].ret = "success"
       => Written(rets[i].upto)
=============================================================================
