------------------------------ MODULE PeerLink -----------------------------
(***************************************************************************)
(* The reader of SrsProtocol and a peer of another make: flash, FMLE, FMS, *)
(* ffmpeg or librtmp, as the comments of srs_rtmp_stack.cpp describe them. *)
(* Unlike the writer of SrsProtocol such a peer interleaves the chunks of  *)
(* several chunk streams, compresses the message header with fmt 1, 2 and  *)
(* 3, and may leave the extended timestamp out of the chunks that continue *)
(* a message.                                                              *)
(***************************************************************************)
EXTENDS ChunkReader

CONSTANTS
    Peers,             \* the makes of peers, see Make
    MaxMessages,       \* bound: messages sent in a behaviour
    Capacity           \* bound: tokens the connection holds before write blocks

(***************************************************************************)
(* What tells the peers apart:                                             *)
(*   outgoing  what it may send: [cid, type, sid, ts, size, value]         *)
(*   repeats   continued chunks repeat the extended timestamp              *)
(*   deltas    it sends deltas above Extended with fmt 1 and 2             *)
(*   waits     it waits for acknowledgements of what it sent ...           *)
(*   slack     ... when it has sent so many bytes beyond the window        *)
(***************************************************************************)
Description == [cid : Cids, type : Types, sid : Sids, ts : Nat, size : 1..MaxLength, value : Nat]
Make == [outgoing : SUBSET Description,
         repeats : BOOLEAN, deltas : BOOLEAN, waits : BOOLEAN, slack : Nat]

\* The nth message of a behaviour with the contents m describes.
Numbered(m, n) ==
    [cid |-> m.cid, type |-> m.type, sid |-> m.sid, ts |-> m.ts,
     data |-> [i \in 1..m.size |->
                 [k |-> "data", byte |-> [msg |-> n, i |-> i, value |-> m.value]]]]

(***************************************************************************)
(* Acknowledgements and pings are answered at once; the queue is in        *)
(* ChunkLink.  A control packet is what its decoder requires, and the      *)
(* chunk size a peer announces is one it can go on with.                   *)
(***************************************************************************)
ASSUME PeerAssumption ==
    /\ AutoResponse /\ DefaultChunkSize > 0 /\ MaxMessages \in Nat
    /\ \A p \in Peers : p \in Make
    /\ \A p \in Peers : \A d \in p.outgoing :
          /\ d.ts < Raw
          /\ d.type \in ControlTypes => d.size >= ControlSize
          /\ \A n \in 1..MaxMessages :
                /\ \A i \in 1..d.size : Numbered(d, n).data[i] \in DataToken
                /\ d.type = "SetChunkSize" => Decode(Numbered(d, n).data) > 0

VARIABLES
    peer,              \* the make of this one
    sent,              \* messages the peer has begun to send, oldest first
    tx,                \* per chunk stream, what the peer keeps of it
    peer_chunk_size

peerVars == <<peer, sent, tx, peer_chunk_size>>
linkVars == <<readerVars, peerVars>>

\* m: the last message begun; left: what is not written of it; field: its
\* timestamp or delta; ext: whether the field was extended.
Fresh == [fresh |-> TRUE, m |-> <<>>, left |-> <<>>, field |-> 0, ext |-> FALSE]

Init ==
    /\ ReaderInit
    /\ peer \in Peers
    /\ sent = <<>>
    /\ tx = [c \in Cids |-> Fresh]
    /\ peer_chunk_size = DefaultChunkSize

Delta(t, m) == m.ts - t.m.ts

\* The formats the protocol allows for a message after what stream t carried: fmt 1
\* has no message stream id.
Allowed(t, m) ==
    IF t.fresh THEN {0} \cup (IF m.cid = ProtocolControl /\ m.sid = 0 THEN {1} ELSE {})
    ELSE {0} \cup
         (IF /\ m.sid = t.m.sid
             /\ Delta(t, m) >= 0
             /\ Delta(t, m) >= Extended => peer.deltas
          THEN {1} \cup
               (IF m.type = t.m.type /\ Len(m.data) = Len(t.m.data)
                THEN {2} \cup (IF ~t.ext /\ Delta(t, m) = t.field THEN {3} ELSE {})
                ELSE {})
          ELSE {})

Field(t, m, fmt) == IF fmt = 0 \/ t.fresh THEN m.ts ELSE Delta(t, m)

Headers(m, fmt, field, repeats) ==
    << [k |-> "basic", fmt |-> fmt, cid |-> m.cid] >>
    \o (IF fmt = 3 THEN <<>>
        ELSE << [k |-> "head", ts |-> Smaller(field, Extended), len |-> Len(m.data),
                 type |-> m.type, sid |-> m.sid] >>)
    \o (IF field >= Extended /\ repeats THEN ExtField(field) ELSE <<>>)

\* Write a chunk of the payload that is left; a SetChunkSize message takes
\* effect when all of it is written.
PutChunk(m, headers, left, field) ==
    LET n == Smaller(Len(left), peer_chunk_size)
    IN  /\ wire' = wire \o headers \o SubSeq(left, 1, n)
        /\ tx' = [tx EXCEPT ![m.cid] =
                     [fresh |-> FALSE, m |-> m, left |-> SubSeq(left, n + 1, Len(left)),
                      field |-> field, ext |-> field >= Extended]]
        /\ peer_chunk_size' = IF n = Len(left) /\ m.type = "SetChunkSize"
                              THEN Decode(m.data) ELSE peer_chunk_size

\* The window the peer has announced, and what the reader has acknowledged: the
\* handshake needs no acknowledgement.
Written(m) == tx[m.cid].m = m => tx[m.cid].left = <<>>
Window == LET announced == SelectSeq(sent, LAMBDA m : m.type = "WindowAckSize" /\ Written(m))
          IN  IF announced = <<>> THEN 0 ELSE Decode(announced[Len(announced)].data)
LastAck == LET acks == SelectSeq(responses, LAMBDA r : r.kind = "Ack")
           IN  IF acks = <<>> THEN HandshakeBytes ELSE acks[Len(acks)].value

\* What the peer has sent, the handshake included, beyond the last acknowledgement:
\* the difference of two numbers of 32 bits, less than 0 when the latter is ahead.
Unacknowledged ==
    LET half == Raw \div 2
    IN  ((read_bytes + Len(wire) - LastAck + half) % Raw) - half

\* The connection takes more, and the peer does not wait for an acknowledgement.
MayWrite == /\ Len(wire) < Capacity
            /\ \/ ~peer.waits \/ Window = 0
               \/ Unacknowledged < Window + peer.slack

\* The peer begins a message on a stream that has none open; one that waits for
\* acknowledgements first announces its window.
PeerStart ==
    /\ Len(sent) < MaxMessages /\ MayWrite
    /\ \E d \in peer.outgoing :
          LET m == Numbered(d, Len(sent) + 1)
              t == tx[m.cid]
          IN  /\ t.left = <<>>
              /\ peer.waits /\ Window = 0 => m.type = "WindowAckSize"
              /\ sent' = Append(sent, m)
              /\ \E fmt \in Allowed(t, m) :
                    PutChunk(m, Headers(m, fmt, Field(t, m, fmt), TRUE),
                             m.data, Field(t, m, fmt))
    /\ UNCHANGED peer

\* The peer writes the next chunk of an open message.
PeerContinue ==
    /\ MayWrite
    /\ \E c \in Cids :
          LET t == tx[c]
          IN  /\ t.left # <<>>
              /\ PutChunk(t.m, Headers(t.m, 3, t.field, peer.repeats), t.left, t.field)
    /\ UNCHANGED <<peer, sent>>

readerOnly == <<in_buffer, recv_bytes, read_bytes, chunks, cur, msg, pc, control, delivered>>

Reader == Receive /\ UNCHANGED peerVars

Next ==
    \/ Reader
    \/ PeerStart /\ UNCHANGED readerOnly
    \/ PeerContinue /\ UNCHANGED readerOnly

(***************************************************************************)
(* The caller of recv_message calls it again and again, and the peer       *)
(* writes what it has begun.  Nobody has to begin a message.               *)
(***************************************************************************)
Spec == /\ Init /\ [][Next]_linkVars
        /\ WF_linkVars(Reader)
        /\ WF_linkVars(PeerContinue /\ UNCHANGED readerOnly)

----------------------------------------------------------------------------

(***************************************************************************)
(* On each chunk stream the messages are delivered in the order the peer   *)
(* began them, entire and with their timestamps, however their chunks were *)
(* interleaved with those of other streams and their headers compressed.   *)
(***************************************************************************)
StreamsInOrder ==
    \A c \in Cids :
        LET in  == {i \in DOMAIN delivered : delivered[i].cid = c}
            out == {j \in DOMAIN sent : sent[j].cid = c}
        IN  \E origin \in [in -> out] :
               /\ \A i \in in : delivered[i] = Stamped(sent[origin[i]])
               /\ \A i, k \in in : i < k => origin[i] < origin[k]
               /\ \A i \in in, j \in out : j < origin[i] => \E k \in in : origin[k] = j

\* Every message the peer has begun is delivered: again and again nothing that
\* was begun is missing.
EveryMessageArrives == []<>(Len(delivered) = Len(sent))

\* It is so with a peer that repeats extended timestamps, as Adobe's do, also when
\* it waits for acknowledgements but for a message of slack.
ArrivesIfRepeated == peer.repeats => EveryMessageArrives
=============================================================================
