---------------------------- MODULE ChunkWriter ----------------------------
(***************************************************************************)
(* The sending half of SrsProtocol (srs_rtmp_stack.cpp): a message or an   *)
(* encoded packet is cut into chunks of out_chunk_size bytes, the first    *)
(* with a fmt 0 header and the others with a fmt 3 header, and each chunk  *)
(* is written to the socket.  do_send_messages collects the same chunks    *)
(* for one writev, of which the peer may read any part: a batch is a run   *)
(* of WriteChunk steps.                                                    *)
(***************************************************************************)
EXTENDS ChunkWire

CONSTANTS
    Outgoing,     \* what the caller may send: [cid, type, sid, ts, size, value]
    MaxMessages,  \* bound: messages sent in a behaviour
    Capacity      \* bound: tokens the connection holds before write blocks

\* The nth message of a behaviour with the contents m describes.
Numbered(m, n) ==
    [cid |-> m.cid, type |-> m.type, sid |-> m.sid, ts |-> m.ts,
     data |-> [i \in 1..m.size |->
                 [k |-> "data", byte |-> [msg |-> n, i |-> i, value |-> m.value]]]]

(***************************************************************************)
(* Messages have a payload, whose length fits the header, and a timestamp  *)
(* of 32 bits; the chunk size a SetChunkSize message announces is one the  *)
(* writer can go on with.                                                  *)
(***************************************************************************)
ASSUME WriterAssumption ==
    /\ DefaultChunkSize > 0 /\ MaxMessages \in Nat
    /\ \A m \in Outgoing :
          /\ m.cid \in Cids /\ m.type \in Types /\ m.sid \in Sids
          /\ m.ts \in 0..(Raw - 1) /\ m.size \in 1..MaxLength
          /\ \A n \in 1..MaxMessages :
                /\ \A i \in 1..m.size : Numbered(m, n).data[i] \in DataToken
                /\ m.type = "SetChunkSize" => Decode(Numbered(m, n).data) > 0

VARIABLES
    sent,           \* messages handed to the send functions, oldest first
    left,           \* the payload [p, end) of the last one not yet written
    out_chunk_size

writerVars == <<sent, left, out_chunk_size>>

\* The message being written.
Sending == sent[Len(sent)]

WriterInit == sent = <<>> /\ left = <<>> /\ out_chunk_size = DefaultChunkSize

\* Mutant: the threshold itself is sent without an extended timestamp.
HeaderC0AboveThreshold(m) ==
    << [k |-> "basic", fmt |-> 0, cid |-> m.cid],
       [k |-> "head", ts |-> Smaller(m.ts, Extended), len |-> Len(m.data),
        type |-> m.type, sid |-> m.sid] >>
    \o (IF m.ts > Extended THEN ExtField(m.ts) ELSE <<>>)

\* srs_chunk_header_c0.
HeaderC0(m) ==
    << [k |-> "basic", fmt |-> 0, cid |-> m.cid],
       [k |-> "head", ts |-> Smaller(m.ts, Extended), len |-> Len(m.data),
        type |-> m.type, sid |-> m.sid] >>
    \o (IF m.ts >= Extended THEN ExtField(m.ts) ELSE <<>>)

\* srs_chunk_header_c3: the extended timestamp is sent again.
HeaderC3(m) ==
    << [k |-> "basic", fmt |-> 3, cid |-> m.cid] >>
    \o (IF m.ts >= Extended THEN ExtField(m.ts) ELSE <<>>)

\* The caller of send_and_free_packet or send_and_free_messages.
SendMessage ==
    /\ left = <<>> /\ Len(sent) < MaxMessages
    /\ \E m \in Outgoing :
          LET message == Numbered(m, Len(sent) + 1)
          IN  sent' = Append(sent, message) /\ left' = message.data
    /\ UNCHANGED <<wire, out_chunk_size>>

\* on_send_packet, once the whole packet is written.
NewChunkSize == IF Sending.type = "SetChunkSize"
                THEN Decode(Sending.data) ELSE out_chunk_size

\* One round of the loop of do_simple_send or do_send_messages.
WriteChunk ==
    /\ left # <<>> /\ Len(wire) < Capacity
    /\ LET n == Smaller(Len(left), out_chunk_size)
       IN  /\ wire' = wire
                      \o (IF Len(left) = Len(Sending.data)
                          THEN HeaderC0(Sending) ELSE HeaderC3(Sending))
                      \o SubSeq(left, 1, n)
           /\ left' = SubSeq(left, n + 1, Len(left))
           /\ out_chunk_size' = IF n = Len(left) THEN NewChunkSize ELSE out_chunk_size
    /\ UNCHANGED sent

Send == SendMessage \/ WriteChunk
=============================================================================
