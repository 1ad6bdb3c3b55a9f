------------------------- MODULE ChunkReaderProofs -------------------------
(***************************************************************************)
(* Proofs about ChunkReader: its type invariant, and that no payload copy  *)
(* leaves its allocation, for every wire and every value of the constants. *)
(***************************************************************************)
EXTENDS ChunkReader, SequenceTheorems, TLAPS

(***************************************************************************)
(* Sequences.                                                              *)
(***************************************************************************)

\* A part of a sequence is a sequence of the same elements.
LEMMA PartOfSeq ==
    ASSUME NEW S, NEW s \in Seq(S), NEW m \in Nat \ {0}, NEW n \in Int, n <= Len(s)
    PROVE  /\ SubSeq(s, m, n) \in Seq(S)
           /\ Len(SubSeq(s, m, n)) = IF m <= n THEN n - m + 1 ELSE 0
<1>1. \A i \in m..n : s[i] \in S
    BY ElementOfSeq, LenProperties
<1> QED BY <1>1, SubSeqProperties

\* What is behind the first k elements of a sequence.
LEMMA Suffix ==
    ASSUME NEW S, NEW s \in Seq(S), NEW k \in Nat, k <= Len(s)
    PROVE  /\ SubSeq(s, k + 1, Len(s)) \in Seq(S)
           /\ Len(SubSeq(s, k + 1, Len(s))) = Len(s) - k
           /\ \A i \in 1..(Len(s) - k) : SubSeq(s, k + 1, Len(s))[i] = s[i + k]
OBVIOUS

\* The first k elements of a sequence.
LEMMA Prefix ==
    ASSUME NEW S, NEW s \in Seq(S), NEW k \in Nat, k <= Len(s)
    PROVE  /\ SubSeq(s, 1, k) \in Seq(S) /\ Len(SubSeq(s, 1, k)) = k
           /\ \A i \in 1..k : SubSeq(s, 1, k)[i] = s[i]
OBVIOUS

\* A number above a is a and something.
LEMMA Above ==
    ASSUME NEW a \in Nat, NEW n \in Nat, NEW i \in Int, i > a, i <= a + n
    PROVE  \E j \in 1..n : i = a + j
<1>1. i - a \in 1..n
    OBVIOUS
<1>2. i = a + (i - a)
    OBVIOUS
<1> QED BY <1>1, <1>2

\* Two sequences one behind the other, element by element.
LEMMA ConcatElements ==
    ASSUME NEW S, NEW s \in Seq(S), NEW t \in Seq(S)
    PROVE  /\ s \o t \in Seq(S) /\ Len(s \o t) = Len(s) + Len(t)
           /\ Len(s) \in Nat /\ Len(t) \in Nat
           /\ \A i \in 1..Len(s) : (s \o t)[i] = s[i]
           /\ \A i \in 1..Len(t) : (s \o t)[Len(s) + i] = t[i]
OBVIOUS

\* Three sequences of tokens one behind the other.
LEMMA ThreeParts ==
    ASSUME NEW s \in Seq(Token), NEW t \in Seq(Token), NEW u \in Seq(Token)
    PROVE  (s \o t) \o u = s \o (t \o u)
BY ConcatAssociative

\* What is behind the first k elements of what is behind the first p.
LEMMA SuffixOfSuffix ==
    ASSUME NEW S, NEW s \in Seq(S), NEW p \in Nat, NEW k \in Nat, p + k <= Len(s),
           NEW t, t = SubSeq(s, p + 1, Len(s))
    PROVE  SubSeq(t, k + 1, Len(t)) = SubSeq(s, (p + k) + 1, Len(s))
<1>1. Len(s) \in Nat /\ p <= Len(s) /\ p + k \in Nat
    BY LenProperties
<1>2. /\ t \in Seq(S) /\ Len(t) = Len(s) - p
      /\ \A i \in 1..(Len(s) - p) : t[i] = s[i + p]
    BY <1>1, Suffix
<1>3. PICK a : a = SubSeq(t, k + 1, Len(t))
    OBVIOUS
<1>4. PICK b : b = SubSeq(s, (p + k) + 1, Len(s))
    OBVIOUS
<1>5. k <= Len(t)
    BY <1>1, <1>2
<1>6. /\ a \in Seq(S) /\ Len(a) = Len(t) - k
      /\ \A i \in 1..(Len(t) - k) : a[i] = t[i + k]
    BY <1>2, <1>3, <1>5, Suffix
<1>7. /\ b \in Seq(S) /\ Len(b) = Len(s) - (p + k)
      /\ \A i \in 1..(Len(s) - (p + k)) : b[i] = s[i + (p + k)]
    BY <1>1, <1>4, Suffix
<1>8. Len(a) = Len(b)
    BY <1>1, <1>2, <1>6, <1>7
<1>9. ASSUME NEW i \in 1..Len(a) PROVE a[i] = b[i]
  <2>1. i \in 1..(Len(t) - k) /\ i \in 1..(Len(s) - (p + k))
    BY <1>6, <1>7, <1>8
  <2>2. PICK j : j = i + k
    OBVIOUS
  <2>3. j \in 1..(Len(s) - p) /\ j + p = i + (p + k)
    BY <1>1, <2>1, <2>2
  <2>4. a[i] = t[j]
    BY <1>6, <2>1, <2>2
  <2>5. t[j] = s[j + p]
    BY <1>2, <2>3
  <2>6. b[i] = s[i + (p + k)]
    BY <1>7, <2>1
  <2> QED BY <2>3, <2>4, <2>5, <2>6
<1> QED BY <1>3, <1>4, <1>6, <1>7, <1>8, <1>9, SeqEqual

\* What is behind the first p elements of a sequence.
Drop(s, p) == SubSeq(s, p + 1, Len(s))

\* What is behind the first k of those is behind the first p + k of the sequence.
LEMMA DropTwice ==
    ASSUME NEW S, NEW s \in Seq(S), NEW p \in Nat, NEW k \in Nat, p + k <= Len(s)
    PROVE  Drop(Drop(s, p), k) = Drop(s, p + k)
<1>1. PICK t : t = SubSeq(s, p + 1, Len(s))
    OBVIOUS
<1>2. SubSeq(t, k + 1, Len(t)) = SubSeq(s, (p + k) + 1, Len(s))
    BY <1>1, SuffixOfSuffix
<1> QED BY <1>1, <1>2 DEF Drop

\* What stands between the writer and the parser.
Stream == in_buffer \o wire

\* What stands between the writer and the parser begins with what was read.
LEMMA StreamType ==
    ASSUME in_buffer \in Seq(Token), wire \in Seq(Token)
    PROVE  /\ Stream \in Seq(Token)
           /\ Len(in_buffer) \in Nat /\ Len(wire) \in Nat
           /\ Len(Stream) = Len(in_buffer) + Len(wire)
           /\ \A i \in 1..Len(in_buffer) : Stream[i] = in_buffer[i]
           /\ \A i \in 1..Len(wire) : Stream[Len(in_buffer) + i] = wire[i]
<1>1. \A i \in 1..Len(wire) : Stream[Len(in_buffer) + i] = wire[i]
    BY ConcatElements DEF Stream
<1>2. \A i \in 1..Len(in_buffer) : Stream[i] = in_buffer[i]
    BY ConcatElements DEF Stream
<1> QED BY <1>1, <1>2, ConcatElements DEF Stream

\* Parsing k tokens takes them off the front of the stream.
LEMMA StreamConsumed ==
    ASSUME in_buffer \in Seq(Token), wire \in Seq(Token),
           NEW k \in Nat, k <= Len(in_buffer), Consume(k)
    PROVE  /\ Len(Stream') = Len(Stream) - k
           /\ \A i \in 1..(Len(Stream) - k) : Stream'[i] = Stream[i + k]
<1>1. /\ in_buffer' = SubSeq(in_buffer, k + 1, Len(in_buffer)) /\ wire' = wire
      /\ Len(in_buffer) \in Nat /\ Len(wire) \in Nat
    BY StreamType DEF Consume
<1>3. /\ in_buffer' \in Seq(Token) /\ Len(in_buffer') = Len(in_buffer) - k
      /\ \A i \in 1..(Len(in_buffer) - k) : in_buffer'[i] = in_buffer[i + k]
    BY <1>1, Suffix
<1>4. wire' \in Seq(Token)
    BY <1>1
<1>5. Stream' = in_buffer' \o wire'
    BY DEF Stream
<1>6. Len(Stream') = Len(in_buffer') + Len(wire')
    BY <1>3, <1>4, <1>5, ConcatElements
<1>7. Len(Stream) = Len(in_buffer) + Len(wire)
    BY StreamType
<1>8. Len(Stream') = Len(Stream) - k
    BY <1>1, <1>3, <1>6, <1>7
<1>9. ASSUME NEW i \in 1..(Len(Stream) - k) PROVE Stream'[i] = Stream[i + k]
  <2>1. CASE i <= Len(in_buffer) - k
    <3>1. i \in 1..(Len(in_buffer) - k)
        BY <1>1, <2>1
    <3>2. i + k \in 1..Len(in_buffer)
        BY <1>1, <3>1
    <3>3. Stream'[i] = in_buffer'[i]
        BY <1>3, <1>4, <1>5, <3>1, ConcatElements
    <3>4. in_buffer'[i] = in_buffer[i + k]
        BY <1>3, <3>1
    <3>5. Stream[i + k] = in_buffer[i + k]
        BY <3>2, StreamType
    <3> QED BY <3>3, <3>4, <3>5
  <2>2. CASE i > Len(in_buffer) - k
    <3>1. /\ Len(in_buffer) - k \in Nat /\ i \in Int
          /\ i <= (Len(in_buffer) - k) + Len(wire)
        BY <1>1, <1>7
    <3>2. PICK j \in 1..Len(wire) : i = (Len(in_buffer) - k) + j
        BY <1>1, <2>2, <3>1, Above
    <3>3. i + k = Len(in_buffer) + j
        BY <1>1, <3>2
    <3>4. Stream'[Len(in_buffer') + j] = wire'[j]
      <4>1. j \in 1..Len(wire')
        BY <1>1, <3>2
      <4>2. \A x \in 1..Len(wire') : (in_buffer' \o wire')[Len(in_buffer') + x] = wire'[x]
        BY <1>3, <1>4, ConcatElements
      <4> QED BY <1>5, <4>1, <4>2
    <3>5. Stream[Len(in_buffer) + j] = wire[j]
        BY <3>2, StreamType
    <3> QED BY <1>1, <1>3, <3>2, <3>3, <3>4, <3>5
  <2> QED BY <1>1, <2>1, <2>2
<1> QED BY <1>8, <1>9

\* read() moves bytes from the wire to the buffer, the stream stays.
LEMMA StreamRead ==
    ASSUME in_buffer \in Seq(Token), wire \in Seq(Token), SocketRead
    PROVE  Stream' = Stream
<1>1. PICK n \in 1..Len(wire) :
          /\ in_buffer' = in_buffer \o SubSeq(wire, 1, n)
          /\ wire' = SubSeq(wire, n + 1, Len(wire))
    BY DEF SocketRead
<1> DEFINE a == SubSeq(wire, 1, n)
           b == SubSeq(wire, n + 1, Len(wire))
<1>2. Len(wire) \in Nat
    BY LenProperties
<1>3. a \o b = SubSeq(wire, 1, Len(wire))
  <2>1. 1 \in 1..(Len(wire) + 1) /\ n \in (1 - 1)..Len(wire) /\ Len(wire) \in n..Len(wire)
    BY <1>2
  <2> QED BY <2>1, ConcatAdjacentSubSeq
<1>4. a \in Seq(Token) /\ b \in Seq(Token)
    BY <1>2, PartOfSeq
<1>5. a \o b = wire
    BY <1>3, SubSeqFull
<1>6. Stream' = (in_buffer \o a) \o b
    BY <1>1 DEF Stream
<1> HIDE DEF a, b
<1>7. (in_buffer \o a) \o b = in_buffer \o (a \o b)
    BY <1>4, ThreeParts
<1> QED BY <1>5, <1>6, <1>7 DEF Stream

\* What is consumed leaves a buffer of tokens.
LEMMA ConsumeType ==
    ASSUME in_buffer \in Seq(Token), NEW n \in Nat, n <= Len(in_buffer), Consume(n)
    PROVE  in_buffer' \in Seq(Token)
<1>1. Len(in_buffer) \in Nat
    BY LenProperties
<1>2. n + 1 \in Nat \ {0} /\ Len(in_buffer) \in Int
    BY <1>1
<1> QED BY <1>2, PartOfSeq DEF Consume

\* The parsed head of a buffer is a token.
LEMMA HeadToken ==
    ASSUME in_buffer \in Seq(Token), Len(in_buffer) >= 1
    PROVE  Head(in_buffer) \in Token
<1>1. in_buffer # <<>>
    BY EmptySeq
<1> QED BY <1>1, HeadTailProperties

(***************************************************************************)
(* The operators on chunk streams keep their type.                         *)
(***************************************************************************)

\* A chunk stream whose timestamp is not yet reduced to 31 bits.
WideChunk == [fresh : BOOLEAN, extended : BOOLEAN, delta : 0..Extended, ts : Nat,
              len : 0..MaxLength, type : Types, sid : Sids, open : BOOLEAN,
              alloc : Nat \cup {NULL}, data : Seq(Token)]

\* d has the message of c: its length, its payload, and whether it is open.
SameMessage(c, d) ==
    d.len = c.len /\ d.alloc = c.alloc /\ d.data = c.data /\ d.open = c.open

\* Every chunk stream is one whose timestamp need not be reduced.
LEMMA ChunkIsWide == Chunk \subseteq WideChunk
<1>1. 0..(Mask + Extended) \subseteq Nat
    BY WireAssumption
<1> QED BY <1>1 DEF Chunk, WideChunk

\* The end of a header leaves 31 bits of timestamp.
LEMMA CountedType ==
    ASSUME NEW c \in WideChunk
    PROVE  Counted(c) \in Chunk /\ Counted(c).ts < Mask /\ SameMessage(c, Counted(c))
<1>1. c.ts % Mask \in 0..(Mask - 1)
    BY WireAssumption DEF WideChunk
<1>2. c.ts % Mask \in 0..(Mask + Extended)
    BY <1>1, WireAssumption
<1>3. Counted(c) \in Chunk
    BY <1>2 DEF Counted, Chunk, WideChunk
<1>4. Counted(c).ts < Mask
    BY <1>1, WireAssumption DEF Counted, WideChunk
<1>5. SameMessage(c, Counted(c))
    BY DEF Counted, SameMessage, WideChunk
<1> QED BY <1>3, <1>4, <1>5

\* A chunk of fmt 3 leaves everything but the timestamp alone.
LEMMA ContinuedType ==
    ASSUME NEW c \in Chunk
    PROVE  Continued(c) \in WideChunk /\ SameMessage(c, Continued(c))
<1>1. c \in WideChunk
    BY ChunkIsWide
<1>2. c.ts + c.delta \in Nat
    BY <1>1, WireAssumption DEF WideChunk
<1>3. CASE ~c.open /\ ~c.extended
  <2>1. Continued(c) = [c EXCEPT !.ts = c.ts + c.delta]
    BY <1>3 DEF Continued
  <2>2. Continued(c) \in WideChunk
    BY <1>1, <1>2, <2>1 DEF WideChunk
  <2>3. SameMessage(c, Continued(c))
    BY <1>1, <2>1 DEF WideChunk, SameMessage
  <2> QED BY <2>2, <2>3
<1>4. CASE c.open \/ c.extended
    BY <1>1, <1>4 DEF Continued, SameMessage
<1> QED BY <1>3, <1>4

\* The timestamp field of a message header.
LEMMA TimedType ==
    ASSUME NEW c \in Chunk, NEW fmt \in 0..3, NEW h \in MessageHeader, c.ts < Mask
    PROVE  /\ Timed(c, fmt, h) \in Chunk
           /\ Timed(c, fmt, h).extended => Timed(c, fmt, h).ts = c.ts
           /\ SameMessage(c, Timed(c, fmt, h))
<1>1. h.ts \in 0..Extended
    BY DEF MessageHeader
<1> DEFINE late == h.ts >= Extended
           ts == IF late THEN c.ts ELSE IF fmt = 0 THEN h.ts ELSE c.ts + h.ts
<1>2. ts \in 0..(Mask + Extended) /\ (late => ts = c.ts)
    BY <1>1, WireAssumption DEF Chunk
<1>3. Timed(c, fmt, h) = [c EXCEPT !.delta = h.ts, !.extended = late, !.ts = ts]
    BY Zenon DEF Timed
<1>4. late \in BOOLEAN
    OBVIOUS
<1> HIDE DEF late, ts
<1>5. Timed(c, fmt, h) \in Chunk
    BY <1>1, <1>2, <1>3, <1>4 DEF Chunk
<1>6. Timed(c, fmt, h).extended = late /\ Timed(c, fmt, h).ts = ts
    BY <1>3 DEF Chunk
<1>7. SameMessage(c, Timed(c, fmt, h))
    BY <1>3 DEF Chunk, SameMessage
<1> QED BY <1>2, <1>5, <1>6, <1>7

\* The other fields of a message header.
LEMMA DescribedType ==
    ASSUME NEW c \in Chunk, NEW fmt \in 0..3, NEW h \in MessageHeader
    PROVE  LET d == Described(c, fmt, h)
           IN  /\ d \in Chunk /\ d.ts = c.ts /\ d.extended = c.extended
               /\ d.alloc = c.alloc /\ d.data = c.data /\ d.open = c.open
               /\ d.len = IF fmt <= 1 THEN h.len ELSE c.len
<1>1. h.len \in 0..MaxLength /\ h.type \in Types /\ h.sid \in Sids
    BY DEF MessageHeader
<1> QED BY <1>1 DEF Described, Chunk

\* It has the fields of a chunk stream, whatever their values.
HasFields(c) ==
    c = [fresh |-> c.fresh, extended |-> c.extended, delta |-> c.delta, ts |-> c.ts,
         len |-> c.len, type |-> c.type, sid |-> c.sid, open |-> c.open,
         alloc |-> c.alloc, data |-> c.data]

\* The end of a header, field by field.
LEMMA CountedFields ==
    ASSUME NEW c, HasFields(c)
    PROVE  /\ Counted(c).fresh = FALSE /\ Counted(c).extended = c.extended
           /\ Counted(c).delta = c.delta
           /\ Counted(c).ts = c.ts % Mask /\ Counted(c).len = c.len
           /\ Counted(c).type = c.type /\ Counted(c).sid = c.sid
           /\ Counted(c).open = c.open /\ Counted(c).data = c.data
<1>1. PICK r : r = c.ts % Mask
    OBVIOUS
<1>2. Counted(c) = [c EXCEPT !.ts = r, !.fresh = FALSE]
    BY <1>1 DEF Counted
<1>3. c = [fresh |-> c.fresh, extended |-> c.extended, delta |-> c.delta, ts |-> c.ts,
           len |-> c.len, type |-> c.type, sid |-> c.sid, open |-> c.open,
           alloc |-> c.alloc, data |-> c.data]
    BY DEF HasFields
<1> QED BY <1>1, <1>2, <1>3

\* An extended timestamp field takes ExtWidth tokens.
LEMMA ExtFieldType ==
    ASSUME NEW t \in 0..(Raw - 1)
    PROVE  /\ ExtField(t) \in Seq(Token) /\ Len(ExtField(t)) = ExtWidth
           /\ \A i \in 1..ExtWidth : ExtField(t)[i] = [k |-> "ext", ts |-> t, i |-> i]
<1>1. \A i \in 1..ExtWidth : [k |-> "ext", ts |-> t, i |-> i] \in Token
    BY DEF Token, ExtToken
<1> QED BY <1>1, WireAssumption DEF ExtField

(***************************************************************************)
(* The inductive invariant.                                                *)
(***************************************************************************)

\* The chunk streams and buffers SrsProtocol is constructed with.
LEMMA InvInit == ReaderInit => ReaderInv
<1> SUFFICES ASSUME ReaderInit PROVE ReaderInv
    OBVIOUS
<1>1. NewChunk \in Chunk
    BY WireAssumption, EmptySeq DEF NewChunk, Chunk, Types, ControlTypes, NULL
<1>2. NewChunk.ts < Mask /\ ChunkOK(NewChunk) /\ ~NewChunk.open
    BY WireAssumption DEF NewChunk, ChunkOK, NULL
<1>3. ReaderTypeOK
  <2>1. chunks \in [Cids -> Chunk]
    BY <1>1 DEF ReaderInit
  <2>2. cur \in [cid : Cids, fmt : 0..3, first : BOOLEAN]
    BY WireAssumption DEF ReaderInit
  <2>3. /\ in_chunk_size \in Nat /\ in_ack_size \in [window : Nat, acked : Nat]
        /\ recv_bytes \in Nat /\ read_bytes \in Nat /\ pc = "basic" /\ msg = <<>>
    BY WireAssumption, ReaderAssumption DEF ReaderInit
  <2>4. /\ wire \in Seq(Token) /\ in_buffer \in Seq(Token)
        /\ queue \in Seq(Response) /\ responses \in Seq(Response)
        /\ delivered \in Seq(Message)
    BY EmptySeq DEF ReaderInit
  <2> QED BY <2>1, <2>2, <2>3, <2>4 DEF ReaderTypeOK
<1>4. pc = "basic"
    BY DEF ReaderInit
<1>5. \A c \in Cids : chunks[c] = NewChunk
    BY DEF ReaderInit
<1> QED BY <1>2, <1>3, <1>4, <1>5 DEF ReaderInv, MidChunk

\* One chunk stream is replaced by another chunk stream.
LEMMA OneChunk ==
    ASSUME chunks \in [Cids -> Chunk], NEW x \in Cids, NEW d \in Chunk,
           chunks' = [chunks EXCEPT ![x] = d]
    PROVE  /\ chunks' \in [Cids -> Chunk]
           /\ chunks'[x] = d
           /\ \A c \in Cids : c # x => chunks'[c] = chunks[c]
OBVIOUS

\* The peer only adds to the wire.
LEMMA FeedInv == ReaderInv /\ Feed => ReaderInv'
<1> SUFFICES ASSUME ReaderInv, Feed PROVE ReaderInv'
    OBVIOUS
<1>1. wire' \in Seq(Token)
    BY AppendProperties DEF Feed, ReaderInv, ReaderTypeOK
<1> QED BY <1>1 DEF Feed, ReaderInv, ReaderTypeOK, MidChunk, This, control

\* A wire that grows is nothing to the reader yet.
LEMMA WireGrown ==
    ASSUME ReaderInv, wire' \in Seq(Token),
           UNCHANGED <<in_buffer, recv_bytes, read_bytes, chunks, cur, msg, pc,
                       control, delivered>>
    PROVE  ReaderInv'
BY DEF ReaderInv, ReaderTypeOK, MidChunk, This, control

\* A read() of grow() only moves bytes from the wire to the buffer.
LEMMA SocketReadInv == ReaderInv /\ SocketRead => ReaderInv'
<1> SUFFICES ASSUME ReaderInv, SocketRead PROVE ReaderInv'
    OBVIOUS
<1>1. PICK n \in 1..Len(wire) :
          /\ in_buffer' = in_buffer \o SubSeq(wire, 1, n)
          /\ wire' = SubSeq(wire, n + 1, Len(wire))
          /\ recv_bytes' = recv_bytes + n /\ read_bytes' = read_bytes + n
    BY DEF SocketRead
<1>2. wire \in Seq(Token) /\ in_buffer \in Seq(Token) /\ Len(wire) \in Nat
    BY LenProperties DEF ReaderInv, ReaderTypeOK
<1>3. SubSeq(wire, 1, n) \in Seq(Token)
    BY <1>2, PartOfSeq
<1>4. in_buffer' \in Seq(Token)
    BY <1>1, <1>2, <1>3, ConcatProperties
<1>5. n + 1 \in Nat \ {0}
    BY <1>2
<1>6. wire' \in Seq(Token)
    BY <1>1, <1>2, <1>5, PartOfSeq
<1>7. recv_bytes' \in Nat /\ read_bytes' \in Nat
    BY <1>1, <1>2 DEF ReaderInv, ReaderTypeOK
<1> QED BY <1>4, <1>6, <1>7
        DEF SocketRead, ReaderInv, ReaderTypeOK, MidChunk, This, control

\* The flush moves the queued responses to the socket.
LEMMA FlushInv == ReaderInv /\ ManualResponseFlush => ReaderInv'
<1> SUFFICES ASSUME ReaderInv, ManualResponseFlush PROVE ReaderInv'
    OBVIOUS
<1>1. responses' \in Seq(Response) /\ queue' \in Seq(Response)
    BY ConcatProperties, EmptySeq DEF ManualResponseFlush, ReaderInv, ReaderTypeOK
<1> QED BY <1>1 DEF ManualResponseFlush, ReaderInv, ReaderTypeOK, MidChunk, This, stream

\* read_basic_header, and read_message_header up to its grow().
LEMMA BasicHeaderInv == ReaderInv /\ ReadBasicHeader => ReaderInv'
<1> SUFFICES ASSUME ReaderInv, ReadBasicHeader PROVE ReaderInv'
    OBVIOUS
<1> DEFINE fmt == Head(in_buffer).fmt
           cid == Head(in_buffer).cid
           c   == chunks[cid]
           n   == Counted(Continued(c))
<1>1. fmt \in 0..3 /\ cid \in Cids
    BY DEF ReadBasicHeader, BasicHeader
<1>2. c \in Chunk /\ chunks \in [Cids -> Chunk] /\ ChunkOK(c) /\ c.ts < Mask
    BY <1>1 DEF ReaderInv, ReaderTypeOK, ReadBasicHeader
<1>3. in_buffer' \in Seq(Token)
    BY ConsumeType DEF ReadBasicHeader, Grown, Required, ReaderInv, ReaderTypeOK
<1>4. cur' = [cid |-> cid, fmt |-> fmt, first |-> ~c.open]
    BY DEF ReadBasicHeader
<1>5. c.open => c.alloc # NULL
    BY <1>1, <1>2 DEF ReaderInv, ReadBasicHeader
<1>6. PICK d : /\ d \in Chunk /\ d.ts < Mask /\ SameMessage(c, d)
               /\ chunks' = [chunks EXCEPT ![cid] = [d EXCEPT !.open = TRUE]]
               /\ pc' \in {"header", "ext", "payload"}
  <2>1. CASE pc' = "payload"
    <3>1. chunks' = [chunks EXCEPT ![cid] = [n EXCEPT !.open = TRUE]]
        BY <2>1 DEF ReadBasicHeader
    <3>2. n \in Chunk /\ n.ts < Mask /\ SameMessage(c, n)
        BY <1>2, ContinuedType, CountedType DEF SameMessage
    <3> QED BY <2>1, <3>1, <3>2
  <2>2. CASE pc' # "payload"
    <3>1. chunks' = [chunks EXCEPT ![cid].open = TRUE] /\ pc' \in {"header", "ext"}
        BY <2>2 DEF ReadBasicHeader
    <3>2. chunks' = [chunks EXCEPT ![cid] = [c EXCEPT !.open = TRUE]]
        BY <3>1, <1>1, <1>2
    <3> QED BY <1>2, <3>1, <3>2 DEF SameMessage
  <2> QED BY <2>1, <2>2
<1> DEFINE e == [d EXCEPT !.open = TRUE]
<1>7. /\ e \in Chunk /\ e.ts < Mask /\ e.open
      /\ e.len = c.len /\ e.alloc = c.alloc /\ e.data = c.data
    BY <1>6 DEF Chunk, SameMessage
<1> HIDE DEF e, c
<1>8. /\ chunks' \in [Cids -> Chunk] /\ chunks'[cid] = e
      /\ \A x \in Cids : x # cid => chunks'[x] = chunks[x]
    BY <1>1, <1>2, <1>6, <1>7, OneChunk DEF e
<1>9. ReaderTypeOK'
  <2>1. cur' \in [cid : Cids, fmt : 0..3, first : BOOLEAN]
    BY <1>1, <1>2, <1>4 DEF Chunk
  <2>2. msg' = <<>>
    BY DEF ReadBasicHeader, ReaderInv, ReaderTypeOK
  <2> QED BY <1>3, <1>6, <1>8, <2>1, <2>2
          DEF ReadBasicHeader, ReaderInv, ReaderTypeOK, Consume, control
<1>10. \A x \in Cids : chunks'[x].ts < Mask
    BY <1>7, <1>8 DEF ReaderInv, ReadBasicHeader
<1>11. \A x \in Cids : ChunkOK(chunks'[x])
  <2>1. ChunkOK(e)
    BY <1>2, <1>7 DEF ChunkOK
  <2> QED BY <1>8, <2>1 DEF ReaderInv
<1>12. \A x \in Cids : chunks'[x].open /\ chunks'[x].alloc = NULL => x = cid
    BY <1>8 DEF ReaderInv, ReadBasicHeader
<1>13. pc' = "header" /\ cur'.first => chunks'[cid].alloc = NULL
    BY <1>2, <1>4, <1>7, <1>8 DEF ChunkOK
<1> QED BY <1>4, <1>6, <1>7, <1>8, <1>9, <1>10, <1>11, <1>12, <1>13
        DEF ReaderInv, MidChunk, This

\* A refused first chunk leaves the chunk streams as they were.
LEMMA RejectChunkStartInv == ReaderInv /\ RejectChunkStart => ReaderInv'
<1> SUFFICES ASSUME ReaderInv, RejectChunkStart PROVE ReaderInv'
    OBVIOUS
<1>1. in_buffer' \in Seq(Token)
    BY ConsumeType DEF RejectChunkStart, Grown, Required, ReaderInv, ReaderTypeOK
<1>2. msg' = <<>>
    BY DEF RejectChunkStart, ReaderInv, ReaderTypeOK
<1>3. \A x \in Cids : ~(chunks[x].open /\ chunks[x].alloc = NULL)
    BY DEF RejectChunkStart, ReaderInv
<1> QED BY <1>1, <1>2, <1>3
        DEF RejectChunkStart, ReaderInv, ReaderTypeOK, MidChunk, This, Consume, control

\* The message header: the payload of a continued message keeps its length.
LEMMA MessageHeaderInv == ReaderInv /\ ReadMessageHeader => ReaderInv'
<1> SUFFICES ASSUME ReaderInv, ReadMessageHeader PROVE ReaderInv'
    OBVIOUS
<1> DEFINE h == Head(in_buffer)
           t == Timed(This, cur.fmt, h)
           d == Described(t, cur.fmt, h)
<1>1. /\ h \in MessageHeader /\ cur.cid \in Cids /\ cur.fmt \in 0..3
      /\ chunks \in [Cids -> Chunk]
    BY DEF ReadMessageHeader, ReaderInv, ReaderTypeOK
<1>2. This \in Chunk /\ ChunkOK(This) /\ This.ts < Mask /\ This.open
    BY <1>1 DEF ReadMessageHeader, ReaderInv, This, MidChunk
<1>3. t \in Chunk /\ (t.extended => t.ts = This.ts) /\ SameMessage(This, t)
    BY <1>1, <1>2, TimedType
<1>4. /\ d \in Chunk /\ d.ts = t.ts /\ d.extended = t.extended
      /\ d.alloc = This.alloc /\ d.data = This.data /\ d.open
      /\ d.len = IF cur.fmt <= 1 THEN h.len ELSE This.len
  <2> HIDE DEF t, d
  <2>1. /\ d \in Chunk /\ d.ts = t.ts /\ d.extended = t.extended
        /\ d.alloc = t.alloc /\ d.data = t.data /\ d.open = t.open
        /\ d.len = IF cur.fmt <= 1 THEN h.len ELSE t.len
    BY <1>1, <1>3, DescribedType DEF d
  <2> QED BY <1>2, <1>3, <2>1 DEF SameMessage
<1>5. This.alloc # NULL => d.len = This.len
    BY <1>1, <1>4 DEF ReadMessageHeader, LengthChanged, ReaderInv
<1>6. PICK e : /\ e \in Chunk /\ e.ts < Mask /\ SameMessage(d, e)
               /\ chunks' = [chunks EXCEPT ![cur.cid] = e]
               /\ pc' \in {"ext", "payload"}
  <2>1. CASE d.extended
    BY <1>2, <1>3, <1>4, <2>1 DEF ReadMessageHeader, SameMessage
  <2>2. CASE ~d.extended
    <3>1. Counted(d) \in Chunk /\ Counted(d).ts < Mask /\ SameMessage(d, Counted(d))
        BY <1>4, ChunkIsWide, CountedType
    <3> QED BY <2>2, <3>1 DEF ReadMessageHeader
  <2> QED BY <2>1, <2>2
<1>7. e.len = d.len /\ e.alloc = This.alloc /\ e.data = This.data /\ e.open
    BY <1>4, <1>6 DEF SameMessage
<1> HIDE DEF h, t, d
<1>8. /\ chunks' \in [Cids -> Chunk] /\ chunks'[cur.cid] = e
      /\ \A x \in Cids : x # cur.cid => chunks'[x] = chunks[x]
    BY <1>1, <1>6, OneChunk
<1>9. ReaderTypeOK'
  <2>1. in_buffer' \in Seq(Token)
    BY ConsumeType DEF ReadMessageHeader, Grown, Required, ReaderInv, ReaderTypeOK
  <2>2. msg' = <<>>
    BY DEF ReadMessageHeader, ReaderInv, ReaderTypeOK
  <2> QED BY <1>6, <1>8, <2>1, <2>2
          DEF ReadMessageHeader, ReaderInv, ReaderTypeOK, Consume, control
<1>10. \A x \in Cids : chunks'[x].ts < Mask
    BY <1>6, <1>8 DEF ReaderInv, ReadMessageHeader
<1>11. \A x \in Cids : ChunkOK(chunks'[x])
  <2>1. ChunkOK(e)
    BY <1>2, <1>5, <1>7 DEF ChunkOK
  <2> QED BY <1>8, <2>1 DEF ReaderInv
<1>12. \A x \in Cids : chunks'[x].open /\ chunks'[x].alloc = NULL => x = cur.cid
    BY <1>8 DEF ReaderInv
<1>13. cur' = cur
    BY DEF ReadMessageHeader
<1> QED BY <1>6, <1>7, <1>8, <1>9, <1>10, <1>11, <1>12, <1>13
        DEF ReaderInv, MidChunk, This

\* A refused length leaves the length and the payload as they were.
LEMMA RejectLengthChangeInv == ReaderInv /\ RejectLengthChange => ReaderInv'
<1> SUFFICES ASSUME ReaderInv, RejectLengthChange PROVE ReaderInv'
    OBVIOUS
<1> DEFINE t == Timed(This, cur.fmt, Head(in_buffer))
<1>1. /\ Head(in_buffer) \in MessageHeader /\ cur.cid \in Cids /\ cur.fmt \in 0..3
      /\ chunks \in [Cids -> Chunk] /\ This \in Chunk /\ ChunkOK(This)
      /\ This.ts < Mask
    BY DEF RejectLengthChange, ReaderInv, ReaderTypeOK, This
<1>2. t \in Chunk /\ SameMessage(This, t)
    BY <1>1, TimedType
<1> HIDE DEF t
<1>3. chunks' = [chunks EXCEPT ![cur.cid] = t]
    BY DEF RejectLengthChange, t
<1>4. /\ chunks' \in [Cids -> Chunk] /\ chunks'[cur.cid] = t
      /\ \A x \in Cids : x # cur.cid => chunks'[x] = chunks[x]
    BY <1>1, <1>2, <1>3, OneChunk
<1>5. in_buffer' \in Seq(Token)
    BY ConsumeType DEF RejectLengthChange, Grown, Required, ReaderInv, ReaderTypeOK
<1>6. msg' = <<>> /\ cur' = cur /\ pc' = "failed"
    BY DEF RejectLengthChange, ReaderInv, ReaderTypeOK
<1>7. ReaderTypeOK'
    BY <1>4, <1>5, <1>6
       DEF RejectLengthChange, ReaderInv, ReaderTypeOK, Consume, control
<1>8. \A x \in Cids : ChunkOK(chunks'[x])
    BY <1>1, <1>2, <1>4 DEF ReaderInv, ChunkOK, SameMessage
<1>9. \A x \in Cids : chunks'[x].open /\ chunks'[x].alloc = NULL => x = cur.cid
    BY <1>4 DEF ReaderInv
<1> QED BY <1>6, <1>7, <1>8, <1>9 DEF ReaderInv, MidChunk, This

\* What an extended timestamp is read from gives a number.
LEMMA ExtValueType ==
    ASSUME NEW s \in Seq(Token), Len(s) >= 1
    PROVE  ExtValue(s) \in Nat
<1>1. Head(s) \in Token
    BY EmptySeq, HeadTailProperties
<1>2. CASE Head(s).k = "ext" /\ s = ExtField(Head(s).ts)
  <2>1. Head(s) \in ExtToken
    BY <1>1, <1>2 DEF Token, BasicHeader, MessageHeader, DataToken
  <2>2. Head(s).ts \in Nat
    BY <2>1, WireAssumption DEF ExtToken
  <2> QED BY <1>2, <2>2 DEF ExtValue
<1>3. CASE ~(Head(s).k = "ext" /\ s = ExtField(Head(s).ts))
    BY <1>1, <1>3, ValueAssumption DEF ExtValue
<1> QED BY <1>2, <1>3

\* The step that reads, or gives back, an extended timestamp.
LEMMA ExtendedTimestampInv == ReaderInv /\ ReadExtendedTimestamp => ReaderInv'
<1> SUFFICES ASSUME ReaderInv, ReadExtendedTimestamp PROVE ReaderInv'
    OBVIOUS
<1> DEFINE s == SubSeq(in_buffer, 1, ExtWidth)
           t == ExtValue(s) % Mask
<1>1. /\ pc = "ext" /\ pc' = "payload" /\ cur.cid \in Cids
      /\ chunks \in [Cids -> Chunk] /\ in_buffer \in Seq(Token)
      /\ ExtWidth <= Len(in_buffer) /\ ExtWidth \in Nat \ {0}
      /\ cur' = cur /\ msg' = <<>>
    BY WireAssumption
       DEF ReadExtendedTimestamp, Grown, Required, ReaderInv, ReaderTypeOK
<1>2. This \in Chunk /\ ChunkOK(This) /\ This.open
    BY <1>1 DEF ReaderInv, This, MidChunk
<1>3. t \in Nat
  <2>1. s \in Seq(Token) /\ Len(s) >= 1
    BY <1>1, PartOfSeq
  <2>2. ExtValue(s) \in Nat
    BY <2>1, ExtValueType
  <2> QED BY <2>2, WireAssumption
<1>4. in_buffer' \in Seq(Token)
  <2>1. Consume(0) \/ Consume(ExtWidth)
    BY DEF ReadExtendedTimestamp
  <2>2. Len(in_buffer) >= 0
    BY <1>1
  <2> QED BY <1>1, <2>1, <2>2, ConsumeType
<1> HIDE DEF t
<1>5. PICK e : /\ e \in Chunk /\ e.ts < Mask /\ SameMessage(This, e)
               /\ chunks' = [chunks EXCEPT ![cur.cid] = e]
  <2>1. This \in WideChunk /\ [This EXCEPT !.ts = t] \in WideChunk
    BY <1>2, <1>3, ChunkIsWide DEF WideChunk
  <2>2. SameMessage(This, [This EXCEPT !.ts = t])
    BY <2>1 DEF SameMessage, WideChunk
  <2>3. CASE chunks' = [chunks EXCEPT ![cur.cid] = Counted(This)]
    BY <2>1, <2>3, CountedType
  <2>4. CASE chunks' = [chunks EXCEPT ![cur.cid] = Counted([This EXCEPT !.ts = t])]
    <3> DEFINE w == [This EXCEPT !.ts = t]
    <3>1. w \in WideChunk /\ SameMessage(This, w)
        BY <2>1, <2>2
    <3> HIDE DEF w
    <3>2. Counted(w) \in Chunk /\ Counted(w).ts < Mask /\ SameMessage(w, Counted(w))
        BY <3>1, CountedType
    <3>3. SameMessage(This, Counted(w))
        BY <3>1, <3>2 DEF SameMessage
    <3> QED BY <2>4, <3>2, <3>3 DEF w
  <2> QED BY <2>3, <2>4 DEF ReadExtendedTimestamp, t
<1>6. /\ chunks' \in [Cids -> Chunk] /\ chunks'[cur.cid] = e
      /\ \A x \in Cids : x # cur.cid => chunks'[x] = chunks[x]
    BY <1>1, <1>5, OneChunk
<1>7. e.len = This.len /\ e.alloc = This.alloc /\ e.data = This.data /\ e.open
    BY <1>2, <1>5 DEF SameMessage
<1>8. ReaderTypeOK'
    BY <1>1, <1>4, <1>6
       DEF ReadExtendedTimestamp, ReaderInv, ReaderTypeOK, Consume, control
<1>9. \A x \in Cids : chunks'[x].ts < Mask
    BY <1>1, <1>5, <1>6 DEF ReaderInv
<1>10. \A x \in Cids : ChunkOK(chunks'[x])
    BY <1>2, <1>6, <1>7 DEF ReaderInv, ChunkOK
<1>11. \A x \in Cids : chunks'[x].open /\ chunks'[x].alloc = NULL => x = cur.cid
    BY <1>6 DEF ReaderInv
<1> QED BY <1>1, <1>6, <1>7, <1>8, <1>9, <1>10, <1>11 DEF ReaderInv, MidChunk, This

(***************************************************************************)
(* The steps that end a chunk.                                             *)
(***************************************************************************)

\* A closed chunk stream holds no message.
LEMMA ClosedType ==
    ASSUME NEW c \in Chunk
    PROVE  Closed(c) \in Chunk /\ Closed(c).ts = c.ts /\ ChunkOK(Closed(c)) /\ ~Closed(c).open
<1>1. Closed(c) \in Chunk
    BY EmptySeq DEF Closed, Chunk
<1>2. /\ Closed(c).ts = c.ts /\ ~Closed(c).open
      /\ Closed(c).alloc = NULL /\ Closed(c).data = <<>>
    BY DEF Closed, Chunk
<1> QED BY <1>1, <1>2 DEF ChunkOK

\* Once the chunk of the current step is closed, no chunk stream is open without
\* a payload.
LEMMA ClosingInv ==
    ASSUME ReaderInv, MidChunk,
           chunks' = [chunks EXCEPT ![cur.cid] = Closed(@)]
    PROVE  /\ chunks' \in [Cids -> Chunk]
           /\ \A x \in Cids : chunks'[x].ts < Mask /\ ChunkOK(chunks'[x])
           /\ \A x \in Cids : ~(chunks'[x].open /\ chunks'[x].alloc = NULL)
<1>1. cur.cid \in Cids /\ chunks \in [Cids -> Chunk]
    BY DEF ReaderInv, ReaderTypeOK
<1> DEFINE c == chunks[cur.cid]
           e == Closed(c)
<1>2. c \in Chunk /\ c.ts < Mask
    BY <1>1 DEF ReaderInv, MidChunk
<1> HIDE DEF c
<1>3. e \in Chunk /\ e.ts < Mask /\ ChunkOK(e) /\ ~e.open
    BY <1>2, ClosedType
<1>4. chunks' = [chunks EXCEPT ![cur.cid] = e]
    BY DEF c
<1> HIDE DEF e
<1>5. /\ chunks' \in [Cids -> Chunk] /\ chunks'[cur.cid] = e
      /\ \A x \in Cids : x # cur.cid => chunks'[x] = chunks[x]
    BY <1>1, <1>3, <1>4, OneChunk
<1> QED BY <1>3, <1>5 DEF ReaderInv, MidChunk

\* The step that drops an empty message.
LEMMA EmptyMessageInv == ReaderInv /\ IgnoreEmptyMessage => ReaderInv'
<1> SUFFICES ASSUME ReaderInv, IgnoreEmptyMessage PROVE ReaderInv'
    OBVIOUS
<1>1. /\ chunks' \in [Cids -> Chunk]
      /\ \A x \in Cids : chunks'[x].ts < Mask /\ ChunkOK(chunks'[x])
      /\ \A x \in Cids : ~(chunks'[x].open /\ chunks'[x].alloc = NULL)
    BY ClosingInv DEF IgnoreEmptyMessage, MidChunk
<1>2. msg' = <<>> /\ pc' = "basic"
    BY DEF IgnoreEmptyMessage, ReaderInv, ReaderTypeOK
<1>3. ReaderTypeOK'
    BY <1>1, <1>2 DEF IgnoreEmptyMessage, ReaderInv, ReaderTypeOK, stream, control
<1> QED BY <1>1, <1>2, <1>3 DEF ReaderInv, MidChunk, This

\* The copy of the current step takes a part of the rest of the message that is
\* in the buffer.
LEMMA PayloadSizeType ==
    ASSUME ReaderInv, pc = "payload", This.len > 0
    PROVE  /\ This \in Chunk /\ cur.cid \in Cids
           /\ Len(This.data) \in Nat /\ This.len \in Nat
           /\ Len(This.data) < This.len
           /\ PayloadSize \in Nat /\ Len(This.data) + PayloadSize <= This.len
           /\ Required = PayloadSize
<1>1. cur.cid \in Cids /\ chunks \in [Cids -> Chunk] /\ in_chunk_size \in Nat
    BY DEF ReaderInv, ReaderTypeOK
<1>2. This \in Chunk /\ ChunkOK(This)
    BY <1>1 DEF ReaderInv, This
<1>3. This.len \in Nat /\ This.data \in Seq(Token)
    BY <1>2, WireAssumption DEF Chunk
<1>4. Len(This.data) \in Nat
    BY <1>3, LenProperties
<1>5. Len(This.data) < This.len
  <2>1. CASE This.alloc = NULL
    <3>1. Len(This.data) = 0
        BY <1>2, <2>1, EmptySeq DEF ChunkOK
    <3> QED BY <3>1
  <2>2. CASE This.alloc # NULL
    BY <1>2, <2>2 DEF ChunkOK
  <2> QED BY <2>1, <2>2
<1>6. PayloadSize \in Nat /\ Len(This.data) + PayloadSize <= This.len
    BY <1>1, <1>3, <1>4, <1>5 DEF PayloadSize, Smaller
<1> QED BY <1>1, <1>2, <1>3, <1>4, <1>5, <1>6 DEF Required

\* The step that copies payload: it ends the message, or it leaves a payload
\* that is not full.
LEMMA PayloadInv == ReaderInv /\ ReadMessagePayload => ReaderInv'
<1> SUFFICES ASSUME ReaderInv, ReadMessagePayload PROVE ReaderInv'
    OBVIOUS
<1> DEFINE part == SubSeq(in_buffer, 1, PayloadSize)
           data == This.data \o part
<1>1. /\ pc = "payload" /\ This.len > 0 /\ cur' = cur
      /\ in_buffer \in Seq(Token) /\ chunks \in [Cids -> Chunk]
    BY DEF ReadMessagePayload, ReaderInv, ReaderTypeOK
<1>2. /\ This \in Chunk /\ cur.cid \in Cids
      /\ Len(This.data) \in Nat /\ This.len \in Nat /\ Len(This.data) < This.len
      /\ PayloadSize \in Nat /\ Len(This.data) + PayloadSize <= This.len
      /\ Required = PayloadSize
    BY <1>1, PayloadSizeType
<1>3. PayloadSize <= Len(in_buffer)
    BY <1>2, LenProperties, <1>1 DEF ReadMessagePayload, Grown
<1>4. part \in Seq(Token) /\ Len(part) = PayloadSize
    BY <1>1, <1>2, <1>3, PartOfSeq
<1>5. data \in Seq(Token) /\ Len(data) = Len(This.data) + PayloadSize
  <2>1. This.data \in Seq(Token)
    BY <1>2 DEF Chunk
  <2> QED BY <1>4, <2>1, ConcatProperties
<1>6. in_buffer' \in Seq(Token)
    BY <1>1, <1>2, <1>3, ConsumeType DEF ReadMessagePayload
<1> HIDE DEF data
<1>7. CASE Len(data) = This.len
  <2>1. /\ msg' = [cid |-> cur.cid, type |-> This.type, sid |-> This.sid,
                   ts |-> This.ts, data |-> data]
        /\ chunks' = [chunks EXCEPT ![cur.cid] = Closed(@)]
        /\ pc' = "hook"
    BY <1>7 DEF ReadMessagePayload, data
  <2>2. /\ chunks' \in [Cids -> Chunk]
        /\ \A x \in Cids : chunks'[x].ts < Mask /\ ChunkOK(chunks'[x])
        /\ \A x \in Cids : ~(chunks'[x].open /\ chunks'[x].alloc = NULL)
    BY <1>1, <2>1, ClosingInv DEF MidChunk
  <2>3. This.ts \in Nat /\ This.type \in Types /\ This.sid \in Sids
    BY <1>2, WireAssumption DEF Chunk
  <2>4. msg' \in Message
    BY <1>2, <1>5, <2>1, <2>3 DEF Message
  <2>5. msg'.data # <<>>
    <3>1. data # <<>>
        BY <1>2, <1>7, EmptySeq
    <3> QED BY <2>1, <3>1
  <2>6. ReaderTypeOK'
    BY <1>1, <1>6, <2>1, <2>2, <2>4
       DEF ReadMessagePayload, ReaderInv, ReaderTypeOK, Consume, control
  <2> QED BY <2>1, <2>2, <2>5, <2>6 DEF ReaderInv, MidChunk
<1>8. CASE Len(data) # This.len
  <2> DEFINE alloc == IF This.alloc = NULL THEN This.len ELSE This.alloc
             e == [This EXCEPT !.data = data, !.alloc = alloc]
  <2>1. alloc = This.len /\ alloc \in Nat /\ alloc # NULL
    BY <1>1, <1>2 DEF ReaderInv, This, ChunkOK, NULL
  <2> HIDE DEF alloc
  <2>2. /\ e \in Chunk /\ e.alloc = This.len /\ e.data = data
        /\ e.len = This.len /\ e.ts = This.ts /\ e.open = This.open
    BY <1>2, <1>5, <2>1 DEF Chunk
  <2>3. chunks' = [chunks EXCEPT ![cur.cid] = e] /\ pc' = "basic" /\ msg' = <<>>
    <3>1. chunks' = [chunks EXCEPT
                        ![cur.cid].data = data,
                        ![cur.cid].alloc = IF @ = NULL THEN This.len ELSE @]
        BY <1>8 DEF ReadMessagePayload, data
    <3>2. chunks' = [chunks EXCEPT ![cur.cid] = e]
        BY <1>1, <1>2, <3>1 DEF alloc, This
    <3>3. pc' = "basic" /\ msg' = <<>>
        BY <1>1, <1>8 DEF ReadMessagePayload, data, ReaderInv, ReaderTypeOK
    <3> QED BY <3>2, <3>3
  <2> HIDE DEF e
  <2>4. /\ chunks' \in [Cids -> Chunk] /\ chunks'[cur.cid] = e
        /\ \A x \in Cids : x # cur.cid => chunks'[x] = chunks[x]
    BY <1>1, <1>2, <2>2, <2>3, OneChunk
  <2>5. ReaderTypeOK'
    BY <1>1, <1>6, <2>3, <2>4
       DEF ReadMessagePayload, ReaderInv, ReaderTypeOK, Consume, control
  <2>6. \A x \in Cids : chunks'[x].ts < Mask
    BY <1>1, <1>2, <2>2, <2>4 DEF ReaderInv, This
  <2>7. ChunkOK(e)
    <3>1. e.open
        BY <1>1, <2>2 DEF ReaderInv, MidChunk
    <3>2. Len(data) < This.len
        BY <1>2, <1>5, <1>8
    <3>3. e.alloc # NULL
        BY <2>1, <2>2
    <3> QED BY <2>2, <3>1, <3>2, <3>3 DEF ChunkOK
  <2>8. \A x \in Cids : ChunkOK(chunks'[x])
    BY <2>4, <2>7 DEF ReaderInv
  <2>9. \A x \in Cids : ~(chunks'[x].open /\ chunks'[x].alloc = NULL)
    BY <2>1, <2>2, <2>4, <1>2 DEF ReaderInv, NULL
  <2> QED BY <2>3, <2>5, <2>6, <2>8, <2>9 DEF ReaderInv, MidChunk
<1> QED BY <1>7, <1>8

\* Losing the framing changes nothing but the program counter.
LEMMA DesynchronizeInv == ReaderInv /\ Desynchronize => ReaderInv'
BY DEF Desynchronize, ReaderInv, ReaderTypeOK, MidChunk, This, stream, control

(***************************************************************************)
(* The hook.                                                               *)
(***************************************************************************)

\* A payload that is not empty decodes to a number.
LEMMA DecodeType ==
    ASSUME NEW data \in Seq(Token), data # <<>>
    PROVE  Decode(data) \in Nat
BY HeadTailProperties, ValueAssumption DEF Decode

\* The hook answers with responses.
LEMMA AnswersType ==
    ASSUME msg \in Message, msg.data # <<>>, recv_bytes \in Nat, read_bytes \in Nat
    PROVE  Answers \in Seq(Response)
<1> DEFINE A == IF AckRequired THEN <<Ack>> ELSE <<>>
           B == IF msg.type = "Ping" /\ ~DecodeFails THEN <<Pong>> ELSE <<>>
<1>1. Ack \in Response
    BY WireAssumption DEF Ack, Response
<1>2. Pong \in Response
  <2>1. Decode(msg.data) \in Nat
    BY DecodeType DEF Message
  <2> QED BY <2>1 DEF Pong, Response
<1>3. <<Ack>> \in Seq(Response) /\ <<Pong>> \in Seq(Response) /\ <<>> \in Seq(Response)
    BY <1>1, <1>2
<1>4. A \in Seq(Response) /\ B \in Seq(Response)
    BY <1>3
<1>5. Answers = A \o B
    BY DEF Answers
<1> HIDE DEF A, B
<1> QED BY <1>4, <1>5, ConcatProperties

\* The step of the hook: on_recv_message.
LEMMA OnRecvMessageInv == ReaderInv /\ OnRecvMessage => ReaderInv'
<1> SUFFICES ASSUME ReaderInv, OnRecvMessage PROVE ReaderInv'
    OBVIOUS
<1>1. /\ pc = "hook" /\ msg \in Message /\ msg.data # <<>>
      /\ recv_bytes \in Nat /\ read_bytes \in Nat
      /\ in_ack_size \in [window : Nat, acked : Nat] /\ in_chunk_size \in Nat
    BY DEF OnRecvMessage, ReaderInv, ReaderTypeOK
<1>2. Answers \in Seq(Response) /\ Decode(msg.data) \in Nat
    BY <1>1, AnswersType, DecodeType DEF Message
<1>3. responses' \in Seq(Response) /\ queue' \in Seq(Response)
  <2>1. queue \in Seq(Response) /\ responses \in Seq(Response)
    BY DEF ReaderInv, ReaderTypeOK
  <2>2. responses \o Answers \in Seq(Response) /\ queue \o Answers \in Seq(Response)
    BY <1>2, <2>1, ConcatProperties
  <2>3. \/ responses' = responses \o Answers /\ queue' = queue
        \/ queue' = queue \o Answers /\ responses' = responses
    BY Zenon DEF OnRecvMessage
  <2> QED BY <2>1, <2>2, <2>3
<1>4. in_ack_size' \in [window : Nat, acked : Nat]
  <2>1. in_ack_size.window \in Nat /\ in_ack_size.acked \in Nat
    BY <1>1
  <2>2. NewWindow \in Nat
    BY <1>2, <2>1 DEF NewWindow
  <2>3. Acked \in Nat
    BY <1>1, <2>1 DEF Acked
  <2> QED BY <2>2, <2>3 DEF OnRecvMessage
<1>5. in_chunk_size' \in Nat
    BY <1>1, <1>2 DEF OnRecvMessage
<1>6. delivered' \in Seq(Message) /\ pc' \in {"basic", "failed"} /\ msg' = <<>>
  <2>1. delivered \in Seq(Message)
    BY DEF ReaderInv, ReaderTypeOK
  <2>2. Append(delivered, msg) \in Seq(Message)
    BY <1>1, <2>1, AppendProperties
  <2>3. delivered' \in {delivered, Append(delivered, msg)} /\ pc' \in {"basic", "failed"}
    BY Zenon DEF OnRecvMessage
  <2>4. msg' = <<>>
    BY Zenon DEF OnRecvMessage
  <2> QED BY <2>1, <2>2, <2>3, <2>4
<1>7. ReaderTypeOK'
    BY <1>3, <1>4, <1>5, <1>6 DEF OnRecvMessage, ReaderInv, ReaderTypeOK, stream
<1> QED BY <1>1, <1>6, <1>7 DEF OnRecvMessage, ReaderInv, MidChunk

(***************************************************************************)
(* The answers.                                                            *)
(***************************************************************************)

Pings(D) == {i \in DOMAIN D : D[i].type = "Ping"}
Pongs(A) == {i \in DOMAIN A : A[i].kind = "Pong"}
Acks(A) == {i \in DOMAIN A : A[i].kind = "Ack"}

\* The pings among the messages D and the pongs among the answers A correspond.
AnsweredBy(D, A) ==
    \E answer \in [Pings(D) -> Pongs(A)] :
        /\ \A j \in Pongs(A) : \E i \in Pings(D) : answer[i] = j
        /\ \A i \in Pings(D) : A[answer[i]].value = Decode(D[i].data)
        /\ \A i, k \in Pings(D) : i < k => answer[i] < answer[k]

\* get_recv_bytes() when n bytes of the connection were read.
Count(n) == n + HandshakeBytes

\* Each acknowledgement covers more than the one before it, the last of them `acked'.
AckedUpTo(A, acked) ==
    \A i \in Acks(A) :
        /\ A[i].value = Count(A[i].read) % Raw
        /\ Count(A[i].read) <= acked
        /\ \A k \in Acks(A) : i < k => A[i].read < A[k].read
        /\ (\A k \in Acks(A) : k <= i) => Count(A[i].read) = acked

\* What is answered so far is right, and nothing waits for a flush that is not to.
AnswersInv ==
    /\ AutoResponse => queue = <<>>
    /\ AnsweredBy(delivered, Answered)
    /\ AckedUpTo(Answered, in_ack_size.acked)
    /\ in_ack_size.acked <= recv_bytes
    /\ recv_bytes = Count(read_bytes)

\* The places of a sequence that grows by an element.
LEMMA Appending ==
    ASSUME NEW S, NEW s \in Seq(S), NEW x \in S, NEW n, n = Len(s) + 1
    PROVE  /\ Append(s, x) \in Seq(S)
           /\ n \in Nat /\ DOMAIN s = 1..(n - 1) /\ DOMAIN Append(s, x) = 1..n
           /\ Append(s, x)[n] = x
           /\ \A i \in 1..(n - 1) : Append(s, x)[i] = s[i] /\ i < n
OBVIOUS

\* An acknowledgement answers no ping.
LEMMA AckAnswersNothing ==
    ASSUME NEW D, NEW A \in Seq(Response), NEW x \in Response, x.kind = "Ack",
           AnsweredBy(D, A)
    PROVE  AnsweredBy(D, Append(A, x))
<1>1. PICK n : n = Len(A) + 1
    OBVIOUS
<1>2. PICK B : B = Append(A, x)
    OBVIOUS
<1>3. /\ DOMAIN A = 1..(n - 1) /\ DOMAIN B = 1..n /\ n \in Nat /\ B[n] = x
      /\ \A i \in 1..(n - 1) : B[i] = A[i] /\ i < n
    BY <1>1, <1>2, Appending
<1>4. Pongs(B) = Pongs(A) /\ \A i \in Pongs(A) : B[i] = A[i]
    BY <1>3 DEF Pongs
<1>5. PICK answer \in [Pings(D) -> Pongs(A)] :
          /\ \A j \in Pongs(A) : \E i \in Pings(D) : answer[i] = j
          /\ \A i \in Pings(D) : A[answer[i]].value = Decode(D[i].data)
          /\ \A i, k \in Pings(D) : i < k => answer[i] < answer[k]
    BY DEF AnsweredBy
<1>6. \A i \in Pings(D) : B[answer[i]].value = Decode(D[i].data)
    BY <1>4, <1>5
<1>7. AnsweredBy(D, B)
    BY <1>4, <1>5, <1>6 DEF AnsweredBy
<1> QED BY <1>2, <1>7

\* A message that is no ping needs no answer.
LEMMA NoPingNoAnswer ==
    ASSUME NEW D \in Seq(Message), NEW A, NEW m \in Message, m.type # "Ping",
           AnsweredBy(D, A)
    PROVE  AnsweredBy(Append(D, m), A)
<1>1. PICK n : n = Len(D) + 1
    OBVIOUS
<1>2. PICK E : E = Append(D, m)
    OBVIOUS
<1>3. /\ DOMAIN D = 1..(n - 1) /\ DOMAIN E = 1..n /\ n \in Nat /\ E[n] = m
      /\ \A i \in 1..(n - 1) : E[i] = D[i] /\ i < n
    BY <1>1, <1>2, Appending
<1>4. Pings(E) = Pings(D) /\ \A i \in Pings(D) : E[i] = D[i]
    BY <1>3 DEF Pings
<1>5. AnsweredBy(E, A)
    BY <1>4 DEF AnsweredBy
<1> QED BY <1>2, <1>5

\* A ping and its pong.
LEMMA PingAndPong ==
    ASSUME NEW D \in Seq(Message), NEW A \in Seq(Response),
           NEW m \in Message, m.type = "Ping",
           NEW x \in Response, x.kind = "Pong", x.value = Decode(m.data),
           AnsweredBy(D, A)
    PROVE  AnsweredBy(Append(D, m), Append(A, x))
<1>1. PICK n : n = Len(D) + 1
    OBVIOUS
<1>2. PICK E : E = Append(D, m)
    OBVIOUS
<1>3. /\ DOMAIN D = 1..(n - 1) /\ DOMAIN E = 1..n /\ n \in Nat /\ E[n] = m
      /\ \A i \in 1..(n - 1) : E[i] = D[i] /\ i < n
    BY <1>1, <1>2, Appending
<1>4. PICK o : o = Len(A) + 1
    OBVIOUS
<1>5. PICK B : B = Append(A, x)
    OBVIOUS
<1>6. /\ DOMAIN A = 1..(o - 1) /\ DOMAIN B = 1..o /\ o \in Nat /\ B[o] = x
      /\ \A i \in 1..(o - 1) : B[i] = A[i] /\ i < o
    BY <1>4, <1>5, Appending
<1>7. PICK answer \in [Pings(D) -> Pongs(A)] :
          /\ \A j \in Pongs(A) : \E i \in Pings(D) : answer[i] = j
          /\ \A i \in Pings(D) : A[answer[i]].value = Decode(D[i].data)
          /\ \A i, k \in Pings(D) : i < k => answer[i] < answer[k]
    BY DEF AnsweredBy
<1>8. /\ Pings(E) = Pings(D) \cup {n} /\ n \notin Pings(D)
      /\ \A i \in Pings(D) : E[i] = D[i] /\ i < n /\ i \in Nat
  <2>1. \A i \in Pings(D) : i \in 1..(n - 1)
    BY <1>3 DEF Pings
  <2>2. \A i \in 1..n : i = n \/ i \in 1..(n - 1)
    BY <1>3
  <2>3. n \in 1..n /\ n \notin 1..(n - 1) /\ \A i \in 1..(n - 1) : i \in 1..n
    BY <1>1, <1>3, LenProperties
  <2> QED BY <1>3, <2>1, <2>2, <2>3 DEF Pings
<1>9. /\ Pongs(B) = Pongs(A) \cup {o} /\ o \notin Pongs(A)
      /\ \A i \in Pongs(A) : B[i] = A[i] /\ i < o /\ i \in Nat
  <2>1. \A i \in Pongs(A) : i \in 1..(o - 1)
    BY <1>6 DEF Pongs
  <2>2. \A i \in 1..o : i = o \/ i \in 1..(o - 1)
    BY <1>6
  <2>3. o \in 1..o /\ o \notin 1..(o - 1) /\ \A i \in 1..(o - 1) : i \in 1..o
    BY <1>4, <1>6, LenProperties
  <2> QED BY <1>6, <2>1, <2>2, <2>3 DEF Pongs
<1>10. PICK f : f = [i \in Pings(E) |-> IF i = n THEN o ELSE answer[i]]
    OBVIOUS
<1>11. f[n] = o /\ \A i \in Pings(D) : f[i] = answer[i] /\ f[i] \in Pongs(A)
    BY <1>7, <1>8, <1>10
<1>12. f \in [Pings(E) -> Pongs(B)]
  <2>1. ASSUME NEW i \in Pings(E) PROVE f[i] \in Pongs(B)
    <3>1. i = n \/ i \in Pings(D)
        BY <1>8
    <3> QED BY <1>9, <1>11, <3>1
  <2> QED BY <1>10, <2>1
<1>13. ASSUME NEW j \in Pongs(B) PROVE \E i \in Pings(E) : f[i] = j
    BY <1>7, <1>8, <1>9, <1>11
<1>14. ASSUME NEW i \in Pings(E) PROVE B[f[i]].value = Decode(E[i].data)
  <2>1. CASE i = n
    BY <1>3, <1>6, <1>11, <2>1
  <2>2. CASE i # n
    BY <1>7, <1>8, <1>9, <1>11, <2>2
  <2> QED BY <2>1, <2>2
<1>15. ASSUME NEW i \in Pings(E), NEW k \in Pings(E), i < k PROVE f[i] < f[k]
  <2>1. i # n
    BY <1>3, <1>8, <1>15
  <2>2. CASE k = n
    BY <1>8, <1>9, <1>11, <2>1, <2>2
  <2>3. CASE k # n
    BY <1>7, <1>8, <1>11, <1>15, <2>1, <2>3
  <2> QED BY <2>2, <2>3
<1>16. AnsweredBy(E, B)
    BY <1>12, <1>13, <1>14, <1>15 DEF AnsweredBy
<1> QED BY <1>2, <1>5, <1>16

\* An acknowledgement of more bytes than the one before it.
LEMMA AckMoves ==
    ASSUME NEW A \in Seq(Response), NEW x \in Response, x.kind = "Ack",
           x.value = Count(x.read) % Raw,
           NEW acked \in Nat, acked < Count(x.read), AckedUpTo(A, acked)
    PROVE  AckedUpTo(Append(A, x), Count(x.read))
<1>1. PICK n : n = Len(A) + 1
    OBVIOUS
<1>2. PICK B : B = Append(A, x)
    OBVIOUS
<1>3. /\ DOMAIN A = 1..(n - 1) /\ DOMAIN B = 1..n /\ n \in Nat /\ B[n] = x
      /\ \A i \in 1..(n - 1) : B[i] = A[i] /\ i < n
    BY <1>1, <1>2, Appending
<1>4. /\ Acks(B) = Acks(A) \cup {n}
      /\ \A i \in Acks(A) : B[i] = A[i] /\ i < n /\ i \in Nat /\ A[i].read \in Nat
  <2>1. \A i \in Acks(A) : i \in 1..(n - 1)
    BY <1>3 DEF Acks
  <2>2. \A i \in 1..n : i = n \/ i \in 1..(n - 1)
    BY <1>3
  <2>3. n \in 1..n /\ \A i \in 1..(n - 1) : i \in 1..n
    BY <1>1, <1>3, LenProperties
  <2>4. \A i \in 1..(n - 1) : A[i] \in Response
    BY <1>1, <1>3, ElementOfSeq
  <2> QED BY <1>3, <2>1, <2>2, <2>3, <2>4 DEF Acks, Response
<1>5. x.read \in Nat /\ HandshakeBytes \in Nat
    BY ReaderAssumption DEF Response
<1>6. ASSUME NEW i \in Acks(B)
      PROVE  B[i].value = Count(B[i].read) % Raw /\ Count(B[i].read) <= Count(x.read)
  <2>1. CASE i = n
    BY <1>3, <1>5, <2>1 DEF Count
  <2>2. CASE i # n
    <3>1. /\ B[i] = A[i] /\ A[i].read \in Nat
          /\ A[i].value = Count(A[i].read) % Raw /\ Count(A[i].read) <= acked
        BY <1>4, <1>6, <2>2 DEF AckedUpTo
    <3>2. Count(A[i].read) <= Count(x.read)
        BY <1>5, <3>1 DEF Count
    <3> QED BY <3>1, <3>2
  <2> QED BY <2>1, <2>2
<1>7. ASSUME NEW i \in Acks(B), NEW k \in Acks(B), i < k PROVE B[i].read < B[k].read
  <2>1. i \in Acks(A)
    BY <1>3, <1>4, <1>7
  <2>2. CASE k = n
    <3>1. Count(A[i].read) <= acked /\ A[i].read \in Nat
        BY <1>4, <2>1 DEF AckedUpTo
    <3>2. A[i].read < x.read
        BY <1>5, <3>1 DEF Count
    <3>3. B[i] = A[i] /\ B[k] = x
        BY <1>3, <1>4, <2>1, <2>2
    <3> QED BY <3>2, <3>3
  <2>3. CASE k # n
    BY <1>4, <1>7, <2>1, <2>3 DEF AckedUpTo
  <2> QED BY <2>2, <2>3
<1>8. ASSUME NEW i \in Acks(B), \A k \in Acks(B) : k <= i 
      PROVE  Count(B[i].read) = Count(x.read)
    BY <1>3, <1>4, <1>8
<1>9. AckedUpTo(B, Count(x.read))
    BY <1>6, <1>7, <1>8 DEF AckedUpTo
<1> QED BY <1>2, <1>9

\* A pong acknowledges nothing.
LEMMA PongAcksNothing ==
    ASSUME NEW A \in Seq(Response), NEW x \in Response, x.kind = "Pong",
           NEW acked, AckedUpTo(A, acked)
    PROVE  AckedUpTo(Append(A, x), acked)
<1>1. PICK n : n = Len(A) + 1
    OBVIOUS
<1>2. PICK B : B = Append(A, x)
    OBVIOUS
<1>3. /\ DOMAIN A = 1..(n - 1) /\ DOMAIN B = 1..n /\ n \in Nat /\ B[n] = x
      /\ \A i \in 1..(n - 1) : B[i] = A[i] /\ i < n
    BY <1>1, <1>2, Appending
<1>4. Acks(B) = Acks(A) /\ \A i \in Acks(A) : B[i] = A[i]
    BY <1>3 DEF Acks
<1>5. AckedUpTo(B, acked)
    BY <1>4 DEF AckedUpTo
<1> QED BY <1>2, <1>5

\* The step of the hook answers behind what was answered before.
LEMMA AnswersBehind ==
    ASSUME ReaderInv, AutoResponse => queue = <<>>, OnRecvMessage
    PROVE  /\ Answered' = Answered \o Answers
           /\ AutoResponse => queue' = <<>>
           /\ Answered \in Seq(Response)
<1>1. queue \in Seq(Response) /\ responses \in Seq(Response)
    BY DEF ReaderInv, ReaderTypeOK
<1>2. msg \in Message /\ msg.data # <<>> /\ recv_bytes \in Nat /\ read_bytes \in Nat
    BY DEF OnRecvMessage, ReaderInv, ReaderTypeOK
<1>3. Answers \in Seq(Response)
    BY <1>2, AnswersType
<1>4. Answered \in Seq(Response)
    BY <1>1, ConcatProperties DEF Answered
<1>5. CASE AutoResponse
  <2>1. responses' = responses \o Answers /\ queue' = queue /\ queue = <<>>
    BY <1>5 DEF OnRecvMessage
  <2>2. responses \o Answers \in Seq(Response)
    BY <1>1, <1>3, ConcatProperties
  <2>3. responses \o <<>> = responses /\ (responses \o Answers) \o <<>> = responses \o Answers
    BY <1>1, <2>2, ConcatEmptySeq
  <2> QED BY <1>4, <2>1, <2>3 DEF Answered
<1>6. CASE ~AutoResponse
  <2>1. queue' = queue \o Answers /\ responses' = responses
    BY <1>6 DEF OnRecvMessage
  <2>2. (responses \o queue) \o Answers = responses \o (queue \o Answers)
    BY <1>1, <1>3, ConcatAssociative
  <2> QED BY <1>4, <1>6, <2>1, <2>2 DEF Answered
<1> QED BY <1>5, <1>6

\* The acknowledgement of the hook, when one is due.
LEMMA Acknowledges ==
    ASSUME ReaderInv, AnswersInv, NEW A, NEW x, x = Ack,
           A = IF AckRequired THEN Append(Answered, x) ELSE Answered
    PROVE  /\ A \in Seq(Response) /\ AnsweredBy(delivered, A)
           /\ AckedUpTo(A, Acked) /\ Acked <= recv_bytes
<1>1. /\ in_ack_size.window \in Nat /\ in_ack_size.acked \in Nat /\ recv_bytes \in Nat
      /\ Answered \in Seq(Response)
  <2>1. queue \in Seq(Response) /\ responses \in Seq(Response)
    BY DEF ReaderInv, ReaderTypeOK
  <2>2. Answered \in Seq(Response)
    BY <2>1, ConcatProperties DEF Answered
  <2> QED BY <2>2 DEF ReaderInv, ReaderTypeOK
<1>2. /\ AnsweredBy(delivered, Answered) /\ AckedUpTo(Answered, in_ack_size.acked)
      /\ recv_bytes = Count(read_bytes)
    BY DEF AnswersInv
<1>3. /\ x \in Response /\ x.kind = "Ack"
      /\ x.value = Count(x.read) % Raw /\ Count(x.read) = recv_bytes
  <2>1. recv_bytes % Raw \in Nat /\ read_bytes \in Nat
    BY <1>1, WireAssumption DEF ReaderInv, ReaderTypeOK
  <2> QED BY <1>2, <2>1 DEF Ack, Response
<1>4. CASE AckRequired
  <2>1. A = Append(Answered, x) /\ Acked = recv_bytes
    BY <1>4 DEF Acked
  <2>2. in_ack_size.acked < recv_bytes
    BY <1>1, <1>4 DEF AckRequired
  <2>3. AnsweredBy(delivered, A)
    BY <1>1, <1>2, <1>3, <2>1, AckAnswersNothing
  <2>4. AckedUpTo(A, Count(x.read))
    BY <1>1, <1>2, <1>3, <2>1, <2>2, AckMoves
  <2>5. A \in Seq(Response)
    BY <1>1, <1>3, <2>1, AppendProperties
  <2> QED BY <1>1, <1>3, <2>1, <2>3, <2>4, <2>5
<1>5. CASE ~AckRequired
  <2>1. A = Answered /\ Acked = in_ack_size.acked
    BY <1>5 DEF Acked
  <2> QED BY <1>1, <1>2, <2>1 DEF AnswersInv
<1> QED BY <1>4, <1>5

\* The hook answers a ping it gives on, and acknowledges what was received.
LEMMA OnRecvMessageAnswers == ReaderInv /\ AnswersInv /\ OnRecvMessage => AnswersInv'
<1> SUFFICES ASSUME ReaderInv, AnswersInv, OnRecvMessage PROVE AnswersInv'
    OBVIOUS
<1>1. /\ msg \in Message /\ msg.data # <<>> /\ recv_bytes \in Nat /\ read_bytes \in Nat
      /\ delivered \in Seq(Message)
    BY DEF OnRecvMessage, ReaderInv, ReaderTypeOK
<1>2. Answered' = Answered \o Answers /\ (AutoResponse => queue' = <<>>)
    BY AnswersBehind DEF AnswersInv
<1>3. PICK x : x = Ack
    OBVIOUS
<1>4. PICK y : y = Pong
    OBVIOUS
<1>5. PICK A : A = IF AckRequired THEN Append(Answered, x) ELSE Answered
    OBVIOUS
<1>6. /\ A \in Seq(Response) /\ AnsweredBy(delivered, A)
      /\ AckedUpTo(A, Acked) /\ Acked <= recv_bytes
    BY <1>3, <1>5, Acknowledges
<1>7. y \in Response /\ y.kind = "Pong" /\ y.value = Decode(msg.data)
  <2>1. Decode(msg.data) \in Nat
    BY <1>1, DecodeType DEF Message
  <2> QED BY <1>1, <1>4, <2>1 DEF Pong, Response
<1>8. Answered' = IF msg.type = "Ping" /\ ~DecodeFails THEN Append(A, y) ELSE A
  <2>1. Answered \in Seq(Response) /\ x \in Response
    BY <1>1, <1>3, WireAssumption, AnswersBehind DEF AnswersInv, Ack, Response
  <2>2. PICK S : S = Answered
    OBVIOUS
  <2>3. S \in Seq(Response)
    BY <2>1, <2>2
  <2>4. Answered' = S \o ((IF AckRequired THEN <<x>> ELSE <<>>)
                          \o (IF msg.type = "Ping" /\ ~DecodeFails THEN <<y>> ELSE <<>>))
    BY <1>2, <1>3, <1>4, <2>2 DEF Answers
  <2>5. A = IF AckRequired THEN Append(S, x) ELSE S
    BY <1>5, <2>2
  <2>6. CASE AckRequired
    <3>1. S \o (<<x>> \o <<y>>) = Append(Append(S, x), y) /\ S \o (<<x>> \o <<>>) = Append(S, x)
        BY <1>7, <2>1, <2>3
    <3> QED BY <2>4, <2>5, <2>6, <3>1
  <2>7. CASE ~AckRequired
    <3>1. S \o (<<>> \o <<y>>) = Append(S, y) /\ S \o (<<>> \o <<>>) = S
        BY <1>7, <2>1, <2>3
    <3> QED BY <2>4, <2>5, <2>7, <3>1
  <2> QED BY <2>6, <2>7
<1>9. /\ in_ack_size'.acked = Acked /\ recv_bytes' = recv_bytes
      /\ recv_bytes' = Count(read_bytes')
    BY DEF OnRecvMessage, stream, AnswersInv
<1>10. CASE DecodeFails
  <2>1. delivered' = delivered /\ Answered' = A
    BY <1>8, <1>10 DEF OnRecvMessage
  <2>2. AnsweredBy(delivered', Answered') /\ AckedUpTo(Answered', Acked)
    BY <1>6, <2>1
  <2> QED BY <1>2, <1>6, <1>9, <2>2 DEF AnswersInv
<1>11. CASE ~DecodeFails /\ msg.type # "Ping"
  <2>1. delivered' = Append(delivered, msg) /\ Answered' = A
    BY <1>8, <1>11 DEF OnRecvMessage
  <2>2. AnsweredBy(Append(delivered, msg), A)
    BY <1>1, <1>6, <1>11, NoPingNoAnswer
  <2>3. AnsweredBy(delivered', Answered') /\ AckedUpTo(Answered', Acked)
    BY <1>6, <2>1, <2>2
  <2> QED BY <1>2, <1>6, <1>9, <2>3 DEF AnswersInv
<1>12. CASE ~DecodeFails /\ msg.type = "Ping"
  <2>1. delivered' = Append(delivered, msg) /\ Answered' = Append(A, y)
    BY <1>8, <1>12 DEF OnRecvMessage
  <2>2. AnsweredBy(Append(delivered, msg), Append(A, y))
    BY <1>1, <1>6, <1>7, <1>12, PingAndPong
  <2>3. AckedUpTo(Append(A, y), Acked)
    BY <1>6, <1>7, PongAcksNothing
  <2>4. AnsweredBy(delivered', Answered') /\ AckedUpTo(Answered', Acked)
    BY <2>1, <2>2, <2>3
  <2> QED BY <1>2, <1>6, <1>9, <2>4 DEF AnswersInv
<1> QED BY <1>10, <1>11, <1>12

\* A flush moves the answers of the queue behind those that were written.
LEMMA FlushAnswers == ReaderInv /\ AnswersInv /\ ManualResponseFlush => AnswersInv'
<1> SUFFICES ASSUME ReaderInv, AnswersInv, ManualResponseFlush PROVE AnswersInv'
    OBVIOUS
<1>1. queue \in Seq(Response) /\ responses \in Seq(Response)
    BY DEF ReaderInv, ReaderTypeOK
<1>2. responses \o queue \in Seq(Response)
    BY <1>1, ConcatProperties
<1>3. (responses \o queue) \o <<>> = responses \o queue
    BY <1>2, ConcatEmptySeq
<1>4. /\ Answered' = Answered /\ queue' = <<>>
      /\ UNCHANGED <<delivered, in_ack_size, recv_bytes, read_bytes>>
    BY <1>3 DEF ManualResponseFlush, Answered, stream
<1> QED BY <1>4 DEF AnswersInv

\* Every other step leaves the answers alone.
LEMMA QuietAnswers ==
    ASSUME ReaderInv, AnswersInv, UNCHANGED <<queue, responses, delivered, in_ack_size>>,
           \/ UNCHANGED <<recv_bytes, read_bytes>>
           \/ SocketRead
    PROVE  AnswersInv'
<1>1. recv_bytes' >= recv_bytes /\ recv_bytes \in Nat /\ recv_bytes' \in Int
  <2>1. recv_bytes \in Nat /\ Len(wire) \in Nat
    BY LenProperties DEF ReaderInv, ReaderTypeOK
  <2> QED BY <2>1 DEF SocketRead
<1>2. in_ack_size.acked \in Nat
    BY DEF ReaderInv, ReaderTypeOK
<1>3. in_ack_size'.acked <= recv_bytes'
    BY <1>1, <1>2 DEF AnswersInv
<1>4. Answered' = Answered
    BY DEF Answered
<1>5. recv_bytes' = Count(read_bytes')
  <2>1. read_bytes \in Nat /\ HandshakeBytes \in Nat /\ recv_bytes = read_bytes + HandshakeBytes
    BY ReaderAssumption DEF ReaderInv, ReaderTypeOK, AnswersInv, Count
  <2>2. CASE UNCHANGED <<recv_bytes, read_bytes>>
    BY <2>1, <2>2 DEF Count
  <2>3. CASE SocketRead
    <3>1. PICK n \in 1..Len(wire) : recv_bytes' = recv_bytes + n /\ read_bytes' = read_bytes + n
        BY <2>3 DEF SocketRead
    <3>2. n \in Nat
        BY LenProperties DEF ReaderInv, ReaderTypeOK
    <3> QED BY <2>1, <3>1, <3>2 DEF Count
  <2> QED BY <2>2, <2>3
<1> QED BY <1>3, <1>4, <1>5 DEF AnswersInv

\* Every step of the reader keeps what is answered right.
LEMMA ReceiveAnswers == ReaderInv /\ AnswersInv /\ Receive => AnswersInv'
<1> SUFFICES ASSUME ReaderInv, AnswersInv, Receive PROVE AnswersInv'
    OBVIOUS
<1>1. CASE SocketRead
    BY <1>1, QuietAnswers DEF SocketRead, control
<1>2. CASE ReadBasicHeader \/ RejectChunkStart \/ ReadMessageHeader \/ RejectLengthChange
           \/ ReadExtendedTimestamp \/ ReadMessagePayload
    BY <1>2, QuietAnswers DEF ReadBasicHeader, RejectChunkStart, ReadMessageHeader,
       RejectLengthChange, ReadExtendedTimestamp, ReadMessagePayload, Consume, control
<1>3. CASE IgnoreEmptyMessage \/ Desynchronize
    BY <1>3, QuietAnswers DEF IgnoreEmptyMessage, Desynchronize, stream, control
<1>4. CASE OnRecvMessage
    BY <1>4, OnRecvMessageAnswers
<1> QED BY <1>1, <1>2, <1>3, <1>4 DEF Receive

\* At first there is nothing to answer.
LEMMA AnswersInit == ReaderInit => AnswersInv
<1> SUFFICES ASSUME ReaderInit PROVE AnswersInv
    OBVIOUS
<1>1. /\ queue = <<>> /\ responses = <<>> /\ delivered = <<>> /\ in_ack_size.acked = 0
      /\ recv_bytes = Count(read_bytes) /\ recv_bytes >= 0
    BY ReaderAssumption DEF ReaderInit, Count
<1>2. Answered = <<>>
    BY <1>1 DEF Answered
<1>3. DOMAIN <<>> = {}
    OBVIOUS
<1>4. Pings(delivered) = {} /\ Pongs(Answered) = {} /\ Acks(Answered) = {}
    BY <1>1, <1>2, <1>3 DEF Pings, Pongs, Acks
<1>5. AnsweredBy(delivered, Answered)
  <2>1. PICK f : f = [i \in {} |-> 0]
    OBVIOUS
  <2>2. f \in [{} -> {}]
    BY <2>1
  <2> QED BY <1>4, <2>2 DEF AnsweredBy
<1> QED BY <1>1, <1>4, <1>5 DEF AnswersInv, AckedUpTo

LEMMA AnswersNext == ReaderInv /\ AnswersInv /\ [ReaderNext]_readerVars => AnswersInv'
<1> SUFFICES ASSUME ReaderInv, AnswersInv, [ReaderNext]_readerVars PROVE AnswersInv'
    OBVIOUS
<1>1. CASE Feed
    BY <1>1, QuietAnswers DEF Feed, control
<1>2. CASE Receive
    BY <1>2, ReceiveAnswers
<1>3. CASE ManualResponseFlush
    BY <1>3, FlushAnswers
<1>4. CASE UNCHANGED readerVars
    BY <1>4, QuietAnswers DEF readerVars
<1> QED BY <1>1, <1>2, <1>3, <1>4 DEF ReaderNext

\* What the invariant says of pings and of acknowledgements.
LEMMA AnswersAre == AnswersInv /\ ReaderInv => PingsAnswered /\ AcksAdvance
<1> SUFFICES ASSUME AnswersInv, ReaderInv PROVE PingsAnswered /\ AcksAdvance
    OBVIOUS
<1>1. PingsAnswered
    BY DEF AnswersInv, AnsweredBy, PingsAnswered, Pings, Pongs
<1>2. AcksAdvance
  <2>1. /\ in_ack_size.acked \in Nat /\ read_bytes \in Nat /\ HandshakeBytes \in Nat
        /\ \A i \in Acks(Answered) : Answered[i].read \in Nat
    <3>1. queue \in Seq(Response) /\ responses \in Seq(Response)
        BY DEF ReaderInv, ReaderTypeOK
    <3>2. Answered \in Seq(Response)
        BY <3>1, ConcatProperties DEF Answered
    <3>3. \A i \in DOMAIN Answered : Answered[i] \in Response
        BY <3>2
    <3> QED BY <3>3, ReaderAssumption DEF ReaderInv, ReaderTypeOK, Acks, Response
  <2>2. \A i \in Acks(Answered) : Answered[i].read <= read_bytes
    BY <2>1 DEF AnswersInv, AckedUpTo, Count
  <2> QED BY <2>2 DEF AnswersInv, AckedUpTo, AcksAdvance, Acks, Count
<1> QED BY <1>1, <1>2

(***************************************************************************)
(* The theorems.                                                           *)
(***************************************************************************)

\* Every step of the reader, of the wire and of the caller keeps the invariant.
LEMMA InvNext == ReaderInv /\ [ReaderNext]_readerVars => ReaderInv'
<1> SUFFICES ASSUME ReaderInv, [ReaderNext]_readerVars PROVE ReaderInv'
    OBVIOUS
<1>1. CASE Feed
    BY <1>1, FeedInv
<1>2. CASE SocketRead
    BY <1>2, SocketReadInv
<1>3. CASE ReadBasicHeader
    BY <1>3, BasicHeaderInv
<1>4. CASE RejectChunkStart
    BY <1>4, RejectChunkStartInv
<1>5. CASE ReadMessageHeader
    BY <1>5, MessageHeaderInv
<1>6. CASE RejectLengthChange
    BY <1>6, RejectLengthChangeInv
<1>7. CASE ReadExtendedTimestamp
    BY <1>7, ExtendedTimestampInv
<1>8. CASE IgnoreEmptyMessage
    BY <1>8, EmptyMessageInv
<1>9. CASE ReadMessagePayload
    BY <1>9, PayloadInv
<1>10. CASE Desynchronize
    BY <1>10, DesynchronizeInv
<1>11. CASE OnRecvMessage
    BY <1>11, OnRecvMessageInv
<1>12. CASE ManualResponseFlush
    BY <1>12, FlushInv
<1>13. CASE UNCHANGED readerVars
    BY <1>13 DEF readerVars, ReaderInv, ReaderTypeOK, MidChunk, This
<1> QED BY <1>1, <1>2, <1>3, <1>4, <1>5, <1>6, <1>7, <1>8, <1>9, <1>10, <1>11,
           <1>12, <1>13 DEF ReaderNext, Receive

\* The invariant of the chunk reader holds whatever the peer sends and however
\* the socket cuts it.
THEOREM ReaderInvariant == ReaderSpec => []ReaderInv
BY InvInit, InvNext, PTL DEF ReaderSpec

\* Every field of SrsProtocol and of its chunk streams keeps its type.
THEOREM ReaderTypeCorrect == ReaderSpec => []ReaderTypeOK
<1>1. ReaderInv => ReaderTypeOK
    BY DEF ReaderInv
<1> QED BY <1>1, ReaderInvariant, PTL

\* memcpy in read_message_payload stays in the payload create_payload allocated,
\* for every wire and every chunk size.
THEOREM PayloadNeverOverrun == ReaderSpec => []NoOverrun
<1>1. ReaderInv => NoOverrun
  <2> SUFFICES ASSUME ReaderInv PROVE NoOverrun
    OBVIOUS
  <2>1. \A c \in Cids : chunks[c].alloc # NULL => Len(chunks[c].data) <= chunks[c].alloc
    <3> SUFFICES ASSUME NEW c \in Cids, chunks[c].alloc # NULL
                 PROVE  Len(chunks[c].data) <= chunks[c].alloc
        OBVIOUS
    <3>1. chunks[c] \in Chunk /\ ChunkOK(chunks[c])
        BY DEF ReaderInv, ReaderTypeOK
    <3>2. Len(chunks[c].data) \in Nat
        BY <3>1, LenProperties DEF Chunk
    <3> QED BY <3>1, <3>2, WireAssumption DEF ChunkOK, Chunk
  <2>2. ASSUME pc = "payload", This.alloc # NULL
        PROVE  Len(This.data) + PayloadSize <= This.alloc
    <3>1. cur.cid \in Cids /\ This \in Chunk /\ ChunkOK(This)
        BY DEF ReaderInv, ReaderTypeOK, This
    <3>2. Len(This.data) \in Nat
        BY <3>1, LenProperties DEF Chunk
    <3>3. This.alloc = This.len /\ This.len > 0
        BY <2>2, <3>1, <3>2, WireAssumption DEF ChunkOK, Chunk
    <3> QED BY <2>2, <3>3, PayloadSizeType
  <2> QED BY <2>1, <2>2 DEF NoOverrun
<1> QED BY <1>1, ReaderInvariant, PTL

\* A closed chunk stream keeps nothing of its last message, and a message that
\* is entire is given to the hook at once.
THEOREM NothingLingers == ReaderSpec => []NoLingeringMessage
<1>1. ReaderInv => NoLingeringMessage
    BY DEF ReaderInv, NoLingeringMessage, ChunkOK
<1> QED BY <1>1, ReaderInvariant, PTL

\* What is answered stays right.
LEMMA AnswersStayRight == ReaderSpec => [](ReaderInv /\ AnswersInv)
<1>1. ReaderInit => ReaderInv /\ AnswersInv
    BY InvInit, AnswersInit
<1>2. (ReaderInv /\ AnswersInv) /\ [ReaderNext]_readerVars => (ReaderInv /\ AnswersInv)'
    BY InvNext, AnswersNext
<1> QED BY <1>1, <1>2, PTL DEF ReaderSpec

\* Whatever the peer sends, on_recv_message answers each ping it gives on, once and
\* in order, with the timestamp of the ping.
THEOREM PingsStayAnswered == ReaderSpec => []PingsAnswered
BY AnswersStayRight, AnswersAre, PTL

\* Whatever the peer sends, response_acknowledgement_message acknowledges more bytes
\* each time and never more than were read, and acked_size is the last of them.
THEOREM AcksKeepAdvancing == ReaderSpec => []AcksAdvance
BY AnswersStayRight, AnswersAre, PTL
=============================================================================
