-------------------------- MODULE ChunkLinkProofs --------------------------
(***************************************************************************)
(* Proofs about ChunkLink: for every value of the constants, every cut of  *)
(* the bytes by the socket and every chunk size, the reader never takes    *)
(* one part of a chunk for another and delivers the messages in order,     *)
(* entire and with their timestamps.                                       *)
(*                                                                         *)
(* The invariant labels each token between the writer and the reader with  *)
(* the chunk it belongs to and its place in it.  A label says by itself    *)
(* where its chunk ends and which one follows, so that the reader may take *)
(* any part of a chunk and the writer append one without an induction over *)
(* the tokens between them.                                                *)
(***************************************************************************)
EXTENDS ChunkLink, ChunkReaderProofs

\* A message the writer may be given.
Sendable ==
    {m \in [cid : Cids, type : Types, sid : Sids, ts : 0..(Raw - 1), data : Seq(DataToken)] :
        /\ Len(m.data) \in 1..MaxLength
        /\ m.type \in ControlTypes => Len(m.data) >= ControlSize
        /\ m.type = "SetChunkSize" => Decode(m.data) > 0}

\* The chunk of message n that starts behind p bytes of payload, cut with chunk
\* size cs, and a token of it.
Label == [n : Nat \ {0}, p : Nat, j : Nat \ {0}, cs : Nat \ {0}]

ExtLen(m) == IF m.ts >= Extended THEN ExtWidth ELSE 0
HeaderLen(m, p) == (IF p = 0 THEN 2 ELSE 1) + ExtLen(m)
Piece(m, p, cs) == Smaller(cs, Len(m.data) - p)
ChunkLen(m, p, cs) == HeaderLen(m, p) + Piece(m, p, cs)

\* The token at place j of the chunk of m behind p.
TokenOf(m, p, j) ==
    IF j > HeaderLen(m, p) THEN m.data[p + j - HeaderLen(m, p)]
    ELSE IF p = 0 THEN HeaderC0(m)[j] ELSE HeaderC3(m)[j]

\* The chunk size behind message m.
SizeBehind(m, cs) == IF m.type = "SetChunkSize" THEN Decode(m.data) ELSE cs

\* Token j of the chunk of l.
At(l, j) == [n |-> l.n, p |-> l.p, j |-> j, cs |-> l.cs]

\* Where the chunk behind that of l starts.
NextChunk(m, l) ==
    IF l.p + Piece(m, l.p, l.cs) < Len(m.data)
    THEN [n |-> l.n, p |-> l.p + Piece(m, l.p, l.cs), j |-> 1, cs |-> l.cs]
    ELSE [n |-> l.n + 1, p |-> 0, j |-> 1, cs |-> SizeBehind(m, l.cs)]

\* A place in what was sent, or where the next message will start.
Within(l) ==
    \/ /\ l.n <= Len(sent) /\ l.p < Len(sent[l.n].data)
       /\ l.j <= ChunkLen(sent[l.n], l.p, l.cs)
    \/ l.n = Len(sent) + 1 /\ l.p = 0 /\ l.j = 1

\* How many tokens of its chunk stand from l on.
Rest(l) == ChunkLen(sent[l.n], l.p, l.cs) - l.j + 1

\* It stands in a chunk of a message that was sent.
InChunk(l) ==
    /\ l \in Label /\ l.n \in 1..Len(sent) /\ sent[l.n] \in Sendable
    /\ l.p < Len(sent[l.n].data)
    /\ l.j \in 1..ChunkLen(sent[l.n], l.p, l.cs)
    /\ Rest(l) \in Nat \ {0}

\* The label of token i fits it, and those behind it up to the next chunk.
LabelOK(L, i) ==
    LET l == L[i]
        m == sent[l.n]
    IN  /\ l.n <= Len(sent)
        /\ Stream[i] = TokenOf(m, l.p, l.j)
        /\ i + Rest(l) <= Len(Stream) + 1
        /\ \A k \in 1..(Rest(l) - 1) : L[i + k] = At(l, l.j + k)
        /\ L[i + Rest(l)] = NextChunk(m, l)

LabelsOK(L) ==
    /\ L \in [1..(Len(Stream) + 1) -> Label]
    /\ \A i \in 1..(Len(Stream) + 1) : Within(L[i])
    /\ \A i \in 1..Len(Stream) : LabelOK(L, i)

\* The writer goes on at l.
WriterAt(l) ==
    /\ l.j = 1 /\ l.cs = out_chunk_size
    /\ IF left = <<>> THEN l.n = Len(sent) + 1 /\ l.p = 0
       ELSE /\ l.n = Len(sent)
            /\ left = SubSeq(sent[l.n].data, l.p + 1, Len(sent[l.n].data))

\* Chunk stream c has the fields of a header of m.
Heads(c, m) ==
    /\ c.len = Len(m.data) /\ c.type = m.type /\ c.sid = m.sid
    /\ c.extended = (m.ts >= Extended)

\* It is open with the first p bytes of m.
Carries(c, m, p) ==
    /\ Heads(c, m) /\ c.open /\ ~c.fresh
    /\ c.ts = m.ts % Mask
    /\ c.data = SubSeq(m.data, 1, p)

\* The chunk stream a message is read from.
Opens(m) == cur = [cid |-> m.cid, fmt |-> 0, first |-> TRUE]
Continues(m) == cur = [cid |-> m.cid, fmt |-> 3, first |-> FALSE]

AllClosed == \A c \in Cids : ~chunks[c].open
OthersClosed(m) == \A c \in Cids : c # m.cid => ~chunks[c].open

\* Where the parser stands when it stands at l: between two chunks, or in that of l.
AtBasic(l) ==
    /\ pc = "basic" /\ l.j = 1
    /\ l.p = 0 => AllClosed
    /\ l.p > 0 => OthersClosed(sent[l.n]) /\ Carries(chunks[sent[l.n].cid], sent[l.n], l.p)
AtHeader(l) ==
    pc = "header" /\ l.p = 0 /\ l.j = 2 /\ OthersClosed(sent[l.n]) /\ Opens(sent[l.n])
AtExt(l) ==
    LET m == sent[l.n]
    IN  /\ pc = "ext" /\ m.ts >= Extended /\ OthersClosed(m)
        /\ \/ /\ l.p = 0 /\ l.j = 3 /\ Opens(m) /\ Heads(chunks[m.cid], m)
              /\ chunks[m.cid].open /\ chunks[m.cid].data = <<>>
           \/ l.p > 0 /\ l.j = 2 /\ Continues(m) /\ Carries(chunks[m.cid], m, l.p)
AtPayload(l) ==
    LET m == sent[l.n]
    IN  /\ pc = "payload" /\ l.j = HeaderLen(m, l.p) + 1 /\ cur.cid = m.cid
        /\ OthersClosed(m) /\ Carries(chunks[m.cid], m, l.p)
AtHook(l) == pc = "hook" /\ l.p = 0 /\ l.j = 1 /\ AllClosed

ReaderAt(l) == AtBasic(l) \/ AtHeader(l) \/ AtExt(l) \/ AtPayload(l) \/ AtHook(l)

\* The messages before l were delivered, but for the one the hook still has, whose
\* chunk size is not taken yet.
DeliveredTo(l) ==
    /\ IF pc = "hook"
       THEN /\ Len(delivered) = l.n - 2 /\ msg = Stamped(sent[l.n - 1])
            /\ l.cs = SizeBehind(msg, in_chunk_size)
       ELSE Len(delivered) = l.n - 1 /\ l.cs = in_chunk_size
    /\ \A i \in 1..Len(delivered) : delivered[i] = Stamped(sent[i])

LinkTypeOK ==
    /\ sent \in Seq(Sendable) /\ Len(sent) <= MaxMessages
    /\ left \in Seq(DataToken) /\ out_chunk_size \in Nat \ {0}

\* Labels lead from the parser to the writer.
Linked(L) ==
    /\ LabelsOK(L)
    /\ ReaderAt(L[1]) /\ DeliveredTo(L[1])
    /\ WriterAt(L[Len(Stream) + 1])

LinkInv ==
    /\ ReaderInv /\ LinkTypeOK
    /\ \E L \in [1..(Len(Stream) + 1) -> Label] : Linked(L)

(***************************************************************************)
(* Sequences.                                                              *)
(***************************************************************************)

\* Places before, in and behind a part of K elements that follows N others.
LEMMA Behind ==
    ASSUME NEW N \in Nat, NEW K \in Nat \ {0}, NEW i \in 1..(N + K + 1)
    PROVE  i <= N + 1 \/ (\E j \in 1..K : i = N + j) \/ i = N + K + 1
<1>1. ASSUME i > N, i <= N + K PROVE \E j \in 1..K : i = N + j
    BY <1>1, Above
<1> QED BY <1>1

\* Places in that part.
LEMMA InPart ==
    ASSUME NEW N \in Nat, NEW K \in Nat, NEW i \in 1..(N + K), i > N
    PROVE  \E j \in 1..K : i = N + j
BY Above

\* A place behind another of the same part.
LEMMA Onward ==
    ASSUME NEW N \in Nat, NEW K \in Nat, NEW j \in 1..K, NEW k \in 1..((K - j + 1) - 1)
    PROVE  \E x \in 1..K : x = j + k /\ (N + j) + k = N + x
<1>1. j + k \in 1..K /\ (N + j) + k = N + (j + k)
    OBVIOUS
<1> QED BY <1>1

(***************************************************************************)
(* Chunks.                                                                 *)
(***************************************************************************)

\* The parts of a chunk have a length, and payload is one of them.
LEMMA ChunkLenType ==
    ASSUME NEW m \in Sendable, NEW p \in Nat, p < Len(m.data), NEW cs \in Nat \ {0}
    PROVE  /\ ExtLen(m) \in Nat /\ HeaderLen(m, p) \in Nat \ {0}
           /\ Piece(m, p, cs) \in 1..(Len(m.data) - p)
           /\ ChunkLen(m, p, cs) \in Nat \ {0}
           /\ ChunkLen(m, p, cs) = HeaderLen(m, p) + Piece(m, p, cs)
<1>1. Len(m.data) \in Nat /\ m.ts \in Nat
    BY WireAssumption DEF Sendable
<1>2. ExtLen(m) \in Nat
    BY WireAssumption DEF ExtLen
<1>3. HeaderLen(m, p) \in Nat \ {0}
    BY <1>2 DEF HeaderLen
<1>4. Piece(m, p, cs) \in 1..(Len(m.data) - p)
    BY <1>1 DEF Piece, Smaller
<1> QED BY <1>2, <1>3, <1>4 DEF ChunkLen

\* What the two header functions write.
LEMMA HeaderTokens ==
    ASSUME NEW m \in Sendable
    PROVE  /\ HeaderC0(m) \in Seq(Token) /\ Len(HeaderC0(m)) = 2 + ExtLen(m)
           /\ HeaderC0(m)[1] = [k |-> "basic", fmt |-> 0, cid |-> m.cid]
           /\ HeaderC0(m)[2] = [k |-> "head", ts |-> Smaller(m.ts, Extended),
                                len |-> Len(m.data), type |-> m.type, sid |-> m.sid]
           /\ \A i \in 1..ExtLen(m) :
                 HeaderC0(m)[2 + i] = [k |-> "ext", ts |-> m.ts, i |-> i]
           /\ HeaderC3(m) \in Seq(Token) /\ Len(HeaderC3(m)) = 1 + ExtLen(m)
           /\ HeaderC3(m)[1] = [k |-> "basic", fmt |-> 3, cid |-> m.cid]
           /\ \A i \in 1..ExtLen(m) :
                 HeaderC3(m)[1 + i] = [k |-> "ext", ts |-> m.ts, i |-> i]
<1> DEFINE b0 == [k |-> "basic", fmt |-> 0, cid |-> m.cid]
           b3 == [k |-> "basic", fmt |-> 3, cid |-> m.cid]
           h == [k |-> "head", ts |-> Smaller(m.ts, Extended),
                 len |-> Len(m.data), type |-> m.type, sid |-> m.sid]
           e == IF m.ts >= Extended THEN ExtField(m.ts) ELSE <<>>
<1>1. b0 \in Token /\ b3 \in Token
    BY DEF Sendable, Token, BasicHeader
<1>2. h \in Token
  <2>1. Smaller(m.ts, Extended) \in 0..Extended
    BY WireAssumption DEF Sendable, Smaller
  <2> QED BY <2>1 DEF Sendable, Token, MessageHeader
<1>3. /\ e \in Seq(Token) /\ Len(e) = ExtLen(m)
      /\ \A i \in 1..ExtLen(m) : e[i] = [k |-> "ext", ts |-> m.ts, i |-> i]
    BY ExtFieldType, WireAssumption DEF ExtLen, Sendable
<1>4. HeaderC0(m) = <<b0, h>> \o e /\ HeaderC3(m) = <<b3>> \o e
    BY DEF HeaderC0, HeaderC3
<1> HIDE DEF b0, b3, h, e
<1>5. <<b0, h>> \in Seq(Token) /\ <<b3>> \in Seq(Token)
    BY <1>1, <1>2
<1>6. ExtLen(m) \in Nat
    BY <1>3
<1>7. /\ <<b0, h>> \o e \in Seq(Token) /\ Len(<<b0, h>> \o e) = 2 + ExtLen(m)
      /\ (<<b0, h>> \o e)[1] = b0 /\ (<<b0, h>> \o e)[2] = h
      /\ \A i \in 1..ExtLen(m) : (<<b0, h>> \o e)[2 + i] = e[i]
    BY <1>3, <1>5, <1>6
<1>8. /\ <<b3>> \o e \in Seq(Token) /\ Len(<<b3>> \o e) = 1 + ExtLen(m)
      /\ (<<b3>> \o e)[1] = b3
      /\ \A i \in 1..ExtLen(m) : (<<b3>> \o e)[1 + i] = e[i]
    BY <1>3, <1>5, <1>6
<1> QED BY <1>3, <1>4, <1>7, <1>8 DEF b0, b3, h

\* The tokens of the chunk of m behind p, as the writer puts them on the wire.
ChunkTokensOf(m, p, cs) ==
    (IF p = 0 THEN HeaderC0(m) ELSE HeaderC3(m))
    \o SubSeq(SubSeq(m.data, p + 1, Len(m.data)), 1, Piece(m, p, cs))

\* They are those of the labels of the chunk.
LEMMA ChunkTokens ==
    ASSUME NEW m \in Sendable, NEW p \in Nat, p < Len(m.data), NEW cs \in Nat \ {0}
    PROVE  /\ ChunkTokensOf(m, p, cs) \in Seq(Token)
           /\ Len(ChunkTokensOf(m, p, cs)) = ChunkLen(m, p, cs)
           /\ \A j \in 1..ChunkLen(m, p, cs) : ChunkTokensOf(m, p, cs)[j] = TokenOf(m, p, j)
<1>1. PICK rest : rest = SubSeq(m.data, p + 1, Len(m.data))
    OBVIOUS
<1>2. PICK w : w = ChunkTokensOf(m, p, cs)
    OBVIOUS
<1> DEFINE h == IF p = 0 THEN HeaderC0(m) ELSE HeaderC3(m)
           n == Piece(m, p, cs)
           d == SubSeq(rest, 1, n)
<1>3. /\ n \in 1..(Len(m.data) - p) /\ HeaderLen(m, p) \in Nat
      /\ ChunkLen(m, p, cs) = HeaderLen(m, p) + n
    BY ChunkLenType
<1>4. h \in Seq(Token) /\ Len(h) = HeaderLen(m, p)
    BY HeaderTokens DEF HeaderLen
<1>5. m.data \in Seq(DataToken) /\ Len(m.data) \in Nat
    BY DEF Sendable
<1>6. /\ rest \in Seq(DataToken) /\ Len(rest) = Len(m.data) - p
      /\ \A i \in 1..(Len(m.data) - p) : rest[i] = m.data[p + i]
    BY <1>5, <1>1, Suffix
<1> HIDE DEF n
<1>7. /\ d \in Seq(DataToken) /\ Len(d) = n
      /\ \A i \in 1..n : d[i] = m.data[p + i]
  <2>1. n \in Nat /\ n <= Len(rest) /\ \A i \in 1..n : i \in 1..(Len(m.data) - p)
    BY <1>3, <1>5, <1>6
  <2>2. /\ d \in Seq(DataToken) /\ Len(d) = n
        /\ \A i \in 1..n : d[i] = rest[i]
    BY <1>6, <2>1, Prefix
  <2> QED BY <1>6, <2>1, <2>2
<1>8. d \in Seq(Token)
    BY <1>7, SeqMonotonic DEF Token
<1>9. w = h \o d
    BY <1>1, <1>2 DEF n, ChunkTokensOf
<1>10. n \in Nat /\ HeaderLen(m, p) \in Nat
    BY <1>3, <1>5
<1> HIDE DEF h, d
<1>11. /\ w \in Seq(Token) /\ Len(w) = Len(h) + Len(d)
       /\ \A j \in 1..Len(h) : w[j] = h[j]
       /\ \A j \in 1..Len(d) : w[Len(h) + j] = d[j]
  <2>1. /\ h \o d \in Seq(Token) /\ Len(h \o d) = Len(h) + Len(d)
        /\ \A j \in 1..Len(h) : (h \o d)[j] = h[j]
        /\ \A j \in 1..Len(d) : (h \o d)[Len(h) + j] = d[j]
    <3>1. h \in Seq(Token)
        BY <1>4
    <3>2. h \o d \in Seq(Token)
        BY <3>1, <1>8, ConcatElements
    <3>3. Len(h \o d) = Len(h) + Len(d)
        BY <3>1, <1>8, ConcatElements
    <3>4. \A j \in 1..Len(h) : (h \o d)[j] = h[j]
        BY <3>1, <1>8, ConcatElements
    <3>5. \A j \in 1..Len(d) : (h \o d)[Len(h) + j] = d[j]
        BY <3>1, <1>8, ConcatElements
    <3> QED BY <3>2, <3>3, <3>4, <3>5
  <2> QED BY <1>9, <2>1
<1>12. /\ Len(w) = HeaderLen(m, p) + n
       /\ \A j \in 1..HeaderLen(m, p) : w[j] = h[j]
       /\ \A j \in 1..n : w[HeaderLen(m, p) + j] = d[j]
    BY <1>4, <1>7, <1>11
<1>13. ASSUME NEW j \in 1..ChunkLen(m, p, cs) PROVE w[j] = TokenOf(m, p, j)
  <2>1. j \in Nat /\ j <= HeaderLen(m, p) + n /\ j >= 1
    BY <1>3, <1>10
  <2>2. CASE j > HeaderLen(m, p)
    <3>1. j - HeaderLen(m, p) \in 1..n
        BY <1>10, <2>1, <2>2
    <3>2. PICK i \in 1..n : j = HeaderLen(m, p) + i
        BY <1>10, <2>1, <3>1
    <3>3. w[HeaderLen(m, p) + i] = d[i]
        BY <1>12, <3>2
    <3>5. d[i] = m.data[p + i]
        BY <1>7, <3>2
    <3>4. p + j - HeaderLen(m, p) = p + i
        BY <1>10, <3>2
    <3> QED BY <2>2, <3>2, <3>3, <3>4, <3>5 DEF TokenOf
  <2>3. CASE ~(j > HeaderLen(m, p))
    <3>1. j \in 1..HeaderLen(m, p)
        BY <1>10, <2>1, <2>3
    <3>2. w[j] = h[j]
        BY <1>12, <3>1
    <3> QED BY <2>3, <3>2 DEF TokenOf, h
  <2> QED BY <2>2, <2>3
<1> QED BY <1>3, <1>11, <1>12, <1>13, <1>2

(***************************************************************************)
(* The stream.                                                             *)
(***************************************************************************)

(***************************************************************************)
(* Labels.                                                                 *)
(***************************************************************************)

\* A label within what was sent is that of a token of a chunk.
LEMMA WithinType ==
    ASSUME LinkTypeOK, NEW l \in Label, Within(l), l.n <= Len(sent)
    PROVE  InChunk(l)
<1>1. sent \in Seq(Sendable) /\ Len(sent) \in Nat
    BY DEF LinkTypeOK
<1>2. l.n \in Nat \ {0} /\ l.p \in Nat /\ l.j \in Nat \ {0} /\ l.cs \in Nat \ {0}
    BY DEF Label
<1>3. l.n \in 1..Len(sent)
    BY <1>1, <1>2
<1>4. sent[l.n] \in Sendable
    BY <1>1, <1>3
<1>5. l.p < Len(sent[l.n].data) /\ l.j <= ChunkLen(sent[l.n], l.p, l.cs)
    BY <1>1, <1>2 DEF Within
<1>6. ChunkLen(sent[l.n], l.p, l.cs) \in Nat
    BY <1>2, <1>4, <1>5, ChunkLenType
<1>7. l.j \in 1..ChunkLen(sent[l.n], l.p, l.cs)
    BY <1>2, <1>5, <1>6
<1>8. Rest(l) \in Nat \ {0}
    BY <1>2, <1>5, <1>6 DEF Rest
<1> QED BY <1>3, <1>4, <1>5, <1>7, <1>8 DEF InChunk

\* The parts of such a chunk.
LEMMA InChunkType ==
    ASSUME NEW l, InChunk(l), NEW m, m = sent[l.n]
    PROVE  /\ l.n \in Nat \ {0} /\ l.p \in Nat /\ l.j \in Nat \ {0} /\ l.cs \in Nat \ {0}
           /\ m \in Sendable /\ m.data \in Seq(DataToken) /\ Len(m.data) \in Nat
           /\ l.p < Len(m.data)
           /\ ExtLen(m) \in Nat /\ HeaderLen(m, l.p) \in Nat \ {0}
           /\ Piece(m, l.p, l.cs) \in 1..(Len(m.data) - l.p)
           /\ Rest(l) = HeaderLen(m, l.p) + Piece(m, l.p, l.cs) - l.j + 1
<1>1. /\ l.n \in Nat \ {0} /\ l.p \in Nat /\ l.j \in Nat \ {0} /\ l.cs \in Nat \ {0}
      /\ m \in Sendable /\ l.p < Len(m.data)
    BY DEF InChunk, Label
<1>2. m.data \in Seq(DataToken) /\ Len(m.data) \in Nat
    BY <1>1 DEF Sendable
<1>3. /\ ExtLen(m) \in Nat /\ HeaderLen(m, l.p) \in Nat \ {0}
      /\ Piece(m, l.p, l.cs) \in 1..(Len(m.data) - l.p)
      /\ ChunkLen(m, l.p, l.cs) = HeaderLen(m, l.p) + Piece(m, l.p, l.cs)
    BY <1>1, ChunkLenType
<1> QED BY <1>1, <1>2, <1>3 DEF Rest

\* As long as there are tokens the parser stands in a chunk, the rest of which is
\* in the stream.
LEMMA FirstChunk ==
    ASSUME LinkTypeOK, NEW L, LabelsOK(L), Len(Stream) \in Nat, Len(Stream) >= 1,
           NEW l, l = L[1], NEW m, m = sent[l.n]
    PROVE  /\ InChunk(l) /\ Rest(l) \in 1..Len(Stream)
           /\ L[1 + Rest(l)] = NextChunk(m, l)
           /\ \A k \in 1..(Rest(l) - 1) : L[1 + k] = At(l, l.j + k)
           /\ \A k \in 1..Rest(l) : Stream[k] = TokenOf(m, l.p, l.j + k - 1)
<1>1. /\ l \in Label /\ Within(l) /\ LabelOK(L, 1)
      /\ 1 \in 1..Len(Stream) /\ 1 \in 1..(Len(Stream) + 1)
    BY DEF LabelsOK
<1>2. /\ l.n <= Len(sent)
      /\ Stream[1] = TokenOf(m, l.p, l.j)
      /\ 1 + Rest(l) <= Len(Stream) + 1
      /\ \A k \in 1..(Rest(l) - 1) : L[1 + k] = At(l, l.j + k)
      /\ L[1 + Rest(l)] = NextChunk(m, l)
    BY <1>1 DEF LabelOK
<1>3. InChunk(l) /\ Rest(l) \in Nat \ {0} /\ l.j \in Nat
    BY <1>1, <1>2, WithinType DEF InChunk, Label
<1>4. Rest(l) \in 1..Len(Stream)
    BY <1>2, <1>3
<1>5. ASSUME NEW k \in 1..Rest(l) PROVE Stream[k] = TokenOf(m, l.p, l.j + k - 1)
  <2>1. l.j \in Nat /\ k \in Nat
    BY <1>3
  <2>2. CASE k = 1
    <3>1. l.j + k - 1 = l.j
        BY <2>1, <2>2
    <3> QED BY <1>2, <2>2, <3>1
  <2>3. CASE k # 1
    <3>1. k - 1 \in 1..(Rest(l) - 1) /\ 1 + (k - 1) = k /\ l.j + (k - 1) = l.j + k - 1
        BY <1>3, <2>1, <2>3
    <3>2. PICK i \in 1..(Rest(l) - 1) : k = 1 + i /\ l.j + i = l.j + k - 1
        BY <3>1
    <3>3. L[k] = At(l, l.j + i)
        BY <1>2, <3>2
    <3>4. k \in 1..Len(Stream)
        BY <1>2, <1>3, <2>1
    <3>5. Stream[k] = TokenOf(sent[L[k].n], L[k].p, L[k].j)
        BY <3>4 DEF LabelsOK, LabelOK
    <3>6. L[k].n = l.n /\ L[k].p = l.p /\ L[k].j = l.j + i
        BY <1>1, <3>3 DEF At
    <3> QED BY <3>2, <3>5, <3>6
  <2> QED BY <2>2, <2>3
<1> QED BY <1>1, <1>2, <1>3, <1>4, <1>5

\* When k tokens leave the front of the stream, the labels of the others stay.
LEMMA LabelsConsumed ==
    ASSUME NEW L, LabelsOK(L), Len(Stream) \in Nat, NEW k \in Nat, k <= Len(Stream),
           LinkTypeOK, sent' = sent, Len(Stream') = Len(Stream) - k,
           \A i \in 1..(Len(Stream) - k) : Stream'[i] = Stream[i + k],
           NEW M, M = [i \in 1..(Len(Stream) - k + 1) |-> L[i + k]]
    PROVE  LabelsOK(M)' /\ M[1] = L[1 + k] /\ M[Len(Stream') + 1] = L[Len(Stream) + 1]
<1>1. \A i \in 1..(Len(Stream) - k + 1) : i + k \in 1..(Len(Stream) + 1)
    OBVIOUS
<1>2. \A i \in 1..(Len(Stream) + 1) : L[i] \in Label /\ Within(L[i])
    BY DEF LabelsOK
<1>3. M \in [1..(Len(Stream') + 1) -> Label]
    BY <1>1, <1>2
<1>4. ASSUME NEW i \in 1..(Len(Stream') + 1) PROVE Within(M[i])'
  <2>1. M[i] = L[i + k] /\ Within(L[i + k])
    BY <1>1, <1>2
  <2> QED BY <2>1 DEF Within
<1>5. ASSUME NEW i \in 1..Len(Stream') PROVE LabelOK(M, i)'
  <2> DEFINE l == M[i]
  <2>1. i + k \in 1..Len(Stream) /\ L[i + k] = l /\ l \in Label /\ Within(l)
    BY <1>1, <1>2
  <2>2. /\ l.n <= Len(sent)
        /\ Stream[i + k] = TokenOf(sent[l.n], l.p, l.j)
        /\ L[(i + k) + Rest(l)] = NextChunk(sent[l.n], l)
    BY <2>1 DEF LabelsOK, LabelOK
  <2>3. (i + k) + Rest(l) <= Len(Stream) + 1
    BY <2>1 DEF LabelsOK, LabelOK
  <2>4. \A x \in 1..(Rest(l) - 1) : L[(i + k) + x] = At(l, l.j + x)
    <3>1. \A x \in 1..(Rest(L[i + k]) - 1) :
              L[(i + k) + x] = At(L[i + k], L[i + k].j + x)
        BY <2>1 DEF LabelsOK, LabelOK
    <3> QED BY <2>1, <3>1
  <2>5. Rest(l) \in Nat \ {0} /\ i \in Nat
    BY <2>1, <2>2, WithinType DEF InChunk
  <2>6. i + Rest(l) <= (Len(Stream) - k) + 1
    BY <2>3, <2>5
  <2>12. Rest(l)' = Rest(l)
    BY DEF Rest
  <2>7. ASSUME NEW x \in 1..Rest(l) PROVE M[i + x] = L[(i + k) + x]
    <3>1. i + x \in 1..(Len(Stream) - k + 1)
        BY <2>5, <2>6
    <3>2. (i + x) + k = (i + k) + x
        BY <2>5
    <3> QED BY <3>1, <3>2
  <2>8. ASSUME NEW x \in 1..(Rest(l) - 1) PROVE M[i + x] = At(l, l.j + x)
    <3>1. x \in 1..Rest(l)
        BY <2>5
    <3> QED BY <2>4, <2>7, <3>1
  <2>9. M[i + Rest(l)] = NextChunk(sent[l.n], l)
    <3>1. Rest(l) \in 1..Rest(l)
        BY <2>5
    <3> QED BY <2>2, <2>7, <3>1
  <2>10. Stream'[i] = TokenOf(sent[l.n], l.p, l.j)
    BY <2>2
  <2>11. i + Rest(l) <= Len(Stream') + 1
    BY <2>6
  <2> QED BY <2>2, <2>8, <2>9, <2>10, <2>11, <2>12 DEF LabelOK
<1>6. M[1] = L[1 + k] /\ M[Len(Stream') + 1] = L[Len(Stream) + 1]
  <2>1. 1 \in 1..(Len(Stream) - k + 1)
    OBVIOUS
  <2>2. Len(Stream') + 1 \in 1..(Len(Stream) - k + 1) /\ Len(Stream') + 1 + k = Len(Stream) + 1
    OBVIOUS
  <2> QED BY <2>1, <2>2
<1> QED BY <1>3, <1>4, <1>5, <1>6 DEF LabelsOK

\* The invariant after a step of the reader that takes k tokens off the stream.
LEMMA Advance ==
    ASSUME LinkTypeOK, NEW L, Linked(L), Len(Stream) \in Nat,
           NEW k \in Nat, k <= Len(Stream), Len(Stream') = Len(Stream) - k,
           \A i \in 1..(Len(Stream) - k) : Stream'[i] = Stream[i + k],
           UNCHANGED writerVars, ReaderInv',
           ReaderAt(L[1 + k])', DeliveredTo(L[1 + k])'
    PROVE  LinkInv'
<1>1. sent' = sent /\ left' = left /\ out_chunk_size' = out_chunk_size
    BY DEF writerVars
<1>2. PICK M : M = [i \in 1..(Len(Stream) - k + 1) |-> L[i + k]]
    OBVIOUS
<1>3. LabelsOK(M)' /\ M[1] = L[1 + k] /\ M[Len(Stream') + 1] = L[Len(Stream) + 1]
    BY <1>1, <1>2, LabelsConsumed DEF Linked
<1>4. WriterAt(L[Len(Stream) + 1])
    BY DEF Linked
<1>5. PICK q : q = L[Len(Stream) + 1]
    OBVIOUS
<1>6. WriterAt(q)'
    BY <1>1, <1>4, <1>5 DEF WriterAt
<1>7. Linked(M)'
    BY <1>3, <1>5, <1>6 DEF Linked
<1>8. M \in [1..(Len(Stream') + 1) -> Label]
    BY <1>3 DEF LabelsOK
<1>9. LinkTypeOK'
    BY <1>1 DEF LinkTypeOK
<1> QED BY <1>7, <1>8, <1>9 DEF LinkInv

\* What the parser sees when grow() has returned: it stands in a chunk, and what it
\* reads is of that chunk.
LEMMA Parsed ==
    ASSUME LinkInv, NEW L, Linked(L), Len(in_buffer) >= 1,
           NEW l, l = L[1], NEW m, m = sent[l.n]
    PROVE  /\ InChunk(l)
           /\ L[1 + Rest(l)] = NextChunk(m, l)
           /\ \A k \in 1..(Rest(l) - 1) : L[1 + k] = At(l, l.j + k)
           /\ \A k \in 1..Rest(l) : k <= Len(in_buffer)
                 => in_buffer[k] = TokenOf(m, l.p, l.j + k - 1)
           /\ Head(in_buffer) = TokenOf(m, l.p, l.j)
<1>1. in_buffer \in Seq(Token) /\ wire \in Seq(Token) /\ LinkTypeOK /\ LabelsOK(L)
    BY DEF LinkInv, ReaderInv, ReaderTypeOK, Linked
<1>2. /\ Len(in_buffer) \in Nat /\ Len(Stream) \in Nat /\ Len(Stream) >= 1
      /\ \A i \in 1..Len(in_buffer) : Stream[i] = in_buffer[i]
    BY <1>1, StreamType
<1>3. InChunk(l) /\ L[1 + Rest(l)] = NextChunk(m, l)
    BY <1>1, <1>2, FirstChunk
<1>4. ASSUME NEW k \in 1..(Rest(l) - 1) PROVE L[1 + k] = At(l, l.j + k)
    BY <1>1, <1>2, FirstChunk
<1>5. ASSUME NEW k \in 1..Rest(l) PROVE Stream[k] = TokenOf(m, l.p, l.j + k - 1)
    BY <1>1, <1>2, FirstChunk
<1>6. ASSUME NEW k \in 1..Rest(l), k <= Len(in_buffer)
      PROVE  in_buffer[k] = TokenOf(m, l.p, l.j + k - 1)
  <2>1. k \in 1..Len(in_buffer)
    BY <1>2, <1>3, <1>6 DEF InChunk
  <2> QED BY <1>2, <1>5, <2>1
<1>7. Head(in_buffer) = TokenOf(m, l.p, l.j)
  <2>1. 1 \in 1..Rest(l)
    BY <1>3 DEF InChunk
  <2>2. l.j + 1 - 1 = l.j
    BY <1>3 DEF InChunk, Label
  <2>3. in_buffer[1] = TokenOf(m, l.p, l.j)
    BY <1>6, <2>1, <2>2
  <2>4. Head(in_buffer) = in_buffer[1]
    BY <1>1
  <2> QED BY <2>3, <2>4
<1> QED BY <1>3, <1>4, <1>6, <1>7

\* A step that parses k tokens and leaves the parser at l.
LEMMA ReaderStep ==
    ASSUME LinkInv, NEW L, Linked(L), NEW k \in Nat, k <= Len(in_buffer), Consume(k),
           UNCHANGED writerVars, ReaderInv',
           ReaderAt(L[1 + k])', DeliveredTo(L[1 + k])'
    PROVE  LinkInv'
<1>1. in_buffer \in Seq(Token) /\ wire \in Seq(Token) /\ LinkTypeOK
    BY DEF LinkInv, ReaderInv, ReaderTypeOK
<1>2. Len(Stream) \in Nat /\ k <= Len(Stream)
    BY <1>1, StreamType
<1>3. /\ Len(Stream') = Len(Stream) - k
      /\ \A i \in 1..(Len(Stream) - k) : Stream'[i] = Stream[i + k]
    BY <1>1, StreamConsumed
<1> QED BY <1>1, <1>2, <1>3, Advance

\* A step that leaves the stream as it is.
LEMMA QuietStep ==
    ASSUME LinkInv, NEW L, Linked(L), Stream' = Stream,
           UNCHANGED writerVars, ReaderInv', ReaderAt(L[1])', DeliveredTo(L[1])'
    PROVE  LinkInv'
<1>1. in_buffer \in Seq(Token) /\ wire \in Seq(Token) /\ LinkTypeOK
    BY DEF LinkInv, ReaderInv, ReaderTypeOK
<1>2. Len(Stream) \in Nat
    BY <1>1, StreamType
<1>3. /\ Len(Stream') = Len(Stream) - 0 /\ 0 <= Len(Stream) /\ 0 \in Nat
      /\ \A i \in 1..(Len(Stream) - 0) : Stream'[i] = Stream[i + 0]
    BY <1>2
<1>4. 1 + 0 = 1
    OBVIOUS
<1> QED BY <1>1, <1>2, <1>3, <1>4, Advance

(***************************************************************************)
(* What the parser reads.                                                  *)
(***************************************************************************)

\* A chunk begins with a basic header: fmt 0 for a message, fmt 3 for the rest of it.
LEMMA BasicToken ==
    ASSUME NEW l, InChunk(l), NEW m, m = sent[l.n], l.j = 1
    PROVE  TokenOf(m, l.p, 1)
              = [k |-> "basic", fmt |-> IF l.p = 0 THEN 0 ELSE 3, cid |-> m.cid]
<1>1. m \in Sendable /\ HeaderLen(m, l.p) \in Nat \ {0}
    BY InChunkType
<1>2. ~(1 > HeaderLen(m, l.p))
    BY <1>1
<1> QED BY <1>1, <1>2, HeaderTokens DEF TokenOf

\* The message header follows the basic header of fmt 0.
LEMMA HeaderToken ==
    ASSUME NEW l, InChunk(l), NEW m, m = sent[l.n], l.p = 0
    PROVE  TokenOf(m, l.p, 2)
              = [k |-> "head", ts |-> Smaller(m.ts, Extended), len |-> Len(m.data),
                 type |-> m.type, sid |-> m.sid]
<1>1. m \in Sendable /\ HeaderLen(m, l.p) = 2 + ExtLen(m) /\ ExtLen(m) \in Nat
    BY InChunkType DEF HeaderLen
<1>2. ~(2 > HeaderLen(m, l.p))
    BY <1>1
<1> QED BY <1>1, <1>2, HeaderTokens DEF TokenOf

\* The extended timestamp ends the header.
LEMMA ExtTokens ==
    ASSUME NEW l, InChunk(l), NEW m, m = sent[l.n], m.ts >= Extended,
           NEW i \in 1..ExtWidth
    PROVE  TokenOf(m, l.p, HeaderLen(m, l.p) - ExtWidth + i)
              = [k |-> "ext", ts |-> m.ts, i |-> i]
<1>1. m \in Sendable /\ ExtLen(m) = ExtWidth /\ ExtWidth \in Nat
    BY InChunkType, WireAssumption DEF ExtLen
<1>2. CASE l.p = 0
  <2>1. HeaderLen(m, l.p) = 2 + ExtWidth
    BY <1>1, <1>2 DEF HeaderLen
  <2>2. HeaderLen(m, l.p) - ExtWidth + i = 2 + i /\ ~(2 + i > HeaderLen(m, l.p))
    BY <1>1, <2>1
  <2>3. HeaderC0(m)[2 + i] = [k |-> "ext", ts |-> m.ts, i |-> i]
    BY <1>1, HeaderTokens
  <2> QED BY <1>2, <2>2, <2>3 DEF TokenOf
<1>3. CASE l.p # 0
  <2>1. HeaderLen(m, l.p) = 1 + ExtWidth
    BY <1>1, <1>3 DEF HeaderLen
  <2>2. HeaderLen(m, l.p) - ExtWidth + i = 1 + i /\ ~(1 + i > HeaderLen(m, l.p))
    BY <1>1, <2>1
  <2>3. HeaderC3(m)[1 + i] = [k |-> "ext", ts |-> m.ts, i |-> i]
    BY <1>1, HeaderTokens
  <2> QED BY <1>3, <2>2, <2>3 DEF TokenOf
<1> QED BY <1>2, <1>3

\* The payload is behind the header.
LEMMA PayloadTokens ==
    ASSUME NEW l, InChunk(l), NEW m, m = sent[l.n], NEW i \in Nat \ {0}
    PROVE  TokenOf(m, l.p, HeaderLen(m, l.p) + i) = m.data[l.p + i]
<1>1. HeaderLen(m, l.p) \in Nat /\ l.p \in Nat
    BY InChunkType
<1>2. PICK j : j = HeaderLen(m, l.p) + i
    OBVIOUS
<1>3. j > HeaderLen(m, l.p) /\ l.p + j - HeaderLen(m, l.p) = l.p + i
    BY <1>1, <1>2
<1> QED BY <1>2, <1>3 DEF TokenOf

\* The types the parser relies on.
LEMMA LinkTypes ==
    ASSUME LinkInv
    PROVE  /\ ReaderInv /\ LinkTypeOK
           /\ in_buffer \in Seq(Token) /\ wire \in Seq(Token) /\ Len(in_buffer) \in Nat
           /\ sent \in Seq(Sendable) /\ Len(sent) \in Nat
           /\ chunks \in [Cids -> Chunk] /\ cur.cid \in Cids
           /\ \E L : Linked(L)
<1>1. in_buffer \in Seq(Token) /\ Len(in_buffer) \in Nat
    BY LenProperties DEF LinkInv, ReaderInv, ReaderTypeOK
<1>2. sent \in Seq(Sendable) /\ Len(sent) \in Nat
    BY LenProperties DEF LinkInv, LinkTypeOK
<1>3. chunks \in [Cids -> Chunk] /\ cur.cid \in Cids /\ wire \in Seq(Token)
    BY DEF LinkInv, ReaderInv, ReaderTypeOK
<1>4. \E L : Linked(L)
    BY DEF LinkInv
<1> QED BY <1>1, <1>2, <1>3, <1>4 DEF LinkInv

(***************************************************************************)
(* The steps of the reader.                                                *)
(***************************************************************************)

\* A read() of grow() does not touch what the labels say.
LEMMA SocketReadLink == LinkInv /\ SocketRead /\ UNCHANGED writerVars => LinkInv'
<1> SUFFICES ASSUME LinkInv, SocketRead, UNCHANGED writerVars PROVE LinkInv'
    OBVIOUS
<1>1. PICK L : Linked(L)
    BY LinkTypes
<1>2. PICK l : l = L[1]
    OBVIOUS
<1>3. Stream' = Stream
    BY LinkTypes, StreamRead
<1>4. ReaderInv'
    BY LinkTypes, SocketReadInv
<1>5. ReaderAt(l) /\ DeliveredTo(l)
    BY <1>1, <1>2 DEF Linked
<1>6. UNCHANGED <<sent, chunks, cur, msg, pc, in_chunk_size, delivered>>
    BY DEF SocketRead, control, writerVars
<1>7. ReaderAt(l)'
    BY <1>5, <1>6 DEF ReaderAt, AtBasic, AtHeader, AtExt, AtPayload, AtHook, AllClosed,
          OthersClosed, Opens, Continues
<1>8. DeliveredTo(l)'
    BY <1>5, <1>6 DEF DeliveredTo
<1> QED BY <1>1, <1>2, <1>3, <1>4, <1>7, <1>8, QuietStep

\* Nor does a flush of the responses.
LEMMA FlushLink == LinkInv /\ ManualResponseFlush /\ UNCHANGED writerVars => LinkInv'
<1> SUFFICES ASSUME LinkInv, ManualResponseFlush, UNCHANGED writerVars PROVE LinkInv'
    OBVIOUS
<1>1. PICK L : Linked(L)
    BY LinkTypes
<1>2. PICK l : l = L[1]
    OBVIOUS
<1>3. Stream' = Stream
    BY DEF ManualResponseFlush, stream, Stream
<1>4. ReaderInv'
    BY LinkTypes, FlushInv
<1>5. ReaderAt(l) /\ DeliveredTo(l)
    BY <1>1, <1>2 DEF Linked
<1>6. UNCHANGED <<sent, chunks, cur, msg, pc, in_chunk_size, delivered>>
    BY DEF ManualResponseFlush, writerVars
<1>7. ReaderAt(l)'
    BY <1>5, <1>6 DEF ReaderAt, AtBasic, AtHeader, AtExt, AtPayload, AtHook, AllClosed,
          OthersClosed, Opens, Continues
<1>8. DeliveredTo(l)'
    BY <1>5, <1>6 DEF DeliveredTo
<1> QED BY <1>1, <1>2, <1>3, <1>4, <1>7, <1>8, QuietStep

\* Where the parser stands in the chunk it reads.
LEMMA Standing ==
    ASSUME LinkInv, NEW L, Linked(L), NEW l, l = L[1]
    PROVE  /\ pc = "basic" => AtBasic(l)
           /\ pc = "header" => AtHeader(l)
           /\ pc = "ext" => AtExt(l)
           /\ pc = "payload" => AtPayload(l)
           /\ pc = "hook" => AtHook(l)
           /\ pc \notin {"desync", "failed"}
           /\ pc # "hook" => Len(delivered) = l.n - 1 /\ l.cs = in_chunk_size
           /\ \A i \in 1..Len(delivered) : delivered[i] = Stamped(sent[i])
<1>1. ReaderAt(l) /\ DeliveredTo(l)
    BY DEF Linked
<1>2. \A i \in 1..Len(delivered) : delivered[i] = Stamped(sent[i])
    BY <1>1 DEF DeliveredTo
<1>3. pc # "hook" => Len(delivered) = l.n - 1 /\ l.cs = in_chunk_size
    BY <1>1 DEF DeliveredTo
<1> QED BY <1>1, <1>2, <1>3 DEF ReaderAt, AtBasic, AtHeader, AtExt, AtPayload, AtHook

\* A step that leaves the delivered messages, the chunk size and the hook alone.
LEMMA StillDelivered ==
    ASSUME LinkInv, NEW L, Linked(L), NEW q, q.n = L[1].n, q.cs = L[1].cs,
           pc # "hook", pc' # "hook", UNCHANGED <<sent, delivered, in_chunk_size>>
    PROVE  DeliveredTo(q)'
<1>1. Len(delivered) = q.n - 1 /\ q.cs = in_chunk_size
    BY Standing
<1>2. \A i \in 1..Len(delivered) : delivered[i] = Stamped(sent[i])
    BY Standing
<1> QED BY <1>1, <1>2 DEF DeliveredTo

\* The basic header is that of the chunk the parser stands in, and it is accepted.
LEMMA BasicParsed ==
    ASSUME LinkInv, NEW L, Linked(L), pc = "basic", Grown, NEW l, l = L[1],
           NEW m, m = sent[l.n]
    PROVE  /\ InChunk(l) /\ l.j = 1 /\ L[2] = At(l, 2) /\ 1 <= Len(in_buffer)
           /\ m.cid \in Cids /\ m \in Sendable
           /\ Head(in_buffer)
                 = [k |-> "basic", fmt |-> IF l.p = 0 THEN 0 ELSE 3, cid |-> m.cid]
           /\ ChunkStartOk(Head(in_buffer).fmt, Head(in_buffer).cid)
           /\ OthersClosed(m)
           /\ l.p = 0 => ~chunks[m.cid].open
           /\ l.p > 0 => Carries(chunks[m.cid], m, l.p)
<1>1. Len(in_buffer) >= 1
    BY DEF Grown, Required
<1>2. AtBasic(l)
    BY Standing
<1>3. /\ InChunk(l) /\ Head(in_buffer) = TokenOf(m, l.p, l.j)
      /\ \A k \in 1..(Rest(l) - 1) : L[1 + k] = At(l, l.j + k)
    BY <1>1, Parsed
<1>4. l.j = 1
    BY <1>2 DEF AtBasic
<1>5. /\ m \in Sendable /\ l.p \in Nat
      /\ HeaderLen(m, l.p) \in Nat \ {0}
      /\ Piece(m, l.p, l.cs) \in 1..(Len(m.data) - l.p) /\ Len(m.data) \in Nat
      /\ Rest(l) = HeaderLen(m, l.p) + Piece(m, l.p, l.cs) - l.j + 1
    BY <1>3, InChunkType
<1>6. m.cid \in Cids
    BY <1>5 DEF Sendable
<1>7. 1 \in 1..(Rest(l) - 1)
    BY <1>4, <1>5
<1>8. L[2] = At(l, 2)
  <2>1. L[1 + 1] = At(l, l.j + 1)
    BY <1>3, <1>7, Zenon
  <2> QED BY <1>4, <2>1
<1>9. Head(in_buffer) = [k |-> "basic", fmt |-> IF l.p = 0 THEN 0 ELSE 3, cid |-> m.cid]
  <2>1. Head(in_buffer) = TokenOf(m, l.p, 1)
    BY <1>3, <1>4
  <2>2. TokenOf(m, l.p, 1) = [k |-> "basic", fmt |-> IF l.p = 0 THEN 0 ELSE 3, cid |-> m.cid]
    BY <1>3, <1>4, BasicToken
  <2> QED BY <2>1, <2>2
<1>10. OthersClosed(m) /\ (l.p = 0 => ~chunks[m.cid].open)
    BY <1>2, <1>5, <1>6 DEF AtBasic, AllClosed, OthersClosed
<1>11. l.p > 0 => Carries(chunks[m.cid], m, l.p)
    BY <1>2 DEF AtBasic
<1>12. ChunkStartOk(Head(in_buffer).fmt, Head(in_buffer).cid)
  <2>1. CASE l.p = 0
    BY <1>9, <1>10, <2>1 DEF ChunkStartOk
  <2>2. CASE l.p # 0
    <3>1. ~chunks[m.cid].fresh
        BY <1>5, <1>11, <2>2, SMTT(30) DEF Carries
    <3> QED BY <1>9, <2>2, <3>1 DEF ChunkStartOk
  <2> QED BY <2>1, <2>2
<1> QED BY <1>1, <1>3, <1>4, <1>5, <1>6, <1>8, <1>9, <1>10, <1>11, <1>12

\* A chunk stream that carries the start of m still does once the header of fmt 3
\* is read.
LEMMA StillCarries ==
    ASSUME NEW c \in Chunk, NEW m \in Sendable, NEW p \in Nat, Carries(c, m, p), c.ts < Mask
    PROVE  /\ [c EXCEPT !.open = TRUE] = c
           /\ Carries([Counted(Continued(c)) EXCEPT !.open = TRUE], m, p)
<1>1. Continued(c) = c
    BY DEF Continued, Carries
<1>2. c.ts \in 0..(Mask - 1)
    BY WireAssumption DEF Chunk
<1>3. c.ts % Mask = c.ts
    BY <1>2, WireAssumption
<1>4. Counted(c) = [c EXCEPT !.ts = c.ts, !.fresh = FALSE]
    BY <1>3 DEF Counted
<1>5. [Counted(c) EXCEPT !.open = TRUE] = c
    BY <1>4 DEF Carries, Chunk
<1>6. [c EXCEPT !.open = TRUE] = c
    BY DEF Carries, Chunk
<1> QED BY <1>1, <1>5, <1>6

\* The basic header.
LEMMA BasicHeaderLink == LinkInv /\ ReadBasicHeader /\ UNCHANGED writerVars => LinkInv'
<1> SUFFICES ASSUME LinkInv, ReadBasicHeader, UNCHANGED writerVars PROVE LinkInv'
    OBVIOUS
<1>1. PICK L : Linked(L)
    BY LinkTypes
<1>2. PICK l : l = L[1]
    OBVIOUS
<1>3. PICK m : m = sent[l.n]
    OBVIOUS
<1>4. PICK q : q = L[2]
    OBVIOUS
<1>5. pc = "basic" /\ Grown
    BY DEF ReadBasicHeader
<1>6. InChunk(l) /\ l.j = 1 /\ L[2] = At(l, 2) /\ 1 <= Len(in_buffer)
    BY <1>1, <1>2, <1>3, <1>5, BasicParsed
<1>7. m.cid \in Cids /\ m \in Sendable /\ OthersClosed(m)
    BY <1>1, <1>2, <1>3, <1>5, BasicParsed
<1>8. Head(in_buffer) = [k |-> "basic", fmt |-> IF l.p = 0 THEN 0 ELSE 3, cid |-> m.cid]
    BY <1>1, <1>2, <1>3, <1>5, BasicParsed
<1>9. l.p = 0 => ~chunks[m.cid].open
    BY <1>1, <1>2, <1>3, <1>5, BasicParsed
<1>10. l.p > 0 => Carries(chunks[m.cid], m, l.p)
    BY <1>1, <1>2, <1>3, <1>5, BasicParsed
<1>11. sent' = sent /\ delivered' = delivered /\ in_chunk_size' = in_chunk_size
    BY DEF ReadBasicHeader, writerVars, control
<1>12. q.n = l.n /\ q.p = l.p /\ q.j = 2 /\ q.cs = l.cs
    BY <1>4, <1>6 DEF At
<1>13. l.p \in Nat /\ ExtLen(m) \in Nat
    BY <1>3, <1>6, InChunkType
<1>14. chunks[m.cid] \in Chunk /\ chunks[m.cid].ts < Mask /\ chunks \in [Cids -> Chunk]
    BY <1>5, <1>7, LinkTypes DEF ReaderInv
<1>15. ReaderInv' /\ Consume(1)
    BY LinkTypes, BasicHeaderInv DEF ReadBasicHeader
<1>16. ReaderAt(q)' /\ pc' # "hook"
  <2>1. CASE l.p = 0
    <3>6. /\ Head(in_buffer).fmt = 0 /\ Head(in_buffer).cid = m.cid
          /\ chunks[m.cid].open = FALSE /\ 0 <= 2 /\ 0 # 3
        BY <1>8, <1>9, <1>14, <2>1 DEF Chunk
    <3>1. pc' = "header" /\ cur' = [cid |-> m.cid, fmt |-> 0, first |-> TRUE]
      <4>1. cur' = [cid |-> m.cid, fmt |-> 0, first |-> TRUE]
        BY <3>6 DEF ReadBasicHeader
      <4>2. pc' = "header"
        BY <3>6 DEF ReadBasicHeader
      <4> QED BY <4>1, <4>2
    <3>2. chunks' = [chunks EXCEPT ![m.cid].open = TRUE]
        BY <3>6 DEF ReadBasicHeader
    <3>3. \A c \in Cids : c # m.cid => chunks'[c] = chunks[c]
        BY <1>7, <1>14, <3>2
    <3>4. OthersClosed(m)'
        BY <1>7, <3>3 DEF OthersClosed
    <3>5. AtHeader(q)'
        BY <1>3, <1>11, <1>12, <2>1, <3>1, <3>4 DEF AtHeader, Opens
    <3> QED BY <3>1, <3>5 DEF ReaderAt
  <2>2. CASE l.p # 0
    <3>1. Carries(chunks[m.cid], m, l.p) /\ l.p > 0
        BY <1>10, <1>13, <2>2
    <3>2. chunks[m.cid].open /\ chunks[m.cid].extended = (m.ts >= Extended)
        BY <3>1 DEF Carries, Heads
    <3>6. /\ Head(in_buffer).fmt = 3 /\ Head(in_buffer).cid = m.cid
          /\ chunks[m.cid].open = TRUE /\ ~(3 <= 2)
        BY <1>8, <1>14, <2>2, <3>2 DEF Chunk
    <3>3. cur' = [cid |-> m.cid, fmt |-> 3, first |-> FALSE]
        BY <3>6 DEF ReadBasicHeader
    <3>4. CASE m.ts >= Extended
      <4>1. pc' = "ext" /\ chunks' = [chunks EXCEPT ![m.cid].open = TRUE]
        BY <3>2, <3>4, <3>6 DEF ReadBasicHeader
      <4>2. chunks' = chunks
        <5>1. [chunks[m.cid] EXCEPT !.open = TRUE] = chunks[m.cid]
            BY <1>7, <1>13, <1>14, <3>1, StillCarries
        <5>2. chunks' = [chunks EXCEPT ![m.cid] = [chunks[m.cid] EXCEPT !.open = TRUE]]
            BY <4>1
        <5> QED BY <1>14, <5>1, <5>2
      <4>3. OthersClosed(m)'
        BY <1>7, <4>2 DEF OthersClosed
      <4>4. AtExt(q)'
        BY <1>3, <1>11, <1>12, <3>1, <3>3, <3>4, <4>1, <4>2, <4>3 DEF AtExt, Continues
      <4> QED BY <4>1, <4>4 DEF ReaderAt
    <3>5. CASE ~(m.ts >= Extended)
      <4> DEFINE d == [Counted(Continued(chunks[m.cid])) EXCEPT !.open = TRUE]
      <4>1. pc' = "payload" /\ chunks' = [chunks EXCEPT ![m.cid] = d]
        BY <3>2, <3>5, <3>6 DEF ReadBasicHeader
      <4>2. Carries(d, m, l.p)
        BY <1>7, <1>13, <1>14, <3>1, StillCarries
      <4> HIDE DEF d
      <4>3. chunks'[m.cid] = d /\ \A c \in Cids : c # m.cid => chunks'[c] = chunks[c]
        BY <1>7, <1>14, <4>1
      <4>4. OthersClosed(m)'
        BY <1>7, <4>3 DEF OthersClosed
      <4>5. HeaderLen(m, l.p) + 1 = 2
        BY <2>2, <3>5 DEF HeaderLen, ExtLen
      <4>6. AtPayload(q)'
        BY <1>3, <1>11, <1>12, <3>3, <4>1, <4>2, <4>3, <4>4, <4>5 DEF AtPayload
      <4> QED BY <4>1, <4>6 DEF ReaderAt
    <3> QED BY <3>4, <3>5
  <2> QED BY <2>1, <2>2
<1>17. DeliveredTo(q)'
    BY <1>1, <1>2, <1>5, <1>11, <1>12, <1>16, StillDelivered
<1>18. 1 + 1 = 2 /\ 1 \in Nat
    OBVIOUS
<1> QED BY <1>1, <1>4, <1>6, <1>15, <1>16, <1>17, <1>18, ReaderStep

\* The message header is that of the message the parser stands in, and it is the
\* first of its message.
LEMMA HeaderParsed ==
    ASSUME LinkInv, NEW L, Linked(L), pc = "header", Grown, NEW l, l = L[1],
           NEW m, m = sent[l.n]
    PROVE  /\ InChunk(l) /\ l.p = 0 /\ l.j = 2 /\ L[2] = At(l, 3) /\ 1 <= Len(in_buffer)
           /\ m.cid \in Cids /\ m \in Sendable /\ OthersClosed(m) /\ Opens(m)
           /\ Head(in_buffer)
                 = [k |-> "head", ts |-> Smaller(m.ts, Extended), len |-> Len(m.data),
                    type |-> m.type, sid |-> m.sid]
           /\ Head(in_buffer) \in MessageHeader
           /\ ~LengthChanged(Head(in_buffer))
<1>1. Len(in_buffer) >= 1
    BY DEF Grown, Required
<1>2. AtHeader(l)
    BY Standing
<1>3. /\ InChunk(l) /\ Head(in_buffer) = TokenOf(m, l.p, l.j)
      /\ \A k \in 1..(Rest(l) - 1) : L[1 + k] = At(l, l.j + k)
    BY <1>1, Parsed
<1>4. l.j = 2 /\ l.p = 0 /\ OthersClosed(m) /\ Opens(m)
    BY <1>2 DEF AtHeader
<1>5. /\ m \in Sendable /\ ExtLen(m) \in Nat
      /\ HeaderLen(m, l.p) \in Nat \ {0}
      /\ Piece(m, l.p, l.cs) \in 1..(Len(m.data) - l.p) /\ Len(m.data) \in Nat
      /\ Rest(l) = HeaderLen(m, l.p) + Piece(m, l.p, l.cs) - l.j + 1
    BY <1>3, InChunkType
<1>6. m.cid \in Cids
    BY <1>5 DEF Sendable
<1>7. 1 \in 1..(Rest(l) - 1)
    BY <1>4, <1>5 DEF HeaderLen
<1>8. L[2] = At(l, 3)
  <2>1. L[1 + 1] = At(l, l.j + 1)
    BY <1>3, <1>7
  <2> QED BY <1>4, <2>1
<1>9. Head(in_buffer) = [k |-> "head", ts |-> Smaller(m.ts, Extended), len |-> Len(m.data),
                         type |-> m.type, sid |-> m.sid]
  <2>1. TokenOf(m, l.p, 2) = [k |-> "head", ts |-> Smaller(m.ts, Extended),
                              len |-> Len(m.data), type |-> m.type, sid |-> m.sid]
    BY <1>3, <1>4, HeaderToken
  <2> QED BY <1>3, <1>4, <2>1
<1>10. ~LengthChanged(Head(in_buffer))
    BY <1>4 DEF LengthChanged, Opens
<1>11. Head(in_buffer) \in MessageHeader
  <2>1. Smaller(m.ts, Extended) \in 0..Extended
    BY <1>5, WireAssumption DEF Sendable, Smaller
  <2>2. Len(m.data) \in 0..MaxLength /\ m.type \in Types /\ m.sid \in Sids
    BY <1>5, WireAssumption DEF Sendable
  <2> QED BY <1>9, <2>1, <2>2 DEF MessageHeader
<1> QED BY <1>1, <1>3, <1>4, <1>5, <1>6, <1>8, <1>9, <1>10, <1>11

\* The chunk stream the header of m leaves.
LEMMA HeaderRead ==
    ASSUME NEW c \in Chunk, NEW m \in Sendable, NEW h,
           h = [k |-> "head", ts |-> Smaller(m.ts, Extended), len |-> Len(m.data),
                type |-> m.type, sid |-> m.sid],
           c.open, c.data = <<>>,
           NEW d, d = Described(Timed(c, 0, h), 0, h)
    PROVE  /\ d.extended = (m.ts >= Extended)
           /\ Heads(d, m) /\ d.open /\ d.data = <<>>
           /\ ~(m.ts >= Extended) => Carries(Counted(d), m, 0)
<1>1. m.ts \in Nat /\ Extended \in Nat /\ Smaller(m.ts, Extended) \in Nat
    BY WireAssumption DEF Sendable, Smaller
<1>2. (Smaller(m.ts, Extended) >= Extended) = (m.ts >= Extended)
    BY <1>1 DEF Smaller
<1>3. ~(m.ts >= Extended) => Smaller(m.ts, Extended) = m.ts
    BY <1>1 DEF Smaller
<1> DEFINE x == m.ts >= Extended
           s == Smaller(m.ts, Extended)
           t == IF x THEN c.ts ELSE s
<1>4. Timed(c, 0, h) = [c EXCEPT !.delta = s, !.extended = x, !.ts = t]
    BY <1>2, Zenon DEF Timed
<1>5. PICK e : e = [c EXCEPT !.delta = s, !.extended = x, !.ts = t]
    OBVIOUS
<1>6. d = [e EXCEPT !.len = Len(m.data), !.type = m.type, !.sid = m.sid]
  <2>1. 0 <= 1 /\ 0 = 0
    OBVIOUS
  <2> QED BY <1>4, <1>5, <2>1 DEF Described
<1> HIDE DEF x, s, t
<1>7. e = [fresh |-> c.fresh, extended |-> x, delta |-> s, ts |-> t, len |-> c.len,
           type |-> c.type, sid |-> c.sid, open |-> c.open, alloc |-> c.alloc,
           data |-> c.data]
    BY <1>5 DEF Chunk
<1>8. d = [fresh |-> c.fresh, extended |-> x, delta |-> s, ts |-> t, len |-> Len(m.data),
           type |-> m.type, sid |-> m.sid, open |-> c.open, alloc |-> c.alloc,
           data |-> c.data]
    BY <1>6, <1>7
<1>9. d.extended = (m.ts >= Extended)
    BY <1>8 DEF x
<1>10. Heads(d, m) /\ d.open /\ d.data = <<>>
    BY <1>8, <1>9 DEF Heads
<1>11. ASSUME ~(m.ts >= Extended) PROVE Carries(Counted(d), m, 0)
  <2>2. d.ts = m.ts
    BY <1>3, <1>8, <1>11 DEF t, x, s
  <2>1. HasFields(d)
    BY <1>8 DEF HasFields
  <2>3. /\ Counted(d).fresh = FALSE /\ Counted(d).extended = d.extended
        /\ Counted(d).ts = d.ts % Mask /\ Counted(d).len = d.len
        /\ Counted(d).type = d.type /\ Counted(d).sid = d.sid
        /\ Counted(d).open = d.open /\ Counted(d).data = d.data
    BY <2>1, CountedFields, Zenon
  <2>4. SubSeq(m.data, 1, 0) = <<>>
    BY DEF Sendable
  <2>5. Heads(Counted(d), m)
    BY <1>10, <2>3 DEF Heads
  <2>6. /\ Counted(d).open /\ ~Counted(d).fresh /\ Counted(d).ts = m.ts % Mask
        /\ Counted(d).data = <<>>
    BY <1>10, <2>2, <2>3
  <2> QED BY <2>4, <2>5, <2>6 DEF Carries
<1> QED BY <1>9, <1>10, <1>11

\* The message header.
LEMMA MessageHeaderLink == LinkInv /\ ReadMessageHeader /\ UNCHANGED writerVars => LinkInv'
<1> SUFFICES ASSUME LinkInv, ReadMessageHeader, UNCHANGED writerVars PROVE LinkInv'
    OBVIOUS
<1>1. PICK L : Linked(L)
    BY LinkTypes
<1>2. PICK l : l = L[1]
    OBVIOUS
<1>3. PICK m : m = sent[l.n]
    OBVIOUS
<1>4. PICK q : q = L[2]
    OBVIOUS
<1>5. pc = "header" /\ Grown
    BY DEF ReadMessageHeader
<1>6. InChunk(l) /\ l.p = 0 /\ l.j = 2 /\ L[2] = At(l, 3) /\ 1 <= Len(in_buffer)
    BY <1>1, <1>2, <1>3, <1>5, HeaderParsed
<1>7. m.cid \in Cids /\ m \in Sendable /\ OthersClosed(m) /\ Opens(m)
    BY <1>1, <1>2, <1>3, <1>5, HeaderParsed
<1>8. PICK h : h = Head(in_buffer)
    OBVIOUS
<1>9. h = [k |-> "head", ts |-> Smaller(m.ts, Extended), len |-> Len(m.data),
           type |-> m.type, sid |-> m.sid]
    BY <1>1, <1>2, <1>3, <1>5, <1>8, HeaderParsed
<1>10. sent' = sent /\ delivered' = delivered /\ in_chunk_size' = in_chunk_size /\ cur' = cur
    BY DEF ReadMessageHeader, writerVars, control
<1>11. q.n = l.n /\ q.p = 0 /\ q.j = 3 /\ q.cs = l.cs
    BY <1>4, <1>6 DEF At
<1>12. This = chunks[m.cid] /\ cur.fmt = 0 /\ cur.cid = m.cid /\ cur.first
    BY <1>7 DEF This, Opens
<1>13. PICK c : c = chunks[m.cid]
    OBVIOUS
<1>14. c \in Chunk /\ c.open /\ chunks \in [Cids -> Chunk]
    BY <1>5, <1>7, <1>12, <1>13, LinkTypes DEF ReaderInv, MidChunk
<1>15. c.data = <<>>
    BY <1>5, <1>7, <1>12, <1>13, LinkTypes DEF ReaderInv, ChunkOK
<1>16. PICK d : d = Described(Timed(c, 0, h), 0, h)
    OBVIOUS
<1>17. /\ d.extended = (m.ts >= Extended) /\ Heads(d, m) /\ d.open /\ d.data = <<>>
       /\ ~(m.ts >= Extended) => Carries(Counted(d), m, 0)
    BY <1>7, <1>9, <1>14, <1>15, <1>16, HeaderRead
<1>18. ReaderInv' /\ Consume(1)
    BY LinkTypes, MessageHeaderInv DEF ReadMessageHeader
<1>19. /\ pc' = IF d.extended THEN "ext" ELSE "payload"
       /\ chunks' = [chunks EXCEPT ![m.cid] = IF d.extended THEN d ELSE Counted(d)]
    BY <1>8, <1>12, <1>13, <1>16 DEF ReadMessageHeader
<1>20. \A x \in Cids : x # m.cid => chunks'[x] = chunks[x]
    BY <1>7, <1>14, <1>19
<1>21. OthersClosed(m)'
    BY <1>7, <1>20 DEF OthersClosed
<1>22. ReaderAt(q)' /\ pc' # "hook"
  <2>1. CASE m.ts >= Extended
    <3>1. pc' = "ext" /\ chunks'[m.cid] = d
        BY <1>7, <1>14, <1>17, <1>19, <2>1
    <3>2. AtExt(q)'
        BY <1>3, <1>7, <1>10, <1>11, <1>17, <1>21, <2>1, <3>1 DEF AtExt, Opens
    <3> QED BY <3>1, <3>2 DEF ReaderAt
  <2>2. CASE ~(m.ts >= Extended)
    <3>1. pc' = "payload" /\ chunks'[m.cid] = Counted(d)
        BY <1>7, <1>14, <1>17, <1>19, <2>2
    <3>2. HeaderLen(m, 0) + 1 = 3
        BY <2>2 DEF HeaderLen, ExtLen
    <3>3. AtPayload(q)'
        BY <1>3, <1>10, <1>11, <1>12, <1>17, <1>21, <2>2, <3>1, <3>2 DEF AtPayload
    <3> QED BY <3>1, <3>3 DEF ReaderAt
  <2> QED BY <2>1, <2>2
<1>23. DeliveredTo(q)'
    BY <1>1, <1>2, <1>5, <1>10, <1>11, <1>22, StillDelivered
<1>24. 1 + 1 = 2 /\ 1 \in Nat
    OBVIOUS
<1> QED BY <1>1, <1>4, <1>6, <1>18, <1>22, <1>23, <1>24, ReaderStep

\* The extended timestamp field is entire, and that of the message.
LEMMA ExtParsed ==
    ASSUME LinkInv, NEW L, Linked(L), pc = "ext", Grown, NEW l, l = L[1],
           NEW m, m = sent[l.n]
    PROVE  /\ InChunk(l) /\ AtExt(l) /\ ExtWidth \in Nat \ {0} /\ ExtWidth <= Len(in_buffer)
           /\ L[1 + ExtWidth] = At(l, HeaderLen(m, l.p) + 1)
           /\ ExtValue(SubSeq(in_buffer, 1, ExtWidth)) = m.ts
<1>1. ExtWidth \in Nat \ {0} /\ Len(in_buffer) \in Nat
    BY WireAssumption, LinkTypes
<1>2. ExtWidth <= Len(in_buffer) /\ Len(in_buffer) >= 1
    BY <1>1 DEF Grown, Required
<1>3. AtExt(l)
    BY Standing
<1>4. InChunk(l) /\ \A k \in 1..(Rest(l) - 1) : L[1 + k] = At(l, l.j + k)
    BY <1>2, Parsed
<1>5. \A k \in 1..Rest(l) : k <= Len(in_buffer)
          => in_buffer[k] = TokenOf(m, l.p, l.j + k - 1)
    BY <1>2, Parsed
<1>6. /\ m \in Sendable /\ ExtLen(m) = ExtWidth /\ HeaderLen(m, l.p) \in Nat \ {0}
      /\ Piece(m, l.p, l.cs) \in Nat \ {0} /\ l.j \in Nat /\ l.p \in Nat
      /\ Rest(l) = HeaderLen(m, l.p) + Piece(m, l.p, l.cs) - l.j + 1
  <2>1. m.ts >= Extended
    BY <1>3 DEF AtExt
  <2>2. /\ m \in Sendable /\ Len(m.data) \in Nat /\ l.p \in Nat /\ l.j \in Nat
        /\ HeaderLen(m, l.p) \in Nat \ {0}
        /\ Piece(m, l.p, l.cs) \in 1..(Len(m.data) - l.p)
        /\ Rest(l) = HeaderLen(m, l.p) + Piece(m, l.p, l.cs) - l.j + 1
    BY <1>4, InChunkType
  <2>3. Piece(m, l.p, l.cs) \in Nat \ {0}
    BY <2>2
  <2>4. ExtLen(m) = ExtWidth
    BY <2>1 DEF ExtLen
  <2> QED BY <2>2, <2>3, <2>4
<1>7. HeaderLen(m, l.p) = (l.j - 1) + ExtWidth
  <2>1. (l.p = 0 /\ l.j = 3) \/ (l.p > 0 /\ l.j = 2)
    BY <1>3 DEF AtExt
  <2>2. HeaderLen(m, l.p) = (IF l.p = 0 THEN 2 ELSE 1) + ExtWidth
    BY <1>6 DEF HeaderLen
  <2>3. CASE l.p = 0 /\ l.j = 3
    BY <1>1, <2>2, <2>3
  <2>4. CASE l.p > 0 /\ l.j = 2
    BY <1>1, <2>2, <2>4
  <2> QED BY <2>1, <2>3, <2>4
<1>8. ExtWidth \in 1..(Rest(l) - 1)
  <2>1. PICK h, e, w : h = HeaderLen(m, l.p) /\ e = ExtWidth /\ w = Piece(m, l.p, l.cs)
    OBVIOUS
  <2>2. /\ h \in Nat /\ e \in Nat \ {0} /\ w \in Nat \ {0} /\ l.j \in Nat
        /\ h = (l.j - 1) + e /\ Rest(l) = h + w - l.j + 1
    BY <1>1, <1>6, <1>7, <2>1
  <2> QED BY <2>1, <2>2
<1>9. L[1 + ExtWidth] = At(l, HeaderLen(m, l.p) + 1)
  <2>1. L[1 + ExtWidth] = At(l, l.j + ExtWidth)
    BY <1>4, <1>8
  <2>2. l.j + ExtWidth = HeaderLen(m, l.p) + 1
    BY <1>1, <1>6, <1>7
  <2> QED BY <2>1, <2>2
<1>10. ASSUME NEW k \in 1..ExtWidth PROVE in_buffer[k] = [k |-> "ext", ts |-> m.ts, i |-> k]
  <2>1. k \in 1..Rest(l) /\ k <= Len(in_buffer)
    BY <1>1, <1>2, <1>6, <1>8
  <2>2. in_buffer[k] = TokenOf(m, l.p, l.j + k - 1)
    BY <1>5, <2>1, Zenon
  <2>3. l.j + k - 1 = HeaderLen(m, l.p) - ExtWidth + k
    <3>1. l.j \in Nat /\ HeaderLen(m, l.p) \in Nat /\ ExtWidth \in Nat
      BY <1>1, <1>6
    <3> QED BY <3>1, <1>7
  <2>4. TokenOf(m, l.p, HeaderLen(m, l.p) - ExtWidth + k) = [k |-> "ext", ts |-> m.ts, i |-> k]
    BY <1>3, <1>4, ExtTokens DEF AtExt
  <2> QED BY <2>2, <2>3, <2>4
<1>11. PICK s : s = SubSeq(in_buffer, 1, ExtWidth)
    OBVIOUS
<1>12. /\ s \in Seq(Token) /\ Len(s) = ExtWidth
       /\ \A i \in 1..ExtWidth : s[i] = in_buffer[i]
  <2>1. in_buffer \in Seq(Token)
    BY LinkTypes
  <2> QED BY <1>1, <1>2, <1>11, <2>1, Prefix
<1>13. PICK e : e = ExtField(m.ts)
    OBVIOUS
<1>14. /\ e \in Seq(Token) /\ Len(e) = ExtWidth
       /\ \A i \in 1..ExtWidth : e[i] = [k |-> "ext", ts |-> m.ts, i |-> i]
    BY <1>6, <1>13, ExtFieldType DEF Sendable
<1>15. \A i \in 1..ExtWidth : s[i] = e[i]
    BY <1>10, <1>12, <1>14
<1>16. s = e
    BY <1>12, <1>14, <1>15, SeqEqual
<1>17. Head(s) = [k |-> "ext", ts |-> m.ts, i |-> 1]
  <2>1. 1 \in 1..ExtWidth
    BY <1>1
  <2>2. e[1] = [k |-> "ext", ts |-> m.ts, i |-> 1]
    BY <1>14, <2>1
  <2>3. Head(s) = s[1]
    BY <1>1, <1>12
  <2> QED BY <1>16, <2>2, <2>3
<1>18. ExtValue(s) = m.ts
  <2>1. Head(s).k = "ext" /\ Head(s).ts = m.ts
    BY <1>17
  <2> QED BY <1>13, <1>16, <2>1 DEF ExtValue
<1> QED BY <1>1, <1>2, <1>3, <1>4, <1>9, <1>11, <1>18

\* The extended timestamp.
LEMMA ExtendedTimestampLink ==
    LinkInv /\ ReadExtendedTimestamp /\ UNCHANGED writerVars => LinkInv'
<1> SUFFICES ASSUME LinkInv, ReadExtendedTimestamp, UNCHANGED writerVars PROVE LinkInv'
    OBVIOUS
<1>1. PICK L : Linked(L)
    BY LinkTypes
<1>2. PICK l : l = L[1]
    OBVIOUS
<1>3. PICK m : m = sent[l.n]
    OBVIOUS
<1>4. PICK q : q = L[1 + ExtWidth]
    OBVIOUS
<1>5. pc = "ext" /\ Grown
    BY DEF ReadExtendedTimestamp
<1>6. InChunk(l) /\ AtExt(l) /\ ExtWidth \in Nat \ {0} /\ ExtWidth <= Len(in_buffer)
    BY <1>1, <1>2, <1>3, <1>5, ExtParsed
<1>7. L[1 + ExtWidth] = At(l, HeaderLen(m, l.p) + 1)
    BY <1>1, <1>2, <1>3, <1>5, ExtParsed
<1>8. PICK t : t = ExtValue(SubSeq(in_buffer, 1, ExtWidth)) % Mask
    OBVIOUS
<1>9. t = m.ts % Mask
    BY <1>1, <1>2, <1>3, <1>5, <1>8, ExtParsed
<1>10. m \in Sendable /\ l.p \in Nat
    BY <1>3, <1>6, InChunkType
<1>11. m.cid \in Cids /\ m.ts \in Nat
    BY <1>10 DEF Sendable
<1>12. PICK c : c = chunks[m.cid]
    OBVIOUS
<1>13. chunks \in [Cids -> Chunk] /\ c \in Chunk
    BY <1>11, <1>12, LinkTypes
<1>14. cur.cid = m.cid /\ This = c /\ m.ts >= Extended /\ OthersClosed(m)
    BY <1>3, <1>6, <1>12 DEF AtExt, Opens, Continues, This
<1>15. ~ExtAbsent(t) /\ Heads(c, m) /\ c.open /\ c.data = SubSeq(m.data, 1, l.p)
  <2>1. CASE l.p = 0
    <3>1. Opens(m) /\ Heads(c, m) /\ c.open /\ c.data = <<>>
        BY <1>3, <1>6, <1>12, <2>1 DEF AtExt
    <3>2. SubSeq(m.data, 1, 0) = <<>>
        BY <1>10 DEF Sendable
    <3> QED BY <2>1, <3>1, <3>2 DEF ExtAbsent, Opens
  <2>2. CASE l.p # 0
    <3>1. Carries(c, m, l.p)
        BY <1>3, <1>6, <1>12, <2>2 DEF AtExt
    <3> QED BY <1>9, <1>14, <3>1 DEF ExtAbsent, Carries
  <2> QED BY <2>1, <2>2
<1>16. PICK d : d = Counted([c EXCEPT !.ts = t])
    OBVIOUS
<1>17. pc' = "payload" /\ Consume(ExtWidth) /\ chunks' = [chunks EXCEPT ![m.cid] = d]
    BY <1>8, <1>14, <1>15, <1>16 DEF ReadExtendedTimestamp
<1>18. t \in 0..(Mask - 1) /\ t % Mask = t
  <2>1. t \in 0..(Mask - 1)
    BY <1>9, <1>11, WireAssumption
  <2> QED BY <2>1, WireAssumption
<1>19. Carries(d, m, l.p)
  <2>1. PICK e : e = [c EXCEPT !.ts = t]
    OBVIOUS
  <2>2. e = [fresh |-> c.fresh, extended |-> c.extended, delta |-> c.delta, ts |-> t,
             len |-> c.len, type |-> c.type, sid |-> c.sid, open |-> c.open,
             alloc |-> c.alloc, data |-> c.data]
    BY <1>13, <2>1 DEF Chunk
  <2>3. d = [e EXCEPT !.ts = e.ts % Mask, !.fresh = FALSE]
    BY <1>16, <2>1 DEF Counted
  <2>4. d = [fresh |-> FALSE, extended |-> c.extended, delta |-> c.delta, ts |-> t,
             len |-> c.len, type |-> c.type, sid |-> c.sid, open |-> c.open,
             alloc |-> c.alloc, data |-> c.data]
    BY <1>18, <2>2, <2>3
  <2> QED BY <1>9, <1>15, <2>4 DEF Carries, Heads
<1>20. chunks'[m.cid] = d /\ \A x \in Cids : x # m.cid => chunks'[x] = chunks[x]
    BY <1>11, <1>13, <1>17
<1>21. OthersClosed(m)'
    BY <1>14, <1>20 DEF OthersClosed
<1>22. sent' = sent /\ delivered' = delivered /\ in_chunk_size' = in_chunk_size /\ cur' = cur
    BY DEF ReadExtendedTimestamp, writerVars, control
<1>23. q.n = l.n /\ q.p = l.p /\ q.j = HeaderLen(m, l.p) + 1 /\ q.cs = l.cs
    BY <1>4, <1>7 DEF At
<1>24. AtPayload(q)'
    BY <1>3, <1>14, <1>17, <1>19, <1>20, <1>21, <1>22, <1>23 DEF AtPayload
<1>25. DeliveredTo(q)'
    BY <1>1, <1>2, <1>5, <1>17, <1>22, <1>23, StillDelivered
<1>26. ReaderInv' /\ ReaderAt(q)'
    BY <1>24, LinkTypes, ExtendedTimestampInv DEF ReaderAt
<1> QED BY <1>1, <1>4, <1>6, <1>17, <1>25, <1>26, ReaderStep

\* The payload of the chunk is entire, and the copy appends it to what the chunk
\* stream has of the message.
LEMMA PayloadParsed ==
    ASSUME LinkInv, NEW L, Linked(L), pc = "payload", This.len > 0 => Grown,
           NEW l, l = L[1], NEW m, m = sent[l.n], NEW n, n = Piece(m, l.p, l.cs)
    PROVE  /\ m \in Sendable /\ AtPayload(l)
           /\ This = chunks[m.cid] /\ This.len > 0 /\ PayloadSize = n
           /\ l \in Label /\ n \in 1..(Len(m.data) - l.p) /\ n <= Len(in_buffer)
           /\ L[1 + n] = NextChunk(m, l)
           /\ This.data \o SubSeq(in_buffer, 1, n) = SubSeq(m.data, 1, l.p + n)
           /\ Len(This.data \o SubSeq(in_buffer, 1, n)) = l.p + n
<1>1. AtPayload(l) /\ l.cs = in_chunk_size /\ Len(delivered) = l.n - 1
    BY Standing
<1>2. Carries(chunks[m.cid], m, l.p) /\ cur.cid = m.cid /\ l.j = HeaderLen(m, l.p) + 1
    BY <1>1 DEF AtPayload
<1>3. This = chunks[m.cid]
    BY <1>2 DEF This
<1>4. This.len = Len(m.data) /\ This.data = SubSeq(m.data, 1, l.p)
    BY <1>2, <1>3 DEF Carries, Heads
<1>5. in_buffer \in Seq(Token) /\ wire \in Seq(Token) /\ LinkTypeOK /\ LabelsOK(L)
    BY LinkTypes DEF Linked
<1>6. Len(in_buffer) \in Nat /\ Len(wire) \in Nat /\ Len(Stream) = Len(in_buffer) + Len(wire)
    BY <1>5, StreamType
<1>7. l \in Label /\ Within(l)
  <2>1. 1 \in 1..(Len(Stream) + 1)
    BY <1>6
  <2> QED BY <1>5, <2>1 DEF LabelsOK
<1>8. InChunk(l)
  <2>1. l.j # 1
    <3>1. l.p = 0 => HeaderLen(m, l.p) = 2 + ExtLen(m)
        BY DEF HeaderLen
    <3>2. l.p # 0 => HeaderLen(m, l.p) = 1 + ExtLen(m)
        BY DEF HeaderLen
    <3>3. ExtLen(m) \in Nat
        BY WireAssumption DEF ExtLen
    <3> QED BY <1>2, <3>1, <3>2, <3>3
  <2>2. l.n <= Len(sent)
    BY <1>7, <2>1 DEF Within
  <2> QED BY <1>5, <1>7, <2>2, WithinType
<1>9. /\ l.n \in Nat \ {0} /\ l.p \in Nat /\ l.j \in Nat \ {0} /\ l.cs \in Nat \ {0}
      /\ m \in Sendable /\ m.data \in Seq(DataToken) /\ Len(m.data) \in Nat
      /\ l.p < Len(m.data)
      /\ HeaderLen(m, l.p) \in Nat \ {0}
      /\ n \in 1..(Len(m.data) - l.p)
      /\ Rest(l) = HeaderLen(m, l.p) + n - l.j + 1
    BY <1>8, InChunkType
<1>10. Rest(l) = n /\ n \in Nat \ {0}
    BY <1>2, <1>9
<1>11. /\ This.data \in Seq(Token) /\ Len(This.data) = l.p /\ This.len > 0
       /\ \A i \in 1..l.p : This.data[i] = m.data[i]
  <2>1. m.data \in Seq(Token)
    BY <1>9, SeqMonotonic DEF Token
  <2>2. l.p <= Len(m.data)
    BY <1>9
  <2>3. SubSeq(m.data, 1, l.p) \in Seq(Token) /\ Len(SubSeq(m.data, 1, l.p)) = l.p
    BY <1>9, <2>1, <2>2, Prefix, SMTT(30)
  <2>4. \A i \in 1..l.p : SubSeq(m.data, 1, l.p)[i] = m.data[i]
    BY <1>9, <2>1, <2>2, Prefix
  <2>5. This.len > 0
    BY <1>4, <1>9
  <2>6. This.data \in Seq(Token) /\ Len(This.data) = l.p
    BY <1>4, <2>3
  <2>7. \A i \in 1..l.p : This.data[i] = m.data[i]
    BY <1>4, <2>4
  <2> QED BY <2>5, <2>6, <2>7
<1>12. PayloadSize = n
  <2>1. This.len - Len(This.data) = Len(m.data) - l.p
    BY <1>4, <1>11
  <2>2. PayloadSize = Smaller(Len(m.data) - l.p, l.cs)
    BY <1>1, <2>1 DEF PayloadSize
  <2>3. n = Smaller(l.cs, Len(m.data) - l.p)
    BY DEF Piece
  <2>4. PICK y : y = Len(m.data) - l.p
    OBVIOUS
  <2>5. y \in Nat /\ l.cs \in Nat
    BY <1>9, <2>4
  <2> QED BY <2>2, <2>3, <2>4, <2>5 DEF Smaller
<1>13. n <= Len(in_buffer) /\ Len(in_buffer) >= 1
  <2>1. Required = n
    BY <1>11, <1>12 DEF Required
  <2> QED BY <1>6, <1>10, <1>11, <2>1 DEF Grown
<1>14. /\ L[1 + Rest(l)] = NextChunk(m, l)
       /\ \A k \in 1..Rest(l) : k <= Len(in_buffer)
             => in_buffer[k] = TokenOf(m, l.p, l.j + k - 1)
    BY <1>13, Parsed
<1>15. ASSUME NEW k \in 1..n PROVE in_buffer[k] = m.data[l.p + k]
  <2>1. k \in 1..Rest(l) /\ k <= Len(in_buffer) /\ k \in Nat \ {0}
    BY <1>6, <1>10, <1>13
  <2>2. in_buffer[k] = TokenOf(m, l.p, l.j + k - 1)
    BY <1>14, <2>1
  <2>3. l.j + k - 1 = HeaderLen(m, l.p) + k
    BY <1>2, <1>9, <2>1
  <2>4. TokenOf(m, l.p, HeaderLen(m, l.p) + k) = m.data[l.p + k]
    BY <1>8, <2>1, PayloadTokens
  <2> QED BY <2>2, <2>3, <2>4
<1>16. PICK s : s = SubSeq(in_buffer, 1, n)
    OBVIOUS
<1>17. /\ s \in Seq(Token) /\ Len(s) = n
       /\ \A i \in 1..n : s[i] = in_buffer[i]
    BY <1>5, <1>10, <1>13, <1>16, Prefix
<1>18. PICK a : a = This.data
    OBVIOUS
<1>19. /\ a \o s \in Seq(Token) /\ Len(a \o s) = l.p + n
       /\ \A i \in 1..l.p : (a \o s)[i] = m.data[i]
       /\ \A i \in 1..n : (a \o s)[l.p + i] = m.data[l.p + i]
  <2>1. a \in Seq(Token) /\ Len(a) = l.p
    BY <1>11, <1>18
  <2>2. a \o s \in Seq(Token) /\ Len(a \o s) = Len(a) + Len(s)
    BY <1>17, <2>1, ConcatElements
  <2>3. \A i \in 1..Len(a) : (a \o s)[i] = a[i]
    BY <1>17, <2>1, ConcatElements
  <2>4. \A i \in 1..Len(s) : (a \o s)[Len(a) + i] = s[i]
    BY <1>17, <2>1, ConcatElements
  <2>5. Len(a \o s) = l.p + n
    BY <1>17, <2>1, <2>2
  <2>6. \A i \in 1..l.p : (a \o s)[i] = m.data[i]
    BY <1>11, <1>18, <2>1, <2>3
  <2>7. \A i \in 1..n : (a \o s)[l.p + i] = m.data[l.p + i]
    BY <1>15, <1>17, <2>1, <2>4
  <2> QED BY <2>2, <2>5, <2>6, <2>7
<1>20. PICK d : d = SubSeq(m.data, 1, l.p + n)
    OBVIOUS
<1>21. /\ d \in Seq(Token) /\ Len(d) = l.p + n
       /\ \A i \in 1..(l.p + n) : d[i] = m.data[i]
  <2>1. m.data \in Seq(Token) /\ l.p + n \in Nat /\ l.p + n <= Len(m.data)
    <3>1. m.data \in Seq(Token)
        BY <1>9, SeqMonotonic DEF Token
    <3>2. PICK y : y = Len(m.data)
        OBVIOUS
    <3>3. y \in Nat /\ l.p \in Nat /\ n \in 1..(y - l.p)
        BY <1>9, <3>2
    <3>4. l.p + n \in Nat /\ l.p + n <= y
        BY <3>3
    <3> QED BY <3>1, <3>2, <3>4
  <2> QED BY <1>20, <2>1, Prefix
<1>22. ASSUME NEW i \in 1..(l.p + n) PROVE (a \o s)[i] = d[i]
  <2>1. CASE i <= l.p
    <3>1. i \in 1..l.p
        BY <1>9, <1>10, <2>1
    <3> QED BY <1>19, <1>21, <3>1
  <2>2. CASE i > l.p
    <3>1. i \in Int /\ i <= l.p + n
        BY <1>9, <1>10
    <3>5. l.p \in Nat /\ n \in Nat
        BY <1>9, <1>10
    <3>2. PICK j \in 1..n : i = l.p + j
        BY <2>2, <3>1, <3>5, Above
    <3>3. d[i] = m.data[l.p + j]
        BY <1>21, <3>2
    <3>4. (a \o s)[l.p + j] = m.data[l.p + j]
        BY <1>19, <3>2
    <3> QED BY <3>2, <3>3, <3>4
  <2>3. l.p \in Nat /\ i \in Int
    BY <1>9, <1>10
  <2>4. i <= l.p \/ i > l.p
    BY <2>3
  <2> QED BY <2>1, <2>2, <2>4
<1>23. a \o s = d
    BY <1>19, <1>21, <1>22, SeqEqual
<1>24. L[1 + n] = NextChunk(m, l)
    BY <1>10, <1>14
<1> QED BY <1>1, <1>3, <1>7, <1>9, <1>11, <1>12, <1>13, <1>16, <1>18, <1>19, <1>20, <1>23,
           <1>24

\* The payload of a chunk: the next chunk begins behind it.
LEMMA PayloadLink == LinkInv /\ ReadMessagePayload /\ UNCHANGED writerVars => LinkInv'
<1> SUFFICES ASSUME LinkInv, ReadMessagePayload, UNCHANGED writerVars PROVE LinkInv'
    OBVIOUS
<1>1. PICK L : Linked(L)
    BY LinkTypes
<1>2. PICK l : l = L[1]
    OBVIOUS
<1>3. PICK m : m = sent[l.n]
    OBVIOUS
<1>4. PICK n : n = Piece(m, l.p, l.cs)
    OBVIOUS
<1>5. PICK q : q = L[1 + n]
    OBVIOUS
<1>6. pc = "payload" /\ Grown /\ (This.len > 0 => Grown)
    BY DEF ReadMessagePayload
<1>7. m \in Sendable /\ AtPayload(l) /\ This = chunks[m.cid] /\ PayloadSize = n
    BY <1>1, <1>2, <1>3, <1>4, <1>6, PayloadParsed
<1>8. l \in Label /\ n \in 1..(Len(m.data) - l.p) /\ n <= Len(in_buffer)
    BY <1>1, <1>2, <1>3, <1>4, <1>6, PayloadParsed
<1>9. q = NextChunk(m, l)
    BY <1>1, <1>2, <1>3, <1>4, <1>5, <1>6, PayloadParsed
<1>10. PICK d : d = SubSeq(m.data, 1, l.p + n)
    OBVIOUS
<1>11. This.data \o SubSeq(in_buffer, 1, n) = d
    BY <1>1, <1>2, <1>3, <1>4, <1>6, <1>10, PayloadParsed
<1>12. Len(d) = l.p + n
    BY <1>1, <1>2, <1>3, <1>4, <1>6, <1>11, PayloadParsed, SMTT(30)
<1>13. m.cid \in Cids /\ m.data \in Seq(DataToken) /\ Len(m.data) \in Nat
    BY <1>7 DEF Sendable
<1>14. l.p \in Nat /\ l.n \in Nat /\ n \in Nat
    BY <1>8, <1>13 DEF Label
<1>15. PICK c : c = chunks[m.cid]
    OBVIOUS
<1>16. chunks \in [Cids -> Chunk] /\ c \in Chunk
    BY <1>13, <1>15, LinkTypes
<1>17. cur.cid = m.cid /\ This = c /\ Carries(c, m, l.p) /\ OthersClosed(m)
    BY <1>3, <1>7, <1>15 DEF AtPayload
<1>18. c.len = Len(m.data) /\ c.type = m.type /\ c.sid = m.sid /\ c.ts = m.ts % Mask
    BY <1>17 DEF Carries, Heads
<1>19. sent' = sent /\ delivered' = delivered /\ in_chunk_size' = in_chunk_size
    BY DEF ReadMessagePayload, writerVars, control
<1>20. Consume(n) /\ ReaderInv'
    BY <1>7, LinkTypes, PayloadInv DEF ReadMessagePayload
<1>21. Len(delivered) = l.n - 1 /\ l.cs = in_chunk_size
    BY <1>1, <1>2, <1>6, Standing
<1>22. \A i \in 1..Len(delivered) : delivered[i] = Stamped(sent[i])
    BY <1>1, Standing
<1>23. CASE l.p + n < Len(m.data)
  <2>1. Len(d) # c.len
    BY <1>12, <1>13, <1>14, <1>18, <1>23
  <2>2. /\ pc' = "basic"
        /\ chunks' = [chunks EXCEPT ![m.cid].data = d,
                                    ![m.cid].alloc = IF @ = NULL THEN c.len ELSE @]
    BY <1>7, <1>11, <1>17, <2>1 DEF ReadMessagePayload
  <2>3. PICK x : x = IF c.alloc = NULL THEN c.len ELSE c.alloc
    OBVIOUS
  <2>4. PICK e : e = [c EXCEPT !.data = d, !.alloc = x]
    OBVIOUS
  <2>5. chunks' = [chunks EXCEPT ![m.cid] = e]
    BY <1>13, <1>15, <1>16, <2>2, <2>3, <2>4
  <2>6. Carries(e, m, l.p + n)
    <3>1. e = [fresh |-> c.fresh, extended |-> c.extended, delta |-> c.delta, ts |-> c.ts,
               len |-> c.len, type |-> c.type, sid |-> c.sid, open |-> c.open,
               alloc |-> x, data |-> d]
        BY <1>16, <2>4 DEF Chunk
    <3> QED BY <1>10, <1>17, <3>1 DEF Carries, Heads
  <2>7. chunks'[m.cid] = e /\ \A y \in Cids : y # m.cid => chunks'[y] = chunks[y]
    BY <1>13, <1>16, <2>5
  <2>8. OthersClosed(m)'
    BY <1>17, <2>7 DEF OthersClosed
  <2>9. q.n = l.n /\ q.p = l.p + n /\ q.j = 1 /\ q.cs = l.cs
    BY <1>4, <1>9, <1>23 DEF NextChunk
  <2>10. q.p # 0
    BY <1>13, <1>14, <1>8, <2>9
  <2>11. AtBasic(q)'
    BY <1>3, <1>19, <2>2, <2>6, <2>7, <2>8, <2>9, <2>10 DEF AtBasic
  <2>12. DeliveredTo(q)'
    BY <1>1, <1>2, <1>6, <1>19, <2>2, <2>9, StillDelivered
  <2>13. ReaderAt(q)'
    BY <2>11 DEF ReaderAt
  <2> QED BY <1>1, <1>5, <1>8, <1>14, <1>20, <2>12, <2>13, ReaderStep
<1>24. CASE ~(l.p + n < Len(m.data))
  <2>1. l.p + n = Len(m.data)
    BY <1>8, <1>13, <1>14, <1>24
  <2>2. Len(d) = c.len
    BY <1>12, <1>18, <2>1
  <2>3. d = m.data
    BY <1>10, <1>13, <2>1, SubSeqFull
  <2>4. /\ pc' = "hook" /\ chunks' = [chunks EXCEPT ![m.cid] = Closed(c)]
        /\ msg' = [cid |-> m.cid, type |-> c.type, sid |-> c.sid, ts |-> c.ts, data |-> d]
    BY <1>7, <1>11, <1>15, <1>17, <2>2 DEF ReadMessagePayload
  <2>5. msg' = Stamped(m)
    BY <1>7, <1>18, <2>3, <2>4 DEF Stamped, Sendable
  <2>6. /\ ~Closed(c).open /\ chunks'[m.cid] = Closed(c)
        /\ \A y \in Cids : y # m.cid => chunks'[y] = chunks[y]
    BY <1>13, <1>16, <2>4, ClosedType
  <2>7. AllClosed'
    BY <1>17, <2>6 DEF AllClosed, OthersClosed
  <2>8. q.n = l.n + 1 /\ q.p = 0 /\ q.j = 1 /\ q.cs = SizeBehind(m, l.cs)
    BY <1>4, <1>9, <1>24 DEF NextChunk
  <2>9. AtHook(q)'
    BY <2>4, <2>7, <2>8 DEF AtHook
  <2>10. SizeBehind(m, l.cs) = SizeBehind(Stamped(m), in_chunk_size)
    BY <1>7, <1>21 DEF SizeBehind, Stamped, Sendable
  <2>11. q.n - 2 = Len(delivered) /\ q.n - 1 = l.n
    BY <1>14, <1>21, <2>8
  <2>12. DeliveredTo(q)'
    BY <1>3, <1>19, <1>22, <2>4, <2>5, <2>8, <2>10, <2>11 DEF DeliveredTo, SizeBehind
  <2>13. ReaderAt(q)'
    BY <2>9 DEF ReaderAt
  <2> QED BY <1>1, <1>5, <1>8, <1>14, <1>20, <2>12, <2>13, ReaderStep
<1> QED BY <1>23, <1>24

\* The parser stands at or behind what was sent.
LEMMA FirstLabel ==
    ASSUME LinkInv, NEW L, Linked(L), NEW l, l = L[1]
    PROVE  l \in Label /\ Within(l) /\ l.n \in 1..(Len(sent) + 1)
<1>1. LabelsOK(L) /\ Len(sent) \in Nat
    BY LinkTypes DEF Linked
<1>2. Len(Stream) \in Nat
    BY LinkTypes, StreamType
<1>3. l \in Label /\ Within(l)
  <2>1. 1 \in 1..(Len(Stream) + 1)
    BY <1>2
  <2> QED BY <1>1, <2>1 DEF LabelsOK
<1>4. l.n \in 1..(Len(sent) + 1)
    BY <1>1, <1>3 DEF Within, Label
<1> QED BY <1>3, <1>4

\* The hook delivers the message and takes over the chunk size it announces.
LEMMA OnRecvMessageLink == LinkInv /\ OnRecvMessage /\ UNCHANGED writerVars => LinkInv'
<1> SUFFICES ASSUME LinkInv, OnRecvMessage, UNCHANGED writerVars PROVE LinkInv'
    OBVIOUS
<1>1. PICK L : Linked(L)
    BY LinkTypes
<1>2. PICK l : l = L[1]
    OBVIOUS
<1>3. PICK m : m = sent[l.n - 1]
    OBVIOUS
<1>4. pc = "hook" /\ AtHook(l) /\ DeliveredTo(l)
    BY <1>1, <1>2, Standing DEF OnRecvMessage, Linked
<1>5. /\ Len(delivered) = l.n - 2 /\ msg = Stamped(m) /\ l.cs = SizeBehind(msg, in_chunk_size)
      /\ \A i \in 1..Len(delivered) : delivered[i] = Stamped(sent[i])
    BY <1>3, <1>4 DEF DeliveredTo
<1>6. l.n \in 1..(Len(sent) + 1) /\ sent \in Seq(Sendable) /\ Len(sent) \in Nat
    BY <1>1, <1>2, FirstLabel, LinkTypes
<1>7. delivered \in Seq(Message) /\ Len(delivered) \in Nat /\ msg \in Message
    BY <1>4, LinkTypes, LenProperties DEF ReaderInv, ReaderTypeOK
<1>8. l.n - 1 \in 1..Len(sent)
    BY <1>5, <1>6, <1>7
<1>9. m \in Sendable
    BY <1>3, <1>6, <1>8
<1>10. msg.type = m.type /\ msg.data = m.data
    BY <1>5, <1>9 DEF Stamped, Sendable
<1>11. ~DecodeFails
  <2>1. m.type \in ControlTypes => Len(m.data) >= ControlSize
    BY <1>9 DEF Sendable
  <2>2. Len(m.data) \in Nat /\ ControlSize \in Nat
    BY <1>9, ReaderAssumption DEF Sendable
  <2> QED BY <1>10, <2>1, <2>2 DEF DecodeFails
<1>12. pc' = "basic" /\ delivered' = Append(delivered, msg)
    BY <1>11 DEF OnRecvMessage
<1>13. in_chunk_size' = l.cs
    BY <1>5, <1>11 DEF OnRecvMessage, SizeBehind
<1>14. /\ Len(delivered') = Len(delivered) + 1 /\ delivered'[Len(delivered) + 1] = msg
       /\ \A i \in 1..Len(delivered) : delivered'[i] = delivered[i]
    BY <1>7, <1>12, AppendProperties
<1>15. sent' = sent /\ chunks' = chunks
    BY DEF OnRecvMessage, writerVars
<1>16. Stream' = Stream
    BY DEF OnRecvMessage, stream, Stream
<1>17. ASSUME NEW i \in 1..Len(delivered') PROVE delivered'[i] = Stamped(sent[i])
  <2>1. CASE i \in 1..Len(delivered)
    BY <1>5, <1>14, <2>1
  <2>2. CASE i \notin 1..Len(delivered)
    <3>1. i = Len(delivered) + 1 /\ i = l.n - 1
        BY <1>5, <1>6, <1>7, <1>14, <2>2
    <3>2. delivered'[i] = msg
        BY <1>14, <3>1
    <3> QED BY <1>3, <1>5, <3>1, <3>2
  <2> QED BY <2>1, <2>2
<1>18. Len(delivered') = l.n - 1
    BY <1>5, <1>6, <1>14
<1>19. DeliveredTo(l)'
    BY <1>12, <1>13, <1>15, <1>17, <1>18 DEF DeliveredTo
<1>20. l.p = 0 /\ l.j = 1 /\ AllClosed
    BY <1>4 DEF AtHook
<1>21. ReaderAt(l)'
  <2>1. AllClosed'
    BY <1>15, <1>20 DEF AllClosed
  <2>2. ~(l.p > 0)
    BY <1>20
  <2>3. AtBasic(l)'
    BY <1>12, <1>20, <2>1, <2>2 DEF AtBasic
  <2> QED BY <2>3 DEF ReaderAt
<1>22. ReaderInv'
    BY LinkTypes, OnRecvMessageInv
<1> QED BY <1>1, <1>2, <1>16, <1>19, <1>21, <1>22, QuietStep

\* The parser refuses nothing the writer writes, and takes nothing for something else.
LEMMA NothingRefused ==
    LinkInv => ~RejectChunkStart /\ ~RejectLengthChange /\ ~IgnoreEmptyMessage /\ ~Desynchronize
<1> SUFFICES ASSUME LinkInv
             PROVE  /\ ~RejectChunkStart /\ ~RejectLengthChange
                    /\ ~IgnoreEmptyMessage /\ ~Desynchronize
    OBVIOUS
<1>1. PICK L : Linked(L)
    BY LinkTypes
<1>2. PICK l : l = L[1]
    OBVIOUS
<1>3. PICK m : m = sent[l.n]
    OBVIOUS
<1>4. ASSUME pc = "basic", Grown
      PROVE  /\ Head(in_buffer) \in BasicHeader
             /\ ChunkStartOk(Head(in_buffer).fmt, Head(in_buffer).cid)
  <2>1. ChunkStartOk(Head(in_buffer).fmt, Head(in_buffer).cid)
    BY <1>1, <1>2, <1>3, <1>4, BasicParsed
  <2>2. Head(in_buffer) = [k |-> "basic", fmt |-> IF l.p = 0 THEN 0 ELSE 3, cid |-> m.cid]
    BY <1>1, <1>2, <1>3, <1>4, BasicParsed
  <2>3. m.cid \in Cids
    BY <1>1, <1>2, <1>3, <1>4, BasicParsed
  <2>4. (IF l.p = 0 THEN 0 ELSE 3) \in 0..3
    OBVIOUS
  <2>5. Head(in_buffer) \in BasicHeader
    BY <2>2, <2>3, <2>4 DEF BasicHeader
  <2> QED BY <2>1, <2>5
<1>5. ASSUME pc = "header", Grown
      PROVE  /\ Head(in_buffer) \in MessageHeader
             /\ ~LengthChanged(Head(in_buffer))
    BY <1>1, <1>2, <1>3, <1>5, HeaderParsed
<1>6. ASSUME pc = "payload", This.len = 0 PROVE FALSE
  <2>1. ~(This.len > 0)
    BY <1>6
  <2>2. PICK n : n = Piece(m, l.p, l.cs)
    OBVIOUS
  <2>3. This.len > 0
    BY <1>1, <1>2, <1>3, <1>6, <2>1, <2>2, PayloadParsed
  <2> QED BY <2>1, <2>3
<1>7. ~RejectChunkStart
    BY <1>4 DEF RejectChunkStart
<1>8. ~RejectLengthChange
    BY <1>5 DEF RejectLengthChange
<1>9. ~IgnoreEmptyMessage
    BY <1>6 DEF IgnoreEmptyMessage
<1>10. ~Desynchronize
    BY <1>4, <1>5 DEF Desynchronize
<1> QED BY <1>7, <1>8, <1>9, <1>10

(***************************************************************************)
(* The steps of the writer.                                                *)
(***************************************************************************)

\* What the caller of the send functions may hand over.
LEMMA NumberedType ==
    ASSUME NEW m \in Outgoing, NEW n \in 1..MaxMessages
    PROVE  /\ Numbered(m, n) \in Sendable
           /\ Numbered(m, n).data \in Seq(DataToken) /\ Numbered(m, n).data # <<>>
<1>1. /\ m.cid \in Cids /\ m.type \in Types /\ m.sid \in Sids
      /\ m.ts \in 0..(Raw - 1) /\ m.size \in 1..MaxLength
      /\ \A i \in 1..m.size : Numbered(m, n).data[i] \in DataToken
      /\ m.type = "SetChunkSize" => Decode(Numbered(m, n).data) > 0
    BY WriterAssumption
<1>2. PICK d : d = Numbered(m, n).data
    OBVIOUS
<1>3. d = [i \in 1..m.size |->
              [k |-> "data", byte |-> [msg |-> n, i |-> i, value |-> m.value]]]
    BY <1>2 DEF Numbered
<1>4. m.size \in Nat /\ \A i \in 1..m.size : d[i] \in DataToken
    BY <1>1, <1>2, WireAssumption
<1>5. d \in [1..m.size -> DataToken]
    BY <1>3, <1>4
<1>6. d \in Seq(DataToken) /\ Len(d) = m.size
    BY <1>4, <1>5
<1>7. d # <<>>
    BY <1>1, <1>6
<1>8. Numbered(m, n) = [cid |-> m.cid, type |-> m.type, sid |-> m.sid, ts |-> m.ts,
                        data |-> d]
    BY <1>2 DEF Numbered
<1>9. m.type \in ControlTypes => Len(d) >= ControlSize
    BY <1>6, LinkAssumption
<1>10. m.type = "SetChunkSize" => Decode(d) > 0
    BY <1>1, <1>2
<1>11. Numbered(m, n) \in Sendable
  <2>1. Numbered(m, n) \in [cid : Cids, type : Types, sid : Sids, ts : 0..(Raw - 1),
                            data : Seq(DataToken)]
    BY <1>1, <1>6, <1>8
  <2> QED BY <1>1, <1>6, <1>8, <1>9, <1>10, <2>1 DEF Sendable
<1> QED BY <1>2, <1>6, <1>7, <1>11

\* A message handed to the writer begins where the labels end.
LEMMA SendMessageLink ==
    LinkInv /\ SendMessage
        /\ UNCHANGED <<in_buffer, recv_bytes, read_bytes, chunks, cur, msg, pc, control,
                       delivered>>
    => LinkInv'
<1> SUFFICES ASSUME LinkInv, SendMessage,
                    UNCHANGED <<in_buffer, recv_bytes, read_bytes, chunks, cur, msg, pc, control,
                                delivered>>
             PROVE  LinkInv'
    OBVIOUS
<1>1. PICK L : Linked(L)
    BY LinkTypes
<1>2. sent \in Seq(Sendable) /\ Len(sent) \in Nat /\ LabelsOK(L)
    BY <1>1, LinkTypes DEF Linked
<1>4. PICK message : /\ message \in Sendable /\ message.data \in Seq(DataToken)
                     /\ message.data # <<>>
                     /\ sent' = Append(sent, message) /\ left' = message.data
  <2>1. PICK m \in Outgoing :
            /\ sent' = Append(sent, Numbered(m, Len(sent) + 1))
            /\ left' = Numbered(m, Len(sent) + 1).data
    BY DEF SendMessage
  <2>2. Len(sent) + 1 \in 1..MaxMessages
    BY <1>2, WriterAssumption DEF SendMessage
  <2> QED BY <2>1, <2>2, NumberedType
<1>5. left = <<>> /\ out_chunk_size' = out_chunk_size /\ Stream' = Stream
    BY DEF SendMessage, Stream
<1>6. PICK N : N = Len(sent)
    OBVIOUS
<1>7. /\ Len(sent') = N + 1 /\ sent'[N + 1] = message /\ N \in Nat
      /\ \A i \in 1..N : sent'[i] = sent[i]
    BY <1>2, <1>4, <1>6, AppendProperties
<1>8. Len(message.data) \in Nat \ {0}
    BY <1>4 DEF Sendable
<1>9. Len(Stream) \in Nat
    BY LinkTypes, StreamType
<1>10. ASSUME NEW i \in 1..(Len(Stream) + 1) PROVE Within(L[i])'
  <2>1. PICK l : l = L[i]
    OBVIOUS
  <2>2. l \in Label /\ Within(l)
    BY <1>2, <2>1 DEF LabelsOK
  <2>3. CASE l.n <= N
    <3>1. l.n \in 1..N
        BY <1>7, <2>2, <2>3 DEF Label
    <3>2. l.p < Len(sent[l.n].data) /\ l.j <= ChunkLen(sent[l.n], l.p, l.cs)
        BY <1>6, <1>7, <2>2, <2>3 DEF Within
    <3>3. sent'[l.n] = sent[l.n] /\ l.n <= Len(sent')
        BY <1>7, <3>1
    <3> QED BY <2>1, <3>2, <3>3 DEF Within
  <2>4. CASE ~(l.n <= N)
    <3>1. l.n = N + 1 /\ l.p = 0 /\ l.j = 1
        BY <1>6, <2>2, <2>4 DEF Within
    <3>2. sent'[l.n] = message /\ l.n <= Len(sent')
        BY <1>7, <3>1
    <3>3. 0 < Len(message.data) /\ l.cs \in Nat \ {0}
        BY <1>8, <2>2 DEF Label
    <3>4. ChunkLen(message, 0, l.cs) \in Nat \ {0}
        BY <1>4, <3>3, ChunkLenType
    <3>5. 1 <= ChunkLen(message, 0, l.cs)
        BY <3>4
    <3> QED BY <2>1, <3>1, <3>2, <3>3, <3>5 DEF Within
  <2> QED BY <2>3, <2>4
<1>11. ASSUME NEW i \in 1..Len(Stream) PROVE LabelOK(L, i)'
  <2>1. PICK l : l = L[i]
    OBVIOUS
  <2>2. l \in Label /\ LabelOK(L, i)
    BY <1>2, <1>9, <2>1 DEF LabelsOK
  <2>3. l.n \in 1..N
    BY <1>6, <1>7, <2>1, <2>2 DEF LabelOK, Label
  <2>4. sent'[l.n] = sent[l.n] /\ l.n <= Len(sent')
    BY <1>7, <2>3
  <2>5. Rest(l)' = Rest(l)
    BY <2>4 DEF Rest
  <2>6. /\ Stream[i] = TokenOf(sent[l.n], l.p, l.j)
        /\ i + Rest(l) <= Len(Stream) + 1
        /\ \A k \in 1..(Rest(l) - 1) : L[i + k] = At(l, l.j + k)
        /\ L[i + Rest(l)] = NextChunk(sent[l.n], l)
    BY <2>1, <2>2 DEF LabelOK
  <2> QED BY <1>5, <2>1, <2>4, <2>5, <2>6 DEF LabelOK
<1>12. LabelsOK(L)'
    BY <1>2, <1>5, <1>10, <1>11 DEF LabelsOK
<1>13. PICK l : l = L[1]
    OBVIOUS
<1>14. l \in Label /\ Within(l) /\ l.n \in 1..(N + 1) /\ ReaderAt(l) /\ DeliveredTo(l)
    BY <1>1, <1>6, <1>13, FirstLabel DEF Linked
<1>15. UNCHANGED <<chunks, cur, msg, pc, in_chunk_size, delivered>>
    BY DEF control
<1>16. ReaderAt(l)'
  <2>1. CASE l.n <= N
    <3>1. sent'[l.n] = sent[l.n]
        BY <1>7, <1>14, <2>1
    <3> QED BY <1>14, <1>15, <3>1 DEF ReaderAt, AtBasic, AtHeader, AtExt, AtPayload, AtHook,
               AllClosed, OthersClosed, Opens, Continues
  <2>2. CASE ~(l.n <= N)
    <3>1. l.p = 0 /\ l.j = 1
        BY <1>6, <1>14, <2>2 DEF Within
    <3>2. AtBasic(l) \/ AtHook(l)
      <4>1. ~AtHeader(l) /\ ~AtExt(l)
        BY <3>1 DEF AtHeader, AtExt
      <4>2. HeaderLen(sent[l.n], 0) + 1 # 1
        <5>1. ExtLen(sent[l.n]) \in Nat
            BY WireAssumption DEF ExtLen
        <5> QED BY <5>1 DEF HeaderLen
      <4>3. ~AtPayload(l)
        BY <3>1, <4>2 DEF AtPayload
      <4> QED BY <1>14, <4>1, <4>3 DEF ReaderAt
    <3>3. (AtBasic(l) => AtBasic(l)') /\ (AtHook(l) => AtHook(l)')
        BY <1>15, <3>1 DEF AtBasic, AtHook, AllClosed
    <3> QED BY <3>2, <3>3 DEF ReaderAt
  <2> QED BY <2>1, <2>2
<1>17. DeliveredTo(l)'
  <2>1. delivered \in Seq(Message) /\ Len(delivered) \in Nat
    BY LinkTypes, LenProperties DEF ReaderInv, ReaderTypeOK
  <2>2. \A i \in 1..Len(delivered) : delivered[i] = Stamped(sent[i])
    BY <1>14 DEF DeliveredTo
  <2>3. Len(delivered) <= l.n - 1
    BY <1>14, <2>1 DEF DeliveredTo
  <2>4. Len(delivered) <= N
    BY <1>7, <1>14, <2>1, <2>3
  <2>5. \A i \in 1..Len(delivered) : i \in 1..N
    BY <1>7, <2>1, <2>4
  <2>6. \A i \in 1..Len(delivered) : delivered[i] = Stamped(sent'[i])
    BY <1>7, <2>2, <2>5
  <2>7. CASE pc = "hook"
    <3>1. /\ Len(delivered) = l.n - 2 /\ msg = Stamped(sent[l.n - 1])
          /\ l.cs = SizeBehind(msg, in_chunk_size)
        BY <1>14, <2>7 DEF DeliveredTo
    <3>2. PICK y : y = l.n - 1
        OBVIOUS
    <3>3. y \in 1..N
        BY <1>7, <1>14, <2>1, <3>1, <3>2
    <3>4. sent'[y] = sent[y]
        BY <1>7, <3>3
    <3>5. msg' = Stamped(sent'[l.n - 1])
        BY <1>15, <3>1, <3>2, <3>4
    <3> QED BY <1>15, <2>6, <2>7, <3>1, <3>5 DEF DeliveredTo
  <2>8. CASE pc # "hook"
    <3>1. Len(delivered) = l.n - 1 /\ l.cs = in_chunk_size
        BY <1>14, <2>8 DEF DeliveredTo
    <3> QED BY <1>15, <2>6, <2>8, <3>1 DEF DeliveredTo
  <2> QED BY <2>7, <2>8
<1>18. PICK q : q = L[Len(Stream) + 1]
    OBVIOUS
<1>19. q.j = 1 /\ q.cs = out_chunk_size /\ q.n = N + 1 /\ q.p = 0
    BY <1>1, <1>5, <1>6, <1>18 DEF Linked, WriterAt
<1>20. WriterAt(q)'
  <2>1. left' = SubSeq(message.data, 1, Len(message.data))
    BY <1>4, SubSeqFull
  <2>2. sent'[q.n].data = message.data /\ q.n = Len(sent') /\ q.p + 1 = 1
    BY <1>7, <1>19
  <2>3. left' # <<>>
    BY <1>4
  <2> QED BY <1>5, <1>19, <2>1, <2>2, <2>3 DEF WriterAt
<1>21. Linked(L)'
    BY <1>5, <1>12, <1>13, <1>16, <1>17, <1>18, <1>20 DEF Linked
<1>22. ReaderInv'
  <2>1. UNCHANGED readerVars
    BY DEF SendMessage, readerVars, control
  <2> QED BY <2>1, InvNext, LinkTypes
<1>23. LinkTypeOK'
  <2>1. sent' \in Seq(Sendable)
    BY <1>2, <1>4, AppendProperties
  <2>2. Len(sent') <= MaxMessages
    BY <1>6, <1>7, WriterAssumption DEF SendMessage
  <2> QED BY <1>4, <1>5, <2>1, <2>2, LinkTypes DEF LinkTypeOK
<1>24. L \in [1..(Len(Stream') + 1) -> Label]
    BY <1>2, <1>5 DEF LabelsOK
<1> QED BY <1>21, <1>22, <1>23, <1>24 DEF LinkInv

\* A label fits its token in the next state, when nothing is sent meanwhile.
LEMMA StillLabelled ==
    ASSUME NEW M, NEW i, NEW l, l = M[i], sent' = sent,
           l.n <= Len(sent), Stream'[i] = TokenOf(sent[l.n], l.p, l.j),
           i + Rest(l) <= Len(Stream') + 1,
           \A k \in 1..(Rest(l) - 1) : M[i + k] = At(l, l.j + k),
           M[i + Rest(l)] = NextChunk(sent[l.n], l)
    PROVE  LabelOK(M, i)'
<1>1. Rest(l)' = Rest(l)
    BY DEF Rest
<1>2. Rest(M[i])' = Rest(l)
    BY <1>1
<1> QED BY <1>2 DEF LabelOK

\* A label that fitted fits in a longer stream.
LEMMA OldLabelled ==
    ASSUME LinkTypeOK, NEW L, LabelsOK(L), sent' = sent, Len(Stream) \in Nat,
           Len(Stream') \in Nat, Len(Stream') >= Len(Stream),
           NEW M, \A x \in 1..(Len(Stream) + 1) : M[x] = L[x],
           NEW i \in 1..Len(Stream), Stream'[i] = Stream[i]
    PROVE  LabelOK(M, i)'
<1>1. PICK l : l = L[i]
    OBVIOUS
<1>2. i \in 1..(Len(Stream) + 1) /\ i \in Nat
    OBVIOUS
<1>3. l = M[i] /\ l \in Label /\ Within(l)
    BY <1>1, <1>2 DEF LabelsOK
<1>4. l.n <= Len(sent) /\ Stream[i] = TokenOf(sent[l.n], l.p, l.j)
    BY <1>1 DEF LabelsOK, LabelOK
<1>5. i + Rest(l) <= Len(Stream) + 1
    BY <1>1 DEF LabelsOK, LabelOK
<1>6. L[i + Rest(l)] = NextChunk(sent[l.n], l)
    BY <1>1 DEF LabelsOK, LabelOK
<1>7. \A k \in 1..(Rest(l) - 1) : L[i + k] = At(l, l.j + k)
    BY <1>1 DEF LabelsOK, LabelOK
<1>8. Rest(l) \in Nat \ {0}
    BY <1>3, <1>4, WithinType DEF InChunk
<1>9. ASSUME NEW k \in 1..(Rest(l) - 1) PROVE M[i + k] = At(l, l.j + k)
  <2>1. i + k \in 1..(Len(Stream) + 1)
    BY <1>2, <1>5, <1>8
  <2> QED BY <1>7, <2>1
<1>10. M[i + Rest(l)] = NextChunk(sent[l.n], l)
  <2>1. i + Rest(l) \in 1..(Len(Stream) + 1)
    BY <1>2, <1>5, <1>8
  <2> QED BY <1>6, <2>1
<1>11. i + Rest(l) <= Len(Stream') + 1
    BY <1>2, <1>5, <1>8
<1>12. Stream'[i] = TokenOf(sent[l.n], l.p, l.j)
    BY <1>4
<1> QED BY <1>3, <1>4, <1>9, <1>10, <1>11, <1>12, StillLabelled

\* The chunk q begins is appended to a stream of N tokens.
Appends(q, N, K) ==
    /\ Len(Stream') = N + K
    /\ \A i \in 1..N : Stream'[i] = Stream[i]
    /\ \A j \in 1..K : Stream'[N + j] = TokenOf(sent[q.n], q.p, j)

\* Its labels in M.
Appended(M, q, N, K) ==
    /\ M[N + K + 1] = NextChunk(sent[q.n], q)
    /\ \A x \in 1..K : M[N + x] = At(q, x)
    /\ \A x \in 1..K : Rest(At(q, x)) = K - x + 1

\* The labels of a new chunk fit its tokens.
LEMMA NewLabelled ==
    ASSUME sent' = sent, NEW q, q.n <= Len(sent),
           NEW N \in Nat, NEW K \in Nat, Appends(q, N, K), NEW M, Appended(M, q, N, K),
           NEW j \in 1..K
    PROVE  LabelOK(M, N + j)'
<1>13. /\ Len(Stream') = N + K /\ Stream'[N + j] = TokenOf(sent[q.n], q.p, j)
       /\ M[N + K + 1] = NextChunk(sent[q.n], q)
    BY DEF Appends, Appended
<1>14. \A x \in 1..K : M[N + x] = At(q, x)
    BY DEF Appended
<1>15. Rest(At(q, j)) = K - j + 1 /\ M[N + j] = At(q, j)
    BY DEF Appended
<1>1. PICK i : i = N + j
    OBVIOUS
<1>2. PICK l : l = At(q, j)
    OBVIOUS
<1>3. l = M[i] /\ Rest(l) = K - j + 1
    BY <1>1, <1>2, <1>15
<1>4. l.n = q.n /\ l.p = q.p /\ l.j = j /\ l.cs = q.cs
    BY <1>2 DEF At
<1>5. ASSUME NEW k \in 1..(Rest(l) - 1) PROVE M[i + k] = At(l, l.j + k)
  <2>1. k \in 1..((K - j + 1) - 1)
    BY <1>3
  <2>2. PICK x \in 1..K : x = j + k /\ (N + j) + k = N + x
    BY <2>1, Onward
  <2>3. M[N + x] = At(q, x)
    BY <1>14
  <2>4. At(l, x) = At(q, x)
    BY <1>4 DEF At
  <2> QED BY <1>1, <1>4, <2>2, <2>3, <2>4
<1>6. i + Rest(l) = N + K + 1
    BY <1>1, <1>3
<1>7. NextChunk(sent[q.n], l) = NextChunk(sent[q.n], q)
    BY <1>4 DEF NextChunk
<1>8. M[i + Rest(l)] = NextChunk(sent[l.n], l)
    BY <1>4, <1>6, <1>7, <1>13
<1>9. Stream'[i] = TokenOf(sent[l.n], l.p, l.j)
    BY <1>1, <1>4, <1>13
<1>10. i + Rest(l) <= Len(Stream') + 1
    BY <1>6, <1>13
<1>11. l.n <= Len(sent)
    BY <1>4
<1>12. LabelOK(M, i)'
    BY <1>3, <1>5, <1>8, <1>9, <1>10, <1>11, StillLabelled
<1> QED BY <1>1, <1>12

\* The labels of a stream that grows by a whole chunk.
LEMMA LabelsGrown ==
    ASSUME LinkTypeOK, NEW L, LabelsOK(L), NEW N \in Nat, N = Len(Stream),
           NEW q, q = L[N + 1], q \in Label, InChunk(q), q.j = 1, q.n = Len(sent),
           NEW m, m = sent[q.n],
           NEW K \in Nat \ {0}, K = ChunkLen(m, q.p, q.cs),
           NEW z, z = NextChunk(m, q),
           sent' = sent, Appends(q, N, K)
    PROVE  \E M : LabelsOK(M)' /\ M[1] = L[1] /\ M[Len(Stream') + 1] = z
<1>0. PICK M : M = [i \in 1..(N + K + 1) |-> IF i <= N THEN L[i]
                                             ELSE IF i <= N + K THEN At(q, i - N) ELSE z]
    OBVIOUS
<1>1. /\ q.n \in Nat \ {0} /\ q.p \in Nat /\ q.j \in Nat \ {0} /\ q.cs \in Nat \ {0}
      /\ m \in Sendable /\ m.data \in Seq(DataToken) /\ Len(m.data) \in Nat
      /\ q.p < Len(m.data)
      /\ Piece(m, q.p, q.cs) \in 1..(Len(m.data) - q.p)
    BY InChunkType
<1>2. sent \in Seq(Sendable) /\ Len(sent) \in Nat
    BY LenProperties DEF LinkTypeOK
<1>3. z \in Label /\ Within(z)
  <2>1. CASE q.p + Piece(m, q.p, q.cs) < Len(m.data)
    <3>1. PICK y : y = q.p + Piece(m, q.p, q.cs)
        OBVIOUS
    <3>9. PICK g : g = Piece(m, q.p, q.cs)
        OBVIOUS
    <3>10. g \in 1..(Len(m.data) - q.p) /\ y = q.p + g /\ q.p \in Nat /\ Len(m.data) \in Nat
        BY <1>1, <3>1, <3>9
    <3>2. y \in Nat /\ y < Len(m.data)
        BY <2>1, <3>1, <3>10
    <3>3. z = [n |-> q.n, p |-> y, j |-> 1, cs |-> q.cs]
        BY <2>1, <3>1 DEF NextChunk
    <3>4. ChunkLen(m, y, q.cs) \in Nat \ {0}
        BY <1>1, <3>2, ChunkLenType
    <3>5. z \in Label
        BY <1>1, <3>2, <3>3 DEF Label
    <3>6. z.n = q.n /\ z.p = y /\ z.j = 1 /\ z.cs = q.cs
        BY <3>3
    <3>7. 1 <= ChunkLen(m, y, q.cs) /\ q.n <= Len(sent)
        BY <1>2, <3>4
    <3>8. Within(z)
        BY <3>2, <3>6, <3>7 DEF Within
    <3> QED BY <3>5, <3>8
  <2>2. CASE ~(q.p + Piece(m, q.p, q.cs) < Len(m.data))
    <3>1. z = [n |-> q.n + 1, p |-> 0, j |-> 1, cs |-> SizeBehind(m, q.cs)]
        BY <2>2 DEF NextChunk
    <3>2. SizeBehind(m, q.cs) \in Nat \ {0}
      <4>1. m.data \in Seq(Token) /\ m.data # <<>>
        <5>1. m.data \in Seq(Token)
            BY <1>1, SeqMonotonic DEF Token
        <5>2. Len(m.data) # 0
            BY <1>1
        <5> QED BY <5>1, <5>2, EmptySeq
      <4>2. Decode(m.data) \in Nat
        BY <4>1, DecodeType
      <4>3. m.type = "SetChunkSize" => Decode(m.data) > 0
        BY <1>1 DEF Sendable
      <4> QED BY <1>1, <4>2, <4>3 DEF SizeBehind
    <3>3. z \in Label
        BY <1>1, <3>1, <3>2 DEF Label
    <3>4. Within(z)
        BY <1>2, <3>1 DEF Within
    <3> QED BY <3>3, <3>4
  <2> QED BY <2>1, <2>2
<1>4. \A i \in 1..(N + 1) : L[i] \in Label /\ Within(L[i])
    BY DEF LabelsOK
<1>5. At(q, 1) = q
    BY DEF At, Label
<1>6. ASSUME NEW j \in 1..K
      PROVE  /\ At(q, j) \in Label /\ Within(At(q, j)) /\ M[N + j] = At(q, j)
             /\ Rest(At(q, j)) = K - j + 1
  <2>1. /\ At(q, j).n = q.n /\ At(q, j).p = q.p /\ At(q, j).j = j /\ At(q, j).cs = q.cs
        /\ At(q, j) \in Label
    BY <1>1 DEF At, Label
  <2>2. Within(At(q, j))
    <3>1. q.n <= Len(sent) /\ j <= ChunkLen(m, q.p, q.cs)
        BY <1>2
    <3> QED BY <1>1, <2>1, <3>1 DEF Within
  <2>3. M[N + j] = At(q, j)
    <3>1. N + j \in 1..(N + K + 1) /\ ~(N + j <= N) /\ N + j <= N + K /\ (N + j) - N = j
        OBVIOUS
    <3> QED BY <1>0, <3>1
  <2>4. Rest(At(q, j)) = K - j + 1
    BY <2>1 DEF Rest
  <2> QED BY <2>1, <2>2, <2>3, <2>4
<1>7. ASSUME NEW i \in 1..(N + 1) PROVE M[i] = L[i]
  <2>1. CASE i <= N
    <3>1. i \in 1..(N + K + 1)
        OBVIOUS
    <3> QED BY <1>0, <2>1, <3>1
  <2>2. CASE ~(i <= N)
    <3>1. i = N + 1 /\ 1 \in 1..K
        BY <2>2
    <3>2. M[N + 1] = At(q, 1)
        BY <1>6, <3>1
    <3> QED BY <1>5, <3>1, <3>2
  <2> QED BY <2>1, <2>2
<1>8. M[N + K + 1] = z
  <2>1. N + K + 1 \in 1..(N + K + 1) /\ ~(N + K + 1 <= N) /\ ~(N + K + 1 <= N + K)
    OBVIOUS
  <2> QED BY <1>0, <2>1
<1>9. ASSUME NEW i \in 1..(N + K + 1) PROVE M[i] \in Label /\ Within(M[i])
  <2>1. CASE i <= N + 1
    <3>1. i \in 1..(N + 1)
        BY <2>1
    <3> QED BY <1>4, <1>7, <3>1
  <2>2. CASE \E j \in 1..K : i = N + j
    <3>1. PICK j \in 1..K : i = N + j
        BY <2>2
    <3> QED BY <1>6, <3>1
  <2>3. CASE i = N + K + 1
    BY <1>3, <1>8, <2>3
  <2> QED BY <2>1, <2>2, <2>3, Behind
<1>10. M \in [1..(Len(Stream') + 1) -> Label]
  <2>1. N + K + 1 = Len(Stream') + 1
    BY DEF Appends
  <2> QED BY <1>0, <1>9, <2>1
<1>11. ASSUME NEW i \in 1..(Len(Stream') + 1) PROVE Within(M[i])'
  <2>1. i \in 1..(N + K + 1)
    BY DEF Appends
  <2>2. PICK l : l = M[i]
    OBVIOUS
  <2>3. Within(l)
    BY <1>9, <2>1, <2>2
  <2> QED BY <2>2, <2>3 DEF Within
<1>15. Len(Stream) \in Nat /\ Len(Stream') \in Nat /\ Len(Stream') >= Len(Stream)
    BY DEF Appends
<1>16. ASSUME NEW i \in 1..N PROVE LabelOK(M, i)'
  <2>1. Stream'[i] = Stream[i]
    BY DEF Appends
  <2>2. \A x \in 1..(Len(Stream) + 1) : M[x] = L[x]
    BY <1>7
  <2>3. i \in 1..Len(Stream)
    OBVIOUS
  <2> QED BY <1>15, <2>1, <2>2, <2>3, OldLabelled
<1>17. ASSUME NEW j \in 1..K PROVE LabelOK(M, N + j)'
  <2>1. Appended(M, q, N, K)
    <3>1. \A x \in 1..K : M[N + x] = At(q, x)
        BY <1>6
    <3>2. \A x \in 1..K : Rest(At(q, x)) = K - x + 1
        BY <1>6
    <3> QED BY <1>8, <3>1, <3>2 DEF Appended
  <2>2. q.n <= Len(sent) /\ K \in Nat
    BY <1>2
  <2> QED BY <2>1, <2>2, NewLabelled
<1>12. ASSUME NEW i \in 1..(N + K) PROVE LabelOK(M, i)'
  <2>1. N \in Nat /\ K \in Nat
    OBVIOUS
  <2>2. CASE i > N
    <3>2. i - N \in 1..K
        BY <2>1, <2>2
    <3>3. i = N + (i - N)
        BY <2>1
    <3>1. PICK j \in 1..K : i = N + j
        BY <3>2, <3>3
    <3> QED BY <1>17, <3>1
  <2>3. CASE ~(i > N)
    <3>1. i \in 1..N
        BY <2>1, <2>3
    <3> QED BY <1>16, <3>1
  <2> QED BY <2>2, <2>3
<1>13. LabelsOK(M)'
    BY <1>10, <1>11, <1>12 DEF LabelsOK, Appends
<1>14. M[1] = L[1]
  <2>1. 1 \in 1..(N + 1)
    OBVIOUS
  <2> QED BY <1>7, <2>1
<1> QED BY <1>8, <1>13, <1>14 DEF Appends

\* The label of what the writer writes next.
WriterLabel(L) == L[Len(Stream) + 1]

\* Where the writer stands when it has payload left to write.
LEMMA WriterStands ==
    ASSUME LinkInv, NEW L, Linked(L), left # <<>>, NEW q, q = WriterLabel(L),
           NEW m, m = sent[q.n]
    PROVE  /\ q \in Label /\ InChunk(q) /\ q.j = 1 /\ q.n = Len(sent) /\ q.cs = out_chunk_size
           /\ m = Sending /\ left = SubSeq(m.data, q.p + 1, Len(m.data))
           /\ Len(left) = Len(m.data) - q.p
           /\ (Len(left) = Len(m.data)) = (q.p = 0)
           /\ Smaller(Len(left), out_chunk_size) = Piece(m, q.p, q.cs)
<1>1. LabelsOK(L) /\ LinkTypeOK
    BY LinkTypes DEF Linked
<1>2. q.j = 1 /\ q.cs = out_chunk_size /\ q.n = Len(sent)
    BY DEF Linked, WriterAt, WriterLabel
<1>3. left = SubSeq(m.data, q.p + 1, Len(m.data))
    BY DEF Linked, WriterAt, WriterLabel
<1>4. q \in Label /\ Within(q)
  <2>1. Len(Stream) \in Nat
    BY LinkTypes, StreamType
  <2>2. Len(Stream) + 1 \in 1..(Len(Stream) + 1)
    BY <2>1
  <2> QED BY <1>1, <2>2 DEF LabelsOK, WriterLabel
<1>5. Len(sent) \in Nat
    BY LinkTypes
<1>6. InChunk(q)
    BY <1>1, <1>2, <1>4, <1>5, WithinType
<1>7. /\ q.p \in Nat /\ q.cs \in Nat \ {0}
      /\ m.data \in Seq(DataToken) /\ Len(m.data) \in Nat /\ q.p < Len(m.data)
    BY <1>6, InChunkType
<1>8. Len(left) = Len(m.data) - q.p
  <2>1. m.data \in Seq(DataToken) /\ q.p \in Nat
    BY <1>7
  <2>2. q.p <= Len(m.data)
    BY <1>7
  <2> QED BY <1>3, <2>1, <2>2, Suffix
<1>9. (Len(left) = Len(m.data)) = (q.p = 0)
    BY <1>7, <1>8
<1>10. Smaller(Len(left), out_chunk_size) = Piece(m, q.p, q.cs)
  <2>1. PICK y : y = Len(m.data) - q.p
    OBVIOUS
  <2>2. y \in Nat /\ q.cs \in Nat
    BY <1>7, <2>1
  <2>3. Smaller(Len(left), out_chunk_size) = Smaller(y, q.cs)
    BY <1>2, <1>8, <2>1
  <2>4. Piece(m, q.p, q.cs) = Smaller(q.cs, y)
    BY <2>1 DEF Piece
  <2> QED BY <2>2, <2>3, <2>4 DEF Smaller
<1> QED BY <1>2, <1>3, <1>4, <1>6, <1>8, <1>9, <1>10 DEF Sending

\* A chunk is written: its tokens follow those of the stream, and the writer stands
\* behind it.
LEMMA ChunkWritten ==
    ASSUME LinkInv, NEW L, Linked(L), WriteChunk, in_buffer' = in_buffer,
           NEW q, q = WriterLabel(L), NEW m, m = sent[q.n],
           NEW N, N = Len(Stream), NEW K, K = ChunkLen(m, q.p, q.cs)
    PROVE  /\ N \in Nat /\ K \in Nat \ {0}
           /\ wire' \in Seq(Token)
           /\ Appends(q, N, K)
<1>1. left # <<>> /\ sent' = sent
    BY DEF WriteChunk
<1>2. InChunk(q) /\ m = Sending /\ left = SubSeq(m.data, q.p + 1, Len(m.data))
    BY <1>1, WriterStands
<1>3. (Len(left) = Len(m.data)) = (q.p = 0)
    BY <1>1, WriterStands
<1>4. Smaller(Len(left), out_chunk_size) = Piece(m, q.p, q.cs)
    BY <1>1, WriterStands
<1>5. /\ m \in Sendable /\ q.p \in Nat /\ q.p < Len(m.data) /\ q.cs \in Nat \ {0}
      /\ left \in Seq(DataToken)
    BY <1>2, InChunkType, LinkTypes DEF LinkTypeOK
<1>6. PICK h : h = IF q.p = 0 THEN HeaderC0(m) ELSE HeaderC3(m)
    OBVIOUS
<1>7. PICK d : d = SubSeq(left, 1, Piece(m, q.p, q.cs))
    OBVIOUS
<1>8. wire' = wire \o h \o d
    BY <1>2, <1>3, <1>4, <1>6, <1>7 DEF WriteChunk
<1>9. PICK w : w = h \o d
    OBVIOUS
<1>10. /\ w \in Seq(Token) /\ Len(w) = K
       /\ \A j \in 1..K : w[j] = TokenOf(m, q.p, j)
  <2>1. w = (IF q.p = 0 THEN HeaderC0(m) ELSE HeaderC3(m))
            \o SubSeq(left, 1, Piece(m, q.p, q.cs))
    BY <1>6, <1>7, <1>9
  <2>2. m \in Sendable /\ q.p \in Nat /\ q.p < Len(m.data) /\ q.cs \in Nat \ {0}
    BY <1>5
  <2>3. left = SubSeq(m.data, q.p + 1, Len(m.data))
    BY <1>2
  <2>4. w = ChunkTokensOf(m, q.p, q.cs)
    BY <2>1, <2>3 DEF ChunkTokensOf
  <2>5. /\ ChunkTokensOf(m, q.p, q.cs) \in Seq(Token)
        /\ Len(ChunkTokensOf(m, q.p, q.cs)) = ChunkLen(m, q.p, q.cs)
        /\ \A j \in 1..ChunkLen(m, q.p, q.cs) :
              ChunkTokensOf(m, q.p, q.cs)[j] = TokenOf(m, q.p, j)
    BY <2>2, ChunkTokens
  <2> QED BY <2>4, <2>5
<1>11. h \in Seq(Token) /\ d \in Seq(Token)
  <2>1. h \in Seq(Token)
    BY <1>5, <1>6, HeaderTokens
  <2>2. PICK n : n = Piece(m, q.p, q.cs)
    OBVIOUS
  <2>3. n \in Nat /\ n <= Len(left)
    <3>1. n \in 1..(Len(m.data) - q.p)
        BY <1>5, <2>2, ChunkLenType
    <3>2. Len(left) = Len(m.data) - q.p
        BY <1>1, WriterStands
    <3>3. Len(m.data) \in Nat
        BY <1>5 DEF Sendable
    <3> QED BY <1>5, <3>1, <3>2, <3>3
  <2>4. d \in Seq(DataToken)
    BY <1>5, <1>7, <2>2, <2>3, Prefix
  <2> QED BY <2>1, <2>4, SeqMonotonic DEF Token
<1>12. in_buffer \in Seq(Token) /\ wire \in Seq(Token)
    BY LinkTypes
<1>13. wire' = wire \o w
  <2>1. (wire \o h) \o d = wire \o (h \o d)
    BY <1>11, <1>12, ThreeParts
  <2> QED BY <1>8, <1>9, <2>1
<1>14. wire' \in Seq(Token)
    BY <1>10, <1>12, <1>13, ConcatElements
<1>15. Stream \in Seq(Token) /\ N \in Nat
    BY <1>12, StreamType
<1>16. Stream' = Stream \o w
  <2>1. Stream' = in_buffer \o (wire \o w)
    BY <1>13 DEF Stream
  <2>2. (in_buffer \o wire) \o w = in_buffer \o (wire \o w)
    BY <1>10, <1>12, ThreeParts
  <2> QED BY <2>1, <2>2 DEF Stream
<1>17. PICK S : S = Stream
    OBVIOUS
<1>18. /\ Len(S \o w) = Len(S) + Len(w)
       /\ \A i \in 1..Len(S) : (S \o w)[i] = S[i]
  <2>1. S \in Seq(Token) /\ w \in Seq(Token)
    BY <1>10, <1>15, <1>17
  <2> QED BY <2>1, ConcatElements
<1>19. \A i \in 1..Len(w) : (S \o w)[Len(S) + i] = w[i]
  <2>1. S \in Seq(Token) /\ w \in Seq(Token)
    BY <1>10, <1>15, <1>17
  <2> QED BY <2>1, ConcatElements
<1>20. Len(Stream') = N + K /\ \A i \in 1..N : Stream'[i] = Stream[i]
    BY <1>10, <1>16, <1>17, <1>18
<1>21. \A j \in 1..K : Stream'[N + j] = TokenOf(m, q.p, j)
    BY <1>10, <1>16, <1>17, <1>19
<1>22. K \in Nat \ {0}
    BY <1>5, ChunkLenType
<1> QED BY <1>14, <1>15, <1>20, <1>21, <1>22 DEF Appends

\* The writer stands where the next chunk begins.
LEMMA WriterMoves ==
    ASSUME LinkInv, NEW L, Linked(L), WriteChunk,
           NEW q, q = WriterLabel(L), NEW m, m = sent[q.n], NEW z, z = NextChunk(m, q)
    PROVE  WriterAt(z)' /\ left' \in Seq(DataToken) /\ out_chunk_size' \in Nat \ {0}
<1>1. left # <<>> /\ sent' = sent
    BY DEF WriteChunk
<1>2. InChunk(q) /\ m = Sending /\ left = SubSeq(m.data, q.p + 1, Len(m.data))
    BY <1>1, WriterStands
<1>3. q.n = Len(sent) /\ q.cs = out_chunk_size /\ Len(left) = Len(m.data) - q.p
    BY <1>1, WriterStands
<1>4. PICK n : n = Piece(m, q.p, q.cs)
    OBVIOUS
<1>5. Smaller(Len(left), out_chunk_size) = n
    BY <1>1, <1>4, WriterStands
<1>6. /\ left' = SubSeq(left, n + 1, Len(left))
      /\ out_chunk_size' = IF n = Len(left) THEN NewChunkSize ELSE out_chunk_size
    BY <1>5 DEF WriteChunk
<1>7. /\ m \in Sendable /\ m.data \in Seq(DataToken) /\ Len(m.data) \in Nat
      /\ q.p \in Nat /\ q.p < Len(m.data) /\ q.cs \in Nat \ {0}
      /\ n \in 1..(Len(m.data) - q.p)
    BY <1>2, <1>4, InChunkType
<1>8. n \in Nat /\ q.p + n <= Len(m.data) /\ q.p + n \in Nat /\ n <= Len(left)
  <2>1. n \in Nat /\ q.p + n <= Len(m.data) /\ q.p + n \in Nat /\ n <= Len(m.data) - q.p
    BY <1>7
  <2> QED BY <1>3, <2>1
<1>9. left' = SubSeq(m.data, (q.p + n) + 1, Len(m.data))
  <2>1. left = SubSeq(m.data, q.p + 1, Len(m.data))
    BY <1>2
  <2>2. m.data \in Seq(DataToken) /\ q.p \in Nat /\ n \in Nat /\ q.p + n <= Len(m.data)
    BY <1>7, <1>8
  <2>3. Drop(Drop(m.data, q.p), n) = Drop(m.data, q.p + n)
    BY <2>2, DropTwice
  <2> QED BY <1>6, <2>1, <2>3 DEF Drop
<1>10. left' \in Seq(DataToken) /\ Len(left') = Len(m.data) - (q.p + n)
  <2>1. m.data \in Seq(DataToken) /\ q.p + n \in Nat /\ q.p + n <= Len(m.data)
    BY <1>7, <1>8
  <2>2. PICK k \in Nat : k = q.p + n
    BY <2>1
  <2>3. k <= Len(m.data) /\ left' = SubSeq(m.data, k + 1, Len(m.data))
    BY <1>9, <2>1, <2>2
  <2>4. left' \in Seq(DataToken) /\ Len(left') = Len(m.data) - k
    BY <2>1, <2>3, Suffix
  <2> QED BY <2>2, <2>4
<1>11. CASE q.p + n < Len(m.data)
  <2>1. z = [n |-> q.n, p |-> q.p + n, j |-> 1, cs |-> q.cs]
    BY <1>4, <1>11 DEF NextChunk
  <2>2. z.n = q.n /\ z.p = q.p + n /\ z.j = 1 /\ z.cs = q.cs
    BY <2>1
  <2>3. n # Len(left)
    <3>1. Len(left) = Len(m.data) - q.p /\ Len(m.data) \in Nat /\ q.p \in Nat /\ n \in Nat
      BY <1>3, <1>7, <1>8
    <3> QED BY <1>11, <3>1
  <2>4. out_chunk_size' = out_chunk_size
    BY <1>6, <2>3
  <2>5. left' # <<>>
    <3>1. Len(left') # 0
        BY <1>7, <1>8, <1>10, <1>11
    <3> QED BY <3>1, <1>10, EmptySeq
  <2>6. left' = SubSeq(sent'[z.n].data, z.p + 1, Len(sent'[z.n].data))
    BY <1>1, <1>9, <2>2
  <2>7. z.cs = out_chunk_size' /\ z.n = Len(sent')
    BY <1>1, <1>3, <2>2, <2>4
  <2>8. WriterAt(z)'
    BY <2>2, <2>5, <2>6, <2>7 DEF WriterAt
  <2> QED BY <1>3, <1>7, <1>10, <2>4, <2>8
<1>12. CASE ~(q.p + n < Len(m.data))
  <2>1. z = [n |-> q.n + 1, p |-> 0, j |-> 1, cs |-> SizeBehind(m, q.cs)]
    BY <1>4, <1>12 DEF NextChunk
  <2>2. z.n = q.n + 1 /\ z.p = 0 /\ z.j = 1 /\ z.cs = SizeBehind(m, q.cs)
    BY <2>1
  <2>3. n = Len(left) /\ Len(left') = 0
    <3>1. q.p + n = Len(m.data)
        BY <1>7, <1>8, <1>12
    <3>2. Len(left) = Len(m.data) - q.p /\ Len(left') = Len(m.data) - (q.p + n)
        BY <1>3, <1>10
    <3> QED BY <1>7, <1>8, <3>1, <3>2
  <2>4. left' = <<>>
    BY <1>10, <2>3, EmptySeq
  <2>5. out_chunk_size' = SizeBehind(m, q.cs)
    BY <1>2, <1>3, <1>6, <2>3 DEF NewChunkSize, SizeBehind
  <2>6. SizeBehind(m, q.cs) \in Nat \ {0}
    <3>1. m.data \in Seq(Token)
        BY <1>7, SeqMonotonic DEF Token
    <3>2. m.data # <<>>
        BY <1>7, EmptySeq
    <3>3. Decode(m.data) \in Nat
        BY <3>1, <3>2, DecodeType
    <3>4. m.type = "SetChunkSize" => Decode(m.data) > 0
        BY <1>7 DEF Sendable
    <3> QED BY <1>7, <3>3, <3>4 DEF SizeBehind
  <2>7. WriterAt(z)'
    BY <1>1, <1>3, <2>2, <2>4, <2>5 DEF WriterAt
  <2> QED BY <1>10, <2>5, <2>6, <2>7
<1> QED BY <1>11, <1>12

\* The writer writes a chunk, behind which the reader is as it was.
LEMMA WriteChunkLink ==
    LinkInv /\ WriteChunk
        /\ UNCHANGED <<in_buffer, recv_bytes, read_bytes, chunks, cur, msg, pc, control,
                       delivered>>
    => LinkInv'
<1> SUFFICES ASSUME LinkInv, WriteChunk,
                    UNCHANGED <<in_buffer, recv_bytes, read_bytes, chunks, cur, msg, pc,
                                control, delivered>>
             PROVE  LinkInv'
    OBVIOUS
<1>1. PICK L : Linked(L)
    BY LinkTypes
<1>2. PICK N : N = Len(Stream)
    OBVIOUS
<1>3. PICK q : q = WriterLabel(L)
    OBVIOUS
<1>4. PICK m : m = sent[q.n]
    OBVIOUS
<1>5. PICK K : K = ChunkLen(m, q.p, q.cs)
    OBVIOUS
<1>6. PICK z : z = NextChunk(m, q)
    OBVIOUS
<1>7. LabelsOK(L) /\ LinkTypeOK
    BY <1>1, LinkTypes DEF Linked
<1>8. left # <<>> /\ sent' = sent /\ in_buffer' = in_buffer
    BY DEF WriteChunk
<1>9. q \in Label /\ InChunk(q) /\ q.j = 1 /\ q.n = Len(sent)
    BY <1>1, <1>3, <1>4, <1>8, WriterStands
<1>10. N \in Nat /\ K \in Nat \ {0} /\ wire' \in Seq(Token) /\ Appends(q, N, K)
    BY <1>1, <1>2, <1>3, <1>4, <1>5, <1>8, ChunkWritten
<1>11. q = L[N + 1]
    BY <1>2, <1>3 DEF WriterLabel
<1>12. PICK M : LabelsOK(M)' /\ M[1] = L[1] /\ M[Len(Stream') + 1] = z
  <2>1. LinkTypeOK /\ LabelsOK(L) /\ sent' = sent
    BY <1>7, <1>8
  <2>2. q \in Label /\ InChunk(q) /\ q.j = 1 /\ q.n = Len(sent)
    BY <1>9
  <2>3. N \in Nat /\ K \in Nat \ {0} /\ Appends(q, N, K)
    BY <1>10
  <2> QED BY ONLY <1>2, <1>4, <1>5, <1>6, <1>11, <2>1, <2>2, <2>3, LabelsGrown
<1>13. WriterAt(z)' /\ left' \in Seq(DataToken) /\ out_chunk_size' \in Nat \ {0}
    BY <1>1, <1>3, <1>4, <1>6, WriterMoves
<1>14. PICK l : l = L[1]
    OBVIOUS
<1>15. ReaderAt(l) /\ DeliveredTo(l)
    BY <1>1, <1>14 DEF Linked
<1>16. UNCHANGED <<sent, chunks, cur, msg, pc, in_chunk_size, delivered>>
    BY <1>8 DEF control
<1>17. ReaderAt(l)'
    BY <1>15, <1>16 DEF ReaderAt, AtBasic, AtHeader, AtExt, AtPayload, AtHook, AllClosed,
          OthersClosed, Opens, Continues
<1>18. DeliveredTo(l)'
    BY <1>15, <1>16 DEF DeliveredTo
<1>19. Linked(M)'
  <2>1. M[1] = l
    BY <1>12, <1>14
  <2> QED BY <1>12, <1>13, <1>17, <1>18, <2>1 DEF Linked
<1>20. ReaderInv'
    BY <1>10, LinkTypes, WireGrown
<1>21. LinkTypeOK'
    BY <1>7, <1>8, <1>13 DEF LinkTypeOK
<1>22. M \in [1..(Len(Stream') + 1) -> Label]
    BY <1>12 DEF LabelsOK
<1> QED BY <1>19, <1>20, <1>21, <1>22 DEF LinkInv

(***************************************************************************)
(* The theorems.                                                           *)
(***************************************************************************)

\* Before anything is sent there is one label, of the first message to come.
LEMMA LinkInit == Init => LinkInv
<1> SUFFICES ASSUME Init PROVE LinkInv
    OBVIOUS
<1>1. /\ wire = <<>> /\ in_buffer = <<>> /\ sent = <<>> /\ left = <<>>
      /\ pc = "basic" /\ delivered = <<>> /\ in_chunk_size = DefaultChunkSize
      /\ out_chunk_size = DefaultChunkSize
      /\ chunks = [c \in Cids |-> NewChunk]
    BY DEF Init, ReaderInit, WriterInit
<1>2. ReaderInv
    BY InvInit DEF Init
<1>3. DefaultChunkSize \in Nat \ {0} /\ MaxMessages \in Nat
    BY WriterAssumption, WireAssumption
<1>4. LinkTypeOK
  <2>1. sent \in Seq(Sendable) /\ left \in Seq(DataToken) /\ Len(sent) = 0
    BY <1>1, EmptySeq
  <2> QED BY <1>1, <1>3, <2>1 DEF LinkTypeOK
<1>5. Len(Stream) = 0
  <2>1. in_buffer \in Seq(Token) /\ wire \in Seq(Token) /\ Len(in_buffer) = 0 /\ Len(wire) = 0
    BY <1>1, EmptySeq
  <2> QED BY <2>1, StreamType
<1>6. PICK l : l = [n |-> 1, p |-> 0, j |-> 1, cs |-> DefaultChunkSize]
    OBVIOUS
<1>7. l \in Label /\ l.n = 1 /\ l.p = 0 /\ l.j = 1 /\ l.cs = DefaultChunkSize
    BY <1>3, <1>6 DEF Label
<1>8. PICK L : L = [i \in 1..1 |-> l]
    OBVIOUS
<1>9. L[1] = l /\ L \in [1..1 -> Label]
    BY <1>7, <1>8
<1>10. Len(sent) = 0 /\ Len(delivered) = 0
    BY <1>1, EmptySeq
<1>11. LabelsOK(L)
  <2>1. Within(l)
    BY <1>7, <1>10 DEF Within
  <2>2. ASSUME NEW i \in 1..(Len(Stream) + 1) PROVE Within(L[i])
    <3>1. i = 1
        BY <1>5
    <3> QED BY <1>9, <2>1, <3>1
  <2>3. ASSUME NEW i \in 1..Len(Stream) PROVE LabelOK(L, i)
    BY <1>5
  <2>4. L \in [1..(Len(Stream) + 1) -> Label]
    BY <1>5, <1>9
  <2> QED BY <2>2, <2>3, <2>4 DEF LabelsOK
<1>12. ReaderAt(l)
  <2>1. AllClosed
    BY <1>1 DEF AllClosed, NewChunk
  <2> QED BY <1>1, <1>7, <2>1 DEF ReaderAt, AtBasic
<1>13. DeliveredTo(l)
    BY <1>1, <1>7, <1>10 DEF DeliveredTo
<1>14. WriterAt(l)
    BY <1>1, <1>7, <1>10 DEF WriterAt
<1>15. Linked(L)
    BY <1>5, <1>9, <1>11, <1>12, <1>13, <1>14 DEF Linked
<1>16. L \in [1..(Len(Stream) + 1) -> Label]
    BY <1>5, <1>9
<1> QED BY <1>2, <1>4, <1>15, <1>16 DEF LinkInv

\* Every step of the writer, of the reader and of the caller keeps the invariant.
LEMMA LinkNext == LinkInv /\ [Next]_linkVars => LinkInv'
<1> SUFFICES ASSUME LinkInv, [Next]_linkVars PROVE LinkInv'
    OBVIOUS
<1>1. CASE SendMessage /\ UNCHANGED <<in_buffer, recv_bytes, read_bytes, chunks, cur, msg, pc, control,
                                      delivered>>
    BY <1>1, SendMessageLink
<1>2. CASE WriteChunk /\ UNCHANGED <<in_buffer, recv_bytes, read_bytes, chunks, cur, msg, pc, control,
                                     delivered>>
    BY <1>2, WriteChunkLink
<1>3. CASE SocketRead /\ UNCHANGED writerVars
    BY <1>3, SocketReadLink
<1>4. CASE ReadBasicHeader /\ UNCHANGED writerVars
    BY <1>4, BasicHeaderLink
<1>5. CASE ReadMessageHeader /\ UNCHANGED writerVars
    BY <1>5, MessageHeaderLink
<1>6. CASE ReadExtendedTimestamp /\ UNCHANGED writerVars
    BY <1>6, ExtendedTimestampLink
<1>7. CASE ReadMessagePayload /\ UNCHANGED writerVars
    BY <1>7, PayloadLink
<1>8. CASE OnRecvMessage /\ UNCHANGED writerVars
    BY <1>8, OnRecvMessageLink
<1>9. CASE Flush
    BY <1>9, FlushLink DEF Flush
<1>10. CASE UNCHANGED linkVars
  <2>1. UNCHANGED <<readerVars, writerVars>>
    BY <1>10 DEF linkVars
  <2>2. ReaderInv'
    BY <2>1, InvNext, LinkTypes
  <2>3. PICK L : Linked(L)
    BY LinkTypes
  <2>4. Linked(L)' /\ LinkTypeOK'
    BY <2>1, <2>3, LinkTypes, ZenonT(30) DEF readerVars, writerVars, Linked, LinkTypeOK, LabelsOK, LabelOK,
          Within, Stream, Rest, ReaderAt, AtBasic, AtHeader, AtExt, AtPayload, AtHook, AllClosed,
          OthersClosed, Opens, Continues, DeliveredTo, WriterAt
  <2>5. L \in [1..(Len(Stream') + 1) -> Label]
    BY <2>4 DEF Linked, LabelsOK
  <2> QED BY <2>2, <2>4, <2>5 DEF LinkInv
<1>11. ~RejectChunkStart /\ ~RejectLengthChange /\ ~IgnoreEmptyMessage /\ ~Desynchronize
    BY NothingRefused
<1> QED BY <1>1, <1>2, <1>3, <1>4, <1>5, <1>6, <1>7, <1>8, <1>9, <1>10, <1>11
        DEF Next, Reader, Writer, Receive, Send

\* The hook gives the next message on, as the receiver gets it, and fails on none.
LEMMA HookDelivers ==
    ASSUME LinkInv, OnRecvMessage
    PROVE  /\ Len(delivered) < Len(sent)
           /\ delivered' = Append(delivered, Stamped(sent[Len(delivered) + 1]))
<1>1. PICK L : Linked(L)
    BY LinkTypes
<1>2. PICK l : l = L[1]
    OBVIOUS
<1>3. PICK m : m = sent[l.n - 1]
    OBVIOUS
<1>4. pc = "hook" /\ DeliveredTo(l)
    BY <1>1, <1>2 DEF OnRecvMessage, Linked
<1>5. Len(delivered) = l.n - 2 /\ msg = Stamped(m)
    BY <1>3, <1>4 DEF DeliveredTo
<1>6. l.n \in 1..(Len(sent) + 1) /\ sent \in Seq(Sendable) /\ Len(sent) \in Nat
    BY <1>1, <1>2, FirstLabel, LinkTypes
<1>7. Len(delivered) \in Nat
    BY LinkTypes, LenProperties DEF ReaderInv, ReaderTypeOK
<1>8. l.n - 1 \in 1..Len(sent) /\ l.n - 1 = Len(delivered) + 1
    BY <1>5, <1>6, <1>7
<1>9. m \in Sendable
    BY <1>3, <1>6, <1>8
<1>10. msg.type = m.type /\ msg.data = m.data
    BY <1>5, <1>9 DEF Stamped, Sendable
<1>11. ~DecodeFails
  <2>1. m.type \in ControlTypes => Len(m.data) >= ControlSize
    BY <1>9 DEF Sendable
  <2>2. Len(m.data) \in Nat /\ ControlSize \in Nat
    BY <1>9, ReaderAssumption DEF Sendable
  <2> QED BY <1>10, <2>1, <2>2 DEF DecodeFails
<1>12. delivered' = Append(delivered, msg)
    BY <1>11 DEF OnRecvMessage
<1>13. msg = Stamped(sent[Len(delivered) + 1])
    BY <1>3, <1>5, <1>8
<1>14. Len(delivered) < Len(sent)
    BY <1>6, <1>7, <1>8
<1> QED BY <1>12, <1>13, <1>14

\* The invariant of the link holds for every message, every chunk size and every cut
\* of the bytes by the socket.
THEOREM LinkInvariant == Spec => []LinkInv
<1>1. Init /\ [][Next]_linkVars => []LinkInv
    BY LinkInit, LinkNext, PTL
<1> QED BY <1>1 DEF Spec

\* The reader never takes a part of a chunk for another and refuses none: neither
\* ERROR_RTMP_CHUNK_START nor ERROR_RTMP_PACKET_SIZE is met between two SrsProtocol.
THEOREM FramingKept == Spec => []Framing
<1>1. LinkInv => Framing
  <2> SUFFICES ASSUME LinkInv PROVE Framing
    OBVIOUS
  <2>1. PICK L : Linked(L)
    BY LinkTypes
  <2>2. PICK l : l = L[1]
    OBVIOUS
  <2> QED BY <2>1, <2>2, Standing DEF Framing
<1> QED BY <1>1, LinkInvariant, PTL

\* Every step of the link is one of the channel, or none: the caller's send is a Send,
\* the hook of recv_message a Deliver.
LEMMA ChannelStep == LinkInv /\ [Next]_linkVars => [Channel!Next]_(Channel!vars)
<1> SUFFICES ASSUME LinkInv, [Next]_linkVars PROVE [Channel!Next]_(Channel!vars)
    OBVIOUS
<1>1. CASE SendMessage /\ delivered' = delivered
  <2>1. Len(sent) + 1 \in 1..MaxMessages
    <3>1. Len(sent) \in Nat
        BY LinkTypes
    <3> QED BY <1>1, <3>1, WriterAssumption DEF SendMessage
  <2>2. PICK m \in Outgoing : sent' = Append(sent, Numbered(m, Len(sent) + 1))
    BY <1>1 DEF SendMessage
  <2>3. Channel!Send
    BY <1>1, <2>1, <2>2 DEF Channel!Send
  <2> QED BY <2>3 DEF Channel!Next
<1>2. CASE OnRecvMessage /\ sent' = sent
  <2>1. Channel!Deliver
    BY <1>2, HookDelivers DEF Channel!Deliver
  <2> QED BY <2>1 DEF Channel!Next
<1>3. CASE UNCHANGED <<sent, delivered>>
    BY <1>3 DEF Channel!vars
<1>4. CASE Writer
  <2>1. CASE SendMessage
    BY <1>1, <1>4, <2>1 DEF Writer
  <2>2. CASE WriteChunk
    BY <1>3, <1>4, <2>2 DEF Writer, WriteChunk
  <2> QED BY <1>4, <2>1, <2>2 DEF Writer, Send
<1>5. CASE Reader
  <2>1. sent' = sent
    BY <1>5 DEF Reader, writerVars
  <2>2. CASE OnRecvMessage
    BY <1>2, <2>1, <2>2
  <2>3. CASE ~OnRecvMessage
    <3>1. delivered' = delivered
        BY <1>5, <2>3 DEF Reader, Receive, SocketRead, ReadBasicHeader, RejectChunkStart,
           ReadMessageHeader, RejectLengthChange, ReadExtendedTimestamp, IgnoreEmptyMessage,
           ReadMessagePayload, Desynchronize
    <3> QED BY <1>3, <2>1, <3>1
  <2> QED BY <2>2, <2>3
<1>6. CASE Flush
    BY <1>3, <1>6 DEF Flush, ManualResponseFlush, writerVars
<1>7. CASE UNCHANGED linkVars
    BY <1>3, <1>7 DEF linkVars, readerVars, writerVars
<1> QED BY <1>4, <1>5, <1>6, <1>7 DEF Next

\* Two SrsProtocol objects joined by a connection implement the channel: messages are
\* neither lost, repeated, altered nor reordered, however they are cut into chunks.
THEOREM ChannelSafety == Spec => Channel!Safety
<1>1. Init => Channel!Init
    BY DEF Init, ReaderInit, WriterInit, Channel!Init
<1> QED BY <1>1, ChannelStep, LinkInvariant, PTL DEF Spec, Channel!Safety

\* The answers of the reader of the link.
LEMMA LinkAnswers == LinkInv /\ AnswersInv /\ [Next]_linkVars => AnswersInv'
<1> SUFFICES ASSUME LinkInv, AnswersInv, [Next]_linkVars PROVE AnswersInv'
    OBVIOUS
<1>1. ReaderInv
    BY LinkTypes
<1>2. CASE Reader
    BY <1>1, <1>2, ReceiveAnswers DEF Reader
<1>3. CASE Flush
    BY <1>1, <1>3, FlushAnswers DEF Flush
<1>4. CASE Writer
    BY <1>1, <1>4, QuietAnswers DEF Writer, control
<1>5. CASE UNCHANGED linkVars
    BY <1>1, <1>5, QuietAnswers DEF linkVars, readerVars
<1> QED BY <1>2, <1>3, <1>4, <1>5 DEF Next

LEMMA LinkAnswersRight == Spec => [](LinkInv /\ AnswersInv)
<1>1. Init => LinkInv /\ AnswersInv
    BY LinkInit, AnswersInit DEF Init
<1>2. (LinkInv /\ AnswersInv) /\ [Next]_linkVars => (LinkInv /\ AnswersInv)'
    BY LinkNext, LinkAnswers
<1> QED BY <1>1, <1>2, PTL DEF Spec

\* Each ping the reader of the link delivers is answered once and in order.
THEOREM LinkPingsAnswered == Spec => []PingsAnswered
<1>1. LinkInv => ReaderInv
    BY LinkTypes
<1> QED BY <1>1, LinkAnswersRight, AnswersAre, PTL

\* The acknowledgements of the reader of the link advance and never run ahead.
THEOREM LinkAcksAdvance == Spec => []AcksAdvance
<1>1. LinkInv => ReaderInv
    BY LinkTypes
<1> QED BY <1>1, LinkAnswersRight, AnswersAre, PTL
=============================================================================
