-------------------------- MODULE PeerLinkProofs ---------------------------
(***************************************************************************)
(* Proofs about PeerLink: for every value of the constants the reader puts *)
(* the messages of a peer together again, however it interleaves their     *)
(* chunks and compresses their headers and however the socket cuts them.   *)
(*                                                                         *)
(* The invariant follows the chunks the peer has written, one after the    *)
(* other: what the peer keeps of its chunk streams before each of them is  *)
(* what the reader has of them when it comes to it.                        *)
(***************************************************************************)
EXTENDS PeerLink, ChunkReaderProofs

(***************************************************************************)
(* The peers the reader can follow: an extended timestamp of theirs is     *)
(* never a delta, and when they leave it out of the chunks that continue a *)
(* message, no payload looks like it.                                      *)
(***************************************************************************)
Told(m) == m.ts % Mask > 0 /\ \A i \in 1..Len(m.data) : Value(m.data[i]) % Mask # m.ts % Mask
Understood(p) ==
    /\ ~p.deltas
    /\ p.repeats \/ \A d \in p.outgoing, n \in 1..MaxMessages :
                       d.ts >= Extended => Told(Numbered(d, n))

----------------------------------------------------------------------------

\* A message of a peer.
Sendable ==
    {m \in [cid : Cids, type : Types, sid : Sids, ts : 0..(Raw - 1), data : Seq(DataToken)] :
        /\ Len(m.data) \in 1..MaxLength
        /\ m.type \in ControlTypes => Len(m.data) >= ControlSize
        /\ m.type = "SetChunkSize" => Decode(m.data) > 0}

(***************************************************************************)
(* A chunk k is one of message k.m, the k.n th, with the format k.fmt, and *)
(* k.told when it has the extended timestamp of its message.  It is        *)
(* written in a state a of the peer: what it keeps of its streams, the     *)
(* size of chunks, the messages that are done, and the tokens written.     *)
(***************************************************************************)
Of(a, k) == a.tx[k.m.cid]
Starts(a, k) == Of(a, k).left = <<>>

\* The bytes of the message that were written before, and those of the chunk.
From(a, k) == IF Starts(a, k) THEN 0 ELSE Len(k.m.data) - Len(Of(a, k).left)
Piece(a, k) == Smaller(Len(k.m.data) - From(a, k), a.cs)
Ends(a, k) == From(a, k) + Piece(a, k) = Len(k.m.data)

FieldOf(a, k) == IF Starts(a, k) THEN Field(Of(a, k), k.m, k.fmt) ELSE Of(a, k).field
Heading(a, k) == Headers(k.m, k.fmt, FieldOf(a, k), k.told)
Tokens(a, k) == Heading(a, k) \o SubSeq(Drop(k.m.data, From(a, k)), 1, Piece(a, k))

SizeBehind(m, cs) == IF m.type = "SetChunkSize" THEN Decode(m.data) ELSE cs

\* What the peer keeps of the stream behind the chunk, and the state behind it.
Kept(a, k) ==
    [fresh |-> FALSE, m |-> k.m, left |-> Drop(k.m.data, From(a, k) + Piece(a, k)),
     field |-> FieldOf(a, k), ext |-> FieldOf(a, k) >= Extended]
After(a, k) ==
    [tx |-> [a.tx EXCEPT ![k.m.cid] = Kept(a, k)],
     cs |-> IF Ends(a, k) THEN SizeBehind(k.m, a.cs) ELSE a.cs,
     done |-> IF Ends(a, k) THEN a.done \cup {k.n} ELSE a.done,
     pos |-> a.pos + Len(Tokens(a, k))]

\* The formats that can be understood for a message m after what stream t carried.
RightFormat(t, m, fmt) ==
    \/ fmt = 0
    \/ fmt = 1 /\ t.fresh /\ m.cid = ProtocolControl /\ m.sid = 0
    \/ /\ fmt \in 1..3 /\ ~t.fresh /\ m.sid = t.m.sid
       /\ Delta(t, m) \in 0..(Extended - 1)
       /\ fmt >= 2 => m.type = t.m.type /\ Len(m.data) = Len(t.m.data)
       /\ fmt = 3 => ~t.ext /\ Delta(t, m) = t.field

\* Of the messages of S on the stream of message n those before it are done.
Open(S, a, n) == \A j \in 1..Len(S) : S[j].cid = S[n].cid => (j \in a.done <=> j < n)

ChunkRight(S, a, k) ==
    /\ k.n \in 1..Len(S) /\ k.m = S[k.n] /\ Open(S, a, k.n) /\ k.told \in BOOLEAN
    /\ Starts(a, k) => k.told /\ RightFormat(Of(a, k), k.m, k.fmt)
    /\ ~Starts(a, k) => /\ k.fmt = 3 /\ Of(a, k).m = k.m
                        /\ k.told \/ (Of(a, k).ext => Told(k.m))

TxOK(t) ==
    /\ t.fresh \in BOOLEAN
    /\ t.fresh => t.left = <<>>
    /\ ~t.fresh =>
          /\ t.m \in Sendable
          /\ t.left \in Seq(DataToken) /\ Len(t.left) <= Len(t.m.data)
          /\ t.left = Drop(t.m.data, Len(t.m.data) - Len(t.left))
          /\ t.field \in 0..(Raw - 1) /\ t.ext = (t.field >= Extended)
          /\ t.ext => t.field = t.m.ts

StateRight(S, a) ==
    /\ DOMAIN a.tx = Cids /\ \A c \in Cids : TxOK(a.tx[c])
    /\ a.cs \in Nat \ {0} /\ a.pos \in Nat /\ a.done \subseteq 1..Len(S)
    /\ \A j \in a.done, i \in 1..Len(S) : i < j /\ S[i].cid = S[j].cid => i \in a.done

\* C chunks K were written, in the states A, of the messages S.
History(S, A, K, C) ==
    /\ S \in Seq(Sendable) /\ Len(S) <= MaxMessages /\ C \in Nat
    /\ \A i \in 1..(C + 1) : StateRight(S, A[i])
    /\ \A i \in 1..C : ChunkRight(S, A[i], K[i]) /\ A[i + 1] = After(A[i], K[i])

\* On stream c the message that is open is the last one, or all are done.
Standing(S, a, c) ==
    IF a.tx[c].left = <<>>
    THEN \A j \in 1..Len(S) : S[j].cid = c => j \in a.done
    ELSE \E n \in 1..Len(S) :
            /\ S[n].cid = c /\ a.tx[c].m = S[n] /\ Open(S, a, n)
            /\ \A j \in 1..Len(S) : S[j].cid = c => j <= n

\* Of the chunk k behind a the tokens of which R are parsed in all are in W.
Flies(W, a, k, R) ==
    /\ a.pos + Len(Tokens(a, k)) <= R + Len(W)
    /\ \A j \in 1..Len(Tokens(a, k)) :
          a.pos + j > R => W[a.pos + j - R] = Tokens(a, k)[j]

\* The parser has come to the chunk behind A[q].
InFlight(W, A, K, C, q, R) ==
    /\ q \in 1..(C + 1) /\ R \in Nat /\ A[q].pos <= R
    /\ A[C + 1].pos = R + Len(W)
    /\ \A i \in q..C : Flies(W, A[i], K[i], R)

----------------------------------------------------------------------------

\* Chunk stream c of the reader has the header of m.
Heads(c, m) == c.len = Len(m.data) /\ c.type = m.type /\ c.sid = m.sid

\* It has what the peer keeps as t, but for the payload ...
Knows(c, t) ==
    /\ c.fresh = t.fresh
    /\ t.fresh => c.ts = 0 /\ c.sid = 0
    /\ ~t.fresh => /\ Heads(c, t.m) /\ c.ts = t.m.ts % Mask
                   /\ c.extended = t.ext /\ c.delta = Smaller(t.field, Extended)

\* ... and with it.
Keeps(c, t) ==
    /\ Knows(c, t) /\ c.open = (t.left # <<>>)
    /\ t.left # <<>> => c.data = SubSeq(t.m.data, 1, Len(t.m.data) - Len(t.left))

\* It is open with the header of the chunk k behind a, but for the timestamp.
Carries(c, a, k) ==
    /\ Heads(c, k.m) /\ c.open
    /\ c.extended = (FieldOf(a, k) >= Extended) /\ c.delta = Smaller(FieldOf(a, k), Extended)
    /\ c.data = SubSeq(k.m.data, 1, From(a, k))

Shadows(a) == \A c \in Cids : Keeps(chunks[c], a.tx[c])
Others(a, k) == \A c \in Cids : c # k.m.cid => Keeps(chunks[c], a.tx[c])

\* Where the parser stands with R tokens parsed, in the chunk k behind the state a.
AtBasic(a, R) == pc = "basic" /\ R = a.pos /\ Shadows(a)
AtHeader(a, k, R) ==
    /\ pc = "header" /\ R = a.pos + 1 /\ k.fmt <= 2 /\ Starts(a, k)
    /\ cur = [cid |-> k.m.cid, fmt |-> k.fmt, first |-> TRUE]
    /\ Others(a, k) /\ Knows(chunks[k.m.cid], Of(a, k))
AtExt(a, k, R) ==
    /\ pc = "ext" /\ FieldOf(a, k) >= Extended
    /\ R = a.pos + (IF Starts(a, k) THEN 2 ELSE 1)
    /\ cur = [cid |-> k.m.cid, fmt |-> k.fmt, first |-> Starts(a, k)]
    /\ Others(a, k) /\ Carries(chunks[k.m.cid], a, k)
    /\ ~Starts(a, k) => chunks[k.m.cid].ts = k.m.ts % Mask
AtPayload(a, k, R) ==
    /\ pc = "payload" /\ R = a.pos + Len(Heading(a, k)) /\ cur.cid = k.m.cid
    /\ Others(a, k) /\ Carries(chunks[k.m.cid], a, k)
    /\ chunks[k.m.cid].ts = k.m.ts % Mask /\ ~chunks[k.m.cid].fresh
AtHook(a, R) == pc = "hook" /\ R = a.pos /\ Shadows(a)

ParsesAt(A, K, C, q, R) ==
    \/ AtBasic(A[q], R) \/ AtHook(A[q], R)
    \/ /\ q <= C
       /\ AtHeader(A[q], K[q], R) \/ AtExt(A[q], K[q], R) \/ AtPayload(A[q], K[q], R)

\* Of the messages S those of N were delivered as G, D[i] the ith.
Gave(S, G, D, N) ==
    /\ DOMAIN D = 1..Len(G)
    /\ \A i \in 1..Len(G) : D[i] \in N /\ G[i] = Stamped(S[D[i]])
    /\ \A j \in N : \E i \in 1..Len(G) : D[i] = j
    /\ \A i, k \in 1..Len(G) : i < k /\ G[i].cid = G[k].cid => D[i] < D[k]

\* All that are done before a were, but for the one the hook has.
GaveTo(D, a) ==
    IF pc # "hook" THEN Gave(sent, delivered, D, a.done) /\ in_chunk_size = a.cs
    ELSE \E n \in a.done :
            /\ Gave(sent, delivered, D, a.done \ {n}) /\ msg = Stamped(sent[n])
            /\ a.cs = SizeBehind(msg, in_chunk_size)
            /\ \A j \in a.done : sent[j].cid = sent[n].cid => j <= n

\* What the peer keeps now is its last state.
PeerAt(a) ==
    /\ a.tx = tx /\ a.cs = peer_chunk_size
    /\ \A c \in Cids : Standing(sent, a, c)

Followed(A, K, C, q, R, D) ==
    /\ History(sent, A, K, C) /\ PeerAt(A[C + 1])
    /\ InFlight(Stream, A, K, C, q, R)
    /\ ParsesAt(A, K, C, q, R) /\ GaveTo(D, A[q])

\* The messages are such as the peer may send.
Meant(S, p) == \A n \in 1..Len(S) : \E d \in p.outgoing : S[n] = Numbered(d, n)

\* The types of what any peer keeps.
TxTyped(t) ==
    /\ t.fresh \in BOOLEAN /\ (t.fresh => t.left = <<>>)
    /\ ~t.fresh => t.m \in Sendable /\ t.left \in Seq(DataToken) /\ t.field \in 0..(Raw - 1)
PeerTyped ==
    /\ peer \in Peers
    /\ sent \in Seq(Sendable) /\ Len(sent) <= MaxMessages /\ Meant(sent, peer)
    /\ DOMAIN tx = Cids /\ \A c \in Cids : TxTyped(tx[c])
    /\ peer_chunk_size \in Nat

PeerInv ==
    /\ ReaderInv /\ PeerTyped
    /\ Understood(peer) => \E A, K, C, q, R, D : Followed(A, K, C, q, R, D)

(***************************************************************************)
(* Chunks.                                                                 *)
(***************************************************************************)

LEMMA SendableType ==
    ASSUME NEW m \in Sendable
    PROVE  /\ m.cid \in Cids /\ m.type \in Types /\ m.sid \in Sids
           /\ m.ts \in 0..(Raw - 1) /\ m.ts \in Nat
           /\ m.data \in Seq(DataToken) /\ m.data \in Seq(Token)
           /\ Len(m.data) \in Nat /\ Len(m.data) \in 1..MaxLength
           /\ m.type \in ControlTypes => Len(m.data) >= ControlSize
           /\ m.type = "SetChunkSize" => Decode(m.data) > 0
<1>1. /\ m.cid \in Cids /\ m.type \in Types /\ m.sid \in Sids
      /\ m.ts \in 0..(Raw - 1) /\ m.data \in Seq(DataToken)
      /\ Len(m.data) \in 1..MaxLength
      /\ m.type \in ControlTypes => Len(m.data) >= ControlSize
      /\ m.type = "SetChunkSize" => Decode(m.data) > 0
    BY DEF Sendable
<1>2. m.ts \in Nat
    BY <1>1, WireAssumption
<1>3. m.data \in Seq(Token)
    BY <1>1, SeqMonotonic DEF Token
<1>4. Len(m.data) \in Nat
    BY <1>1
<1> QED BY <1>1, <1>2, <1>3, <1>4

\* A delta of a message that may be compressed is below the threshold.
LEMMA FieldType ==
    ASSUME NEW t, TxOK(t), NEW m \in Sendable, NEW fmt, RightFormat(t, m, fmt),
           NEW f, f = Field(t, m, fmt)
    PROVE  f \in Nat /\ f < Raw /\ (f >= Extended => f = m.ts)
<1>1. m.ts \in Nat /\ m.ts < Raw
    BY SendableType, WireAssumption
<1>2. CASE fmt = 0 \/ t.fresh
    BY <1>1, <1>2 DEF Field
<1>3. CASE ~(fmt = 0 \/ t.fresh)
  <2>1. f = Delta(t, m) /\ Delta(t, m) \in 0..(Extended - 1)
    BY <1>3 DEF Field, RightFormat
  <2>2. t.m \in Sendable
    BY <1>3 DEF TxOK
  <2>3. t.m.ts \in Nat
    BY <2>2, SendableType
  <2>4. f \in Nat /\ f < Extended /\ f = m.ts - t.m.ts
    BY <2>1, WireAssumption DEF Delta
  <2> QED BY <1>1, <2>3, <2>4, WireAssumption
<1> QED BY <1>2, <1>3

\* What a chunk has of its message.
ChunkParts(a, k) ==
    /\ k.m \in Sendable /\ k.m.cid \in Cids /\ TxOK(Of(a, k))
    /\ Len(k.m.data) \in Nat /\ a.cs \in Nat /\ a.cs > 0 /\ a.pos \in Nat
    /\ From(a, k) \in Nat /\ From(a, k) < Len(k.m.data)
    /\ Piece(a, k) \in Nat /\ Piece(a, k) > 0
    /\ From(a, k) + Piece(a, k) <= Len(k.m.data)
    /\ FieldOf(a, k) \in Nat /\ FieldOf(a, k) < Raw
    /\ FieldOf(a, k) >= Extended => FieldOf(a, k) = k.m.ts
    /\ k.fmt \in 0..3 /\ k.told \in BOOLEAN
    /\ ~Starts(a, k) => /\ ~Of(a, k).fresh /\ Of(a, k).m = k.m /\ FieldOf(a, k) = Of(a, k).field
                        /\ Of(a, k).ext = (FieldOf(a, k) >= Extended)
                        /\ From(a, k) = Len(k.m.data) - Len(Of(a, k).left)

LEMMA ChunkPartsRight ==
    ASSUME NEW S \in Seq(Sendable), NEW a, NEW k, StateRight(S, a), ChunkRight(S, a, k)
    PROVE  ChunkParts(a, k)
<1> SUFFICES ASSUME NEW m, m = k.m, NEW p, p = From(a, k), NEW n, n = Piece(a, k),
                    NEW f, f = FieldOf(a, k)
             PROVE  ChunkParts(a, k)
    OBVIOUS
<1>1. m \in Sendable
    BY DEF ChunkRight
<1>2. m.cid \in Cids /\ Len(m.data) \in Nat /\ Len(m.data) \in 1..MaxLength
    BY <1>1, SendableType
<1>3. TxOK(Of(a, k)) /\ a.cs \in Nat \ {0} /\ a.pos \in Nat
    BY <1>2 DEF StateRight, Of
<1>4. PICK t : t = Of(a, k)
    OBVIOUS
<1>5. k.fmt \in 0..3
    BY DEF ChunkRight, RightFormat
<1>6. ASSUME ~Starts(a, k)
      PROVE  /\ ~t.fresh /\ t.m = m /\ f = t.field /\ t.ext = (f >= Extended)
             /\ p = Len(m.data) - Len(t.left) /\ p \in Nat /\ p < Len(m.data)
  <2>1. t.left # <<>> /\ t.m = m /\ f = t.field /\ p = Len(m.data) - Len(t.left)
    BY <1>4, <1>6 DEF Starts, ChunkRight, FieldOf, From
  <2>2. ~t.fresh
    BY <1>3, <1>4, <2>1 DEF TxOK
  <2>3. t.left \in Seq(DataToken) /\ Len(t.left) <= Len(m.data) /\ t.ext = (f >= Extended)
    BY <1>3, <1>4, <2>1, <2>2 DEF TxOK
  <2>4. Len(t.left) \in Nat \ {0}
    BY <2>1, <2>3
  <2>5. p \in Nat /\ p < Len(m.data)
    <3>1. PICK x, y : x = Len(m.data) /\ y = Len(t.left)
        OBVIOUS
    <3>2. x \in Nat /\ y \in Nat \ {0} /\ y <= x /\ p = x - y
        BY <1>2, <2>1, <2>3, <2>4, <3>1
    <3>3. p \in Nat /\ p < x
        BY <3>2
    <3> QED BY <3>1, <3>3
  <2>6. ~t.fresh /\ t.m = m /\ f = t.field /\ t.ext = (f >= Extended)
    BY <2>1, <2>2, <2>3
  <2> QED BY <2>1, <2>5, <2>6
<1>7. p \in Nat /\ p < Len(m.data)
  <2>1. CASE Starts(a, k)
    BY <1>2, <2>1 DEF From
  <2> QED BY <1>6, <2>1
<1>8. n \in 1..(Len(m.data) - p)
  <2>1. PICK x : x = Len(m.data) - p
    OBVIOUS
  <2>2. x \in Nat \ {0}
    BY <1>2, <1>7, <2>1
  <2>3. n = Smaller(x, a.cs)
    BY <2>1 DEF Piece
  <2>4. n \in 1..x
    BY <1>3, <2>2, <2>3 DEF Smaller
  <2> QED BY <2>1, <2>4
<1>9. f \in Nat /\ f < Raw /\ (f >= Extended => f = m.ts)
  <2>1. CASE Starts(a, k)
    <3>1. RightFormat(t, m, k.fmt) /\ f = Field(t, m, k.fmt)
        BY <1>4, <2>1 DEF ChunkRight, FieldOf
    <3> QED BY <1>1, <1>3, <1>4, <3>1, FieldType
  <2>2. CASE ~Starts(a, k)
    <3>1. ~t.fresh /\ t.m = m /\ f = t.field /\ t.ext = (f >= Extended)
        BY <1>6, <2>2
    <3>2. t.field \in 0..(Raw - 1) /\ (t.ext => t.field = t.m.ts)
        BY <1>3, <1>4, <3>1 DEF TxOK
    <3>3. f \in 0..(Raw - 1)
        BY <3>1, <3>2
    <3>4. f \in Nat /\ f < Raw
        BY <3>3, WireAssumption
    <3>5. f >= Extended => f = m.ts
        BY <3>1, <3>2
    <3> QED BY <3>4, <3>5
  <2> QED BY <2>1, <2>2
<1>10. n \in Nat /\ n > 0 /\ p + n <= Len(m.data)
  <2>1. PICK x : x = Len(m.data)
    OBVIOUS
  <2>2. x \in Nat /\ n \in 1..(x - p) /\ p \in Nat
    BY <1>2, <1>7, <1>8, <2>1
  <2> QED BY <2>1, <2>2
<1>11. ~Starts(a, k) => /\ ~Of(a, k).fresh /\ Of(a, k).m = m /\ f = Of(a, k).field
                        /\ Of(a, k).ext = (f >= Extended)
                        /\ p = Len(m.data) - Len(Of(a, k).left)
    BY <1>4, <1>6
<1>12. /\ m \in Sendable /\ m.cid \in Cids /\ TxOK(Of(a, k)) /\ Len(m.data) \in Nat
       /\ a.cs \in Nat /\ a.pos \in Nat
    BY <1>1, <1>2, <1>3
<1>13. k.told \in BOOLEAN /\ a.cs > 0
    BY <1>3 DEF ChunkRight
<1> QED BY <1>5, <1>7, <1>9, <1>10, <1>11, <1>12, <1>13 DEF ChunkParts

ExtLen(f, told) == IF f >= Extended /\ told THEN ExtWidth ELSE 0
HeadLen(fmt) == IF fmt = 3 THEN 1 ELSE 2

\* The header of a chunk.
HeadersRight(h, m, fmt, f, told) ==
    /\ h \in Seq(Token) /\ HeadLen(fmt) \in 1..2 /\ ExtLen(f, told) \in Nat
    /\ Len(h) = HeadLen(fmt) + ExtLen(f, told)
    /\ h[1] = [k |-> "basic", fmt |-> fmt, cid |-> m.cid]
    /\ fmt <= 2 => h[2] = [k |-> "head", ts |-> Smaller(f, Extended), len |-> Len(m.data),
                           type |-> m.type, sid |-> m.sid]
    /\ \A i \in 1..ExtLen(f, told) : h[HeadLen(fmt) + i] = [k |-> "ext", ts |-> f, i |-> i]

LEMMA HeadersType ==
    ASSUME NEW m \in Sendable, NEW fmt \in 0..3, NEW f \in Nat, f < Raw, NEW told \in BOOLEAN
    PROVE  HeadersRight(Headers(m, fmt, f, told), m, fmt, f, told)
<1> SUFFICES ASSUME NEW h, h = Headers(m, fmt, f, told),
                    NEW x, x = HeadLen(fmt), NEW e, e = ExtLen(f, told)
             PROVE  HeadersRight(h, m, fmt, f, told)
    OBVIOUS
<1> DEFINE b == [k |-> "basic", fmt |-> fmt, cid |-> m.cid]
           g == [k |-> "head", ts |-> Smaller(f, Extended), len |-> Len(m.data),
                 type |-> m.type, sid |-> m.sid]
           y == IF f >= Extended /\ told THEN ExtField(f) ELSE <<>>
<1>1. b \in Token
    BY SendableType DEF Token, BasicHeader
<1>2. g \in Token
  <2>1. Smaller(f, Extended) \in 0..Extended
    BY WireAssumption DEF Smaller
  <2>2. Len(m.data) \in 0..MaxLength
    BY SendableType, WireAssumption
  <2>3. g \in MessageHeader
    BY <2>1, <2>2, SendableType DEF MessageHeader
  <2> QED BY <2>3 DEF Token
<1>3. /\ y \in Seq(Token) /\ Len(y) = e /\ e \in Nat
      /\ \A i \in 1..e : y[i] = [k |-> "ext", ts |-> f, i |-> i]
  <2>1. CASE f >= Extended /\ told
    <3>1. y = ExtField(f) /\ e = ExtWidth /\ f \in 0..(Raw - 1)
        BY <2>1, WireAssumption DEF ExtLen
    <3> HIDE DEF y
    <3> QED BY <3>1, ExtFieldType, WireAssumption
  <2>2. CASE ~(f >= Extended /\ told)
    BY <2>2 DEF ExtLen
  <2> QED BY <2>1, <2>2
<1>4. PICK u, v : u = << b >> /\ v = IF fmt = 3 THEN <<>> ELSE << g >>
    OBVIOUS
<1>5. PICK z : z = u \o v /\ h = z \o y
    BY <1>4 DEF Headers
<1> HIDE DEF b, g, y
<1>6. u \in Seq(Token) /\ Len(u) = 1 /\ u[1] = b
    BY <1>1, <1>4
<1>7. v \in Seq(Token) /\ Len(v) = IF fmt = 3 THEN 0 ELSE 1
    BY <1>2, <1>4
<1>8. fmt <= 2 => v[1] = g
    BY <1>4
<1>9. z \in Seq(Token) /\ Len(z) = x /\ x \in 1..2 /\ z[1] = b /\ (fmt <= 2 => z[2] = g)
  <2>1. z \in Seq(Token) /\ Len(z) = Len(u) + Len(v)
    BY <1>5, <1>6, <1>7, ConcatElements
  <2>2. \A i \in 1..Len(u) : z[i] = u[i]
    BY <1>5, <1>6, <1>7, ConcatElements
  <2>3. \A i \in 1..Len(v) : z[Len(u) + i] = v[i]
    BY <1>5, <1>6, <1>7, ConcatElements
  <2>4. Len(z) = x /\ x \in 1..2
    BY <1>6, <1>7, <2>1 DEF HeadLen
  <2>5. z[1] = b
    BY <1>6, <2>2
  <2>6. fmt <= 2 => z[2] = v[1]
    BY <1>6, <1>7, <2>3
  <2> QED BY <1>8, <2>1, <2>4, <2>5, <2>6
<1>10. /\ h \in Seq(Token) /\ Len(h) = x + e
       /\ \A i \in 1..x : h[i] = z[i]
       /\ \A i \in 1..e : h[x + i] = y[i]
  <2>1. z \in Seq(Token) /\ y \in Seq(Token) /\ h = z \o y /\ Len(z) = x
    BY <1>3, <1>5, <1>9
  <2>2. Len(y) = e
    BY <1>3
  <2>3. h \in Seq(Token) /\ Len(h) = Len(z) + Len(y)
    BY <2>1, ConcatElements
  <2>4. \A i \in 1..Len(z) : h[i] = z[i]
    BY <2>1, ConcatElements
  <2>5. \A i \in 1..Len(y) : h[Len(z) + i] = y[i]
    BY <2>1, ConcatElements
  <2> QED BY <2>1, <2>2, <2>3, <2>4, <2>5
<1>11. h[1] = z[1] /\ (fmt <= 2 => h[2] = z[2])
    BY <1>10, <1>9 DEF HeadLen
<1> QED BY <1>3, <1>10, <1>11, <1>9 DEF b, g, HeadersRight


\* A chunk is its header and its part of the payload.
TokensRight(a, k) ==
    /\ Tokens(a, k) \in Seq(Token) /\ Len(Tokens(a, k)) \in Nat
    /\ Len(Heading(a, k)) \in Nat /\ Len(Tokens(a, k)) = Len(Heading(a, k)) + Piece(a, k)
    /\ HeadLen(k.fmt) \in 1..2 /\ ExtLen(FieldOf(a, k), k.told) \in Nat
    /\ Len(Heading(a, k)) = HeadLen(k.fmt) + ExtLen(FieldOf(a, k), k.told)
    /\ Tokens(a, k)[1] = [k |-> "basic", fmt |-> k.fmt, cid |-> k.m.cid]
    /\ k.fmt <= 2 => Tokens(a, k)[2] =
                        [k |-> "head", ts |-> Smaller(FieldOf(a, k), Extended),
                         len |-> Len(k.m.data), type |-> k.m.type, sid |-> k.m.sid]
    /\ \A i \in 1..ExtLen(FieldOf(a, k), k.told) :
          Tokens(a, k)[HeadLen(k.fmt) + i] = [k |-> "ext", ts |-> FieldOf(a, k), i |-> i]
    /\ \A i \in 1..Piece(a, k) :
          Tokens(a, k)[Len(Heading(a, k)) + i] = k.m.data[From(a, k) + i]

LEMMA TokensType ==
    ASSUME NEW a, NEW k, ChunkParts(a, k)
    PROVE  TokensRight(a, k)
<1> SUFFICES ASSUME NEW m, m = k.m, NEW p, p = From(a, k), NEW n, n = Piece(a, k),
                    NEW f, f = FieldOf(a, k), NEW x, x = HeadLen(k.fmt),
                    NEW e, e = ExtLen(f, k.told),
                    NEW z, z = Tokens(a, k), NEW h, h = Len(Heading(a, k))
             PROVE  TokensRight(a, k)
    OBVIOUS
<1>1. /\ m \in Sendable /\ Len(m.data) \in Nat /\ p \in Nat /\ p < Len(m.data)
      /\ n \in Nat /\ n > 0 /\ p + n <= Len(m.data) /\ f \in Nat /\ f < Raw
      /\ k.fmt \in 0..3 /\ k.told \in BOOLEAN
    BY DEF ChunkParts
<1>2. PICK g : g = Headers(m, k.fmt, f, k.told)
    OBVIOUS
<1>3. /\ g \in Seq(Token) /\ x \in 1..2 /\ e \in Nat /\ Len(g) = x + e
      /\ g[1] = [k |-> "basic", fmt |-> k.fmt, cid |-> m.cid]
      /\ k.fmt <= 2 => g[2] = [k |-> "head", ts |-> Smaller(f, Extended),
                               len |-> Len(m.data), type |-> m.type, sid |-> m.sid]
      /\ \A i \in 1..e : g[x + i] = [k |-> "ext", ts |-> f, i |-> i]
  <2>1. HeadersRight(g, m, k.fmt, f, k.told)
    BY <1>1, <1>2, HeadersType
  <2> QED BY <2>1 DEF HeadersRight
<1>4. PICK d : d = m.data
    OBVIOUS
<1>5. d \in Seq(Token)
    BY <1>1, <1>4, SendableType
<1>6. PICK y : y = Drop(d, p)
    OBVIOUS
<1>7. /\ y \in Seq(Token) /\ Len(y) = Len(d) - p
      /\ \A i \in 1..(Len(d) - p) : y[i] = d[i + p]
  <2>1. p \in Nat /\ p <= Len(d)
    BY <1>1, <1>4
  <2>2. y = SubSeq(d, p + 1, Len(d))
    BY <1>6 DEF Drop
  <2> QED BY <1>5, <2>1, <2>2, Suffix
<1>8. n <= Len(y) /\ n \in Nat
    BY <1>1, <1>4, <1>7
<1>9. PICK w : w = SubSeq(y, 1, n)
    OBVIOUS
<1>10. w \in Seq(Token) /\ Len(w) = n /\ \A i \in 1..n : w[i] = y[i]
    BY <1>7, <1>8, <1>9, Prefix
<1>11. z = g \o w /\ h = Len(g)
    BY <1>2, <1>4, <1>6, <1>9 DEF Tokens, Heading
<1>12. /\ z \in Seq(Token) /\ Len(z) = Len(g) + Len(w)
       /\ \A i \in 1..Len(g) : z[i] = g[i]
       /\ \A i \in 1..Len(w) : z[Len(g) + i] = w[i]
  <2>1. g \in Seq(Token) /\ w \in Seq(Token) /\ z = g \o w
    BY <1>3, <1>10, <1>11
  <2>2. z \in Seq(Token) /\ Len(z) = Len(g) + Len(w)
    BY <2>1, ConcatElements
  <2>3. \A i \in 1..Len(g) : z[i] = g[i]
    BY <2>1, ConcatElements
  <2>4. \A i \in 1..Len(w) : z[Len(g) + i] = w[i]
    BY <2>1, ConcatElements
  <2> QED BY <2>2, <2>3, <2>4
<1>13. h = x + e /\ h \in Nat /\ Len(z) = h + n /\ Len(z) \in Nat
  <2>1. h = x + e
    BY <1>3, <1>11
  <2>2. h \in Nat
    BY <1>3, <2>1
  <2>3. Len(z) = h + n
    BY <1>10, <1>11, <1>12
  <2> QED BY <1>8, <2>1, <2>2, <2>3
<1>14. z[1] = g[1]
    BY <1>3, <1>12
<1>15. k.fmt <= 2 => z[2] = g[2]
  <2>1. k.fmt <= 2 => x = 2
    BY <1>1 DEF HeadLen
  <2> QED BY <1>3, <1>12, <2>1
<1>16. ASSUME NEW i \in 1..e PROVE z[x + i] = g[x + i]
  <2>1. Len(g) = x + e /\ x \in 1..2 /\ e \in Nat
    BY <1>3
  <2>2. x + i \in 1..Len(g)
    BY <2>1, <1>16
  <2> QED BY <1>12, <2>2
<1>17. ASSUME NEW i \in 1..n PROVE z[h + i] = d[p + i]
  <2>1. z[h + i] = w[i]
    BY <1>10, <1>11, <1>12, <1>17
  <2>2. w[i] = y[i]
    BY <1>10, <1>17
  <2>3. i \in 1..(Len(d) - p)
    BY <1>7, <1>8, <1>17
  <2>4. y[i] = d[i + p]
    BY <1>7, <2>3
  <2>5. i + p = p + i
    BY <1>1, <1>17
  <2> QED BY <2>1, <2>2, <2>4, <2>5
<1>18. \A i \in 1..n : z[h + i] = m.data[p + i]
    BY <1>4, <1>17
<1>19. \A i \in 1..e : z[x + i] = [k |-> "ext", ts |-> f, i |-> i]
    BY <1>3, <1>16
<1>20. k.fmt <= 2 => z[2] = [k |-> "head", ts |-> Smaller(f, Extended),
                             len |-> Len(m.data), type |-> m.type, sid |-> m.sid]
    BY <1>3, <1>15
<1>21. z[1] = [k |-> "basic", fmt |-> k.fmt, cid |-> m.cid]
    BY <1>3, <1>14
<1> QED BY <1>3, <1>12, <1>13, <1>18, <1>19, <1>20, <1>21 DEF TokensRight

(***************************************************************************)
(* Chunks in flight.                                                       *)
(***************************************************************************)

\* What the history says of its states and chunks.
LEMMA HistoryStates ==
    ASSUME NEW S, NEW A, NEW K, NEW C, History(S, A, K, C), NEW i \in 1..(C + 1)
    PROVE  /\ StateRight(S, A[i]) /\ A[i].pos \in Nat /\ C \in Nat
           /\ i <= C => /\ ChunkRight(S, A[i], K[i]) /\ A[i + 1] = After(A[i], K[i])
                        /\ ChunkParts(A[i], K[i]) /\ TokensRight(A[i], K[i])
<1>1. S \in Seq(Sendable) /\ C \in Nat /\ StateRight(S, A[i])
    BY DEF History
<1>2. A[i].pos \in Nat
    BY <1>1 DEF StateRight
<1>3. ASSUME i <= C
      PROVE  /\ ChunkRight(S, A[i], K[i]) /\ A[i + 1] = After(A[i], K[i])
             /\ ChunkParts(A[i], K[i]) /\ TokensRight(A[i], K[i])
  <2>1. i \in 1..C
    BY <1>1, <1>3
  <2>2. ChunkRight(S, A[i], K[i]) /\ A[i + 1] = After(A[i], K[i])
    BY <2>1 DEF History
  <2>3. ChunkParts(A[i], K[i])
    BY <1>1, <2>2, ChunkPartsRight
  <2>4. TokensRight(A[i], K[i])
    BY <2>3, TokensType
  <2> QED BY <2>2, <2>3, <2>4
<1> QED BY <1>1, <1>2, <1>3

\* Behind a chunk the position is past its tokens.
LEMMA AfterPos ==
    ASSUME NEW a, NEW k
    PROVE  After(a, k).pos = a.pos + Len(Tokens(a, k))
BY DEF After

\* A chunk in flight flies on when n tokens are parsed.
LEMMA FliesOn ==
    ASSUME NEW W \in Seq(Token), NEW V \in Seq(Token), NEW n \in Nat, n <= Len(W),
           Len(V) = Len(W) - n, \A i \in 1..(Len(W) - n) : V[i] = W[i + n],
           NEW a, NEW k, a.pos \in Nat, Len(Tokens(a, k)) \in Nat, NEW R \in Nat,
           Flies(W, a, k, R)
    PROVE  Flies(V, a, k, R + n)
<1>1. PICK l, p, w : l = Len(Tokens(a, k)) /\ p = a.pos /\ w = Len(W)
    OBVIOUS
<1>2. l \in Nat /\ p \in Nat /\ w \in Nat /\ p + l <= R + w
    BY <1>1 DEF Flies
<1>3. p + l <= (R + n) + Len(V)
    BY <1>1, <1>2
<1>4. ASSUME NEW j \in 1..l, p + j > R + n
      PROVE  V[p + j - (R + n)] = Tokens(a, k)[j]
  <2>1. PICK i : i = p + j - (R + n)
    OBVIOUS
  <2>2. i \in 1..(w - n) /\ i + n = p + j - R /\ p + j > R
    BY <1>2, <1>4, <2>1
  <2>3. W[p + j - R] = Tokens(a, k)[j]
    BY <1>1, <1>4, <2>2 DEF Flies
  <2>4. V[i] = W[i + n]
    BY <1>1, <2>2
  <2> QED BY <2>1, <2>2, <2>3, <2>4
<1> QED BY <1>1, <1>3, <1>4 DEF Flies

\* So do all that the parser has not come to.
LEMMA InFlightOn ==
    ASSUME NEW W \in Seq(Token), NEW V \in Seq(Token), NEW n \in Nat, n <= Len(W),
           Len(V) = Len(W) - n, \A i \in 1..(Len(W) - n) : V[i] = W[i + n],
           NEW S, NEW A, NEW K, NEW C, History(S, A, K, C),
           NEW q, NEW R, InFlight(W, A, K, C, q, R),
           NEW r, r \in q..(C + 1), A[r].pos <= R + n
    PROVE  InFlight(V, A, K, C, r, R + n)
<1>1. C \in Nat /\ q \in 1..(C + 1) /\ R \in Nat
    BY DEF History, InFlight
<1>2. r \in 1..(C + 1) /\ R + n \in Nat
    BY <1>1
<1>3. A[C + 1].pos = (R + n) + Len(V)
  <2>1. A[C + 1].pos = R + Len(W)
    BY DEF InFlight
  <2> QED BY <1>1, <2>1
<1>4. ASSUME NEW i \in r..C PROVE Flies(V, A[i], K[i], R + n)
  <2>1. i \in 1..(C + 1) /\ i <= C /\ i \in q..C
    BY <1>1, <1>2
  <2>2. A[i].pos \in Nat /\ TokensRight(A[i], K[i])
    BY <2>1, HistoryStates
  <2>3. Len(Tokens(A[i], K[i])) \in Nat
    BY <2>2 DEF TokensRight
  <2>4. Flies(W, A[i], K[i], R)
    BY <2>1 DEF InFlight
  <2> QED BY <1>1, <2>2, <2>3, <2>4, FliesOn
<1> QED BY <1>2, <1>3, <1>4 DEF InFlight

----------------------------------------------------------------------------
(***************************************************************************)
(* The reader.                                                             *)
(***************************************************************************)

\* What is in the buffer is of the chunk the parser is in.
LEMMA Here ==
    ASSUME in_buffer \in Seq(Token), wire \in Seq(Token),
           NEW a, NEW k, NEW R \in Nat, a.pos \in Nat, Flies(Stream, a, k, R),
           NEW z, z = Tokens(a, k), Len(z) \in Nat,
           NEW j \in 1..Len(in_buffer), NEW i \in 1..Len(z), a.pos + i = R + j
    PROVE  in_buffer[j] = z[i]
<1>1. in_buffer[j] = Stream[j]
    BY StreamType
<1>2. a.pos + i > R /\ a.pos + i - R = j
  <2>1. PICK x, b, n : x = a.pos /\ b = Len(in_buffer) /\ n = Len(z)
    OBVIOUS
  <2>2. /\ x \in Nat /\ b \in Nat /\ n \in Nat
        /\ j \in 1..b /\ i \in 1..n /\ x + i = R + j
    BY <2>1, StreamType
  <2>3. x + i > R /\ x + i - R = j
    BY <2>2
  <2> QED BY <2>1, <2>3
<1>3. Stream[a.pos + i - R] = z[i]
    BY <1>2 DEF Flies
<1> QED BY <1>1, <1>2, <1>3

\* The parser is in chunk q, or behind the last one with nothing to parse.
LEMMA SomethingHere ==
    ASSUME in_buffer \in Seq(Token), wire \in Seq(Token), Len(in_buffer) >= 1,
           NEW S, NEW A, NEW K, NEW C, History(S, A, K, C),
           NEW q, NEW R, InFlight(Stream, A, K, C, q, R), R = A[q].pos
    PROVE  q \in 1..C
<1>1. C \in Nat /\ q \in 1..(C + 1) /\ R \in Nat /\ A[C + 1].pos = R + Len(Stream)
    BY DEF History, InFlight
<1>2. Len(Stream) >= 1 /\ Len(Stream) \in Nat
    BY StreamType
<1>3. q # C + 1
    BY <1>1, <1>2
<1> QED BY <1>1, <1>3

\* What is known of the chunk the parser is in.
LEMMA ChunkHere ==
    ASSUME NEW A, NEW K, NEW C, NEW q, NEW R, NEW D, Followed(A, K, C, q, R, D),
           NEW a, a = A[q], NEW k, k = K[q], q <= C
    PROVE  /\ C \in Nat /\ q \in 1..C /\ q + 1 \in 1..(C + 1) /\ R \in Nat
           /\ a.pos \in Nat /\ a.pos <= R
           /\ StateRight(sent, a) /\ ChunkRight(sent, a, k)
           /\ ChunkParts(a, k) /\ TokensRight(a, k)
           /\ A[q + 1] = After(a, k) /\ StateRight(sent, A[q + 1])
           /\ Flies(Stream, a, k, R)
<1>1. History(sent, A, K, C) /\ InFlight(Stream, A, K, C, q, R)
    BY DEF Followed
<1>2. C \in Nat /\ q \in 1..(C + 1) /\ R \in Nat /\ A[q].pos <= R
    BY <1>1 DEF History, InFlight
<1>3. q \in 1..C /\ q + 1 \in 1..(C + 1) /\ q \in q..C
    BY <1>2
<1>4. /\ StateRight(sent, a) /\ a.pos \in Nat
      /\ ChunkRight(sent, a, k) /\ A[q + 1] = After(a, k)
      /\ ChunkParts(a, k) /\ TokensRight(a, k)
    BY <1>1, <1>2, HistoryStates
<1>5. StateRight(sent, A[q + 1])
    BY <1>1, <1>3, HistoryStates
<1>6. Flies(Stream, a, k, R)
    BY <1>1, <1>3 DEF InFlight
<1> QED BY <1>2, <1>3, <1>4, <1>5, <1>6

\* A step of the reader parses n tokens and comes to the chunk r.
LEMMA Onwards ==
    ASSUME in_buffer \in Seq(Token), wire \in Seq(Token), in_buffer' \in Seq(Token),
           NEW A, NEW K, NEW C, NEW q, NEW R, NEW D, Followed(A, K, C, q, R, D),
           NEW n \in Nat, n <= Len(in_buffer), Consume(n), UNCHANGED peerVars,
           NEW r, r \in q..(C + 1), A[r].pos <= R + n, NEW T, T = R + n,
           ParsesAt(A, K, C, r, T)',
           NEW E, GaveTo(E, A[r])'
    PROVE  Followed(A, K, C, r, T, E)'
<1>1. History(sent, A, K, C) /\ PeerAt(A[C + 1]) /\ InFlight(Stream, A, K, C, q, R)
    BY DEF Followed
<1>2. sent' = sent /\ tx' = tx /\ peer_chunk_size' = peer_chunk_size /\ wire' = wire
    BY DEF peerVars, Consume
<1>3. History(sent', A, K, C)
    BY <1>1, <1>2
<1>4. PeerAt(A[C + 1])'
    BY <1>1, <1>2 DEF PeerAt
<1>5. PICK W, V : W = Stream /\ V = Stream'
    OBVIOUS
<1>6. W \in Seq(Token) /\ n <= Len(W)
    BY <1>5, StreamType
<1>7. V \in Seq(Token)
    BY <1>2, <1>5 DEF Stream
<1>8. Len(V) = Len(W) - n
    BY <1>5, StreamConsumed
<1>9. \A i \in 1..(Len(W) - n) : V[i] = W[i + n]
    BY <1>5, StreamConsumed
<1>10. InFlight(V, A, K, C, r, T)
    BY <1>1, <1>5, <1>6, <1>7, <1>8, <1>9, InFlightOn
<1> QED BY <1>3, <1>4, <1>5, <1>10 DEF Followed

\* What the type invariant and the invariant of the reader say in every state.
LEMMA ReaderNow ==
    ASSUME ReaderInv
    PROVE  /\ wire \in Seq(Token) /\ in_buffer \in Seq(Token) /\ Len(in_buffer) \in Nat
           /\ chunks \in [Cids -> Chunk] /\ cur.cid \in Cids
           /\ in_chunk_size \in Nat /\ delivered \in Seq(Message)
           /\ MidChunk => This.open
           /\ pc = "header" /\ cur.first => This.data = <<>>
           /\ \A c \in Cids : ~chunks[c].open => chunks[c].data = <<>>
<1>1. ReaderTypeOK
    BY DEF ReaderInv
<1>2. /\ wire \in Seq(Token) /\ in_buffer \in Seq(Token) /\ Len(in_buffer) \in Nat
      /\ chunks \in [Cids -> Chunk] /\ cur.cid \in Cids
      /\ in_chunk_size \in Nat /\ delivered \in Seq(Message)
    BY <1>1 DEF ReaderTypeOK
<1>3. \A c \in Cids : chunks[c].alloc = NULL => chunks[c].data = <<>>
    BY DEF ReaderInv, ChunkOK
<1>4. \A c \in Cids : ~chunks[c].open => chunks[c].data = <<>>
    BY <1>3 DEF ReaderInv, ChunkOK
<1>5. pc = "header" /\ cur.first => This.data = <<>>
    BY <1>2, <1>3 DEF ReaderInv, This
<1>6. MidChunk => This.open
    BY DEF ReaderInv
<1> QED BY <1>2, <1>4, <1>5, <1>6

\* What was delivered stays, until the hook delivers more.
LEMMA GaveStays ==
    ASSUME NEW D, NEW a, GaveTo(D, a), pc # "hook", pc' # "hook",
           UNCHANGED <<sent, delivered, in_chunk_size>>
    PROVE  GaveTo(D, a)'
<1>1. Gave(sent, delivered, D, a.done) /\ in_chunk_size = a.cs
    BY DEF GaveTo
<1>2. Gave(sent', delivered', D, a.done) /\ in_chunk_size' = a.cs
    BY <1>1
<1> QED BY <1>2 DEF GaveTo

\* So do the other chunk streams.
LEMMA OthersStay ==
    ASSUME chunks \in [Cids -> Chunk], NEW a, NEW k, k.m.cid \in Cids,
           Shadows(a) \/ Others(a, k),
           NEW x, chunks' = [chunks EXCEPT ![k.m.cid] = x]
    PROVE  Others(a, k)' /\ chunks'[k.m.cid] = x
<1>1. \A c \in Cids : c # k.m.cid => chunks'[c] = chunks[c]
    OBVIOUS
<1>2. \A c \in Cids : c # k.m.cid => Keeps(chunks[c], a.tx[c])
    BY DEF Shadows, Others
<1>3. \A c \in Cids : c # k.m.cid => Keeps(chunks'[c], a.tx[c])
    BY <1>1, <1>2
<1> QED BY <1>3 DEF Others

\* A read from the socket moves tokens within the stream.
LEMMA SocketReadFollowed ==
    ASSUME ReaderInv, SocketRead, UNCHANGED peerVars,
           NEW A, NEW K, NEW C, NEW q, NEW R, NEW D, Followed(A, K, C, q, R, D)
    PROVE  Followed(A, K, C, q, R, D)'
<1>1. Stream' = Stream
    BY ReaderNow, StreamRead
<1>2. UNCHANGED <<sent, tx, peer_chunk_size, chunks, cur, msg, pc, in_chunk_size, delivered>>
    BY DEF SocketRead, peerVars, control
<1>3. History(sent, A, K, C)' /\ PeerAt(A[C + 1])' /\ InFlight(Stream, A, K, C, q, R)'
    BY <1>1, <1>2 DEF Followed, PeerAt
<1>4. ParsesAt(A, K, C, q, R)'
  <2>1. ParsesAt(A, K, C, q, R)
    BY DEF Followed
  <2> QED BY <1>2, <2>1
          DEF ParsesAt, AtBasic, AtHook, AtHeader, AtExt, AtPayload, Shadows, Others
<1>5. GaveTo(D, A[q])'
    BY <1>2 DEF Followed, GaveTo
<1> QED BY <1>3, <1>4, <1>5 DEF Followed

----------------------------------------------------------------------------
(* read_basic_header *)

\* The parser comes to a basic header.
LEMMA BasicHere ==
    ASSUME ReaderInv, pc = "basic", Grown,
           NEW A, NEW K, NEW C, NEW q, NEW R, NEW D, Followed(A, K, C, q, R, D)
    PROVE  /\ q \in 1..C /\ q <= C /\ R = A[q].pos /\ Shadows(A[q]) /\ Len(in_buffer) >= 1
           /\ Head(in_buffer) = [k |-> "basic", fmt |-> K[q].fmt, cid |-> K[q].m.cid]
<1>1. in_buffer \in Seq(Token) /\ wire \in Seq(Token)
    BY ReaderNow
<1>2. Len(in_buffer) >= 1
    BY DEF Grown, Required
<1>3. R = A[q].pos /\ Shadows(A[q])
    BY DEF Followed, ParsesAt, AtBasic, AtHook, AtHeader, AtExt, AtPayload
<1>4. History(sent, A, K, C) /\ InFlight(Stream, A, K, C, q, R)
    BY DEF Followed
<1>5. q \in 1..C
    BY <1>1, <1>2, <1>3, <1>4, SomethingHere
<1>6. PICK a, k, z : a = A[q] /\ k = K[q] /\ z = Tokens(a, k)
    OBVIOUS
<1>7. q <= C
  <2>1. C \in Nat
    BY <1>4 DEF History
  <2> QED BY <1>5, <2>1
<1>8. R \in Nat /\ a.pos \in Nat /\ Flies(Stream, a, k, R) /\ TokensRight(a, k)
    BY <1>6, <1>7, ChunkHere
<1>9. Len(z) \in Nat /\ Len(z) >= 1 /\ z[1] = [k |-> "basic", fmt |-> k.fmt, cid |-> k.m.cid]
  <2>1. ChunkParts(a, k)
    BY <1>6, <1>7, ChunkHere
  <2>2. Piece(a, k) \in Nat /\ Piece(a, k) > 0
    BY <2>1 DEF ChunkParts
  <2> QED BY <1>6, <1>8, <2>2 DEF TokensRight
<1>10. in_buffer[1] = z[1]
  <2>1. 1 \in 1..Len(in_buffer) /\ 1 \in 1..Len(z) /\ a.pos + 1 = R + 1
    BY <1>1, <1>2, <1>3, <1>6, <1>9
  <2> QED BY <1>1, <1>6, <1>8, <1>9, <2>1, Here
<1>11. Head(in_buffer) = in_buffer[1]
    BY <1>1, <1>2
<1> QED BY <1>2, <1>3, <1>5, <1>6, <1>9, <1>10, <1>11, <1>7

\* A chunk starts as the parser requires.
LEMMA NeverRejected ==
    ASSUME ReaderInv, NEW A, NEW K, NEW C, NEW q, NEW R, NEW D, Followed(A, K, C, q, R, D)
    PROVE  ~RejectChunkStart
<1> SUFFICES ASSUME RejectChunkStart PROVE FALSE
    OBVIOUS
<1>1. pc = "basic" /\ Grown /\ ~ChunkStartOk(Head(in_buffer).fmt, Head(in_buffer).cid)
    BY DEF RejectChunkStart
<1>2. PICK a, k : a = A[q] /\ k = K[q]
    OBVIOUS
<1>3. /\ q <= C /\ Shadows(a)
      /\ Head(in_buffer) = [k |-> "basic", fmt |-> k.fmt, cid |-> k.m.cid]
    BY <1>1, <1>2, BasicHere
<1>4. ChunkRight(sent, a, k) /\ ChunkParts(a, k)
    BY <1>2, <1>3, ChunkHere
<1>5. PICK c, t : c = chunks[k.m.cid] /\ t = Of(a, k)
    OBVIOUS
<1>6. Keeps(c, t)
    BY <1>3, <1>4, <1>5 DEF ChunkParts, Shadows, Of
<1>7. c.fresh = t.fresh /\ c.open = (t.left # <<>>)
    BY <1>6 DEF Keeps, Knows
<1>8. c.fresh => k.fmt = 0 \/ (k.m.cid = ProtocolControl /\ k.fmt = 1)
    BY <1>4, <1>5, <1>7 DEF ChunkRight, ChunkParts, RightFormat, Starts
<1>9. c.open => k.fmt # 0
  <2>1. Starts(a, k) \/ k.fmt = 3
    BY <1>4 DEF ChunkRight
  <2>2. c.open \in BOOLEAN
    BY <1>4, <1>5, ReaderNow DEF ChunkParts, Chunk
  <2>3. c.open => t.left # <<>>
    BY <1>7, <2>2
  <2>4. Starts(a, k) => t.left = <<>>
    BY <1>5 DEF Starts
  <2>5. k.fmt = 3 => k.fmt # 0
    OBVIOUS
  <2> QED BY <2>1, <2>3, <2>4, <2>5
<1>10. ChunkStartOk(k.fmt, k.m.cid)
    BY <1>5, <1>8, <1>9 DEF ChunkStartOk
<1> QED BY <1>1, <1>3, <1>10

\* Timestamps modulo Mask.
LEMMA Moduli ==
    ASSUME NEW a \in Nat, NEW d \in Nat
    PROVE  /\ a % Mask \in Nat /\ (a % Mask) % Mask = a % Mask
           /\ ((a % Mask) + d) % Mask = (a + d) % Mask
<1>1. Mask \in Nat \ {0}
    BY WireAssumption
<1>2. PICK M, r, p : M = Mask /\ r = a % M /\ p = a \div M
    OBVIOUS
<1>3. a = M * p + r /\ r \in 0..(M - 1) /\ p \in Nat /\ M \in Nat \ {0}
    BY <1>1, <1>2
<1>4. r % M = r
    BY <1>3
<1>5. PICK b : b = r + d
    OBVIOUS
<1>6. b \in Nat
    BY <1>3, <1>5
<1>7. PICK u, v : u = b % M /\ v = b \div M
    OBVIOUS
<1>8. b = M * v + u /\ u \in 0..(M - 1) /\ v \in Nat
    BY <1>3, <1>6, <1>7
<1>9. a + d = M * p + (M * v + u)
    BY <1>3, <1>5, <1>8
<1>10. M * p + (M * v + u) = M * (p + v) + u
    BY <1>3, <1>8
<1>11. PICK w : w = p + v
    OBVIOUS
<1>12. w \in Nat /\ a + d = M * w + u
    BY <1>3, <1>8, <1>9, <1>10, <1>11
<1>13. (M * w + u) % M = u
    BY <1>3, <1>8, <1>12
<1>14. (a + d) % M = b % M
    BY <1>7, <1>12, <1>13
<1>15. r \in Nat
    BY <1>3
<1> QED BY <1>2, <1>4, <1>5, <1>14, <1>15

\* The reader has of the stream of the next chunk what the peer keeps of it.
LEMMA StreamHere ==
    ASSUME ReaderInv, NEW S, NEW a, NEW k, Shadows(a), ChunkRight(S, a, k), ChunkParts(a, k),
           NEW c, c = chunks[k.m.cid]
    PROVE  /\ c \in Chunk /\ c.open \in BOOLEAN /\ c.ts \in Nat
           /\ Knows(c, Of(a, k)) /\ c.open = ~Starts(a, k)
           /\ c.data = SubSeq(k.m.data, 1, From(a, k))
<1>1. PICK t, m, p : t = Of(a, k) /\ m = k.m /\ p = From(a, k)
    OBVIOUS
<1>2. m.cid \in Cids /\ m \in Sendable
    BY <1>1 DEF ChunkParts
<1>3. c \in Chunk /\ c.open \in BOOLEAN /\ c.ts \in Nat
  <2>1. c \in Chunk
    BY <1>1, <1>2, ReaderNow
  <2>2. c.open \in BOOLEAN
    BY <2>1 DEF Chunk
  <2>3. c.ts \in 0..(Mask + Extended)
    BY <2>1 DEF Chunk
  <2> QED BY <2>1, <2>2, <2>3, WireAssumption
<1>4. Keeps(c, t)
    BY <1>1, <1>2 DEF Shadows, Of
<1>5. Knows(c, t) /\ c.open = (t.left # <<>>)
    BY <1>4 DEF Keeps
<1>6. c.open = ~Starts(a, k)
    BY <1>1, <1>5 DEF Starts
<1>7. c.data = SubSeq(m.data, 1, p)
  <2>1. CASE Starts(a, k)
    <3>1. ~c.open /\ p = 0
        BY <1>1, <1>3, <1>6, <2>1 DEF From
    <3>2. c.data = <<>>
        BY <1>1, <1>2, <3>1, ReaderNow
    <3>3. m.data \in Seq(Token)
        BY <1>2, SendableType
    <3>4. SubSeq(m.data, 1, 0) = <<>>
        BY <3>3
    <3> QED BY <3>1, <3>2, <3>4
  <2>2. CASE ~Starts(a, k)
    <3>1. t.left # <<>> /\ t.m = m /\ p = Len(m.data) - Len(t.left)
        BY <1>1, <2>2 DEF ChunkParts, Starts
    <3> QED BY <1>4, <3>1 DEF Keeps
  <2> QED BY <2>1, <2>2
<1> QED BY <1>1, <1>3, <1>5, <1>6, <1>7

\* The chunk stream behind a basic header of fmt 3, with and without such a field.
OpenedRight(a, k, d) ==
    /\ ~Starts(a, k) /\ FieldOf(a, k) >= Extended
    /\ Carries(d, a, k) /\ d.ts = k.m.ts % Mask
CountedRight(a, k, d) ==
    /\ FieldOf(a, k) < Extended
    /\ Carries(d, a, k) /\ d.ts = k.m.ts % Mask /\ ~d.fresh

\* A chunk of fmt 3 with an extended timestamp continues a message.
LEMMA BasicToExt ==
    ASSUME ReaderInv, NEW S, NEW a, NEW k, Shadows(a), ChunkRight(S, a, k), ChunkParts(a, k),
           k.fmt = 3, chunks[k.m.cid].extended
    PROVE  OpenedRight(a, k, [chunks[k.m.cid] EXCEPT !.open = TRUE])
<1> SUFFICES ASSUME NEW c, c = chunks[k.m.cid], c.extended,
                    NEW d, d = [c EXCEPT !.open = TRUE]
             PROVE  OpenedRight(a, k, d)
    OBVIOUS
<1>1. PICK t, m, f : t = Of(a, k) /\ m = k.m /\ f = FieldOf(a, k)
    OBVIOUS
<1>2. c \in Chunk /\ Knows(c, t) /\ c.data = SubSeq(m.data, 1, From(a, k))
    BY <1>1, StreamHere
<1>3. c.extended \in BOOLEAN
    BY <1>2 DEF Chunk
<1>4. Starts(a, k) => ~t.fresh /\ ~t.ext
  <2>1. Starts(a, k) => RightFormat(t, m, 3)
    BY <1>1 DEF ChunkRight
  <2> QED BY <2>1 DEF RightFormat
<1>5. ~t.fresh
  <2>1. ~Starts(a, k) => ~t.fresh
    BY <1>1 DEF ChunkParts
  <2> QED BY <1>4, <2>1
<1>6. /\ Heads(c, t.m) /\ c.ts = t.m.ts % Mask /\ c.extended = t.ext
      /\ c.delta = Smaller(t.field, Extended)
    BY <1>2, <1>5 DEF Knows
<1>7. ~Starts(a, k)
    BY <1>3, <1>6, <1>4
<1>8. t.m = m /\ f = t.field /\ t.ext = (f >= Extended)
    BY <1>1, <1>7 DEF ChunkParts
<1>9. f >= Extended
    BY <1>3, <1>6, <1>8
<1>10. /\ d.len = c.len /\ d.type = c.type /\ d.sid = c.sid /\ d.open = TRUE /\ d.ts = c.ts
       /\ d.extended = c.extended /\ d.delta = c.delta /\ d.data = c.data
    BY <1>2 DEF Chunk
<1>11. Heads(d, m)
    BY <1>6, <1>8, <1>10 DEF Heads
<1>12. d.extended = (f >= Extended) /\ d.delta = Smaller(f, Extended)
    BY <1>6, <1>8, <1>10
<1>13. Carries(d, a, k)
    BY <1>1, <1>2, <1>10, <1>11, <1>12 DEF Carries
<1> QED BY <1>1, <1>6, <1>7, <1>8, <1>9, <1>10, <1>13 DEF OpenedRight

\* One without repeats the delta of the message before, or continues a message.
LEMMA BasicToPayload ==
    ASSUME ReaderInv, NEW S, NEW a, NEW k, Shadows(a), ChunkRight(S, a, k), ChunkParts(a, k),
           k.fmt = 3, ~chunks[k.m.cid].extended
    PROVE  CountedRight(a, k, [Counted(Continued(chunks[k.m.cid])) EXCEPT !.open = TRUE])
<1> SUFFICES ASSUME NEW c, c = chunks[k.m.cid], ~c.extended,
                    NEW d, d = [Counted(Continued(c)) EXCEPT !.open = TRUE]
             PROVE  CountedRight(a, k, d)
    OBVIOUS
<1>1. PICK t, m, f : t = Of(a, k) /\ m = k.m /\ f = FieldOf(a, k)
    OBVIOUS
<1>2. /\ c \in Chunk /\ c.open \in BOOLEAN /\ c.ts \in Nat /\ Knows(c, t)
      /\ c.open = ~Starts(a, k) /\ c.data = SubSeq(m.data, 1, From(a, k))
    BY <1>1, StreamHere
<1>3. c.extended \in BOOLEAN /\ c.delta \in 0..Extended /\ HasFields(c)
    BY <1>2 DEF Chunk, HasFields
<1>4. Starts(a, k) => /\ ~t.fresh /\ ~t.ext /\ m.type = t.m.type /\ Len(m.data) = Len(t.m.data)
                     /\ m.sid = t.m.sid /\ Delta(t, m) = t.field /\ f = Field(t, m, 3)
  <2>1. Starts(a, k) => RightFormat(t, m, 3)
    BY <1>1 DEF ChunkRight
  <2>2. Starts(a, k) => f = Field(t, m, 3)
    BY <1>1 DEF FieldOf
  <2> QED BY <2>1, <2>2 DEF RightFormat
<1>5. ~Starts(a, k) => ~t.fresh /\ t.m = m /\ f = t.field /\ t.ext = (f >= Extended)
    BY <1>1 DEF ChunkParts
<1>6. /\ Heads(c, t.m) /\ c.ts = t.m.ts % Mask /\ c.extended = t.ext
      /\ c.delta = Smaller(t.field, Extended)
    BY <1>2, <1>4, <1>5 DEF Knows
<1>7. m \in Sendable /\ TxOK(t) /\ m.cid \in Cids /\ f \in Nat
    BY <1>1 DEF ChunkParts
<1>8. ~t.fresh /\ t.m \in Sendable /\ t.field \in Nat /\ t.ext = (t.field >= Extended)
  <2>1. ~t.fresh
    BY <1>4, <1>5
  <2>2. t.m \in Sendable /\ t.field \in 0..(Raw - 1) /\ t.ext = (t.field >= Extended)
    BY <1>7, <2>1 DEF TxOK
  <2> QED BY <2>1, <2>2, WireAssumption
<1>9. t.field < Extended /\ c.delta = t.field
  <2>1. ~(t.field >= Extended)
    BY <1>6, <1>8
  <2>2. t.field < Extended
    BY <1>8, <2>1, WireAssumption
  <2> QED BY <1>6, <1>8, <2>2, WireAssumption DEF Smaller
<1>10. f = t.field
  <2>1. Starts(a, k) => f = Delta(t, m)
    BY <1>4 DEF Field
  <2> QED BY <1>4, <1>5, <2>1
<1>11. Heads(c, m)
  <2>1. CASE Starts(a, k)
    BY <1>4, <1>6, <2>1 DEF Heads
  <2>2. CASE ~Starts(a, k)
    BY <1>5, <1>6, <2>2
  <2> QED BY <2>1, <2>2
<1>12. PICK e : e = Continued(c)
    OBVIOUS
<1>13. /\ HasFields(e) /\ e.len = c.len /\ e.type = c.type /\ e.sid = c.sid
       /\ e.extended = c.extended /\ e.delta = c.delta /\ e.data = c.data
  <2>1. CASE e = c
    BY <1>3, <2>1
  <2>2. CASE e = [c EXCEPT !.ts = @ + c.delta]
    BY <1>3, <2>2 DEF HasFields
  <2> QED BY <1>12, <2>1, <2>2 DEF Continued
<1>14. e.ts % Mask = m.ts % Mask
  <2>1. m.ts \in Nat /\ t.m.ts \in Nat
    BY <1>7, <1>8, SendableType
  <2>2. CASE Starts(a, k)
    <3>1. e = [c EXCEPT !.ts = @ + c.delta]
        BY <1>2, <1>12, <2>2 DEF Continued
    <3>2. e.ts = c.ts + c.delta
        BY <1>3, <3>1 DEF HasFields
    <3>3. PICK r, u, v : r = t.m.ts /\ u = t.field /\ v = m.ts
        OBVIOUS
    <3>4. r \in Nat /\ u \in Nat /\ v \in Nat /\ r + u = v
      <4>1. v - r = u
          BY <1>4, <2>2, <3>3 DEF Delta
      <4> QED BY <1>8, <2>1, <3>3, <4>1
    <3>5. e.ts = (r % Mask) + u
        BY <1>6, <1>9, <3>2, <3>3
    <3>6. ((r % Mask) + u) % Mask = (r + u) % Mask
        BY <3>4, Moduli
    <3> QED BY <3>3, <3>4, <3>5, <3>6
  <2>3. CASE ~Starts(a, k)
    <3>1. e = c
        BY <1>2, <1>12, <2>3 DEF Continued
    <3>2. c.ts = m.ts % Mask
        BY <1>5, <1>6, <2>3
    <3>3. (m.ts % Mask) % Mask = m.ts % Mask
        BY <2>1, Moduli
    <3> QED BY <3>1, <3>2, <3>3
  <2> QED BY <2>2, <2>3
<1>15. PICK g : g = Counted(e)
    OBVIOUS
<1>16. /\ g.fresh = FALSE /\ g.extended = e.extended /\ g.delta = e.delta
       /\ g.ts = e.ts % Mask /\ g.len = e.len
       /\ g.type = e.type /\ g.sid = e.sid /\ g.data = e.data
    BY <1>13, <1>15, CountedFields
<1>17. /\ d.fresh = FALSE /\ d.extended = e.extended /\ d.delta = e.delta /\ d.open = TRUE
       /\ d.ts = e.ts % Mask /\ d.len = e.len
       /\ d.type = e.type /\ d.sid = e.sid /\ d.data = e.data
  <2>1. g = [e EXCEPT !.ts = @ % Mask, !.fresh = FALSE]
    BY <1>15 DEF Counted
  <2>2. d = [g EXCEPT !.open = TRUE]
    BY <1>12, <1>15
  <2>3. HasFields(g)
    BY <1>13, <2>1 DEF HasFields
  <2> QED BY <1>16, <2>2, <2>3 DEF HasFields
<1>18. Heads(d, m)
    BY <1>11, <1>13, <1>17 DEF Heads
<1>19. f < Extended /\ d.extended = (f >= Extended) /\ d.delta = Smaller(f, Extended)
  <2>1. d.extended = (f >= Extended)
    BY <1>6, <1>8, <1>10, <1>13, <1>17
  <2>2. d.delta = Smaller(f, Extended)
    BY <1>6, <1>10, <1>13, <1>17
  <2> QED BY <1>9, <1>10, <2>1, <2>2
<1>20. d.data = SubSeq(m.data, 1, From(a, k))
    BY <1>2, <1>13, <1>17
<1>21. Carries(d, a, k)
    BY <1>1, <1>17, <1>18, <1>19, <1>20 DEF Carries
<1> QED BY <1>1, <1>14, <1>17, <1>19, <1>21 DEF CountedRight

\* The chunk of a basic header is the one the parser stays in.
LEMMA BasicFollowed ==
    ASSUME ReaderInv, in_buffer' \in Seq(Token), ReadBasicHeader, UNCHANGED peerVars,
           NEW A, NEW K, NEW C, NEW q, NEW R, NEW D, Followed(A, K, C, q, R, D)
    PROVE  Followed(A, K, C, q, R + 1, D)'
<1>1. PICK a, k : a = A[q] /\ k = K[q]
    OBVIOUS
<1>2. /\ pc = "basic" /\ Grown /\ Consume(1)
      /\ UNCHANGED <<sent, delivered, in_chunk_size>>
    BY DEF ReadBasicHeader, control, peerVars
<1>3. /\ q \in 1..C /\ q <= C /\ R = a.pos /\ Shadows(a) /\ Len(in_buffer) >= 1
      /\ Head(in_buffer) = [k |-> "basic", fmt |-> k.fmt, cid |-> k.m.cid]
    BY <1>1, <1>2, BasicHere
<1>4. /\ R \in Nat /\ a.pos \in Nat /\ C \in Nat
      /\ ChunkRight(sent, a, k) /\ ChunkParts(a, k) /\ TokensRight(a, k)
    BY <1>1, <1>3, ChunkHere
<1>5. PICK c, m : c = chunks[k.m.cid] /\ m = k.m
    OBVIOUS
<1>6. c \in Chunk /\ c.open \in BOOLEAN /\ Knows(c, Of(a, k)) /\ c.open = ~Starts(a, k)
    BY <1>3, <1>4, <1>5, StreamHere
<1>7. c.extended \in BOOLEAN
    BY <1>6 DEF Chunk
<1>8. chunks \in [Cids -> Chunk] /\ m.cid \in Cids
    BY <1>4, <1>5, ReaderNow DEF ChunkParts
<1>9. Head(in_buffer).fmt = k.fmt /\ Head(in_buffer).cid = m.cid
    BY <1>3, <1>5
<1>10. cur' = [cid |-> m.cid, fmt |-> k.fmt, first |-> Starts(a, k)]
  <2>1. cur' = [cid |-> m.cid, fmt |-> k.fmt, first |-> ~c.open]
    BY <1>5, <1>9 DEF ReadBasicHeader
  <2>2. (~c.open) = Starts(a, k)
    BY <1>6 DEF Starts
  <2> QED BY <2>1, <2>2
<1>11. \/ k.fmt <= 2 /\ pc' = "header" /\ chunks' = [chunks EXCEPT ![m.cid].open = TRUE]
       \/ /\ k.fmt = 3 /\ chunks[m.cid].extended
          /\ pc' = "ext" /\ chunks' = [chunks EXCEPT ![m.cid].open = TRUE]
       \/ /\ k.fmt = 3 /\ ~chunks[m.cid].extended /\ pc' = "payload"
          /\ chunks' = [chunks EXCEPT ![m.cid] =
                           [Counted(Continued(chunks[m.cid])) EXCEPT !.open = TRUE]]
    BY <1>9 DEF ReadBasicHeader
<1>12. ParsesAt(A, K, C, q, R + 1)' /\ pc' # "hook"
  <2>1. CASE k.fmt <= 2
    <3>1. PICK x : x = [c EXCEPT !.open = TRUE]
        OBVIOUS
    <3>2. pc' = "header" /\ chunks' = [chunks EXCEPT ![m.cid] = x]
        BY <1>5, <1>8, <1>11, <2>1, <3>1
    <3>3. Others(a, k)' /\ chunks'[m.cid] = x
        BY <1>3, <1>5, <1>8, <3>2, OthersStay
    <3>4. Knows(x, Of(a, k))
        BY <1>6, <3>1 DEF Knows, Heads, Chunk
    <3>5. Starts(a, k)
        BY <1>4, <2>1 DEF ChunkRight
    <3>6. AtHeader(a, k, R + 1)'
        BY <1>3, <1>5, <1>10, <2>1, <3>2, <3>3, <3>4, <3>5 DEF AtHeader
    <3> QED BY <1>1, <1>3, <3>2, <3>6 DEF ParsesAt
  <2>2. CASE k.fmt = 3 /\ c.extended
    <3>1. PICK x : x = [c EXCEPT !.open = TRUE]
        OBVIOUS
    <3>2. pc' = "ext" /\ chunks' = [chunks EXCEPT ![m.cid] = x]
        BY <1>5, <1>8, <1>11, <2>2, <3>1
    <3>3. Others(a, k)' /\ chunks'[m.cid] = x
        BY <1>3, <1>5, <1>8, <3>2, OthersStay
    <3>4. /\ ~Starts(a, k) /\ FieldOf(a, k) >= Extended
          /\ Carries(x, a, k) /\ x.ts = m.ts % Mask
      <4>1. OpenedRight(a, k, [chunks[k.m.cid] EXCEPT !.open = TRUE])
          BY <1>3, <1>4, <1>5, <2>2, BasicToExt
      <4>2. OpenedRight(a, k, x)
          BY <1>5, <3>1, <4>1
      <4> QED BY <1>5, <4>2 DEF OpenedRight
    <3>5. AtExt(a, k, R + 1)'
        BY <1>3, <1>5, <1>10, <3>2, <3>3, <3>4 DEF AtExt
    <3> QED BY <1>1, <1>3, <3>2, <3>5 DEF ParsesAt
  <2>3. CASE k.fmt = 3 /\ ~c.extended
    <3>1. PICK x : x = [Counted(Continued(c)) EXCEPT !.open = TRUE]
        OBVIOUS
    <3>2. pc' = "payload" /\ chunks' = [chunks EXCEPT ![m.cid] = x]
        BY <1>5, <1>11, <2>3, <3>1
    <3>3. Others(a, k)' /\ chunks'[m.cid] = x
        BY <1>3, <1>5, <1>8, <3>2, OthersStay
    <3>4. /\ FieldOf(a, k) < Extended /\ Carries(x, a, k)
          /\ x.ts = m.ts % Mask /\ ~x.fresh
      <4>1. CountedRight(a, k, [Counted(Continued(chunks[k.m.cid])) EXCEPT !.open = TRUE])
          BY <1>3, <1>4, <1>5, <2>3, BasicToPayload
      <4>2. CountedRight(a, k, x)
          BY <1>5, <3>1, <4>1
      <4> QED BY <1>5, <4>2 DEF CountedRight
    <3>5. Len(Heading(a, k)) = 1
      <4>1. ExtLen(FieldOf(a, k), k.told) = 0
          BY <1>4, <3>4, WireAssumption DEF ExtLen, ChunkParts
      <4>2. HeadLen(k.fmt) = 1
          BY <2>3 DEF HeadLen
      <4> QED BY <1>4, <4>1, <4>2 DEF TokensRight
    <3>6. AtPayload(a, k, R + 1)'
        BY <1>3, <1>5, <1>10, <3>2, <3>3, <3>4, <3>5 DEF AtPayload
    <3> QED BY <1>1, <1>3, <3>2, <3>6 DEF ParsesAt
  <2>4. k.fmt \in 0..3
    BY <1>4 DEF ChunkParts
  <2> QED BY <1>7, <2>1, <2>2, <2>3, <2>4
<1>13. GaveTo(D, A[q])'
  <2>1. GaveTo(D, A[q])
    BY DEF Followed
  <2> QED BY <1>2, <1>12, <2>1, GaveStays
<1>14. q \in q..(C + 1) /\ A[q].pos <= R + 1
    BY <1>1, <1>3, <1>4
<1>15. in_buffer \in Seq(Token) /\ wire \in Seq(Token)
    BY ReaderNow
<1> QED BY <1>2, <1>3, <1>12, <1>13, <1>14, <1>15, Onwards

----------------------------------------------------------------------------
(* read_message_header *)

\* The parser comes to a message header.
LEMMA HeaderHere ==
    ASSUME ReaderInv, pc = "header", Grown,
           NEW A, NEW K, NEW C, NEW q, NEW R, NEW D, Followed(A, K, C, q, R, D)
    PROVE  /\ q <= C /\ AtHeader(A[q], K[q], R) /\ Len(in_buffer) >= 1
           /\ Head(in_buffer) = [k |-> "head", ts |-> Smaller(FieldOf(A[q], K[q]), Extended),
                                 len |-> Len(K[q].m.data), type |-> K[q].m.type,
                                 sid |-> K[q].m.sid]
<1>1. in_buffer \in Seq(Token) /\ wire \in Seq(Token)
    BY ReaderNow
<1>2. Len(in_buffer) >= 1
    BY DEF Grown, Required
<1>3. q <= C /\ AtHeader(A[q], K[q], R)
    BY DEF Followed, ParsesAt, AtBasic, AtHook, AtExt, AtPayload
<1>4. PICK a, k, z : a = A[q] /\ k = K[q] /\ z = Tokens(a, k)
    OBVIOUS
<1>5. /\ R \in Nat /\ a.pos \in Nat /\ Flies(Stream, a, k, R)
      /\ ChunkParts(a, k) /\ TokensRight(a, k)
    BY <1>3, <1>4, ChunkHere
<1>6. R = a.pos + 1 /\ k.fmt <= 2
    BY <1>3, <1>4 DEF AtHeader
<1>7. /\ Len(z) \in Nat /\ Len(z) >= 2
      /\ z[2] = [k |-> "head", ts |-> Smaller(FieldOf(a, k), Extended),
                 len |-> Len(k.m.data), type |-> k.m.type, sid |-> k.m.sid]
  <2>1. Piece(a, k) \in Nat /\ k.fmt # 3
    BY <1>5, <1>6 DEF ChunkParts
  <2>2. HeadLen(k.fmt) = 2
    BY <2>1 DEF HeadLen
  <2>3. z[2] = [k |-> "head", ts |-> Smaller(FieldOf(a, k), Extended),
                len |-> Len(k.m.data), type |-> k.m.type, sid |-> k.m.sid]
    BY <1>4, <1>5, <1>6 DEF TokensRight
  <2>4. Len(z) \in Nat /\ Len(z) >= 2
    BY <1>4, <1>5, <2>1, <2>2 DEF TokensRight
  <2> QED BY <2>3, <2>4
<1>8. in_buffer[1] = z[2]
  <2>1. 1 \in 1..Len(in_buffer) /\ 2 \in 1..Len(z) /\ a.pos + 2 = R + 1
    BY <1>1, <1>2, <1>5, <1>6, <1>7
  <2> QED BY <1>1, <1>4, <1>5, <1>7, <2>1, Here
<1>9. Head(in_buffer) = in_buffer[1]
    BY <1>1, <1>2
<1> QED BY <1>2, <1>3, <1>4, <1>7, <1>8, <1>9

\* What a message header makes of a chunk stream, field by field.
LEMMA TimedFields ==
    ASSUME NEW c, HasFields(c), NEW fmt, NEW h, NEW e, e = Timed(c, fmt, h)
    PROVE  /\ HasFields(e) /\ e.delta = h.ts
           /\ e.extended = (h.ts >= Extended) /\ e.extended \in BOOLEAN
           /\ e.len = c.len /\ e.type = c.type /\ e.sid = c.sid
           /\ e.open = c.open /\ e.data = c.data
           /\ e.ts = IF h.ts >= Extended THEN c.ts
                     ELSE IF fmt = 0 THEN h.ts ELSE c.ts + h.ts
<1> DEFINE x == h.ts >= Extended
           y == IF x THEN c.ts ELSE IF fmt = 0 THEN h.ts ELSE c.ts + h.ts
<1>1. e = [c EXCEPT !.delta = h.ts, !.extended = x, !.ts = y]
    BY Zenon DEF Timed
<1> HIDE DEF x, y
<1>2. e = [fresh |-> c.fresh, extended |-> x, delta |-> h.ts, ts |-> y,
           len |-> c.len, type |-> c.type, sid |-> c.sid, open |-> c.open,
           alloc |-> c.alloc, data |-> c.data]
    BY <1>1 DEF HasFields
<1>3. HasFields(e)
    BY <1>2 DEF HasFields
<1>4. /\ e.delta = h.ts /\ e.extended = x /\ e.len = c.len /\ e.type = c.type
      /\ e.sid = c.sid /\ e.open = c.open /\ e.data = c.data /\ e.ts = y
    BY <1>2
<1> USE DEF x, y
<1>5. x \in BOOLEAN
    OBVIOUS
<1>6. e.extended \in BOOLEAN
    BY <1>4, <1>5
<1>7. e.extended = (h.ts >= Extended)
    BY <1>4
<1>8. e.ts = IF h.ts >= Extended THEN c.ts ELSE IF fmt = 0 THEN h.ts ELSE c.ts + h.ts
    BY <1>4
<1> QED BY <1>3, <1>4, <1>7, <1>8, <1>6

LEMMA DescribedFields ==
    ASSUME NEW e, HasFields(e), NEW fmt, NEW h, NEW d, d = Described(e, fmt, h)
    PROVE  /\ HasFields(d) /\ d.delta = e.delta /\ d.extended = e.extended /\ d.ts = e.ts
           /\ d.open = e.open /\ d.data = e.data
           /\ d.len = (IF fmt <= 1 THEN h.len ELSE e.len)
           /\ d.type = (IF fmt <= 1 THEN h.type ELSE e.type)
           /\ d.sid = (IF fmt = 0 THEN h.sid ELSE e.sid)
<1> DEFINE u == IF fmt <= 1 THEN h.len ELSE e.len
           v == IF fmt <= 1 THEN h.type ELSE e.type
           w == IF fmt = 0 THEN h.sid ELSE e.sid
<1>1. d = [e EXCEPT !.len = u, !.type = v, !.sid = w]
    BY Zenon DEF Described
<1> HIDE DEF u, v, w
<1>2. d = [fresh |-> e.fresh, extended |-> e.extended, delta |-> e.delta, ts |-> e.ts,
           len |-> u, type |-> v, sid |-> w, open |-> e.open,
           alloc |-> e.alloc, data |-> e.data]
    BY <1>1 DEF HasFields
<1>3. HasFields(d)
    BY <1>2 DEF HasFields
<1>4. /\ d.delta = e.delta /\ d.extended = e.extended /\ d.ts = e.ts
      /\ d.open = e.open /\ d.data = e.data /\ d.len = u /\ d.type = v /\ d.sid = w
    BY <1>2
<1> QED BY <1>3, <1>4 DEF u, v, w

\* The chunk stream behind the message header of chunk k.
HeadOf(a, k) == [k |-> "head", ts |-> Smaller(FieldOf(a, k), Extended),
                 len |-> Len(k.m.data), type |-> k.m.type, sid |-> k.m.sid]
Parsed(a, k) ==
    Described(Timed(chunks[k.m.cid], k.fmt, HeadOf(a, k)), k.fmt, HeadOf(a, k))
ParsedRight(a, k, d) ==
    /\ HasFields(d) /\ d.extended = (FieldOf(a, k) >= Extended) /\ d.extended \in BOOLEAN
    /\ Carries(d, a, k)
    /\ ~d.extended => d.ts % Mask = k.m.ts % Mask

\* A header of the peer moves the timestamp of its stream to the one of the message.
LEMMA HeaderParsed ==
    ASSUME ReaderInv, NEW S, NEW a, NEW k, NEW R, AtHeader(a, k, R),
           ChunkRight(S, a, k), ChunkParts(a, k)
    PROVE  ParsedRight(a, k, Parsed(a, k))
<1> SUFFICES ASSUME NEW f, f = FieldOf(a, k), NEW m, m = k.m,
                    NEW h, h = [k |-> "head", ts |-> Smaller(f, Extended),
                                len |-> Len(m.data), type |-> m.type, sid |-> m.sid],
                    NEW c, c = chunks[m.cid],
                    NEW d, d = Described(Timed(c, k.fmt, h), k.fmt, h)
             PROVE  ParsedRight(a, k, d)
    BY DEF Parsed, HeadOf
<1>1. PICK t : t = Of(a, k)
    OBVIOUS
<1>2. /\ pc = "header" /\ k.fmt <= 2 /\ Starts(a, k) /\ Knows(c, t)
      /\ cur = [cid |-> m.cid, fmt |-> k.fmt, first |-> TRUE]
    BY <1>1 DEF AtHeader
<1>3. RightFormat(t, m, k.fmt) /\ f = Field(t, m, k.fmt)
    BY <1>1, <1>2 DEF ChunkRight, FieldOf
<1>4. m \in Sendable /\ TxOK(t) /\ m.cid \in Cids /\ f \in Nat /\ k.fmt \in 0..2
    BY <1>1, <1>2 DEF ChunkParts
<1>5. c \in Chunk /\ c.ts \in Nat /\ HasFields(c) /\ c = This
  <2>1. c \in Chunk
    BY <1>4, ReaderNow
  <2>2. c.ts \in 0..(Mask + Extended)
    BY <2>1 DEF Chunk
  <2>3. c.ts \in Nat
    BY <2>2, WireAssumption
  <2>4. HasFields(c)
    BY <2>1 DEF Chunk, HasFields
  <2> QED BY <1>2, <2>1, <2>3, <2>4 DEF This
<1>6. c.open = TRUE /\ c.data = <<>>
  <2>1. c.open /\ c.open \in BOOLEAN
    BY <1>2, <1>5, ReaderNow DEF MidChunk, Chunk
  <2>2. c.data = <<>>
    BY <1>2, <1>5, ReaderNow
  <2> QED BY <2>1, <2>2
<1>7. h.ts = Smaller(f, Extended) /\ h.len = Len(m.data) /\ h.type = m.type /\ h.sid = m.sid
    OBVIOUS
<1>8. h.ts \in Nat /\ (h.ts >= Extended) = (f >= Extended) /\ (f < Extended => h.ts = f)
    BY <1>4, <1>7, WireAssumption DEF Smaller
<1>9. PICK e : e = Timed(c, k.fmt, h)
    OBVIOUS
<1>10. /\ HasFields(e) /\ e.delta = h.ts
       /\ e.extended = (h.ts >= Extended) /\ e.extended \in BOOLEAN
       /\ e.len = c.len /\ e.type = c.type /\ e.sid = c.sid
       /\ e.open = c.open /\ e.data = c.data
       /\ e.ts = IF h.ts >= Extended THEN c.ts
                 ELSE IF k.fmt = 0 THEN h.ts ELSE c.ts + h.ts
    BY <1>5, <1>9, TimedFields
<1>11. /\ HasFields(d) /\ d.delta = e.delta /\ d.extended = e.extended /\ d.ts = e.ts
       /\ d.open = e.open /\ d.data = e.data
       /\ d.len = (IF k.fmt <= 1 THEN h.len ELSE e.len)
       /\ d.type = (IF k.fmt <= 1 THEN h.type ELSE e.type)
       /\ d.sid = (IF k.fmt = 0 THEN h.sid ELSE e.sid)
    BY <1>9, <1>10, DescribedFields
<1>12. Heads(d, m)
  <2>1. d.len = Len(m.data) /\ d.type = m.type
    <3>1. CASE k.fmt <= 1
        BY <1>7, <1>11, <3>1
    <3>2. CASE k.fmt = 2
      <4>1. ~t.fresh /\ m.type = t.m.type /\ Len(m.data) = Len(t.m.data)
          BY <1>3, <3>2 DEF RightFormat
      <4>2. c.len = Len(t.m.data) /\ c.type = t.m.type
          BY <1>2, <4>1 DEF Knows, Heads
      <4> QED BY <1>10, <1>11, <3>2, <4>1, <4>2
    <3> QED BY <1>4, <3>1, <3>2
  <2>2. d.sid = m.sid
    <3>1. CASE k.fmt = 0
        BY <1>7, <1>11, <3>1
    <3>2. CASE k.fmt # 0 /\ t.fresh
      <4>1. m.sid = 0
          BY <1>3, <3>2 DEF RightFormat
      <4>2. c.sid = 0
          BY <1>2, <3>2 DEF Knows
      <4> QED BY <1>10, <1>11, <3>2, <4>1, <4>2
    <3>3. CASE k.fmt # 0 /\ ~t.fresh
      <4>1. m.sid = t.m.sid
          BY <1>3, <3>3 DEF RightFormat
      <4>2. c.sid = t.m.sid
          BY <1>2, <3>3 DEF Knows, Heads
      <4> QED BY <1>10, <1>11, <3>3, <4>1, <4>2
    <3> QED BY <3>1, <3>2, <3>3
  <2> QED BY <2>1, <2>2 DEF Heads
<1>13. d.extended = (f >= Extended) /\ d.extended \in BOOLEAN /\ d.delta = Smaller(f, Extended)
  <2>1. d.extended = (h.ts >= Extended) /\ d.delta = h.ts
    BY <1>10, <1>11
  <2>2. d.extended = (f >= Extended)
    BY <1>8, <2>1
  <2>3. d.extended \in BOOLEAN
    BY <1>10, <1>11
  <2> QED BY <1>7, <2>1, <2>2, <2>3
<1>14. d.open = TRUE /\ d.data = SubSeq(m.data, 1, From(a, k))
  <2>1. From(a, k) = 0
    BY <1>2 DEF From
  <2>2. m.data \in Seq(Token)
    BY <1>4, SendableType
  <2>3. SubSeq(m.data, 1, 0) = <<>>
    BY <2>2
  <2>4. d.open = c.open /\ d.data = c.data
    BY <1>10, <1>11
  <2> QED BY <1>6, <2>1, <2>3, <2>4
<1>15. Carries(d, a, k)
    BY <1>12, <1>13, <1>14 DEF Carries
<1>16. ASSUME ~d.extended PROVE d.ts % Mask = m.ts % Mask
  <2>1. ~(f >= Extended) /\ f < Extended
    BY <1>4, <1>13, <1>16, WireAssumption
  <2>2. h.ts = f /\ ~(h.ts >= Extended)
    BY <1>8, <2>1
  <2>3. m.ts \in Nat
    BY <1>4, SendableType
  <2>4. CASE k.fmt = 0
    <3>1. f = m.ts /\ d.ts = f
        BY <1>3, <1>10, <1>11, <2>2, <2>4 DEF Field
    <3> QED BY <3>1
  <2>5. CASE k.fmt # 0 /\ t.fresh
    <3>1. f = m.ts
        BY <1>3, <2>5 DEF Field
    <3>2. c.ts = 0
        BY <1>2, <2>5 DEF Knows
    <3>3. d.ts = c.ts + f
        BY <1>10, <1>11, <2>2, <2>5
    <3>4. d.ts = m.ts
        BY <2>3, <3>1, <3>2, <3>3
    <3> QED BY <3>4
  <2>6. CASE k.fmt # 0 /\ ~t.fresh
    <3>1. f = m.ts - t.m.ts
        BY <1>3, <2>6 DEF Field, Delta
    <3>2. c.ts = t.m.ts % Mask
        BY <1>2, <2>6 DEF Knows
    <3>3. d.ts = c.ts + f
        BY <1>10, <1>11, <2>2, <2>6
    <3>4. t.m.ts \in Nat
      <4>1. t.m \in Sendable
          BY <1>4, <2>6 DEF TxOK
      <4> QED BY <4>1, SendableType
    <3>5. PICK r, v : r = t.m.ts /\ v = m.ts
        OBVIOUS
    <3>6. r \in Nat /\ r + f = v
        BY <1>4, <2>3, <3>1, <3>4, <3>5
    <3>7. ((r % Mask) + f) % Mask = (r + f) % Mask
        BY <1>4, <3>6, Moduli
    <3> QED BY <3>2, <3>3, <3>5, <3>6, <3>7
  <2> QED BY <2>4, <2>5, <2>6
<1> QED BY <1>11, <1>13, <1>15, <1>16 DEF ParsedRight

\* The message header.
LEMMA HeaderFollowed ==
    ASSUME ReaderInv, in_buffer' \in Seq(Token), ReadMessageHeader, UNCHANGED peerVars,
           NEW A, NEW K, NEW C, NEW q, NEW R, NEW D, Followed(A, K, C, q, R, D)
    PROVE  Followed(A, K, C, q, R + 1, D)'
<1>1. PICK a, k, f, m : a = A[q] /\ k = K[q] /\ f = FieldOf(a, k) /\ m = k.m
    OBVIOUS
<1>2. /\ pc = "header" /\ Grown /\ Consume(1)
      /\ UNCHANGED <<cur, sent, delivered, in_chunk_size>>
    BY DEF ReadMessageHeader, control, peerVars
<1>3. PICK h : h = [k |-> "head", ts |-> Smaller(f, Extended), len |-> Len(m.data),
                    type |-> m.type, sid |-> m.sid]
    OBVIOUS
<1>4. q <= C /\ AtHeader(a, k, R) /\ Len(in_buffer) >= 1 /\ Head(in_buffer) = h
    BY <1>1, <1>2, <1>3, HeaderHere
<1>5. /\ R \in Nat /\ a.pos \in Nat /\ C \in Nat /\ q \in 1..C
      /\ ChunkRight(sent, a, k) /\ ChunkParts(a, k) /\ TokensRight(a, k)
    BY <1>1, <1>4, ChunkHere
<1>6. /\ R = a.pos + 1 /\ k.fmt <= 2 /\ Starts(a, k) /\ Others(a, k)
      /\ cur = [cid |-> m.cid, fmt |-> k.fmt, first |-> TRUE]
    BY <1>1, <1>4 DEF AtHeader
<1>7. PICK c, d, t : /\ c = chunks[m.cid] /\ t = Timed(c, k.fmt, h)
                     /\ d = Described(t, k.fmt, h)
    OBVIOUS
<1>8. /\ HasFields(d) /\ d.extended = (f >= Extended) /\ d.extended \in BOOLEAN
      /\ Carries(d, a, k) /\ (~d.extended => d.ts % Mask = m.ts % Mask)
  <2>1. h = HeadOf(a, k)
    BY <1>1, <1>3 DEF HeadOf
  <2>2. d = Parsed(a, k)
    BY <1>1, <1>7, <2>1 DEF Parsed
  <2>3. ParsedRight(a, k, Parsed(a, k))
    BY <1>4, <1>5, HeaderParsed
  <2>4. ParsedRight(a, k, d)
    BY <2>2, <2>3
  <2> QED BY <1>1, <2>4 DEF ParsedRight
<1>9. chunks \in [Cids -> Chunk] /\ m.cid \in Cids /\ f \in Nat /\ k.fmt \in 0..3
    BY <1>1, <1>5, ReaderNow DEF ChunkParts
<1>10. PICK x : x = IF d.extended THEN d ELSE Counted(d)
    OBVIOUS
<1>11. /\ pc' = IF d.extended THEN "ext" ELSE "payload"
       /\ chunks' = [chunks EXCEPT ![m.cid] = x]
  <2>1. This = c /\ cur.fmt = k.fmt /\ cur.cid = m.cid
    BY <1>6, <1>7 DEF This
  <2>2. Described(Timed(This, cur.fmt, Head(in_buffer)), cur.fmt, Head(in_buffer)) = d
    BY <1>4, <1>7, <2>1
  <2> QED BY <1>10, <2>1, <2>2 DEF ReadMessageHeader
<1>12. Others(a, k)' /\ chunks'[m.cid] = x
    BY <1>1, <1>6, <1>9, <1>11, OthersStay
<1>13. HeadLen(k.fmt) = 2
    BY <1>6, <1>9 DEF HeadLen
<1>14. ParsesAt(A, K, C, q, R + 1)' /\ pc' # "hook"
  <2>1. CASE d.extended
    <3>1. pc' = "ext" /\ x = d /\ f >= Extended
        BY <1>8, <1>10, <1>11, <2>1
    <3>2. R + 1 = a.pos + 2
        BY <1>5, <1>6
    <3>3. cur' = [cid |-> k.m.cid, fmt |-> k.fmt, first |-> Starts(a, k)]
        BY <1>1, <1>2, <1>6 DEF Starts
    <3>4. AtExt(a, k, R + 1)'
        BY <1>1, <1>6, <1>8, <1>12, <3>1, <3>2, <3>3 DEF AtExt
    <3> QED BY <1>1, <1>4, <3>1, <3>4 DEF ParsesAt
  <2>2. CASE ~d.extended
    <3>1. pc' = "payload" /\ x = Counted(d) /\ ~(f >= Extended)
        BY <1>8, <1>10, <1>11, <2>2
    <3>2. /\ x.fresh = FALSE /\ x.extended = d.extended /\ x.delta = d.delta
          /\ x.ts = d.ts % Mask /\ x.len = d.len /\ x.type = d.type /\ x.sid = d.sid
          /\ x.open = d.open /\ x.data = d.data
        BY <1>8, <3>1, CountedFields
    <3>3. x.ts = m.ts % Mask /\ ~x.fresh
        BY <1>8, <2>2, <3>2
    <3>4. Carries(x, a, k)
        BY <1>8, <3>2 DEF Carries, Heads
    <3>5. R + 1 = a.pos + Len(Heading(a, k))
      <4>1. ExtLen(f, k.told) = 0
          BY <3>1 DEF ExtLen
      <4>2. Len(Heading(a, k)) = 2
          BY <1>1, <1>5, <1>13, <4>1 DEF TokensRight
      <4> QED BY <1>5, <1>6, <4>2
    <3>6. cur'.cid = k.m.cid
        BY <1>1, <1>2, <1>6
    <3>7. AtPayload(a, k, R + 1)'
        BY <1>1, <1>12, <3>1, <3>3, <3>4, <3>5, <3>6 DEF AtPayload
    <3> QED BY <1>1, <1>4, <3>1, <3>7 DEF ParsesAt
  <2> QED BY <1>8, <2>1, <2>2
<1>15. GaveTo(D, A[q])'
  <2>1. GaveTo(D, A[q])
    BY DEF Followed
  <2> QED BY <1>2, <1>14, <2>1, GaveStays
<1>16. q \in q..(C + 1) /\ A[q].pos <= R + 1
    BY <1>1, <1>5, <1>6
<1>17. in_buffer \in Seq(Token) /\ wire \in Seq(Token)
    BY ReaderNow
<1> QED BY <1>2, <1>4, <1>5, <1>14, <1>15, <1>16, <1>17, Onwards

\* A message of the peer keeps its length.
LEMMA LengthStays ==
    ASSUME ReaderInv, NEW A, NEW K, NEW C, NEW q, NEW R, NEW D, Followed(A, K, C, q, R, D)
    PROVE  ~RejectLengthChange
<1> SUFFICES ASSUME RejectLengthChange PROVE FALSE
    OBVIOUS
<1>1. pc = "header" /\ Grown /\ ~cur.first
    BY DEF RejectLengthChange, LengthChanged
<1>2. AtHeader(A[q], K[q], R)
    BY <1>1, HeaderHere
<1> QED BY <1>1, <1>2 DEF AtHeader

\* The parser finds headers where it takes tokens for headers.
LEMMA NeverLost ==
    ASSUME ReaderInv, NEW A, NEW K, NEW C, NEW q, NEW R, NEW D, Followed(A, K, C, q, R, D)
    PROVE  ~Desynchronize
<1> SUFFICES ASSUME Desynchronize PROVE FALSE
    OBVIOUS
<1>1. /\ pc \in {"basic", "header"} /\ Grown
      /\ pc = "basic" => Head(in_buffer) \notin BasicHeader
      /\ pc # "basic" => Head(in_buffer) \notin MessageHeader
    BY DEF Desynchronize
<1>2. PICK a, k, f, m : a = A[q] /\ k = K[q] /\ f = FieldOf(a, k) /\ m = k.m
    OBVIOUS
<1>3. q <= C
    BY <1>1, BasicHere, HeaderHere
<1>4. ChunkParts(a, k)
    BY <1>2, <1>3, ChunkHere
<1>5. m \in Sendable /\ m.cid \in Cids /\ k.fmt \in 0..3 /\ f \in Nat
    BY <1>2, <1>4 DEF ChunkParts
<1>6. CASE pc = "basic"
  <2>1. Head(in_buffer) = [k |-> "basic", fmt |-> k.fmt, cid |-> m.cid]
    BY <1>1, <1>2, <1>6, BasicHere
  <2> QED BY <1>1, <1>5, <1>6, <2>1 DEF BasicHeader
<1>7. CASE pc = "header"
  <2>1. Head(in_buffer) = [k |-> "head", ts |-> Smaller(f, Extended), len |-> Len(m.data),
                           type |-> m.type, sid |-> m.sid]
    BY <1>1, <1>2, <1>7, HeaderHere
  <2>2. Smaller(f, Extended) \in 0..Extended /\ Len(m.data) \in 0..MaxLength
    BY <1>5, SendableType, WireAssumption DEF Smaller
  <2>3. m.type \in Types /\ m.sid \in Sids
    BY <1>5, SendableType
  <2>4. Head(in_buffer) \in MessageHeader
    BY <2>1, <2>2, <2>3 DEF MessageHeader
  <2> QED BY <1>1, <1>7, <2>4
<1> QED BY <1>1, <1>6, <1>7

----------------------------------------------------------------------------
(* The extended timestamp *)

\* ExtWidth tokens of an extended timestamp are read as it.
LEMMA ExtFieldRead ==
    ASSUME NEW b \in Seq(Token), NEW f \in Nat, f < Raw, ExtWidth <= Len(b),
           \A i \in 1..ExtWidth : b[i] = [k |-> "ext", ts |-> f, i |-> i]
    PROVE  ExtValue(SubSeq(b, 1, ExtWidth)) = f
<1>1. ExtWidth \in Nat \ {0} /\ f \in 0..(Raw - 1)
    BY WireAssumption
<1>2. PICK s, e : s = SubSeq(b, 1, ExtWidth) /\ e = ExtField(f)
    OBVIOUS
<1>3. s \in Seq(Token) /\ Len(s) = ExtWidth /\ \A i \in 1..ExtWidth : s[i] = b[i]
    BY <1>1, <1>2, Prefix
<1>4. /\ e \in Seq(Token) /\ Len(e) = ExtWidth
      /\ \A i \in 1..ExtWidth : e[i] = [k |-> "ext", ts |-> f, i |-> i]
    BY <1>1, <1>2, ExtFieldType
<1>5. \A i \in 1..ExtWidth : s[i] = e[i]
    BY <1>3, <1>4
<1>6. s = e
    BY <1>3, <1>4, <1>5, SeqEqual
<1>7. Head(s) = [k |-> "ext", ts |-> f, i |-> 1]
  <2>1. 1 \in 1..ExtWidth
    BY <1>1
  <2>2. e[1] = [k |-> "ext", ts |-> f, i |-> 1]
    BY <1>4, <2>1
  <2>3. Head(s) = s[1]
    BY <1>1, <1>3
  <2> QED BY <1>6, <2>2, <2>3
<1>8. Head(s).k = "ext" /\ Head(s).ts = f
    BY <1>7
<1> QED BY <1>2, <1>6, <1>8 DEF ExtValue

\* Payload that is read in place of one is a number of its own.
LEMMA PayloadRead ==
    ASSUME NEW b \in Seq(Token), ExtWidth <= Len(b), NEW x \in DataToken, b[1] = x
    PROVE  ExtValue(SubSeq(b, 1, ExtWidth)) = Value(x)
<1>1. ExtWidth \in Nat \ {0}
    BY WireAssumption
<1>2. PICK s : s = SubSeq(b, 1, ExtWidth)
    OBVIOUS
<1>3. s \in Seq(Token) /\ Len(s) = ExtWidth /\ \A i \in 1..ExtWidth : s[i] = b[i]
    BY <1>1, <1>2, Prefix
<1>4. Head(s) = x
    BY <1>1, <1>3
<1>5. x.k # "ext"
    BY DEF DataToken
<1> QED BY <1>2, <1>4, <1>5 DEF ExtValue

\* The parser comes to an extended timestamp, or to where it is left out.
LEMMA ExtHere ==
    ASSUME ReaderInv, pc = "ext", Grown,
           NEW A, NEW K, NEW C, NEW q, NEW R, NEW D, Followed(A, K, C, q, R, D),
           NEW a, a = A[q], NEW k, k = K[q], NEW f, f = FieldOf(a, k), NEW m, m = k.m
    PROVE  /\ q <= C /\ AtExt(a, k, R) /\ f = m.ts /\ f \in Nat /\ f >= Extended
           /\ ExtWidth \in Nat \ {0} /\ ExtWidth <= Len(in_buffer)
           /\ R = a.pos + HeadLen(k.fmt)
           /\ k.told => ExtValue(SubSeq(in_buffer, 1, ExtWidth)) = m.ts
           /\ ~k.told => \E i \in 1..Len(m.data) :
                            ExtValue(SubSeq(in_buffer, 1, ExtWidth)) = Value(m.data[i])
<1>1. in_buffer \in Seq(Token) /\ wire \in Seq(Token) /\ Len(in_buffer) \in Nat
    BY ReaderNow
<1>2. ExtWidth \in Nat \ {0} /\ ExtWidth <= Len(in_buffer)
    BY <1>1, WireAssumption DEF Grown, Required
<1>3. q <= C /\ AtExt(a, k, R)
    BY DEF Followed, ParsesAt, AtBasic, AtHook, AtHeader, AtPayload
<1>4. PICK z, h, w : z = Tokens(a, k) /\ h = Len(Heading(a, k)) /\ w = HeadLen(k.fmt)
    OBVIOUS
<1>5. /\ R \in Nat /\ a.pos \in Nat /\ Flies(Stream, a, k, R)
      /\ ChunkRight(sent, a, k) /\ ChunkParts(a, k) /\ TokensRight(a, k)
    BY <1>3, ChunkHere
<1>6. /\ m \in Sendable /\ f \in Nat /\ f < Raw /\ (f >= Extended => f = m.ts)
      /\ k.fmt \in 0..3 /\ k.told \in BOOLEAN
      /\ Piece(a, k) \in Nat /\ Piece(a, k) > 0 /\ TxOK(Of(a, k))
    BY <1>5 DEF ChunkParts
<1>7. f >= Extended /\ R = a.pos + (IF Starts(a, k) THEN 2 ELSE 1)
    BY <1>3 DEF AtExt
<1>8. w = IF Starts(a, k) THEN 2 ELSE 1
  <2>1. CASE Starts(a, k)
    <3>1. PICK t : t = Of(a, k)
        OBVIOUS
    <3>2. RightFormat(t, m, k.fmt) /\ f = Field(t, m, k.fmt)
        BY <1>5, <2>1, <3>1 DEF ChunkRight, FieldOf
    <3>3. k.fmt # 3
      <4> SUFFICES ASSUME k.fmt = 3 PROVE FALSE
          OBVIOUS
      <4>1. ~t.fresh /\ Delta(t, m) \in 0..(Extended - 1)
          BY <3>2 DEF RightFormat
      <4>2. f = Delta(t, m)
          BY <3>2, <4>1 DEF Field
      <4> QED BY <1>6, <1>7, <4>1, <4>2, WireAssumption
    <3> QED BY <1>4, <2>1, <3>3 DEF HeadLen
  <2>2. CASE ~Starts(a, k)
    <3>1. k.fmt = 3
        BY <1>5, <2>2 DEF ChunkRight
    <3> QED BY <1>4, <2>2, <3>1 DEF HeadLen
  <2> QED BY <2>1, <2>2
<1>9. w \in 1..2 /\ R = a.pos + w
    BY <1>7, <1>8
<1>10. PICK e : e = ExtLen(f, k.told)
    OBVIOUS
<1>11. /\ Len(z) \in Nat /\ Len(z) = h + Piece(a, k) /\ h = w + e
       /\ \A i \in 1..e : z[w + i] = [k |-> "ext", ts |-> f, i |-> i]
       /\ \A i \in 1..Piece(a, k) : z[h + i] = m.data[From(a, k) + i]
    BY <1>4, <1>5, <1>10 DEF TokensRight
<1>12. ASSUME k.told PROVE ExtValue(SubSeq(in_buffer, 1, ExtWidth)) = m.ts
  <2>1. e = ExtWidth
    BY <1>7, <1>12, <1>10 DEF ExtLen
  <2>2. /\ Len(z) \in Nat /\ Len(z) = w + ExtWidth + Piece(a, k)
        /\ \A i \in 1..ExtWidth : z[w + i] = [k |-> "ext", ts |-> f, i |-> i]
    BY <1>2, <1>6, <1>9, <1>11, <2>1
  <2>3. ASSUME NEW i \in 1..ExtWidth
        PROVE  in_buffer[i] = [k |-> "ext", ts |-> f, i |-> i]
    <3>1. PICK y, s : y = Len(z) /\ s = Piece(a, k)
        OBVIOUS
    <3>2. y \in Nat /\ s \in Nat /\ y = w + ExtWidth + s /\ i \in Nat /\ i >= 1 /\ i <= ExtWidth
        BY <1>2, <1>6, <2>2, <2>3, <3>1
    <3>3. w + i \in 1..y
        BY <1>2, <1>9, <3>2
    <3>4. i \in 1..Len(in_buffer) /\ a.pos + (w + i) = R + i
      <4>1. PICK b, x : b = Len(in_buffer) /\ x = a.pos
          OBVIOUS
      <4>2. b \in Nat /\ x \in Nat /\ R = x + w /\ ExtWidth <= b
          BY <1>1, <1>2, <1>5, <1>9, <4>1
      <4>3. i \in 1..b
          BY <1>2, <3>2, <4>2
      <4>4. x + (w + i) = R + i
          BY <1>9, <3>2, <4>2
      <4> QED BY <4>1, <4>3, <4>4
    <3>5. i \in 1..Len(in_buffer) /\ w + i \in 1..Len(z) /\ a.pos + (w + i) = R + i
        BY <3>1, <3>3, <3>4
    <3>6. in_buffer[i] = z[w + i]
        BY <1>1, <1>4, <1>5, <2>2, <3>5, Here
    <3> QED BY <2>2, <3>6
  <2> QED BY <1>1, <1>2, <1>6, <1>7, <2>3, ExtFieldRead
<1>13. ASSUME ~k.told
       PROVE  \E i \in 1..Len(m.data) :
                 ExtValue(SubSeq(in_buffer, 1, ExtWidth)) = Value(m.data[i])
  <2>1. e = 0
    BY <1>13, <1>10 DEF ExtLen
  <2>2. h = w
    BY <1>9, <1>11, <2>1
  <2>3. PICK p, i : p = From(a, k) /\ i = p + 1
    OBVIOUS
  <2>4. p \in Nat /\ p < Len(m.data) /\ Len(m.data) \in Nat
    BY <1>5, <2>3 DEF ChunkParts
  <2>5. i \in 1..Len(m.data)
    BY <2>3, <2>4
  <2>6. Len(z) \in Nat /\ Len(z) = w + Piece(a, k)
    BY <1>11, <2>2
  <2>7. z[w + 1] = m.data[i]
    <3>1. 1 \in 1..Piece(a, k)
        BY <1>6
    <3>2. z[h + 1] = m.data[From(a, k) + 1]
        BY <1>11, <3>1
    <3>3. From(a, k) + 1 = i
        BY <2>3
    <3> QED BY <2>2, <3>2, <3>3
  <2>8. in_buffer[1] = z[w + 1]
    <3>1. PICK y, s : y = Len(z) /\ s = Piece(a, k)
        OBVIOUS
    <3>2. y \in Nat /\ s \in Nat /\ s > 0 /\ y = w + s
        BY <1>6, <2>6, <3>1
    <3>3. w + 1 \in 1..y
        BY <1>9, <3>2
    <3>4. 1 \in 1..Len(in_buffer) /\ a.pos + (w + 1) = R + 1
      <4>1. PICK b, x : b = Len(in_buffer) /\ x = a.pos
          OBVIOUS
      <4>2. b \in Nat /\ x \in Nat /\ w \in Nat /\ R = x + w /\ ExtWidth \in Nat
            /\ 1 <= ExtWidth /\ ExtWidth <= b
          BY <1>1, <1>2, <1>5, <1>9, <4>1
      <4>3. 1 \in 1..b /\ x + (w + 1) = R + 1
          BY <4>2
      <4> QED BY <4>1, <4>3
    <3>5. 1 \in 1..Len(in_buffer) /\ w + 1 \in 1..Len(z) /\ a.pos + (w + 1) = R + 1
        BY <3>1, <3>3, <3>4
    <3> QED BY <1>1, <1>4, <1>5, <2>6, <3>5, Here
  <2>9. m.data[i] \in DataToken
    BY <1>6, <2>5, SendableType
  <2>10. ExtValue(SubSeq(in_buffer, 1, ExtWidth)) = Value(m.data[i])
    BY <1>1, <1>2, <2>7, <2>8, <2>9, PayloadRead
  <2> QED BY <2>5, <2>10
<1> QED BY <1>2, <1>3, <1>4, <1>6, <1>7, <1>9, <1>12, <1>13

\* The extended timestamp.
LEMMA ExtFollowed ==
    ASSUME ReaderInv, in_buffer' \in Seq(Token), ReadExtendedTimestamp, UNCHANGED peerVars,
           NEW A, NEW K, NEW C, NEW q, NEW R, NEW D, Followed(A, K, C, q, R, D)
    PROVE  \E T : Followed(A, K, C, q, T, D)'
<1>1. PICK a, k, f, m : a = A[q] /\ k = K[q] /\ f = FieldOf(a, k) /\ m = k.m
    OBVIOUS
<1>2. /\ pc = "ext" /\ Grown /\ pc' = "payload"
      /\ UNCHANGED <<cur, sent, delivered, in_chunk_size>>
    BY DEF ReadExtendedTimestamp, control, peerVars
<1>3. /\ q <= C /\ AtExt(a, k, R) /\ f = m.ts /\ f \in Nat /\ f >= Extended
      /\ ExtWidth \in Nat \ {0} /\ ExtWidth <= Len(in_buffer) /\ R = a.pos + HeadLen(k.fmt)
    BY <1>1, <1>2, ExtHere
<1>4. PICK y, t : y = ExtValue(SubSeq(in_buffer, 1, ExtWidth)) /\ t = y % Mask
    OBVIOUS
<1>5. /\ k.told => y = m.ts
      /\ ~k.told => \E i \in 1..Len(m.data) : y = Value(m.data[i])
    BY <1>1, <1>2, <1>4, ExtHere
<1>6. /\ R \in Nat /\ a.pos \in Nat /\ C \in Nat /\ q \in 1..C
      /\ ChunkRight(sent, a, k) /\ ChunkParts(a, k) /\ TokensRight(a, k)
    BY <1>1, <1>3, ChunkHere
<1>7. /\ k.told \in BOOLEAN /\ k.fmt \in 0..3 /\ m.cid \in Cids
      /\ ~Starts(a, k) => Of(a, k).ext = (f >= Extended)
    BY <1>1, <1>6 DEF ChunkParts
<1>8. /\ Others(a, k) /\ Carries(chunks[m.cid], a, k) /\ cur.cid = m.cid
      /\ cur.first = Starts(a, k) /\ (~Starts(a, k) => chunks[m.cid].ts = m.ts % Mask)
    BY <1>1, <1>3 DEF AtExt
<1>9. PICK c : c = This
    OBVIOUS
<1>10. c = chunks[m.cid] /\ chunks \in [Cids -> Chunk]
    BY <1>8, <1>9, ReaderNow DEF This
<1>11. HasFields(c)
    BY <1>7, <1>10 DEF Chunk, HasFields
<1>12. PICK x, n : /\ x.fresh = FALSE /\ x.extended = c.extended /\ x.delta = c.delta
                   /\ x.ts = m.ts % Mask /\ x.len = c.len /\ x.type = c.type /\ x.sid = c.sid
                   /\ x.open = c.open /\ x.data = c.data
                   /\ n = ExtLen(f, k.told) /\ chunks' = [chunks EXCEPT ![m.cid] = x]
                   /\ Consume(n)
  <2>1. CASE k.told
    <3>1. t = m.ts % Mask /\ t % Mask = t
      <4>1. m.ts \in Nat
          BY <1>3
      <4> QED BY <1>4, <1>5, <2>1, <4>1, Moduli
    <3>2. ~ExtAbsent(t)
        BY <1>8, <1>9, <1>10, <3>1 DEF ExtAbsent
    <3>3. PICK d : d = [c EXCEPT !.ts = t]
        OBVIOUS
    <3>4. chunks' = [chunks EXCEPT ![m.cid] = Counted(d)] /\ Consume(ExtWidth)
        BY <1>4, <1>8, <1>9, <3>2, <3>3 DEF ReadExtendedTimestamp
    <3>5. /\ HasFields(d) /\ d.extended = c.extended /\ d.delta = c.delta /\ d.ts = t
          /\ d.len = c.len /\ d.type = c.type /\ d.sid = c.sid
          /\ d.open = c.open /\ d.data = c.data
        BY <1>11, <3>3 DEF HasFields
    <3>6. PICK x : x = Counted(d)
        OBVIOUS
    <3>7. /\ x.fresh = FALSE /\ x.extended = c.extended /\ x.delta = c.delta
          /\ x.ts = t % Mask /\ x.len = c.len /\ x.type = c.type /\ x.sid = c.sid
          /\ x.open = c.open /\ x.data = c.data
        BY <3>5, <3>6, CountedFields
    <3>8. ExtWidth = ExtLen(f, k.told)
        BY <1>3, <2>1 DEF ExtLen
    <3> QED BY <3>1, <3>4, <3>6, <3>7, <3>8
  <2>2. CASE ~k.told
    <3>1. ~Starts(a, k) /\ Told(m)
        BY <1>1, <1>3, <1>6, <1>7, <2>2 DEF ChunkRight
    <3>2. PICK i \in 1..Len(m.data) : y = Value(m.data[i])
        BY <1>5, <2>2
    <3>3. c.ts = m.ts % Mask /\ c.ts > 0 /\ c.ts # t /\ ~cur.first
        BY <1>4, <1>8, <1>10, <3>1, <3>2 DEF Told
    <3>4. ExtAbsent(t)
        BY <1>9, <3>3 DEF ExtAbsent
    <3>5. chunks' = [chunks EXCEPT ![m.cid] = Counted(c)] /\ Consume(0)
        BY <1>4, <1>8, <1>9, <3>4 DEF ReadExtendedTimestamp
    <3>6. PICK x : x = Counted(c)
        OBVIOUS
    <3>7. /\ x.fresh = FALSE /\ x.extended = c.extended /\ x.delta = c.delta
          /\ x.ts = c.ts % Mask /\ x.len = c.len /\ x.type = c.type /\ x.sid = c.sid
          /\ x.open = c.open /\ x.data = c.data
        BY <1>11, <3>6, CountedFields
    <3>8. x.ts = m.ts % Mask
      <4>1. m.ts \in Nat
          BY <1>3
      <4> QED BY <3>3, <3>7, <4>1, Moduli
    <3>9. 0 = ExtLen(f, k.told)
        BY <2>2 DEF ExtLen
    <3> QED BY <3>5, <3>6, <3>7, <3>8, <3>9
  <2> QED BY <1>7, <2>1, <2>2
<1>13. Others(a, k)' /\ chunks'[m.cid] = x
    BY <1>1, <1>7, <1>8, <1>10, <1>12, OthersStay
<1>14. n \in Nat /\ n <= Len(in_buffer)
    BY <1>3, <1>12, ReaderNow DEF ExtLen
<1>15. R + n = a.pos + Len(Heading(a, k))
  <2>1. Len(Heading(a, k)) = HeadLen(k.fmt) + n /\ HeadLen(k.fmt) \in 1..2
    BY <1>1, <1>6, <1>12 DEF TokensRight
  <2> QED BY <1>3, <1>6, <1>14, <2>1
<1>16. AtPayload(a, k, R + n)'
  <2>1. Carries(x, a, k)
    BY <1>8, <1>10, <1>12 DEF Carries, Heads
  <2> QED BY <1>1, <1>2, <1>8, <1>12, <1>13, <1>15, <2>1 DEF AtPayload
<1>17. ParsesAt(A, K, C, q, R + n)' /\ pc' # "hook"
    BY <1>1, <1>2, <1>3, <1>16 DEF ParsesAt
<1>18. GaveTo(D, A[q])'
  <2>1. GaveTo(D, A[q])
    BY DEF Followed
  <2> QED BY <1>2, <1>17, <2>1, GaveStays
<1>19. q \in q..(C + 1) /\ A[q].pos <= R + n
  <2>1. a.pos <= R
    BY <1>1, <1>3, ChunkHere
  <2>2. PICK p : p = a.pos
    OBVIOUS
  <2>3. p \in Nat /\ p <= R /\ R \in Nat /\ p <= R + n
    BY <1>6, <1>14, <2>1, <2>2
  <2>4. q \in q..(C + 1)
    BY <1>6
  <2> QED BY <1>1, <2>2, <2>3, <2>4
<1>20. in_buffer \in Seq(Token) /\ wire \in Seq(Token)
    BY ReaderNow
<1>21. Followed(A, K, C, q, R + n, D)'
    BY <1>12, <1>14, <1>17, <1>18, <1>19, <1>20, Onwards
<1> QED BY <1>21

----------------------------------------------------------------------------
(* read_message_payload *)

\* What was copied and the tokens that follow it are a longer part of the payload.
LEMMA PartsJoin ==
    ASSUME NEW d \in Seq(Token), NEW p \in Nat, NEW n \in Nat, p + n <= Len(d),
           NEW b \in Seq(Token), n <= Len(b), \A i \in 1..n : b[i] = d[p + i]
    PROVE  /\ SubSeq(d, 1, p) \o SubSeq(b, 1, n) = SubSeq(d, 1, p + n)
           /\ Len(SubSeq(d, 1, p + n)) = p + n
<1>1. PICK s, t, u : s = SubSeq(d, 1, p) /\ t = SubSeq(b, 1, n) /\ u = SubSeq(d, 1, p + n)
    OBVIOUS
<1>2. Len(d) \in Nat /\ p <= Len(d) /\ p + n \in Nat
    BY LenProperties
<1>3. s \in Seq(Token) /\ Len(s) = p /\ \A i \in 1..p : s[i] = d[i]
    BY <1>1, <1>2, Prefix
<1>4. t \in Seq(Token) /\ Len(t) = n /\ \A i \in 1..n : t[i] = b[i]
    BY <1>1, Prefix
<1>5. u \in Seq(Token) /\ Len(u) = p + n /\ \A i \in 1..(p + n) : u[i] = d[i]
    BY <1>1, <1>2, Prefix
<1>6. PICK v : v = s \o t
    OBVIOUS
<1>7. v \in Seq(Token) /\ Len(v) = Len(s) + Len(t)
    BY <1>3, <1>4, <1>6, ConcatElements
<1>8. \A i \in 1..Len(s) : v[i] = s[i]
    BY <1>3, <1>4, <1>6, ConcatElements
<1>9. \A i \in 1..Len(t) : v[Len(s) + i] = t[i]
  <2>1. s \in Seq(Token) /\ t \in Seq(Token)
    BY <1>3, <1>4
  <2>2. \A i \in 1..Len(t) : (s \o t)[Len(s) + i] = t[i]
    BY <2>1, ConcatElements
  <2> QED BY <1>6, <2>2
<1>10. ASSUME NEW i \in 1..(p + n) PROVE v[i] = u[i]
  <2>1. CASE i <= p
    <3>1. i \in 1..p
        BY <2>1
    <3> QED BY <1>3, <1>5, <1>8, <3>1
  <2>2. CASE i > p
    <3>1. PICK j \in 1..n : i = p + j
        BY <2>2, Above
    <3>2. v[p + j] = t[j] /\ t[j] = b[j] /\ b[j] = d[p + j]
        BY <1>3, <1>4, <1>9, <3>1
    <3> QED BY <1>5, <3>1, <3>2
  <2> QED BY <2>1, <2>2
<1>11. Len(v) = p + n
    BY <1>3, <1>4, <1>7
<1>12. v = u
    BY <1>5, <1>7, <1>10, <1>11, SeqEqual
<1> QED BY <1>1, <1>5, <1>6, <1>12

\* What the parser finds when it comes to payload.
PayloadAt(a, k, R) ==
    /\ AtPayload(a, k, R) /\ This = chunks[k.m.cid] /\ in_chunk_size = a.cs
    /\ This.len = Len(k.m.data) /\ This.len > 0
    /\ PayloadSize = Piece(a, k) /\ Piece(a, k) <= Len(in_buffer)
    /\ This.data \o SubSeq(in_buffer, 1, Piece(a, k)) =
          SubSeq(k.m.data, 1, From(a, k) + Piece(a, k))
    /\ Len(SubSeq(k.m.data, 1, From(a, k) + Piece(a, k))) = From(a, k) + Piece(a, k)

LEMMA PayloadHere ==
    ASSUME ReaderInv, pc = "payload", This.len > 0 => Grown,
           NEW A, NEW K, NEW C, NEW q, NEW R, NEW D, Followed(A, K, C, q, R, D)
    PROVE  q <= C /\ PayloadAt(A[q], K[q], R)
<1>1. PICK a, k, m, p, n : /\ a = A[q] /\ k = K[q] /\ m = k.m
                           /\ p = From(a, k) /\ n = Piece(a, k)
    OBVIOUS
<1>2. q <= C /\ AtPayload(a, k, R)
    BY <1>1 DEF Followed, ParsesAt, AtBasic, AtHook, AtHeader, AtExt
<1>3. in_chunk_size = a.cs
    BY <1>1 DEF Followed, GaveTo
<1>4. in_buffer \in Seq(Token) /\ wire \in Seq(Token) /\ Len(in_buffer) \in Nat
    BY ReaderNow
<1>5. /\ R \in Nat /\ a.pos \in Nat /\ ChunkParts(a, k) /\ TokensRight(a, k)
      /\ Flies(Stream, a, k, R)
    BY <1>1, <1>2, ChunkHere
<1>6. /\ m \in Sendable /\ Len(m.data) \in Nat /\ p \in Nat /\ p < Len(m.data)
      /\ n \in Nat /\ n > 0 /\ p + n <= Len(m.data) /\ a.cs \in Nat /\ a.cs > 0
    BY <1>1, <1>5 DEF ChunkParts
<1>7. /\ R = a.pos + Len(Heading(a, k)) /\ cur.cid = m.cid /\ Carries(chunks[m.cid], a, k)
    BY <1>1, <1>2 DEF AtPayload
<1>8. PICK c : c = This
    OBVIOUS
<1>9. c = chunks[m.cid] /\ c.len = Len(m.data) /\ c.data = SubSeq(m.data, 1, p)
    BY <1>1, <1>7, <1>8 DEF This, Carries, Heads
<1>10. m.data \in Seq(Token)
    BY <1>6, SendableType
<1>11. Len(c.data) = p
  <2>1. p <= Len(m.data)
    BY <1>6
  <2> QED BY <1>6, <1>9, <1>10, <2>1, Prefix
<1>12. PayloadSize = n /\ c.len > 0
  <2>1. PayloadSize = Smaller(Len(m.data) - p, a.cs)
    BY <1>3, <1>8, <1>9, <1>11 DEF PayloadSize
  <2>2. n = Smaller(Len(m.data) - p, a.cs)
    BY <1>1 DEF Piece
  <2> QED BY <1>6, <1>9, <2>1, <2>2
<1>13. n <= Len(in_buffer)
  <2>1. Required = n
    BY <1>8, <1>12 DEF Required
  <2> QED BY <1>4, <1>6, <1>8, <1>12, <2>1 DEF Grown
<1>14. PICK z, h : z = Tokens(a, k) /\ h = Len(Heading(a, k))
    OBVIOUS
<1>15. /\ Len(z) \in Nat /\ h \in Nat /\ Len(z) = h + n
       /\ \A i \in 1..n : z[h + i] = m.data[p + i]
    BY <1>1, <1>5, <1>14 DEF TokensRight
<1>16. ASSUME NEW i \in 1..n PROVE in_buffer[i] = m.data[p + i]
  <2>1. PICK y, x, b : y = Len(z) /\ x = a.pos /\ b = Len(in_buffer)
    OBVIOUS
  <2>2. y \in Nat /\ y = h + n /\ x \in Nat /\ R = x + h /\ b \in Nat /\ n <= b
    BY <1>4, <1>5, <1>7, <1>13, <1>14, <1>15, <2>1
  <2>3. i \in 1..b
    BY <1>6, <2>2
  <2>4. h + i \in 1..y
    BY <1>6, <1>15, <2>2
  <2>5. x + (h + i) = R + i
    BY <1>15, <2>2
  <2>6. in_buffer[i] = z[h + i]
    BY <1>4, <1>5, <1>14, <1>15, <2>1, <2>3, <2>4, <2>5, Here
  <2> QED BY <1>15, <2>6
<1>17. /\ SubSeq(m.data, 1, p) \o SubSeq(in_buffer, 1, n) = SubSeq(m.data, 1, p + n)
       /\ Len(SubSeq(m.data, 1, p + n)) = p + n
    BY <1>4, <1>6, <1>10, <1>13, <1>16, PartsJoin
<1> QED BY <1>1, <1>2, <1>3, <1>8, <1>9, <1>12, <1>13, <1>17 DEF PayloadAt

\* There is payload to copy.
LEMMA NeverEmpty ==
    ASSUME ReaderInv, NEW A, NEW K, NEW C, NEW q, NEW R, NEW D, Followed(A, K, C, q, R, D)
    PROVE  ~IgnoreEmptyMessage
<1> SUFFICES ASSUME IgnoreEmptyMessage PROVE FALSE
    OBVIOUS
<1>1. pc = "payload" /\ This.len = 0
    BY DEF IgnoreEmptyMessage
<1>2. This.len > 0
    BY <1>1, PayloadHere DEF PayloadAt
<1> QED BY <1>1, <1>2

\* What the peer keeps behind a chunk.
KeptParts(a, k) ==
    /\ Kept(a, k).fresh = FALSE /\ Kept(a, k).m = k.m /\ Kept(a, k).field = FieldOf(a, k)
    /\ Kept(a, k).ext = (FieldOf(a, k) >= Extended)
    /\ Kept(a, k).left \in Seq(DataToken)
    /\ Kept(a, k).left = Drop(k.m.data, Len(k.m.data) - Len(Kept(a, k).left))
    /\ Len(Kept(a, k).left) = Len(k.m.data) - (From(a, k) + Piece(a, k))
    /\ Len(Kept(a, k).left) <= Len(k.m.data)
    /\ Ends(a, k) <=> Kept(a, k).left = <<>>

LEMMA KeptRight ==
    ASSUME NEW a, NEW k, ChunkParts(a, k)
    PROVE  KeptParts(a, k)
<1> SUFFICES ASSUME NEW t, t = Kept(a, k) PROVE KeptParts(a, k)
    OBVIOUS
<1>1. PICK m, s, d : m = k.m /\ s = From(a, k) + Piece(a, k) /\ d = m.data
    OBVIOUS
<1>2. m \in Sendable /\ s \in Nat /\ s <= Len(d)
    BY <1>1 DEF ChunkParts
<1>3. d \in Seq(DataToken) /\ Len(d) \in Nat
    BY <1>1, <1>2, SendableType
<1>4. PICK y : y = Drop(d, s)
    OBVIOUS
<1>5. y \in Seq(DataToken) /\ Len(y) = Len(d) - s
    BY <1>2, <1>3, <1>4, Suffix DEF Drop
<1>6. s = Len(d) <=> y = <<>>
    BY <1>2, <1>3, <1>5
<1>7. Ends(a, k) <=> s = Len(d)
    BY <1>1 DEF Ends
<1>8. /\ t.fresh = FALSE /\ t.m = k.m /\ t.ext = (FieldOf(a, k) >= Extended)
      /\ t.field = FieldOf(a, k) /\ t.left = y
    BY <1>1, <1>4 DEF Kept
<1>9. Len(d) - Len(y) = s /\ Len(y) <= Len(d)
    BY <1>2, <1>3, <1>5
<1>10. t.left = Drop(k.m.data, Len(k.m.data) - Len(t.left))
    BY <1>1, <1>4, <1>8, <1>9
<1>11. Len(t.left) = Len(k.m.data) - (From(a, k) + Piece(a, k)) /\ Len(t.left) <= Len(k.m.data)
    BY <1>1, <1>5, <1>8, <1>9
<1> QED BY <1>5, <1>6, <1>7, <1>8, <1>10, <1>11 DEF KeptParts

\* Behind a chunk the reader has of its stream what the peer keeps.
LEMMA StreamKept ==
    ASSUME NEW a, NEW k, ChunkParts(a, k), StateRight(sent, a), NEW b, b = After(a, k),
           Others(a, k)', NEW x, x = chunks'[k.m.cid], Keeps(x, Kept(a, k))
    PROVE  Shadows(b)'
<1>1. k.m.cid \in Cids
    BY DEF ChunkParts
<1>2. DOMAIN a.tx = Cids
    BY DEF StateRight
<1>3. PICK t : t = Kept(a, k)
    OBVIOUS
<1>4. b.tx = [a.tx EXCEPT ![k.m.cid] = t]
    BY <1>3 DEF After
<1>5. b.tx[k.m.cid] = t /\ \A c \in Cids : c # k.m.cid => b.tx[c] = a.tx[c]
    BY <1>1, <1>2, <1>4
<1>6. \A c \in Cids : c # k.m.cid => Keeps(chunks'[c], a.tx[c])
    BY DEF Others
<1>7. \A c \in Cids : Keeps(chunks'[c], b.tx[c])
    BY <1>3, <1>5, <1>6
<1> QED BY <1>7 DEF Shadows

\* The payload of a chunk is copied: the message ends or waits for its next chunk.
LEMMA PayloadCopied ==
    ASSUME ReaderInv, ReadMessagePayload, NEW a, NEW k, NEW R, PayloadAt(a, k, R),
           ChunkParts(a, k), NEW x, x = chunks'[k.m.cid]
    PROVE  /\ chunks' = [chunks EXCEPT ![k.m.cid] = x] /\ Keeps(x, Kept(a, k))
           /\ Ends(a, k) => pc' = "hook" /\ msg' = Stamped(k.m)
           /\ ~Ends(a, k) => pc' = "basic"
<1>1. PICK m, p, n, c : m = k.m /\ p = From(a, k) /\ n = Piece(a, k) /\ c = This
    OBVIOUS
<1>2. /\ m \in Sendable /\ m.cid \in Cids /\ Len(m.data) \in Nat
      /\ p \in Nat /\ n \in Nat /\ p + n <= Len(m.data)
    BY <1>1 DEF ChunkParts
<1>3. /\ AtPayload(a, k, R) /\ c = chunks[m.cid] /\ c.len = Len(m.data) /\ PayloadSize = n
      /\ c.data \o SubSeq(in_buffer, 1, n) = SubSeq(m.data, 1, p + n)
      /\ Len(SubSeq(m.data, 1, p + n)) = p + n
    BY <1>1 DEF PayloadAt
<1>4. PICK d : d = SubSeq(m.data, 1, p + n)
    OBVIOUS
<1>5. This.data \o SubSeq(in_buffer, 1, PayloadSize) = d /\ Len(d) = p + n
    BY <1>1, <1>3, <1>4
<1>6. /\ Carries(c, a, k) /\ c.ts = m.ts % Mask /\ ~c.fresh /\ cur.cid = m.cid
    BY <1>1, <1>3 DEF AtPayload
<1>7. /\ Heads(c, m) /\ c.open /\ c.extended = (FieldOf(a, k) >= Extended)
      /\ c.delta = Smaller(FieldOf(a, k), Extended)
    BY <1>1, <1>6 DEF Carries
<1>8. chunks \in [Cids -> Chunk] /\ c \in Chunk
    BY <1>2, <1>3, ReaderNow
<1>9. PICK t : t = Kept(a, k)
    OBVIOUS
<1>10. /\ t.fresh = FALSE /\ t.m = m /\ t.ext = (FieldOf(a, k) >= Extended)
       /\ t.field = FieldOf(a, k) /\ Len(t.left) = Len(m.data) - (p + n)
       /\ Ends(a, k) <=> t.left = <<>>
  <2>1. KeptParts(a, k)
    BY KeptRight
  <2> QED BY <1>1, <1>9, <2>1 DEF KeptParts
<1>11. Ends(a, k) <=> Len(d) = This.len
  <2>1. Ends(a, k) <=> p + n = Len(m.data)
    BY <1>1 DEF Ends
  <2> QED BY <1>1, <1>3, <1>5, <2>1
<1>12. ASSUME NEW y, Heads(y, m), y.fresh = c.fresh, y.ts = c.ts, y.extended = c.extended,
              y.delta = c.delta
       PROVE  Knows(y, t)
  <2>1. c.fresh = FALSE
    BY <1>6, <1>8 DEF Chunk
  <2> QED BY <1>6, <1>7, <1>10, <1>12, <2>1 DEF Knows
<1>13. CASE Ends(a, k)
  <2>1. /\ msg' = [cid |-> cur.cid, type |-> This.type, sid |-> This.sid,
                   ts |-> This.ts, data |-> d]
        /\ chunks' = [chunks EXCEPT ![cur.cid] = Closed(@)] /\ pc' = "hook"
    BY <1>5, <1>11, <1>13 DEF ReadMessagePayload
  <2>2. PICK y : y = Closed(c)
    OBVIOUS
  <2>3. chunks' = [chunks EXCEPT ![m.cid] = y]
    BY <1>3, <1>6, <2>1, <2>2
  <2>4. x = y
    BY <1>1, <1>2, <1>8, <2>3
  <2>5. /\ y.fresh = c.fresh /\ y.ts = c.ts /\ y.extended = c.extended /\ y.delta = c.delta
        /\ y.len = c.len /\ y.type = c.type /\ y.sid = c.sid /\ y.open = FALSE
    BY <1>8, <2>2 DEF Closed, Chunk
  <2>6. Heads(y, m)
    BY <1>7, <2>5 DEF Heads
  <2>7. Keeps(y, t)
    BY <1>10, <1>12, <1>13, <2>5, <2>6 DEF Keeps
  <2>8. d = m.data
    <3>1. p + n = Len(m.data)
        BY <1>1, <1>13 DEF Ends
    <3>2. m.data \in Seq(Token)
        BY <1>2, SendableType
    <3> QED BY <1>4, <3>1, <3>2
  <2>9. msg' = Stamped(m)
    <3>1. This.type = m.type /\ This.sid = m.sid /\ This.ts = m.ts % Mask /\ cur.cid = m.cid
        BY <1>1, <1>6, <1>7 DEF Heads
    <3>2. m = [cid |-> m.cid, type |-> m.type, sid |-> m.sid, ts |-> m.ts, data |-> m.data]
        BY <1>2 DEF Sendable
    <3> QED BY <2>1, <2>8, <3>1, <3>2 DEF Stamped
  <2> QED BY <1>1, <1>9, <1>13, <2>1, <2>3, <2>4, <2>7, <2>9
<1>14. CASE ~Ends(a, k)
  <2> DEFINE v == IF This.alloc = NULL THEN This.len ELSE This.alloc
  <2>1. /\ chunks' = [chunks EXCEPT
                         ![cur.cid].data = d,
                         ![cur.cid].alloc = IF @ = NULL THEN This.len ELSE @]
        /\ pc' = "basic"
    BY <1>5, <1>11, <1>14 DEF ReadMessagePayload
  <2>2. PICK y : y = [c EXCEPT !.data = d, !.alloc = v]
    OBVIOUS
  <2>3. chunks' = [chunks EXCEPT ![m.cid] = y]
    BY <1>1, <1>2, <1>3, <1>6, <1>8, <2>1, <2>2
  <2> HIDE DEF v
  <2>4. x = y
    BY <1>1, <1>2, <1>8, <2>3
  <2>5. /\ y.fresh = c.fresh /\ y.ts = c.ts /\ y.extended = c.extended /\ y.delta = c.delta
        /\ y.len = c.len /\ y.type = c.type /\ y.sid = c.sid /\ y.open = c.open
        /\ y.data = d
    BY <1>8, <2>2 DEF Chunk
  <2>6. Heads(y, m)
    BY <1>7, <2>5 DEF Heads
  <2>7. y.data = SubSeq(t.m.data, 1, Len(t.m.data) - Len(t.left))
    <3>1. Len(m.data) - Len(t.left) = p + n
        BY <1>2, <1>10
    <3> QED BY <1>4, <1>10, <2>5, <3>1
  <2>8. y.open = (t.left # <<>>)
    BY <1>7, <1>10, <1>14, <2>5
  <2>9. Keeps(y, t)
    BY <1>12, <2>5, <2>6, <2>7, <2>8 DEF Keeps
  <2> QED BY <1>1, <1>9, <1>14, <2>1, <2>3, <2>4, <2>9
<1> QED BY <1>13, <1>14

\* The payload of a chunk.
LEMMA PayloadFollowed ==
    ASSUME ReaderInv, in_buffer' \in Seq(Token), ReadMessagePayload, UNCHANGED peerVars,
           NEW A, NEW K, NEW C, NEW q, NEW R, NEW D, Followed(A, K, C, q, R, D)
    PROVE  \E T : Followed(A, K, C, q + 1, T, D)'
<1>1. PICK a, k, b, m, n : /\ a = A[q] /\ k = K[q] /\ b = After(a, k) /\ m = k.m
                           /\ n = Piece(a, k)
    OBVIOUS
<1>2. /\ pc = "payload" /\ (This.len > 0 => Grown) /\ Consume(PayloadSize)
      /\ UNCHANGED <<sent, delivered, in_chunk_size>>
    BY DEF ReadMessagePayload, control, peerVars
<1>3. q <= C /\ PayloadAt(a, k, R)
    BY <1>1, <1>2, PayloadHere
<1>4. /\ R \in Nat /\ a.pos \in Nat /\ C \in Nat /\ q \in 1..C /\ q + 1 \in 1..(C + 1)
      /\ StateRight(sent, a) /\ ChunkRight(sent, a, k) /\ ChunkParts(a, k)
      /\ TokensRight(a, k) /\ A[q + 1] = b
    BY <1>1, <1>3, ChunkHere
<1>5. m.cid \in Cids /\ n \in Nat
    BY <1>1, <1>4 DEF ChunkParts
<1>6. /\ AtPayload(a, k, R) /\ in_chunk_size = a.cs /\ PayloadSize = n /\ n <= Len(in_buffer)
    BY <1>1, <1>3 DEF PayloadAt
<1>7. R = a.pos + Len(Heading(a, k)) /\ Others(a, k)
    BY <1>6 DEF AtPayload
<1>8. PICK x : x = chunks'[m.cid]
    OBVIOUS
<1>9. /\ chunks' = [chunks EXCEPT ![m.cid] = x] /\ Keeps(x, Kept(a, k))
      /\ Ends(a, k) => pc' = "hook" /\ msg' = Stamped(m)
      /\ ~Ends(a, k) => pc' = "basic"
    BY <1>1, <1>3, <1>4, <1>8, PayloadCopied
<1>10. Others(a, k)'
  <2>1. chunks \in [Cids -> Chunk]
    BY ReaderNow
  <2> QED BY <1>1, <1>5, <1>7, <1>9, <2>1, OthersStay
<1>11. Shadows(b)'
    BY <1>1, <1>4, <1>8, <1>9, <1>10, StreamKept
<1>12. R + n = b.pos
  <2>1. b.pos = a.pos + Len(Tokens(a, k))
    BY <1>1, AfterPos
  <2>2. Len(Heading(a, k)) \in Nat /\ Len(Tokens(a, k)) = Len(Heading(a, k)) + n
    BY <1>1, <1>4 DEF TokensRight
  <2> QED BY <1>4, <1>5, <1>7, <2>1, <2>2
<1>13. ParsesAt(A, K, C, q + 1, R + n)'
  <2>1. AtBasic(b, R + n)' \/ AtHook(b, R + n)'
    BY <1>9, <1>11, <1>12 DEF AtBasic, AtHook
  <2> QED BY <1>4, <2>1 DEF ParsesAt
<1>14. Gave(sent, delivered, D, a.done)
    BY <1>1, <1>2 DEF Followed, GaveTo
<1>15. /\ k.n \in 1..Len(sent) /\ m = sent[k.n] /\ Open(sent, a, k.n)
       /\ a.done \subseteq 1..Len(sent)
    BY <1>1, <1>4 DEF ChunkRight, StateRight
<1>16. GaveTo(D, b)'
  <2>1. CASE Ends(a, k)
    <3>1. b.cs = SizeBehind(m, a.cs) /\ b.done = a.done \cup {k.n}
        BY <1>1, <2>1 DEF After
    <3>2. k.n \notin a.done
        BY <1>15 DEF Open
    <3>3. b.done \ {k.n} = a.done
        BY <3>1, <3>2
    <3>4. Gave(sent', delivered', D, b.done \ {k.n})
        BY <1>2, <1>14, <3>3
    <3>5. msg' = Stamped(sent'[k.n])
        BY <1>2, <1>9, <1>15, <2>1
    <3>6. b.cs = SizeBehind(msg', in_chunk_size')
      <4>1. msg'.type = m.type /\ msg'.data = m.data
        <5>1. m \in Sendable
            BY <1>1, <1>4 DEF ChunkParts
        <5> QED BY <1>9, <2>1, <5>1 DEF Stamped, Sendable
      <4> QED BY <1>2, <1>6, <3>1, <4>1 DEF SizeBehind
    <3>7. \A j \in b.done : sent'[j].cid = sent'[k.n].cid => j <= k.n
        BY <1>2, <1>15, <3>1 DEF Open
    <3>8. k.n \in b.done /\ pc' = "hook"
        BY <1>9, <2>1, <3>1
    <3> QED BY <3>4, <3>5, <3>6, <3>7, <3>8 DEF GaveTo
  <2>2. CASE ~Ends(a, k)
    <3>1. b.cs = a.cs /\ b.done = a.done
        BY <1>1, <2>2 DEF After
    <3>2. Gave(sent', delivered', D, b.done) /\ in_chunk_size' = b.cs /\ pc' # "hook"
        BY <1>2, <1>6, <1>9, <1>14, <2>2, <3>1
    <3> QED BY <3>2 DEF GaveTo
  <2> QED BY <2>1, <2>2
<1>17. q + 1 \in q..(C + 1)
    BY <1>4
<1>18. A[q + 1].pos <= R + n
  <2>1. R + n \in Nat
    BY <1>4, <1>5
  <2> QED BY <1>4, <1>12, <2>1
<1>19. in_buffer \in Seq(Token) /\ wire \in Seq(Token)
    BY ReaderNow
<1>20. GaveTo(D, A[q + 1])'
    BY <1>4, <1>16
<1>21. Followed(A, K, C, q + 1, R + n, D)'
    BY <1>2, <1>5, <1>6, <1>13, <1>17, <1>18, <1>19, <1>20, Onwards
<1> QED BY <1>21

----------------------------------------------------------------------------
(* on_recv_message *)

\* The message the hook has is delivered.
LEMMA HookFollowed ==
    ASSUME ReaderInv, in_buffer' \in Seq(Token), OnRecvMessage, UNCHANGED peerVars,
           NEW A, NEW K, NEW C, NEW q, NEW R, NEW D, Followed(A, K, C, q, R, D)
    PROVE  pc' # "failed" /\ \E E : Followed(A, K, C, q, R, E)'
<1>1. PICK a : a = A[q]
    OBVIOUS
<1>2. pc = "hook" /\ UNCHANGED <<wire, in_buffer, chunks, cur, sent, tx, peer_chunk_size>>
    BY DEF OnRecvMessage, stream, peerVars
<1>3. AtHook(a, R)
    BY <1>1, <1>2 DEF Followed, ParsesAt, AtBasic, AtHeader, AtExt, AtPayload
<1>4. PICK n \in a.done : /\ Gave(sent, delivered, D, a.done \ {n})
                          /\ msg = Stamped(sent[n])
                          /\ a.cs = SizeBehind(msg, in_chunk_size)
                          /\ \A j \in a.done : sent[j].cid = sent[n].cid => j <= n
    BY <1>1, <1>2 DEF Followed, GaveTo
<1>5. PICK m : m = sent[n]
    OBVIOUS
<1>6. History(sent, A, K, C) /\ PeerAt(A[C + 1]) /\ InFlight(Stream, A, K, C, q, R)
    BY DEF Followed
<1>7. sent \in Seq(Sendable) /\ q \in 1..(C + 1) /\ a.done \subseteq 1..Len(sent)
    BY <1>1, <1>6 DEF History, InFlight, StateRight
<1>8. m \in Sendable /\ n \in 1..Len(sent)
    BY <1>4, <1>5, <1>7
<1>9. msg.type = m.type /\ msg.data = m.data /\ msg.cid = m.cid
    BY <1>4, <1>5, <1>8 DEF Stamped, Sendable
<1>10. ~DecodeFails
  <2>1. m.type \in ControlTypes => Len(m.data) >= ControlSize /\ Len(m.data) \in Nat
    BY <1>8, SendableType
  <2> QED BY <1>9, <2>1, ReaderAssumption DEF DecodeFails
<1>11. /\ pc' = "basic" /\ delivered' = Append(delivered, msg)
       /\ in_chunk_size' = SizeBehind(msg, in_chunk_size)
    BY <1>10 DEF OnRecvMessage, SizeBehind
<1>12. delivered \in Seq(Message)
    BY ReaderNow
<1>13. PICK l, E : l = Len(delivered) /\ E = [i \in 1..(l + 1) |-> IF i <= l THEN D[i] ELSE n]
    OBVIOUS
<1>14. /\ l \in Nat /\ Len(delivered') = l + 1 /\ delivered'[l + 1] = msg
       /\ \A i \in 1..l : delivered'[i] = delivered[i]
    BY <1>11, <1>12, <1>13
<1>15. /\ DOMAIN D = 1..l
       /\ \A i \in 1..l : D[i] \in a.done \ {n} /\ delivered[i] = Stamped(sent[D[i]])
       /\ \A j \in a.done \ {n} : \E i \in 1..l : D[i] = j
       /\ \A i, k \in 1..l : i < k /\ delivered[i].cid = delivered[k].cid => D[i] < D[k]
    BY <1>4, <1>13 DEF Gave
<1>16. DOMAIN E = 1..(l + 1) /\ E[l + 1] = n /\ \A i \in 1..l : E[i] = D[i]
    BY <1>13, <1>14
<1>17. Gave(sent', delivered', E, a.done)
  <2>1. ASSUME NEW i \in 1..(l + 1)
        PROVE  E[i] \in a.done /\ delivered'[i] = Stamped(sent[E[i]])
    <3>1. CASE i \in 1..l
        BY <1>14, <1>15, <1>16, <3>1
    <3>2. CASE i = l + 1
        BY <1>4, <1>14, <1>16, <3>2
    <3>3. i \in 1..l \/ i = l + 1
        BY <1>14
    <3> QED BY <3>1, <3>2, <3>3
  <2>2. ASSUME NEW j \in a.done PROVE \E i \in 1..(l + 1) : E[i] = j
    <3>1. CASE j = n
      <4>1. l + 1 \in 1..(l + 1)
          BY <1>14
      <4> QED BY <1>16, <3>1, <4>1
    <3>2. CASE j # n
      <4>1. PICK i \in 1..l : D[i] = j
          BY <1>15, <3>2
      <4>2. i \in 1..(l + 1)
          BY <1>14
      <4> QED BY <1>16, <4>1, <4>2
    <3> QED BY <3>1, <3>2
  <2>3. ASSUME NEW i \in 1..(l + 1), NEW k \in 1..(l + 1), i < k,
               delivered'[i].cid = delivered'[k].cid
        PROVE  E[i] < E[k]
    <3>1. i \in 1..l
        BY <1>14, <2>3
    <3>2. CASE k \in 1..l
        BY <1>14, <1>15, <1>16, <2>3, <3>1, <3>2
    <3>3. CASE k = l + 1
      <4>1. PICK j : j = D[i]
          OBVIOUS
      <4>2. j \in a.done /\ j # n /\ delivered[i] = Stamped(sent[j])
          BY <1>15, <3>1, <4>1
      <4>3. sent[j] \in Sendable /\ j \in 1..Len(sent)
          BY <1>7, <4>2
      <4>4. delivered[i].cid = sent[j].cid
          BY <4>2, <4>3 DEF Stamped, Sendable
      <4>5. sent[j].cid = sent[n].cid
          BY <1>5, <1>9, <1>14, <2>3, <3>1, <3>3, <4>4
      <4>6. j <= n
          BY <1>4, <4>2, <4>5
      <4>7. j < n
          BY <1>8, <4>2, <4>3, <4>6
      <4> QED BY <1>16, <3>1, <3>3, <4>1, <4>7
    <3>4. k \in 1..l \/ k = l + 1
        BY <1>14
    <3> QED BY <3>2, <3>3, <3>4
  <2> QED BY <1>2, <1>14, <1>16, <2>1, <2>2, <2>3 DEF Gave
<1>18. GaveTo(E, a)'
    BY <1>4, <1>11, <1>17 DEF GaveTo
<1>19. AtBasic(a, R)'
    BY <1>2, <1>3, <1>11 DEF AtBasic, AtHook, Shadows
<1>20. ParsesAt(A, K, C, q, R)'
    BY <1>1, <1>19 DEF ParsesAt
<1>21. InFlight(Stream, A, K, C, q, R)'
  <2>1. Stream' = Stream
    BY <1>2 DEF Stream
  <2> QED BY <1>6, <2>1
<1>22. History(sent, A, K, C)' /\ PeerAt(A[C + 1])'
    BY <1>2, <1>6 DEF PeerAt
<1>23. Followed(A, K, C, q, R, E)'
    BY <1>1, <1>18, <1>20, <1>21, <1>22 DEF Followed
<1> QED BY <1>11, <1>23

----------------------------------------------------------------------------
(***************************************************************************)
(* The peer.                                                               *)
(***************************************************************************)

\* Behind a chunk the peer keeps what it has to.
LEMMA StateAfter ==
    ASSUME NEW S \in Seq(Sendable), NEW a, NEW k, StateRight(S, a), ChunkRight(S, a, k),
           ChunkParts(a, k)
    PROVE  StateRight(S, After(a, k))
<1>1. PICK b, m, t : b = After(a, k) /\ m = k.m /\ t = Kept(a, k)
    OBVIOUS
<1>2. /\ m \in Sendable /\ m.cid \in Cids /\ FieldOf(a, k) \in Nat /\ FieldOf(a, k) < Raw
      /\ (FieldOf(a, k) >= Extended => FieldOf(a, k) = m.ts) /\ a.pos \in Nat
    BY <1>1 DEF ChunkParts
<1>3. TxOK(t)
  <2>1. KeptParts(a, k)
    BY KeptRight
  <2>2. /\ t.fresh = FALSE /\ t.m = m /\ t.field = FieldOf(a, k)
        /\ t.ext = (t.field >= Extended) /\ t.left \in Seq(DataToken)
        /\ Len(t.left) <= Len(t.m.data)
        /\ t.left = Drop(t.m.data, Len(t.m.data) - Len(t.left))
    BY <1>1, <2>1 DEF KeptParts
  <2>3. t.field \in 0..(Raw - 1)
    BY <1>2, <2>2, WireAssumption
  <2>4. t.ext => t.field = t.m.ts
    BY <1>2, <2>2
  <2> QED BY <1>2, <2>2, <2>3, <2>4 DEF TxOK
<1>4. DOMAIN a.tx = Cids /\ \A c \in Cids : TxOK(a.tx[c])
    BY DEF StateRight
<1>5. b.tx = [a.tx EXCEPT ![m.cid] = t]
    BY <1>1 DEF After
<1>6. DOMAIN b.tx = Cids /\ \A c \in Cids : TxOK(b.tx[c])
    BY <1>2, <1>3, <1>4, <1>5
<1>7. b.cs \in Nat \ {0}
  <2>1. a.cs \in Nat \ {0}
    BY DEF StateRight
  <2>2. b.cs = a.cs \/ b.cs = SizeBehind(m, a.cs)
    BY <1>1 DEF After
  <2>3. ASSUME m.type = "SetChunkSize" PROVE Decode(m.data) \in Nat \ {0}
    <3>1. m.data \in Seq(Token) /\ Len(m.data) \in 1..MaxLength /\ Decode(m.data) > 0
        BY <1>2, <2>3, SendableType
    <3>2. m.data # <<>>
        BY <3>1
    <3>3. Decode(m.data) \in Nat
        BY <3>1, <3>2, DecodeType
    <3> QED BY <3>1, <3>3
  <2> QED BY <2>1, <2>2, <2>3 DEF SizeBehind
<1>8. b.pos \in Nat
  <2>1. b.pos = a.pos + Len(Tokens(a, k))
    BY <1>1, AfterPos
  <2>2. Len(Tokens(a, k)) \in Nat
    BY TokensType DEF TokensRight
  <2> QED BY <1>2, <2>1, <2>2
<1>9. /\ a.done \subseteq 1..Len(S) /\ k.n \in 1..Len(S) /\ Open(S, a, k.n)
      /\ \A j \in a.done, i \in 1..Len(S) : i < j /\ S[i].cid = S[j].cid => i \in a.done
    BY DEF StateRight, ChunkRight
<1>10. b.done = a.done \/ b.done = a.done \cup {k.n}
    BY <1>1 DEF After
<1>11. b.done \subseteq 1..Len(S)
    BY <1>9, <1>10
<1>12. ASSUME NEW j \in b.done, NEW i \in 1..Len(S), i < j, S[i].cid = S[j].cid
       PROVE  i \in b.done
  <2>1. CASE j \in a.done
    BY <1>9, <1>10, <1>12, <2>1
  <2>2. CASE j \notin a.done
    <3>1. j = k.n
        BY <1>10, <2>2
    <3>2. i \in a.done
        BY <1>9, <1>12, <3>1 DEF Open
    <3> QED BY <1>10, <3>2
  <2> QED BY <2>1, <2>2
<1> QED BY <1>1, <1>6, <1>7, <1>8, <1>11, <1>12 DEF StateRight

\* A history is one of more messages too.
LEMMA HistoryGrows ==
    ASSUME NEW S, NEW A, NEW K, NEW C, History(S, A, K, C), NEW m \in Sendable,
           Len(S) < MaxMessages
    PROVE  History(Append(S, m), A, K, C)
<1>1. S \in Seq(Sendable) /\ C \in Nat
    BY DEF History
<1>2. PICK T, l : T = Append(S, m) /\ l = Len(S)
    OBVIOUS
<1>3. /\ T \in Seq(Sendable) /\ l \in Nat /\ Len(T) = l + 1 /\ T[l + 1] = m
      /\ \A i \in 1..l : T[i] = S[i]
    BY <1>1, <1>2
<1>4. 1..l \subseteq 1..Len(T) /\ \A i \in 1..Len(T) : i \in 1..l \/ i = l + 1
    BY <1>3
<1>5. ASSUME NEW i \in 1..(C + 1) PROVE StateRight(T, A[i])
  <2>1. StateRight(S, A[i])
    BY DEF History
  <2>2. A[i].done \subseteq 1..l
    BY <1>2, <2>1 DEF StateRight
  <2>3. ASSUME NEW j \in A[i].done, NEW n \in 1..Len(T), n < j, T[n].cid = T[j].cid
        PROVE  n \in A[i].done
    <3>1. j \in 1..l /\ n \in 1..l
        BY <1>3, <2>2, <2>3
    <3>2. S[n].cid = S[j].cid
        BY <1>3, <2>3, <3>1
    <3> QED BY <1>2, <2>1, <2>3, <3>1, <3>2 DEF StateRight
  <2> QED BY <1>4, <2>1, <2>2, <2>3 DEF StateRight
<1>6. ASSUME NEW i \in 1..C PROVE ChunkRight(T, A[i], K[i]) /\ A[i + 1] = After(A[i], K[i])
  <2>1. PICK a, k : a = A[i] /\ k = K[i]
    OBVIOUS
  <2>2. ChunkRight(S, a, k) /\ A[i + 1] = After(A[i], K[i])
    BY <2>1 DEF History
  <2>3. a.done \subseteq 1..l
    <3>1. i \in 1..(C + 1)
        BY <1>1
    <3> QED BY <1>2, <2>1, <3>1 DEF History, StateRight
  <2>4. k.n \in 1..l /\ k.m = S[k.n] /\ Open(S, a, k.n)
    BY <1>2, <2>2 DEF ChunkRight
  <2>5. k.n \in 1..Len(T) /\ k.m = T[k.n]
    BY <1>3, <1>4, <2>4
  <2>6. ASSUME NEW j \in 1..Len(T), T[j].cid = T[k.n].cid PROVE j \in a.done <=> j < k.n
    <3>1. CASE j \in 1..l
        BY <1>2, <1>3, <2>4, <2>6, <3>1 DEF Open
    <3>2. CASE j = l + 1
        BY <1>3, <2>3, <2>4, <3>2
    <3> QED BY <1>4, <3>1, <3>2
  <2>7. ChunkRight(T, a, k)
    BY <2>2, <2>5, <2>6 DEF ChunkRight, Open
  <2> QED BY <2>1, <2>2, <2>7
<1>7. MaxMessages \in Nat
    BY PeerAssumption
<1>8. Len(T) <= MaxMessages
    BY <1>2, <1>3, <1>7
<1> QED BY <1>1, <1>2, <1>3, <1>5, <1>6, <1>8 DEF History

\* A chunk k makes it longer.
Longer(S, A, K, C, k, B, L) ==
    /\ History(S, B, L, C + 1) /\ B[C + 2] = After(A[C + 1], k) /\ L[C + 1] = k
    /\ \A i \in 1..(C + 1) : B[i] = A[i]
    /\ \A i \in 1..C : L[i] = K[i]

LEMMA HistoryExtends ==
    ASSUME NEW S, NEW A, NEW K, NEW C, History(S, A, K, C),
           NEW k, ChunkRight(S, A[C + 1], k)
    PROVE  \E B, L : Longer(S, A, K, C, k, B, L)
<1>1. S \in Seq(Sendable) /\ C \in Nat /\ Len(S) <= MaxMessages
    BY DEF History
<1>2. PICK a, b : a = A[C + 1] /\ b = After(a, k)
    OBVIOUS
<1>3. PICK B, L : /\ B = [i \in 1..(C + 2) |-> IF i <= C + 1 THEN A[i] ELSE b]
                  /\ L = [i \in 1..(C + 1) |-> IF i <= C THEN K[i] ELSE k]
    OBVIOUS
<1>4. /\ B[C + 2] = b /\ L[C + 1] = k
      /\ \A i \in 1..(C + 1) : B[i] = A[i]
      /\ \A i \in 1..C : L[i] = K[i]
  <2>1. C + 2 \in 1..(C + 2) /\ ~(C + 2 <= C + 1) /\ C + 1 \in 1..(C + 1) /\ ~(C + 1 <= C)
    BY <1>1
  <2>2. \A i \in 1..(C + 1) : i \in 1..(C + 2) /\ i <= C + 1
    BY <1>1
  <2>3. \A i \in 1..C : i \in 1..(C + 1) /\ i <= C
    BY <1>1
  <2> QED BY <1>3, <2>1, <2>2, <2>3
<1>5. StateRight(S, a) /\ StateRight(S, b)
  <2>1. C + 1 \in 1..(C + 1)
    BY <1>1
  <2>2. StateRight(S, a)
    BY <1>2, <2>1 DEF History
  <2>3. ChunkParts(a, k)
    BY <1>1, <1>2, <2>2, ChunkPartsRight
  <2> QED BY <1>1, <1>2, <2>2, <2>3, StateAfter
<1>6. ASSUME NEW i \in 1..((C + 1) + 1) PROVE StateRight(S, B[i])
  <2>1. CASE i \in 1..(C + 1)
    BY <1>4, <2>1 DEF History
  <2>2. CASE i = C + 2
    BY <1>4, <1>5, <2>2
  <2>3. i \in 1..(C + 1) \/ i = C + 2
    BY <1>1
  <2> QED BY <2>1, <2>2, <2>3
<1>7. ASSUME NEW i \in 1..(C + 1)
      PROVE  ChunkRight(S, B[i], L[i]) /\ B[i + 1] = After(B[i], L[i])
  <2>1. CASE i \in 1..C
    <3>1. i + 1 \in 1..(C + 1)
        BY <1>1, <2>1
    <3>2. ChunkRight(S, A[i], K[i]) /\ A[i + 1] = After(A[i], K[i])
        BY <2>1 DEF History
    <3> QED BY <1>4, <1>7, <2>1, <3>1, <3>2
  <2>2. CASE i = C + 1
    <3>1. i + 1 = C + 2
        BY <1>1, <2>2
    <3> QED BY <1>2, <1>4, <1>7, <2>2, <3>1
  <2>3. i \in 1..C \/ i = C + 1
    BY <1>1
  <2> QED BY <2>1, <2>2, <2>3
<1>8. C + 1 \in Nat
    BY <1>1
<1>9. History(S, B, L, C + 1)
    BY <1>1, <1>6, <1>7, <1>8 DEF History
<1>10. Longer(S, A, K, C, k, B, L)
    BY <1>2, <1>4, <1>9 DEF Longer
<1> QED BY <1>10

\* The chunk is of the last message of its stream: so it stands behind the chunk, and
\* the other streams do as before.
LEMMA StandsBehind ==
    ASSUME NEW S, NEW a, NEW k, StateRight(S, a), ChunkRight(S, a, k), ChunkParts(a, k),
           \A j \in 1..Len(S) : S[j].cid = k.m.cid => j <= k.n,
           NEW c \in Cids, c # k.m.cid => Standing(S, a, c)
    PROVE  Standing(S, After(a, k), c)
<1>1. PICK b, m, t, n : b = After(a, k) /\ m = k.m /\ t = Kept(a, k) /\ n = k.n
    OBVIOUS
<1>2. n \in 1..Len(S) /\ m = S[n] /\ Open(S, a, n) /\ a.done \subseteq 1..Len(S)
    BY <1>1 DEF ChunkRight, StateRight
<1>3. DOMAIN a.tx = Cids /\ m.cid \in Cids
    BY <1>1 DEF StateRight, ChunkParts
<1>4. /\ b.tx = [a.tx EXCEPT ![m.cid] = t]
      /\ b.done = IF Ends(a, k) THEN a.done \cup {n} ELSE a.done
    BY <1>1 DEF After
<1>5. CASE c = m.cid
  <2>1. b.tx[c] = t
    BY <1>3, <1>4, <1>5
  <2>2. KeptParts(a, k)
    BY KeptRight
  <2>3. t.m = m /\ (Ends(a, k) <=> t.left = <<>>)
    BY <1>1, <2>2 DEF KeptParts
  <2>4. CASE Ends(a, k)
    <3>1. ASSUME NEW j \in 1..Len(S), S[j].cid = c PROVE j \in b.done
      <4>1. j <= n
          BY <1>1, <1>5, <3>1
      <4>2. j = n \/ j < n
          BY <1>2, <4>1
      <4> QED BY <1>2, <1>4, <1>5, <2>4, <3>1, <4>2 DEF Open
    <3> QED BY <1>1, <2>1, <2>3, <2>4, <3>1 DEF Standing
  <2>5. CASE ~Ends(a, k)
    <3>1. b.tx[c].left # <<>>
        BY <2>1, <2>3, <2>5
    <3>2. b.tx[c].m = S[n] /\ S[n].cid = c
        BY <1>2, <1>5, <2>1, <2>3
    <3>3. Open(S, b, n)
        BY <1>2, <1>4, <2>5 DEF Open
    <3>4. \A j \in 1..Len(S) : S[j].cid = c => j <= n
        BY <1>1, <1>5
    <3>5. \E i \in 1..Len(S) :
             /\ S[i].cid = c /\ b.tx[c].m = S[i] /\ Open(S, b, i)
             /\ \A j \in 1..Len(S) : S[j].cid = c => j <= i
        BY <1>2, <3>2, <3>3, <3>4
    <3> QED BY <1>1, <3>1, <3>5 DEF Standing
  <2> QED BY <2>4, <2>5
<1>6. CASE c # m.cid
  <2>1. b.tx[c] = a.tx[c] /\ Standing(S, a, c)
    BY <1>1, <1>3, <1>4, <1>6
  <2>2. ASSUME NEW j \in 1..Len(S), S[j].cid = c PROVE j \in b.done <=> j \in a.done
    BY <1>2, <1>4, <1>6, <2>2
  <2>3. CASE a.tx[c].left = <<>>
    <3>1. \A j \in 1..Len(S) : S[j].cid = c => j \in b.done
        BY <2>1, <2>2, <2>3 DEF Standing
    <3> QED BY <1>1, <2>1, <2>3, <3>1 DEF Standing
  <2>4. CASE a.tx[c].left # <<>>
    <3>1. PICK i \in 1..Len(S) :
             /\ S[i].cid = c /\ a.tx[c].m = S[i] /\ Open(S, a, i)
             /\ \A j \in 1..Len(S) : S[j].cid = c => j <= i
        BY <2>1, <2>4 DEF Standing
    <3>2. Open(S, b, i)
        BY <2>2, <3>1 DEF Open
    <3> QED BY <1>1, <2>1, <2>4, <3>1, <3>2 DEF Standing
  <2> QED BY <2>3, <2>4
<1> QED BY <1>5, <1>6

\* Tokens that are appended fly behind what is in flight.
LEMMA FliesLonger ==
    ASSUME NEW W \in Seq(Token), NEW z \in Seq(Token), NEW R \in Nat,
           NEW a, NEW k, a.pos \in Nat, Len(Tokens(a, k)) \in Nat, Flies(W, a, k, R)
    PROVE  Flies(W \o z, a, k, R)
<1>1. PICK V, l, p, w, x : /\ V = W \o z /\ l = Len(Tokens(a, k)) /\ p = a.pos
                           /\ w = Len(W) /\ x = Len(z)
    OBVIOUS
<1>2. l \in Nat /\ p \in Nat /\ w \in Nat /\ x \in Nat /\ p + l <= R + w
    BY <1>1 DEF Flies
<1>3. Len(V) = w + x /\ \A i \in 1..w : V[i] = W[i]
    BY <1>1, ConcatElements
<1>4. p + l <= R + Len(V)
    BY <1>2, <1>3
<1>5. ASSUME NEW j \in 1..l, p + j > R PROVE V[p + j - R] = Tokens(a, k)[j]
  <2>1. PICK i : i = p + j - R
    OBVIOUS
  <2>2. i \in 1..w
    BY <1>2, <1>5, <2>1
  <2>3. W[i] = Tokens(a, k)[j]
    BY <1>1, <1>5, <2>1 DEF Flies
  <2> QED BY <1>3, <2>1, <2>2, <2>3
<1> QED BY <1>1, <1>4, <1>5 DEF Flies

\* So does the chunk that is written.
LEMMA FliesNew ==
    ASSUME NEW W \in Seq(Token), NEW R \in Nat, NEW a, NEW k, a.pos = R + Len(W),
           TokensRight(a, k)
    PROVE  Flies(W \o Tokens(a, k), a, k, R)
<1>1. PICK z, V, l, w : /\ z = Tokens(a, k) /\ V = W \o z /\ l = Len(z) /\ w = Len(W)
    OBVIOUS
<1>2. z \in Seq(Token) /\ l \in Nat /\ w \in Nat
    BY <1>1 DEF TokensRight
<1>3. Len(V) = w + l /\ \A i \in 1..l : V[w + i] = z[i]
    BY <1>1, <1>2, ConcatElements
<1>4. a.pos = R + w
    BY <1>1
<1>5. a.pos + l <= R + Len(V)
    BY <1>2, <1>3, <1>4
<1>6. ASSUME NEW j \in 1..l PROVE V[a.pos + j - R] = z[j]
  <2>1. a.pos + j - R = w + j
    BY <1>2, <1>4
  <2> QED BY <1>3, <2>1
<1> QED BY <1>1, <1>5, <1>6 DEF Flies

\* What was delivered stays when the peer has more messages.
LEMMA GaveMore ==
    ASSUME NEW S, NEW T, NEW G, NEW D, NEW N, Gave(S, G, D, N),
           \A j \in N : T[j] = S[j]
    PROVE  Gave(T, G, D, N)
<1>1. \A i \in 1..Len(G) : D[i] \in N /\ G[i] = Stamped(S[D[i]])
    BY DEF Gave
<1>2. \A i \in 1..Len(G) : D[i] \in N /\ G[i] = Stamped(T[D[i]])
    BY <1>1
<1> QED BY <1>2 DEF Gave

\* The peer writes a chunk.
LEMMA ChunkFollowed ==
    ASSUME ReaderInv, UNCHANGED readerOnly,
           NEW A, NEW K, NEW C, NEW q, NEW R, NEW D, Followed(A, K, C, q, R, D),
           NEW S, S = sent', \A j \in 1..Len(sent) : S[j] = sent[j], History(S, A, K, C),
           NEW a, a = A[C + 1], NEW k, ChunkRight(S, a, k),
           wire' = wire \o Tokens(a, k), tx' = After(a, k).tx,
           peer_chunk_size' = After(a, k).cs,
           \A c \in Cids : Standing(S, After(a, k), c)
    PROVE  \E B, L : Followed(B, L, C + 1, q, R, D)'
<1>1. ChunkRight(S, A[C + 1], k)
    OBVIOUS
<1>2. PICK B, L : Longer(S, A, K, C, k, B, L)
    BY <1>1, HistoryExtends
<1>3. /\ History(S, B, L, C + 1) /\ B[C + 2] = After(a, k) /\ L[C + 1] = k
      /\ \A i \in 1..(C + 1) : B[i] = A[i]
      /\ \A i \in 1..C : L[i] = K[i]
    BY <1>2 DEF Longer
<1>4. PICK b, z, W : b = After(a, k) /\ z = Tokens(a, k) /\ W = Stream
    OBVIOUS
<1>5. C \in Nat /\ S \in Seq(Sendable) /\ C + 1 \in 1..(C + 1)
    BY DEF History
<1>6. (C + 1) + 1 = C + 2 /\ C + 1 \in 1..((C + 1) + 1) /\ C + 1 <= C + 1
    BY <1>5
<1>7. /\ History(sent, A, K, C) /\ InFlight(W, A, K, C, q, R)
      /\ ParsesAt(A, K, C, q, R) /\ GaveTo(D, A[q])
    BY <1>4 DEF Followed
<1>8. q \in 1..(C + 1) /\ R \in Nat /\ A[q].pos <= R /\ a.pos = R + Len(W)
    BY <1>7 DEF InFlight
<1>9. /\ in_buffer \in Seq(Token) /\ wire \in Seq(Token)
      /\ W \in Seq(Token) /\ Len(W) \in Nat
    BY <1>4, ReaderNow, StreamType
<1>10. a.pos \in Nat /\ ChunkParts(a, k) /\ TokensRight(a, k)
  <2>1. StateRight(S, a)
    BY <1>5 DEF History
  <2>2. ChunkParts(a, k)
    BY <1>5, <2>1, ChunkPartsRight
  <2> QED BY <2>1, <2>2, TokensType DEF StateRight
<1>11. z \in Seq(Token) /\ Len(z) \in Nat
    BY <1>4, <1>10 DEF TokensRight
<1>12. in_buffer' = in_buffer /\ Stream' = W \o z
  <2>1. Stream' = in_buffer \o (wire \o z) /\ in_buffer' = in_buffer
    BY <1>4 DEF Stream, readerOnly
  <2>2. in_buffer \o (wire \o z) = (in_buffer \o wire) \o z
    BY <1>9, <1>11, ThreeParts
  <2> QED BY <1>4, <2>1, <2>2 DEF Stream
<1>13. PICK V : V = W \o z
    OBVIOUS
<1>14. Len(V) = Len(W) + Len(z)
    BY <1>9, <1>11, <1>13, ConcatElements
<1>15. InFlight(V, B, L, C + 1, q, R)
  <2>1. q \in 1..((C + 1) + 1) /\ B[q].pos <= R
    BY <1>3, <1>5, <1>8
  <2>2. B[(C + 1) + 1].pos = R + Len(V)
    <3>1. b.pos = a.pos + Len(z)
        BY <1>4, AfterPos
    <3>2. b.pos = R + Len(V)
        BY <1>8, <1>9, <1>11, <1>14, <3>1
    <3> QED BY <1>3, <1>4, <1>6, <3>2
  <2>3. ASSUME NEW i \in q..(C + 1) PROVE Flies(V, B[i], L[i], R)
    <3>1. CASE i \in q..C
      <4>1. i \in 1..(C + 1) /\ i \in 1..C /\ i <= C
          BY <1>5, <1>8, <3>1
      <4>2. A[i].pos \in Nat /\ TokensRight(A[i], K[i])
          BY <1>7, <4>1, HistoryStates
      <4>3. Len(Tokens(A[i], K[i])) \in Nat
          BY <4>2 DEF TokensRight
      <4>4. Flies(W, A[i], K[i], R)
          BY <1>7, <3>1 DEF InFlight
      <4>5. Flies(W \o z, A[i], K[i], R)
          BY <1>8, <1>9, <1>11, <4>2, <4>3, <4>4, FliesLonger
      <4> QED BY <1>3, <1>13, <4>1, <4>5
    <3>2. CASE i = C + 1
      <4>1. Flies(W \o z, a, k, R)
          BY <1>4, <1>8, <1>9, <1>10, FliesNew
      <4> QED BY <1>3, <1>5, <1>13, <3>2, <4>1
    <3>3. i \in q..C \/ i = C + 1
        BY <1>5, <1>8
    <3> QED BY <3>1, <3>2, <3>3
  <2> QED BY <1>8, <2>1, <2>2, <2>3 DEF InFlight
<1>16. UNCHANGED <<chunks, cur, msg, pc, in_chunk_size, delivered>>
    BY DEF readerOnly, control
<1>17. ParsesAt(A, K, C, q, R)'
    BY <1>7, <1>16 DEF ParsesAt, AtBasic, AtHook, AtHeader, AtExt, AtPayload, Shadows, Others
<1>18. ParsesAt(B, L, C + 1, q, R)'
  <2>1. B[q] = A[q]
    BY <1>3, <1>8
  <2>2. q <= C => q \in 1..C /\ q <= C + 1
    BY <1>5, <1>8
  <2>3. q <= C => L[q] = K[q]
    BY <1>3, <2>2
  <2> QED BY <1>17, <2>1, <2>2, <2>3 DEF ParsesAt
<1>19. GaveTo(D, B[q])'
  <2>1. PICK e : e = A[q]
    OBVIOUS
  <2>2. e.done \subseteq 1..Len(sent)
    BY <1>7, <1>8, <2>1, HistoryStates DEF StateRight
  <2>3. \A j \in e.done : sent'[j] = sent[j]
    BY <2>2
  <2>4. CASE pc # "hook"
    <3>1. Gave(sent, delivered, D, e.done) /\ in_chunk_size = e.cs
        BY <1>7, <2>1, <2>4 DEF GaveTo
    <3>2. Gave(sent', delivered', D, e.done) /\ in_chunk_size' = e.cs /\ pc' # "hook"
        BY <1>16, <2>3, <2>4, <3>1, GaveMore
    <3>3. GaveTo(D, e)'
        BY <3>2 DEF GaveTo
    <3> QED BY <1>3, <1>8, <2>1, <3>3
  <2>5. CASE pc = "hook"
    <3>1. PICK n \in e.done :
             /\ Gave(sent, delivered, D, e.done \ {n}) /\ msg = Stamped(sent[n])
             /\ e.cs = SizeBehind(msg, in_chunk_size)
             /\ \A j \in e.done : sent[j].cid = sent[n].cid => j <= n
        BY <1>7, <2>1, <2>5 DEF GaveTo
    <3>2. \A j \in e.done \ {n} : sent'[j] = sent[j]
        BY <2>3
    <3>3. Gave(sent', delivered', D, e.done \ {n})
        BY <1>16, <3>1, <3>2, GaveMore
    <3>4. msg' = Stamped(sent'[n]) /\ e.cs = SizeBehind(msg', in_chunk_size') /\ pc' = "hook"
        BY <1>16, <2>3, <2>5, <3>1
    <3>5. \A j \in e.done : sent'[j].cid = sent'[n].cid => j <= n
        BY <2>3, <3>1
    <3>6. GaveTo(D, e)'
        BY <3>3, <3>4, <3>5 DEF GaveTo
    <3> QED BY <1>3, <1>8, <2>1, <3>6
  <2> QED BY <2>4, <2>5
<1>20. PeerAt(B[(C + 1) + 1])'
    BY <1>3, <1>6 DEF PeerAt
<1>21. History(sent, B, L, C + 1)' /\ InFlight(Stream, B, L, C + 1, q, R)'
    BY <1>3, <1>12, <1>13, <1>15
<1> QED BY <1>18, <1>19, <1>20, <1>21 DEF Followed

\* Numbered is a message.
LEMMA NumberedSendable ==
    ASSUME peer \in Peers, NEW d \in peer.outgoing, NEW n \in 1..MaxMessages,
           NEW m, m = Numbered(d, n)
    PROVE  m \in Sendable /\ m.cid = d.cid /\ m.cid \in Cids
<1>1. d \in Description
    BY PeerAssumption DEF Make
<1>2. /\ d.ts < Raw /\ (d.type \in ControlTypes => d.size >= ControlSize)
      /\ \A i \in 1..d.size : m.data[i] \in DataToken
      /\ d.type = "SetChunkSize" => Decode(m.data) > 0
    BY PeerAssumption
<1>3. /\ m.cid = d.cid /\ m.type = d.type /\ m.sid = d.sid /\ m.ts = d.ts
      /\ m = [cid |-> m.cid, type |-> m.type, sid |-> m.sid, ts |-> m.ts, data |-> m.data]
      /\ m.data = [i \in 1..d.size |->
                     [k |-> "data", byte |-> [msg |-> n, i |-> i, value |-> d.value]]]
    BY DEF Numbered
<1>4. /\ d.cid \in Cids /\ d.type \in Types /\ d.sid \in Sids /\ d.ts \in Nat
      /\ d.size \in 1..MaxLength
    BY <1>1 DEF Description
<1>5. m.data \in Seq(DataToken) /\ Len(m.data) = d.size
  <2>1. d.size \in Nat
    BY <1>4, WireAssumption
  <2>2. PICK x : x = m.data
    OBVIOUS
  <2>3. x \in [1..d.size -> DataToken]
    BY <1>2, <1>3, <2>2
  <2>4. x \in Seq(DataToken) /\ Len(x) = d.size
    BY <2>1, <2>3
  <2> QED BY <2>2, <2>4
<1>6. m.ts \in 0..(Raw - 1)
    BY <1>2, <1>3, <1>4, WireAssumption
<1> QED BY <1>2, <1>3, <1>4, <1>5, <1>6 DEF Sendable

\* What is left of the payload is written in chunks.
LEMMA ChunkPut ==
    ASSUME wire \in Seq(Token), NEW a, NEW k, ChunkParts(a, k), a.tx = tx,
           a.cs = peer_chunk_size, NEW left, left = Drop(k.m.data, From(a, k)),
           NEW h, h = Heading(a, k), NEW f, f = FieldOf(a, k), PutChunk(k.m, h, left, f)
    PROVE  /\ wire' = wire \o Tokens(a, k) /\ tx' = After(a, k).tx
           /\ peer_chunk_size' = After(a, k).cs
<1>1. PICK m, p, n : m = k.m /\ p = From(a, k) /\ n = Piece(a, k)
    OBVIOUS
<1>2. /\ m \in Sendable /\ Len(m.data) \in Nat /\ p \in Nat /\ p < Len(m.data)
      /\ n \in Nat /\ p + n <= Len(m.data) /\ k.fmt \in 0..3 /\ k.told \in BOOLEAN
      /\ f \in Nat /\ f < Raw
    BY <1>1 DEF ChunkParts
<1>3. m.data \in Seq(Token)
    BY <1>2, SendableType
<1>4. left \in Seq(Token) /\ Len(left) = Len(m.data) - p
  <2>1. p <= Len(m.data)
    BY <1>2
  <2> QED BY <1>1, <1>2, <1>3, <2>1, Suffix DEF Drop
<1>5. n = Smaller(Len(left), peer_chunk_size)
    BY <1>1, <1>4 DEF Piece
<1>6. PICK y : y = SubSeq(left, 1, n)
    OBVIOUS
<1>7. PICK r : r = SubSeq(left, n + 1, Len(left))
    OBVIOUS
<1>8. /\ wire' = (wire \o h) \o y
      /\ tx' = [tx EXCEPT ![m.cid] = [fresh |-> FALSE, m |-> m, left |-> r,
                                      field |-> f, ext |-> f >= Extended]]
      /\ peer_chunk_size' = IF n = Len(left) /\ m.type = "SetChunkSize"
                            THEN Decode(m.data) ELSE peer_chunk_size
    BY <1>1, <1>5, <1>6, <1>7 DEF PutChunk
<1>9. r = Drop(m.data, p + n)
  <2>1. Drop(Drop(m.data, p), n) = Drop(m.data, p + n)
    BY <1>2, <1>3, DropTwice
  <2> QED BY <1>1, <1>7, <2>1 DEF Drop
<1>10. tx' = After(a, k).tx
  <2>1. Kept(a, k) = [fresh |-> FALSE, m |-> m, left |-> r, field |-> f, ext |-> f >= Extended]
    BY <1>1, <1>9 DEF Kept
  <2> QED BY <1>1, <1>8, <2>1 DEF After
<1>11. h \in Seq(Token)
    <2>1. HeadersRight(Headers(m, k.fmt, f, k.told), m, k.fmt, f, k.told)
        BY <1>2, HeadersType
    <2> QED BY <1>1, <2>1 DEF HeadersRight, Heading
<1>12. y \in Seq(Token)
  <2>1. n <= Len(left)
    BY <1>2, <1>4
  <2> QED BY <1>2, <1>4, <1>6, <2>1, Prefix
<1>13. Tokens(a, k) = h \o y
    BY <1>1, <1>6 DEF Tokens
<1>14. wire' = wire \o Tokens(a, k)
  <2>1. (wire \o h) \o y = wire \o (h \o y)
    BY <1>11, <1>12, ThreeParts
  <2> QED BY <1>8, <1>13, <2>1
<1>15. n = Len(left) <=> Ends(a, k)
  <2>1. Ends(a, k) <=> p + n = Len(m.data)
    BY <1>1 DEF Ends
  <2> QED BY <1>2, <1>4, <2>1
<1>16. peer_chunk_size' = After(a, k).cs
    BY <1>1, <1>8, <1>15 DEF After, SizeBehind
<1> QED BY <1>10, <1>14, <1>16

\* A format the peer may choose can be understood.
LEMMA AllowedRight ==
    ASSUME Understood(peer), NEW t, TxOK(t), NEW m \in Sendable, NEW fmt \in Allowed(t, m)
    PROVE  RightFormat(t, m, fmt)
<1>1. t.fresh \in BOOLEAN /\ ~peer.deltas
    BY DEF TxOK, Understood
<1>2. CASE t.fresh
    BY <1>2 DEF Allowed, RightFormat
<1>3. CASE ~t.fresh
  <2>1. t.m \in Sendable
    BY <1>3 DEF TxOK
  <2>2. m.ts \in Nat /\ t.m.ts \in Nat
    BY <2>1, SendableType
  <2>3. PICK x : x = Delta(t, m)
    OBVIOUS
  <2>4. x \in Int
    BY <2>2, <2>3 DEF Delta
  <2>5. \/ fmt = 0
        \/ /\ m.sid = t.m.sid /\ x >= 0 /\ ~(x >= Extended)
           /\ \/ fmt = 1
              \/ /\ m.type = t.m.type /\ Len(m.data) = Len(t.m.data)
                 /\ fmt = 2 \/ (fmt = 3 /\ ~t.ext /\ x = t.field)
    BY <1>1, <1>3, <2>3 DEF Allowed
  <2>6. x >= 0 /\ ~(x >= Extended) => x \in 0..(Extended - 1)
    BY <2>4, WireAssumption
  <2> QED BY <1>3, <2>3, <2>5, <2>6 DEF RightFormat
<1> QED BY <1>1, <1>2, <1>3

\* What is written is tokens, and what is kept has the types it has to have.
LEMMA ChunkTyped ==
    ASSUME ReaderInv, PeerTyped, NEW m \in Sendable, NEW fmt \in 0..3,
           NEW f \in Nat, f < Raw, NEW told \in BOOLEAN, NEW left \in Seq(DataToken),
           PutChunk(m, Headers(m, fmt, f, told), left, f)
    PROVE  /\ wire' \in Seq(Token) /\ peer_chunk_size' \in Nat
           /\ DOMAIN tx' = Cids /\ \A c \in Cids : TxTyped(tx'[c])
<1>1. wire \in Seq(Token) /\ DOMAIN tx = Cids /\ peer_chunk_size \in Nat /\ m.cid \in Cids
    BY ReaderNow, SendableType DEF PeerTyped
<1>2. PICK h, n : h = Headers(m, fmt, f, told) /\ n = Smaller(Len(left), peer_chunk_size)
    OBVIOUS
<1>3. n \in Nat /\ n <= Len(left)
    BY <1>1, <1>2 DEF Smaller
<1>4. PICK y, r : y = SubSeq(left, 1, n) /\ r = SubSeq(left, n + 1, Len(left))
    OBVIOUS
<1>5. y \in Seq(DataToken) /\ r \in Seq(DataToken)
    BY <1>3, <1>4, Prefix, Suffix
<1>6. y \in Seq(Token)
    BY <1>5, SeqMonotonic DEF Token
<1>7. h \in Seq(Token)
  <2>1. HeadersRight(Headers(m, fmt, f, told), m, fmt, f, told)
    BY HeadersType
  <2> QED BY <1>2, <2>1 DEF HeadersRight
<1>8. PICK t : t = [fresh |-> FALSE, m |-> m, left |-> r, field |-> f, ext |-> f >= Extended]
    OBVIOUS
<1>9. /\ wire' = (wire \o h) \o y /\ tx' = [tx EXCEPT ![m.cid] = t]
      /\ peer_chunk_size' = IF n = Len(left) /\ m.type = "SetChunkSize"
                            THEN Decode(m.data) ELSE peer_chunk_size
    BY <1>2, <1>4, <1>8 DEF PutChunk
<1>10. wire' \in Seq(Token)
  <2>1. wire \o h \in Seq(Token)
    BY <1>1, <1>7, ConcatElements
  <2> QED BY <1>6, <1>9, <2>1, ConcatElements
<1>11. peer_chunk_size' \in Nat
  <2>1. m.data \in Seq(Token) /\ Len(m.data) \in 1..MaxLength
    BY SendableType
  <2>2. m.data # <<>>
    BY <2>1
  <2>3. Decode(m.data) \in Nat
    BY <2>1, <2>2, DecodeType
  <2> QED BY <1>1, <1>9, <2>3
<1>12. TxTyped(t)
  <2>1. f \in 0..(Raw - 1)
    BY WireAssumption
  <2> QED BY <1>5, <1>8, <2>1 DEF TxTyped
<1>13. DOMAIN tx' = Cids /\ \A c \in Cids : TxTyped(tx'[c])
    BY <1>1, <1>9, <1>12 DEF PeerTyped
<1> QED BY <1>10, <1>11, <1>13

\* What PeerStart does.
Begins(d, m, t, fmt, f) ==
    /\ d \in peer.outgoing /\ m = Numbered(d, Len(sent) + 1)
    /\ t = tx[m.cid] /\ t.left = <<>> /\ fmt \in Allowed(t, m) /\ f = Field(t, m, fmt)
    /\ sent' = Append(sent, m)
    /\ PutChunk(m, Headers(m, fmt, f, TRUE), m.data, f)

LEMMA StartBegins == PeerStart => \E d, m, t, fmt, f : Begins(d, m, t, fmt, f)
<1> SUFFICES ASSUME PeerStart PROVE \E d, m, t, fmt, f : Begins(d, m, t, fmt, f)
    OBVIOUS
<1>1. PICK d \in peer.outgoing :
         /\ tx[Numbered(d, Len(sent) + 1).cid].left = <<>>
         /\ sent' = Append(sent, Numbered(d, Len(sent) + 1))
         /\ \E fmt \in Allowed(tx[Numbered(d, Len(sent) + 1).cid], Numbered(d, Len(sent) + 1)) :
               PutChunk(Numbered(d, Len(sent) + 1),
                        Headers(Numbered(d, Len(sent) + 1), fmt,
                                Field(tx[Numbered(d, Len(sent) + 1).cid],
                                      Numbered(d, Len(sent) + 1), fmt), TRUE),
                        Numbered(d, Len(sent) + 1).data,
                        Field(tx[Numbered(d, Len(sent) + 1).cid],
                              Numbered(d, Len(sent) + 1), fmt))
    BY DEF PeerStart
<1>2. PICK m, t : m = Numbered(d, Len(sent) + 1) /\ t = tx[m.cid]
    OBVIOUS
<1>3. PICK fmt \in Allowed(t, m) :
         PutChunk(m, Headers(m, fmt, Field(t, m, fmt), TRUE), m.data, Field(t, m, fmt))
    BY <1>1, <1>2
<1>4. PICK f : f = Field(t, m, fmt)
    OBVIOUS
<1>5. Begins(d, m, t, fmt, f)
    BY <1>1, <1>2, <1>3, <1>4 DEF Begins
<1> QED BY <1>5

\* The first chunk of a message.
LEMMA PeerStartInv ==
    ASSUME PeerInv, PeerStart, UNCHANGED readerOnly
    PROVE  PeerInv'
<1>1. /\ ReaderInv /\ PeerTyped /\ Len(sent) < MaxMessages /\ peer' = peer
      /\ MaxMessages \in Nat
    BY PeerAssumption DEF PeerInv, PeerStart
<1>2. PICK d, m, t, fmt, f : Begins(d, m, t, fmt, f)
    BY StartBegins
<1>3. PICK l, S : l = Len(sent) /\ S = sent'
    OBVIOUS
<1>4. /\ d \in peer.outgoing /\ m = Numbered(d, l + 1) /\ t = tx[m.cid] /\ t.left = <<>>
      /\ fmt \in Allowed(t, m) /\ f = Field(t, m, fmt) /\ S = Append(sent, m)
      /\ PutChunk(m, Headers(m, fmt, f, TRUE), m.data, f)
    BY <1>2, <1>3 DEF Begins
<1>5. /\ peer \in Peers /\ sent \in Seq(Sendable) /\ Meant(sent, peer) /\ DOMAIN tx = Cids
      /\ \A c \in Cids : TxTyped(tx[c])
    BY <1>1 DEF PeerTyped
<1>6. l \in Nat /\ l + 1 \in 1..MaxMessages
    BY <1>1, <1>3, <1>5
<1>7. m \in Sendable /\ m.cid \in Cids
    BY <1>4, <1>5, <1>6, NumberedSendable
<1>8. /\ S \in Seq(Sendable) /\ Len(S) = l + 1 /\ S[l + 1] = m
      /\ \A j \in 1..l : S[j] = sent[j]
    BY <1>3, <1>4, <1>5, <1>7
<1>9. \A j \in 1..Len(S) : j \in 1..l \/ j = l + 1
    BY <1>6, <1>8
<1>10. fmt \in 0..3 /\ f \in Nat /\ f < Raw
  <2>1. m.ts \in Nat /\ m.ts < Raw /\ TxTyped(t)
    BY <1>4, <1>5, <1>7, SendableType, WireAssumption
  <2>2. CASE fmt = 0 \/ t.fresh
    BY <1>4, <2>1, <2>2 DEF Field, Allowed
  <2>3. CASE ~(fmt = 0 \/ t.fresh)
    <3>1. f = m.ts - t.m.ts /\ f >= 0 /\ fmt \in 1..3
        BY <1>4, <2>3 DEF Field, Allowed, Delta
    <3>2. t.m \in Sendable
        BY <2>1, <2>3 DEF TxTyped
    <3>3. t.m.ts \in Nat
        BY <3>2, SendableType
    <3> QED BY <2>1, <3>1, <3>3, WireAssumption
  <2> QED BY <2>2, <2>3
<1>11. m.data \in Seq(DataToken)
    BY <1>7, SendableType
<1>12. /\ wire' \in Seq(Token) /\ peer_chunk_size' \in Nat
       /\ DOMAIN tx' = Cids /\ \A c \in Cids : TxTyped(tx'[c])
    BY <1>1, <1>4, <1>7, <1>10, <1>11, ChunkTyped
<1>13. ReaderInv'
    BY <1>1, <1>12, WireGrown DEF readerOnly
<1>14. PeerTyped'
  <2>1. Len(S) <= MaxMessages
    BY <1>6, <1>8
  <2>2. ASSUME NEW n \in 1..Len(S) PROVE \E e \in peer.outgoing : S[n] = Numbered(e, n)
    <3>1. CASE n \in 1..l
        BY <1>3, <1>5, <1>8, <3>1 DEF Meant
    <3>2. CASE n = l + 1
        BY <1>4, <1>8, <3>2
    <3> QED BY <1>9, <3>1, <3>2
  <2>3. Meant(S, peer)
    BY <2>2 DEF Meant
  <2> QED BY <1>1, <1>3, <1>5, <1>8, <1>12, <2>1, <2>3 DEF PeerTyped
<1>15. ASSUME Understood(peer) PROVE (\E A, K, C, q, R, D : Followed(A, K, C, q, R, D))'
  <2>1. PICK A, K, C, q, R, D : Followed(A, K, C, q, R, D)
    BY <1>15 DEF PeerInv
  <2>2. History(sent, A, K, C) /\ PeerAt(A[C + 1])
    BY <2>1 DEF Followed
  <2>3. History(S, A, K, C)
    BY <1>1, <1>3, <1>4, <1>7, <2>2, HistoryGrows
  <2>4. PICK a : a = A[C + 1]
    OBVIOUS
  <2>5. C \in Nat /\ C + 1 \in 1..(C + 1)
    BY <2>2 DEF History
  <2>6. StateRight(sent, a) /\ StateRight(S, a)
    BY <2>2, <2>3, <2>4, <2>5 DEF History
  <2>7. a.tx = tx /\ a.cs = peer_chunk_size /\ \A c \in Cids : Standing(sent, a, c)
    BY <2>2, <2>4 DEF PeerAt
  <2>8. PICK k : k = [n |-> l + 1, m |-> m, fmt |-> fmt, told |-> TRUE]
    OBVIOUS
  <2>9. k.n = l + 1 /\ k.m = m /\ k.fmt = fmt /\ k.told = TRUE
    BY <2>8
  <2>10. Of(a, k) = t /\ Starts(a, k)
    BY <1>4, <2>7, <2>9 DEF Of, Starts
  <2>11. a.done \subseteq 1..l /\ TxOK(t)
    BY <1>3, <1>4, <1>7, <2>6, <2>7 DEF StateRight
  <2>12. Open(S, a, l + 1)
    <3>1. ASSUME NEW j \in 1..Len(S), S[j].cid = S[l + 1].cid
          PROVE  j \in a.done <=> j < l + 1
      <4>1. CASE j \in 1..l
        <5>1. sent[j].cid = m.cid
            BY <1>8, <3>1, <4>1
        <5>2. Standing(sent, a, m.cid) /\ a.tx[m.cid].left = <<>>
            BY <1>4, <1>7, <2>7
        <5>3. j \in a.done
            BY <1>3, <4>1, <5>1, <5>2 DEF Standing
        <5> QED BY <1>6, <4>1, <5>3
      <4>2. CASE j = l + 1
          BY <1>6, <2>11, <4>2
      <4> QED BY <1>9, <4>1, <4>2
    <3> QED BY <3>1 DEF Open
  <2>13. RightFormat(t, m, fmt)
    BY <1>4, <1>7, <1>15, <2>11, AllowedRight
  <2>14. ChunkRight(S, a, k)
    <3>1. l + 1 \in 1..Len(S)
        BY <1>6, <1>8
    <3> QED BY <1>8, <2>9, <2>10, <2>12, <2>13, <3>1 DEF ChunkRight
  <2>15. ChunkParts(a, k)
    BY <1>8, <2>6, <2>14, ChunkPartsRight
  <2>16. From(a, k) = 0 /\ FieldOf(a, k) = f /\ Heading(a, k) = Headers(m, fmt, f, TRUE)
    BY <1>4, <2>9, <2>10 DEF From, FieldOf, Heading
  <2>17. m.data = Drop(m.data, 0)
    BY <1>11 DEF Drop
  <2>18. /\ wire' = wire \o Tokens(a, k) /\ tx' = After(a, k).tx
         /\ peer_chunk_size' = After(a, k).cs
    <3>1. wire \in Seq(Token)
        BY <1>1, ReaderNow
    <3>2. PutChunk(k.m, Heading(a, k), Drop(k.m.data, From(a, k)), FieldOf(a, k))
        BY <1>4, <2>9, <2>16, <2>17
    <3> QED BY <2>7, <2>15, <3>1, <3>2, ChunkPut
  <2>19. ASSUME NEW c \in Cids PROVE Standing(S, After(a, k), c)
    <3>1. ASSUME c # m.cid PROVE Standing(S, a, c)
      <4>1. Standing(sent, a, c)
          BY <2>7
      <4>2. S[l + 1].cid # c
          BY <1>8, <3>1
      <4>3. CASE a.tx[c].left = <<>>
        <5>1. \A j \in 1..Len(S) : S[j].cid = c => j \in a.done
            BY <1>3, <1>8, <1>9, <4>1, <4>2, <4>3 DEF Standing
        <5> QED BY <4>3, <5>1 DEF Standing
      <4>4. CASE a.tx[c].left # <<>>
        <5>1. PICK n \in 1..l :
                 /\ sent[n].cid = c /\ a.tx[c].m = sent[n] /\ Open(sent, a, n)
                 /\ \A j \in 1..l : sent[j].cid = c => j <= n
            BY <1>3, <4>1, <4>4 DEF Standing
        <5>2. n \in 1..Len(S) /\ S[n].cid = c /\ a.tx[c].m = S[n]
            BY <1>6, <1>8, <5>1
        <5>3. \A j \in 1..Len(S) : S[j].cid = c => j \in 1..l /\ sent[j].cid = c
            BY <1>8, <1>9, <4>2
        <5>4. Open(S, a, n)
            BY <1>3, <5>1, <5>2, <5>3 DEF Open
        <5>5. \A j \in 1..Len(S) : S[j].cid = c => j <= n
            BY <5>1, <5>3
        <5> QED BY <4>4, <5>2, <5>4, <5>5 DEF Standing
      <4> QED BY <4>3, <4>4
    <3>2. \A j \in 1..Len(S) : S[j].cid = k.m.cid => j <= k.n
        BY <1>6, <1>9, <2>9
    <3> QED BY <2>6, <2>9, <2>14, <2>15, <3>1, <3>2, StandsBehind
  <2>20. \E B, L : Followed(B, L, C + 1, q, R, D)'
    <3>1. \A j \in 1..Len(sent) : S[j] = sent[j]
        BY <1>3, <1>8
    <3> QED BY <1>1, <1>3, <2>1, <2>3, <2>4, <2>14, <2>18, <2>19, <3>1, ChunkFollowed
  <2> QED BY <2>20
<1> QED BY <1>1, <1>13, <1>14, <1>15 DEF PeerInv

\* The next chunk of an open message.
LEMMA PeerContinueInv ==
    ASSUME PeerInv, PeerContinue, UNCHANGED readerOnly
    PROVE  PeerInv'
<1>1. /\ ReaderInv /\ PeerTyped /\ peer' = peer /\ sent' = sent /\ MaxMessages \in Nat
    BY PeerAssumption DEF PeerInv, PeerContinue
<1>2. PICK c, t : /\ c \in Cids /\ t = tx[c] /\ t.left # <<>>
                  /\ PutChunk(t.m, Headers(t.m, 3, t.field, peer.repeats), t.left, t.field)
    BY DEF PeerContinue
<1>3. /\ peer \in Peers /\ sent \in Seq(Sendable) /\ Meant(sent, peer) /\ TxTyped(t)
      /\ Len(sent) <= MaxMessages
    BY <1>1, <1>2 DEF PeerTyped
<1>4. PICK m, f : m = t.m /\ f = t.field
    OBVIOUS
<1>5. ~t.fresh /\ m \in Sendable /\ t.left \in Seq(DataToken) /\ f \in 0..(Raw - 1)
    BY <1>2, <1>3, <1>4 DEF TxTyped
<1>6. f \in Nat /\ f < Raw /\ peer.repeats \in BOOLEAN
    BY <1>3, <1>5, WireAssumption, PeerAssumption DEF Make
<1>7. PutChunk(m, Headers(m, 3, f, peer.repeats), t.left, f)
    BY <1>2, <1>4
<1>8. /\ wire' \in Seq(Token) /\ peer_chunk_size' \in Nat
      /\ DOMAIN tx' = Cids /\ \A x \in Cids : TxTyped(tx'[x])
  <2>1. 3 \in 0..3
    OBVIOUS
  <2> QED BY <1>1, <1>5, <1>6, <1>7, <2>1, ChunkTyped
<1>9. ReaderInv'
    BY <1>1, <1>8, WireGrown DEF readerOnly
<1>10. PeerTyped'
    BY <1>1, <1>3, <1>8 DEF PeerTyped
<1>11. ASSUME Understood(peer) PROVE (\E A, K, C, q, R, D : Followed(A, K, C, q, R, D))'
  <2>1. PICK A, K, C, q, R, D : Followed(A, K, C, q, R, D)
    BY <1>11 DEF PeerInv
  <2>2. History(sent, A, K, C) /\ PeerAt(A[C + 1])
    BY <2>1 DEF Followed
  <2>3. PICK a : a = A[C + 1]
    OBVIOUS
  <2>4. C \in Nat /\ C + 1 \in 1..(C + 1)
    BY <2>2 DEF History
  <2>5. StateRight(sent, a)
    BY <2>2, <2>3, <2>4 DEF History
  <2>6. a.tx = tx /\ a.cs = peer_chunk_size /\ \A x \in Cids : Standing(sent, a, x)
    BY <2>2, <2>3 DEF PeerAt
  <2>7. Standing(sent, a, c) /\ a.tx[c] = t
    BY <1>2, <2>6
  <2>8. PICK n \in 1..Len(sent) :
           /\ sent[n].cid = c /\ t.m = sent[n] /\ Open(sent, a, n)
           /\ \A j \in 1..Len(sent) : sent[j].cid = c => j <= n
    BY <1>2, <2>7 DEF Standing
  <2>9. m = sent[n] /\ m.cid = c
    BY <1>4, <2>8
  <2>10. PICK k : k = [n |-> n, m |-> m, fmt |-> 3, told |-> peer.repeats]
    OBVIOUS
  <2>11. k.n = n /\ k.m = m /\ k.fmt = 3 /\ k.told = peer.repeats
    BY <2>10
  <2>12. Of(a, k) = t /\ ~Starts(a, k)
    BY <1>2, <2>7, <2>9, <2>11 DEF Of, Starts
  <2>13. TxOK(t)
    BY <1>2, <2>5, <2>7 DEF StateRight
  <2>14. k.told \/ (t.ext => Told(m))
    <3>1. ASSUME ~peer.repeats, t.ext PROVE Told(m)
      <4>1. f >= Extended /\ f = m.ts
          BY <1>4, <1>5, <2>13, <3>1 DEF TxOK
      <4>2. PICK d \in peer.outgoing : m = Numbered(d, n)
          BY <1>3, <2>9 DEF Meant
      <4>3. d.ts >= Extended
        <5>1. m.ts = d.ts
            BY <4>2 DEF Numbered
        <5> QED BY <4>1, <5>1
      <4>4. n \in 1..MaxMessages
        <5>1. Len(sent) \in Nat
            BY <1>3
        <5> QED BY <1>1, <1>3, <2>8, <5>1
      <4> QED BY <1>11, <3>1, <4>2, <4>3, <4>4 DEF Understood
    <3> QED BY <1>6, <2>11, <3>1
  <2>15. ChunkRight(sent, a, k)
    BY <1>4, <1>6, <2>8, <2>9, <2>11, <2>12, <2>14 DEF ChunkRight
  <2>16. ChunkParts(a, k)
    BY <1>3, <2>5, <2>15, ChunkPartsRight
  <2>17. /\ From(a, k) = Len(m.data) - Len(t.left) /\ FieldOf(a, k) = f
         /\ Heading(a, k) = Headers(m, 3, f, peer.repeats)
    BY <1>4, <2>11, <2>12 DEF From, FieldOf, Heading
  <2>18. t.left = Drop(m.data, From(a, k))
    BY <1>4, <1>5, <2>13, <2>17 DEF TxOK
  <2>19. /\ wire' = wire \o Tokens(a, k) /\ tx' = After(a, k).tx
         /\ peer_chunk_size' = After(a, k).cs
    <3>1. wire \in Seq(Token)
        BY <1>1, ReaderNow
    <3>2. PutChunk(k.m, Heading(a, k), Drop(k.m.data, From(a, k)), FieldOf(a, k))
        BY <1>7, <2>11, <2>17, <2>18
    <3> QED BY <2>6, <2>16, <3>1, <3>2, ChunkPut
  <2>20. ASSUME NEW x \in Cids PROVE Standing(sent, After(a, k), x)
    <3>1. \A j \in 1..Len(sent) : sent[j].cid = k.m.cid => j <= k.n
        BY <2>8, <2>9, <2>11
    <3> QED BY <2>5, <2>6, <2>15, <2>16, <3>1, StandsBehind
  <2>21. \E B, L : Followed(B, L, C + 1, q, R, D)'
    BY <1>1, <2>1, <2>2, <2>3, <2>15, <2>19, <2>20, ChunkFollowed
  <2> QED BY <2>21
<1> QED BY <1>1, <1>9, <1>10, <1>11 DEF PeerInv

----------------------------------------------------------------------------
(***************************************************************************)
(* The invariant.                                                          *)
(***************************************************************************)

\* No chunk is written and none is read.
LEMMA PeerInit == Init => PeerInv
<1> SUFFICES ASSUME Init PROVE PeerInv
    OBVIOUS
<1>1. ReaderInit /\ peer \in Peers /\ sent = <<>> /\ tx = [c \in Cids |-> Fresh]
      /\ peer_chunk_size = DefaultChunkSize
    BY DEF Init
<1>2. ReaderInv
    BY <1>1, InvInit
<1>3. \A c \in Cids : tx[c] = Fresh
    BY <1>1
<1>4. PeerTyped
  <2>1. sent \in Seq(Sendable) /\ Len(sent) = 0
    BY <1>1, EmptySeq
  <2>2. TxTyped(Fresh)
    BY DEF TxTyped, Fresh
  <2>3. Len(sent) <= MaxMessages
    BY <2>1, PeerAssumption
  <2>4. Meant(sent, peer)
    BY <2>1 DEF Meant
  <2> QED BY <1>1, <1>3, <2>1, <2>2, <2>3, <2>4, WireAssumption DEF PeerTyped
<1>5. PICK a, A : /\ a = [tx |-> tx, cs |-> DefaultChunkSize, done |-> {}, pos |-> 0]
                  /\ A = << a >>
    OBVIOUS
<1>6. a.tx = tx /\ a.cs = DefaultChunkSize /\ a.done = {} /\ a.pos = 0 /\ A[1] = a
    BY <1>5
<1>7. StateRight(sent, a)
  <2>1. TxOK(Fresh)
    BY DEF TxOK, Fresh
  <2> QED BY <1>1, <1>3, <1>6, <2>1, WireAssumption, PeerAssumption DEF StateRight
<1>8. History(sent, A, <<>>, 0)
  <2>1. 0 \in Nat /\ \A i \in 1..(0 + 1) : StateRight(sent, A[i])
    BY <1>6, <1>7
  <2>2. sent \in Seq(Sendable) /\ Len(sent) <= MaxMessages
    BY <1>4 DEF PeerTyped
  <2> QED BY <2>1, <2>2 DEF History
<1>9. PeerAt(A[0 + 1])
  <2>1. ASSUME NEW c \in Cids PROVE Standing(sent, a, c)
    <3>1. a.tx[c].left = <<>>
        BY <1>3, <1>6 DEF Fresh
    <3> QED BY <1>1, <3>1 DEF Standing
  <2> QED BY <1>1, <1>6, <2>1 DEF PeerAt
<1>10. InFlight(Stream, A, <<>>, 0, 1, 0)
  <2>1. Len(Stream) = 0
    BY <1>1 DEF Stream, ReaderInit
  <2> QED BY <1>6, <2>1 DEF InFlight
<1>11. ParsesAt(A, <<>>, 0, 1, 0)
  <2>1. ASSUME NEW c \in Cids PROVE Keeps(chunks[c], a.tx[c])
    <3>1. chunks[c] = NewChunk /\ a.tx[c] = Fresh
        BY <1>1, <1>3, <1>6 DEF ReaderInit
    <3>2. PICK x, t : x = NewChunk /\ t = Fresh
        OBVIOUS
    <3>3. x.fresh = TRUE /\ x.ts = 0 /\ x.sid = 0 /\ x.open = FALSE
        BY <3>2 DEF NewChunk
    <3>4. t.fresh = TRUE /\ t.left = <<>>
        BY <3>2 DEF Fresh
    <3>5. Knows(x, t)
        BY <3>3, <3>4 DEF Knows
    <3>6. Keeps(x, t)
        BY <3>3, <3>4, <3>5 DEF Keeps
    <3> QED BY <3>1, <3>2, <3>6
  <2>2. AtBasic(a, 0)
    BY <1>1, <1>6, <2>1 DEF ReaderInit, AtBasic, Shadows
  <2> QED BY <1>6, <2>2 DEF ParsesAt
<1>12. GaveTo(<<>>, A[1])
  <2>1. delivered = <<>> /\ pc = "basic" /\ in_chunk_size = DefaultChunkSize
    BY <1>1 DEF ReaderInit
  <2>2. Gave(sent, delivered, <<>>, {})
    BY <2>1 DEF Gave
  <2> QED BY <1>6, <2>1, <2>2 DEF GaveTo
<1>13. Followed(A, <<>>, 0, 1, 0, <<>>)
    BY <1>8, <1>9, <1>10, <1>11, <1>12 DEF Followed
<1> QED BY <1>2, <1>4, <1>13 DEF PeerInv

\* The reader goes on in the chunks of the peer.
LEMMA ReceiveFollowed ==
    ASSUME ReaderInv, ReaderInv', Receive, UNCHANGED peerVars,
           NEW A, NEW K, NEW C, NEW q, NEW R, NEW D, Followed(A, K, C, q, R, D)
    PROVE  \E r, T, E : Followed(A, K, C, r, T, E)'
<1>1. in_buffer' \in Seq(Token)
    BY DEF ReaderInv, ReaderTypeOK
<1>2. CASE SocketRead
    BY <1>2, SocketReadFollowed
<1>3. CASE ReadBasicHeader
    BY <1>1, <1>3, BasicFollowed
<1>4. CASE RejectChunkStart
    BY <1>4, NeverRejected
<1>5. CASE ReadMessageHeader
    BY <1>1, <1>5, HeaderFollowed
<1>6. CASE RejectLengthChange
    BY <1>6, LengthStays
<1>7. CASE ReadExtendedTimestamp
    BY <1>1, <1>7, ExtFollowed
<1>8. CASE IgnoreEmptyMessage
    BY <1>8, NeverEmpty
<1>9. CASE ReadMessagePayload
    BY <1>1, <1>9, PayloadFollowed
<1>10. CASE Desynchronize
    BY <1>10, NeverLost
<1>11. CASE OnRecvMessage
    BY <1>1, <1>11, HookFollowed
<1> QED BY <1>2, <1>3, <1>4, <1>5, <1>6, <1>7, <1>8, <1>9, <1>10, <1>11 DEF Receive

LEMMA PeerNext == PeerInv /\ [Next]_linkVars => PeerInv'
<1> SUFFICES ASSUME PeerInv, [Next]_linkVars PROVE PeerInv'
    OBVIOUS
<1>1. ReaderInv /\ PeerTyped
    BY DEF PeerInv
<1>2. CASE Reader
  <2>1. Receive /\ UNCHANGED peerVars
    BY <1>2 DEF Reader
  <2>2. ReaderInv'
    BY <1>1, <2>1, InvNext DEF ReaderNext
  <2>3. PeerTyped' /\ peer' = peer
    BY <1>1, <2>1 DEF PeerTyped, peerVars
  <2>4. ASSUME Understood(peer) PROVE (\E A, K, C, q, R, D : Followed(A, K, C, q, R, D))'
    <3>1. PICK A, K, C, q, R, D : Followed(A, K, C, q, R, D)
        BY <2>4 DEF PeerInv
    <3>2. \E r, T, E : Followed(A, K, C, r, T, E)'
        BY <1>1, <2>1, <2>2, <3>1, ReceiveFollowed
    <3> QED BY <3>2
  <2> QED BY <2>2, <2>3, <2>4 DEF PeerInv
<1>3. CASE PeerStart /\ UNCHANGED readerOnly
    BY <1>3, PeerStartInv
<1>4. CASE PeerContinue /\ UNCHANGED readerOnly
    BY <1>4, PeerContinueInv
<1>5. CASE UNCHANGED linkVars
  <2>1. ReaderInv'
    BY <1>1, <1>5, InvNext DEF linkVars
  <2>2. PeerTyped' /\ peer' = peer
    BY <1>1, <1>5 DEF PeerTyped, linkVars, peerVars
  <2>3. UNCHANGED readerVars /\ UNCHANGED peerVars
    BY <1>5 DEF linkVars
  <2>4. ASSUME Understood(peer) PROVE (\E A, K, C, q, R, D : Followed(A, K, C, q, R, D))'
    <3>1. PICK A, K, C, q, R, D : Followed(A, K, C, q, R, D)
        BY <2>4 DEF PeerInv
    <3>2. /\ History(sent, A, K, C) /\ PeerAt(A[C + 1]) /\ InFlight(Stream, A, K, C, q, R)
          /\ ParsesAt(A, K, C, q, R) /\ GaveTo(D, A[q])
        BY <3>1 DEF Followed
    <3>3. History(sent, A, K, C)' /\ PeerAt(A[C + 1])'
        BY <2>3, <3>2 DEF PeerAt, peerVars
    <3>4. InFlight(Stream, A, K, C, q, R)'
      <4>1. Stream' = Stream
          BY <2>3 DEF Stream, readerVars, stream
      <4> QED BY <3>2, <4>1
    <3>5. UNCHANGED <<chunks, cur, msg, pc, in_chunk_size, delivered>>
        BY <2>3 DEF readerVars, control
    <3>6. ParsesAt(A, K, C, q, R)'
        BY <3>2, <3>5
           DEF ParsesAt, AtBasic, AtHook, AtHeader, AtExt, AtPayload, Shadows, Others
    <3>7. GaveTo(D, A[q])'
        BY <2>3, <3>2, <3>5 DEF GaveTo, peerVars
    <3>8. Followed(A, K, C, q, R, D)'
        BY <3>3, <3>4, <3>6, <3>7 DEF Followed
    <3> QED BY <3>8
  <2> QED BY <2>1, <2>2, <2>4 DEF PeerInv
<1> QED BY <1>2, <1>3, <1>4, <1>5 DEF Next

\* The parser is always in a chunk the peer has written or behind the last one.
THEOREM PeerInvariant == Spec => []PeerInv
BY PeerInit, PeerNext, PTL DEF Spec

\* Nothing a peer of another make sends is refused or taken for something else, as
\* long as it sends no deltas above the extended timestamp and no payload looks like a
\* timestamp it leaves out.
THEOREM PeerFramed == Spec => [](Understood(peer) => Framing)
<1>1. PeerInv => (Understood(peer) => Framing)
  <2> SUFFICES ASSUME PeerInv, Understood(peer) PROVE Framing
    OBVIOUS
  <2>1. PICK A, K, C, q, R, D : ParsesAt(A, K, C, q, R)
    BY DEF PeerInv, Followed
  <2> QED BY <2>1 DEF ParsesAt, AtBasic, AtHook, AtHeader, AtExt, AtPayload, Framing
<1> QED BY <1>1, PeerInvariant, PTL

\* The messages of `in' were delivered in the order of those of `out'.
InOrder(in, out) ==
    \E origin \in [in -> out] :
       /\ \A i \in in : delivered[i] = Stamped(sent[origin[i]])
       /\ \A i, k \in in : i < k => origin[i] < origin[k]
       /\ \A i \in in, j \in out : j < origin[i] => \E k \in in : origin[k] = j

\* What was delivered of a stream are the first of its messages.
LEMMA DeliveredInOrder == PeerInv /\ Understood(peer) => StreamsInOrder
<1> SUFFICES ASSUME PeerInv, Understood(peer) PROVE StreamsInOrder
    OBVIOUS
<1>1. PICK A, K, C, q, R, D : Followed(A, K, C, q, R, D)
    BY DEF PeerInv
<1>2. PICK a : a = A[q]
    OBVIOUS
<1>3. History(sent, A, K, C) /\ GaveTo(D, a) /\ q \in 1..(C + 1)
    BY <1>1, <1>2 DEF Followed, InFlight
<1>4. sent \in Seq(Sendable) /\ delivered \in Seq(Message) /\ Len(delivered) \in Nat
    BY ReaderNow DEF PeerInv, PeerTyped
<1>5. /\ a.done \subseteq 1..Len(sent)
      /\ \A j \in a.done, i \in 1..Len(sent) :
            i < j /\ sent[i].cid = sent[j].cid => i \in a.done
    BY <1>2, <1>3, HistoryStates DEF StateRight
<1>6. PICK N : /\ Gave(sent, delivered, D, N) /\ N \subseteq a.done
               /\ \A j \in a.done \ N : \A i \in N : sent[i].cid = sent[j].cid => i < j
  <2>1. CASE pc # "hook"
    BY <1>3, <2>1 DEF GaveTo
  <2>2. CASE pc = "hook"
    <3>1. PICK n \in a.done : /\ Gave(sent, delivered, D, a.done \ {n})
                              /\ \A j \in a.done : sent[j].cid = sent[n].cid => j <= n
        BY <1>3, <2>2 DEF GaveTo
    <3>2. ASSUME NEW i \in a.done \ {n}, sent[i].cid = sent[n].cid PROVE i < n
      <4>1. i <= n /\ i # n /\ i \in Nat /\ n \in Nat
          BY <1>4, <1>5, <3>1, <3>2
      <4> QED BY <4>1
    <3> QED BY <3>1, <3>2
  <2> QED BY <2>1, <2>2
<1>7. PICK l : l = Len(delivered) /\ DOMAIN delivered = 1..l
    BY <1>4
<1>8. /\ \A i \in 1..l : D[i] \in N /\ delivered[i] = Stamped(sent[D[i]])
      /\ \A j \in N : \E i \in 1..l : D[i] = j
      /\ \A i, k \in 1..l : i < k /\ delivered[i].cid = delivered[k].cid => D[i] < D[k]
    BY <1>6, <1>7 DEF Gave
<1>9. ASSUME NEW i \in 1..l
      PROVE  D[i] \in 1..Len(sent) /\ D[i] \in a.done /\ delivered[i].cid = sent[D[i]].cid
  <2>1. D[i] \in a.done /\ D[i] \in 1..Len(sent) /\ delivered[i] = Stamped(sent[D[i]])
    BY <1>5, <1>6, <1>8, <1>9
  <2>2. sent[D[i]] \in Sendable
    BY <1>4, <2>1
  <2> QED BY <2>1, <2>2 DEF Stamped, Sendable
<1>10. ASSUME NEW c \in Cids,
              NEW in, in = {i \in DOMAIN delivered : delivered[i].cid = c},
              NEW out, out = {j \in DOMAIN sent : sent[j].cid = c}
       PROVE  InOrder(in, out)
  <2>1. \A i : i \in in <=> i \in 1..l /\ delivered[i].cid = c
    BY <1>7, <1>10
  <2>2. DOMAIN sent = 1..Len(sent)
    BY <1>4
  <2>3. \A j : j \in out <=> j \in 1..Len(sent) /\ sent[j].cid = c
    BY <1>10, <2>2
  <2>4. PICK origin : origin = [i \in in |-> D[i]]
    OBVIOUS
  <2>5. origin \in [in -> out]
    BY <1>9, <2>1, <2>3, <2>4
  <2>6. \A i \in in : delivered[i] = Stamped(sent[origin[i]])
    BY <1>8, <2>1, <2>4
  <2>7. \A i, k \in in : i < k => origin[i] < origin[k]
    BY <1>8, <2>1, <2>4
  <2>8. ASSUME NEW i \in in, NEW j \in out, j < origin[i]
        PROVE  \E k \in in : origin[k] = j
    <3>1. i \in 1..l /\ D[i] \in N /\ D[i] \in a.done /\ sent[D[i]].cid = c /\ origin[i] = D[i]
        BY <1>8, <1>9, <2>1, <2>4, <2>8
    <3>2. j \in 1..Len(sent) /\ sent[j].cid = c /\ D[i] \in 1..Len(sent)
        BY <1>9, <2>3, <2>8, <3>1
    <3>3. j \in a.done
        BY <1>5, <2>8, <3>1, <3>2
    <3>4. j \in N
      <4>1. ~(D[i] < j)
        <5>1. j \in Int /\ D[i] \in Int /\ j < D[i]
            BY <2>8, <3>1, <3>2
        <5> QED BY <5>1
      <4> QED BY <1>6, <3>1, <3>2, <3>3, <4>1
    <3>5. PICK k \in 1..l : D[k] = j
        BY <1>8, <3>4
    <3>6. k \in in
        BY <1>9, <2>1, <3>2, <3>5
    <3> QED BY <2>4, <3>5, <3>6
  <2> QED BY <2>5, <2>6, <2>7, <2>8 DEF InOrder
<1>11. ASSUME NEW c \in Cids
       PROVE  InOrder({i \in DOMAIN delivered : delivered[i].cid = c},
                      {j \in DOMAIN sent : sent[j].cid = c})
    BY <1>10
<1> QED BY <1>11 DEF StreamsInOrder, InOrder

\* On each chunk stream of such a peer the messages are delivered in the order they were
\* begun, entire and with their timestamps.
THEOREM PeerHeardInOrder == Spec => [](Understood(peer) => StreamsInOrder)
BY PeerInvariant, DeliveredInOrder, PTL

\* What the reader answers stays right, whatever the peer is.
LEMMA PeerAnswers == Spec => [](PeerInv /\ AnswersInv)
<1>1. Init => PeerInv /\ AnswersInv
    BY PeerInit, AnswersInit DEF Init
<1>2. PeerInv /\ AnswersInv /\ [Next]_linkVars => (PeerInv /\ AnswersInv)'
  <2> SUFFICES ASSUME PeerInv, AnswersInv, [Next]_linkVars PROVE AnswersInv'
    BY PeerNext
  <2>1. ReaderInv
    BY DEF PeerInv
  <2>2. CASE Reader
    BY <2>1, <2>2, ReceiveAnswers DEF Reader
  <2>3. CASE UNCHANGED readerOnly
    BY <2>1, <2>3, QuietAnswers DEF readerOnly, control
  <2>4. CASE UNCHANGED linkVars
    BY <2>1, <2>4, QuietAnswers DEF linkVars, readerVars
  <2> QED BY <2>2, <2>3, <2>4 DEF Next
<1> QED BY <1>1, <1>2, PTL DEF Spec

\* Each ping of a peer of any make is answered once and in order.
THEOREM PeerPingsAnswered == Spec => []PingsAnswered
<1>1. PeerInv => ReaderInv
    BY DEF PeerInv
<1> QED BY <1>1, PeerAnswers, AnswersAre, PTL

\* The acknowledgements a peer waits for advance and never run ahead.
THEOREM PeerAcksAdvance == Spec => []AcksAdvance
<1>1. PeerInv => ReaderInv
    BY DEF PeerInv
<1> QED BY <1>1, PeerAnswers, AnswersAre, PTL
=============================================================================
