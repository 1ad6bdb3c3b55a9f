---------------------------- MODULE BufferProofs ---------------------------
(***************************************************************************)
(* Proofs about the two buffers of SrsProtocol.                            *)
(*                                                                         *)
(* FastBuffer, for buffers, chunks and reads of every size: the parser     *)
(* sees the bytes of the stream, read() stays in the allocation, and a     *)
(* chunk of up to half the buffer always fits.                             *)
(*                                                                         *)
(* SendIovs, for every size of the header cache, of the array of iovecs    *)
(* and of a writev, and wherever the connection breaks: the headers        *)
(* described are in the cache until they are written, batches put on the   *)
(* wire what ChunkWriter does, and success is what it says but for the     *)
(* last call before a loss.  The invariant says that the pairs described   *)
(* follow one another and end where the description goes on, so that what  *)
(* the kernel has taken of them says by itself how far the message on the  *)
(* wire has come.                                                          *)
(***************************************************************************)
EXTENDS FastBuffer, SendIovs, SequenceTheorems, TLAPS

----------------------------------------------------------------------------
(* The bytes received. *)

\* The sizes the parser asks for are positive.
LEMMA SizesPositive ==
    ASSUME BufferInv
    PROVE  Sizes \subseteq Nat \ {0}
BY BufferAssumption DEF BufferInv, TypeOK, Sizes

\* The buffer as SrsFastBuffer is constructed.
LEMMA BufferInvInit == BufferInit => BufferInv
<1> SUFFICES ASSUME BufferInit PROVE BufferInv
    OBVIOUS
<1>1. TypeOK
    BY BufferAssumption DEF BufferInit, TypeOK
<1> QED BY <1>1, BufferAssumption
        DEF BufferInit, BufferInv, TypeOK, Existing, Contents, HalfFits, Live

\* A larger allocation keeps the bytes, and the space a grow() in progress knows
\* of is still there.
LEMMA SetBufferInv ==
    ASSUME BufferInv, NEW n \in BufferSizes, SetBuffer(n)
    PROVE  BufferInv'
<1>1. nb_buffer' \in DefaultSize..MaxSize /\ nb_buffer' >= nb_buffer
    BY BufferAssumption DEF SetBuffer, Resize, BufferInv, TypeOK
<1>2. TypeOK'
    BY <1>1 DEF SetBuffer, BufferInv, TypeOK
<1>3. Contents' /\ (Existing = Existing')
    BY DEF SetBuffer, BufferInv, Contents, Existing
<1>4. HalfFits'
    BY DEF SetBuffer, HalfFits, Live
<1> QED BY <1>1, <1>2, <1>3, <1>4, BufferAssumption DEF SetBuffer, BufferInv, TypeOK

\* Without a move nothing changes but the call.
LEMMA GrowInPlaceInv ==
    ASSUME BufferInv, NEW n \in Sizes, GrowInPlace(n)
    PROVE  BufferInv'
<1>1. n \in Nat \ {0}
    BY SizesPositive
<1>2. /\ p \in Nat /\ end \in Nat /\ nb_buffer \in Nat /\ end <= nb_buffer /\ p <= end
    BY BufferAssumption DEF BufferInv, TypeOK
<1>3. Existing < n => nb_buffer - end \in Nat /\ n <= nb_buffer - end
    BY <1>1, <1>2 DEF GrowInPlace, NeedsMove
<1>4. TypeOK'
    BY <1>1, <1>2, <1>3 DEF GrowInPlace, BufferInv, TypeOK, FreeSpace, Existing
<1>5. Contents' /\ Existing' = Existing
    BY DEF GrowInPlace, BufferInv, Contents, Existing
<1>6. call' = "growing" => /\ end' + space' <= nb_buffer'
                           /\ Existing' < size' /\ size' <= Existing' + space'
    BY <1>1, <1>2, <1>3, <1>5 DEF GrowInPlace, FreeSpace, Existing
<1>7. call' = "grown" => size' <= Existing'
    BY <1>1, <1>2, <1>5 DEF GrowInPlace, Existing
<1>8. HalfFits'
    BY DEF GrowInPlace, HalfFits, Live
<1> QED BY <1>2, <1>4, <1>5, <1>6, <1>7, <1>8 DEF GrowInPlace, BufferInv

\* The move brings the bytes to the start in their order; it makes room for any
\* request of up to half the buffer, because fewer bytes than requested are there.
LEMMA GrowByMoveInv ==
    ASSUME BufferInv, NEW n \in Sizes, GrowByMove(n)
    PROVE  BufferInv'
<1>1. n \in Nat \ {0}
    BY SizesPositive
<1>2. /\ p \in Nat /\ end \in Nat /\ nb_buffer \in Nat /\ nb_buffer <= MaxSize
      /\ MaxSize \in Nat
      /\ end <= nb_buffer /\ p <= end /\ buffer \in [Cells -> Nat]
    BY BufferAssumption DEF BufferInv, TypeOK
<1>3. Existing \in Nat /\ Existing < nb_buffer /\ Existing < n
    BY <1>2 DEF Existing, GrowByMove
<1>4. p' = 0 /\ end' = Existing /\ size' = n /\ nb_buffer' = nb_buffer
    BY DEF GrowByMove
<1>5. Existing' = Existing
    BY <1>3, <1>4 DEF Existing
<1>6. \A i \in Cells : i < Existing => p + i \in Cells
    BY <1>2, <1>3 DEF Existing, Cells
<1>7. buffer' \in [Cells -> Nat]
    BY <1>2, <1>6 DEF GrowByMove, Moved
<1>8. call' = "growing" => n <= nb_buffer - Existing /\ space' = nb_buffer - Existing
    BY <1>1, <1>2, <1>3 DEF GrowByMove, Overflows, FreeSpace
<1>9. TypeOK'
  <2>1. space' \in Nat
    BY <1>1, <1>2, <1>3, <1>8 DEF GrowByMove, Overflows, BufferInv, TypeOK
  <2> QED BY <1>1, <1>3, <1>4, <1>7, <2>1 DEF GrowByMove, BufferInv, TypeOK
<1>10. Contents'
  <2> SUFFICES ASSUME NEW i \in 0..(Existing - 1)
               PROVE  buffer'[i] = taken + 1 + i
    BY <1>3, <1>4, <1>5 DEF Contents, GrowByMove
  <2>1. i \in Cells /\ i < Existing
    BY <1>2, <1>3 DEF Cells
  <2>2. buffer'[i] = buffer[p + i]
    BY <2>1 DEF GrowByMove, Moved
  <2> QED BY <2>2 DEF BufferInv, Contents
<1>11. HalfFits'
    BY <1>1, <1>2, <1>3, <1>4 DEF GrowByMove, Overflows, HalfFits, Live
<1>12. call' = "growing" => /\ end' + space' <= nb_buffer'
                            /\ Existing' < size' /\ size' <= Existing' + space'
    BY <1>1, <1>2, <1>3, <1>4, <1>5, <1>8
<1>13. call' # "grown"
    BY DEF GrowByMove
<1>14. received' = taken' + Existing'
    BY <1>5 DEF GrowByMove, BufferInv
<1>15. p' <= end' /\ end' <= nb_buffer'
    BY <1>2, <1>3, <1>4
<1> QED BY <1>9, <1>10, <1>11, <1>12, <1>13, <1>14, <1>15 DEF BufferInv

\* The assertion can only fail for a request larger than the buffer.
LEMMA GrowAbortsInv ==
    ASSUME BufferInv, NEW n \in Sizes, GrowAborts(n)
    PROVE  BufferInv'
<1>1. n \in Nat \ {0}
    BY SizesPositive
<1>2. p \in Nat /\ end \in Nat /\ nb_buffer \in Nat /\ Existing >= nb_buffer /\ Existing < n
    BY BufferAssumption DEF GrowAborts, BufferInv, TypeOK
<1>3. 2 * n > nb_buffer
    BY <1>1, <1>2 DEF Existing
<1>4. TypeOK'
    BY <1>1 DEF GrowAborts, BufferInv, TypeOK
<1>5. Contents' /\ Existing' = Existing
    BY DEF GrowAborts, BufferInv, Contents, Existing
<1> QED BY <1>3, <1>4, <1>5 DEF GrowAborts, BufferInv, HalfFits, Live

\* What read() brings follows what is there.
LEMMA ReadInv ==
    ASSUME BufferInv, NEW k \in 1..space, Read(k)
    PROVE  BufferInv'
<1>1. /\ p \in Nat /\ end \in Nat /\ nb_buffer \in Nat /\ nb_buffer <= MaxSize
      /\ MaxSize \in Nat /\ space \in Nat /\ size \in Nat
      /\ taken \in Nat /\ received \in Nat /\ buffer \in [Cells -> Nat]
      /\ end + space <= nb_buffer /\ p <= end /\ received = taken + (end - p)
      /\ size <= (end - p) + space
    BY BufferAssumption DEF BufferInv, TypeOK, Read, Existing
<1>2. k \in Nat /\ k >= 1 /\ k <= space
    BY <1>1
<1>3. /\ end' = end + k /\ received' = received + k /\ space' = space - k
      /\ p' = p /\ taken' = taken /\ size' = size /\ nb_buffer' = nb_buffer
    BY DEF Read
<1>4. Existing' = Existing + k
    BY <1>1, <1>2, <1>3 DEF Existing
<1>5. \A i \in Cells : buffer'[i] = IF i \in end..(end + k - 1)
                                    THEN received + 1 + (i - end) ELSE buffer[i]
    BY DEF Read
<1>6. buffer' \in [Cells -> Nat]
  <2>1. \A i \in end..(end + k - 1) : received + 1 + (i - end) \in Nat
    BY <1>1, <1>2
  <2> QED BY <1>1, <2>1 DEF Read
<1>7. TypeOK'
    BY <1>1, <1>2, <1>3, <1>6 DEF Read, BufferInv, TypeOK
<1>8. Contents'
  <2> SUFFICES ASSUME NEW i \in 0..(Existing' - 1)
               PROVE  buffer'[p + i] = taken + 1 + i
    BY <1>3 DEF Contents
  <2>1. i \in Nat /\ i < (end - p) + k /\ p + i \in Cells
    BY <1>1, <1>2, <1>4 DEF Existing, Cells
  <2>2. CASE i < end - p
    <3>1. p + i \notin end..(end + k - 1) /\ i \in 0..(Existing - 1)
        BY <1>1, <2>1, <2>2 DEF Existing
    <3> QED BY <1>5, <2>1, <3>1 DEF BufferInv, Contents
  <2>3. CASE i >= end - p
    <3>1. p + i \in end..(end + k - 1)
        BY <1>1, <1>2, <2>1, <2>3
    <3>2. buffer'[p + i] = received + 1 + ((p + i) - end)
        BY <1>5, <2>1, <3>1
    <3> QED BY <1>1, <2>1, <3>2
  <2> QED BY <1>1, <2>1, <2>2, <2>3
<1>9. HalfFits'
    BY DEF Read, HalfFits, Live
<1>10. call' = "growing" => /\ end' + space' <= nb_buffer'
                            /\ Existing' < size' /\ size' <= Existing' + space'
    BY <1>1, <1>2, <1>3, <1>4 DEF Read, Existing
<1>11. call' = "grown" => size' <= Existing'
    BY <1>1, <1>2, <1>3, <1>4 DEF Read, Existing
<1>12. p' <= end' /\ end' <= nb_buffer' /\ received' = taken' + Existing'
    BY <1>1, <1>2, <1>3, <1>4 DEF Existing
<1> QED BY <1>7, <1>8, <1>9, <1>10, <1>11, <1>12 DEF BufferInv

\* A failed read() leaves the bytes it did not bring alone.
LEMMA ReadFailsInv ==
    ASSUME BufferInv, ReadFails
    PROVE  BufferInv'
<1>1. TypeOK'
    BY DEF ReadFails, BufferInv, TypeOK
<1>2. Contents' /\ Existing' = Existing
    BY DEF ReadFails, BufferInv, Contents, Existing
<1> QED BY <1>1, <1>2 DEF ReadFails, BufferInv, HalfFits, Live

\* A slice takes the bytes from the front.
LEMMA ReadSliceInv ==
    ASSUME BufferInv, ReadSlice
    PROVE  BufferInv'
<1>1. /\ p \in Nat /\ end \in Nat /\ size \in Nat /\ taken \in Nat /\ received \in Nat
      /\ p <= end /\ received = taken + (end - p) /\ size <= end - p
    BY DEF BufferInv, TypeOK, ReadSlice, Existing
<1>2. /\ p' = p + size /\ taken' = taken + size /\ end' = end /\ buffer' = buffer
      /\ received' = received /\ call' = "idle" /\ nb_buffer' = nb_buffer
    BY DEF ReadSlice
<1>3. Existing' = Existing - size
    BY <1>1, <1>2 DEF Existing
<1>4. TypeOK'
  <2>1. stage' \in {"header", "ext", "payload"}
    BY DEF ReadSlice, After, BufferInv, TypeOK
  <2> QED BY <1>1, <1>2, <2>1 DEF ReadSlice, BufferInv, TypeOK
<1>5. Contents'
  <2> SUFFICES ASSUME NEW i \in 0..(Existing' - 1)
               PROVE  buffer[p + size + i] = taken + size + 1 + i
    BY <1>2 DEF Contents
  <2>1. i \in Nat /\ size + i \in 0..(Existing - 1)
    BY <1>1, <1>3 DEF Existing
  <2>2. buffer[p + (size + i)] = taken + 1 + (size + i)
    BY <2>1 DEF BufferInv, Contents
  <2>3. p + size + i = p + (size + i) /\ taken + size + 1 + i = taken + 1 + (size + i)
    BY <1>1, <2>1
  <2> QED BY <2>2, <2>3
<1>6. p' <= end' /\ end' <= nb_buffer' /\ received' = taken' + Existing'
    BY <1>1, <1>2, <1>3 DEF BufferInv, Existing
<1> QED BY <1>2, <1>4, <1>5, <1>6 DEF BufferInv, HalfFits, Live

\* Given back, the extended timestamp is there as it was.
LEMMA GiveBackInv ==
    ASSUME BufferInv, GiveBack
    PROVE  BufferInv'
<1>1. TypeOK'
    BY DEF GiveBack, BufferInv, TypeOK
<1>2. Contents' /\ Existing' = Existing
    BY DEF GiveBack, BufferInv, Contents, Existing
<1> QED BY <1>1, <1>2 DEF GiveBack, BufferInv, HalfFits, Live

\* Every call of the parser, every read and every new size keeps the invariant.
LEMMA BufferInvNext == BufferInv /\ [BufferNext]_bufferVars => BufferInv'
<1> SUFFICES ASSUME BufferInv, [BufferNext]_bufferVars PROVE BufferInv'
    OBVIOUS
<1>1. CASE \E n \in BufferSizes : SetBuffer(n)
    BY <1>1, SetBufferInv
<1>2. CASE Grow
    BY <1>2, GrowInPlaceInv, GrowByMoveInv, GrowAbortsInv DEF Grow
<1>3. CASE \E k \in 1..space : Read(k)
    BY <1>3, ReadInv
<1>4. CASE ReadFails
    BY <1>4, ReadFailsInv
<1>5. CASE ReadSlice
    BY <1>5, ReadSliceInv
<1>6. CASE GiveBack
    BY <1>6, GiveBackInv
<1>7. CASE UNCHANGED bufferVars
    BY <1>7 DEF bufferVars, BufferInv, TypeOK, Contents, Existing, HalfFits, Live
<1> QED BY <1>1, <1>2, <1>3, <1>4, <1>5, <1>6, <1>7 DEF BufferNext

\* The invariant of the buffer holds for every sequence of calls and reads.
THEOREM BufferInvariant == BufferSpec => []BufferInv
BY BufferInvInit, BufferInvNext, PTL DEF BufferSpec

\* SrsFastBuffer hands its parser the bytes of the socket, each once and in order.
THEOREM ParserSeesTheStream == BufferSpec => []Contents
<1>1. BufferInv => Contents
    BY DEF BufferInv
<1> QED BY <1>1, BufferInvariant, PTL

\* read() is always given room, and never room outside the allocation.
THEOREM ReadStaysInside == BufferSpec => []ReadFits
<1>1. BufferInv => ReadFits
  <2> SUFFICES ASSUME BufferInv, call = "growing"
               PROVE  space > 0 /\ end + space <= nb_buffer
    BY DEF ReadFits
  <2>1. space \in Nat /\ size \in Nat /\ Existing \in Int
    BY DEF BufferInv, TypeOK, Existing
  <2> QED BY <2>1 DEF BufferInv
<1> QED BY <1>1, BufferInvariant, PTL

\* A request of up to half the buffer, so every chunk of a size the protocol
\* allows, neither overflows the buffer nor fails the assertion of grow().
THEOREM HalfAlwaysFits == BufferSpec => []HalfFits
<1>1. BufferInv => HalfFits
    BY DEF BufferInv
<1> QED BY <1>1, BufferInvariant, PTL

----------------------------------------------------------------------------
(* The messages sent. *)

Sendable ==
    {m \in [cid : Cids, type : Types \ {"SetChunkSize"}, sid : Sids, ts : 0..(Raw - 1),
            data : Seq(DataToken)] : Len(m.data) \in 1..MaxLength}

Pair == [msg : Nat \ {0}, from : Nat, len : Nat \ {0}, place : Nat]

\* Places in what is sent: where a chunk starts, or where the next message will.
Position == [msg : Nat \ {0}, p : Nat]
PositionOK(at) ==
    /\ at \in Position
    /\ \/ at.msg <= Len(sent) /\ at.p < Len(sent[at.msg].data)
       \/ at.msg = Len(sent) + 1 /\ at.p = 0

PairOK(pair) ==
    /\ pair \in Pair /\ pair.msg <= Len(sent)
    /\ pair.from < Len(sent[pair.msg].data)
    /\ pair.len = Smaller(DefaultChunkSize, Len(sent[pair.msg].data) - pair.from)

Start(pair) == [msg |-> pair.msg, p |-> pair.from]
Behind(pair) == IF pair.from + pair.len = Len(sent[pair.msg].data)
                THEN [msg |-> pair.msg + 1, p |-> 0]
                ELSE [msg |-> pair.msg, p |-> pair.from + pair.len]

\* Where pair k starts, or where the description goes on.
At(k) == IF k <= Len(out_iovs) THEN Start(out_iovs[k]) ELSE pos

\* The payload from a place on.
Rest(at) == SubSeq(sent[at.msg].data, at.p + 1, Len(sent[at.msg].data))

\* The messages are those of the caller, numbered.
SentOK ==
    /\ sent \in Seq(Sendable) /\ Len(sent) <= MaxMessages
    /\ \A i \in 1..Len(sent) : \E m \in Outgoing : sent[i] = Writer!Numbered(m, i)

\* Each pair is a chunk, and the next one is the chunk behind it.
PairsOK ==
    /\ out_iovs \in Seq(Pair) /\ PositionOK(pos)
    /\ \A k \in 1..Len(out_iovs) :
          PairOK(out_iovs[k]) /\ At(k + 1) = Behind(out_iovs[k])

\* The header of a pair is in the cache, below the place of the next header.
Held(pair) ==
    /\ pair.place \in DOMAIN cache
    /\ cache[pair.place] = Header(sent[pair.msg], pair.from)
    /\ pair.place + Len(cache[pair.place]) <= cache_index

Entry(o) == o \in Nat /\ Len(cache[o]) \in Nat /\ o + Len(cache[o]) <= HeadersMax

CacheOK ==
    /\ cache_index \in Nat /\ nb_out_iovs \in Nat /\ IovIndex <= nb_out_iovs
    /\ \A o \in DOMAIN cache : Entry(o)
    /\ \A k \in 1..Len(out_iovs) : 2 * k - 1 > writev.taken => Held(out_iovs[k])

Unstarted == writev = [from |-> 0, taken |-> 0]

NoError == rets # <<>> => rets[Len(rets)].ret = "success"

\* What each place of the call finds.
PcOK ==
    /\ pc \in {"idle", "describe", "write"}
    /\ writev \in [from : Nat, taken : Nat]
    /\ writev.from <= writev.taken /\ writev.taken <= GroupEnd
    /\ pc = "describe" => /\ Unstarted /\ pos.msg <= Len(sent)
                          /\ HeadersMax - cache_index >= MaxFmt0
    /\ pc = "write" => out_iovs # <<>>
    /\ pc = "idle" /\ NoError => /\ Unstarted /\ out_iovs = <<>> /\ cache_index = 0
                                 /\ pos = [msg |-> Len(sent) + 1, p |-> 0]

\* The wire without a header whose payload is still to come.
Before == SubSeq(wire, 1, Len(wire) - Len(out.header))

\* Tokens of a byte of payload, its own and at most those of a header.
Weight == 1 + MaxFmt0

WireOK ==
    /\ wire \in Seq(Token)
    /\ out \in [n : Nat, left : Seq(Token), header : Seq(Token)] /\ out.n <= Len(sent)
    /\ Len(out.header) <= Len(wire) /\ wire = Before \o out.header
    /\ Len(Before) + Len(out.left) * Weight <= out.n * (MaxLength * Weight)

\* The message on the wire has come to the chunk at `at', before its header or
\* behind it.
Between(at) ==
    /\ out.header = <<>>
    /\ IF at.p = 0 THEN out.n = at.msg - 1 /\ out.left = <<>>
       ELSE out.n = at.msg /\ out.left = Rest(at)
Inside(at) ==
    out.header = Header(sent[at.msg], at.p) /\ out.n = at.msg /\ out.left = Rest(at)

\* As long as the connection holds, that is where the kernel is.
ProgressOK ==
    LET at == At(writev.taken \div 2 + 1)
    IN  ~broken => IF writev.taken % 2 = 0 THEN Between(at) ELSE Inside(at)

Ret == [ret : {"success", "error"}, upto : Nat]

\* Success is true, or that of the last call, which nothing was taken since.
Lost(i) ==
    /\ broken /\ Unstarted
    /\ \A j \in 1..Len(rets) : j > i => rets[j].ret # "success"

RetsOK ==
    /\ rets \in Seq(Ret)
    /\ \A i \in 1..Len(rets) : /\ rets[i].upto <= Len(sent)
                               /\ rets[i].ret = "success" => Written(rets[i].upto) \/ Lost(i)

IovsInv ==
    /\ SentOK /\ PairsOK /\ CacheOK /\ PcOK
    /\ WireOK /\ ProgressOK /\ RetsOK
    /\ broken \in BOOLEAN

(***************************************************************************)
(* Numbers and sequences.                                                  *)
(***************************************************************************)

\* Iovecs come in pairs: the tth but one is the header of its pair or the payload.
LEMMA Halves ==
    ASSUME NEW t \in Nat, NEW n \in Nat, t < 2 * n
    PROVE  /\ t \div 2 + 1 \in 1..n
           /\ t % 2 = 0 => /\ (t + 1) \div 2 = t \div 2 /\ (t + 1) % 2 = 1
                           /\ 2 * (t \div 2 + 1) - 1 > t
           /\ t % 2 # 0 => (t + 1) \div 2 = t \div 2 + 1 /\ (t + 1) % 2 = 0
OBVIOUS

\* The first k elements of a sequence, and those behind them.
LEMMA Prefix ==
    ASSUME NEW S, NEW s \in Seq(S), NEW k \in Nat, k <= Len(s)
    PROVE  /\ SubSeq(s, 1, k) \in Seq(S) /\ Len(SubSeq(s, 1, k)) = k
           /\ \A i \in 1..k : SubSeq(s, 1, k)[i] = s[i]
OBVIOUS

LEMMA Suffix ==
    ASSUME NEW S, NEW s \in Seq(S), NEW k \in Nat, k <= Len(s)
    PROVE  /\ SubSeq(s, k + 1, Len(s)) \in Seq(S)
           /\ Len(SubSeq(s, k + 1, Len(s))) = Len(s) - k
           /\ \A i \in 1..(Len(s) - k) : SubSeq(s, k + 1, Len(s))[i] = s[i + k]
OBVIOUS

\* Two sequences one behind the other, element by element.
LEMMA ConcatElements ==
    ASSUME NEW S, NEW s \in Seq(S), NEW t \in Seq(S)
    PROVE  /\ s \o t \in Seq(S) /\ Len(s \o t) = Len(s) + Len(t)
           /\ Len(s) \in Nat /\ Len(t) \in Nat
           /\ \A i \in 1..Len(s) : (s \o t)[i] = s[i]
           /\ \A i \in 1..Len(t) : (s \o t)[Len(s) + i] = t[i]
OBVIOUS

\* What is put behind a sequence can be taken off again.
LEMMA Unappended ==
    ASSUME NEW S, NEW s \in Seq(S), NEW t \in Seq(S)
    PROVE  /\ SubSeq(s \o t, 1, Len(s \o t) - Len(t)) = s
           /\ \A k \in 0..Len(s) : SubSeq(s \o t, 1, k) = SubSeq(s, 1, k)
OBVIOUS

\* One more of the first elements.
LEMMA OneLonger ==
    ASSUME NEW S, NEW s \in Seq(S), NEW k \in Nat, k + 1 <= Len(s)
    PROVE  SubSeq(s, 1, k + 1) = Append(SubSeq(s, 1, k), s[k + 1])
OBVIOUS

LEMMA WholePrefix ==
    ASSUME NEW S, NEW s \in Seq(S)
    PROVE  SubSeq(s, 1, Len(s)) = s
OBVIOUS

\* The first n of the elements behind the first k, and the others.
LEMMA Cut ==
    ASSUME NEW S, NEW s \in Seq(S), NEW k \in Nat, NEW n \in Nat, k + n <= Len(s)
    PROVE  /\ SubSeq(SubSeq(s, k + 1, Len(s)), 1, n) = SubSeq(s, k + 1, k + n)
           /\ SubSeq(SubSeq(s, k + 1, Len(s)), n + 1, Len(SubSeq(s, k + 1, Len(s))))
                 = SubSeq(s, (k + n) + 1, Len(s))
<1>1. PICK r : r = SubSeq(s, k + 1, Len(s))
    OBVIOUS
<1>2. /\ r \in Seq(S) /\ Len(r) = Len(s) - k
      /\ \A i \in 1..(Len(s) - k) : r[i] = s[i + k]
    BY <1>1, Suffix
<1>3. SubSeq(r, 1, n) = SubSeq(s, k + 1, k + n)
    BY <1>2
<1>4. SubSeq(r, n + 1, Len(r)) = SubSeq(s, (k + n) + 1, Len(s))
  <2>0. PICK j : j = Len(r) - n
    OBVIOUS
  <2>1. j \in Nat /\ j = Len(r) - n /\ Len(r) \in Nat
    BY <1>2, <2>0
  <2>2. PICK u : u = SubSeq(r, n + 1, Len(r))
    OBVIOUS
  <2>3. PICK v : v = SubSeq(s, (k + n) + 1, Len(s))
    OBVIOUS
  <2>4. /\ u \in Seq(S) /\ Len(u) = j
        /\ \A i \in 1..j : u[i] = r[i + n]
    <3>1. n \in Nat /\ n <= Len(r) /\ r \in Seq(S)
      BY <1>2
    <3> QED BY <2>1, <2>2, <3>1, Suffix
  <2>5. /\ v \in Seq(S) /\ Len(v) = j
        /\ \A i \in 1..j : v[i] = s[i + (k + n)]
    BY <1>2, <2>1, <2>3, Suffix
  <2>6. ASSUME NEW i \in 1..j PROVE u[i] = v[i]
    <3>1. i + n \in 1..Len(r) /\ (i + n) + k = i + (k + n)
        BY <1>2, <2>1
    <3>2. r[i + n] = s[(i + n) + k]
        BY <1>2, <3>1
    <3> QED BY <2>4, <2>5, <3>1, <3>2
  <2>7. u = v
    BY <2>4, <2>5, <2>6, SeqEqual
  <2> QED BY <2>2, <2>3, <2>7
<1> QED BY <1>1, <1>3, <1>4

LEMMA ThreeParts ==
    ASSUME NEW s \in Seq(Token), NEW t \in Seq(Token), NEW u \in Seq(Token)
    PROVE  (s \o t) \o u = s \o (t \o u)
BY ConcatAssociative

\* A chunk of c bytes of payload with a header is no more than they may weigh.
LEMMA Weighed ==
    ASSUME NEW c \in Nat \ {0}, NEW l \in Nat, c <= l, NEW h \in Nat, h <= MaxFmt0,
           MaxFmt0 \in Nat
    PROVE  h + c + (l - c) * Weight <= l * Weight
<1>1. Weight \in Nat /\ Weight = 1 + MaxFmt0
    BY DEF Weight
<1>2. (l - c) * Weight = l * Weight - c * Weight
    BY <1>1
<1>3. c * Weight = c + c * MaxFmt0
    BY <1>1
<1>4. c * MaxFmt0 >= MaxFmt0
    OBVIOUS
<1>5. l * Weight \in Int /\ c * Weight \in Int /\ c * MaxFmt0 \in Int
    BY <1>1
<1> HIDE DEF Weight
<1> QED BY <1>2, <1>3, <1>4, <1>5

\* One more message may weigh as much as any.
LEMMA WeighedMore ==
    ASSUME NEW n \in Nat, NEW l \in Nat, l <= MaxLength, MaxLength \in Nat, MaxFmt0 \in Nat
    PROVE  /\ n * (MaxLength * Weight) + l * Weight <= (n + 1) * (MaxLength * Weight)
           /\ n * (MaxLength * Weight) \in Nat
<1> DEFINE W == MaxLength * Weight
<1>1. Weight \in Nat
    BY DEF Weight
<1>2. l * Weight <= W /\ W \in Nat /\ l * Weight \in Nat
    BY <1>1
<1> HIDE DEF W
<1>3. (n + 1) * W = n * W + W /\ n * W \in Nat
    BY <1>2
<1>4. n * W + l * Weight <= (n + 1) * W /\ n * W \in Nat
    BY <1>2, <1>3
<1> QED BY <1>4 DEF W

(***************************************************************************)
(* Messages and headers.                                                   *)
(***************************************************************************)

LEMMA Constants ==
    /\ ExtWidth \in Nat \ {0} /\ MaxFmt0 \in Nat /\ MaxFmt0 = 2 + ExtWidth
    /\ MaxLength \in Nat /\ DefaultChunkSize \in Nat \ {0} /\ HeadersMax \in Nat
    /\ HeadersMax >= MaxFmt0 /\ IovsMax \in Nat /\ IovsMax >= 2 /\ IovLimit \in Nat \ {0}
    /\ MaxMessages \in Nat
BY WireAssumption, SendAssumption

\* What a call sends is a message with a payload.
LEMMA NumberedType ==
    ASSUME NEW m \in Outgoing, NEW n \in 1..MaxMessages
    PROVE  Writer!Numbered(m, n) \in Sendable
<1>1. /\ m.cid \in Cids /\ m.type \in Types \ {"SetChunkSize"} /\ m.sid \in Sids
      /\ m.ts \in 0..(Raw - 1) /\ m.size \in 1..MaxLength
    BY OutgoingAssumption
<1>2. \A i \in 1..m.size :
         [k |-> "data", byte |-> [msg |-> n, i |-> i, value |-> m.value]] \in DataToken
    BY OutgoingAssumption
<1> DEFINE data == [i \in 1..m.size |->
                      [k |-> "data", byte |-> [msg |-> n, i |-> i, value |-> m.value]]]
<1>3. data \in Seq(DataToken) /\ Len(data) = m.size
    BY <1>1, <1>2, WireAssumption
<1> HIDE DEF data
<1>4. [cid |-> m.cid, type |-> m.type, sid |-> m.sid, ts |-> m.ts, data |-> data] \in Sendable
    BY <1>1, <1>3 DEF Sendable
<1>5. Writer!Numbered(m, n)
         = [cid |-> m.cid, type |-> m.type, sid |-> m.sid, ts |-> m.ts, data |-> data]
    BY DEF Writer!Numbered, data
<1> QED BY <1>4, <1>5

LEMMA ExtFieldType ==
    ASSUME NEW t \in 0..(Raw - 1)
    PROVE  ExtField(t) \in Seq(Token) /\ Len(ExtField(t)) = ExtWidth
<1>1. \A i \in 1..ExtWidth : [k |-> "ext", ts |-> t, i |-> i] \in Token
    BY DEF Token, ExtToken
<1> QED BY <1>1, WireAssumption DEF ExtField

\* A header takes at least a byte of the cache and at most what is asked for.
LEMMA HeaderType ==
    ASSUME NEW m \in Sendable, NEW done
    PROVE  /\ Header(m, done) \in Seq(Token) /\ Len(Header(m, done)) \in 1..MaxFmt0
           /\ done # 0 => Len(Header(m, done)) <= 1 + ExtWidth
<1> DEFINE b0 == [k |-> "basic", fmt |-> 0, cid |-> m.cid]
           b3 == [k |-> "basic", fmt |-> 3, cid |-> m.cid]
           h == [k |-> "head", ts |-> Smaller(m.ts, Extended),
                 len |-> Len(m.data), type |-> m.type, sid |-> m.sid]
           e == IF m.ts >= Extended THEN ExtField(m.ts) ELSE <<>>
<1>1. b0 \in Token /\ b3 \in Token
    BY DEF Sendable, Token, BasicHeader
<1>2. h \in Token
  <2>1. Smaller(m.ts, Extended) \in 0..Extended
    BY WireAssumption DEF Sendable, Smaller
  <2> QED BY <2>1 DEF Sendable, Token, MessageHeader
<1>3. e \in Seq(Token) /\ Len(e) \in 0..ExtWidth
  <2>1. m.ts \in 0..(Raw - 1)
    BY DEF Sendable
  <2>2. ExtField(m.ts) \in Seq(Token) /\ Len(ExtField(m.ts)) = ExtWidth
    BY <2>1, ExtFieldType
  <2>3. CASE m.ts >= Extended
    BY <2>2, <2>3, Constants
  <2>4. CASE ~(m.ts >= Extended)
    <3>1. e = <<>>
        BY <2>4
    <3>2. <<>> \in Seq(Token) /\ Len(<<>>) = 0
        OBVIOUS
    <3> HIDE DEF e
    <3> QED BY <3>1, <3>2, Constants
  <2> QED BY <2>3, <2>4
<1>4. /\ Writer!HeaderC0(m) = <<b0, h>> \o e
      /\ Writer!HeaderC3(m) = <<b3>> \o e
    BY DEF Writer!HeaderC0, Writer!HeaderC3, Writer!Smaller, Smaller,
           Writer!ExtField, ExtField
<1> HIDE DEF b0, b3, h, e
<1>5. <<b0, h>> \in Seq(Token) /\ <<b3>> \in Seq(Token)
    BY <1>1, <1>2
<1>6. <<b0, h>> \o e \in Seq(Token) /\ Len(<<b0, h>> \o e) = 2 + Len(e)
    BY <1>3, <1>5
<1>7. <<b3>> \o e \in Seq(Token) /\ Len(<<b3>> \o e) = 1 + Len(e)
    BY <1>3, <1>5
<1>8. CASE done = 0
    BY <1>3, <1>4, <1>6, <1>8, Constants DEF Header
<1>9. CASE done # 0
    BY <1>3, <1>4, <1>7, <1>9, Constants DEF Header
<1> QED BY <1>8, <1>9

\* The messages sent, by their number.
LEMMA MessageType ==
    ASSUME SentOK, NEW n \in Nat \ {0}, n <= Len(sent)
    PROVE  /\ sent[n] \in Sendable /\ sent[n].data \in Seq(Token)
           /\ Len(sent[n].data) \in 1..MaxLength /\ Len(sent[n].data) \in Nat \ {0}
           /\ sent[n].type # "SetChunkSize"
<1>1. sent \in Seq(Sendable) /\ n \in 1..Len(sent)
    BY DEF SentOK
<1>2. sent[n] \in Sendable
    BY <1>1
<1>3. /\ sent[n].data \in Seq(DataToken) /\ Len(sent[n].data) \in 1..MaxLength
      /\ sent[n].type # "SetChunkSize"
    BY <1>2 DEF Sendable
<1>4. sent[n].data \in Seq(Token)
    BY <1>3, SeqMonotonic DEF Token
<1>5. Len(sent[n].data) \in Nat \ {0}
    BY <1>3
<1> QED BY <1>2, <1>3, <1>4, <1>5

\* A pair describes a chunk: a header and at least a byte of its message.
LEMMA PairType ==
    ASSUME SentOK, NEW q, PairOK(q)
    PROVE  /\ q \in Pair
           /\ q.msg \in Nat \ {0} /\ q.msg <= Len(sent)
           /\ q.from \in Nat /\ q.len \in Nat \ {0} /\ q.place \in Nat
           /\ q.from + q.len <= Len(sent[q.msg].data)
           /\ q.len = Smaller(DefaultChunkSize, Len(sent[q.msg].data) - q.from)
<1>1. /\ q \in Pair /\ q.msg \in Nat \ {0} /\ q.msg <= Len(sent)
      /\ q.from \in Nat /\ q.len \in Nat \ {0} /\ q.place \in Nat /\ q.from < Len(sent[q.msg].data)
      /\ q.len = Smaller(DefaultChunkSize, Len(sent[q.msg].data) - q.from)
    BY DEF PairOK, Pair
<1>2. Len(sent[q.msg].data) \in Nat
    BY <1>1, MessageType
<1>3. q.from + q.len <= Len(sent[q.msg].data)
  <2>1. PICK L : L = Len(sent[q.msg].data)
    OBVIOUS
  <2>2. L \in Nat /\ q.from \in Nat /\ q.from < L /\ DefaultChunkSize \in Nat
    BY <1>1, <1>2, <2>1, Constants
  <2>3. q.len = IF DefaultChunkSize < L - q.from THEN DefaultChunkSize ELSE L - q.from
    BY <1>1, <2>1 DEF Smaller
  <2> QED BY <2>1, <2>2, <2>3
<1> QED BY <1>1, <1>3

(***************************************************************************)
(* The invariant, action by action.                                        *)
(***************************************************************************)

\* The parts of the invariant with their types stated plainly.
LEMMA InvTypes ==
    ASSUME IovsInv
    PROVE  /\ SentOK /\ PairsOK /\ CacheOK /\ PcOK /\ WireOK /\ ProgressOK /\ RetsOK
           /\ sent \in Seq(Sendable) /\ Len(sent) \in Nat /\ Len(sent) <= MaxMessages
           /\ out_iovs \in Seq(Pair) /\ Len(out_iovs) \in Nat /\ IovIndex \in Nat
           /\ IovIndex = 2 * Len(out_iovs)
           /\ writev \in [from : Nat, taken : Nat]
           /\ writev.from \in Nat /\ writev.taken \in Nat
           /\ cache_index \in Nat /\ nb_out_iovs \in Nat
           /\ wire \in Seq(Token) /\ out.n \in Nat
           /\ out.left \in Seq(Token) /\ out.header \in Seq(Token)
           /\ broken \in BOOLEAN
<1>1. SentOK /\ PairsOK /\ CacheOK /\ PcOK /\ WireOK /\ ProgressOK /\ RetsOK /\ broken \in BOOLEAN
    BY DEF IovsInv
<1>2. sent \in Seq(Sendable) /\ Len(sent) \in Nat /\ Len(sent) <= MaxMessages
    BY <1>1 DEF SentOK
<1>3. out_iovs \in Seq(Pair) /\ Len(out_iovs) \in Nat
    BY <1>1 DEF PairsOK
<1>4. IovIndex \in Nat /\ IovIndex = 2 * Len(out_iovs)
    BY <1>3 DEF IovIndex
<1>5. writev \in [from : Nat, taken : Nat] /\ writev.from \in Nat /\ writev.taken \in Nat
    BY <1>1 DEF PcOK
<1>6. cache_index \in Nat /\ nb_out_iovs \in Nat
    BY <1>1 DEF CacheOK
<1>7. /\ wire \in Seq(Token) /\ out.n \in Nat
      /\ out.left \in Seq(Token) /\ out.header \in Seq(Token)
    BY <1>1 DEF WireOK
<1> QED BY <1>1, <1>2, <1>3, <1>4, <1>5, <1>6, <1>7

LEMMA RetTypes ==
    ASSUME RetsOK, NEW i \in 1..Len(rets)
    PROVE  /\ rets[i].upto \in Nat /\ rets[i].upto <= Len(sent)
           /\ rets[i].ret \in {"success", "error"}
           /\ rets[i].ret = "success" => Written(rets[i].upto) \/ Lost(i)
<1>1. rets \in Seq(Ret)
    BY DEF RetsOK
<1>2. rets[i] \in Ret
    BY <1>1
<1>3. rets[i].upto <= Len(sent)
    BY DEF RetsOK
<1>4. rets[i].ret = "success" => Written(rets[i].upto) \/ Lost(i)
    BY DEF RetsOK
<1> QED BY <1>2, <1>3, <1>4 DEF Ret

\* What the calls said stays true while the message on the wire does not move.
LEMMA RetsKept ==
    ASSUME RetsOK, UNCHANGED <<rets, out, writev>>, broken => broken',
           Len(sent) \in Nat, Len(sent') \in Nat, Len(sent) <= Len(sent')
    PROVE  RetsOK'
<1>1. rets' \in Seq(Ret)
    BY DEF RetsOK
<1>2. ASSUME NEW i \in 1..Len(rets')
      PROVE  /\ rets'[i].upto <= Len(sent')
             /\ rets'[i].ret = "success" => Written(rets[i].upto)' \/ Lost(i)'
  <2>1. /\ rets[i].upto \in Nat /\ rets[i].upto <= Len(sent)
        /\ rets[i].ret = "success" => Written(rets[i].upto) \/ Lost(i)
    BY RetTypes
  <2>2. rets'[i].upto <= Len(sent')
    BY <2>1
  <2>3. Lost(i) => Lost(i)'
    BY DEF Lost, Unstarted
  <2>4. Written(rets[i].upto) => Written(rets[i].upto)'
    BY DEF Written
  <2> QED BY <2>1, <2>2, <2>3, <2>4
<1> QED BY <1>1, <1>2 DEF RetsOK

\* A writev ends behind its first iovec and within the array.
LEMMA GroupType ==
    ASSUME IovIndex \in Nat, writev.from \in Nat
    PROVE  /\ GroupEnd \in Nat /\ GroupEnd <= IovIndex
           /\ IovIndex > 0 => GroupEnd > 0
BY Constants DEF GroupEnd, Smaller

\* A call that has no error behind it finds everything described written.
LEMMA AtRest ==
    ASSUME IovsInv, pc = "idle", NoError
    PROVE  /\ writev = [from |-> 0, taken |-> 0] /\ writev.taken = 0
           /\ out_iovs = <<>> /\ Len(out_iovs) = 0 /\ cache_index = 0
           /\ pos = [msg |-> Len(sent) + 1, p |-> 0]
           /\ ~broken => out.header = <<>> /\ out.n = Len(sent) /\ out.left = <<>>
<1>1. /\ writev = [from |-> 0, taken |-> 0] /\ out_iovs = <<>> /\ cache_index = 0
      /\ pos = [msg |-> Len(sent) + 1, p |-> 0]
    BY InvTypes DEF PcOK, Unstarted
<1>2. writev.taken = 0 /\ Len(out_iovs) = 0
    BY <1>1
<1>3. At(writev.taken \div 2 + 1) = pos /\ writev.taken % 2 = 0
  <2>1. writev.taken \div 2 + 1 = 1 /\ writev.taken % 2 = 0
    BY <1>2
  <2> QED BY <1>2, <2>1 DEF At
<1>4. ~broken => Between(pos)
    BY <1>3, InvTypes DEF ProgressOK
<1>5. pos.p = 0 /\ pos.msg - 1 = Len(sent)
    BY <1>1, InvTypes
<1>6. ~broken => out.header = <<>> /\ out.n = Len(sent) /\ out.left = <<>>
    BY <1>4, <1>5 DEF Between
<1> QED BY <1>1, <1>2, <1>6

LEMMA IovsInit == Init => IovsInv
<1> SUFFICES ASSUME Init PROVE IovsInv
    OBVIOUS
<1>1. SentOK
    BY Constants DEF Init, SentOK
<1>2. PairsOK
    BY DEF Init, PairsOK, PositionOK, Position
<1>3. CacheOK
  <2>1. cache_index = 0 /\ nb_out_iovs = IovsMax /\ DOMAIN cache = {} /\ Len(out_iovs) = 0
    BY DEF Init
  <2> QED BY <2>1, Constants DEF CacheOK, IovIndex
<1>4. PcOK
  <2>1. writev.from = 0 /\ writev.taken = 0 /\ IovIndex = 0
    BY DEF Init, IovIndex
  <2>2. GroupEnd \in Nat
    BY <2>1, GroupType
  <2> QED BY <2>1, <2>2 DEF Init, PcOK, Unstarted
<1>5. WireOK
  <2>1. /\ out = [n |-> 0, left |-> <<>>, header |-> <<>>] /\ wire = <<>> /\ sent = <<>>
    BY DEF Init
  <2>2. /\ out.n = 0 /\ out.left = <<>> /\ out.header = <<>>
        /\ out \in [n : Nat, left : Seq(Token), header : Seq(Token)]
    BY <2>1
  <2>3. Before = <<>>
    BY <2>1, <2>2 DEF Before
  <2>4. Weight \in Nat /\ MaxLength * Weight \in Nat
    BY Constants DEF Weight
  <2>5. 0 * Weight = 0 /\ 0 * (MaxLength * Weight) = 0
    BY <2>4
  <2>6. Len(Before) + Len(out.left) * Weight <= out.n * (MaxLength * Weight)
    BY <2>2, <2>3, <2>5
  <2> QED BY <2>1, <2>2, <2>3, <2>6 DEF WireOK
<1>6. ProgressOK
  <2>1. writev.taken = 0 /\ Len(out_iovs) = 0 /\ pos.msg = 1 /\ pos.p = 0
        /\ out.header = <<>> /\ out.left = <<>> /\ out.n = 0
    BY DEF Init
  <2>2. writev.taken \div 2 + 1 = 1 /\ writev.taken % 2 = 0
    BY <2>1
  <2>3. At(1) = pos
    BY <2>1 DEF At
  <2>4. Between(pos)
    BY <2>1 DEF Between
  <2> QED BY <2>2, <2>3, <2>4 DEF ProgressOK
<1>7. RetsOK /\ broken \in BOOLEAN
  <2>1. rets = <<>> /\ Len(rets) = 0 /\ broken = FALSE
    BY DEF Init
  <2>2. rets \in Seq(Ret)
    BY <2>1, EmptySeq
  <2>3. 1..Len(rets) = {}
    BY <2>1
  <2>4. RetsOK
    BY <2>2, <2>3 DEF RetsOK
  <2> QED BY <2>1, <2>4
<1> QED BY <1>1, <1>2, <1>3, <1>4, <1>5, <1>6, <1>7 DEF IovsInv

\* A call numbers the messages with a payload behind those of the calls before.
LEMMA BatchSent ==
    ASSUME IovsInv, SendAndFreeMessages
    PROVE  \E n \in Nat :
              /\ Len(sent) + n <= MaxMessages
              /\ sent' \in Seq(Sendable) /\ Len(sent') = Len(sent) + n
              /\ \A i \in 1..Len(sent) : sent'[i] = sent[i]
              /\ \A i \in 1..n : \E m \in Outgoing :
                    sent'[Len(sent) + i] = Writer!Numbered(m, Len(sent) + i)
              /\ pc' = IF n = 0 THEN "idle" ELSE "describe"
<1>1. PICK b \in Batches : \E n \in 0..Len(b) : \E place \in [1..n -> DOMAIN b] :
          /\ Kept(b, place)
          /\ Len(sent) + n <= MaxMessages
          /\ sent' = sent \o [i \in 1..n |-> Writer!Numbered(Checked(b)[place[i]], Len(sent) + i)]
          /\ pc' = IF n = 0 THEN "idle" ELSE "describe"
    BY DEF SendAndFreeMessages
<1>2. PICK n \in 0..Len(b) : \E place \in [1..n -> DOMAIN b] :
          /\ Kept(b, place)
          /\ Len(sent) + n <= MaxMessages
          /\ sent' = sent \o [i \in 1..n |-> Writer!Numbered(Checked(b)[place[i]], Len(sent) + i)]
          /\ pc' = IF n = 0 THEN "idle" ELSE "describe"
    BY <1>1
<1>3. PICK place \in [1..n -> DOMAIN b] :
          /\ Kept(b, place)
          /\ Len(sent) + n <= MaxMessages
          /\ sent' = sent \o [i \in 1..n |-> Writer!Numbered(Checked(b)[place[i]], Len(sent) + i)]
          /\ pc' = IF n = 0 THEN "idle" ELSE "describe"
    BY <1>2
<1>4. n \in Nat /\ Len(sent) + n <= MaxMessages
    BY <1>3, BatchAssumption
<1>5. ASSUME NEW i \in 1..n PROVE Checked(b)[place[i]] \in Outgoing
  <2>1. PICK k : k = place[i]
    OBVIOUS
  <2>2. k \in DOMAIN b
    BY <2>1
  <2>3. b[k].size > 0
    BY <1>3, <2>1 DEF Kept
  <2>4. Checked(b)[k] = IF \E j \in 1..k : b[j].sid = StreamId THEN b[k] ELSE WithStream(b[k])
    BY <2>2 DEF Checked
  <2>5. DOMAIN b = 1..Len(b) /\ Len(b) \in Nat
    BY BatchAssumption
  <2>6. \A j \in 1..k : b[j].sid = b[k].sid
    BY <2>2, <2>5, BatchAssumption
  <2>7. (IF b[k].sid = StreamId THEN b[k] ELSE WithStream(b[k])) \in Outgoing
    BY <2>2, <2>3, BatchAssumption
  <2>8. k \in 1..k
    BY <2>2, <2>5
  <2> QED BY <2>1, <2>4, <2>6, <2>7, <2>8
<1> DEFINE batch == [i \in 1..n |-> Writer!Numbered(Checked(b)[place[i]], Len(sent) + i)]
<1>6. ASSUME NEW i \in 1..n
      PROVE  batch[i] \in Sendable
             /\ \E m \in Outgoing : batch[i] = Writer!Numbered(m, Len(sent) + i)
  <2>1. Checked(b)[place[i]] \in Outgoing
    BY <1>5
  <2>2. Len(sent) + i \in 1..MaxMessages
    <3>1. Len(sent) \in Nat /\ MaxMessages \in Nat
      BY InvTypes, Constants
    <3> QED BY <1>4, <3>1
  <2> QED BY <2>1, <2>2, NumberedType
<1>7. batch \in Seq(Sendable) /\ Len(batch) = n
  <2>1. PICK q : q = batch
    OBVIOUS
  <2>2. q \in [1..n -> Sendable]
    BY <1>6, <2>1
  <2>3. q \in Seq(Sendable) /\ Len(q) = n
    BY <1>4, <2>2
  <2> QED BY <2>1, <2>3
<1>8. sent' = sent \o batch
    BY <1>3
<1>9. ASSUME NEW i \in 1..n PROVE \E m \in Outgoing : batch[i] = Writer!Numbered(m, Len(sent) + i)
    BY <1>6
<1> HIDE DEF batch
<1>10. /\ sent' \in Seq(Sendable) /\ Len(sent') = Len(sent) + n
       /\ \A i \in 1..Len(sent) : sent'[i] = sent[i]
       /\ \A i \in 1..n : sent'[Len(sent) + i] = batch[i]
    BY <1>7, <1>8, InvTypes, ConcatElements, SMTT(30)
<1>11. ASSUME NEW i \in 1..n
       PROVE  \E m \in Outgoing : sent'[Len(sent) + i] = Writer!Numbered(m, Len(sent) + i)
    BY <1>9, <1>10
<1> QED BY <1>3, <1>4, <1>10, <1>11

\* A call takes up the messages with a payload, and nothing else moves.
LEMMA SendKeeps == IovsInv /\ SendAndFreeMessages => IovsInv'
<1> SUFFICES ASSUME IovsInv, SendAndFreeMessages PROVE IovsInv'
    OBVIOUS
<1>1. pc = "idle" /\ NoError
    BY DEF SendAndFreeMessages, NoError
<1>2. PICK n \in Nat :
         /\ Len(sent) + n <= MaxMessages
         /\ sent' \in Seq(Sendable) /\ Len(sent') = Len(sent) + n
         /\ \A i \in 1..Len(sent) : sent'[i] = sent[i]
         /\ \A i \in 1..n : \E m \in Outgoing :
               sent'[Len(sent) + i] = Writer!Numbered(m, Len(sent) + i)
         /\ pc' = IF n = 0 THEN "idle" ELSE "describe"
    BY BatchSent
<1>3. SentOK'
  <2>1. ASSUME NEW i \in 1..Len(sent') PROVE \E m \in Outgoing : sent'[i] = Writer!Numbered(m, i)
    <3>1. CASE i <= Len(sent)
        <4>1. i \in 1..Len(sent) /\ sent'[i] = sent[i]
            BY <1>2, <3>1, InvTypes
        <4>2. \E m \in Outgoing : sent[i] = Writer!Numbered(m, i)
            BY <4>1, InvTypes DEF SentOK
        <4> QED BY <4>1, <4>2
    <3>2. CASE i > Len(sent)
        <4>1. PICK j : j = i - Len(sent)
            OBVIOUS
        <4>2. j \in 1..n /\ i = Len(sent) + j
            BY <1>2, <3>2, <4>1, InvTypes
        <4> QED BY <1>2, <4>2
    <3> QED BY <3>1, <3>2, <1>2, InvTypes
  <2> QED BY <1>2, <2>1 DEF SentOK
<1>4. /\ out_iovs' = <<>> /\ Len(out_iovs') = 0 /\ IovIndex' = 0
      /\ pos' = [msg |-> Len(sent) + 1, p |-> 0] /\ writev' = [from |-> 0, taken |-> 0]
      /\ cache_index' = 0 /\ writev'.taken = 0
    BY <1>1, AtRest DEF SendAndFreeMessages, IovIndex
<1>5. PairsOK'
  <2>1. pos' \in Position /\ pos'.msg = Len(sent) + 1 /\ pos'.p = 0
    BY <1>4, InvTypes DEF Position
  <2>2. CASE n = 0
    BY <1>2, <1>4, <2>1, <2>2, InvTypes DEF PairsOK, PositionOK
  <2>3. CASE n # 0
    <3>1. sent'[Len(sent) + 1] \in Sendable /\ Len(sent) + 1 <= Len(sent')
        BY <1>2, <2>3, InvTypes
    <3>2. Len(sent'[pos'.msg].data) > 0
        BY <2>1, <3>1, Constants DEF Sendable
    <3>3. PositionOK(pos)'
        BY <2>1, <3>1, <3>2 DEF PositionOK
    <3> QED BY <1>4, <3>3 DEF PairsOK
  <2> QED BY <2>2, <2>3
<1>6. CacheOK'
  <2>1. UNCHANGED <<cache, nb_out_iovs>>
    BY DEF SendAndFreeMessages
  <2>2. nb_out_iovs \in Nat /\ \A o \in DOMAIN cache : Entry(o)
    BY InvTypes DEF CacheOK
  <2> QED BY <1>4, <2>1, <2>2 DEF CacheOK, Entry
<1>7. PcOK'
  <2>1. rets' = rets
    BY DEF SendAndFreeMessages
  <2>2. GroupEnd' \in Nat /\ writev'.from = 0
    BY <1>4, Constants DEF GroupEnd, Smaller
  <2>3. CASE n = 0
    BY <1>2, <1>4, <2>1, <2>2, <2>3 DEF PcOK, Unstarted, NoError
  <2>4. CASE n # 0
    BY <1>2, <1>4, <2>1, <2>2, <2>4, InvTypes, Constants
        DEF PcOK, Unstarted, NoError
  <2> QED BY <2>3, <2>4
<1>8. WireOK'
  <2>1. UNCHANGED <<wire, out>>
    BY DEF SendAndFreeMessages
  <2>2. out.n <= Len(sent')
    BY <1>2, InvTypes DEF WireOK
  <2> QED BY <2>1, <2>2, InvTypes DEF WireOK, Before
<1>9. ProgressOK'
  <2>1. UNCHANGED <<out, broken>>
    BY DEF SendAndFreeMessages
  <2>2. ~broken' => out'.header = <<>> /\ out'.n = Len(sent) /\ out'.left = <<>>
    BY <1>1, <2>1, AtRest
  <2>3. writev'.taken \div 2 + 1 = 1 /\ writev'.taken % 2 = 0
    BY <1>4
  <2>4. At(1)' = pos'
    BY <1>4 DEF At
  <2>5. pos'.p = 0 /\ pos'.msg - 1 = Len(sent)
    BY <1>4, InvTypes
  <2>6. ~broken' => Between(pos)'
    BY <2>2, <2>5 DEF Between
  <2> QED BY <2>3, <2>4, <2>6 DEF ProgressOK
<1>10. RetsOK'
  <2>1. UNCHANGED <<rets, out, broken, writev>>
    BY DEF SendAndFreeMessages
  <2>2. Len(sent) <= Len(sent') /\ Len(sent') \in Nat
    BY <1>2, InvTypes
  <2> QED BY <2>1, <2>2, InvTypes, RetsKept
<1> QED BY <1>3, <1>5, <1>6, <1>7, <1>8, <1>9, <1>10, InvTypes
        DEF IovsInv, SendAndFreeMessages

\* A header put into the cache leaves those that end before its place.
LEMMA HeaderPut ==
    ASSUME NEW place \in Nat, NEW header, Len(header) \in Nat \ {0}
    PROVE  /\ place \in DOMAIN WithHeader(place, header)
           /\ WithHeader(place, header)[place] = header
           /\ \A o \in DOMAIN WithHeader(place, header) : o # place =>
                 o \in DOMAIN cache /\ WithHeader(place, header)[o] = cache[o]
           /\ \A o \in DOMAIN cache :
                 o \in Nat /\ Len(cache[o]) \in Nat /\ o + Len(cache[o]) <= place /\ o # place =>
                    /\ o \in DOMAIN WithHeader(place, header)
                    /\ WithHeader(place, header)[o] = cache[o]
<1> DEFINE over == {o \in DOMAIN cache : o < place + Len(header) /\ place < o + Len(cache[o])}
           new == (DOMAIN cache \ over) \cup {place}
           c == [o \in new |-> IF o = place THEN header ELSE cache[o]]
<1>1. WithHeader(place, header) = c
    BY DEF WithHeader
<1>2. DOMAIN c = new /\ place \in new /\ c[place] = header
    OBVIOUS
<1>3. ASSUME NEW o \in new, o # place PROVE o \in DOMAIN cache /\ c[o] = cache[o]
    BY <1>3
<1>4. ASSUME NEW o \in DOMAIN cache, o \in Nat, Len(cache[o]) \in Nat,
             o + Len(cache[o]) <= place, o # place
      PROVE  o \in new /\ c[o] = cache[o]
  <2>1. o \notin over
    BY <1>4
  <2>2. o \in new
    BY <2>1
  <2> QED BY <1>4, <2>2
<1> HIDE DEF new, c
<1> QED BY <1>1, <1>2, <1>3, <1>4

\* What is described next finds room for its header in the cache, behind the headers
\* of all pairs that are described.
LEMMA DescribeKeeps == IovsInv /\ DescribeChunk => IovsInv'
<1> SUFFICES ASSUME IovsInv, DescribeChunk PROVE IovsInv'
    OBVIOUS
<1>1. /\ pc = "describe" /\ writev = [from |-> 0, taken |-> 0] /\ writev.taken = 0
      /\ pos.msg <= Len(sent) /\ HeadersMax - cache_index >= MaxFmt0
    BY InvTypes DEF DescribeChunk, PcOK, Unstarted
<1>2. UNCHANGED <<wire, sent, writev, broken, rets, out>>
    BY DEF DescribeChunk
<1>3. /\ pos \in Position /\ pos.msg \in Nat \ {0} /\ pos.p \in Nat
      /\ pos.p < Len(sent[pos.msg].data)
  <2>1. PositionOK(pos)
    BY InvTypes DEF PairsOK
  <2> QED BY <1>1, <2>1, InvTypes DEF PositionOK, Position
<1>4. PICK m : m = sent[pos.msg]
    OBVIOUS
<1>5. m \in Sendable /\ Len(m.data) \in Nat \ {0}
    BY <1>1, <1>3, <1>4, InvTypes, MessageType
<1>6. PICK header : header = Header(m, pos.p)
    OBVIOUS
<1>7. /\ header \in Seq(Token) /\ Len(header) \in 1..MaxFmt0
      /\ pos.p # 0 => Len(header) <= 1 + ExtWidth
    BY <1>5, <1>6, HeaderType
<1>8. PICK n : n = Smaller(DefaultChunkSize, Len(m.data) - pos.p)
    OBVIOUS
<1>9. n \in Nat \ {0} /\ pos.p + n <= Len(m.data)
    BY <1>3, <1>4, <1>5, <1>8, Constants DEF Smaller
<1>10. PICK q : q = [msg |-> pos.msg, from |-> pos.p, len |-> n, place |-> cache_index]
    OBVIOUS
<1>11. /\ q \in Pair /\ q.msg = pos.msg /\ q.from = pos.p /\ q.len = n
       /\ q.place = cache_index
    BY <1>3, <1>9, <1>10, InvTypes DEF Pair
<1>12. /\ cache' = WithHeader(cache_index, header)
       /\ out_iovs' = Append(out_iovs, q)
       /\ nb_out_iovs' = Room(2 * Len(out_iovs))
       /\ cache_index' = cache_index + Len(header)
       /\ pos' = IF pos.p + n = Len(m.data) THEN [msg |-> pos.msg + 1, p |-> 0]
                 ELSE [msg |-> pos.msg, p |-> pos.p + n]
       /\ pc' = IF Dry(cache_index + Len(header)) \/ pos'.msg > Len(sent)
                THEN "write" ELSE "describe"
  <2>1. ~(HeadersMax - cache_index < (IF pos.p = 0 THEN MaxFmt0 ELSE 1 + ExtWidth))
    BY <1>1, Constants, InvTypes
  <2>2. ~(HeadersMax - cache_index < (IF pos.p = 0 THEN MaxFmt0 ELSE 1 + ExtWidth)) =>
           /\ cache' = WithHeader(cache_index, Header(m, pos.p))
           /\ out_iovs' = Append(out_iovs, [msg |-> pos.msg, from |-> pos.p,
                   len |-> Smaller(DefaultChunkSize, Len(m.data) - pos.p),
                   place |-> cache_index])
           /\ nb_out_iovs' = Room(2 * Len(out_iovs))
           /\ cache_index' = NextPlace(Header(m, pos.p))
           /\ pos' = IF pos.p + Smaller(DefaultChunkSize, Len(m.data) - pos.p) = Len(m.data)
                     THEN [msg |-> pos.msg + 1, p |-> 0]
                     ELSE [msg |-> pos.msg,
                           p |-> pos.p + Smaller(DefaultChunkSize, Len(m.data) - pos.p)]
           /\ pc' = IF Dry(NextPlace(Header(m, pos.p))) \/ pos'.msg > Len(sent)
                    THEN "write" ELSE "describe"
    BY <1>4 DEF DescribeChunk
  <2>3. NextPlace(header) = cache_index + Len(header)
    BY DEF NextPlace
  <2>4. cache' = WithHeader(cache_index, header) /\ nb_out_iovs' = Room(2 * Len(out_iovs))
    BY <1>6, <2>1, <2>2
  <2>5. out_iovs' = Append(out_iovs, q)
    BY <1>8, <1>10, <2>1, <2>2
  <2>6. cache_index' = cache_index + Len(header)
    BY <1>6, <2>1, <2>2, <2>3
  <2>7. pos' = IF pos.p + n = Len(m.data) THEN [msg |-> pos.msg + 1, p |-> 0]
               ELSE [msg |-> pos.msg, p |-> pos.p + n]
    BY <1>8, <2>1, <2>2
  <2>8. pc' = IF Dry(cache_index + Len(header)) \/ pos'.msg > Len(sent)
              THEN "write" ELSE "describe"
    BY <1>6, <2>1, <2>2, <2>3
  <2> QED BY <2>4, <2>5, <2>6, <2>7, <2>8
<1>13. /\ out_iovs' \in Seq(Pair) /\ Len(out_iovs') = Len(out_iovs) + 1
       /\ \A k \in 1..Len(out_iovs) : out_iovs'[k] = out_iovs[k]
       /\ out_iovs'[Len(out_iovs) + 1] = q
    BY <1>11, <1>12, InvTypes, AppendProperties
<1>14. SentOK' /\ sent' = sent
    BY <1>2, InvTypes DEF SentOK
<1>15. Behind(q) = pos' /\ Start(q) = pos
  <2>1. Start(q) = pos
    BY <1>3, <1>11 DEF Start, Position
  <2> QED BY <1>4, <1>11, <1>12, <2>1 DEF Behind
<1>16. PairsOK'
  <2>1. PairOK(q)
    BY <1>1, <1>3, <1>4, <1>8, <1>11 DEF PairOK
  <2>2. PositionOK(pos)'
    <3>1. CASE pos.p + n = Len(m.data)
        <4>1. pos' = [msg |-> pos.msg + 1, p |-> 0]
            BY <1>12, <3>1
        <4>2. pos'.p = 0 /\ pos'.msg = pos.msg + 1 /\ pos' \in Position
            BY <1>3, <4>1 DEF Position
        <4>3. CASE pos.msg = Len(sent)
            BY <1>2, <4>2, <4>3 DEF PositionOK
        <4>4. CASE pos.msg < Len(sent)
            <5>1. pos.msg + 1 \in Nat \ {0} /\ pos.msg + 1 <= Len(sent)
                <6>1. pos.msg \in Nat
                    BY <1>3
                <6>2. Len(sent) \in Nat
                    BY InvTypes
                <6> QED BY <4>4, <6>1, <6>2
            <5>2. Len(sent[pos.msg + 1].data) \in Nat \ {0}
                BY <5>1, InvTypes, MessageType
            <5> QED BY <1>2, <4>2, <5>1, <5>2 DEF PositionOK
        <4> QED BY <1>1, <1>3, <4>3, <4>4, InvTypes
    <3>2. CASE pos.p + n # Len(m.data)
        <4>1. pos' = [msg |-> pos.msg, p |-> pos.p + n]
            BY <1>12, <3>2
        <4>2. pos.p + n < Len(m.data) /\ pos.p + n \in Nat
            BY <1>3, <1>5, <1>9, <3>2
        <4> QED BY <1>1, <1>2, <1>3, <1>4, <4>1, <4>2 DEF PositionOK, Position
    <3> QED BY <3>1, <3>2
  <2>3. ASSUME NEW k \in 1..Len(out_iovs')
        PROVE  (PairOK(out_iovs[k]) /\ At(k + 1) = Behind(out_iovs[k]))'
    <3>1. CASE k = Len(out_iovs) + 1
        <4>1. At(k + 1)' = pos' /\ out_iovs'[k] = q
            BY <1>13, <3>1, InvTypes DEF At
        <4>2. PairOK(q)' /\ Behind(q)' = Behind(q)
            BY <1>2, <2>1 DEF PairOK, Behind
        <4> QED BY <1>15, <4>1, <4>2
    <3>2. CASE k # Len(out_iovs) + 1
        <4>1. k \in 1..Len(out_iovs) /\ k \in Nat
            BY <1>13, <3>2, InvTypes
        <4>2. PICK x : x = out_iovs[k]
            OBVIOUS
        <4>3. PairOK(x) /\ At(k + 1) = Behind(x)
            BY <4>1, <4>2, InvTypes DEF PairsOK
        <4>4. PairOK(x)' /\ Behind(x)' = Behind(x)
            BY <1>2, <4>3 DEF PairOK, Behind
        <4>5. out_iovs'[k] = x
            BY <1>13, <4>1, <4>2
        <4>6. CASE k = Len(out_iovs)
            <5>1. At(k + 1) = pos
                BY <4>1, <4>6, InvTypes DEF At
            <5>2. At(k + 1)' = Start(q)
                BY <1>13, <4>6, InvTypes DEF At, Start
            <5> QED BY <1>15, <4>3, <4>4, <4>5, <5>1, <5>2
        <4>7. CASE k # Len(out_iovs)
            <5>1. k + 1 \in 1..Len(out_iovs)
                BY <4>1, <4>7, InvTypes
            <5>2. At(k + 1)' = At(k + 1)
                BY <1>13, <5>1, InvTypes, SMTT(30) DEF At, Start
            <5> QED BY <4>3, <4>4, <4>5, <5>2
        <4> QED BY <4>6, <4>7
    <3> QED BY <3>1, <3>2
  <2> QED BY <1>13, <2>2, <2>3 DEF PairsOK
<1>17. /\ cache_index' \in Nat /\ cache_index' = cache_index + Len(header)
       /\ cache_index' <= HeadersMax /\ HeadersMax \in Nat /\ Len(header) \in Nat \ {0}
  <2>1. cache_index \in Nat /\ HeadersMax \in Nat /\ MaxFmt0 \in Nat
    BY InvTypes, Constants
  <2>2. Len(header) \in Nat \ {0} /\ Len(header) <= MaxFmt0
    BY <1>7, <2>1
  <2>3. cache_index' = cache_index + Len(header)
    BY <1>12
  <2> QED BY <1>1, <2>1, <2>2, <2>3
<1>18. CacheOK'
  <2>1. nb_out_iovs' \in Nat /\ IovIndex' <= nb_out_iovs'
    <3>1. IovIndex' = 2 * Len(out_iovs) + 2
        BY <1>13, InvTypes DEF IovIndex
    <3>2. 2 * Len(out_iovs) \in Nat /\ 2 * Len(out_iovs) <= nb_out_iovs
        BY InvTypes DEF CacheOK
    <3>3. PICK i : i = 2 * Len(out_iovs)
        OBVIOUS
    <3>4. nb_out_iovs' = IF i >= nb_out_iovs - 2 THEN nb_out_iovs + IovsMax ELSE nb_out_iovs
        BY <1>12, <3>3 DEF Room
    <3>5. i \in Nat /\ i <= nb_out_iovs /\ IovIndex' = i + 2
        BY <3>1, <3>2, <3>3
    <3>6. nb_out_iovs \in Nat /\ IovsMax \in Nat /\ IovsMax >= 2
        BY InvTypes, Constants
    <3> QED BY <3>4, <3>5, <3>6
  <2>2. PICK c : c = WithHeader(cache_index, header)
    OBVIOUS
  <2>3. /\ cache_index \in DOMAIN c /\ c[cache_index] = header
        /\ \A o \in DOMAIN c : o # cache_index => o \in DOMAIN cache /\ c[o] = cache[o]
        /\ \A o \in DOMAIN cache :
              o \in Nat /\ Len(cache[o]) \in Nat /\ o + Len(cache[o]) <= cache_index
                /\ o # cache_index => o \in DOMAIN c /\ c[o] = cache[o]
    BY <1>17, <2>2, InvTypes, HeaderPut, SMTT(30)
  <2>4. cache' = c
    BY <1>12, <2>2
  <2>5. ASSUME NEW o \in DOMAIN c PROVE o \in Nat /\ Len(c[o]) \in Nat /\ o + Len(c[o]) <= HeadersMax
    <3>1. CASE o = cache_index
        BY <1>17, <2>3, <3>1, InvTypes
    <3>2. CASE o # cache_index
        <4>1. o \in DOMAIN cache /\ c[o] = cache[o]
            BY <2>3, <3>2
        <4>2. Entry(o)
            BY <4>1, InvTypes DEF CacheOK
        <4> QED BY <4>1, <4>2 DEF Entry
    <3> QED BY <3>1, <3>2
  <2>6. ASSUME NEW k \in 1..Len(out_iovs') PROVE Held(out_iovs[k])'
    <3>1. CASE k = Len(out_iovs) + 1
        <4>1. out_iovs'[k] = q
            BY <1>13, <3>1
        <4>2. Header(sent[q.msg], q.from)' = Header(sent[q.msg], q.from)
            BY <1>14 DEF Header
        <4>3. Header(sent[q.msg], q.from) = header
            BY <1>4, <1>6, <1>11
        <4>4. q.place \in DOMAIN c /\ c[q.place] = header
            BY <1>11, <2>3
        <4>5. q.place + Len(c[q.place]) <= cache_index'
            BY <1>11, <1>17, <4>4, InvTypes
        <4>6. Held(q)'
            BY <2>4, <4>2, <4>3, <4>4, <4>5 DEF Held
        <4> QED BY <4>1, <4>6
    <3>2. CASE k # Len(out_iovs) + 1
        <4>1. k \in 1..Len(out_iovs) /\ 2 * k - 1 > writev.taken
            BY <1>1, <1>13, <3>2, InvTypes
        <4>2. PICK x : x = out_iovs[k]
            OBVIOUS
        <4>3. Held(x)
            BY <4>1, <4>2, InvTypes DEF CacheOK
        <4>4. PairOK(x)
            BY <4>1, <4>2, InvTypes DEF PairsOK
        <4>5. sent[x.msg] \in Sendable
            BY <4>4, InvTypes, PairType, MessageType
        <4>6. /\ x.place \in DOMAIN cache /\ x.place \in Nat
              /\ cache[x.place] = Header(sent[x.msg], x.from)
              /\ x.place + Len(cache[x.place]) <= cache_index
            BY <4>3, <4>4 DEF Held, PairOK, Pair
        <4>7. Len(cache[x.place]) \in Nat \ {0}
            BY <4>5, <4>6, HeaderType, Constants
        <4>8. x.place # cache_index
            BY <4>6, <4>7, InvTypes
        <4>9. x.place \in DOMAIN c /\ c[x.place] = cache[x.place]
            BY <2>3, <4>6, <4>7, <4>8
        <4>10. x.place + Len(c[x.place]) <= cache_index'
            <5>1. PICK y : y = x.place + Len(cache[x.place])
                OBVIOUS
            <5>2. y \in Nat /\ y <= cache_index /\ y = x.place + Len(c[x.place])
                BY <4>6, <4>7, <4>9, <5>1
            <5>3. cache_index \in Nat /\ cache_index' \in Nat /\ cache_index <= cache_index'
                BY <1>17, InvTypes
            <5> QED BY <5>2, <5>3
        <4>11. Header(sent[x.msg], x.from)' = Header(sent[x.msg], x.from)
            BY <1>14 DEF Header
        <4>12. Held(x)'
            BY <2>4, <4>6, <4>9, <4>10, <4>11 DEF Held
        <4>13. out_iovs'[k] = x
            BY <1>13, <4>1, <4>2
        <4> QED BY <4>12, <4>13
    <3> QED BY <3>1, <3>2
  <2>7. \A o \in DOMAIN cache' : Entry(o)'
    BY <2>4, <2>5 DEF Entry
  <2> QED BY <1>17, <2>1, <2>6, <2>7 DEF CacheOK
<1>19. PcOK'
  <2>1. writev' = [from |-> 0, taken |-> 0] /\ IovIndex' \in Nat /\ out_iovs' # <<>>
    BY <1>1, <1>2, <1>13, InvTypes DEF IovIndex
  <2>2. pc' = "write" \/ pc' = "describe"
    BY <1>12
  <2>3. pc' = "describe" => pos'.msg <= Len(sent) /\ HeadersMax - cache_index' >= MaxFmt0
    <3>1. pos'.msg \in Nat
        BY <1>3, <1>12
    <3>2. pc' = "describe" => ~Dry(cache_index') /\ ~(pos'.msg > Len(sent))
        BY <1>12, <1>17
    <3>3. ~Dry(cache_index') => HeadersMax - cache_index' >= MaxFmt0
        BY <1>17, Constants DEF Dry
    <3> QED BY <3>1, <3>2, <3>3, InvTypes
  <2>4. writev'.from = 0 /\ writev'.taken = 0 /\ GroupEnd' \in Nat
    BY <2>1, Constants DEF GroupEnd, Smaller
  <2> QED BY <1>14, <2>1, <2>2, <2>3, <2>4 DEF PcOK, Unstarted
<1>20. WireOK'
    BY <1>2, InvTypes DEF WireOK, Before
<1>21. ProgressOK'
  <2>1. writev.taken \div 2 + 1 = 1 /\ writev.taken % 2 = 0
    BY <1>1
  <2>2. At(1)' = At(1)
    <3>1. CASE Len(out_iovs) = 0
        <4>1. At(1)' = Start(q) /\ At(1) = pos
            BY <1>13, <3>1 DEF At, Start
        <4> QED BY <1>15, <4>1
    <3>2. CASE Len(out_iovs) # 0
        BY <1>13, <3>2, InvTypes DEF At, Start
    <3> QED BY <3>1, <3>2
  <2>3. PICK at : at = At(1)
    OBVIOUS
  <2>4. ~broken => Between(at)
    BY <2>1, <2>3, InvTypes DEF ProgressOK
  <2>5. Between(at) => Between(at)'
    BY <1>2 DEF Between, Rest
  <2>6. ~broken' => Between(at)'
    BY <1>2, <2>4, <2>5
  <2> QED BY <1>2, <2>1, <2>2, <2>3, <2>6 DEF ProgressOK
<1>22. RetsOK'
    BY <1>2, <1>14, InvTypes, RetsKept
<1> QED BY <1>2, <1>14, <1>16, <1>18, <1>19, <1>20, <1>21, <1>22, InvTypes DEF IovsInv

\* The pair whose header or payload the kernel takes next.
Turn == writev.taken \div 2 + 1
Current == out_iovs[Turn]

LEMMA Taking ==
    ASSUME IovsInv, WriteIov
    PROVE  /\ ~broken /\ writev.taken \in Nat /\ writev.taken < IovIndex
           /\ writev.taken < GroupEnd /\ GroupEnd \in Nat
           /\ Turn \in 1..Len(out_iovs) /\ Turn \in Nat \ {0}
           /\ PairOK(Current) /\ At(Turn) = Start(Current)
           /\ At(Turn + 1) = Behind(Current)
           /\ writev.taken % 2 = 0 => Turn' = Turn /\ writev'.taken % 2 = 1
                                      /\ 2 * Turn - 1 > writev.taken
           /\ writev.taken % 2 # 0 => Turn' = Turn + 1 /\ writev'.taken % 2 = 0
           /\ writev' = [from |-> writev.from, taken |-> writev.taken + 1]
           /\ UNCHANGED <<sent, pos, cache, cache_index, out_iovs, nb_out_iovs, pc, broken, rets>>
           /\ IF writev.taken % 2 = 0 THEN TakeHeader(Current) ELSE TakePayload(Current)
<1>1. ~broken /\ writev.taken < GroupEnd
    BY DEF WriteIov
<1>2. GroupEnd <= IovIndex /\ GroupEnd \in Nat
    BY InvTypes, GroupType
<1>3. writev.taken < IovIndex /\ writev.taken \in Nat
    BY <1>1, <1>2, InvTypes
<1>4. PICK t \in Nat : t = writev.taken
    BY <1>3
<1>5. PICK n \in Nat : n = Len(out_iovs)
    BY InvTypes
<1>6. t < 2 * n
    BY <1>3, <1>4, <1>5, InvTypes
<1>7. /\ t \div 2 + 1 \in 1..n
      /\ t % 2 = 0 => /\ (t + 1) \div 2 = t \div 2 /\ (t + 1) % 2 = 1
                      /\ 2 * (t \div 2 + 1) - 1 > t
      /\ t % 2 # 0 => (t + 1) \div 2 = t \div 2 + 1 /\ (t + 1) % 2 = 0
    BY <1>6, Halves
<1>8. Turn = t \div 2 + 1
    BY <1>4 DEF Turn
<1>9. writev' = [from |-> writev.from, taken |-> writev.taken + 1]
    BY InvTypes DEF WriteIov
<1>10. writev'.taken = t + 1
    BY <1>4, <1>9
<1>11. Turn' = (t + 1) \div 2 + 1
    BY <1>10 DEF Turn
<1>12. Turn \in 1..Len(out_iovs) /\ Turn \in Nat \ {0}
    BY <1>5, <1>7, <1>8
<1>13. /\ t % 2 = 0 => Turn' = Turn /\ writev'.taken % 2 = 1 /\ 2 * Turn - 1 > t
       /\ t % 2 # 0 => Turn' = Turn + 1 /\ writev'.taken % 2 = 0
    BY <1>7, <1>8, <1>10, <1>11
<1>14. PairOK(Current) /\ At(Turn + 1) = Behind(Current)
    BY <1>12, InvTypes DEF PairsOK, Current
<1>15. At(Turn) = Start(Current)
    BY <1>12, InvTypes DEF At, Current
<1>16. IF writev.taken % 2 = 0 THEN TakeHeader(Current) ELSE TakePayload(Current)
    BY DEF WriteIov, Current, Turn
<1>17. UNCHANGED <<sent, pos, cache, cache_index, out_iovs, nb_out_iovs, pc, broken, rets>>
    BY DEF WriteIov
<1> QED BY <1>1, <1>2, <1>3, <1>4, <1>9, <1>12, <1>13, <1>14, <1>15, <1>16, <1>17

\* What is described does not move.
LEMMA WriteKeepsDescribed ==
    ASSUME IovsInv, WriteIov
    PROVE  SentOK' /\ PairsOK' /\ CacheOK' /\ PcOK'
<1>1. /\ writev' = [from |-> writev.from, taken |-> writev.taken + 1]
      /\ UNCHANGED <<sent, pos, cache, cache_index, out_iovs, nb_out_iovs, pc, broken, rets>>
      /\ writev.taken < GroupEnd /\ GroupEnd \in Nat
    BY Taking
<1>2. SentOK'
    BY <1>1, InvTypes DEF SentOK
<1>3. PairsOK'
  <2>1. PositionOK(pos)'
    BY <1>1, InvTypes DEF PairsOK, PositionOK
  <2>2. ASSUME NEW k \in 1..Len(out_iovs)
        PROVE  PairOK(out_iovs[k])' /\ At(k + 1)' = Behind(out_iovs[k])'
    <3>1. PairOK(out_iovs[k]) /\ At(k + 1) = Behind(out_iovs[k])
        BY InvTypes DEF PairsOK
    <3> QED BY <1>1, <3>1 DEF PairOK, At, Behind, Start
  <2> QED BY <1>1, <2>1, <2>2, InvTypes DEF PairsOK
<1>4. CacheOK'
  <2>1. ASSUME NEW k \in 1..Len(out_iovs), 2 * k - 1 > writev.taken + 1
        PROVE  Held(out_iovs[k])'
    <3>1. 2 * k - 1 > writev.taken
        BY <2>1, InvTypes
    <3>2. Held(out_iovs[k])
        BY <3>1, InvTypes DEF CacheOK
    <3> QED BY <1>1, <3>2 DEF Held, Header
  <2>2. writev'.taken = writev.taken + 1 /\ IovIndex' = IovIndex
    BY <1>1 DEF IovIndex
  <2>3. cache_index' \in Nat /\ nb_out_iovs' \in Nat /\ IovIndex' <= nb_out_iovs'
    BY <1>1, <2>2, InvTypes DEF CacheOK
  <2>4. \A o \in DOMAIN cache' : Entry(o)'
    BY <1>1, InvTypes DEF CacheOK, Entry
  <2> QED BY <1>1, <2>1, <2>2, <2>3, <2>4 DEF CacheOK
<1>5. PcOK'
  <2>1. /\ writev' \in [from : Nat, taken : Nat] /\ writev'.from = writev.from
        /\ writev'.taken = writev.taken + 1 /\ GroupEnd' = GroupEnd
    BY <1>1, InvTypes DEF GroupEnd, IovIndex
  <2>2. writev'.from <= writev'.taken /\ writev'.taken <= GroupEnd'
    BY <1>1, <2>1, InvTypes DEF PcOK
  <2>3. pc' = "write" /\ out_iovs' # <<>>
    BY <1>1, InvTypes DEF PcOK, WriteIov
  <2> QED BY <2>1, <2>2, <2>3 DEF PcOK
<1> QED BY <1>2, <1>3, <1>4, <1>5

\* The header is put behind an entire chunk.
LEMMA HeaderTaken ==
    ASSUME IovsInv, WriteIov, writev.taken % 2 = 0
    PROVE  /\ out.header = <<>>
           /\ IF Current.from = 0 THEN out.n = Current.msg - 1 /\ out.left = <<>>
              ELSE out.n = Current.msg /\ out.left = Rest(Start(Current))
           /\ wire' = wire \o Header(sent[Current.msg], Current.from)
           /\ out' = [n |-> Current.msg, left |-> Rest(Start(Current)),
                      header |-> Header(sent[Current.msg], Current.from)]
<1>1. /\ ~broken /\ Turn \in 1..Len(out_iovs) /\ 2 * Turn - 1 > writev.taken
      /\ At(Turn) = Start(Current) /\ PairOK(Current) /\ TakeHeader(Current)
    BY Taking
<1>2. PICK q : q = Current
    OBVIOUS
<1>3. Between(Start(q))
    BY <1>1, <1>2, InvTypes DEF ProgressOK, Turn
<1>4. Start(q).p = q.from /\ Start(q).msg = q.msg
    BY DEF Start
<1>5. /\ out.header = <<>>
      /\ IF q.from = 0 THEN out.n = q.msg - 1 /\ out.left = <<>>
         ELSE out.n = q.msg /\ out.left = Rest(Start(q))
    BY <1>3, <1>4 DEF Between
<1>6. Held(q)
    BY <1>1, <1>2, InvTypes DEF CacheOK, Current
<1>7. /\ wire' = wire \o Header(sent[q.msg], q.from)
      /\ out' = [n |-> q.msg, header |-> Header(sent[q.msg], q.from),
                 left |-> IF q.from = 0 THEN sent[q.msg].data ELSE out.left]
    BY <1>1, <1>2, <1>6 DEF TakeHeader, Held
<1>8. q.from = 0 => sent[q.msg].data = Rest(Start(q))
  <2>1. q.msg \in Nat \ {0} /\ q.msg <= Len(sent)
    BY <1>1, <1>2, InvTypes, PairType
  <2>2. sent[q.msg].data \in Seq(Token)
    BY <2>1, InvTypes, MessageType
  <2> QED BY <1>4, <2>2, WholePrefix DEF Rest
<1>9. (IF q.from = 0 THEN sent[q.msg].data ELSE out.left) = Rest(Start(q))
    BY <1>5, <1>8
<1> QED BY <1>2, <1>5, <1>7, <1>9

\* The payload is put behind its header, and is what is next of its message.
LEMMA PayloadTaken ==
    ASSUME IovsInv, WriteIov, writev.taken % 2 # 0
    PROVE  /\ out.header = Header(sent[Current.msg], Current.from)
           /\ out.n = Current.msg /\ out.left = Rest(Start(Current))
           /\ Len(out.left) = Len(sent[Current.msg].data) - Current.from
           /\ wire' = wire \o SubSeq(out.left, 1, Current.len)
           /\ out' = [n |-> out.n, header |-> <<>>,
                      left |-> SubSeq(out.left, Current.len + 1, Len(out.left))]
           /\ out'.left = SubSeq(sent[Current.msg].data, (Current.from + Current.len) + 1,
                                 Len(sent[Current.msg].data))
<1>1. /\ ~broken /\ At(Turn) = Start(Current) /\ PairOK(Current) /\ TakePayload(Current)
    BY Taking
<1>2. PICK q : q = Current
    OBVIOUS
<1>3. Inside(Start(q))
    BY <1>1, <1>2, InvTypes DEF ProgressOK, Turn
<1>4. Start(q).p = q.from /\ Start(q).msg = q.msg
    BY DEF Start
<1>5. /\ out.header = Header(sent[q.msg], q.from) /\ out.n = q.msg
      /\ out.left = Rest(Start(q))
    BY <1>3, <1>4 DEF Inside
<1>6. /\ q.msg \in Nat \ {0} /\ q.msg <= Len(sent) /\ q.from \in Nat /\ q.len \in Nat \ {0}
      /\ q.from + q.len <= Len(sent[q.msg].data)
    BY <1>1, <1>2, InvTypes, PairType
<1>7. PICK d : d = sent[q.msg].data
    OBVIOUS
<1>8. d \in Seq(Token) /\ Len(d) \in Nat
    BY <1>6, <1>7, InvTypes, MessageType
<1>9. out.left = SubSeq(d, q.from + 1, Len(d))
    BY <1>4, <1>5, <1>7 DEF Rest
<1>10. Len(out.left) = Len(d) - q.from
  <2>1. q.from \in Nat /\ q.from <= Len(d)
    BY <1>6, <1>7, <1>8
  <2> QED BY <1>8, <1>9, <2>1, Suffix
<1>11. /\ SubSeq(out.left, 1, q.len) = SubSeq(d, q.from + 1, q.from + q.len)
       /\ SubSeq(out.left, q.len + 1, Len(out.left)) = SubSeq(d, (q.from + q.len) + 1, Len(d))
  <2>1. PICK a : a = q.from
    OBVIOUS
  <2>2. PICK b : b = q.len
    OBVIOUS
  <2>3. a \in Nat /\ b \in Nat /\ a + b <= Len(d)
    BY <1>6, <1>7, <2>1, <2>2
  <2>4. PICK r : r = SubSeq(d, a + 1, Len(d))
    OBVIOUS
  <2>5. SubSeq(r, 1, b) = SubSeq(d, a + 1, a + b)
    BY <1>8, <2>3, <2>4, Cut
  <2>6. SubSeq(r, b + 1, Len(r)) = SubSeq(d, (a + b) + 1, Len(d))
    BY <1>8, <2>3, <2>4, Cut
  <2> QED BY <1>9, <2>1, <2>2, <2>4, <2>5, <2>6
<1>12. /\ wire' = wire \o SubSeq(d, q.from + 1, q.from + q.len)
       /\ out' = [n |-> out.n, header |-> <<>>,
                  left |-> SubSeq(out.left, q.len + 1, Len(out.left))]
    BY <1>1, <1>2, <1>7 DEF TakePayload
<1>13. out'.left = SubSeq(d, (q.from + q.len) + 1, Len(d))
    BY <1>11, <1>12
<1> QED BY <1>2, <1>5, <1>7, <1>10, <1>11, <1>12, <1>13

\* As the message on the wire moves, what was written stays so.
LEMMA RetsMoved ==
    ASSUME RetsOK, ~broken, UNCHANGED <<rets, sent>>,
           \A u \in Nat : Written(u) => Written(u)'
    PROVE  RetsOK'
<1>1. rets' \in Seq(Ret)
    BY DEF RetsOK
<1>2. ASSUME NEW i \in 1..Len(rets')
      PROVE  /\ rets'[i].upto <= Len(sent')
             /\ rets'[i].ret = "success" => Written(rets[i].upto)'
  <2>1. /\ rets[i].upto \in Nat /\ rets[i].upto <= Len(sent)
        /\ rets[i].ret = "success" => Written(rets[i].upto)
    BY RetTypes DEF Lost
  <2>2. PICK u \in Nat : u = rets[i].upto
    BY <2>1
  <2>3. Written(u) => Written(u)'
    OBVIOUS
  <2>4. Written(rets[i].upto)' = Written(u)'
    BY <2>2 DEF Written
  <2> QED BY <2>1, <2>2, <2>3, <2>4
<1> QED BY <1>1, <1>2 DEF RetsOK

\* The payload of a message from a place on.
LEMMA RestType ==
    ASSUME SentOK, NEW q, PairOK(q)
    PROVE  /\ Rest(Start(q)) \in Seq(Token)
           /\ Len(Rest(Start(q))) = Len(sent[q.msg].data) - q.from
           /\ Len(Rest(Start(q))) \in 1..MaxLength
<1>1. /\ q.msg \in Nat \ {0} /\ q.msg <= Len(sent) /\ q.from \in Nat /\ q.len \in Nat \ {0}
      /\ q.from + q.len <= Len(sent[q.msg].data)
    BY PairType
<1>2. PICK d : d = sent[q.msg].data
    OBVIOUS
<1>3. d \in Seq(Token) /\ Len(d) \in 1..MaxLength
    BY <1>1, <1>2, MessageType
<1>4. PICK a : a = q.from
    OBVIOUS
<1>5. a \in Nat /\ a < Len(d)
    BY <1>1, <1>2, <1>3, <1>4
<1>6. Rest(Start(q)) = SubSeq(d, a + 1, Len(d))
    BY <1>2, <1>4 DEF Rest, Start
<1>7. SubSeq(d, a + 1, Len(d)) \in Seq(Token) /\ Len(SubSeq(d, a + 1, Len(d))) = Len(d) - a
    BY <1>3, <1>5, Suffix
<1>8. Len(d) - a \in 1..MaxLength
    BY <1>3, <1>5, Constants
<1> QED BY <1>2, <1>4, <1>6, <1>7, <1>8

LEMMA HeaderKeeps ==
    ASSUME IovsInv, WriteIov, writev.taken % 2 = 0
    PROVE  WireOK' /\ ProgressOK' /\ RetsOK'
<1>1. PICK q : q = Current
    OBVIOUS
<1>2. PICK h : h = Header(sent[q.msg], q.from)
    OBVIOUS
<1>3. PICK r : r = Rest(Start(q))
    OBVIOUS
<1>4. /\ out.header = <<>> /\ wire' = wire \o h
      /\ IF q.from = 0 THEN out.n = q.msg - 1 /\ out.left = <<>>
         ELSE out.n = q.msg /\ out.left = r
      /\ out' = [n |-> q.msg, left |-> r, header |-> h]
    BY <1>1, <1>2, <1>3, HeaderTaken
<1>5. /\ PairOK(q) /\ At(Turn) = Start(q) /\ ~broken /\ Turn \in 1..Len(out_iovs)
      /\ Turn' = Turn /\ writev'.taken % 2 = 1
      /\ UNCHANGED <<sent, pos, out_iovs, broken, rets>>
    BY <1>1, Taking
<1>6. /\ q.msg \in Nat \ {0} /\ q.msg <= Len(sent)
    BY <1>5, InvTypes, PairType
<1>7. r \in Seq(Token) /\ Len(r) \in 1..MaxLength
    BY <1>3, <1>5, InvTypes, RestType
<1>8. h \in Seq(Token) /\ Len(h) \in 1..MaxFmt0 /\ Len(h) \in Nat
    BY <1>2, <1>6, InvTypes, MessageType, HeaderType, SMTT(30)
<1>9. out'.n = q.msg /\ out'.left = r /\ out'.header = h
    BY <1>4
<1>10. WireOK'
  <2>1. wire' \in Seq(Token) /\ Len(wire') = Len(wire) + Len(h) /\ Len(wire) \in Nat
    BY <1>4, <1>8, InvTypes, ConcatElements
  <2>2. Before' = wire
    BY <1>4, <1>8, <1>9, InvTypes, Unappended DEF Before
  <2>3. Before = wire
    <3>1. Len(out.header) = 0
        BY <1>4
    <3> QED BY <2>1, <3>1, InvTypes, WholePrefix DEF Before
  <2>4. PICK l : l = Len(r)
    OBVIOUS
  <2>5. l \in Nat /\ l <= MaxLength
    BY <1>7, <2>4, Constants
  <2>6. Len(wire) + Len(out.left) * Weight <= out.n * (MaxLength * Weight)
    BY <2>3, InvTypes DEF WireOK
  <2>7. Len(wire) + l * Weight <= q.msg * (MaxLength * Weight)
    <3>1. CASE q.from = 0
        <4>1. out.n = q.msg - 1 /\ Len(out.left) = 0
            BY <1>4, <3>1
        <4>2. PICK n \in Nat : n = out.n
            BY InvTypes
        <4>3. n + 1 = q.msg
            BY <1>6, <4>1, <4>2
        <4>4. /\ n * (MaxLength * Weight) + l * Weight <= (n + 1) * (MaxLength * Weight)
              /\ n * (MaxLength * Weight) \in Nat
            BY <2>5, WeighedMore, Constants
        <4>5. Weight \in Nat /\ l * Weight \in Nat /\ (n + 1) * (MaxLength * Weight) \in Nat
            BY <2>5, Constants DEF Weight
        <4>6. 0 * Weight = 0
            BY <4>5
        <4>7. Len(wire) <= n * (MaxLength * Weight)
            BY <2>1, <2>6, <4>1, <4>2, <4>6
        <4>8. Len(wire) + l * Weight <= (n + 1) * (MaxLength * Weight)
            BY <2>1, <4>4, <4>5, <4>7
        <4> QED BY <4>3, <4>8
    <3>2. CASE q.from # 0
        BY <1>4, <2>4, <2>6, <3>2
    <3> QED BY <3>1, <3>2
  <2>8. Len(Before') + Len(out'.left) * Weight <= out'.n * (MaxLength * Weight)
    BY <1>9, <2>2, <2>4, <2>7
  <2>9. out' \in [n : Nat, left : Seq(Token), header : Seq(Token)]
    BY <1>4, <1>6, <1>7, <1>8
  <2>10. out'.n <= Len(sent') /\ Len(out'.header) <= Len(wire') /\ wire' = Before' \o out'.header
    BY <1>4, <1>5, <1>6, <1>8, <1>9, <2>1, <2>2
  <2> QED BY <2>1, <2>8, <2>9, <2>10 DEF WireOK
<1>11. ProgressOK'
  <2>1. At(Turn)' = Start(q)
    BY <1>5 DEF At, Start
  <2>2. PICK at : at = Start(q)
    OBVIOUS
  <2>3. at.p = q.from /\ at.msg = q.msg
    BY <2>2 DEF Start
  <2>4. Inside(at)'
    BY <1>2, <1>3, <1>5, <1>9, <2>2, <2>3 DEF Inside, Rest, Header
  <2> QED BY <1>5, <2>1, <2>2, <2>4 DEF ProgressOK, Turn
<1>12. RetsOK'
  <2>1. ASSUME NEW u \in Nat, Written(u) PROVE Written(u)'
    <3>1. out.n >= u /\ (out.n = u => out.left = <<>>)
        BY <2>1 DEF Written
    <3>2. CASE q.from = 0
        <4>1. out'.n = out.n + 1 /\ out.n \in Nat
            BY <1>4, <1>6, <1>9, <3>2, InvTypes
        <4>2. out'.n > u
            BY <3>1, <4>1
        <4> QED BY <4>1, <4>2 DEF Written
    <3>3. CASE q.from # 0
        BY <1>4, <1>9, <3>1, <3>3 DEF Written
    <3> QED BY <3>2, <3>3
  <2> QED BY <1>5, <2>1, InvTypes, RetsMoved
<1> QED BY <1>10, <1>11, <1>12

LEMMA PayloadKeeps ==
    ASSUME IovsInv, WriteIov, writev.taken % 2 # 0
    PROVE  WireOK' /\ ProgressOK' /\ RetsOK'
<1>1. PICK q : q = Current
    OBVIOUS
<1>2. PICK d : d = sent[q.msg].data
    OBVIOUS
<1>3. /\ out.header = Header(sent[q.msg], q.from)
      /\ out.n = q.msg /\ out.left = Rest(Start(q))
      /\ Len(out.left) = Len(d) - q.from
      /\ wire' = wire \o SubSeq(out.left, 1, q.len)
      /\ out' = [n |-> out.n, header |-> <<>>,
                 left |-> SubSeq(out.left, q.len + 1, Len(out.left))]
      /\ out'.left = SubSeq(d, (q.from + q.len) + 1, Len(d))
    BY <1>1, <1>2, PayloadTaken
<1>4. /\ PairOK(q) /\ At(Turn + 1) = Behind(q) /\ ~broken /\ Turn \in 1..Len(out_iovs)
      /\ Turn' = Turn + 1 /\ writev'.taken % 2 = 0
      /\ UNCHANGED <<sent, pos, out_iovs, broken, rets>>
    BY <1>1, Taking
<1>5. /\ q.msg \in Nat \ {0} /\ q.msg <= Len(sent) /\ q.from \in Nat /\ q.len \in Nat \ {0}
      /\ q.from + q.len <= Len(d)
    BY <1>2, <1>4, InvTypes, PairType
<1>6. d \in Seq(Token) /\ Len(d) \in Nat
    BY <1>2, <1>5, InvTypes, MessageType
<1>7. Len(out.header) \in Nat /\ Len(out.header) <= MaxFmt0
  <2>1. sent[q.msg] \in Sendable
    BY <1>5, InvTypes, MessageType
  <2>2. Len(Header(sent[q.msg], q.from)) \in 1..MaxFmt0
    BY <2>1, HeaderType
  <2> QED BY <1>3, <2>2, Constants
<1>8. PICK l : l = Len(out.left)
    OBVIOUS
<1>9. PICK c : c = q.len
    OBVIOUS
<1>10. l \in Nat /\ c \in Nat \ {0} /\ c <= l
    BY <1>3, <1>5, <1>6, <1>8, <1>9
<1>11. /\ SubSeq(out.left, 1, c) \in Seq(Token) /\ Len(SubSeq(out.left, 1, c)) = c
    BY <1>8, <1>10, InvTypes, Prefix
<1>12. /\ SubSeq(out.left, c + 1, Len(out.left)) \in Seq(Token)
       /\ Len(SubSeq(out.left, c + 1, Len(out.left))) = l - c
    BY <1>8, <1>10, InvTypes, Suffix
<1>13. out'.n = out.n /\ out'.header = <<>> /\ Len(out'.left) = l - c
    BY <1>3, <1>9, <1>12
<1>14. WireOK'
  <2>1. /\ wire' \in Seq(Token) /\ Len(wire') = Len(wire) + c
        /\ Len(wire) \in Nat /\ Len(wire') \in Nat
    <3>1. PICK x : x = SubSeq(out.left, 1, c)
        OBVIOUS
    <3>2. wire' = wire \o x
        BY <1>3, <1>9, <3>1
    <3>3. x \in Seq(Token) /\ Len(x) = c
        BY <1>11, <3>1
    <3>4. wire \in Seq(Token) /\ Len(wire) \in Nat
        BY InvTypes
    <3>5. wire \o x \in Seq(Token) /\ Len(wire \o x) = Len(wire) + Len(x)
        BY <3>3, <3>4, ConcatElements
    <3> QED BY <1>10, <3>2, <3>3, <3>4, <3>5
  <2>2. Before' = wire'
    <3>1. Len(out'.header) = 0
        BY <1>13
    <3>2. SubSeq(wire', 1, Len(wire')) = wire'
        BY <2>1, WholePrefix
    <3> QED BY <2>1, <3>1, <3>2 DEF Before
  <2>3. wire' = Before' \o out'.header
    BY <1>13, <2>1, <2>2
  <2>4. Len(wire) = Len(Before) + Len(out.header) /\ Len(Before) \in Nat
    <3>1. Len(out.header) <= Len(wire)
        BY InvTypes DEF WireOK
    <3>2. PICK k : k = Len(wire) - Len(out.header)
        OBVIOUS
    <3>3. k \in Nat /\ k <= Len(wire)
        BY <1>7, <2>1, <3>1, <3>2
    <3>4. Len(SubSeq(wire, 1, k)) = k
        BY <3>3, InvTypes, Prefix
    <3>5. Before = SubSeq(wire, 1, k)
        BY <3>2 DEF Before
    <3>6. Len(Before) = k
        BY <3>4, <3>5
    <3> QED BY <1>7, <2>1, <3>2, <3>3, <3>6
  <2>5. PICK h : h = Len(out.header)
    OBVIOUS
  <2>6. h + c + (l - c) * Weight <= l * Weight
    BY <1>7, <1>10, <2>5, Weighed, Constants
  <2>7. Len(Before) + l * Weight <= out.n * (MaxLength * Weight)
    BY <1>8, InvTypes DEF WireOK
  <2>8. (l - c) * Weight \in Int /\ l * Weight \in Int /\ out.n * (MaxLength * Weight) \in Int
    BY <1>10, InvTypes, Constants DEF Weight
  <2>9. Len(wire') + (l - c) * Weight <= out.n * (MaxLength * Weight)
    <3>1. PICK u : u = (l - c) * Weight
        OBVIOUS
    <3>2. PICK v : v = l * Weight
        OBVIOUS
    <3>3. PICK w : w = out.n * (MaxLength * Weight)
        OBVIOUS
    <3>4. u \in Int /\ v \in Int /\ w \in Int /\ h + c + u <= v /\ Len(Before) + v <= w
        BY <2>6, <2>7, <2>8, <3>1, <3>2, <3>3
    <3>5. Len(wire') = Len(Before) + h + c /\ Len(Before) \in Nat /\ h \in Nat
        BY <1>7, <1>10, <2>1, <2>4, <2>5
    <3>6. Len(wire') + u <= w
        BY <1>10, <3>4, <3>5
    <3> QED BY <3>1, <3>3, <3>6
  <2>10. Len(Before') + Len(out'.left) * Weight <= out'.n * (MaxLength * Weight)
    BY <1>13, <2>2, <2>9
  <2>11. out' \in [n : Nat, left : Seq(Token), header : Seq(Token)]
    <3>1. out.n \in Nat /\ <<>> \in Seq(Token)
        BY InvTypes, EmptySeq
    <3> QED BY <1>3, <1>9, <1>12, <3>1
  <2>12. out'.n <= Len(sent') /\ Len(out'.header) <= Len(wire')
    BY <1>3, <1>4, <1>5, <1>13, <2>1
  <2> QED BY <2>1, <2>3, <2>10, <2>11, <2>12 DEF WireOK
<1>15. ProgressOK'
  <2>1. PICK at : at = Behind(q)
    OBVIOUS
  <2>2. At(Turn)' = at
    <3>1. PICK k : k = Turn + 1
        OBVIOUS
    <3>2. At(k) = at /\ Turn' = k
        BY <1>4, <2>1, <3>1
    <3>3. At(k)' = At(k)
        BY <1>4 DEF At, Start
    <3>4. At(Turn)' = At(k)'
        BY <3>2 DEF At
    <3> QED BY <3>2, <3>3, <3>4
  <2>3. CASE q.from + q.len = Len(d)
    <3>1. at.p = 0 /\ at.msg = q.msg + 1
        BY <1>2, <2>1, <2>3 DEF Behind
    <3>2. out'.left = <<>>
        <4>1. out'.left = SubSeq(d, Len(d) + 1, Len(d))
            BY <1>3, <2>3
        <4>2. SubSeq(d, Len(d) + 1, Len(d)) = <<>>
            BY <1>6
        <4> QED BY <4>1, <4>2
    <3>3. Between(at)'
        BY <1>3, <1>5, <1>13, <3>1, <3>2 DEF Between
    <3> QED BY <1>4, <2>2, <3>3 DEF ProgressOK, Turn
  <2>4. CASE q.from + q.len # Len(d)
    <3>1. at.p = q.from + q.len /\ at.msg = q.msg /\ at.p # 0
        BY <1>2, <1>5, <2>1, <2>4 DEF Behind
    <3>2. out'.left = Rest(at)'
        BY <1>2, <1>3, <1>4, <3>1 DEF Rest
    <3>3. Between(at)'
        BY <1>3, <1>13, <3>1, <3>2 DEF Between
    <3> QED BY <1>4, <2>2, <3>3 DEF ProgressOK, Turn
  <2> QED BY <2>3, <2>4
<1>16. RetsOK'
  <2>1. ASSUME NEW u \in Nat, Written(u) PROVE Written(u)'
    <3>1. out.n >= u /\ (out.n = u => out.left = <<>>)
        BY <2>1 DEF Written
    <3>2. out.left # <<>>
        BY <1>8, <1>10
    <3> QED BY <1>13, <3>1, <3>2 DEF Written
  <2> QED BY <1>4, <2>1, InvTypes, RetsMoved
<1> QED BY <1>14, <1>15, <1>16

LEMMA WriteKeeps == IovsInv /\ WriteIov => IovsInv'
<1> SUFFICES ASSUME IovsInv, WriteIov PROVE IovsInv'
    OBVIOUS
<1>1. WireOK' /\ ProgressOK' /\ RetsOK'
    BY HeaderKeeps, PayloadKeeps
<1>2. broken' = broken
    BY Taking
<1> QED BY <1>1, <1>2, WriteKeepsDescribed, InvTypes DEF IovsInv

\* Once something was taken, or the connection holds, all that was called a success
\* is written.
LEMMA Truthful ==
    ASSUME IovsInv, ~broken \/ writev.taken > 0, NEW i \in 1..Len(rets),
           rets[i].ret = "success"
    PROVE  Written(rets[i].upto)
<1>1. Written(rets[i].upto) \/ Lost(i)
    BY InvTypes, RetTypes
<1>2. ~Lost(i)
    BY DEF Lost, Unstarted
<1> QED BY <1>1, <1>2

\* A writev ends in its middle for the array, or all of it is done with.
LEMMA WritevKeeps == IovsInv /\ WritevReturns => IovsInv'
<1> SUFFICES ASSUME IovsInv, WritevReturns PROVE IovsInv'
    OBVIOUS
<1>1. /\ pc = "write"
      /\ writev.taken = GroupEnd \/ (broken /\ writev.taken > writev.from)
      /\ UNCHANGED <<wire, sent, pos, cache, nb_out_iovs, broken, out>>
    BY DEF WritevReturns
<1>2. out_iovs # <<>> /\ IovIndex > 0
  <2>1. out_iovs # <<>>
    BY <1>1, InvTypes DEF PcOK
  <2>2. Len(out_iovs) > 0
    BY <2>1, InvTypes
  <2> QED BY <2>1, <2>2, InvTypes
<1>3. GroupEnd \in Nat /\ GroupEnd <= IovIndex /\ GroupEnd > 0
    BY <1>2, InvTypes, GroupType
<1>4. /\ writev.taken > 0 /\ writev.taken <= GroupEnd
      /\ ~broken => writev.taken = GroupEnd
    BY <1>1, <1>3, InvTypes DEF PcOK
<1>5. ASSUME NEW i \in 1..Len(rets)
      PROVE  /\ rets[i].upto \in Nat /\ rets[i].upto <= Len(sent)
             /\ rets[i].ret = "success" => Written(rets[i].upto)
  <2>1. writev.taken > 0
    BY <1>1, <1>3, InvTypes DEF PcOK
  <2> QED BY <2>1, InvTypes, RetTypes, Truthful
<1>6. SentOK' /\ WireOK'
    BY <1>1, InvTypes DEF SentOK, WireOK, Before
<1>7. CASE GroupEnd < IovIndex
  <2>1. /\ writev' = [from |-> GroupEnd, taken |-> GroupEnd]
        /\ UNCHANGED <<out_iovs, cache_index, pc, rets>>
    BY <1>7 DEF WritevReturns
  <2>2. writev'.from = GroupEnd /\ writev'.taken = GroupEnd /\ IovIndex' = IovIndex
    BY <2>1 DEF IovIndex
  <2>3. PairsOK'
    BY <1>1, <2>1, InvTypes DEF PairsOK, PairOK, PositionOK, At, Behind, Start
  <2>4. CacheOK'
    BY <1>1, <1>3, <1>4, <2>1, <2>2, InvTypes DEF CacheOK, Held, Entry, Header
  <2>5. PcOK'
    <3>1. GroupEnd' = Smaller(IovIndex, GroupEnd + IovLimit)
        <4>1. ~(IovIndex < IovLimit)
            BY <1>7, InvTypes, Constants DEF GroupEnd
        <4> QED BY <2>2, <4>1 DEF GroupEnd
    <3>2. GroupEnd <= GroupEnd'
        BY <1>3, <3>1, InvTypes, Constants DEF Smaller
    <3> QED BY <1>1, <1>2, <1>3, <2>1, <2>2, <3>2 DEF PcOK
  <2>6. ProgressOK'
    BY <1>1, <1>4, <2>1, <2>2, InvTypes DEF ProgressOK, At, Start, Between, Inside, Rest, Header
  <2>7. RetsOK'
    <3>1. ASSUME NEW i \in 1..Len(rets')
          PROVE  /\ rets'[i].upto <= Len(sent')
                 /\ rets'[i].ret = "success" => Written(rets[i].upto)'
        BY <1>1, <1>5, <2>1 DEF Written
    <3> QED BY <2>1, <3>1, InvTypes DEF RetsOK
  <2> QED BY <1>1, <1>6, <2>3, <2>4, <2>5, <2>6, <2>7, InvTypes DEF IovsInv
<1>8. CASE ~(GroupEnd < IovIndex)
  <2>1. /\ writev' = [from |-> 0, taken |-> 0] /\ out_iovs' = <<>> /\ cache_index' = 0
        /\ \/ pos.msg <= Len(sent) /\ pc' = "describe" /\ UNCHANGED rets
           \/ ~(pos.msg <= Len(sent)) /\ pc' = "idle" /\ Returns("success")
    BY <1>8 DEF WritevReturns
  <2>2. Len(out_iovs') = 0 /\ IovIndex' = 0 /\ writev'.taken = 0 /\ writev'.from = 0
    BY <2>1 DEF IovIndex
  <2>3. PairsOK'
    <3>1. PositionOK(pos)'
        BY <1>1, InvTypes DEF PairsOK, PositionOK
    <3> QED BY <2>1, <2>2, <3>1 DEF PairsOK
  <2>4. CacheOK'
    BY <1>1, <2>1, <2>2, InvTypes DEF CacheOK, Entry
  <2>5. pos.msg > Len(sent) => pos = [msg |-> Len(sent) + 1, p |-> 0]
    <3>1. PositionOK(pos)
        BY InvTypes DEF PairsOK
    <3> QED BY <3>1, InvTypes DEF PositionOK, Position
  <2>6. pos.msg \in Nat
    BY InvTypes DEF PairsOK, PositionOK, Position
  <2>7. PcOK'
    <3>1. GroupEnd' \in Nat
        BY <2>2, Constants DEF GroupEnd, Smaller
    <3> QED BY <1>1, <2>1, <2>2, <2>5, <2>6, <3>1, InvTypes, Constants, SMTT(30) DEF PcOK, Unstarted
  <2>8. ~broken => Between(pos)
    <3>1. ASSUME ~broken PROVE writev.taken \div 2 + 1 = Len(out_iovs) + 1 /\ writev.taken % 2 = 0
        <4>1. PICK k \in Nat : k = Len(out_iovs)
            BY InvTypes
        <4>2. writev.taken = 2 * k
            BY <1>3, <1>4, <1>8, <3>1, <4>1, InvTypes
        <4>3. (2 * k) \div 2 = k /\ (2 * k) % 2 = 0
            OBVIOUS
        <4> QED BY <4>1, <4>2, <4>3
    <3>2. At(Len(out_iovs) + 1) = pos
        BY InvTypes DEF At
    <3> QED BY <3>1, <3>2, InvTypes DEF ProgressOK
  <2>9. ProgressOK'
    <3>1. writev'.taken \div 2 + 1 = 1 /\ writev'.taken % 2 = 0
        BY <2>2
    <3>2. At(1)' = pos
        BY <1>1, <2>2 DEF At
    <3>3. ~broken' => Between(pos)'
        BY <1>1, <2>8 DEF Between, Rest
    <3> QED BY <1>1, <3>1, <3>2, <3>3 DEF ProgressOK
  <2>10. CASE UNCHANGED rets
    <3>1. ASSUME NEW i \in 1..Len(rets')
          PROVE  /\ rets'[i].upto <= Len(sent')
                 /\ rets'[i].ret = "success" => Written(rets[i].upto)'
        BY <1>1, <1>5, <2>10 DEF Written
    <3>2. RetsOK'
        BY <2>10, <3>1, InvTypes DEF RetsOK
    <3> QED BY <1>1, <1>6, <2>3, <2>4, <2>7, <2>9, <3>2, InvTypes DEF IovsInv
  <2>11. CASE ~(pos.msg <= Len(sent)) /\ Returns("success")
    <3>1. PICK r : r = [ret |-> "success", upto |-> Len(sent)]
        OBVIOUS
    <3>2. r \in Ret /\ r.ret = "success" /\ r.upto = Len(sent)
        BY <3>1, InvTypes DEF Ret
    <3>3. rets \in Seq(Ret) /\ rets' = Append(rets, r)
        BY <2>11, <3>1, InvTypes DEF RetsOK, Returns
    <3>4. /\ rets' \in Seq(Ret) /\ Len(rets') = Len(rets) + 1 /\ Len(rets) \in Nat
          /\ \A i \in 1..Len(rets) : rets'[i] = rets[i]
          /\ rets'[Len(rets) + 1] = r
        BY <3>2, <3>3, AppendProperties
    <3>5. ASSUME NEW i \in 1..Len(rets'), i = Len(rets) + 1, broken PROVE Lost(i)'
        BY <1>1, <2>1, <3>4, <3>5 DEF Lost, Unstarted
    <3>6. ~broken => out.n = Len(sent) /\ out.left = <<>>
        BY <2>5, <2>6, <2>8, <2>11, InvTypes DEF Between
    <3>7. ~broken => Written(Len(sent))
        BY <3>6, InvTypes DEF Written
    <3>8. ASSUME NEW i \in 1..Len(rets')
          PROVE  /\ rets'[i].upto <= Len(sent')
                 /\ rets'[i].ret = "success" => Written(rets[i].upto)' \/ Lost(i)'
        <4>1. CASE i = Len(rets) + 1
            <5>1. rets'[i].upto = Len(sent) /\ sent' = sent
                BY <1>1, <3>2, <3>4, <4>1
            <5>2. Written(rets[i].upto)' \/ Lost(i)'
                <6>0. PICK u : u = Len(sent)
                    OBVIOUS
                <6>1. Written(Len(sent)) => Written(rets[i].upto)'
                    <7>1. Written(u) => Written(u)'
                        BY <1>1 DEF Written
                    <7>2. Written(rets[i].upto)' = Written(u)'
                        BY <5>1, <6>0 DEF Written
                    <7> QED BY <6>0, <7>1, <7>2
                <6>2. CASE broken
                    BY <3>5, <4>1, <6>2
                <6>3. CASE ~broken
                    BY <3>7, <6>1, <6>3
                <6> QED BY <6>2, <6>3
            <5> QED BY <5>1, <5>2, InvTypes
        <4>2. CASE i # Len(rets) + 1
            <5>1. i \in 1..Len(rets) /\ rets'[i] = rets[i]
                BY <3>4, <4>2
            <5> QED BY <1>1, <1>5, <5>1 DEF Written
        <4> QED BY <4>1, <4>2
    <3>9. RetsOK'
        BY <3>4, <3>8 DEF RetsOK
    <3> QED BY <1>1, <1>6, <2>3, <2>4, <2>7, <2>9, <3>9, InvTypes DEF IovsInv
  <2> QED BY <2>1, <2>10, <2>11
<1> QED BY <1>7, <1>8

\* A writev that fails ends the calls of the connection.
LEMMA FailKeeps == IovsInv /\ WritevFails => IovsInv'
<1> SUFFICES ASSUME IovsInv, WritevFails PROVE IovsInv'
    OBVIOUS
<1>1. /\ pc' = "idle" /\ broken /\ Returns("error")
      /\ UNCHANGED <<wire, sent, pos, cache, cache_index, out_iovs, nb_out_iovs, writev,
                     broken, out>>
    BY DEF WritevFails
<1>2. SentOK' /\ WireOK'
    BY <1>1, InvTypes DEF SentOK, WireOK, Before
<1>3. PairsOK'
    BY <1>1, InvTypes DEF PairsOK, PairOK, PositionOK, At, Behind, Start
<1>4. CacheOK'
    BY <1>1, InvTypes DEF CacheOK, Held, Entry, Header, IovIndex
<1>5. ProgressOK'
    BY <1>1 DEF ProgressOK
<1>6. PICK r : r = [ret |-> "error", upto |-> Len(sent)]
    OBVIOUS
<1>7. r \in Ret /\ r.ret = "error" /\ r.upto = Len(sent)
    BY <1>6, InvTypes DEF Ret
<1>8. rets \in Seq(Ret) /\ rets' = Append(rets, r)
    BY <1>1, <1>6, InvTypes DEF RetsOK, Returns
<1>9. /\ rets' \in Seq(Ret) /\ Len(rets') = Len(rets) + 1 /\ Len(rets) \in Nat
      /\ \A i \in 1..Len(rets) : rets'[i] = rets[i]
      /\ rets'[Len(rets) + 1] = r
    BY <1>7, <1>8, AppendProperties
<1>10. PcOK'
  <2>1. ~NoError'
    BY <1>7, <1>9 DEF NoError
  <2>2. GroupEnd' = GroupEnd
    BY <1>1 DEF GroupEnd, IovIndex
  <2> QED BY <1>1, <2>1, <2>2, InvTypes DEF PcOK
<1>11. ASSUME NEW i \in 1..Len(rets')
       PROVE  /\ rets'[i].upto <= Len(sent')
              /\ rets'[i].ret = "success" => Written(rets[i].upto)' \/ Lost(i)'
  <2>1. CASE i = Len(rets) + 1
    BY <1>1, <1>7, <1>9, <2>1, InvTypes
  <2>2. CASE i # Len(rets) + 1
    <3>1. i \in 1..Len(rets) /\ rets'[i] = rets[i]
        BY <1>9, <2>2
    <3>2. /\ rets[i].upto <= Len(sent)
          /\ rets[i].ret = "success" => Written(rets[i].upto) \/ Lost(i)
        BY <3>1, InvTypes, RetTypes
    <3>3. Written(rets[i].upto) => Written(rets[i].upto)'
        BY <1>1, <3>1 DEF Written
    <3>4. Lost(i) => Lost(i)'
        <4>1. ASSUME NEW j \in 1..Len(rets'), j > i, Lost(i) PROVE rets'[j].ret # "success"
            <5>1. CASE j = Len(rets) + 1
                BY <1>7, <1>9, <5>1
            <5>2. CASE j # Len(rets) + 1
                BY <1>9, <4>1, <5>2 DEF Lost
            <5> QED BY <5>1, <5>2
        <4> QED BY <1>1, <4>1 DEF Lost, Unstarted
    <3> QED BY <1>1, <3>1, <3>2, <3>3, <3>4
  <2> QED BY <2>1, <2>2
<1>12. RetsOK'
    BY <1>9, <1>11 DEF RetsOK
<1> QED BY <1>1, <1>2, <1>3, <1>4, <1>5, <1>10, <1>12, InvTypes DEF IovsInv

LEMMA BreakKeeps == IovsInv /\ Break => IovsInv'
<1> SUFFICES ASSUME IovsInv, Break PROVE IovsInv'
    OBVIOUS
<1>1. /\ broken' = TRUE
      /\ UNCHANGED <<wire, sent, pos, cache, cache_index, out_iovs, nb_out_iovs, writev, pc,
                     rets, out>>
    BY DEF Break
<1>2. SentOK' /\ WireOK'
    BY <1>1, InvTypes DEF SentOK, WireOK, Before
<1>3. PairsOK'
    BY <1>1, InvTypes DEF PairsOK, PairOK, PositionOK, At, Behind, Start
<1>4. CacheOK'
    BY <1>1, InvTypes DEF CacheOK, Held, Entry, Header, IovIndex
<1>5. PcOK'
    BY <1>1, InvTypes DEF PcOK, Unstarted, NoError, GroupEnd, IovIndex
<1>6. ProgressOK'
    BY <1>1 DEF ProgressOK
<1>7. RetsOK'
    BY <1>1, InvTypes, RetsKept
<1> QED BY <1>1, <1>2, <1>3, <1>4, <1>5, <1>6, <1>7 DEF IovsInv

LEMMA StutterKeeps == IovsInv /\ UNCHANGED sendVars => IovsInv'
<1> SUFFICES ASSUME IovsInv, UNCHANGED sendVars PROVE IovsInv'
    OBVIOUS
<1>1. UNCHANGED <<wire, sent, pos, cache, cache_index, out_iovs, nb_out_iovs, writev, pc,
                  broken, rets, out>>
    BY DEF sendVars
<1>2. SentOK' /\ WireOK'
    BY <1>1, InvTypes DEF SentOK, WireOK, Before
<1>3. PairsOK'
    BY <1>1, InvTypes DEF PairsOK, PairOK, PositionOK, At, Behind, Start
<1>4. CacheOK'
    BY <1>1, InvTypes DEF CacheOK, Held, Entry, Header, IovIndex
<1>5. PcOK'
    BY <1>1, InvTypes DEF PcOK, Unstarted, NoError, GroupEnd, IovIndex
<1>6. ProgressOK'
    BY <1>1, InvTypes DEF ProgressOK, At, Start, Between, Inside, Rest, Header
<1>7. RetsOK'
    BY <1>1, InvTypes, RetsKept
<1> QED BY <1>1, <1>2, <1>3, <1>4, <1>5, <1>6, <1>7, InvTypes DEF IovsInv

LEMMA IovsNext == IovsInv /\ [Next]_sendVars => IovsInv'
BY SendKeeps, DescribeKeeps, WriteKeeps, WritevKeeps, FailKeeps, BreakKeeps, StutterKeeps
   DEF Next

THEOREM IovsInvariant == Spec => []IovsInv
BY IovsInit, IovsNext, PTL DEF Spec

(***************************************************************************)
(* What follows from it.                                                   *)
(***************************************************************************)

(***************************************************************************)
(* do_send_messages never asserts nor runs out of iovecs, and the kernel   *)
(* finds the header of each chunk it has not taken yet where the iovec     *)
(* points, however small the cache is and however the writevs are cut.     *)
(***************************************************************************)
THEOREM CacheAlwaysHolds == Spec => []CacheHolds
<1>1. IovsInv => CacheHolds
  <2> SUFFICES ASSUME IovsInv PROVE CacheHolds
    OBVIOUS
  <2>1. pc # "aborted"
    BY InvTypes DEF PcOK
  <2>2. IovIndex <= nb_out_iovs
    BY InvTypes DEF CacheOK
  <2>3. \A o \in DOMAIN cache : o + Len(cache[o]) <= HeadersMax
    BY InvTypes DEF CacheOK, Entry
  <2>4. ASSUME NEW i \in DOMAIN out_iovs, 2 * i - 1 > writev.taken
        PROVE  /\ out_iovs[i].place \in DOMAIN cache
               /\ cache[out_iovs[i].place] = Header(sent[out_iovs[i].msg], out_iovs[i].from)
    <3>1. i \in 1..Len(out_iovs)
        BY InvTypes
    <3>2. Held(out_iovs[i])
        BY <2>4, <3>1, InvTypes DEF CacheOK
    <3> QED BY <3>2 DEF Held
  <2> QED BY <2>1, <2>2, <2>3, <2>4 DEF CacheHolds
<1> QED BY <1>1, IovsInvariant, PTL

(***************************************************************************)
(* A call of send_and_free_messages that returned success has written all  *)
(* it was given, unless it is the last one and the connection is lost.     *)
(***************************************************************************)
THEOREM SuccessIsWritten == Spec => []ReportedIsWritten
<1>1. IovsInv => ReportedIsWritten
  <2> SUFFICES ASSUME IovsInv, NEW i \in DOMAIN rets, rets[i].ret = "success",
                      ~broken \/ \E j \in DOMAIN rets : j > i /\ rets[j].ret = "success"
               PROVE  Written(rets[i].upto)
    BY DEF ReportedIsWritten
  <2>1. rets \in Seq(Ret) /\ DOMAIN rets = 1..Len(rets)
    BY InvTypes DEF RetsOK
  <2>2. Written(rets[i].upto) \/ Lost(i)
    BY <2>1, InvTypes, RetTypes
  <2>3. ~Lost(i)
    BY <2>1 DEF Lost
  <2> QED BY <2>2, <2>3
<1> QED BY <1>1, IovsInvariant, PTL

(***************************************************************************)
(* The refinement, step by step.                                           *)
(***************************************************************************)

\* The messages of which something is on the wire.
OnWire == SubSeq(sent, 1, out.n)

LEMMA OnWireType ==
    ASSUME IovsInv
    PROVE  /\ OnWire \in Seq(Sendable) /\ Len(OnWire) = out.n
           /\ out.n \in Nat /\ out.n <= Len(sent)
           /\ \A i \in 1..out.n : OnWire[i] = sent[i]
<1>1. PICK k : k = out.n
    OBVIOUS
<1>2. k \in Nat /\ k <= Len(sent) /\ sent \in Seq(Sendable)
    BY <1>1, InvTypes DEF WireOK
<1>3. /\ SubSeq(sent, 1, k) \in Seq(Sendable) /\ Len(SubSeq(sent, 1, k)) = k
      /\ \A i \in 1..k : SubSeq(sent, 1, k)[i] = sent[i]
    BY <1>2, Prefix
<1> QED BY <1>1, <1>2, <1>3 DEF OnWire

\* A step that leaves the wire alone is none of the writer.
LEMMA WriterRests ==
    ASSUME OnWire' = OnWire, UNCHANGED <<wire, out>>
    PROVE  UNCHANGED <<Writer!writerVars, Before>>
BY DEF Writer!writerVars, Before, OnWire

\* A call lengthens what is to be sent.
LEMMA CallStep ==
    ASSUME IovsInv, SendAndFreeMessages
    PROVE  UNCHANGED <<Writer!writerVars, Before>>
<1>1. UNCHANGED <<wire, out>>
    BY DEF SendAndFreeMessages
<1>2. PICK n \in Nat : /\ sent' \in Seq(Sendable) /\ Len(sent') = Len(sent) + n
                       /\ \A i \in 1..Len(sent) : sent'[i] = sent[i]
    BY BatchSent
<1>3. PICK k : k = out.n
    OBVIOUS
<1>4. k \in Nat /\ k <= Len(sent) /\ k <= Len(sent')
    BY <1>2, <1>3, OnWireType, InvTypes
<1>5. /\ SubSeq(sent, 1, k) \in Seq(Sendable) /\ Len(SubSeq(sent, 1, k)) = k
      /\ \A i \in 1..k : SubSeq(sent, 1, k)[i] = sent[i]
    BY <1>4, InvTypes, Prefix
<1>6. /\ SubSeq(sent', 1, k) \in Seq(Sendable) /\ Len(SubSeq(sent', 1, k)) = k
      /\ \A i \in 1..k : SubSeq(sent', 1, k)[i] = sent'[i]
    BY <1>2, <1>4, Prefix
<1>7. ASSUME NEW i \in 1..k PROVE SubSeq(sent', 1, k)[i] = SubSeq(sent, 1, k)[i]
  <2>1. i \in 1..Len(sent)
    BY <1>4, InvTypes
  <2> QED BY <1>2, <1>5, <1>6, <2>1
<1>8. SubSeq(sent', 1, k) = SubSeq(sent, 1, k)
    BY <1>5, <1>6, <1>7, SeqEqual
<1>9. OnWire' = OnWire
    BY <1>1, <1>3, <1>8 DEF OnWire
<1> QED BY <1>1, <1>9, WriterRests

\* What is put on the wire behind an entire chunk.
LEMMA BeforeHeader ==
    ASSUME IovsInv, WriteIov, writev.taken % 2 = 0
    PROVE  Before = wire /\ Before' = wire
<1>1. PICK q : q = Current
    OBVIOUS
<1>2. PICK h : h = Header(sent[q.msg], q.from)
    OBVIOUS
<1>3. /\ out.header = <<>> /\ wire' = wire \o h /\ out'.header = h
    BY <1>1, <1>2, HeaderTaken
<1>4. PairOK(q)
    BY <1>1, Taking
<1>5. q.msg \in Nat \ {0} /\ q.msg <= Len(sent)
    BY <1>4, InvTypes, PairType
<1>6. h \in Seq(Token)
    BY <1>2, <1>5, InvTypes, MessageType, HeaderType
<1>7. Before' = wire
    BY <1>3, <1>6, InvTypes, Unappended DEF Before
<1>8. Before = wire
  <2>1. Len(out.header) = 0 /\ Len(wire) \in Nat
    BY <1>3, InvTypes
  <2> QED BY <2>1, InvTypes, WholePrefix DEF Before
<1> QED BY <1>7, <1>8

\* The first header of a message begins it; the others belong to their chunk.
LEMMA HeaderStep ==
    ASSUME IovsInv, WriteIov, writev.taken % 2 = 0
    PROVE  Writer!SendMessage \/ UNCHANGED <<Writer!writerVars, Before>>
<1>1. PICK q : q = Current
    OBVIOUS
<1>2. /\ IF q.from = 0 THEN out.n = q.msg - 1 /\ out.left = <<>>
         ELSE out.n = q.msg /\ out.left = Rest(Start(q))
      /\ out'.n = q.msg /\ out'.left = Rest(Start(q))
    BY <1>1, HeaderTaken
<1>3. PairOK(q) /\ sent' = sent
    BY <1>1, Taking
<1>4. /\ q.msg \in Nat \ {0} /\ q.msg <= Len(sent)
    BY <1>3, InvTypes, PairType
<1>5. Before' = Before
    BY BeforeHeader
<1>6. CASE q.from = 0
  <2>1. PICK n : n = out.n
    OBVIOUS
  <2>2. n \in Nat /\ n + 1 = q.msg /\ n + 1 <= Len(sent) /\ n < MaxMessages
    <3>1. n = q.msg - 1
        BY <1>2, <1>6, <2>1
    <3>2. Len(sent) \in Nat /\ Len(sent) <= MaxMessages /\ MaxMessages \in Nat
        BY InvTypes, Constants
    <3> QED BY <1>4, <3>1, <3>2
  <2>3. PICK m \in Outgoing : sent[n + 1] = Writer!Numbered(m, n + 1)
    BY <2>2, InvTypes, SMTT(30) DEF SentOK
  <2>4. OnWire' = Append(OnWire, sent[n + 1])
    <3>1. OnWire = SubSeq(sent, 1, n) /\ OnWire' = SubSeq(sent, 1, n + 1)
        BY <1>2, <1>3, <2>1, <2>2 DEF OnWire
    <3>2. SubSeq(sent, 1, n + 1) = Append(SubSeq(sent, 1, n), sent[n + 1])
        BY <2>2, InvTypes, OneLonger
    <3> QED BY <3>1, <3>2
  <2>5. Len(OnWire) = n
    BY <2>1, OnWireType
  <2>6. out'.left = sent[n + 1].data
    <3>1. sent[q.msg].data \in Seq(Token)
        BY <1>4, InvTypes, MessageType
    <3>2. Start(q).p = 0 /\ Start(q).msg = q.msg
        BY <1>6 DEF Start
    <3> QED BY <1>2, <2>2, <3>1, <3>2, WholePrefix DEF Rest
  <2>7. out.left = <<>> /\ Len(OnWire) < MaxMessages
    BY <1>2, <1>6, <2>2, <2>5
  <2>8. OnWire' = Append(OnWire, Writer!Numbered(m, Len(OnWire) + 1))
    BY <2>3, <2>4, <2>5
  <2>9. out'.left = Writer!Numbered(m, Len(OnWire) + 1).data
    BY <2>3, <2>5, <2>6
  <2>10. Writer!SendMessage
    BY <1>5, <2>7, <2>8, <2>9 DEF Writer!SendMessage, OnWire, Before
  <2> QED BY <2>10
<1>7. CASE q.from # 0
  <2>1. out'.n = out.n /\ out'.left = out.left
    BY <1>2, <1>7
  <2>2. OnWire' = OnWire
    BY <1>3, <2>1 DEF OnWire
  <2> QED BY <1>5, <2>1, <2>2 DEF Writer!writerVars, OnWire
<1> QED BY <1>6, <1>7

\* What precedes the chunk whose payload comes next, and what is there with it.
LEMMA BeforePayload ==
    ASSUME IovsInv, WriteIov, writev.taken % 2 # 0
    PROVE  /\ Before \in Seq(Token) /\ wire = Before \o out.header /\ Before' = wire'
           /\ Len(Before) <= out.n * (MaxLength * Weight)
<1>1. PICK q : q = Current
    OBVIOUS
<1>2. PICK x : x = SubSeq(out.left, 1, q.len)
    OBVIOUS
<1>3. wire' = wire \o x /\ out'.header = <<>>
      /\ Len(out.left) = Len(sent[q.msg].data) - q.from
  <2>1. /\ Len(out.left) = Len(sent[q.msg].data) - q.from
        /\ wire' = wire \o SubSeq(out.left, 1, q.len)
        /\ out' = [n |-> out.n, header |-> <<>>,
                   left |-> SubSeq(out.left, q.len + 1, Len(out.left))]
    BY <1>1, PayloadTaken
  <2> QED BY <1>2, <2>1
<1>4. PairOK(q)
    BY <1>1, Taking
<1>5. q.len \in Nat /\ q.len <= Len(out.left) /\ Len(out.left) \in Nat
  <2>1. /\ q.msg \in Nat \ {0} /\ q.msg <= Len(sent) /\ q.from \in Nat /\ q.len \in Nat \ {0}
        /\ q.from + q.len <= Len(sent[q.msg].data)
    BY <1>4, InvTypes, PairType
  <2>2. PICK d : d = Len(sent[q.msg].data)
    OBVIOUS
  <2>3. d \in Nat /\ Len(out.left) = d - q.from /\ q.from + q.len <= d
    BY <1>3, <2>1, <2>2, InvTypes, MessageType
  <2>4. q.from \in Nat /\ q.len \in Nat
    BY <2>1
  <2> QED BY <2>3, <2>4
<1>6. x \in Seq(Token)
  <2>1. PICK c \in Nat : c = q.len
    BY <1>5
  <2> QED BY <1>2, <1>5, <2>1, InvTypes, Prefix
<1>7. Before' = wire'
  <2>1. wire' \in Seq(Token) /\ Len(wire') \in Nat
    BY <1>3, <1>6, InvTypes, ConcatElements
  <2>2. Len(out'.header) = 0
    BY <1>3
  <2> QED BY <2>1, <2>2, WholePrefix DEF Before
<1>8. Before \in Seq(Token)
  <2>1. Len(out.header) <= Len(wire) /\ Len(out.header) \in Nat /\ Len(wire) \in Nat
    BY InvTypes DEF WireOK
  <2>2. PICK k : k = Len(wire) - Len(out.header)
    OBVIOUS
  <2>3. k \in Nat /\ k <= Len(wire)
    BY <2>1, <2>2
  <2>4. SubSeq(wire, 1, k) \in Seq(Token)
    BY <2>3, InvTypes, Prefix
  <2> QED BY <2>2, <2>4 DEF Before
<1>9. Len(Before) <= out.n * (MaxLength * Weight)
  <2>1. Len(Before) + Len(out.left) * Weight <= out.n * (MaxLength * Weight)
    BY InvTypes DEF WireOK
  <2>2. PICK w : w = Weight
    OBVIOUS
  <2>3. w \in Nat /\ MaxLength * w \in Nat
    BY <2>2, Constants DEF Weight
  <2>4. Len(out.left) * w \in Nat /\ out.n * (MaxLength * w) \in Nat /\ Len(Before) \in Nat
    <3>1. Len(out.left) \in Nat /\ out.n \in Nat /\ Len(Before) \in Nat
        BY <1>5, <1>8, InvTypes
    <3>2. Len(out.left) * w \in Nat
        BY <2>3, <3>1
    <3>3. out.n * (MaxLength * w) \in Nat
        BY <2>3, <3>1
    <3> QED BY <3>1, <3>2, <3>3
  <2>5. Len(Before) + Len(out.left) * w <= out.n * (MaxLength * w)
    BY <2>1, <2>2
  <2>6. Len(Before) <= out.n * (MaxLength * w)
    BY <2>4, <2>5
  <2> QED BY <2>2, <2>6
<1> QED BY <1>7, <1>8, <1>9, InvTypes DEF WireOK

\* With its payload a chunk is on the wire, and the writer has written it.
LEMMA PayloadStep ==
    ASSUME IovsInv, WriteIov, writev.taken % 2 # 0
    PROVE  Writer!WriteChunk
<1>1. PICK q : q = Current
    OBVIOUS
<1>2. PICK m : m = sent[q.msg]
    OBVIOUS
<1>3. /\ out.header = Header(m, q.from) /\ out.n = q.msg
      /\ Len(out.left) = Len(m.data) - q.from
      /\ wire' = wire \o SubSeq(out.left, 1, q.len)
      /\ out'.left = SubSeq(out.left, q.len + 1, Len(out.left)) /\ out'.n = out.n
  <2>1. /\ out.header = Header(sent[q.msg], q.from) /\ out.n = q.msg
        /\ Len(out.left) = Len(sent[q.msg].data) - q.from
        /\ wire' = wire \o SubSeq(out.left, 1, q.len)
        /\ out' = [n |-> out.n, header |-> <<>>,
                   left |-> SubSeq(out.left, q.len + 1, Len(out.left))]
    BY <1>1, PayloadTaken
  <2>2. out'.left = SubSeq(out.left, q.len + 1, Len(out.left)) /\ out'.n = out.n
    BY <2>1
  <2> QED BY <1>2, <2>1, <2>2
<1>4. PairOK(q) /\ sent' = sent
    BY <1>1, Taking
<1>5. /\ q.msg \in Nat \ {0} /\ q.msg <= Len(sent) /\ q.from \in Nat /\ q.len \in Nat \ {0}
      /\ q.from + q.len <= Len(m.data)
      /\ q.len = Smaller(DefaultChunkSize, Len(m.data) - q.from)
    BY <1>2, <1>4, InvTypes, PairType
<1>6. m.type # "SetChunkSize" /\ Len(m.data) \in Nat
    BY <1>2, <1>5, InvTypes, MessageType
<1>7. q.len = Writer!Smaller(Len(out.left), DefaultChunkSize)
    BY <1>3, <1>5, <1>6, Constants DEF Smaller, Writer!Smaller
<1>8. OnWire' = OnWire
    BY <1>3, <1>4 DEF OnWire
<1>9. Writer!Sending = m
  <2>3. Len(OnWire) = out.n /\ \A i \in 1..out.n : OnWire[i] = sent[i]
    BY OnWireType
  <2>1. Len(OnWire) = q.msg /\ q.msg \in 1..out.n
    <3>1. out.n = q.msg /\ q.msg \in Nat \ {0}
        BY <1>3, <1>5
    <3> QED BY <2>3, <3>1
  <2>2. OnWire[q.msg] = m
    BY <1>2, <2>1, <2>3
  <2> QED BY <2>1, <2>2 DEF Writer!Sending, OnWire
<1>10. out.header = IF Len(out.left) = Len(m.data)
                    THEN Writer!HeaderC0(m) ELSE Writer!HeaderC3(m)
    BY <1>3, <1>5, <1>6, SMTT(30) DEF Header
<1>11. Before' = Before \o out.header \o SubSeq(out.left, 1, q.len)
    BY <1>3, BeforePayload
<1>12. Len(Before) < MaxMessages * (MaxLength * Weight) + 1
  <2>1. PICK w : w = MaxLength * Weight
    OBVIOUS
  <2>2. w \in Nat
    BY <2>1, Constants DEF Weight
  <2>3. out.n \in Nat /\ out.n <= MaxMessages
    BY OnWireType, InvTypes, Constants
  <2>4. out.n * w <= MaxMessages * w /\ out.n * w \in Nat /\ MaxMessages * w \in Nat
    BY <2>2, <2>3, Constants
  <2>5. Len(Before) <= out.n * w /\ Len(Before) \in Nat
    BY <2>1, BeforePayload
  <2>6. Len(Before) < MaxMessages * w + 1
    BY <2>4, <2>5
  <2> QED BY <2>1, <2>6
<1>13. out.left # <<>>
  <2>1. PICK d : d = Len(m.data)
    OBVIOUS
  <2>2. /\ d \in Nat /\ Len(out.left) = d - q.from
        /\ q.from \in Nat /\ q.len \in Nat \ {0} /\ q.from + q.len <= d
    BY <1>3, <1>5, <1>6, <2>1
  <2>3. Len(out.left) > 0
    BY <2>2
  <2> QED BY <2>3
<1>14. Writer!NewChunkSize = DefaultChunkSize
    BY <1>6, <1>9 DEF Writer!NewChunkSize
<1> QED BY <1>3, <1>7, <1>8, <1>9, <1>10, <1>11, <1>12, <1>13, <1>14
        DEF Writer!WriteChunk, OnWire, Before, Weight

\* Every step is one of the writer, or none.
LEMMA IovsStep ==
    IovsInv /\ [Next]_sendVars => [Writer!Send]_<<Writer!writerVars, Before>>
<1> SUFFICES ASSUME IovsInv, [Next]_sendVars
             PROVE  Writer!Send \/ UNCHANGED <<Writer!writerVars, Before>>
    OBVIOUS
<1>1. CASE SendAndFreeMessages
    BY <1>1, CallStep
<1>2. CASE WriteIov
  <2>1. CASE writev.taken % 2 = 0
    BY <1>2, <2>1, HeaderStep DEF Writer!Send
  <2>2. CASE writev.taken % 2 # 0
    BY <1>2, <2>2, PayloadStep DEF Writer!Send
  <2> QED BY <2>1, <2>2
<1>3. CASE DescribeChunk \/ WritevReturns \/ WritevFails \/ Break \/ UNCHANGED sendVars
  <2>1. UNCHANGED <<wire, sent, out>>
    BY <1>3 DEF DescribeChunk, WritevReturns, WritevFails, Break, sendVars
  <2>2. OnWire' = OnWire
    BY <2>1 DEF OnWire
  <2> QED BY <2>1, <2>2, WriterRests
<1> QED BY <1>1, <1>2, <1>3 DEF Next

(***************************************************************************)
(* send_and_free_messages implements ChunkWriter: the tokens the kernel    *)
(* has taken, a header without its payload left out, are those of a writer *)
(* that writes one chunk after the other.                                  *)
(***************************************************************************)
THEOREM ImplementsTheWriter == Spec => ImplementsWriter
<1>1. Init => Writer!WriterInit /\ wire = <<>>
  <2> SUFFICES ASSUME Init PROVE Writer!WriterInit
    BY DEF Init
  <2>1. sent = <<>> /\ out.n = 0 /\ out.left = <<>>
    BY DEF Init
  <2>2. SubSeq(sent, 1, out.n) = <<>>
    BY <2>1
  <2> QED BY <2>1, <2>2 DEF Writer!WriterInit
<1>2. Spec => [][Writer!Send]_<<Writer!writerVars, Before>>
    BY IovsInvariant, IovsStep, PTL DEF Spec
<1> QED BY <1>1, <1>2, PTL DEF Spec, ImplementsWriter, Before
=============================================================================
