---------------------------- MODULE FastBuffer -----------------------------
(***************************************************************************)
(* SrsFastBuffer (srs_protocol_buffer.cpp): the buffer in which            *)
(* SrsProtocol collects the bytes of its socket, and the calls             *)
(* recv_interlaced_message makes to it for each chunk: grow() to the size  *)
(* of the next part, read_slice() it.  A byte is its number in the stream, *)
(* so that a lost, repeated or stale byte shows.                           *)
(*                                                                         *)
(* ChunkReader takes grow() for a wait until enough bytes are there; this  *)
(* module says when that is so.                                            *)
(***************************************************************************)
EXTENDS Integers

CONSTANTS
    DefaultSize,   \* SRS_DEFAULT_RECV_BUFFER_SIZE
    MaxSize,       \* SRS_MAX_SOCKET_BUFFER
    HeaderSizes,   \* sizes of a basic header or a message header
    ExtSize,       \* size of an extended timestamp
    PayloadSizes,  \* sizes of the payload of a chunk
    BufferSizes,   \* arguments of set_buffer
    MaxReceived    \* bound: bytes the socket delivers

ASSUME BufferAssumption ==
    /\ DefaultSize \in Nat \ {0} /\ MaxSize \in Nat /\ DefaultSize <= MaxSize
    /\ HeaderSizes \subseteq Nat \ {0} /\ PayloadSizes \subseteq Nat \ {0}
    /\ ExtSize \in Nat \ {0}
    /\ BufferSizes \subseteq Nat
    /\ MaxReceived \in Nat

VARIABLES
    buffer,     \* what each byte of the allocation holds; 0: nothing yet
    nb_buffer,
    p, end,     \* the bytes p to end - 1 are read from the socket, not parsed
    call,       \* where the parser stands: between calls, in grow(), after it
    size,       \* required_size of the last grow()
    space,      \* nb_free_space, the local of grow()
    stage,      \* the part of a chunk the parser asks for
    taken,      \* bytes of the stream parsed
    received    \* bytes of the stream read from the socket

bufferVars == <<buffer, nb_buffer, p, end, call, size, space, stage, taken, received>>

Cells == 0..(MaxSize - 1)

BufferInit ==
    /\ buffer = [i \in Cells |-> 0]
    /\ nb_buffer = DefaultSize
    /\ p = 0 /\ end = 0
    /\ call = "idle" /\ size = 0 /\ space = 0
    /\ stage = "header"
    /\ taken = 0 /\ received = 0

Live == call \notin {"overflow", "abort"}

\* nb_resize_buf of set_buffer.
Resize(n) == IF n < MaxSize THEN n ELSE MaxSize

\* set_buffer: only ever a larger buffer; realloc keeps the bytes.  A handler of
\* merged reads sleeps inside grow(), so this can happen there too.
SetBuffer(n) ==
    /\ Live
    /\ nb_buffer' = IF Resize(n) <= nb_buffer THEN nb_buffer ELSE Resize(n)
    /\ UNCHANGED <<buffer, p, end, call, size, space, stage, taken, received>>

----------------------------------------------------------------------------
(* grow *)

Sizes == CASE stage = "header"  -> HeaderSizes
           [] stage = "ext"     -> {ExtSize}
           [] stage = "payload" -> PayloadSizes

Existing == end - p

\* The space behind end is too small, whatever is there already.
NeedsMove(n) == nb_buffer - end < n

\* Mutant: the last byte is left behind.
MovedOneShort == [i \in Cells |-> IF i < Existing - 1 THEN buffer[p + i] ELSE buffer[i]]

\* memmove of the bytes not parsed to the start of the buffer.
Moved == [i \in Cells |-> IF i < Existing THEN buffer[p + i] ELSE buffer[i]]

\* Mutant: what is parsed counts as free, moved away or not.
FreeSpaceUnmoved(e) == nb_buffer - (e - p)

\* nb_free_space when the bytes in the buffer end at e.
FreeSpace(e) == nb_buffer - e

\* Mutant: nb_free_space is not computed again after the move.
OverflowsUnmoved(n) == nb_buffer - end < n

\* Not enough room for n bytes behind those that were moved.
Overflows(n) == nb_buffer - Existing < n

\* grow() finds the bytes, or room for them, without a move.
GrowInPlace(n) ==
    /\ call = "idle" /\ n \in Sizes
    /\ Existing < n => ~NeedsMove(n)
    /\ size' = n
    /\ IF Existing >= n
       THEN call' = "grown" /\ UNCHANGED space
       ELSE call' = "growing" /\ space' = FreeSpace(end)
    /\ UNCHANGED <<buffer, nb_buffer, p, end, stage, taken, received>>

\* grow() moves the bytes to the start, and gives up when that makes too little
\* room: ERROR_READER_BUFFER_OVERFLOW.
GrowByMove(n) ==
    /\ call = "idle" /\ n \in Sizes
    /\ Existing < n /\ NeedsMove(n)
    /\ Existing < nb_buffer
    /\ size' = n
    /\ buffer' = Moved
    /\ p' = 0 /\ end' = Existing
    /\ IF Overflows(n)
       THEN call' = "overflow" /\ UNCHANGED space
       ELSE call' = "growing" /\ space' = FreeSpace(Existing)
    /\ UNCHANGED <<nb_buffer, stage, taken, received>>

\* srs_assert(nb_exists_bytes < nb_buffer) ends the process.
GrowAborts(n) ==
    /\ call = "idle" /\ n \in Sizes
    /\ Existing < n /\ NeedsMove(n)
    /\ Existing >= nb_buffer
    /\ size' = n
    /\ call' = "abort"
    /\ UNCHANGED <<buffer, nb_buffer, p, end, space, stage, taken, received>>

\* One read() of the loop: k bytes, at most the space.
Read(k) ==
    /\ call = "growing" /\ k \in 1..space
    /\ received + k <= MaxReceived
    /\ buffer' = [i \in Cells |-> IF i \in end..(end + k - 1)
                                  THEN received + 1 + (i - end) ELSE buffer[i]]
    /\ end' = end + k
    /\ received' = received + k
    /\ space' = space - k
    /\ call' = IF Existing + k >= size THEN "grown" ELSE "growing"
    /\ UNCHANGED <<nb_buffer, p, size, stage, taken>>

\* read() fails or times out: grow() returns the error, and the next
\* recv_message starts with a basic header.
ReadFails ==
    /\ call = "growing"
    /\ call' = "idle" /\ stage' = "header"
    /\ UNCHANGED <<buffer, nb_buffer, p, end, size, space, taken, received>>

\* What the parser may ask for next: a basic header of up to 3 bytes is read in
\* one or two calls; a message header, an extended timestamp and a payload follow
\* as far as the chunk has them.
After(s) == CASE s = "header" -> {"header", "ext", "payload"}
              [] s = "ext"    -> {"payload"}
              [] OTHER        -> {"header"}

\* read_slice of what grow() was called for.
ReadSlice ==
    /\ call = "grown"
    /\ p' = p + size /\ taken' = taken + size
    /\ call' = "idle"
    /\ stage' \in After(stage)
    /\ UNCHANGED <<buffer, nb_buffer, end, size, space, received>>

\* read_slice and skip(-4): the extended timestamp was payload.
GiveBack ==
    /\ call = "grown" /\ stage = "ext"
    /\ call' = "idle"
    /\ stage' = "payload"
    /\ UNCHANGED <<buffer, nb_buffer, p, end, size, space, taken, received>>

Grow == \E n \in Sizes : GrowInPlace(n) \/ GrowByMove(n) \/ GrowAborts(n)

BufferNext ==
    \/ \E n \in BufferSizes : SetBuffer(n)
    \/ Grow
    \/ \E k \in 1..space : Read(k)
    \/ ReadFails
    \/ ReadSlice
    \/ GiveBack

BufferSpec == BufferInit /\ [][BufferNext]_bufferVars

----------------------------------------------------------------------------

\* The pointers, sizes and counters are numbers, the cells hold numbers.
TypeOK ==
    /\ buffer \in [Cells -> Nat]
    /\ nb_buffer \in DefaultSize..MaxSize
    /\ p \in Nat /\ end \in Nat
    /\ call \in {"idle", "growing", "grown", "overflow", "abort"}
    /\ size \in Nat /\ space \in Nat
    /\ stage \in {"header", "ext", "payload"}
    /\ taken \in Nat /\ received \in Nat

(***************************************************************************)
(* The bytes between p and end are those of the stream that follow the     *)
(* parsed ones, in order: no move, no larger buffer and no read at the     *)
(* wrong place loses, repeats or mixes any.                                *)
(***************************************************************************)
Contents == \A i \in 0..(Existing - 1) : buffer[p + i] = taken + 1 + i

(***************************************************************************)
(* As long as grow() reads, read() gets room for a byte at least, all of   *)
(* it inside the allocation, although the buffer may have changed since    *)
(* nb_free_space was computed.                                             *)
(***************************************************************************)
ReadFits == call = "growing" => space > 0 /\ end + space <= nb_buffer

(***************************************************************************)
(* Chunks of up to half the buffer never overflow it: with the default     *)
(* buffer of 131072 bytes that is the largest chunk size of the protocol,  *)
(* 65536.                                                                  *)
(***************************************************************************)
HalfFits == ~Live => 2 * size > nb_buffer

\* The inductive invariant behind Contents, ReadFits and HalfFits.
BufferInv ==
    /\ TypeOK
    /\ p <= end /\ end <= nb_buffer
    /\ received = taken + Existing
    /\ Contents
    /\ call = "growing" => /\ end + space <= nb_buffer
                           /\ Existing < size /\ size <= Existing + space
    /\ call = "grown" => size <= Existing
    /\ HalfFits
=============================================================================
