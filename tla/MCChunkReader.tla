--------------------------- MODULE MCChunkReader ---------------------------
(***************************************************************************)
(* ChunkReader on every wire of at most MaxBytes tokens.  Bytes have no    *)
(* kind of their own, the parser takes them for what it waits for: a token *)
(* arrives when the reader waits for one, and is of that kind.  A payload  *)
(* byte may also stand where a header is due, which is the end of framing. *)
(* Wires that run ahead of the reader are in MCChunkLink.                  *)
(***************************************************************************)
EXTENDS ChunkReader

CONSTANTS MaxBytes  \* bound: tokens ever put on the wire

MCByte == {[value |-> 1], [value |-> 2]}
MCValue(t) == IF t.k = "data" THEN t.byte.value ELSE 1

Fitting == CASE pc = "basic"  -> BasicHeader \cup DataToken
             [] pc = "header" -> MessageHeader \cup DataToken
             [] OTHER         -> ExtToken \cup DataToken

FeedWaiting == /\ wire = <<>> /\ Len(in_buffer) < Required
               /\ read_bytes < HandshakeBytes + MaxBytes
               /\ Feed
               /\ wire'[1] \in Fitting

MCNext == FeedWaiting \/ Receive \/ ManualResponseFlush

MCSpec == ReaderInit /\ [][MCNext]_readerVars
=============================================================================
