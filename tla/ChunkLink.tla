----------------------------- MODULE ChunkLink -----------------------------
(***************************************************************************)
(* Two SrsProtocol objects joined by a TCP connection: the writer of one   *)
(* and the reader of the other, in one direction.  The acknowledgements    *)
(* and ping responses of the reader leave by its own writer, `responses';  *)
(* SrsProtocol does nothing with those it gets.  The connection stays up.  *)
(***************************************************************************)
EXTENDS ChunkReader, ChunkWriter

\* The encoder of a control packet writes what its decoder requires.
ASSUME LinkAssumption == \A m \in Outgoing : m.type \in ControlTypes => m.size >= ControlSize

linkVars == <<readerVars, writerVars>>

Init == ReaderInit /\ WriterInit

Reader == Receive /\ UNCHANGED writerVars
Writer == Send /\ UNCHANGED <<in_buffer, recv_bytes, read_bytes, chunks, cur, msg, pc,
                              control, delivered>>
Flush == ManualResponseFlush /\ UNCHANGED writerVars

Next == Reader \/ Writer \/ Flush

(***************************************************************************)
(* The writer is a loop that runs until the payload is written; the        *)
(* caller of recv_message calls it again and again.  Nobody has to send.   *)
(***************************************************************************)
Fairness ==
    /\ WF_linkVars(Reader)
    /\ WF_linkVars(WriteChunk /\ UNCHANGED <<in_buffer, recv_bytes, read_bytes, chunks, cur,
                                              msg, pc, control, delivered>>)

Spec == Init /\ [][Next]_linkVars /\ Fairness

----------------------------------------------------------------------------

\* The abstract channel.
Channel == INSTANCE MessageChannel WITH
    Messages <- {Numbered(m, n) : m \in Outgoing, n \in 1..MaxMessages},
    Stamp <- Stamped

(***************************************************************************)
(* The chunk protocol implements the channel: messages are neither lost,   *)
(* repeated nor reordered, whatever chunk streams they take, and each      *)
(* arrives in the end.                                                     *)
(***************************************************************************)
ImplementsChannel == Channel!Spec
=============================================================================
