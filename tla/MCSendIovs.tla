----------------------------- MODULE MCSendIovs -----------------------------
(* Bounds and constants for model checking SendIovs. *)
EXTENDS SendIovs

Media(cid, sid, size, ts) ==
    [cid |-> cid, type |-> "Media", sid |-> sid, ts |-> ts, size |-> size, value |-> 1]

\* Without and with an extended timestamp, of one chunk and of several.
Audio(sid) == Media(3, sid, 2, 1)
Video(sid) == Media(4, sid, 5, 1)
Late(sid) == Media(4, sid, 4, Extended)
Empty == Media(3, 1, 0, 1)

MCOutgoing == {Audio(1), Video(1), Late(1)}

\* Messages of the stream, of another one, and empty ones between them.
MCBatches ==
    { << Audio(1) >>, << Late(2) >>, << Empty >>, << Video(2), Audio(2), Audio(2) >>,
      << Late(1), Empty, Late(1), Audio(1) >>, << Audio(0), Late(0), Video(0), Audio(0) >> }

MCByte == [msg : 1..MaxMessages, i : 1..MaxLength, value : {1}]
MCValue(t) == 1
=============================================================================
