---------------------------- MODULE MCChunkLink ----------------------------
(* Bounds and constants for model checking ChunkLink. *)
EXTENDS ChunkLink

Media(cid, size, ts) ==
    [cid |-> cid, type |-> "Media", sid |-> 1, ts |-> ts, size |-> size, value |-> 1]
Control(type, value) ==
    [cid |-> ProtocolControl, type |-> type, sid |-> 0, ts |-> 0,
     size |-> ControlSize, value |-> value]

(***************************************************************************)
(* Timestamps below, at and above the extended threshold, and with bit 31  *)
(* set; sizes of one chunk and of several; chunk sizes below and above the *)
(* default.                                                                *)
(***************************************************************************)
MCOutgoing ==
    { Media(3, 3, 1), Media(3, 3, Extended), Media(3, 3, Raw - 1), Media(4, 3, Mask),
      Control("SetChunkSize", 1), Control("SetChunkSize", 3),
      Control("WindowAckSize", 4), Control("Ping", 2) }

MCByte == [msg : 1..MaxMessages, i : 1..MaxLength, value : 1..4]
MCValue(t) == IF t.k = "data" THEN t.byte.value ELSE 1
=============================================================================
