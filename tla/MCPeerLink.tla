----------------------------- MODULE MCPeerLink ----------------------------
(* Bounds and constants for model checking PeerLink. *)
EXTENDS PeerLink

Media(cid, size, ts) ==
    [cid |-> cid, type |-> "Media", sid |-> 1, ts |-> ts, size |-> size, value |-> 1]
Control(type, value) ==
    [cid |-> ProtocolControl, type |-> type, sid |-> 0, ts |-> 0,
     size |-> ControlSize, value |-> value]

(***************************************************************************)
(* Streams 3 and 4 can be interleaved; on 3 the timestamps 1, 2, 4 make    *)
(* deltas equal to the one before, below and at the extended threshold.    *)
(***************************************************************************)
MCOutgoing ==
    { Media(3, 3, 1), Media(3, 3, 2), Media(3, 1, 2), Media(3, 3, 4), Media(4, 3, 5),
      Control("SetChunkSize", 1), Control("SetChunkSize", 3) }

\* A peer that waits for acknowledgements.
MCWindowed == { Media(3, 3, 0), Control("WindowAckSize", 4), Control("WindowAckSize", 5) }

Peer(outgoing, repeats, deltas, waits, slack) ==
    [outgoing |-> outgoing, repeats |-> repeats, deltas |-> deltas,
     waits |-> waits, slack |-> slack]

\* The slack is the longest message.
MCPeers == { Peer(MCOutgoing, TRUE, FALSE, FALSE, 0), Peer(MCOutgoing, FALSE, FALSE, FALSE, 0),
             Peer(MCWindowed, TRUE, FALSE, TRUE, 5) }

MCByte == [msg : 1..MaxMessages, i : 1..MaxLength, value : 1..5]
MCValue(t) == IF t.k = "data" THEN t.byte.value ELSE 1
=============================================================================
