----------------------------- MODULE ChunkWire -----------------------------
(***************************************************************************)
(* The RTMP chunk stream between two SrsProtocol objects                   *)
(* (srs_rtmp_stack.cpp): the constants of the protocol and the bytes in    *)
(* flight, which ChunkReader takes off the wire and ChunkWriter and        *)
(* PeerLink put on it.                                                     *)
(*                                                                         *)
(* The wire is a sequence of tokens.  A basic header and a message header  *)
(* are one token each (the code waits for all their bytes with one         *)
(* grow()); an extended timestamp is ExtWidth tokens and a payload is one  *)
(* token per byte, because skip(-4) can give back bytes read as an         *)
(* extended timestamp.                                                     *)
(***************************************************************************)
EXTENDS Integers, Sequences

CONSTANTS
    Cids,             \* chunk stream ids in use
    ProtocolControl,  \* RTMP_CID_ProtocolControl
    Sids,             \* message stream ids
    MaxLength,        \* the largest payload length a header holds, 0xFFFFFF
    Byte,             \* payload bytes
    Extended,         \* RTMP_EXTENDED_TIMESTAMP, 0xFFFFFF in the code
    Mask,             \* 2^31: a reader takes timestamps modulo Mask
    Raw,              \* 2^32: the range of a field of 4 bytes
    ExtWidth,         \* the width of that field, 4 in the code
    DefaultChunkSize, \* SRS_CONSTS_RTMP_PROTOCOL_CHUNK_SIZE, 128
    Value(_)          \* the number read from the bytes that start at a token

(***************************************************************************)
(* Ping is a user control message whose event is PingRequest; Media stands *)
(* for every type on_recv_message leaves to the caller.                    *)
(***************************************************************************)
ControlTypes == {"SetChunkSize", "WindowAckSize", "Ping"}
Types == ControlTypes \cup {"Media"}

BasicHeader   == [k : {"basic"}, fmt : 0..3, cid : Cids]
MessageHeader == [k : {"head"}, ts : 0..Extended,
                  len : 0..MaxLength, type : Types, sid : Sids]
ExtToken      == [k : {"ext"}, ts : 0..(Raw - 1), i : 1..ExtWidth]
DataToken     == [k : {"data"}, byte : Byte]
Token         == BasicHeader \cup MessageHeader \cup ExtToken \cup DataToken

ASSUME WireAssumption ==
    /\ ProtocolControl \in Cids
    /\ 0 \in Sids
    /\ Extended \in Nat /\ Mask \in Nat \ {0} /\ Raw \in Nat \ {0}
    /\ ExtWidth \in Nat \ {0}
    /\ MaxLength \in Nat
    /\ DefaultChunkSize \in Nat

ASSUME ValueAssumption == \A t \in Token : Value(t) \in Nat

VARIABLE wire  \* the bytes in flight: written to the socket, not yet read from it

NULL == -1

Message == [cid : Cids, type : Types, sid : Sids, ts : Nat, data : Seq(Token)]

ExtField(t) == [i \in 1..ExtWidth |-> [k |-> "ext", ts |-> t, i |-> i]]

\* The number a control payload encodes: its first bytes, big endian.
Decode(data) == Value(Head(data))

Smaller(a, b) == IF a < b THEN a ELSE b

=============================================================================
