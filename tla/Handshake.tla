----------------------------- MODULE Handshake -----------------------------
(***************************************************************************)
(* The handshake of an RTMP connection: SrsSimpleHandshake and             *)
(* SrsComplexHandshake of srs_rtmp_handshake.cpp, and the choice between   *)
(* them in SrsRtmpClient and SrsRtmpServer of srs_rtmp_stack.cpp.          *)
(*                                                                         *)
(* The bytes are taken in blocks: C0 and S0 are one byte, C1, S1, C2 and   *)
(* S2 are 1536 each.  A read_fully of a part takes as many blocks as the   *)
(* part has, whatever they are.  What C1, S1, C2 and S2 hold is in         *)
(* HandshakeDigest.                                                        *)
(***************************************************************************)
EXTENDS HandshakeDigest

CONSTANTS
    Makes,             \* the makes of clients: records with the fields below
    ServerOffsets      \* the offsets the server's S1 has, of its key and of its digest

(***************************************************************************)
(* handshake: the function of SrsRtmpClient: "any" for handshake(),        *)
(* "simple" or "complex".  ssl, server_ssl: whether the client and the     *)
(* server were built with SRS_AUTO_SSL.  A client of another make does the *)
(* simple handshake, with a C0 that may ask for encryption and with a C1   *)
(* that may hold a digest in one of the two schemas.  offsets: those of    *)
(* its C1, of the key and of the digest.                                   *)
(***************************************************************************)
Schemas == {"none", "schema0", "schema1"}
ASSUME HandshakeAssumption ==
    /\ \A m \in Makes : /\ m.handshake \in {"any", "simple", "complex"}
                        /\ m.ssl \in BOOLEAN /\ m.server_ssl \in BOOLEAN
                        /\ m.plain \in BOOLEAN /\ m.schema \in Schemas
                        /\ m.offsets \in Nat \X Nat
    /\ ServerOffsets \in Nat \X Nat

VARIABLES
    make,              \* the make of this client
    wire,              \* per side: blocks, then messages, on their way to it
    hs,                \* per side: SrsHandshakeBytes; <<>> is NULL
    try,               \* per side: the handshake it is trying
    stage              \* per side: the part it handles next, or "rtmp", "failed"

hsVars == <<make, wire, hs, try, stage>>

Sides == {"client", "server"}
Peer(s) == IF s = "client" THEN "server" ELSE "client"

\* What read_c0c1, read_s0s1s2 and read_c2 take.
Blocks == [c0c1 |-> 2, s0s1s2 |-> 3, c2 |-> 1]
NoBytes == [c0c1 |-> <<>>, s0s1s2 |-> <<>>, c2 |-> <<>>]

\* Without SRS_AUTO_SSL the complex handshake returns ERROR_RTMP_TRY_SIMPLE_HS at once.
FirstTry(s) ==
    IF s = "server" THEN IF make.server_ssl THEN "complex" ELSE "simple"
    ELSE IF make.handshake # "simple" /\ make.ssl THEN "complex" ELSE "simple"

HandshakeInit ==
    /\ make \in Makes
    /\ wire = [s \in Sides |-> <<>>]
    /\ hs = [s \in Sides |-> NoBytes]
    /\ try = [s \in Sides |-> FirstTry(s)]
    /\ stage = [s \in Sides |->
                  IF s = "client" /\ make.handshake = "complex" /\ ~make.ssl
                  THEN "failed" ELSE "c0c1"]

----------------------------------------------------------------------------

\* SrsHandshakeBytes::read_c0c1, read_s0s1s2, read_c2: nothing is read twice.
\* A mutant of HasRead.
ReadAgain(s, part) == FALSE
HasRead(s, part) == hs[s][part] # <<>>
Readable(s, part) == HasRead(s, part) \/ Len(wire[s]) >= Blocks[part]
Read(s, part) == IF HasRead(s, part) THEN hs[s][part] ELSE SubSeq(wire[s], 1, Blocks[part])
Rest(s, part) ==
    IF HasRead(s, part) THEN wire[s] ELSE SubSeq(wire[s], Blocks[part] + 1, Len(wire[s]))

Keep(s, part, bytes) == hs' = [hs EXCEPT ![s][part] = bytes]
Enter(s, next) == stage' = [stage EXCEPT ![s] = next]

\* create_c0c1, create_s0s1s2 and create_c2 of SrsHandshakeBytes fill a part with
\* random bytes behind its time.
Filled(head) == << head >> \o Repeated(2 * BlockSize)

C1Schema == IF try["client"] = "complex" THEN "schema1" ELSE make.schema
Key == [i \in 1..KeySize |-> [key |-> i]]
C0C1 == << [k |-> "c0", plain |-> make.plain],
           [k |-> "c1", bytes |-> IF C1Schema = "none" THEN Filled("c1")
                                  ELSE Dump(C1Created(C1Schema, Key, make.offsets))] >>

\* The simple handshake copies C1 to S2; the complex one signs S1 and S2.
S0S1S2(c0c1) ==
    LET bytes == c0c1[2].bytes
        c1 == DecodedC1(bytes)
        complex == try["server"] = "complex"
    IN  << [k |-> "s0", plain |-> TRUE],
           [k |-> "s1", bytes |-> IF complex THEN Dump(S1Created(c1, ServerOffsets))
                                  ELSE Filled("s1")],
           [k |-> "s2", bytes |-> IF complex THEN S2Created(c1) ELSE bytes] >>

\* The simple C2 has the time of S1, the complex one is made of its digest.
C2(s0s1s2) ==
    LET bytes == s0s1s2[2].bytes
    IN  << [k |-> "c2", bytes |-> IF try["client"] = "complex"
                                  THEN C2Created(Parse(bytes, "schema1"))
                                  ELSE Filled(bytes[1])] >>

\* The client's first write.
WriteC0C1 ==
    /\ stage["client"] = "c0c1"
    /\ Keep("client", "c0c1", C0C1)
    /\ wire' = [wire EXCEPT !["server"] = @ \o C0C1]
    /\ Enter("client", "s0s1s2")
    /\ UNCHANGED <<make, try>>

(***************************************************************************)
(* handshake_with_client up to its write.  The complex one asks for a      *)
(* digest in schema 0, then 1, and returns ERROR_RTMP_TRY_SIMPLE_HS when   *)
(* there is none; the simple one starts over with what has been read, and  *)
(* it alone looks at C0.                                                   *)
(***************************************************************************)
Answered(c0c1) ==
    \/ try["server"] = "complex" /\ C1HasDigest(c0c1[2].bytes)
    \/ try["server"] = "simple" /\ c0c1[1].plain

ReadC0C1 ==
    /\ stage["server"] = "c0c1"
    /\ Readable("server", "c0c1")
    /\ LET c0c1 == Read("server", "c0c1")
           rest == Rest("server", "c0c1")
       IN  IF Answered(c0c1)
           THEN /\ hs' = [hs EXCEPT !["server"].c0c1 = c0c1, !["server"].s0s1s2 = S0S1S2(c0c1)]
                /\ wire' = [s \in Sides |-> IF s = "server" THEN rest
                                            ELSE wire[s] \o S0S1S2(c0c1)]
                /\ Enter("server", "c2")
                /\ UNCHANGED try
           ELSE /\ Keep("server", "c0c1", c0c1)
                /\ wire' = [wire EXCEPT !["server"] = rest]
                /\ try' = [try EXCEPT !["server"] = "simple"]
                /\ Enter("server", IF try["server"] = "complex" THEN "c0c1" ELSE "failed")
    /\ UNCHANGED make

\* handshake_with_server after its first write: neither handshake verifies S1 and S2.
ReadS0S1S2 ==
    /\ stage["client"] = "s0s1s2"
    /\ Readable("client", "s0s1s2")
    /\ LET s0s1s2 == Read("client", "s0s1s2")
           accept == s0s1s2[1].plain
       IN  /\ hs' = [hs EXCEPT !["client"].s0s1s2 = s0s1s2,
                               !["client"].c2 = IF accept THEN C2(s0s1s2) ELSE @]
           /\ wire' = [s \in Sides |-> IF s = "client" THEN Rest(s, "s0s1s2")
                                       ELSE wire[s] \o (IF accept THEN C2(s0s1s2) ELSE <<>>)]
           /\ Enter("client", IF accept THEN "rtmp" ELSE "failed")
    /\ UNCHANGED <<make, try>>

\* The server's last read; C2 is not verified.
ReadC2 ==
    /\ stage["server"] = "c2"
    /\ Readable("server", "c2")
    /\ Keep("server", "c2", Read("server", "c2"))
    /\ wire' = [wire EXCEPT !["server"] = Rest("server", "c2")]
    /\ Enter("server", "rtmp")
    /\ UNCHANGED <<make, try>>

\* A side that is over has closed its end: its peer reads what is left, then fails.
Over(s) == stage[s] \in {"failed", "lost", "closed"}

Reading(s) == IF s = "client" THEN {"s0s1s2"} ELSE {"c0c1", "c2"}

\* A mutant of ReadFails.
ReadFailsBeforeC2(s) ==
    /\ Over(Peer(s))
    /\ stage[s] \in Reading(s) \ {"c2"}
    /\ ~Readable(s, stage[s])
    /\ Enter(s, "lost")
    /\ UNCHANGED <<make, wire, hs, try>>

ReadFails(s) ==
    /\ Over(Peer(s))
    /\ stage[s] \in Reading(s)
    /\ ~Readable(s, stage[s])
    /\ Enter(s, "lost")
    /\ UNCHANGED <<make, wire, hs, try>>

HandshakeNext ==
    \/ WriteC0C1 \/ ReadC0C1 \/ ReadS0S1S2 \/ ReadC2
    \/ \E s \in Sides : ReadFails(s)

----------------------------------------------------------------------------

(***************************************************************************)
(* Each side gets the parts the other wrote, entire and once, also when    *)
(* the server has read C0C1 for the complex handshake and begins again     *)
(* with the simple one.  Whenever C1 has a digest, in whatever schema and  *)
(* at whatever place, and the server can check it, the digests of S1 and   *)
(* S2 are those a client that verifies them looks for, and that of C2 is   *)
(* the one the server would; otherwise S2 is C1.  Neither side verifies.   *)
(***************************************************************************)
HandshakeAgrees ==
    /\ \A part \in DOMAIN Blocks :
          LET reader == IF part = "s0s1s2" THEN "client" ELSE "server"
          IN  stage[reader] = "rtmp" => hs[reader][part] = hs[Peer(reader)][part]
    /\ stage["client"] = "rtmp" =>
          LET c1 == hs["client"].c0c1[2].bytes
              s1 == Parse(hs["client"].s0s1s2[2].bytes, C1Schema)
              s2 == hs["client"].s0s1s2[3].bytes
          IN  IF C1Schema # "none" /\ make.server_ssl
              THEN /\ S1Valid(s1) /\ S2Valid(s2, Parse(c1, C1Schema))
                   /\ try["client"] = "complex" => C2Valid(hs["client"].c2[1].bytes, s1)
              ELSE s2 = c1
=============================================================================
