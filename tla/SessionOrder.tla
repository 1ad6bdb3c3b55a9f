--------------------------- MODULE SessionOrder ---------------------------
(***************************************************************************)
(* The order of a client's calls that SrsRtmpServer counts on.  The server *)
(* finds out what a client is from the messages it takes one by one, so    *)
(* that what it will make of a client's calls, when it comes to them,      *)
(* depends on their order alone: Reached follows it along the script of a  *)
(* make.                                                                   *)
(***************************************************************************)
EXTENDS RtmpSession

\* What the server waits for: the class of a packet, for identify_client, a client it
\* serves or records, or nothing but the calls of a bandwidth check or of a refusal.
Modes == {"ConnectApp", "identify", "created", "FMLEStart", "CreateStream", "Publish",
          "record", "serve", "check", "refuse"}

Says(call) == call.do \in {"send", "send on"}
Class(c) == IF c.name \in DOMAIN ClassOf THEN ClassOf[c.name]
            ELSE IF c.type = "command" THEN "Call"
            ELSE IF c.type = "data" THEN "Packet" ELSE "none"

\* What it waits for behind a message of the make m.
Admitted(m) == IF ~m.accepted THEN "refuse" ELSE IF m.means = "Bandwidth" THEN "check" ELSE "identify"
Heard(m, mode, c) ==
    LET class == Class(c)
    IN  CASE mode = "ConnectApp" /\ class = "ConnectApp" -> Admitted(m)
          [] mode \in {"identify", "created"} /\ class = "CreateStream" -> "created"
          [] mode \in {"identify", "created"} /\ class = "Play" -> "serve"
          [] mode = "created" /\ class = "Publish" -> "record"
          [] mode = "identify" /\ class = "FMLEStart" -> "FMLEStart"
          [] mode = "FMLEStart" /\ class = "FMLEStart" -> "CreateStream"
          [] mode = "CreateStream" /\ class = "CreateStream" -> "Publish"
          [] mode = "Publish" /\ class = "Publish" -> "record"
          [] mode = "record" /\ c.name = "FCUnpublish" -> "identify"
          [] OTHER -> mode

\* The step from waiting to being sure of a client is for what the client means.
Takes(m, mode, c) ==
    /\ mode \in {"identify", "created"} /\ Class(c) = "Play" =>
          m.means = "Play" /\ c.stream = m.stream
    /\ mode = "identify" /\ Class(c) = "FMLEStart" =>
          m.means = "FMLEPublish" /\ c.stream = m.stream
    /\ mode = "created" /\ Class(c) = "Publish" =>
          m.means = "FlashPublish" /\ c.stream = m.stream

Reached(m) ==
    LET mode[i \in 0..Len(m.script)] ==
            IF i = 0 THEN "ConnectApp"
            ELSE IF Says(m.script[i]) THEN Heard(m, mode[i - 1], m.script[i].m)
            ELSE mode[i - 1]
    IN  mode

----------------------------------------------------------------------------

\* A packet of a client: never an answer, and a command if it has a class for one.
ClientPacket(m, c) ==
    /\ DOMAIN c = DOMAIN Blank /\ c.name # "_result"
    /\ \/ c.type = "command"
       \/ c.type = "control" /\ Class(c) \in {"UserControl", "SetWindowAckSize", "SetChunkSize", "none"}
    /\ m.own => c.name \in DOMAIN ClassOf /\ (c.name = "connect" => c.tid = 1)

\* Media only when the server is to record, and behind play nothing that drops media.
CallInOrder(m, mode, call) ==
    /\ call.do \in {"send", "send on", "expect", "read", "write"}
    /\ Says(call) => ClientPacket(m, call.m) /\ Takes(m, mode, call.m)
    /\ call.do = "write" => m.means # "Play" /\ mode \in {"record", "refuse"}
    /\ call.do = "expect" => mode # "serve"

\* A stream that is asked for is waited for before media.
StreamAwaited(m) ==
    \A i \in DOMAIN m.script :
        Says(m.script[i]) /\ m.script[i].m.name = "createStream" =>
            \E j \in i..Len(m.script) :
                /\ m.script[j].do = "expect" /\ m.script[j].class = "CreateStreamRes"
                /\ \A k \in i..j : m.script[k].do \notin {"read", "write"}

\* The library's own requests have transaction ids that tell what is asked.
OneNamePerTid(m) ==
    \A i, j \in DOMAIN m.script :
        /\ Says(m.script[i]) /\ m.script[i].m.name \in Remembers
        /\ Says(m.script[j]) /\ m.script[j].m.name \in Remembers
        /\ m.script[i].m.tid = m.script[j].m.tid
        => m.script[i].m.name = m.script[j].m.name

Orderly(m) ==
    /\ m.script \in Seq(Range(m.script))
    /\ \A i \in 1..Len(m.script) : CallInOrder(m, Reached(m)[i - 1], m.script[i])
    /\ StreamAwaited(m)
    /\ m.own => OneNamePerTid(m)

ASSUME OrderAssumption == \A m \in Makes : Orderly(m)
=============================================================================
