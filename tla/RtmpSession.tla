---------------------------- MODULE RtmpSession ----------------------------
(***************************************************************************)
(* A session over an RTMP connection: SrsRtmpClient as srs_librtmp.cpp and *)
(* srs_lib_bandwidth.cpp drive it, and SrsRtmpServer, of                   *)
(* srs_rtmp_stack.cpp.  Both are straight sequences of calls with an early *)
(* return at each error, so that a side is what it has still to do: the    *)
(* packets it sends, the answers it expects, and the loops of its own.     *)
(*                                                                         *)
(* The chunk protocol below them delivers messages in order (ChunkLink),   *)
(* and a packet is what decode_message tells apart: its name, transaction  *)
(* id, stream id and the kind of its last value.                           *)
(***************************************************************************)
EXTENDS Handshake, SequencesExt

CONSTANTS
    ServerStream,      \* the stream id the application of the server passes
    Media,             \* what is sent: [type, ts, subs], subs of an aggregate
    MaxMedia           \* bound: media messages sent in a session

(***************************************************************************)
(* Further fields of a make: script, what the client does after the        *)
(* handshake; means, what it is to the server; own, FALSE for a client of  *)
(* another make, which takes answers it did not expect; accepted, what the *)
(* application of the server decides about it.                             *)
(***************************************************************************)
ConnTypes == {"Play", "FMLEPublish", "FlashPublish", "Bandwidth"}
PartTypes == {"audio", "video", "script"}
IsMedia(m) == m.type \in PartTypes \cup {"aggregate"}
ASSUME SessionAssumption ==
    /\ ServerStream \in Nat \ {0}
    /\ \A m \in Makes : /\ m.means \in ConnTypes
                        /\ m.own \in BOOLEAN /\ m.accepted \in BOOLEAN
\* A part of an aggregate has a header of its own.
SubMessage == [type : PartTypes, ts : Nat, sid : Nat]
\* An aggregate, and nothing else, has parts, and their times do not go back.
ASSUME MediaAssumption ==
    \A d \in Media :
        /\ IsMedia(d) /\ d.ts \in Nat
        /\ d.subs \in Seq(SubMessage)
        /\ d.type = "aggregate" <=> d.subs # <<>>
        /\ \A i, j \in DOMAIN d.subs : i <= j => d.subs[i].ts <= d.subs[j].ts

VARIABLES
    todo,              \* per side: what is left of its calls
    requests,          \* per side: SrsProtocol::requests
    tid,               \* per side: the transaction id of the packet expected last
    stream_id,         \* per side: the stream it plays or publishes
    identified,        \* what identify_client found: [type, stream]
    msgs,              \* Context::msgs of the client
    sent, got          \* history: media sent and received, without its dropped messages

sessionVars == <<hsVars, todo, requests, tid, stream_id, identified, msgs, sent, got>>

Unknown == [type |-> "Unknown", stream |-> ""]

----------------------------------------------------------------------------
(* The packets. *)

Blank == [type |-> "command", name |-> "", tid |-> 0, sid |-> 0, value |-> "", stream |-> "",
          id |-> 0, ts |-> 0, subs |-> <<>>]
Command(name, t) == [Blank EXCEPT !.name = name, !.tid = t]
Named(name, t, stream) == [Command(name, t) EXCEPT !.stream = stream]
Control(name) == [Blank EXCEPT !.type = "control", !.name = name]
Data(name) == [Blank EXCEPT !.type = "data", !.name = name]
Result(t, value) == [Command("_result", t) EXCEPT !.value = value]
\* A mutant of CreateStreamRes.
CreateStreamResOfNone(t, stream) == Result(t, "number")
CreateStreamRes(t, stream) == [Result(t, "number") EXCEPT !.id = stream]

BandwidthNames ==
    {"startPlay", "startingPlay", "playing", "stopPlay", "stoppedPlay", "startPublish",
     "startingPublish", "publishing", "stopPublish", "stoppedPublish", "finished", "final"}

\* do_decode_message: the packet class of a name ...
CallOf ==
    [connect |-> "ConnectApp", createStream |-> "CreateStream", play |-> "Play",
     pause |-> "Pause", releaseStream |-> "FMLEStart", FCPublish |-> "FMLEStart",
     FCUnpublish |-> "FMLEStart", publish |-> "Publish", closeStream |-> "CloseStream",
     UserControl |-> "UserControl", WindowAckSize |-> "SetWindowAckSize",
     SetChunkSize |-> "SetChunkSize"]
ClassOf == [n \in BandwidthNames \cup DOMAIN CallOf |->
              IF n \in BandwidthNames THEN "Bandwidth" ELSE CallOf[n]]

\* ... and of the answer to a request, with the last value its decode() reads.
AnswerTo ==
    [connect |-> [class |-> "ConnectAppRes", value |-> "object"],
     createStream |-> [class |-> "CreateStreamRes", value |-> "number"],
     releaseStream |-> [class |-> "FMLEStartRes", value |-> "undefined"],
     FCPublish |-> [class |-> "FMLEStartRes", value |-> "undefined"],
     FCUnpublish |-> [class |-> "FMLEStartRes", value |-> "undefined"]]

\* "error" for an answer to no request and for one that cannot be read; "none" when
\* there is no packet for the message.
Decode(s, m) ==
    IF m.name = "_result"
    THEN IF m.tid \notin DOMAIN requests[s] THEN "error"
         ELSE LET a == AnswerTo[requests[s][m.tid]]
              IN  IF m.value = a.value THEN a.class ELSE "error"
    ELSE IF m.name \in DOMAIN ClassOf THEN ClassOf[m.name]
    ELSE IF m.type = "command" THEN "Call"
    ELSE IF m.type = "data" THEN "Packet"
    ELSE "none"

----------------------------------------------------------------------------
(* The calls. *)

Send(m) == [do |-> "send", m |-> m]           \* send_and_free_packet(m, 0)
SendOn(m) == [do |-> "send on", m |-> m]      \* send_and_free_packet(m, stream_id)
Answer(value) == [do |-> "answer", value |-> value]
Expect(class) == [do |-> "expect", class |-> class, names |-> {}]
ExpectBandwidth(name) == [do |-> "expect", class |-> "Bandwidth", names |-> {name}]
Loop(name) == [do |-> name]

ConnectApp2 == << Send(Command("connect", 1)), Send(Control("WindowAckSize")),
                  Expect("ConnectAppRes") >>
CreateStream(t) == << Send(Command("createStream", t)), Expect("CreateStreamRes") >>
Play(stream) == << SendOn(Named("play", 0, stream)), Send(Control("UserControl")),
                   Send(Control("SetChunkSize")) >>
Publish(stream) == << Send(Control("SetChunkSize")), SendOn(Named("publish", 0, stream)) >>
FmlePublish(stream) ==
    << Send(Named("releaseStream", 2, stream)), Send(Named("FCPublish", 3, stream)) >>
    \o CreateStream(4) \o << SendOn(Named("publish", 0, stream)) >>

\* srs_rtmp_connect_app, without what connect_app2 finds out about the server.
ConnectApp == ConnectApp2

\* srs_rtmp_play_stream and srs_rtmp_publish_stream, behind it.
PlayStream(stream) == ConnectApp \o CreateStream(2) \o Play(stream) \o << Loop("read") >>
PublishStream(stream) == ConnectApp \o FmlePublish(stream) \o << Loop("write") >>

\* srs_rtmp_bandwidth_check.
PlayCheck == << ExpectBandwidth("startPlay"), Send(Command("startingPlay", 0)),
                ExpectBandwidth("stopPlay"), Send(Command("stoppedPlay", 0)) >>
PublishCheck == << ExpectBandwidth("startPublish"), Send(Command("startingPublish", 0)),
                   Send(Command("publishing", 0)), Send(Command("publishing", 0)),
                   Send(Command("stopPublish", 0)), ExpectBandwidth("stopPublish"),
                   Send(Command("stoppedPublish", 0)) >>
Final == << ExpectBandwidth("finished"), Send(Command("final", 0)) >>
Checks == PlayCheck \o PublishCheck \o Final
BandwidthCheck == ConnectApp2 \o Checks

\* The server's functions.
ServerConnectApp == << Expect("ConnectApp") >>
SetWindowAckSize == << Send(Control("WindowAckSize")) >>
SetPeerBandwidth == << Send(Control("SetPeerBandwidth")) >>
OnBwDone == << Send(Command("onBWDone", 0)) >>
SetChunkSize == << Send(Control("SetChunkSize")) >>
StartPlay ==
    << Send(Control("UserControl")), SendOn(Command("onStatus", 0)), SendOn(Command("onStatus", 0)),
       SendOn(Data("RtmpSampleAccess")), SendOn(Data("onStatus")) >>
OnPlayClientPause == << SendOn(Command("onStatus", 0)), Send(Control("UserControl")) >>
StartFmlePublish ==
    << Expect("FMLEStart"), Answer("undefined"), Expect("CreateStream"), Answer("number"),
       Expect("Publish"), SendOn(Command("onFCPublish", 0)), SendOn(Command("onStatus", 0)) >>
StartFlashPublish == << SendOn(Command("onStatus", 0)) >>
FmleUnpublish(t) ==
    << SendOn(Command("onFCUnpublish", 0)), SendOn(Result(t, "undefined")),
       SendOn(Command("onStatus", 0)) >>
ResponseConnectApp == << Send(Result(1, "object")) >>
ResponseConnectReject == << Send(Command("onStatus", 0)) >>

(***************************************************************************)
(* The application of SrsRtmpServer is not in this repository: it calls    *)
(* the functions in the order their comments in srs_rtmp_stack.hpp give.   *)
(***************************************************************************)
Identify == Loop("identify")
BandwidthCheckServed ==
    << Send(Command("startPlay", 0)), ExpectBandwidth("startingPlay"),
       Send(Command("playing", 0)), Send(Command("stopPlay", 0)),
       ExpectBandwidth("stoppedPlay"), Send(Command("startPublish", 0)),
       ExpectBandwidth("startingPublish"), Send(Command("stopPublish", 0)),
       ExpectBandwidth("stoppedPublish"), Send(Command("finished", 0)),
       ExpectBandwidth("final") >>
Admit == SetWindowAckSize \o SetPeerBandwidth \o ResponseConnectApp
Application ==
    ServerConnectApp \o
    (IF ~make.accepted THEN ResponseConnectReject \o << Loop("close") >>
     ELSE IF make.means = "Bandwidth" THEN Admit \o BandwidthCheckServed
     ELSE Admit \o OnBwDone \o << Identify >>)
Start(type) ==
    SetChunkSize \o
    (CASE type = "Play" -> StartPlay
       [] type = "FMLEPublish" -> StartFmlePublish
       [] type = "FlashPublish" -> StartFlashPublish) \o
    << Loop(IF type = "Play" THEN "serve" ELSE "record") >>

SessionInit ==
    /\ HandshakeInit
    /\ todo = [s \in Sides |-> IF s = "client" THEN make.script ELSE Application]
    /\ requests = [s \in Sides |-> <<>>]
    /\ tid = [s \in Sides |-> 0]
    /\ stream_id = [s \in Sides |-> IF s = "server" THEN ServerStream ELSE 0]
    /\ identified = Unknown
    /\ msgs = <<>> /\ sent = <<>> /\ got = <<>>

----------------------------------------------------------------------------
(* The steps. *)

Doing(s, what) == stage[s] = "rtmp" /\ todo[s] # <<>> /\ Head(todo[s]).do = what
Call(s) == Head(todo[s])
Continue(s) == todo' = [todo EXCEPT ![s] = Tail(@)]
Instead(s, calls) == todo' = [todo EXCEPT ![s] = calls \o Tail(@)]
Put(s, ms) == wire' = [wire EXCEPT ![Peer(s)] = @ \o ms]
Incoming(s) == wire[s] # <<>>
Message(s) == Head(wire[s])
Take(s, ms) == wire' = [p \in Sides |-> IF p = s THEN Tail(wire[p]) ELSE wire[p] \o ms]
Same == UNCHANGED <<make, hs, try>>

\* Mutant: the calls a publisher sends before createStream are forgotten.
RemembersCalls == {"connect", "createStream"}

\* on_send_packet, behind the send: the names of the requests, which are never erased.
Remembers == {"connect", "createStream", "releaseStream", "FCPublish", "FCUnpublish"}
OnSendPacket(s, m) ==
    requests' = IF m.name \notin Remembers THEN requests
                ELSE [requests EXCEPT ![s] =
                        [t \in DOMAIN @ \cup {m.tid} |-> IF t = m.tid THEN m.name ELSE @[t]]]

\* The packet of a sending call.
Packet(s) ==
    LET call == Call(s)
    IN  CASE call.do = "send" -> call.m
          [] call.do = "send on" -> [call.m EXCEPT !.sid = stream_id[s]]
          [] call.do = "answer" -> IF call.value = "number"
                                   THEN CreateStreamRes(tid[s], stream_id[s])
                                   ELSE Result(tid[s], call.value)

Sends(s) == Doing(s, "send") \/ Doing(s, "send on") \/ Doing(s, "answer")

SendPacket(s) ==
    /\ Sends(s) /\ ~Over(Peer(s))
    /\ Put(s, << Packet(s) >>)
    /\ OnSendPacket(s, Packet(s))
    /\ Continue(s)
    /\ Same /\ UNCHANGED <<stage, tid, stream_id, identified, msgs, sent, got>>

(***************************************************************************)
(* expect_message: takes messages until one is of the class; an error of   *)
(* decode_message ends the call, every other message is dropped.           *)
(***************************************************************************)
Drops(s, class, m) ==
    \/ class # "error" /\ class # Call(s).class
    \/ class = "Bandwidth" /\ Call(s).names # {} /\ m.name \notin Call(s).names
    \/ class = "error" /\ s = "client" /\ ~make.own

ExpectMessage(s) ==
    /\ Doing(s, "expect") /\ Incoming(s)
    /\ Take(s, <<>>)
    /\ LET m == Message(s)
           class == Decode(s, m)
       IN  IF Drops(s, class, m) THEN UNCHANGED <<stage, todo, tid, stream_id>>
           ELSE IF class = "error"
           THEN Enter(s, "failed") /\ UNCHANGED <<todo, tid, stream_id>>
           ELSE /\ Continue(s)
                /\ tid' = [tid EXCEPT ![s] = m.tid]
                /\ stream_id' = [stream_id EXCEPT ![s] =
                                   IF class = "CreateStreamRes" THEN m.id ELSE @]
                /\ UNCHANGED stage
    /\ Same /\ UNCHANGED <<requests, identified, msgs, sent, got>>

\* Every client that is identified goes on with what the application starts.
IdentifiedAs(type, m) ==
    /\ identified' = [type |-> type, stream |-> m.stream]
    /\ Instead("server", Start(type))

(***************************************************************************)
(* identify_client and, behind createStream, identify_create_stream_client *)
(* with the answers they send.  The second one answers no call and knows   *)
(* no releaseStream.                                                       *)
(***************************************************************************)
IdentifyMessage(m, class, created) ==
    CASE class = "CreateStream" ->
            /\ Take("server", << CreateStreamRes(m.tid, ServerStream) >>)
            /\ Instead("server", << Loop("identify created") >>)
            /\ UNCHANGED identified
      [] class = "Play" -> Take("server", <<>>) /\ IdentifiedAs("Play", m)
      [] class = "Publish" /\ created ->
            Take("server", <<>>) /\ IdentifiedAs("FlashPublish", m)
      [] class = "FMLEStart" /\ ~created ->
            Take("server", << Result(m.tid, "undefined") >>) /\ IdentifiedAs("FMLEPublish", m)
      [] class = "Call" /\ ~created ->
            Take("server", << Result(m.tid, "null") >>) /\ UNCHANGED <<todo, identified>>
      [] OTHER -> Take("server", <<>>) /\ UNCHANGED <<todo, identified>>

IdentifyClient ==
    /\ Doing("server", "identify") \/ Doing("server", "identify created")
    /\ Incoming("server")
    /\ LET m == Message("server")
           class == IF m.type = "command" THEN Decode("server", m) ELSE "none"
       IN  IF class = "error"
           THEN Take("server", <<>>) /\ Enter("server", "failed") /\ UNCHANGED <<todo, identified>>
           ELSE IdentifyMessage(m, class, Doing("server", "identify created")) /\ UNCHANGED stage
    /\ Same /\ UNCHANGED <<requests, tid, stream_id, msgs, sent, got>>

\* The application closes the connection of a client it does not accept.
Close ==
    /\ Doing("server", "close")
    /\ Enter("server", "closed") /\ Continue("server")
    /\ Same /\ UNCHANGED <<wire, requests, tid, stream_id, identified, msgs, sent, got>>

----------------------------------------------------------------------------
(* Media. *)

Medium(d, s) == [Blank EXCEPT !.type = d.type, !.name = d.type, !.ts = d.ts, !.subs = d.subs,
                              !.id = Len(sent) + 1, !.sid = stream_id[s]]
NewMedium(s) ==
    /\ Len(sent) < MaxMedia /\ ~Over(Peer(s))
    /\ \E d \in Media :
          /\ s = "client" => d.subs = <<>>
          /\ sent' = Append(sent, Medium(d, s))
          /\ Put(s, << Medium(d, s) >>)
    /\ Same /\ UNCHANGED <<stage, todo, requests, tid, stream_id, identified, msgs, got>>

\* srs_rtmp_write_packet of a publisher, and the server's send_and_free_messages.
WritePacket == Doing("client", "write") /\ NewMedium("client")
ServeMedia == Doing("server", "serve") /\ NewMedium("server")

\* A publisher that goes on behind its media.
EndWrite ==
    /\ Doing("client", "write") /\ Len(todo["client"]) > 1
    /\ Continue("client")
    /\ Same /\ UNCHANGED <<stage, wire, requests, tid, stream_id, identified, msgs, sent, got>>

GotPacket(m) == [type |-> m.type, id |-> m.id, ts |-> m.ts, sid |-> m.sid]

(***************************************************************************)
(* What the application of the server does with messages of a client it    *)
(* serves: media of a publisher, FCUnpublish, pause.                       *)
(***************************************************************************)
ServeMessage ==
    /\ Doing("server", "serve") \/ Doing("server", "record")
    /\ Incoming("server") /\ Take("server", <<>>)
    /\ LET m == Message("server")
           record == Doing("server", "record")
       IN  /\ got' = IF record /\ IsMedia(m) THEN Append(got, GotPacket(m)) ELSE got
           /\ IF record /\ m.name = "FCUnpublish"
              THEN Instead("server", FmleUnpublish(m.tid) \o << Identify >>)
              ELSE IF ~record /\ m.name = "pause"
              THEN todo' = [todo EXCEPT !["server"] = OnPlayClientPause \o @]
              ELSE UNCHANGED todo
    /\ Same /\ UNCHANGED <<stage, requests, tid, stream_id, identified, msgs, sent>>

(***************************************************************************)
(* srs_rtmp_on_aggregate: the time of the aggregate is that of its first   *)
(* part; the difference is computed again while it is negative.            *)
(***************************************************************************)
Deltas(m) ==
    LET delta[i \in 0..Len(m.subs)] ==
            IF i = 0 THEN 0 - 1
            ELSE IF delta[i - 1] < 0 THEN m.ts - m.subs[i].ts ELSE delta[i - 1]
    IN  delta
\* A mutant of OnAggregate.
OnAggregateOfEach(m) ==
    [i \in 1..Len(m.subs) |->
        [Blank EXCEPT !.type = m.subs[i].type, !.name = m.subs[i].type, !.id = m.id,
                      !.sid = m.subs[i].sid, !.ts = m.ts]]
OnAggregate(m) ==
    [i \in 1..Len(m.subs) |->
        [Blank EXCEPT !.type = m.subs[i].type, !.name = m.subs[i].type, !.id = m.id,
                      !.sid = m.subs[i].sid, !.ts = m.subs[i].ts + Deltas(m)[i]]]

\* srs_rtmp_go_packet gives no timestamp to script data.
GoPacket(m) == [GotPacket(m) EXCEPT !.ts = IF m.type = "script" THEN 0 ELSE @]

(***************************************************************************)
(* A turn of the loop of srs_rtmp_read_packet: a message of the cache or   *)
(* else of the connection; an aggregate fills the cache, everything else   *)
(* is returned.  Only media goes to the history.                           *)
(***************************************************************************)
ReadPacket ==
    /\ Doing("client", "read")
    /\ msgs # <<>> \/ Incoming("client")
    /\ LET m == IF msgs # <<>> THEN Head(msgs) ELSE Message("client")
           cached == IF msgs # <<>> THEN Tail(msgs) ELSE <<>>
       IN  /\ IF msgs # <<>> THEN UNCHANGED wire ELSE Take("client", <<>>)
           /\ msgs' = IF m.type = "aggregate" THEN cached \o OnAggregate(m) ELSE cached
           /\ got' = IF IsMedia(m) /\ m.type # "aggregate" THEN Append(got, GoPacket(m)) ELSE got
    /\ Same /\ UNCHANGED <<stage, todo, requests, tid, stream_id, identified, sent>>

----------------------------------------------------------------------------

\* A side that needs the connection of a peer that is over gets an error.
Lose(s) ==
    /\ stage[s] = "rtmp" /\ todo[s] # <<>> /\ Over(Peer(s))
    /\ IF Sends(s) \/ Doing(s, "write") THEN TRUE
       ELSE ~Incoming(s) /\ (Doing(s, "read") => msgs = <<>>)
    /\ Enter(s, "lost")
    /\ Same /\ UNCHANGED <<wire, todo, requests, tid, stream_id, identified, msgs, sent, got>>

\* A process ends or its socket fails, at any time.
Crash(s) ==
    /\ ~Over(s)
    /\ Enter(s, "lost")
    /\ Same /\ UNCHANGED <<wire, todo, requests, tid, stream_id, identified, msgs, sent, got>>

Step(s) ==
    \/ SendPacket(s) \/ ExpectMessage(s) \/ Lose(s)
    \/ s = "server" /\ (IdentifyClient \/ Close \/ ServeMessage)
    \/ s = "client" /\ ReadPacket

Shake == HandshakeNext /\ UNCHANGED <<todo, requests, tid, stream_id, identified, msgs, sent, got>>

\* Nothing is left to do: everybody is over, has finished or streams.
Streams(s) == \E what \in {"read", "write", "serve", "record"} : Doing(s, what)
Finished(s) == stage[s] = "rtmp" /\ todo[s] = <<>>
Settled == \A s \in Sides : Over(s) \/ Finished(s) \/ Streams(s)
Stay == Settled /\ UNCHANGED sessionVars

Next == Shake \/ WritePacket \/ ServeMedia \/ EndWrite \/ Stay
        \/ \E s \in Sides : Step(s) \/ Crash(s)

(***************************************************************************)
(* Each side is a thread that goes on while it can.  Nobody has to send    *)
(* media or to crash, and a publisher with more to do stops in the end.    *)
(***************************************************************************)
Spec == /\ SessionInit /\ [][Next]_sessionVars
        /\ WF_sessionVars(Shake) /\ WF_sessionVars(EndWrite)
        /\ \A s \in Sides : WF_sessionVars(Step(s))
----------------------------------------------------------------------------

(***************************************************************************)
(* What the server finds out about a client from the order of its calls is *)
(* what the client means to do, for every make, and both then speak of the *)
(* same stream: by name, and by id when the client has created it.         *)
(***************************************************************************)
Asked(s, name) == \E t \in DOMAIN requests[s] : requests[s][t] = name
ServesWhatIsMeant ==
    /\ identified # Unknown => identified = [type |-> make.means, stream |-> make.stream]
    /\ (\A s \in Sides : Streams(s)) /\ Asked("client", "createStream") =>
          stream_id["client"] = stream_id["server"]

(***************************************************************************)
(* Nobody ends a session with an error of its own: each answer belongs to  *)
(* a request its receiver remembers and can be read as the answer to it,   *)
(* and the handshakes fit, but for a client that asks for encryption or    *)
(* for a complex handshake it was built without.                           *)
(***************************************************************************)
NobodyFails ==
    (\E s \in Sides : stage[s] = "failed") =>
        \/ ~make.plain
        \/ make.handshake = "complex" /\ ~make.ssl

(***************************************************************************)
(* No media is lost to a call that waits for something else, aggregates    *)
(* come apart in order, and each part keeps its own stream id and has the  *)
(* time of the aggregate plus its distance from the first part, or the     *)
(* time of the aggregate alone where that is before the first part.        *)
(***************************************************************************)
Parts(m) ==
    LET time(type, ts) == IF make.means = "Play" /\ type = "script" THEN 0 ELSE ts
        part(p, ts) == [type |-> p.type, id |-> m.id, sid |-> p.sid, ts |-> time(p.type, ts)]
    IN  IF m.subs = <<>> THEN << part(m, m.ts) >>
        ELSE [i \in 1..Len(m.subs) |->
                part(m.subs[i],
                     IF m.ts < m.subs[1].ts THEN m.ts
                     ELSE m.ts + (m.subs[i].ts - m.subs[1].ts))]
MediaInOrder == IsPrefix(got, FlattenSeq([i \in 1..Len(sent) |-> Parts(sent[i])]))

(***************************************************************************)
(* A client the server can talk to and accepts comes to play or publish,   *)
(* or finishes, unless the connection is lost, whatever the make of the    *)
(* client and the builds of both: nobody waits for a message that is not   *)
(* to come.                                                                *)
(***************************************************************************)
Welcome == /\ make.accepted /\ make.plain
           /\ make.handshake = "complex" => make.ssl
Connected == \A s \in Sides : stage[s] # "lost"
EveryoneGetsThere ==
    (Welcome /\ []Connected) => <>[](\A s \in Sides : Streams(s) \/ Finished(s))

\* Whatever happens, also a crash, a refusal or an error, nobody waits forever.
EverySessionSettles == <>[]Settled
=============================================================================
