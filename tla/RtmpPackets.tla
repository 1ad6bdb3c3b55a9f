---------------------------- MODULE RtmpPackets ----------------------------
(***************************************************************************)
(* The packet classes of srs_rtmp_stack.cpp: what encode_packet() writes,  *)
(* what get_size() makes room for, and what do_decode_message() and the    *)
(* decode() of the class it picks make of the bytes.                       *)
(*                                                                         *)
(* A packet is [class, name, tid, fields].  The fields of a command are    *)
(* the AMF0 values behind its name and transaction id, those of a data     *)
(* message the values behind its name, those of a control message its      *)
(* integers.  Absent stands for an optional field that is NULL.            *)
(***************************************************************************)
EXTENDS Amf0

Absent == [Absent |-> <<>>]

\* The class of a message by its name, and of an answer by the name of its request.
BandwidthNames ==
    {"startPlay", "startingPlay", "playing", "stopPlay", "stoppedPlay", "startPublish",
     "startingPublish", "publishing", "stopPublish", "stoppedPublish", "finished", "final"}
ClassOf ==
    [connect |-> "ConnectApp", createStream |-> "CreateStream", play |-> "Play",
     pause |-> "Pause", releaseStream |-> "FMLEStart", FCPublish |-> "FMLEStart",
     FCUnpublish |-> "FMLEStart", publish |-> "Publish", onMetaData |-> "OnMetaData",
     closeStream |-> "CloseStream"] @@ ("@setDataFrame" :> "OnMetaData")
AnswerTo ==
    [connect |-> "ConnectAppRes", createStream |-> "CreateStreamRes",
     releaseStream |-> "FMLEStartRes", FCPublish |-> "FMLEStartRes",
     FCUnpublish |-> "FMLEStartRes"]

ControlClasses == {"UserControl", "SetWindowAckSize", "SetChunkSize", "SetPeerBandwidth",
                   "Acknowledgement"}
DataClasses == {"OnMetaData", "OnStatusData", "SampleAccess"}

FmsEvent0 == 26
SetBufferLength == 3

----------------------------------------------------------------------------
(* Constructors, with the values each class starts with. *)

Command(class, name, tid, fields) == [class |-> class, name |-> name, tid |-> tid, fields |-> fields]
Data(class, name, fields) == Command(class, name, 0, fields)
Control(class, integers) == Command(class, "", 0, integers)

ConnectApp(object, args) == Command("ConnectApp", "connect", 1, <<object, args>>)
ConnectAppRes(props, info) == Command("ConnectAppRes", "_result", 1, <<props, info>>)
Call(name, tid, object, arguments) == Command("Call", name, tid, <<object, arguments>>)
CallRes(tid, object, response) == Command("CallRes", "_result", tid, <<object, response>>)
CreateStream(tid) == Command("CreateStream", "createStream", tid, <<Null>>)
CreateStreamRes(tid, id) == Command("CreateStreamRes", "_result", tid, <<Null, Num(id)>>)
FMLEStart(name, tid, stream) == Command("FMLEStart", name, tid, <<Null, Str(stream)>>)
FMLEStartRes(tid) == Command("FMLEStartRes", "_result", tid, <<Null, Undefined>>)
Publish(stream, type) == Command("Publish", "publish", 0, <<Null, Str(stream), Str(type)>>)
Play(stream, start, duration, reset) ==
    Command("Play", "play", 0, <<Null, Str(stream), Num(start), Num(duration), Bool(reset)>>)
CloseStream == Command("CloseStream", "closeStream", 0, <<Null>>)
Pause(is_pause, time_ms) == Command("Pause", "pause", 0, <<Null, Bool(is_pause), Num(time_ms)>>)
OnBWDone == Command("OnBWDone", "onBWDone", 0, <<Null>>)
OnStatusCall(name, data) == Command("OnStatusCall", name, 0, <<Null, data>>)
Bandwidth(name, data) == Command("Bandwidth", name, 0, <<Null, data>>)
OnStatusData(data) == Data("OnStatusData", "onStatus", <<data>>)
SampleAccess(video, audio) == Data("SampleAccess", "|RtmpSampleAccess", <<Bool(video), Bool(audio)>>)
OnMetaData(name, metadata) == Data("OnMetaData", name, <<metadata>>)
UserControl(event, data, extra) == Control("UserControl", <<event, data, extra>>)

----------------------------------------------------------------------------
(* encode_packet() and get_size(). *)

\* How many of start, duration and reset a play command carries: what follows the
\* last one that differs from its default is left out.
\* Mutant: each option is written when it differs from its own default.
PlayOptionsAlone(start, duration, reset) ==
    (IF start # Num(-2) THEN 1 ELSE 0) + (IF duration # Num(-1) THEN 1 ELSE 0)
      + (IF reset = Bool(FALSE) THEN 1 ELSE 0)
PlayOptions(start, duration, reset) ==
    (IF start # Num(-2) \/ duration # Num(-1) \/ reset = Bool(FALSE) THEN 1 ELSE 0)
      + (IF duration # Num(-1) \/ reset = Bool(FALSE) THEN 1 ELSE 0)
      + (IF reset = Bool(FALSE) THEN 1 ELSE 0)

Carried(p) ==
    IF p.class = "Play"
    THEN SubSeq(p.fields, 1, 2 + PlayOptions(p.fields[3], p.fields[4], p.fields[5]))
    ELSE SelectSeq(p.fields, LAMBDA v : v # Absent)

Values(p) ==
    << Str(p.name) >> \o (IF p.class \in DataClasses THEN <<>> ELSE << Num(p.tid) >>) \o Carried(p)

EncodeUserControl(event, data, extra) ==
    Int16(event) \o (IF event = FmsEvent0 THEN <<data % 256>> ELSE Int32(data))
      \o (IF event = SetBufferLength THEN Int32(extra) ELSE <<>>)

Encode(p) ==
    CASE p.class = "UserControl" -> EncodeUserControl(p.fields[1], p.fields[2], p.fields[3])
      [] p.class = "SetPeerBandwidth" -> Int32(p.fields[1]) \o <<p.fields[2]>>
      [] p.class \in ControlClasses -> Int32(p.fields[1])
      [] OTHER -> FoldLeft(LAMBDA bytes, v : bytes \o WriteAny(v), <<>>, Values(p))

GetSize(p) ==
    CASE p.class = "UserControl" -> 2 + (IF p.fields[1] = FmsEvent0 THEN 1 ELSE 4)
                                      + (IF p.fields[1] = SetBufferLength THEN 4 ELSE 0)
      [] p.class = "SetPeerBandwidth" -> 5
      [] p.class \in ControlClasses -> 4
      [] OTHER -> FoldLeft(LAMBDA size, v : size + Size(v), 0, Values(p))

----------------------------------------------------------------------------
(* decode(). *)

\* The kinds of the fields a class reads, "any" by discovery; then of those it reads as
\* long as bytes are left, with the value each has when they are not.
Fields(kinds, options, defaults) ==
    [kinds |-> kinds, options |-> options, defaults |-> defaults]
ConnectAppFields == Fields(<<"Object">>, <<"any">>, <<Absent>>)
ConnectAppResFields == Fields(<<"Object", "Object">>, <<>>, <<>>)
CallFields == Fields(<<"any">>, <<"any">>, <<Absent>>)
CreateStreamFields == Fields(<<"Null">>, <<>>, <<>>)
CreateStreamResFields == Fields(<<"Null", "Number">>, <<>>, <<>>)
CloseStreamFields == Fields(<<"Null">>, <<>>, <<>>)
FMLEStartFields == Fields(<<"Null", "String">>, <<>>, <<>>)
FMLEStartResFields == Fields(<<"Null", "Undefined">>, <<>>, <<>>)
PublishFields == Fields(<<"Null", "String">>, <<"String">>, << Str("live") >>)
PauseFields == Fields(<<"Null", "Boolean", "Number">>, <<>>, <<>>)
PlayFields == Fields(<<"Null", "String">>, <<"Number", "Number", "any">>,
                     << Num(-2), Num(-1), Bool(TRUE) >>)
BandwidthFields == Fields(<<"Null">>, <<>>, <<>>)

Layout ==
    [ConnectApp |-> ConnectAppFields, ConnectAppRes |-> ConnectAppResFields, Call |-> CallFields,
     CreateStream |-> CreateStreamFields, CreateStreamRes |-> CreateStreamResFields,
     CloseStream |-> CloseStreamFields, FMLEStart |-> FMLEStartFields,
     FMLEStartRes |-> FMLEStartResFields, Publish |-> PublishFields, Pause |-> PauseFields,
     Play |-> PlayFields, Bandwidth |-> BandwidthFields]

ReadField(kind, s) == IF kind = "any" THEN ReadAny(s) ELSE Read(kind, s)
ReadFields(kinds, s) ==
    FoldLeft(LAMBDA results, kind :
                 UNION {{[value |-> Append(r.value, f.value), rest |-> f.rest]
                           : f \in ReadField(kind, r.rest)} : r \in results},
             {[value |-> <<>>, rest |-> s]}, kinds)
ReadOptions(class, s) ==
    FoldLeft(LAMBDA results, i :
                 UNION {IF r.rest = <<>>
                        THEN {[r EXCEPT !.value = Append(@, Layout[class].defaults[i])]}
                        ELSE {[value |-> Append(r.value, f.value), rest |-> f.rest]
                                : f \in ReadField(Layout[class].options[i], r.rest)} : r \in results},
             {[value |-> <<>>, rest |-> s]}, [i \in DOMAIN Layout[class].options |-> i])

\* The reset of a play command may be a number; the arguments of a connect that are no
\* object are dropped.
Understood(class, options) ==
    CASE class = "ConnectApp" -> {IF Is("Object", options[1]) THEN options ELSE <<Absent>>}
      [] class = "Play" ->
            CASE Is("Boolean", options[3]) -> {options}
              [] Is("Number", options[3]) -> {[options EXCEPT ![3] = Bool(@ # Num(0))]}
              [] OTHER -> {}
      [] OTHER -> {options}

\* "For bandwidth test, ignore the data field", but for three of the names.
BandwidthData(name, s) ==
    IF name \in {"stopPlay", "startPublish", "finished"} THEN ReadFields(<<"Object">>, s)
    ELSE {[value |-> << Obj(<<>>) >>, rest |-> s]}

\* The fields behind name and transaction id.
DecodeFields(class, name, s) ==
    UNION {CASE class = "Bandwidth" ->
                   {r.value \o d.value : d \in BandwidthData(name, r.rest)}
             [] OTHER -> UNION {{r.value \o fields : fields \in Understood(class, o.value)}
                                  : o \in ReadOptions(class, r.rest)}
             : r \in ReadFields(Layout[class].kinds, s)}

DecodeCommand(class, s) ==
    UNION {{Command(class, r.value[1].String, r.value[2].Number, fields)
              : fields \in DecodeFields(class, r.value[1].String, r.rest)}
              : r \in ReadFields(<<"String", "Number">>, s)}

\* Metadata is an object, of which an ecma array makes one; anything else leaves it empty.
Metadata(v) ==
    CASE Is("Object", v) -> v
      [] Is("EcmaArray", v) ->
            Obj(FoldLeft(LAMBDA ps, p : SetProperty(ps, p[1], p[2]), <<>>, v.EcmaArray))
      [] OTHER -> Obj(<<>>)
DecodeOnMetaData(s) ==
    LET frame == ReadFields(<<"String">>, s)
        named == UNION {IF r.value = << Str("@setDataFrame") >> THEN ReadFields(<<"String">>, r.rest)
                        ELSE {r} : r \in frame}
    IN  UNION {{OnMetaData(r.value[1].String, Metadata(v.value)) : v \in ReadAny(r.rest)} : r \in named}

\* AsInt8 of one byte.
DecodeUserControl(s) ==
    {UserControl(AsInt16(e.value), d, x) :
        <<e, d, x>> \in
           UNION {LET event == AsInt16(e.value)
                      data == IF event = FmsEvent0 THEN Take(1, e.rest) ELSE Take(4, e.rest)
                      number(b) == IF Len(b) = 4 THEN AsInt32(b)
                                   ELSE IF b[1] < 128 THEN b[1] ELSE b[1] - 256
                  IN  UNION {IF event = SetBufferLength
                             THEN {<<e, number(d.value), AsInt32(x.value)>> : x \in Take(4, d.rest)}
                             ELSE {<<e, number(d.value), 0>>} : d \in data} : e \in Take(2, s)}}

----------------------------------------------------------------------------
(* do_decode_message(): the set of what it returns, empty for an error.  A *)
(* message it drops gives a Packet of no class of its own, or none at all. *)

Dropped == Command("Packet", "", 0, <<>>)
None == Command("none", "", 0, <<>>)

\* An answer is of the class of its request; the class reads a "_result" only.
Answered(requests, s) ==
    UNION {IF r.value[2].Number \notin DOMAIN requests THEN {}
           ELSE {p \in DecodeCommand(AnswerTo[requests[r.value[2].Number]], s) : p.name = "_result"}
           : r \in ReadFields(<<"String", "Number">>, s)}

\* A command message, AMF0 or behind a byte of an AMF3 one, or a data message.
DecodeAmf(type, requests, payload) ==
    LET s == IF type = "amf3" THEN Tail(payload) ELSE payload
    IN  UNION {LET name == r.value[1].String
               IN  CASE name \in {"_result", "_error"} -> Answered(requests, s)
                     [] name \in BandwidthNames -> DecodeCommand("Bandwidth", s)
                     [] name \in DOMAIN ClassOf -> IF ClassOf[name] = "OnMetaData" THEN DecodeOnMetaData(s)
                                                   ELSE DecodeCommand(ClassOf[name], s)
                     [] type = "data" -> {Dropped}
                     [] name = "" -> {}
                     [] OTHER -> DecodeCommand("Call", s)
               : r \in ReadFields(<<"String">>, s)}

Decode(type, requests, payload) ==
    CASE type \in {"command", "amf3", "data"} -> DecodeAmf(type, requests, payload)
      [] type = "UserControl" -> DecodeUserControl(payload)
      [] type \in {"SetWindowAckSize", "SetChunkSize"} ->
            {Control(type, <<AsInt32(n.value)>>) : n \in Take(4, payload)}
      [] OTHER -> {None}
============================================================================
