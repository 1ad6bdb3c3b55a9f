---------------------------- MODULE PacketCodec ----------------------------
(***************************************************************************)
(* The amf0 of a packet from the calls that build it to what the other     *)
(* side reads: an application composes values with the srs_amf0_*          *)
(* functions of srs_librtmp.cpp, or hands them to the calls of a client or *)
(* a server that set them property by property; the packet is encoded into *)
(* the bytes get_size() asked for; the receiver decodes them, an answer by *)
(* the request it remembers for the transaction.                           *)
(*                                                                         *)
(* The chunk protocol between them is that of ChunkLink: the payload       *)
(* arrives as it was sent.                                                 *)
(***************************************************************************)
EXTENDS RtmpPackets

CONSTANTS
    Keys,              \* names of properties
    Leaves,            \* values without properties
    MaxSteps           \* bound: calls that build values and packets sent

VARIABLES
    object,            \* the values an application has at hand: an object, ...
    ecma,              \* ... an ecma array ...
    list,              \* ... and a strict array
    requests,          \* SrsProtocol::requests of the client
    wire,              \* the payload under way: [type, packet, bytes], or NoPayload
    read,              \* what the receiver made of the last: [packet, results], or NoPayload
    calls, packets     \* calls made that build values, packets sent

codecVars == <<object, ecma, list, requests, wire, read, calls, packets>>

NoPayload == [type |-> "none"]
NoObject == Obj(<<>>)
NoEcma == [EcmaArray |-> <<>>, count |-> 0]
NoList == [StrictArray |-> <<>>, count |-> 0]

Init ==
    /\ object = NoObject /\ ecma = NoEcma /\ list = NoList
    /\ requests = <<>>
    /\ wire = NoPayload /\ read = NoPayload
    /\ calls = 0 /\ packets = 0

----------------------------------------------------------------------------
(* The calls that build a value. *)

Building ==
    /\ wire = NoPayload /\ packets = 0 /\ calls + 1 < MaxSteps
    /\ calls' = calls + 1
    /\ UNCHANGED <<requests, wire, read, packets>>

\* srs_amf0_object_property_set, to a value, to an array, and to none.
ObjectPropertySet(key) ==
    /\ Building
    /\ \/ /\ \E v \in Leaves : object' = Obj(SetProperty(object.Object, key, v))
          /\ UNCHANGED <<ecma, list>>
       \/ /\ list # NoList
          /\ object' = Obj(SetProperty(object.Object, key, list))
          /\ list' = NoList /\ UNCHANGED ecma
       \/ /\ ecma # NoEcma
          /\ object' = Obj(SetProperty(object.Object, key, ecma))
          /\ ecma' = NoEcma /\ UNCHANGED list
       \/ /\ object' = Obj(Removed(object.Object, key))
          /\ UNCHANGED <<ecma, list>>

ObjectClear ==
    /\ Building
    /\ object' = NoObject
    /\ UNCHANGED <<ecma, list>>

\* Its count stays what it was.
EcmaArrayPropertySet(key) ==
    /\ Building
    /\ \E v \in Leaves : ecma' = [ecma EXCEPT !.EcmaArray = SetProperty(@, key, v)]
    /\ UNCHANGED <<object, list>>

\* A copy: the array is still the caller's.
EcmaArrayToObject ==
    /\ Building
    /\ object' = Metadata(ecma)
    /\ UNCHANGED <<ecma, list>>

Appended(v) == [StrictArray |-> Append(list.StrictArray, v), count |-> Len(list.StrictArray) + 1]
StrictArrayAppend ==
    /\ Building
    /\ \/ /\ \E v \in Leaves : list' = Appended(v)
          /\ UNCHANGED object
       \/ /\ object # NoObject
          /\ list' = Appended(object)
          /\ object' = NoObject
    /\ UNCHANGED ecma

----------------------------------------------------------------------------
(* The packets of the client, and those of the server. *)

Streams == {"live", ""}

\* With values an application composed: srs_rtmp_set_connect_args, serialized metadata,
\* the bandwidth check; a call is that of a client of another make.
ComposedByClient ==
    {ConnectApp(Obj(<< <<"app", Str("live")>>, <<"fpad", Bool(FALSE)>> >>), args) :
        args \in {Absent, object, list}}
    \cup {OnMetaData("onMetaData", v) : v \in {object, ecma, list}}
    \cup {Bandwidth("stoppedPlay", object)}
    \cup {Call("hello", 5, v, args) : v \in {Null, object}, args \in {Absent, ecma}}

\* Without: the calls of SrsRtmpClient; pause and closeStream are a player's.
SentByClient ==
    {CreateStream(tid) : tid \in {2, 4}}
    \cup {FMLEStart("releaseStream", 2, "live"), FMLEStart("FCPublish", 3, "live"),
          FMLEStart("FCUnpublish", 5, "")}
    \cup {Publish(stream, type) : stream \in Streams, type \in {"live", "record"}}
    \cup {Play("live", start, duration, reset) :
             start \in {-2, 0}, duration \in {-1, 2}, reset \in BOOLEAN}
    \cup {Pause(b, n) : b \in BOOLEAN, n \in {0, 2}}
    \cup {CloseStream, UserControl(SetBufferLength, 1, 1000),
          Control("SetWindowAckSize", <<2500000>>), Control("SetChunkSize", <<60000>>),
          Control("Acknowledgement", <<70000>>)}

\* A packet without composed values is the same whatever was composed.
ClientPackets == ComposedByClient \cup IF calls = 0 THEN SentByClient ELSE {}

\* The answer of SrsRtmpServer to each request, and what it sends of its own.
AnswersTo(request, tid) ==
    CASE request = "connect" -> {ConnectAppRes(Obj(<< <<"fmsVer", Str("live")>> >>), object)}
      [] request = "createStream" -> {CreateStreamRes(tid, 1)}
      [] OTHER -> {FMLEStartRes(tid)}
ComposedByServer ==
    {OnStatusData(object), Bandwidth("stopPlay", object), Bandwidth("startPlay", object),
     OnStatusCall("onStatus", object), OnStatusCall("onFCPublish", object)}
SentByServer ==
    {CallRes(5, Null, Null), OnBWDone, SampleAccess(TRUE, FALSE),
     UserControl(0, 1, 0), UserControl(FmsEvent0, 1, 0), Control("SetPeerBandwidth", <<2500000, 2>>)}
ServerPackets ==
    UNION {AnswersTo(requests[tid], tid) : tid \in DOMAIN requests}
    \cup ComposedByServer \cup IF calls = 0 THEN SentByServer ELSE {}

TypeOf(p) == IF p.class \in ControlClasses THEN p.class
             ELSE IF p.class \in DataClasses THEN "data" ELSE "command"

Sending(p, type) ==
    /\ wire = NoPayload /\ calls + packets < MaxSteps
    /\ wire' = [type |-> type, packet |-> p,
                bytes |-> IF type = "amf3" THEN <<0>> \o Encode(p) ELSE Encode(p)]
    /\ packets' = packets + 1
    /\ read' = NoPayload

\* do_send_and_free_packet, with on_send_packet.
ClientSends ==
    /\ \E p \in ClientPackets :
        /\ Sending(p, TypeOf(p))
        /\ requests' = IF p.class \in {"ConnectApp", "CreateStream", "FMLEStart"}
                       THEN (p.tid :> p.name) @@ requests ELSE requests
    /\ UNCHANGED <<object, ecma, list, calls>>

\* A client of another make sends a command as AMF3; what it answers is not modelled.
Amf3ClientSends ==
    /\ \E p \in ClientPackets : TypeOf(p) = "command" /\ Sending(p, "amf3")
    /\ UNCHANGED <<object, ecma, list, requests, calls>>

ServerSends ==
    /\ \E p \in ServerPackets : Sending(p, TypeOf(p))
    /\ UNCHANGED <<object, ecma, list, requests, calls>>

\* do_decode_message of the other side.
Receive ==
    /\ wire # NoPayload
    /\ read' = [type |-> wire.type, packet |-> wire.packet,
                results |-> Decode(wire.type, requests, wire.bytes)]
    /\ wire' = NoPayload
    /\ UNCHANGED <<object, ecma, list, requests, calls, packets>>

Next ==
    \/ \E key \in Keys : ObjectPropertySet(key) \/ EcmaArrayPropertySet(key)
    \/ ObjectClear \/ EcmaArrayToObject \/ StrictArrayAppend
    \/ ClientSends \/ Amf3ClientSends \/ ServerSends \/ Receive

Spec == Init /\ [][Next]_codecVars

----------------------------------------------------------------------------
(* Properties. *)

\* What the receiver should have of a packet.  A class it does not know is a call or,
\* of a data message, nothing; metadata is the properties of the object or of the array;
\* the data of a bandwidth packet counts in three cases; arguments count when they are
\* an object; a reset of the playlist is meant unless it is called off.
Meant(p) ==
    CASE p.class \in {"OnStatusCall", "OnBWDone"} ->
            {[p EXCEPT !.class = "Call", !.fields = IF Len(@) = 1 THEN Append(@, Absent) ELSE @]}
      [] p.class \in {"OnStatusData", "SampleAccess"} -> {Dropped}
      [] p.class = "OnMetaData" ->
            {[p EXCEPT !.fields = << Obj(CASE Is("Object", @[1]) -> @[1].Object
                                           [] Is("EcmaArray", @[1]) -> @[1].EcmaArray
                                           [] OTHER -> <<>>) >>]}
      [] p.class = "ConnectApp" /\ ~ Is("Object", p.fields[2]) -> {[p EXCEPT !.fields[2] = Absent]}
      [] p.class = "Bandwidth" /\ p.name \notin {"stopPlay", "startPublish", "finished"} ->
            {[p EXCEPT !.fields[2] = NoObject]}
      [] p.class \in {"SetPeerBandwidth", "Acknowledgement"} -> {None}
      [] p.class = "CallRes" -> {}
      [] OTHER -> {p}

\* A receiver reads of a packet what its sender meant, whatever calls composed the
\* values in it, which of the optional fields are left out, and whichever of its
\* requests the packet answers.
ReadAsMeant == read # NoPayload => read.results = Meant(read.packet)

\* The buffer get_size() asks for is filled to its last byte: a packet that writes less
\* sends bytes that nobody wrote, one that writes more fails.
SizeIsExact ==
    wire # NoPayload =>
        Len(wire.bytes) = GetSize(wire.packet) + (IF wire.type = "amf3" THEN 1 ELSE 0)
============================================================================
