--------------------------- MODULE MCRtmpSession ---------------------------
(* Bounds and constants for model checking RtmpSession. *)
EXTENDS SessionOrder

Client(means, script) ==
    [means |-> means, script |-> script, stream |-> "livestream", own |-> TRUE,
     accepted |-> TRUE, handshake |-> "any", schema |-> "none", plain |-> TRUE,
     ssl |-> FALSE, server_ssl |-> FALSE,
     offsets |-> <<4, 7>>]

Player == Client("Play", PlayStream("livestream"))
Publisher == Client("FMLEPublish", PublishStream("livestream"))
FlashApi == Client("FlashPublish", ConnectApp2 \o CreateStream(2) \o Publish("livestream")
                                   \o << Loop("write") >>)
Bandwidth == Client("Bandwidth", BandwidthCheck)

Foreign(c, schema) == [c EXCEPT !.own = FALSE, !.handshake = "simple", !.schema = schema]

\* A flash player: calls around createStream, pauses and goes on.
FlashPlayer ==
    Client("Play", << Send(Command("connect", 1)), Expect("ConnectAppRes"),
                      Send(Command("_checkbw", 2)), Send(Command("createStream", 3)),
                      Expect("CreateStreamRes"), Send(Named("getStreamLength", 4, "livestream")) >>
                   \o Play("livestream")
                   \o << SendOn(Command("pause", 0)), SendOn(Command("pause", 0)),
                          Loop("read") >>)
\* A player that asks without createStream, one that asks for a stream twice.
BarePlayer == Client("Play", << Send(Command("connect", 1)), Expect("ConnectAppRes") >>
                             \o Play("livestream") \o << Loop("read") >>)
TwiceCreated == Client("FlashPublish", ConnectApp2 \o CreateStream(2) \o CreateStream(3)
                                       \o Publish("livestream") \o << Loop("write") >>)
\* FMLE: publishes, unpublishes and publishes again with new transactions.
Republisher ==
    Client("FMLEPublish",
           PublishStream("livestream")
           \o << Send(Named("FCUnpublish", 5, "livestream")), Expect("FMLEStartRes"),
                  Send(Named("releaseStream", 6, "livestream")),
                  Send(Named("FCPublish", 7, "livestream")) >>
           \o CreateStream(8)
           \o << SendOn(Named("publish", 0, "livestream")), Loop("write") >>)

\* Own clients under each handshake and build, clients of other makes.
MCMakes ==
    {Player, Bandwidth, FlashApi,
     [Player EXCEPT !.accepted = FALSE],
     [Publisher EXCEPT !.handshake = "simple", !.server_ssl = TRUE],
     [Player EXCEPT !.ssl = TRUE],
     [Publisher EXCEPT !.ssl = TRUE, !.server_ssl = TRUE, !.offsets = <<2, 3>>],
     [Publisher EXCEPT !.handshake = "complex", !.ssl = TRUE, !.server_ssl = TRUE],
     [Player EXCEPT !.handshake = "complex"],
     [Foreign(FlashPlayer, "schema0") EXCEPT !.server_ssl = TRUE],
     [Foreign(Republisher, "none") EXCEPT !.server_ssl = TRUE],
     [Foreign(Republisher, "schema1") EXCEPT !.plain = FALSE],
     Foreign(BarePlayer, "none"), Foreign(TwiceCreated, "none")}

MCServerOffsets == <<2, 1>>

Medium1(type, ts) == [type |-> type, ts |-> ts, subs |-> <<>>]
Part(type, ts, sid) == [type |-> type, ts |-> ts, sid |-> sid]

\* Aggregates whose time is that of the first part, behind it, and before it; the
\* parts are of the stream of the aggregate, of none, and of another.
MCMedia ==
    {Medium1("video", 4), Medium1("script", 3),
     [type |-> "aggregate", ts |-> 5, subs |-> << Part("audio", 5, 1), Part("video", 7, 0) >>],
     [type |-> "aggregate", ts |-> 9,
      subs |-> << Part("video", 2, 0), Part("audio", 12, 0), Part("audio", 13, 2) >>],
     [type |-> "aggregate", ts |-> 1, subs |-> << Part("video", 2, 0), Part("audio", 3, 0) >>]}
=============================================================================
