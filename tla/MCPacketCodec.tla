--------------------------- MODULE MCPacketCodec ---------------------------
(***************************************************************************)
(* PacketCodec with two property names, one of them empty, three kinds of  *)
(* leaves, and four steps: a packet behind three calls that build values,  *)
(* two behind two, or four in a row.                                       *)
(***************************************************************************)
EXTENDS PacketCodec

\* One byte for each text, but for the names of properties: one is empty, and the bytes
\* of the other are those of an object end.
MCSpelling ==
    [connect |-> <<65>>, createStream |-> <<66>>, releaseStream |-> <<67>>,
     FCPublish |-> <<68>>, FCUnpublish |-> <<69>>, publish |-> <<70>>, play |-> <<71>>,
     pause |-> <<72>>, closeStream |-> <<73>>, hello |-> <<74>>, _result |-> <<75>>,
     onStatus |-> <<76>>, onFCPublish |-> <<77>>, onBWDone |-> <<78>>,
     onMetaData |-> <<79>>, startPlay |-> <<82>>, startingPlay |-> <<83>>,
     stopPlay |-> <<84>>, stoppedPlay |-> <<85>>, startPublish |-> <<86>>,
     finished |-> <<87>>, final |-> <<88>>, live |-> <<89>>, record |-> <<90>>,
     app |-> <<91>>, fpad |-> <<92>>, fmsVer |-> <<93>>]
    @@ ("@setDataFrame" :> <<80>>) @@ ("|RtmpSampleAccess" :> <<81>>)
    @@ ("" :> <<>>) @@ ("nul" :> <<0, 0, 9>>)

MCBits ==
    (-2 :> <<192, 0, 0, 0, 0, 0, 0, 0>>) @@ (-1 :> <<191, 240, 0, 0, 0, 0, 0, 0>>)
    @@ (0 :> <<0, 0, 0, 0, 0, 0, 0, 0>>) @@ (1 :> <<63, 240, 0, 0, 0, 0, 0, 0>>)
    @@ (2 :> <<64, 0, 0, 0, 0, 0, 0, 0>>) @@ (3 :> <<64, 8, 0, 0, 0, 0, 0, 0>>)
    @@ (4 :> <<64, 16, 0, 0, 0, 0, 0, 0>>) @@ (5 :> <<64, 20, 0, 0, 0, 0, 0, 0>>)
    @@ (9 :> <<0, 0, 0, 0, 0, 0, 0, 9>>)

MCKeys == {"", "nul"}
MCLeaves == { Num(0), Str(""), [Date |-> 9, zone |-> -1] }
============================================================================
