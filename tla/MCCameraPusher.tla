--------------------------- MODULE MCCameraPusher --------------------------
(* Packets of a camera for model checking CameraPusher. *)
EXTENDS CameraPusher

S(b) == [type |-> "sps", body |-> b]
P(b) == [type |-> "pps", body |-> b]
F(b) == [type |-> "slice", body |-> b]
None == [type |-> "none", body |-> NoParameter]
Video(ns) == [video |-> TRUE, prefixed |-> TRUE, nalus |-> ns]

\* Key frames with their parameters, old ones again or new, in both orders or one
\* of them alone; frames without; parameters alone; what is not video or not annexb.
MCPackets ==
    { Video(<<S("s1"), P("p1"), F("idr")>>), Video(<<S("s2"), P("p2"), F("idr")>>),
      Video(<<P("p2"), S("s1"), F("idr")>>), Video(<<S("s1")>>), Video(<<P("p1")>>),
      Video(<<F("slice")>>), Video(<<F("idr"), None, F("slice")>>),
      Video(<<F("slice"), P("p2"), F("slice")>>), Video(<<F("slice"), S("s2"), F("idr")>>),
      Video(<<S("short"), F("slice")>>),
      [Video(<<F("slice")>>) EXCEPT !.prefixed = FALSE],
      [Video(<<>>) EXCEPT !.video = FALSE] }
=============================================================================
