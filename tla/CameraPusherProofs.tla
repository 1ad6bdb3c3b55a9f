------------------------- MODULE CameraPusherProofs ------------------------
(***************************************************************************)
(* Proofs about CameraPusher, for all sets of SPS, PPS, slices and         *)
(* packets: a player decodes what the camera gave, every dropped slice is  *)
(* reported, and packets have times of their own.  All follow from         *)
(* PusherInv; each lemma below shows that one action keeps it.             *)
(***************************************************************************)
EXTENDS CameraPusher, TLAPS

\* The first NALU of a call, and the rest of it.
LEMMA HeadAndTail ==
    ASSUME nalus \in Seq(Nalu), nalus # <<>>
    PROVE  Nal \in Nalu /\ Tail(nalus) \in Seq(Nalu)
BY DEF Nal

\* Nothing is left of a call that failed.
LEMMA NothingLeft == <<>> \in Seq(Nalu)
OBVIOUS

\* What the length, the elements and the times of the slices shown do not see.
LEMMA SameSlices ==
    ASSUME UNCHANGED <<shown, given, up>>, DecodedAsGiven
    PROVE  DecodedAsGiven'
BY DEF DecodedAsGiven

\* The times of the slices shown are numbers.
LEMMA TimesAreNumbers ==
    ASSUME TypeOK, NEW i \in 1..Len(shown)
    PROVE  shown[i].dts \in Nat
<1>1. shown[i] \in ShownSlice
    BY DEF TypeOK, PublishTypeOK
<1> QED BY <1>1 DEF ShownSlice

LEMMA InitInv == Init => PusherInv
<1> SUFFICES ASSUME Init PROVE PusherInv
    OBVIOUS
<1> USE DEF Init, PublishInit, Parameters
<1>1. TypeOK
  <2>1. <<>> \in Seq(Nalu) /\ <<>> \in Seq(ShownSlice) /\ <<>> \in Seq(Nat)
    OBVIOUS
  <2>2. /\ config \in [sps : Sps \cup {NoParameter}, pps : Pps \cup {NoParameter}]
        /\ last \in [sps : Sps \cup ShortSps \cup {NoParameter}, pps : Pps \cup {NoParameter}]
    OBVIOUS
  <2>3. /\ {h264_sps_changed, h264_pps_changed, h264_sps_pps_sent, up, dropped} \subseteq BOOLEAN
        /\ error \in Errors /\ pc \in {"idle", "frames", "aborted"}
    BY DEF Errors
  <2> QED BY <2>1, <2>2, <2>3 DEF TypeOK, PublishTypeOK
<1>2. ParametersInv
    BY H264Assumption DEF ParametersInv, HeaderDue
<1>3. TimeInv /\ ReportInv /\ DecodedAsGiven
    BY DEF TimeInv, ReportInv, DecodedAsGiven, ShownBefore
<1> QED BY <1>1, <1>2, <1>3 DEF PusherInv

LEMMA IgnorePacketInv ==
    ASSUME PusherInv, IgnorePacket
    PROVE  PusherInv'
<1> USE DEF IgnorePacket, publishVars, parameters, call, player, history
<1>1. TypeOK'
    BY DEF PusherInv, TypeOK, PublishTypeOK
<1>2. ParametersInv' /\ ReportInv'
    BY DEF PusherInv, ParametersInv, HeaderDue, ReportInv
<1>3. TimeInv'
    BY DEF PusherInv, TimeInv, ShownBefore, ShownUpTo
<1>4. DecodedAsGiven'
    BY SameSlices DEF PusherInv
<1> QED BY <1>1, <1>2, <1>3, <1>4 DEF PusherInv

LEMMA PublishPacketInv ==
    ASSUME PusherInv, PublishPacket
    PROVE  PusherInv'
<1>1. PICK p \in Packets : Begin(p.nalus, p.prefixed, timestamp)
    BY DEF PublishPacket
<1>2. p.nalus \in Seq(Nalu) /\ p.prefixed \in BOOLEAN
    BY PusherAssumption
<1> USE DEF parameters, player, cameraVars
<1>3. TypeOK'
  <2>1. dts' = timestamp /\ pc' = "frames" /\ error' \in Errors
    BY <1>1 DEF Begin, Errors
  <2>3. nalus' = p.nalus \/ nalus' = <<>>
    BY <1>1 DEF Begin
  <2>2. dropped' \in BOOLEAN
    BY <1>1 DEF Begin
  <2>4. nalus' \in Seq(Nalu)
    <3>1. CASE nalus' = p.nalus
      BY <1>2, <3>1
    <3>2. CASE nalus' = <<>>
      BY <3>2, NothingLeft
    <3> QED BY <2>3, <3>1, <3>2
  <2>5. timestamp' = timestamp /\ returned' = returned
    BY DEF PublishPacket
  <2>6. UNCHANGED <<h264_sps, h264_pps, h264_sps_changed, h264_pps_changed,
                    h264_sps_pps_sent, up, config, shown, last, given>>
    BY <1>1 DEF Begin
  <2>7. timestamp \in Nat /\ returned \in {"TRUE", "failed"} /\ PublishTypeOK
    BY DEF PusherInv, TypeOK
  <2>8. PublishTypeOK'
    BY <2>1, <2>2, <2>4, <2>6, <2>7 DEF PublishTypeOK
  <2> QED BY <2>5, <2>7, <2>8 DEF TypeOK
<1>4. ParametersInv'
    BY <1>1 DEF Begin, PusherInv, ParametersInv, HeaderDue
<1>5. ReportInv'
    BY <1>1 DEF Begin, ReportInv
<1>6. TimeInv'
  <2>1. /\ pc = "idle" /\ pc' = "frames" /\ dts' = timestamp /\ timestamp' = timestamp
        /\ shown' = shown /\ up' = up
    BY <1>1 DEF Begin, PublishPacket
  <2>2. \/ error' = "no prefix" /\ nalus' = <<>>
        \/ error' \in Tolerated
    BY <1>1 DEF Begin, Tolerated
  <2>3. up => ShownBefore(timestamp)' /\ ShownUpTo(timestamp)'
    BY <2>1, TimesAreNumbers DEF PusherInv, TimeInv, TypeOK, ShownBefore, ShownUpTo
  <2> QED BY <2>1, <2>2, <2>3 DEF TimeInv
<1>7. DecodedAsGiven'
    BY <1>1, SameSlices DEF Begin, PusherInv
<1> QED BY <1>3, <1>4, <1>5, <1>6, <1>7 DEF PusherInv

LEMMA ReturnInv ==
    ASSUME PusherInv, Return
    PROVE  PusherInv'
<1> USE DEF Return, parameters, player, history
<1>1. TypeOK'
    BY DEF PusherInv, TypeOK, PublishTypeOK
<1>2. ParametersInv' /\ ReportInv'
    BY DEF PusherInv, ParametersInv, HeaderDue, ReportInv
<1>3. TimeInv'
  <2>1. up => \/ error \notin Tolerated /\ ShownBefore(timestamp)
              \/ error \in Tolerated /\ ShownUpTo(timestamp)
    BY DEF PusherInv, TimeInv, Tolerated
  <2>2. CASE error \in Tolerated
    <3>1. timestamp' = timestamp + 40 /\ timestamp \in Nat /\ pc' = "idle" /\ shown' = shown
      BY <2>2 DEF PusherInv, TypeOK
    <3>2. up => ShownUpTo(timestamp)
      BY <2>1, <2>2
    <3>3. up => ShownBefore(timestamp)'
      BY <3>1, <3>2, TimesAreNumbers DEF PusherInv, ShownBefore, ShownUpTo
    <3> QED BY <3>1, <3>3 DEF TimeInv
  <2>3. CASE error \notin Tolerated
    BY <2>1, <2>3 DEF PusherInv, TimeInv, ShownBefore
  <2> QED BY <2>2, <2>3
<1>4. DecodedAsGiven'
    BY SameSlices DEF PusherInv
<1> QED BY <1>1, <1>2, <1>3, <1>4 DEF PusherInv

----------------------------------------------------------------------------
(* The steps of srs_h264_write_raw_frames *)

\* A NALU that is no slice leaves an error the callback goes on with.
LEMMA QuietNalu ==
    ASSUME PusherInv, pc = "frames", nalus # <<>>, error' = error \/ error' \in Tolerated,
           UNCHANGED <<pc, up, dts, shown, given, timestamp>>
    PROVE  TimeInv' /\ DecodedAsGiven'
<1>1. up => error \in Tolerated /\ dts = timestamp /\ ShownUpTo(timestamp)
    BY DEF PusherInv, TimeInv
<1>2. up => ShownUpTo(timestamp)'
    BY <1>1 DEF ShownUpTo
<1> QED BY <1>1, <1>2, SameSlices DEF PusherInv, TimeInv

LEMMA SkipEmptyInv ==
    ASSUME PusherInv, SkipEmpty, UNCHANGED cameraVars
    PROVE  PusherInv'
<1> USE DEF SkipEmpty, Takes, parameters, player, history, cameraVars
<1>1. TypeOK'
    BY HeadAndTail DEF PusherInv, TypeOK, PublishTypeOK
<1>2. ParametersInv' /\ ReportInv'
    BY DEF PusherInv, ParametersInv, HeaderDue, ReportInv
<1>3. TimeInv' /\ DecodedAsGiven'
    BY QuietNalu
<1> QED BY <1>1, <1>2, <1>3 DEF PusherInv

LEMMA TakeSpsInv ==
    ASSUME PusherInv, TakeSps, UNCHANGED cameraVars
    PROVE  PusherInv'
<1> USE DEF Takes, player, cameraVars
<1>1. Nal \in Nalu /\ Nal.type = "sps" /\ Tail(nalus) \in Seq(Nalu)
    BY HeadAndTail DEF TakeSps, PusherInv, TypeOK, PublishTypeOK
<1>2. Nal.body \in Sps \cup ShortSps
    BY <1>1 DEF Nalu
<1>3. DemuxedSps = IF Nal.body \in Sps THEN Nal.body ELSE NoParameter
    BY <1>2, H264Assumption DEF DemuxedSps
<1>4. h264_sps' = DemuxedSps
    BY DEF TakeSps
<1>5. last' = [sps |-> Nal.body, pps |-> last.pps]
    BY DEF TakeSps, PusherInv, TypeOK, PublishTypeOK
<1>6. TypeOK'
  <2>1. h264_sps' \in Sps \cup {NoParameter} /\ error' \in Errors /\ h264_sps_changed' \in BOOLEAN
    BY <1>2, <1>3, <1>4 DEF ErrorAfter, TakeSps, PusherInv, TypeOK, PublishTypeOK, Errors
  <2>2. last' \in [sps : Sps \cup ShortSps \cup {NoParameter}, pps : Pps \cup {NoParameter}]
    BY <1>2, <1>5 DEF PusherInv, TypeOK, PublishTypeOK
  <2> QED BY <1>1, <2>1, <2>2 DEF TakeSps, PusherInv, TypeOK, PublishTypeOK
<1>7. ParametersInv'
  <2>1. h264_sps' = h264_sps \/ HeaderDue'
    BY DEF TakeSps, HeaderDue
  <2>2. HeaderDue => HeaderDue'
    BY DEF TakeSps, HeaderDue
  <2>3. h264_sps' = IF last'.sps \in Sps THEN last'.sps ELSE NoParameter
    BY <1>3, <1>4, <1>5
  <2>4. h264_pps' = last'.pps
    BY <1>5 DEF TakeSps, PusherInv, ParametersInv
  <2> QED BY <2>1, <2>2, <2>3, <2>4 DEF TakeSps, PusherInv, ParametersInv
<1>8. ReportInv'
    BY DEF ErrorAfter, TakeSps, PusherInv, ReportInv
<1>9. TimeInv' /\ DecodedAsGiven'
    BY QuietNalu DEF ErrorAfter, TakeSps, Tolerated
<1> QED BY <1>6, <1>7, <1>8, <1>9 DEF PusherInv

LEMMA TakePpsInv ==
    ASSUME PusherInv, TakePps, UNCHANGED cameraVars
    PROVE  PusherInv'
<1> USE DEF Takes, player, cameraVars
<1>1. Nal \in Nalu /\ Nal.type = "pps" /\ Tail(nalus) \in Seq(Nalu)
    BY HeadAndTail DEF TakePps, PusherInv, TypeOK, PublishTypeOK
<1>2. Nal.body \in Pps
    BY <1>1 DEF Nalu
<1>3. last' = [sps |-> last.sps, pps |-> Nal.body] /\ h264_pps' = Nal.body
    BY DEF TakePps, PusherInv, TypeOK, PublishTypeOK
<1>4. TypeOK'
  <2>1. h264_pps' \in Pps \cup {NoParameter} /\ error' \in Errors /\ h264_pps_changed' \in BOOLEAN
    BY <1>2, <1>3 DEF ErrorAfter, TakePps, PusherInv, TypeOK, PublishTypeOK, Errors
  <2>2. last' \in [sps : Sps \cup ShortSps \cup {NoParameter}, pps : Pps \cup {NoParameter}]
    BY <1>2, <1>3 DEF PusherInv, TypeOK, PublishTypeOK
  <2> QED BY <1>1, <2>1, <2>2 DEF TakePps, PusherInv, TypeOK, PublishTypeOK
<1>5. ParametersInv'
  <2>1. h264_pps' = h264_pps \/ HeaderDue'
    BY DEF TakePps, HeaderDue
  <2>2. HeaderDue => HeaderDue'
    BY DEF TakePps, HeaderDue
  <2> QED BY <1>3, <2>1, <2>2 DEF TakePps, PusherInv, ParametersInv
<1>6. ReportInv'
    BY DEF ErrorAfter, TakePps, PusherInv, ReportInv
<1>7. TimeInv' /\ DecodedAsGiven'
    BY QuietNalu DEF ErrorAfter, TakePps, Tolerated
<1> QED BY <1>4, <1>5, <1>6, <1>7 DEF PusherInv

LEMMA AbortInv ==
    ASSUME PusherInv, Abort, UNCHANGED cameraVars
    PROVE  PusherInv'
<1> USE DEF Abort, parameters, player, history, cameraVars
<1>1. TypeOK'
    BY DEF PusherInv, TypeOK, PublishTypeOK
<1>2. ParametersInv' /\ ReportInv' /\ TimeInv'
    BY DEF PusherInv, ParametersInv, HeaderDue, ReportInv, TimeInv
<1>3. DecodedAsGiven'
    BY SameSlices DEF PusherInv
<1> QED BY <1>1, <1>2, <1>3 DEF PusherInv

\* Nothing the camera gave behind an SPS is dropped.
LEMMA DropSliceInv ==
    ASSUME PusherInv, DropSlice, UNCHANGED cameraVars
    PROVE  PusherInv'
<1> USE DEF Takes, parameters, player, cameraVars
<1>1. h264_sps = NoParameter
    BY DEF DropSlice, PusherInv, ParametersInv
<1>2. last.sps \notin Sps
    BY <1>1, H264Assumption DEF PusherInv, ParametersInv
<1>3. given' = given
    BY <1>2 DEF DropSlice, Give
<1>4. TypeOK'
  <2>1. nalus' \in Seq(Nalu) /\ nalus' = Tail(nalus)
    BY HeadAndTail DEF DropSlice, PusherInv, TypeOK, PublishTypeOK
  <2>2. error' \in Errors /\ dropped' \in BOOLEAN
    BY DEF DropSlice, ErrorAfter, Errors, PusherInv, TypeOK, PublishTypeOK
  <2> QED BY <1>3, <2>1, <2>2 DEF DropSlice, PusherInv, TypeOK, PublishTypeOK
<1>5. ParametersInv'
    BY DEF DropSlice, PusherInv, ParametersInv, HeaderDue
<1>6. ReportInv'
    BY DEF DropSlice, ErrorAfter, ReportInv
<1>7. TimeInv' /\ DecodedAsGiven'
    BY <1>3, QuietNalu DEF DropSlice, ErrorAfter, Tolerated
<1> QED BY <1>4, <1>5, <1>6, <1>7 DEF PusherInv

----------------------------------------------------------------------------
(* A slice that is sent *)

\* What the camera gives behind an SPS.
Gift == Shown(Nal.body, last, dts)

LEMMA SendSliceInv ==
    ASSUME PusherInv, SendSlice, UNCHANGED cameraVars
    PROVE  PusherInv'
<1>1. PICK header \in BOOLEAN, slice \in BOOLEAN :
        /\ header => up /\ HeaderDue
        /\ slice => up /\ (HeaderDue => header)
        /\ config' = IF header THEN Parameters(h264_sps, h264_pps) ELSE config
        /\ shown' = IF slice THEN Append(shown, Shown(Nal.body, config', dts)) ELSE shown
        /\ up' = slice
        /\ dropped' = (dropped \/ ~slice)
        /\ IF slice THEN error' = ErrorAfter("success") /\ nalus' = Tail(nalus)
                    ELSE error' = "write" /\ nalus' = <<>>
    BY DEF SendSlice
<1>2. /\ Nal \in Nalu /\ Nal.type = "slice" /\ Tail(nalus) \in Seq(Nalu)
      /\ pc = "frames" /\ nalus # <<>>
    BY HeadAndTail DEF SendSlice, Takes, PusherInv, TypeOK, PublishTypeOK
<1>3. Nal.body \in Slices
    BY <1>2 DEF Nalu
<1>4. h264_sps \in Sps /\ last.sps = h264_sps /\ last.pps = h264_pps
    BY H264Assumption DEF SendSlice, PusherInv, TypeOK, PublishTypeOK, ParametersInv
<1>5. given' = IF up THEN Append(given, Gift) ELSE given
    BY <1>4 DEF SendSlice, Give, Gift
<1>6. slice => config' = Parameters(h264_sps, h264_pps)
    BY <1>1 DEF SendSlice, PusherInv, ParametersInv
<1>7. slice => up /\ shown' = Append(shown, Gift)
    BY <1>1, <1>4, <1>6 DEF Shown, Parameters, Gift
<1>8. Gift \in ShownSlice
    BY <1>3, <1>4 DEF Gift, Shown, ShownSlice, PusherInv, TypeOK, PublishTypeOK
<1>9. TypeOK'
  <2>1. config' \in [sps : Sps \cup {NoParameter}, pps : Pps \cup {NoParameter}]
    BY <1>1 DEF Parameters, PusherInv, TypeOK, PublishTypeOK
  <2>2. error' \in Errors /\ up' \in BOOLEAN /\ dropped' \in BOOLEAN
    BY <1>1 DEF ErrorAfter, Errors, PusherInv, TypeOK, PublishTypeOK
  <2>5. nalus' = Tail(nalus) \/ nalus' = <<>>
    BY <1>1
  <2>3. shown' \in Seq(ShownSlice)
    BY <1>1, <1>7, <1>8 DEF PusherInv, TypeOK, PublishTypeOK
  <2>4. given' \in Seq(ShownSlice)
    BY <1>5, <1>8 DEF PusherInv, TypeOK, PublishTypeOK
  <2>6. nalus' \in Seq(Nalu)
    <3>1. CASE nalus' = Tail(nalus)
      BY <1>2, <3>1
    <3>2. CASE nalus' = <<>>
      BY <3>2, NothingLeft
    <3> QED BY <2>5, <3>1, <3>2
  <2>7. /\ UNCHANGED <<h264_sps, h264_pps, dts, pc, last>>
        /\ h264_sps_changed' = FALSE /\ h264_pps_changed' = FALSE /\ h264_sps_pps_sent' = TRUE
    BY DEF SendSlice
  <2>8. timestamp \in Nat /\ returned \in {"TRUE", "failed"} /\ PublishTypeOK
    BY DEF PusherInv, TypeOK
  <2>9. PublishTypeOK'
    BY <2>1, <2>2, <2>3, <2>4, <2>6, <2>7, <2>8 DEF PublishTypeOK
  <2> QED BY <2>8, <2>9 DEF cameraVars, TypeOK
<1>10. ParametersInv'
    BY <1>1, <1>6 DEF SendSlice, PusherInv, ParametersInv, HeaderDue
<1>11. ReportInv'
    BY <1>1 DEF ErrorAfter, PusherInv, ReportInv
<1>12. TimeInv'
  <2>1. up => error \in Tolerated /\ dts = timestamp /\ ShownUpTo(timestamp)
    BY <1>2 DEF PusherInv, TimeInv
  <2>2. ASSUME slice PROVE ShownUpTo(timestamp)'
    <3>1. Gift.dts = dts /\ shown \in Seq(ShownSlice)
      BY DEF Gift, Shown, PusherInv, TypeOK, PublishTypeOK
    <3> QED BY <1>7, <2>1, <2>2, <3>1 DEF ShownUpTo, cameraVars, PusherInv, TypeOK
  <2> QED BY <1>1, <1>2, <2>1, <2>2 DEF SendSlice, cameraVars, TimeInv, ErrorAfter
<1>13. DecodedAsGiven'
  <2>1. /\ shown \in Seq(ShownSlice)
        /\ given \in Seq(ShownSlice)
    BY DEF PusherInv, TypeOK, PublishTypeOK
  <2>2. CASE slice
    BY <1>1, <1>5, <1>7, <2>1, <2>2 DEF PusherInv, DecodedAsGiven
  <2>3. CASE ~slice
    BY <1>1, <1>5, <2>1, <2>3 DEF PusherInv, DecodedAsGiven
  <2> QED BY <2>2, <2>3
<1> QED BY <1>9, <1>10, <1>11, <1>12, <1>13 DEF PusherInv

----------------------------------------------------------------------------

THEOREM PusherInvariant == Spec => []PusherInv
<1>1. Init => PusherInv
    BY InitInv
<1>2. PusherInv /\ [Next]_vars => PusherInv'
  <2> SUFFICES ASSUME PusherInv, [Next]_vars PROVE PusherInv'
    OBVIOUS
  <2>1. CASE IgnorePacket
    BY <2>1, IgnorePacketInv
  <2>2. CASE PublishPacket
    BY <2>2, PublishPacketInv
  <2>3. CASE Return
    BY <2>3, ReturnInv
  <2>4. CASE Write /\ UNCHANGED cameraVars
    BY <2>4, SkipEmptyInv, TakeSpsInv, TakePpsInv, AbortInv, DropSliceInv, SendSliceInv DEF Write
  <2>5. CASE UNCHANGED vars
    <3> USE <2>5 DEF vars, publishVars, parameters, call, player, history, cameraVars
    <3>1. TypeOK'
      BY DEF PusherInv, TypeOK, PublishTypeOK
    <3>2. ParametersInv' /\ ReportInv' /\ TimeInv'
      BY DEF PusherInv, ParametersInv, HeaderDue, ReportInv, TimeInv, ShownBefore, ShownUpTo
    <3>3. DecodedAsGiven'
      BY SameSlices DEF PusherInv
    <3> QED BY <3>1, <3>2, <3>3 DEF PusherInv
  <2> QED BY <2>1, <2>2, <2>3, <2>4, <2>5 DEF Next
<1> QED BY <1>1, <1>2, PTL DEF Spec

(***************************************************************************)
(* TypeOK for all parameters: a short SPS leaves no more than the empty    *)
(* string, and what is shown always has an SPS.                            *)
(***************************************************************************)
THEOREM PusherTypeCorrect == Spec => []TypeOK
<1>1. PusherInv => TypeOK
    BY DEF PusherInv
<1> QED BY <1>1, PusherInvariant, PTL

(***************************************************************************)
(* A player decodes the slices of the camera with the parameters they were *)
(* made with: DecodedAsGiven, whatever the packets hold.                   *)
(***************************************************************************)
THEOREM PlayerDecodesTheCamera == Spec => []DecodedAsGiven
<1>1. PusherInv => DecodedAsGiven
    BY DEF PusherInv
<1> QED BY <1>1, PusherInvariant, PTL

(***************************************************************************)
(* srs_h264_write_raw_frames reports every slice that was not written:     *)
(* DropsAreReported.                                                       *)
(***************************************************************************)
THEOREM EveryDropIsReported == Spec => []DropsAreReported
<1>1. PusherInv => DropsAreReported
    BY DEF PusherInv, ReportInv, DropsAreReported
<1> QED BY <1>1, PusherInvariant, PTL

(***************************************************************************)
(* What is shown is older than the packet that comes next: ShownBeforeNow, *)
(* so that timestamps grow from packet to packet.                          *)
(***************************************************************************)
THEOREM PacketsNeverShareATime == Spec => []ShownBeforeNow
<1>1. PusherInv => ShownBeforeNow
    BY DEF PusherInv, TimeInv, ShownBefore, ShownBeforeNow
<1> QED BY <1>1, PusherInvariant, PTL
=============================================================================
