---------------------------- MODULE CameraPusher ---------------------------
(***************************************************************************)
(* camera2hls while its camera plays (research/camera/test.cpp): the SDK   *)
(* of the camera calls RealDataCallBack_V2 for each packet, one call at a  *)
(* time, and the callback publishes the video packets with timestamps of   *)
(* its own, 40 ms apart.                                                   *)
(***************************************************************************)
EXTENDS H264Publish

CONSTANTS
    Packets,     \* what the SDK delivers: [video, prefixed, nalus]
    MaxTime      \* bound: packets are published up to this timestamp

ASSUME PusherAssumption ==
    Packets \subseteq [video : BOOLEAN, prefixed : BOOLEAN, nalus : Seq(Nalu)]

VARIABLES
    timestamp,   \* of the next packet
    returned     \* what the callback returned last: TRUE, or -1 as "failed"

cameraVars == <<timestamp, returned>>
vars == <<publishVars, cameraVars>>

Init == /\ PublishInit
        /\ timestamp = 0 /\ returned = "TRUE"

\* nPacketType: other packets than video are not looked at.
IgnorePacket ==
    /\ pc = "idle"
    /\ \E p \in Packets : ~p.video
    /\ returned' = "TRUE"
    /\ UNCHANGED <<publishVars, timestamp>>

PublishPacket ==
    /\ timestamp <= MaxTime
    /\ \E p \in Packets : p.video /\ Begin(p.nalus, p.prefixed, timestamp)
    /\ UNCHANGED cameraVars

\* Mutant: a packet with an error has no time of its own.
OnlySuccess == {"success"}

\* The errors the callback goes on with.
Tolerated == {"success", "dvbsp", "duplicated sps", "duplicated pps"}

\* srs_h264_write_raw_frames returns: 25 fps.
Return ==
    /\ pc = "frames" /\ nalus = <<>>
    /\ pc' = "idle"
    /\ IF error \in Tolerated
       THEN timestamp' = timestamp + 40 /\ returned' = "TRUE"
       ELSE returned' = "failed" /\ UNCHANGED timestamp
    /\ UNCHANGED <<parameters, nalus, dts, error, up, player, history>>

Next ==
    \/ IgnorePacket \/ PublishPacket \/ Return
    \/ Write /\ UNCHANGED cameraVars

Spec == Init /\ [][Next]_vars

----------------------------------------------------------------------------

\* Every variable has the type of what it stands for.
TypeOK ==
    /\ PublishTypeOK
    /\ timestamp \in Nat /\ returned \in {"TRUE", "failed"}

(***************************************************************************)
(* A player at the far end decodes the slices of the camera since its      *)
(* first SPS, all of them in order, each with the SPS and PPS the camera   *)
(* gave last before it; a connection that broke ends this, and never makes *)
(* a slice be decoded with the wrong parameters.                           *)
(***************************************************************************)
DecodedAsGiven ==
    /\ Len(shown) <= Len(given)
    /\ \A i \in 1..Len(shown) : shown[i] = given[i]
    /\ up => Len(shown) = Len(given)

\* The callback learns of every slice that was not written.
DropsAreReported == pc = "idle" /\ dropped => error # "success"

(***************************************************************************)
(* Slices of different packets never have the same timestamp, and the      *)
(* timestamps never go back, whatever errors the packets had: what was     *)
(* shown is older than the packet that comes next.                         *)
(***************************************************************************)
ShownBeforeNow == up /\ pc = "idle" => \A i \in 1..Len(shown) : shown[i].dts < timestamp

\* srs_assert((int)sps.length() >= 4) in mux_sequence_header holds.
NeverAborts == pc # "aborted"

(***************************************************************************)
(* The inductive invariant: the strings hold what the camera gave last;    *)
(* the player has them, or a header is due; and no slice is dropped while  *)
(* the camera has an SPS.                                                  *)
(***************************************************************************)
ParametersInv ==
    /\ h264_sps = IF last.sps \in Sps THEN last.sps ELSE NoParameter
    /\ h264_pps = last.pps
    /\ up /\ h264_sps_pps_sent /\ ~HeaderDue => config = Parameters(h264_sps, h264_pps)
    /\ ~HeaderDue => (h264_sps_pps_sent <=> h264_sps # NoParameter)

ShownUpTo(t) == \A i \in 1..Len(shown) : shown[i].dts <= t
ShownBefore(t) == \A i \in 1..Len(shown) : shown[i].dts < t

TimeInv ==
    /\ pc = "idle" /\ up => ShownBefore(timestamp)
    /\ pc = "frames" /\ up =>
          \/ error = "no prefix" /\ nalus = <<>> /\ ShownBefore(timestamp)
          \/ error \in Tolerated /\ dts = timestamp /\ ShownUpTo(timestamp)

ReportInv == dropped => error # "success"

PusherInv == TypeOK /\ ParametersInv /\ TimeInv /\ ReportInv /\ DecodedAsGiven
=============================================================================
