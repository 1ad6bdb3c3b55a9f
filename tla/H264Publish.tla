---------------------------- MODULE H264Publish ----------------------------
(***************************************************************************)
(* The H.264 half of the raw API of srs-librtmp (srs_librtmp.cpp and       *)
(* SrsRawH264Stream): one call of srs_h264_write_raw_frames cuts an annexb *)
(* buffer into NALUs, remembers SPS and PPS, and writes slices as RTMP     *)
(* video messages, behind a sequence header when the SPS or PPS changed.   *)
(* The module has no next-state relation: CameraPusher is a caller.        *)
(*                                                                         *)
(* The connection delivers what is written, in order (ChunkLink); from the *)
(* first write that fails on, it is down.  Player is what a decoder at its *)
(* far end makes of the messages.                                          *)
(***************************************************************************)
EXTENDS Integers, Sequences

CONSTANTS
    Sps,       \* SPS of 4 bytes and more
    ShortSps,  \* SPS NALUs without a level byte
    Pps,
    Slices     \* every other NALU, by what it holds

NoParameter == "empty"  \* an empty std::string

ASSUME H264Assumption ==
    /\ NoParameter \notin Sps \cup ShortSps \cup Pps
    /\ Sps \cap ShortSps = {}

Nalu == [type : {"sps"}, body : Sps \cup ShortSps]
        \cup [type : {"pps"}, body : Pps]
        \cup [type : {"slice"}, body : Slices]
        \cup [type : {"none"}, body : {NoParameter}]  \* nothing between two start codes

Errors == {"success", "no prefix", "dvbsp", "duplicated sps", "duplicated pps", "write"}

VARIABLES
    h264_sps, h264_pps, h264_sps_changed, h264_pps_changed, h264_sps_pps_sent,
    nalus,    \* h264_raw_stream: what the current call has not demuxed
    dts,      \* the timestamp of the current call
    error,    \* error_code_return
    pc,       \* idle, frames: in a call, aborted: an assertion failed
    up,       \* the connection takes what is written
    config,   \* player: the last sequence header
    shown,    \* player: the slices, with the parameters and time it has for them
    last,     \* history: the last SPS and PPS NALU of the calls
    given,    \* history: the slices of the calls that follow an SPS, with last, until
              \* the connection fails
    dropped   \* history: a slice of the current call was not written

parameters == <<h264_sps, h264_pps, h264_sps_changed, h264_pps_changed, h264_sps_pps_sent>>
call == <<nalus, dts, error, pc>>
player == <<config, shown>>
history == <<last, given, dropped>>
publishVars == <<parameters, call, up, player, history>>

Parameters(s, p) == [sps |-> s, pps |-> p]
Shown(slice, parms, t) == [slice |-> slice, sps |-> parms.sps, pps |-> parms.pps, dts |-> t]

ShownSlice == [slice : Slices, sps : Sps, pps : Pps \cup {NoParameter}, dts : Nat]

PublishInit ==
    /\ h264_sps = NoParameter /\ h264_pps = NoParameter
    /\ h264_sps_changed = FALSE /\ h264_pps_changed = FALSE
    /\ h264_sps_pps_sent = FALSE
    /\ nalus = <<>> /\ dts = 0 /\ error = "success" /\ pc = "idle" /\ up = TRUE
    /\ config = Parameters(NoParameter, NoParameter) /\ shown = <<>>
    /\ last = Parameters(NoParameter, NoParameter) /\ given = <<>> /\ dropped = FALSE

----------------------------------------------------------------------------

\* The call begins; a buffer that does not start with a start code is refused.
Begin(ns, prefixed, t) ==
    /\ pc = "idle"
    /\ dts' = t
    /\ dropped' = FALSE
    /\ pc' = "frames"
    /\ IF prefixed THEN nalus' = ns /\ error' = "success"
                   ELSE nalus' = <<>> /\ error' = "no prefix"
    /\ UNCHANGED <<parameters, up, player, last, given>>

Nal == Head(nalus)
Takes(type) == pc = "frames" /\ nalus # <<>> /\ Nal.type = type

\* frame_size <= 0: continue.
SkipEmpty ==
    /\ Takes("none")
    /\ nalus' = Tail(nalus)
    /\ UNCHANGED <<parameters, dts, error, pc, up, player, history>>

\* Mutant: the last return value instead of the last error.
ErrorAfterOverwritten(e) == e

\* error_code_return after a NALU with return value e.
ErrorAfter(e) == IF e = "success" THEN error ELSE e

\* Mutant: the length is not looked at.
DemuxedWhole == Nal.body

\* sps_demux: a short SPS is no error, and leaves the string empty.
DemuxedSps == IF Nal.body \in ShortSps THEN NoParameter ELSE Nal.body

TakeSps ==
    /\ Takes("sps")
    /\ IF h264_sps = DemuxedSps
       THEN /\ error' = ErrorAfter("duplicated sps")
            /\ UNCHANGED <<h264_sps, h264_sps_changed>>
       ELSE /\ h264_sps' = DemuxedSps /\ h264_sps_changed' = TRUE
            /\ error' = ErrorAfter("success")
    /\ nalus' = Tail(nalus)
    /\ last' = [last EXCEPT !.sps = Nal.body]
    /\ UNCHANGED <<h264_pps, h264_pps_changed, h264_sps_pps_sent, dts, pc, up,
                   player, given, dropped>>

TakePps ==
    /\ Takes("pps")
    /\ IF h264_pps = Nal.body
       THEN /\ error' = ErrorAfter("duplicated pps")
            /\ UNCHANGED <<h264_pps, h264_pps_changed>>
       ELSE /\ h264_pps' = Nal.body /\ h264_pps_changed' = TRUE
            /\ error' = ErrorAfter("success")
    /\ nalus' = Tail(nalus)
    /\ last' = [last EXCEPT !.pps = Nal.body]
    /\ UNCHANGED <<h264_sps, h264_sps_changed, h264_sps_pps_sent, dts, pc, up,
                   player, given, dropped>>

\* Mutant: a new PPS waits for the next SPS.
HeaderDueForSps == h264_sps_changed

\* srs_write_h264_sps_pps: send when sps or pps changed.
HeaderDue == h264_sps_changed \/ h264_pps_changed

\* mux_sequence_header: srs_assert(sps.length() >= 4) ends the process.
Abort ==
    /\ Takes("slice") /\ HeaderDue /\ h264_sps = NoParameter
    /\ pc' = "aborted"
    /\ UNCHANGED <<parameters, nalus, dts, error, up, player, history>>

\* History: the caller gave this slice behind an SPS, to a connection that is up.
Give == given' = IF up /\ last.sps \in Sps THEN Append(given, Shown(Nal.body, last, dts))
                 ELSE given

\* Before sps and pps are sent, ignore the packet.
DropSlice ==
    /\ Takes("slice") /\ ~HeaderDue /\ ~h264_sps_pps_sent
    /\ error' = ErrorAfter("dvbsp")
    /\ nalus' = Tail(nalus)
    /\ dropped' = TRUE
    /\ Give
    /\ UNCHANGED <<parameters, dts, pc, up, player, last>>

\* The sequence header, when due, and the slice; the connection fails before the
\* header, before the slice, or not at all.
SendSlice ==
    /\ Takes("slice")
    /\ HeaderDue => h264_sps # NoParameter
    /\ HeaderDue \/ h264_sps_pps_sent
    /\ h264_sps_changed' = FALSE /\ h264_pps_changed' = FALSE
    /\ h264_sps_pps_sent' = TRUE
    /\ \E header, slice \in BOOLEAN :
          /\ header => up /\ HeaderDue
          /\ slice => up /\ (HeaderDue => header)
          /\ config' = IF header THEN Parameters(h264_sps, h264_pps) ELSE config
          /\ shown' = IF slice THEN Append(shown, Shown(Nal.body, config', dts)) ELSE shown
          /\ up' = slice
          /\ dropped' = (dropped \/ ~slice)
          /\ IF slice THEN error' = ErrorAfter("success") /\ nalus' = Tail(nalus)
                      ELSE error' = "write" /\ nalus' = <<>>
    /\ Give
    /\ UNCHANGED <<h264_sps, h264_pps, dts, pc, last>>

Write == SkipEmpty \/ TakeSps \/ TakePps \/ Abort \/ DropSlice \/ SendSlice

----------------------------------------------------------------------------

PublishTypeOK ==
    /\ h264_sps \in Sps \cup {NoParameter} /\ h264_pps \in Pps \cup {NoParameter}
    /\ h264_sps_changed \in BOOLEAN /\ h264_pps_changed \in BOOLEAN
    /\ h264_sps_pps_sent \in BOOLEAN /\ up \in BOOLEAN /\ dropped \in BOOLEAN
    /\ nalus \in Seq(Nalu) /\ dts \in Nat /\ error \in Errors
    /\ pc \in {"idle", "frames", "aborted"}
    /\ config \in [sps : Sps \cup {NoParameter}, pps : Pps \cup {NoParameter}]
    /\ last \in [sps : Sps \cup ShortSps \cup {NoParameter}, pps : Pps \cup {NoParameter}]
    /\ shown \in Seq(ShownSlice) /\ given \in Seq(ShownSlice)
=============================================================================
