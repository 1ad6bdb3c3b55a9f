-------------------------------- MODULE TsLink --------------------------------
(***************************************************************************)
(* The transport stream of an encoder carried to a decoder that may miss   *)
(* packets or get one twice, which the continuity counters are for.  The   *)
(* encoder does not see the decoder, so that what is written is carried    *)
(* off before it writes again: no other order shows anything else.         *)
(***************************************************************************)
EXTENDS TsMux, TsDemux

CONSTANT Others      \* what of other muxers comes in one piece, as sequences of packets

VARIABLES
    hit,              \* history: the units of which a packet was lost or repeated, or
                      \* was left because no table had told its channel
    wrapped           \* history: a packet with the last counter was not carried

linkVars == <<muxVars, demuxVars, hit, wrapped>>

Init == MuxInit /\ DemuxInit /\ hit = {} /\ wrapped = FALSE

IsPes(w) == w.data.unit > 0
ASSUME OthersAssumption ==
    \A others \in Others : others \in Seq(ToSet(others)) /\ \A w \in ToSet(others) : ~IsPes(w)
UnitsOf(w) == IF IsPes(w) THEN {w.data.unit} ELSE {}
IsLast(w) == IsPes(w) /\ w.cc = 15

Idle == stream = <<>> /\ packet = NoPacket

Write ==
    /\ Idle /\ Mux
    /\ wrapped' = (wrapped \/ (faults' # faults /\ units' # units
                               /\ (Last(units').cc + Last(units').written) % 16 = 15))
    /\ UNCHANGED <<demuxVars, hit>>

Ready == stream # <<>> /\ packet = NoPacket
Reaches(w) == packet' = w /\ UNCHANGED <<pids, pure_audio, partial, delivered>>
Carries == stream' = Tail(stream) /\ UNCHANGED <<encoder, now, frames, cache, acodec, tables,
                                                 counters, units, opens>>

Carry ==
    /\ Ready /\ Reaches(Head(stream)) /\ Carries
    /\ UNCHANGED <<faults, hit, wrapped>>

Repeat ==
    /\ Ready /\ faults < MaxFaults
    /\ Reaches(Head(stream)) /\ stream' = stream
    /\ faults' = faults + 1 /\ hit' = hit \cup UnitsOf(Head(stream))
    /\ UNCHANGED <<encoder, now, frames, cache, acodec, tables, counters, units, opens, wrapped>>

Lose ==
    /\ Ready /\ faults < MaxFaults
    /\ Carries
    /\ faults' = faults + 1 /\ hit' = hit \cup UnitsOf(Head(stream))
    /\ wrapped' = (wrapped \/ IsLast(Head(stream)))
    /\ UNCHANGED demuxVars

\* What is not of the encoder's program comes in between its packets.
Mixed ==
    /\ Ready /\ faults < MaxFaults
    /\ \E others \in Others : stream' = others \o stream
    /\ faults' = faults + 1
    /\ UNCHANGED <<encoder, now, frames, cache, acodec, tables, counters, units, opens,
                   demuxVars, hit, wrapped>>

Decode ==
    /\ Demux
    /\ hit' = IF Leave THEN hit \cup UnitsOf(packet) ELSE hit
    /\ UNCHANGED <<muxVars, wrapped>>

Next == Write \/ Carry \/ Repeat \/ Lose \/ Mixed \/ Decode
Spec == Init /\ [][Next]_linkVars

----------------------------------------------------------------------------

OfTheEncoder(d) == Head(d.pieces).unit > 0
UnitOf(d) == Head(d.pieces).unit

Entire(d, u) ==
    /\ \A p \in ToSet(d.pieces) : p.unit = u
    /\ Head(d.pieces).from = 0
    /\ \A i \in 1..Len(d.pieces) - 1 : d.pieces[i + 1].from = d.pieces[i].from + d.pieces[i].n
    /\ Last(d.pieces).from + Last(d.pieces).n = units[u].size
    /\ d.codec = units[u].codec

\* The times are told in 33 bits.
Timed(d, u) == d.dts = units[u].dts % TimeRange /\ d.pts = units[u].pts % TimeRange

(***************************************************************************)
(* What the handler gets is a PES packet of the encoder, entire and with   *)
(* the times it was given, whatever packets were lost, repeated or never   *)
(* written and whatever came between them.  Where the length was not told  *)
(* this needs that the packet with counter 15 arrived: behind a lost one   *)
(* the packets 0 to 14 are taken for late ones, and 15 continues the       *)
(* message, though "the continous count must be continuous, or drop it".   *)
(***************************************************************************)
DeliveredEntire ==
    \A i \in DOMAIN delivered :
        LET d == delivered[i]
        IN  OfTheEncoder(d) => /\ Timed(d, UnitOf(d))
                               /\ d.length > 0 \/ ~wrapped => Entire(d, UnitOf(d))

(***************************************************************************)
(* A packet that arrives has headers, stuffing and data that fill it, and  *)
(* the clock it carries is never ahead of the time its frame is to be      *)
(* decoded at, and behind it by less than what the mask of the reference   *)
(* drops.                                                                  *)
(***************************************************************************)
PacketsAreSound ==
    Arrived /\ IsPes(packet) =>
        /\ ~AdaptationFails(packet) /\ packet.data.n = DataRead(packet)
        /\ "pcr" \in packet.adaptation.parts
           => DtsRead(packet) - packet.adaptation.clock \in 0..ClockStep - 1

(***************************************************************************)
(* The frames of a channel come in order and none comes twice, though the  *)
(* encoder writes a frame again behind a write that failed; a PES packet   *)
(* of one packet that is repeated comes twice, since only the message      *)
(* under way is compared.                                                  *)
(***************************************************************************)
FramesInOrder ==
    \A i, j \in DOMAIN delivered :
        LET u == UnitOf(delivered[i])
            v == UnitOf(delivered[j])
        IN  /\ i < j /\ OfTheEncoder(delivered[i]) /\ OfTheEncoder(delivered[j])
            /\ units[u].codec = units[v].codec /\ ~(u = v /\ u \in hit) /\ ~wrapped
            => Last(units[u].frames) < Head(units[v].frames)

(***************************************************************************)
(* A lost or repeated packet costs no message but its own and, of unknown  *)
(* length, the one before it on its channel, and a packet of another muxer *)
(* costs none: with all carried off and decoded, every other one was       *)
(* delivered.                                                              *)
(***************************************************************************)
Whole(u) == units[u].written = units[u].packets /\ u \notin hit
Follows(v, u) == /\ v > u /\ units[v].codec = units[u].codec
                 /\ \A w \in u + 1..v - 1 : units[w].codec # units[u].codec
IsDelivered(u) == \E i \in DOMAIN delivered : UnitOf(delivered[i]) = u

OnlyHitAreLost ==
    Idle /\ ~wrapped =>
        \A u \in DOMAIN units :
            Whole(u) /\ (units[u].declared > 0 \/ \E v \in DOMAIN units :
                            Follows(v, u) /\ units[v].written > 0 /\ v \notin hit)
            => IsDelivered(u)
=============================================================================
