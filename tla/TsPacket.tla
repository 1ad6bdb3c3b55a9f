------------------------------ MODULE TsPacket ------------------------------
(***************************************************************************)
(* The packets of a transport stream, srs_kernel_ts.cpp: how SrsTsPacket,  *)
(* its adaptation field and its payload (PAT, PMT, PES) are made, sized,   *)
(* padded and written, and what is read back from them.  A packet on the   *)
(* wire is the record of the fields that encode() writes, its data a run   *)
(* of n bytes at `from' of PES packet `unit'; the bits of a field are      *)
(* modelled where they do not hold all of its value.                       *)
(***************************************************************************)
EXTENDS Integers, Sequences, FiniteSets, SequencesExt, FiniteSetsExt

CONSTANTS
    PacketSize,      \* SRS_TS_PACKET_SIZE
    PesLengthMax,    \* 0xFFFF, what the 16 bits of PES_packet_length hold
    TimePart,        \* 2^15, and
    TimeHigh,        \* 2^3: a time has two parts of 15 bits below one of 3
    ClockStep        \* 2^9: the bits of a clock reference that are masked away

ASSUME PacketAssumption ==
    /\ PacketSize \in Nat /\ PacketSize > 40 /\ PesLengthMax \in Nat
    /\ {TimePart, TimeHigh, ClockStep} \subseteq Nat \ {0}
    /\ TimePart % ClockStep = 0

----------------------------------------------------------------------------
(* The optional parts of the two headers, and what each takes. *)

AdaptationParts ==
    [pcr |-> 6, opcr |-> 6, splice |-> 1, private |-> 1, extension |-> 2,
     ltw |-> 2, piecewise |-> 3, seamless |-> 5]

PesParts ==
    [pts |-> 5, dts |-> 5, escr |-> 6, rate |-> 3, trick |-> 1, copy |-> 1, crc |-> 2,
     extension |-> 1, private |-> 16, pack |-> 1, counter |-> 2, buffer |-> 2, field |-> 1]

SizeOf(parts, sizes) == Cardinality(UNION {{p} \X (1..sizes[p]) : p \in parts})

\* The stream ids whose PES packets have no header behind the length.
Headless == {"ProgramStreamMap", "PaddingStream", "PrivateStream2", "EcmStream", "EmmStream",
             "ProgramStreamDirectory", "DsmccStream", "H2221TypeE"}

----------------------------------------------------------------------------
(* Times: encode_33bits_dts_pts, decode_33bits_dts_pts and the clock reference. *)

TimeRange == TimePart * TimePart * TimeHigh

Time33(v) == << (v \div (TimePart * TimePart)) % TimeHigh, (v \div TimePart) % TimePart,
                v % TimePart >>
TimeOf(parts) == (parts[1] * TimePart + parts[2]) * TimePart + parts[3]

\* Mutant: the mask is one bit short.
ClockMaskedTwice(base) == (base % TimeRange) - (base % (2 * ClockStep))

\* The mask of the reference clears the low bits of its base.
ClockBase(base) == (base % TimeRange) - (base % ClockStep)

----------------------------------------------------------------------------
(* Packets in memory. *)

\* adaption_field_control.
Reserved == 0
PayloadOnly == 1
AdaptationOnly == 2
Both == 3

NoPayload == [kind |-> "none"]

HasAdaptation(p) == p.control \in {AdaptationOnly, Both}
HasPayload(p) == p.control \in {PayloadOnly, Both}

Adaptation(parts, clock) == [parts |-> parts, clock |-> clock, reserved |-> 0]

Base(pid, start, cc, payload) ==
    [sync |-> TRUE, start |-> start, pid |-> pid, control |-> PayloadOnly, cc |-> cc,
     adaptation |-> Adaptation({}, 0), payload |-> payload]

PatPayload(programs) == [kind |-> "PAT", programs |-> programs]
EsInfo(stream, pid) == [stream |-> stream, pid |-> pid]
PmtPayload(clock, infos) == [kind |-> "PMT", clock |-> clock, infos |-> infos]
PesPayload(sid, length, parts, dts, pts) ==
    [kind |-> "PES", sid |-> sid, length |-> length, parts |-> parts, stuffing |-> 0,
     dts |-> dts, pts |-> pts]

CreatePat(pmt) == Base("PAT", TRUE, 0, PatPayload(<<pmt>>))

(***************************************************************************)
(* Audio first; the clock is said to be on the video when there is one.    *)
(* A PID is named for the codec of its channel.                            *)
(***************************************************************************)
CreatePmt(pmt, video, audio) ==
    Base(pmt, TRUE, 0, PmtPayload(video, << EsInfo(audio, audio), EsInfo(video, video) >>))

\* clock is -1 when none is to be written.
CreatePesFirst(pid, sid, cc, clock, dts, pts, size) ==
    LET p == Base(pid, TRUE, cc,
                  PesPayload(sid, IF size > PesLengthMax THEN 0 ELSE size,
                             IF dts = pts THEN {"pts"} ELSE {"pts", "dts"}, dts, pts))
    IN  IF clock < 0 THEN p
        ELSE [p EXCEPT !.control = Both, !.adaptation = Adaptation({"pcr"}, clock)]

CreatePesContinue(pid, cc) == Base(pid, FALSE, cc, NoPayload)

----------------------------------------------------------------------------
(* Sizes. *)

AdaptationSize(a) == 2 + SizeOf(a.parts, AdaptationParts) + a.reserved

ProgramSize == 4
InfoSize == 5

\* psi_size, of the PAT and of the PMT; the section takes the checksum with it.
PatSize(pat) == 5 + ProgramSize * Len(pat.programs)
PmtSize(pmt) == 9 + InfoSize * Len(pmt.infos)
SectionLength(payload) == 4 + IF payload.kind = "PAT" THEN PatSize(payload) ELSE PmtSize(payload)

HeaderDataLength(payload) == SizeOf(payload.parts, PesParts)
PesSize(payload) ==
    IF payload.sid \in Headless THEN 0
    ELSE 6 + 3 + HeaderDataLength(payload) + payload.stuffing

PayloadSize(p) ==
    CASE p.payload.kind = "none" -> 0
      [] p.payload.kind = "PES"  -> PesSize(p.payload)
      [] OTHER                   -> (IF p.start THEN 1 ELSE 0) + 3 + SectionLength(p.payload)

SizeOfPacket(p) ==
    4 + (IF HasAdaptation(p) THEN AdaptationSize(p.adaptation) ELSE 0) + PayloadSize(p)

\* A new adaptation field takes two bytes, which count for the stuffing.
Padding(p, stuffing) ==
    [p EXCEPT !.adaptation.reserved =
                  IF HasAdaptation(p) THEN stuffing ELSE Max({0, stuffing - 2}),
              !.control = Both]

----------------------------------------------------------------------------
(* Packets on the wire. *)

NoData == [unit |-> 0, from |-> 0, n |-> 0]

(***************************************************************************)
(* The lengths are those that size() left behind.  The length of a PES     *)
(* packet counts the bytes behind it, header included.                     *)
(***************************************************************************)
ToldLength(payload) ==
    LET told == payload.length + 3 + HeaderDataLength(payload)
    IN  IF payload.length > 0 /\ told <= PesLengthMax THEN told ELSE 0

EncodeAdaptation(a) ==
    [length |-> AdaptationSize(a) - 1, parts |-> a.parts,
     clock |-> IF "pcr" \in a.parts THEN ClockBase(a.clock) ELSE 0]

EncodePes(payload) ==
    [kind |-> "PES", prefix |-> TRUE, sid |-> payload.sid, length |-> ToldLength(payload),
     parts |-> payload.parts, header |-> HeaderDataLength(payload),
     pts |-> Time33(payload.pts),
     dts |-> IF "dts" \in payload.parts THEN Time33(payload.dts) ELSE <<0, 0, 0>>]

\* psi_encode, of the PAT and of the PMT.
EncodePat(pat, length) == [kind |-> "PAT", section |-> length, programs |-> pat.programs]
EncodePmt(pmt, length) ==
    [kind |-> "PMT", section |-> length, clock |-> pmt.clock, infos |-> pmt.infos]

EncodePsi(payload) ==
    IF payload.kind = "PAT" THEN EncodePat(payload, SectionLength(payload))
    ELSE EncodePmt(payload, SectionLength(payload))

EncodePayload(payload) ==
    CASE payload.kind = "none" -> payload
      [] payload.kind = "PES"  -> EncodePes(payload)
      [] OTHER                 -> EncodePsi(payload)

\* The counter is a byte, of which a packet takes the low four bits.
EncodePacket(p, data) ==
    [sync |-> p.sync, start |-> p.start, pid |-> p.pid, control |-> p.control, cc |-> p.cc % 16,
     adaptation |-> EncodeAdaptation(p.adaptation),
     payload |-> EncodePayload(p.payload), data |-> data]

----------------------------------------------------------------------------
(* What is read from the wire. *)

\* An adaptation field ends where its length says, whatever parts it has.
AdaptationRead(w) == IF HasAdaptation(w) THEN 1 + w.adaptation.length ELSE 0

AdaptationFails(w) ==
    \/ w.control = Both /\ w.adaptation.length > PacketSize - 6
    \/ w.control = AdaptationOnly /\ w.adaptation.length # PacketSize - 5

\* nb_payload.
PayloadRead(w) == PacketSize - 4 - AdaptationRead(w)

\* The bytes of a PES packet in a packet, and its length, 0 when it is not told.
PesHeaderRead(w) ==
    IF ~w.start THEN 0
    ELSE IF w.payload.sid \in Headless THEN 6
    ELSE 6 + 3 + w.payload.header
DataRead(w) == PayloadRead(w) - PesHeaderRead(w)
LengthRead(w) ==
    IF w.payload.sid \in Headless \/ w.payload.length = 0 THEN 0
    ELSE Max({0, w.payload.length - 3 - w.payload.header})

PtsRead(w) == TimeOf(w.payload.pts)
DtsRead(w) == IF "dts" \in w.payload.parts THEN TimeOf(w.payload.dts) ELSE PtsRead(w)

\* The programs and the streams that fit in the section.
ProgramsRead(w) ==
    SubSeq(w.payload.programs, 1, (w.payload.section - 4 - 5) \div ProgramSize)
InfosRead(w) ==
    SubSeq(w.payload.infos, 1, (w.payload.section - 4 - 9) \div InfoSize)
=============================================================================
