----------------------------- MODULE MCFlvPipe -----------------------------
(***************************************************************************)
(* An instance of FlvPipe with pictures of three by four and five by one   *)
(* macroblocks, NALUs of lengths around those that look like a start code, *)
(* and ADTS of one and three frames, with and without a checksum, and cut. *)
(***************************************************************************)
EXTENDS FlvPipe

Bits01(digits) == [i \in DOMAIN digits |-> IF digits[i] = 1 THEN One ELSE Zero]

\* id 0; frame numbers 0; order type 0 with 0, or 2; no reference frames and no gaps.
Baseline == <<103, 66, 0, 30>> \o Bits01(<<1, 1, 1, 1, 1, 0>>)
High == <<103, 100, 0, 30>> \o Bits01(<<1, 0,1,0, 1, 1, 0, 0, 1, 0,1,1, 1, 0>>)

\* Three by four and five by one macroblocks.
MCPictures ==
    { [sps |-> High \o Bits01(<<0,1,1, 0,0,1,0,0>>), pps |-> <<104, 99>>, width |-> 48, height |-> 64],
      [sps |-> Baseline \o Bits01(<<0,0,1,0,1, 1>>), pps |-> <<104>>, width |-> 80, height |-> 16] }

Slice(n) == <<65>> \o [i \in 1 .. n - 1 |-> 99]
Idr(n) == <<101>> \o [i \in 1 .. n - 1 |-> 99]
MCNaluLists ==
    {<<Slice(1)>>, <<Idr(3)>>, <<Slice(9)>>, <<Idr(2), Slice(1)>>,
     <<Slice(1), Slice(1), Slice(1), Slice(1)>>}

\* The header of a frame of AAC LC or another profile, in stereo.
Adts(protection_absent, profile, index, frame_length) ==
    << 255, 240 + protection_absent, profile * 64 + index * 4, 2 * 64 + frame_length \div 2048,
       (frame_length \div 8) % 256, (frame_length % 8) * 32 + 31, 252 >>
Plain == Adts(1, 1, 4, 9) \o <<99, 98>>
\* Three frames, of which the second has a checksum and the third is cut; a reserved
\* profile; nothing behind the header.
MCAdtsBuffers ==
    {Plain \o Adts(0, 1, 3, 10) \o <<88, 88, 96>> \o Adts(1, 1, 4, 12) \o <<94>>,
     Adts(1, 3, 4, 8) \o <<95>>, Adts(1, 1, 4, 7)}
============================================================================
